------------------------ MODULE GatewayRefreshProofs ------------------------
(***************************************************************************)
(* Theorems about GatewayRefresh, for every set of provider names,         *)
(* configurations, concurrent calls and loads, and every number of changes *)
(* of the source.                                                          *)
(***************************************************************************)
EXTENDS GatewayRefresh, TLAPS

USE RegistryAssumption, RefreshAssumption

Verdict == {"success", "fault", "nobody"}

(* What a step does, one disjunct per action. *)
LEMMA Steps ==
  ASSUME [Next]_vars
  PROVE  \/ UNCHANGED vars
         \/ \E n \in Name, cfg \in Cfg \cup {None} : Edit(n, cfg)
         \/ Lapse \/ Dispose \/ Disposed
         \/ \E c \in Call :
              \/ \E l \in Load : EnterStart(c, l)
              \/ \E verdict \in Verdict : End(c, verdict)
              \/ EnterFresh(c) \/ EnterJoin(c) \/ Resolve(c) \/ NoProvider(c)
              \/ Chunk(c) \/ Expire(c) \/ CircuitOpens(c)
         \/ \E l \in Load :
              \/ Read(l) \/ LoadFails(l) \/ LoadIgnored(l) \/ LoadApplied(l)
              \/ LoadRejected(l)
         \/ \E i \in Inst : DisposalFires(i) \/ Collect(i)
BY DEF Next, StreamStep, LoadStep, Verdict

-----------------------------------------------------------------------------
(* At most one load is under way, it began after the TTL had passed, and   *)
(* whoever waits waits for it.                                             *)
SingleFlight ==
  /\ \A l \in Load : stage[l] # "idle" => shared = l /\ lapsed
  /\ \A l \in Load : stage[l] = "read" => snapAt[l] >= lapsedAt
  /\ shared # None => stage[shared] # "idle"
  /\ \A c \in Call : awaits[c] # None <=> phase[c] = "waiting"
  /\ \A c \in Call : awaits[c] # None => awaits[c] = shared
  /\ lapsedAt <= edits

(* Only a stream that is in flight has an idle timer. *)
Timers == \A c \in armed : InFlight(c)

Typed == TypeOK /\ SingleFlight /\ Timers

(* Building instances for the names in S gives each of them one where      *)
(* there was none, and changes no other.                                   *)
LEMMA Built ==
  ASSUME RegistryTypeOK, NEW S \in SUBSET Name, NEW new \in Config,
         \A n \in S : new[n] # None, Room(S), Build(S, new)
  PROVE  /\ config' \in [Inst -> Cfg \cup {None}]
         /\ \A n \in S : /\ Spare(n) \in Inst /\ Spare(n)[1] = n
                         /\ config[Spare(n)] = None
                         /\ config'[Spare(n)] = new[n] /\ config'[Spare(n)] # None
         /\ \A i \in Inst : config[i] # None => config'[i] = config[i]
         /\ \A i \in Inst : config'[i] # config[i] => i[1] \in S /\ i = Spare(i[1])
<1>1. \A n \in S : Spare(n) \in Inst /\ Spare(n)[1] = n /\ config[Spare(n)] = None
  <2> SUFFICES ASSUME NEW n \in S
               PROVE  Spare(n) \in Inst /\ Spare(n)[1] = n /\ config[Spare(n)] = None
    OBVIOUS
  <2>1. \E i \in Inst : i[1] = n /\ config[i] = None
    BY DEF Room
  <2> QED BY <2>1 DEF Spare
<1>2. \A i \in Inst : config'[i] = IF i[1] \in S /\ i = Spare(i[1]) THEN new[i[1]] ELSE config[i]
  BY DEF Build
<1>3. \A i \in Inst : i[1] \in Name
  BY DEF Inst
<1>4. config' \in [Inst -> Cfg \cup {None}]
  BY <1>3 DEF Build, RegistryTypeOK, Config
<1> QED BY <1>1, <1>2, <1>3, <1>4

(* The source's configurations are configurations of the names to swap. *)
LEMMA Swaps ==
  ASSUME NEW new \in Config
  PROVE  /\ Changed(new) \in SUBSET Name /\ Removed(new) \in SUBSET Name
         /\ \A n \in Changed(new) : new[n] # None
BY DEF Changed, Removed

(* A refresh, applied or failed, keeps the registry's variables typed. *)
LEMMA ApplyTyped ==
  ASSUME RegistryTypeOK, NEW new \in Config, Apply(new) \/ ApplyFails(new)
  PROVE  RegistryTypeOK'
<1>1. CASE Apply(new)
  <2> DEFINE S == Changed(new)
             R == Removed(new)
  <2>1. Room(S) /\ Build(S, new)
    BY <1>1 DEF Apply
  <2>2. config' \in [Inst -> Cfg \cup {None}] /\ \A n \in S : Spare(n) \in Inst
    BY <2>1, Built, Swaps
  <2>3. raw' \in [Name -> Inst \cup {None}]
    BY <1>1, <2>2 DEF Apply, RegistryTypeOK
  <2>4. {raw[n] : n \in S \cup R} \ {None} \in SUBSET Inst
    BY Swaps DEF RegistryTypeOK
  <2>5. pending' \in SUBSET Inst /\ outlasts' \in [Inst -> SUBSET Call] /\ disposals' = disposals
    BY <1>1, <2>4 DEF Apply, DeferDispose, RegistryTypeOK
  <2>6. health' \in [Name -> {"up", "down", "gone"}]
    BY <1>1 DEF Apply, RegistryTypeOK
  <2> QED BY <1>1, <2>2, <2>3, <2>5, <2>6 DEF Apply, RegistryTypeOK
<1>2. CASE ApplyFails(new)
  <2>1. PICK S \in SUBSET Changed(new) :
          /\ Room(S)
          /\ Build(S, new)
          /\ disposals' = [i \in Inst |-> IF i[1] \in S /\ i = Spare(i[1]) THEN disposals[i] + 1
                                          ELSE disposals[i]]
    BY <1>2 DEF ApplyFails
  <2>2. config' \in [Inst -> Cfg \cup {None}]
    BY <2>1, Built, Swaps
  <2>3. disposals' \in [Inst -> Nat]
    BY <2>1 DEF RegistryTypeOK
  <2> QED BY <1>2, <2>2, <2>3 DEF ApplyFails, RegistryTypeOK
<1> QED BY <1>1, <1>2

(* When the shared load settles no load is under way and nobody waits; no  *)
(* call that holds a provider is touched.                                  *)
LEMMA Settled ==
  ASSUME Typed, NEW l \in Load, stage[l] # "idle", NEW ok \in BOOLEAN, Settle(l, ok)
  PROVE  /\ stage' = [k \in Load |-> "idle"]
         /\ snap' \in [Load -> Config] /\ snapAt' \in [Load -> 0 .. MaxEdits]
         /\ shared' = None
         /\ phase' \in [Call -> {"idle", "waiting", "due", "open", "expired"}]
         /\ awaits' = [c \in Call |-> None]
         /\ \A c \in Call : phase'[c] # "waiting"
         /\ \A c \in Call : InFlight(c)' <=> InFlight(c)
         /\ \A c \in Call : phase'[c] = "open" => phase[c] = "open"
         /\ UNCHANGED <<gateway, source, holds, fed>>
<1>1. \A k \in Load \ {l} : stage[k] = "idle"
  BY DEF Typed, SingleFlight
<1>2. stage' = [k \in Load |-> "idle"]
  BY <1>1 DEF Settle, LetGo, Typed, TypeOK
<1>3. \A c \in Call : awaits[c] # None => awaits[c] = l /\ phase[c] = "waiting"
  BY DEF Typed, SingleFlight
<1>4. \A c \in Call : phase[c] = "waiting" => awaits[c] = l
  BY <1>3 DEF Typed, SingleFlight
<1>5. awaits' = [c \in Call |-> None]
  BY <1>3 DEF Settle, LetGo, Typed, TypeOK
<1>6. \A c \in Call : phase'[c] = IF awaits[c] # l THEN phase[c] ELSE IF ok THEN "due" ELSE "idle"
  BY DEF Settle, LetGo
<1>7. phase' \in [Call -> {"idle", "waiting", "due", "open", "expired"}]
  BY DEF Settle, LetGo, Typed, TypeOK
<1>8. snap' \in [Load -> Config] /\ snapAt' \in [Load -> 0 .. MaxEdits]
  BY DEF Settle, LetGo, Typed, TypeOK, Empty, Config
<1>9. \A c \in Call : IF phase[c] = "waiting" THEN phase'[c] \in {"due", "idle"}
                       ELSE phase'[c] = phase[c]
  BY <1>3, <1>4, <1>6
<1>10. UNCHANGED <<gateway, source, holds, fed>> /\ shared' = None
  BY DEF Settle, LetGo
<1> HIDE DEF Typed, Settle
<1> QED BY <1>2, <1>5, <1>7, <1>8, <1>9, <1>10 DEF InFlight

(* Every step keeps the types and the single flight. *)
LEMMA TypedStep == ASSUME Typed, [Next]_vars PROVE Typed'
<1> USE DEF Typed
<1>1. CASE UNCHANGED vars
  BY <1>1 DEF vars, registryVars, registry, disposal, source, refresh, calls, history,
       TypeOK, RegistryTypeOK, SingleFlight, Timers, InFlight
<1>2. ASSUME NEW n \in Name, NEW cfg \in Cfg \cup {None}, Edit(n, cfg) PROVE Typed'
  BY <1>2 DEF Edit, registryVars, registry, disposal, refresh, calls, history,
       TypeOK, RegistryTypeOK, SingleFlight, Timers, InFlight, Config
<1>3. CASE Lapse
  BY <1>3 DEF Lapse, registryVars, registry, disposal, source, calls,
       TypeOK, RegistryTypeOK, SingleFlight, Timers, InFlight
<1>4. ASSUME Dispose PROVE Typed'
  <2>1. disposals' \in [Inst -> Nat]
    BY <1>4 DEF Dispose, DisposeAll, TypeOK, RegistryTypeOK
  <2> QED BY <1>4, <2>1 DEF Dispose, DisposeAll, registry, source, refresh, calls, history,
            TypeOK, RegistryTypeOK, SingleFlight, Timers, InFlight
<1>5. ASSUME Disposed PROVE Typed'
  BY <1>5 DEF Disposed, UnregisterAll, disposal, source, refresh, calls, history,
       TypeOK, RegistryTypeOK, SingleFlight, Timers, InFlight, Config
<1>6. ASSUME NEW c \in Call, NEW l \in Load, EnterStart(c, l) PROVE Typed'
  BY <1>6 DEF EnterStart, StartsLoad, registryVars, registry, disposal, source, history,
       TypeOK, RegistryTypeOK, SingleFlight, Timers, InFlight
<1>7. ASSUME NEW c \in Call, EnterFresh(c) \/ EnterJoin(c) \/ NoProvider(c) PROVE Typed'
  BY <1>7 DEF EnterFresh, EnterJoin, NoProvider, registryVars, registry, disposal, source,
       refresh, history, TypeOK, RegistryTypeOK, SingleFlight, Timers, InFlight
<1>8. ASSUME NEW c \in Call, Resolve(c) PROVE Typed'
  <2>1. PICK n \in Selectable(c) : /\ phase' = [phase EXCEPT ![c] = "open"]
                                   /\ holds' = [holds EXCEPT ![c] = raw[n]]
                                   /\ armed' = armed \cup {c}
    BY <1>8 DEF Resolve
  <2>2. raw[n] \in Inst
    BY DEF Selectable, TypeOK, RegistryTypeOK
  <2> QED BY <1>8, <2>1, <2>2 DEF Resolve, registry, disposal, source, refresh, history,
            TypeOK, RegistryTypeOK, SingleFlight, Timers, InFlight
<1>9. ASSUME NEW c \in Call, NEW verdict \in Verdict, End(c, verdict) PROVE Typed'
  <2>1. holds[c] \in Inst /\ holds[c][1] \in Name
    BY <1>9 DEF End, InFlight, TypeOK, Inst
  <2>2. HealthAfter(holds[c][1], verdict) \in {"up", "down", "gone"}
    BY <2>1 DEF HealthAfter, TypeOK, RegistryTypeOK
  <2>3. health' \in [Name -> {"up", "down", "gone"}]
    BY <1>9, <2>2 DEF End, TypeOK, RegistryTypeOK
  <2> QED BY <1>9, <2>1, <2>3 DEF End, Outlived, source, refresh, history,
            TypeOK, RegistryTypeOK, SingleFlight, Timers, InFlight
<1>10. ASSUME NEW c \in Call, Chunk(c) \/ Expire(c) \/ CircuitOpens(c) PROVE Typed'
  <2>1. CASE Chunk(c)
    BY <2>1 DEF Chunk, Outlived, registry, source, refresh, history,
         TypeOK, RegistryTypeOK, SingleFlight, Timers, InFlight
  <2>2. CASE Expire(c)
    BY <2>2 DEF Expire, Outlived, registry, source, refresh, history,
         TypeOK, RegistryTypeOK, SingleFlight, Timers, InFlight
  <2>3. CASE CircuitOpens(c)
    BY <2>3 DEF CircuitOpens, registry, disposal, source, refresh, calls, history,
         TypeOK, RegistryTypeOK, SingleFlight, Timers, InFlight
  <2> QED BY <1>10, <2>1, <2>2, <2>3
<1>11. ASSUME NEW l \in Load, Read(l) PROVE Typed'
  BY <1>11 DEF Read, registryVars, registry, disposal, source, calls, history,
       TypeOK, RegistryTypeOK, SingleFlight, Timers, InFlight, Config
<1>12. ASSUME NEW l \in Load,
              LoadFails(l) \/ LoadIgnored(l) \/ LoadApplied(l) \/ LoadRejected(l)
       PROVE  Typed'
  <2>1. stage[l] # "idle" /\ \E ok \in BOOLEAN : Settle(l, ok)
    BY <1>12 DEF LoadFails, LoadIgnored, LoadApplied, LoadRejected, KeepOld, TypeOK
  <2>2. PICK ok \in BOOLEAN : Settle(l, ok)
    BY <2>1
  <2> HIDE DEF Typed
  <2>3. RegistryTypeOK'
    <3>1. snap[l] \in Config
      BY DEF Typed, TypeOK
    <3>2. CASE UNCHANGED registryVars
      BY <3>2 DEF Typed, TypeOK, RegistryTypeOK, registryVars, registry, disposal
    <3>3. CASE Apply(snap[l]) \/ ApplyFails(snap[l])
      BY <3>1, <3>3, ApplyTyped DEF Typed, TypeOK
    <3> QED BY <1>12, <3>2, <3>3 DEF LoadFails, LoadIgnored, LoadApplied, LoadRejected
  <2>4. /\ lapsed' \in BOOLEAN /\ loadedOnce' \in BOOLEAN /\ kept' \in BOOLEAN
        /\ applied' \in Config /\ appliedAt' \in 0 .. MaxEdits
        /\ lapsedAt' = lapsedAt
    <3>1. CASE LoadApplied(l)
      BY <3>1 DEF LoadApplied, Typed, TypeOK
    <3>2. CASE KeepOld(l)
      BY <3>2 DEF KeepOld, Typed, TypeOK
    <3>3. CASE UNCHANGED <<lapsed, loadedOnce, history>>
      BY <3>3 DEF history, Typed, TypeOK
    <3> QED BY <1>12, <3>1, <3>2, <3>3 DEF LoadFails, LoadIgnored, LoadRejected
  <2>5. TypeOK'
    BY <2>1, <2>2, <2>3, <2>4, Settled DEF Typed, TypeOK, InFlight, source
  <2>6. SingleFlight'
    BY <2>1, <2>2, <2>4, Settled DEF Typed, SingleFlight, source
  <2>7. Timers'
    <3>1. UNCHANGED armed
      BY <1>12 DEF LoadFails, LoadIgnored, LoadApplied, LoadRejected, Apply, ApplyFails,
           registryVars
    <3> QED BY <2>1, <2>2, <3>1, Settled DEF Typed, TypeOK, RegistryTypeOK, Timers
  <2> QED BY <2>5, <2>6, <2>7 DEF Typed
<1>13. ASSUME NEW i \in Inst, DisposalFires(i) \/ Collect(i) PROVE Typed'
  <2>1. CASE DisposalFires(i)
    BY <2>1 DEF DisposalFires, DisposalTimer, registry, source, refresh, calls, history,
         TypeOK, RegistryTypeOK, SingleFlight, Timers, InFlight
  <2>2. CASE Collect(i)
    BY <2>2 DEF Collect, source, refresh, calls, history, TypeOK, RegistryTypeOK, SingleFlight, Timers, InFlight
  <2> QED BY <1>13, <2>1, <2>2
<1> QED BY <1>1, <1>2, <1>3, <1>4, <1>5, <1>6, <1>7, <1>8, <1>9, <1>10, <1>11, <1>12, <1>13,
          Steps

(* Types and single flight hold throughout. *)
LEMMA TypedAlways == Spec => []Typed
<1>1. Init => Typed
  <2> SUFFICES ASSUME Init PROVE Typed
    OBVIOUS
  <2>1. RegistryTypeOK
    BY DEF Init, RegistryInit, RegistryTypeOK, Config
  <2>2. Empty \in Config
    BY DEF Empty, Config
  <2>3. TypeOK
    <3>1. /\ stage \in [Load -> {"idle", "asked", "read"}] /\ snap \in [Load -> Config]
          /\ snapAt \in [Load -> 0 .. MaxEdits]
      BY <2>2 DEF Init
    <3>2. /\ phase \in [Call -> {"idle", "waiting", "due", "open", "expired"}]
          /\ awaits \in [Call -> Load \cup {None}] /\ holds \in [Call -> Inst \cup {None}]
          /\ \A c \in Call : holds[c] # None <=> phase[c] \in {"open", "expired"}
      BY DEF Init
    <3>3. 0 \in 0 .. MaxEdits
      OBVIOUS
    <3>4. /\ table \in Config /\ applied \in Config /\ shared \in Load \cup {None}
          /\ fed \in SUBSET Call /\ gateway \in {"up", "closing", "down"}
          /\ lapsed \in BOOLEAN /\ loadedOnce \in BOOLEAN /\ kept \in BOOLEAN
      BY <2>2 DEF Init
    <3>5. edits = 0 /\ appliedAt = 0 /\ lapsedAt = 0
      BY DEF Init
    <3> QED BY <2>1, <3>1, <3>2, <3>3, <3>4, <3>5 DEF TypeOK
  <2>4. SingleFlight
    BY DEF Init, SingleFlight
  <2>5. Timers
    BY DEF Init, RegistryInit, Timers
  <2> QED BY <2>3, <2>4, <2>5 DEF Typed
<1> QED BY <1>1, TypedStep, PTL DEF Spec

(* TypeOK: types, and a call holds a provider exactly while it is in       *)
(* flight.                                                                 *)
THEOREM RefreshTyped == Spec => []TypeOK
BY TypedAlways, PTL DEF Typed

(* WaitersHaveLoad: nobody is left waiting for a load that has ended.      *)
THEOREM NobodyLeftWaiting == Spec => []WaitersHaveLoad
<1>1. Typed => WaitersHaveLoad
  BY DEF Typed, SingleFlight, WaitersHaveLoad
<1> QED BY <1>1, TypedAlways, PTL

(* FreshSinceLapse: a load that is applied was asked, and so read, after   *)
(* the TTL had passed, and no other replaces it.                           *)
THEOREM FreshAfterTTL == Spec => []FreshSinceLapse
<1>1. Init => FreshSinceLapse
  BY DEF Init, FreshSinceLapse
<1>2. Typed /\ FreshSinceLapse /\ [Next]_vars => FreshSinceLapse'
  <2> SUFFICES ASSUME Typed, FreshSinceLapse, [Next]_vars PROVE FreshSinceLapse'
    OBVIOUS
  <2>1. CASE UNCHANGED <<loadedOnce, lapsed, kept, appliedAt, lapsedAt>>
    BY <2>1 DEF FreshSinceLapse
  <2>2. CASE Lapse
    BY <2>2 DEF Lapse, FreshSinceLapse
  <2>3. ASSUME NEW l \in Load, KeepOld(l) PROVE FreshSinceLapse'
    BY <2>3 DEF KeepOld, FreshSinceLapse
  <2>4. ASSUME NEW l \in Load, LoadApplied(l) PROVE FreshSinceLapse'
    BY <2>4 DEF LoadApplied, Typed, SingleFlight, FreshSinceLapse
  <2> QED BY <2>1, <2>2, <2>3, <2>4, Steps
       DEF vars, refresh, history, Edit, Dispose, Disposed, EnterStart, EnterFresh, EnterJoin,
           Resolve, NoProvider, End, Chunk, Expire, CircuitOpens, Read, LoadFails, LoadIgnored,
           LoadRejected, DisposalFires, Collect
<1> QED BY <1>1, <1>2, TypedAlways, PTL DEF Spec

-----------------------------------------------------------------------------
(* A name registers instances of its own that exist, an instance that      *)
(* waits for its timer or is held exists, one that does not exist was not  *)
(* disposed, and no timer runs once dispose was called.                    *)
Existing ==
  /\ \A n \in Name : raw[n] # None => raw[n][1] = n /\ config[raw[n]] # None
  /\ \A i \in pending : config[i] # None
  /\ \A c \in Call : holds[c] # None => config[holds[c]] # None
  /\ \A i \in Inst : config[i] = None => disposals[i] = 0
  /\ gateway # "up" => pending = {}

InstanceInv == Existing /\ InstancesAccounted

(* A refresh that is applied keeps the instances accounted for: the new    *)
(* ones are registered, the displaced ones wait for their timer.           *)
LEMMA InstanceApply ==
  ASSUME Typed, InstanceInv, gateway = "up", NEW new \in Config, Apply(new),
         UNCHANGED <<gateway, holds>>
  PROVE  InstanceInv'
<1> DEFINE S == Changed(new)
           R == Removed(new)
           D == {raw[n] : n \in S \cup R} \ {None}
<1>1. RegistryTypeOK /\ S \in SUBSET Name /\ R \in SUBSET Name /\ Room(S) /\ Build(S, new)
  BY Swaps DEF Typed, TypeOK, Apply
<1>2. /\ \A n \in S : /\ Spare(n) \in Inst /\ Spare(n)[1] = n
                      /\ config[Spare(n)] = None /\ config'[Spare(n)] # None
      /\ \A i \in Inst : config[i] # None => config'[i] = config[i]
      /\ \A i \in Inst : config'[i] # config[i] => i[1] \in S /\ i = Spare(i[1])
  BY <1>1, Built, Swaps
<1>3. \A n \in Name : raw'[n] = IF n \in S THEN Spare(n) ELSE IF n \in R THEN None ELSE raw[n]
  BY DEF Apply
<1>4. \A n \in Name : raw[n] # None => raw[n] \in Inst /\ raw[n][1] = n /\ config[raw[n]] # None
  BY <1>1 DEF InstanceInv, Existing, RegistryTypeOK
<1>5. pending' = pending \cup D /\ disposals' = disposals
  BY DEF Apply, DeferDispose
<1>6. \A i \in pending : i \in Inst /\ config[i] # None
  BY <1>1 DEF InstanceInv, Existing, RegistryTypeOK
<1>7. \A c \in Call : holds[c] # None => holds[c] \in Inst /\ config[holds[c]] # None
  BY DEF InstanceInv, Existing, Typed, TypeOK
<1>8. \A i \in Inst : config[i] = None => disposals[i] = 0
  BY DEF InstanceInv, Existing
<1>9. Existing'
  <2>1. \A n \in Name : raw'[n] # None => raw'[n][1] = n /\ config'[raw'[n]] # None
    BY <1>2, <1>3, <1>4
  <2>2. \A i \in pending' : config'[i] # None
    BY <1>1, <1>2, <1>4, <1>5, <1>6
  <2>3. \A c \in Call : holds'[c] # None => config'[holds'[c]] # None
    BY <1>2, <1>7
  <2>4. \A i \in Inst : config'[i] = None => disposals'[i] = 0
    BY <1>2, <1>5, <1>8
  <2> QED BY <2>1, <2>2, <2>3, <2>4 DEF Existing
<1>10. InstancesAccounted'
  <2>1. Registered \cap pending = {} /\ \A i \in Inst : config[i] # None =>
          disposals[i] <= 1 /\ (disposals[i] = 0 <=> i \in Registered \cup pending)
    BY DEF InstanceInv, InstancesAccounted
  <2>2. \A i \in Inst : i \in Registered' <=>
          (i[1] \in S /\ i = Spare(i[1])) \/ (i \in Registered /\ i \notin D)
    <3> SUFFICES ASSUME NEW i \in Inst
                 PROVE  i \in Registered' <=>
                          (i[1] \in S /\ i = Spare(i[1])) \/ (i \in Registered /\ i \notin D)
      OBVIOUS
    <3>1. i # None
      OBVIOUS
    <3>2. ASSUME i \in Registered'
          PROVE  (i[1] \in S /\ i = Spare(i[1])) \/ (i \in Registered /\ i \notin D)
      <4>1. PICK n \in Name : i = raw'[n]
        BY <3>2 DEF Registered
      <4>2. CASE n \in S
        BY <1>2, <1>3, <4>1, <4>2
      <4>3. CASE n \notin S
        BY <1>1, <1>3, <1>4, <3>1, <4>1, <4>3 DEF Registered
      <4> QED BY <4>2, <4>3
    <3>3. ASSUME i[1] \in S, i = Spare(i[1]) PROVE i \in Registered'
      BY <1>1, <1>3, <3>1, <3>3 DEF Registered
    <3>4. ASSUME i \in Registered, i \notin D PROVE i \in Registered'
      <4>1. PICK n \in Name : i = raw[n]
        BY <3>4 DEF Registered
      <4> QED BY <1>3, <3>1, <3>4, <4>1 DEF Registered
    <3> QED BY <3>2, <3>3, <3>4
  <2>3. D \subseteq Registered /\ D \subseteq Inst
    BY <1>1, <1>4 DEF Registered
  <2>4. Registered' \subseteq Inst
    BY <1>2, <1>3, <1>4 DEF Registered
  <2>5. Registered' \cap pending' = {}
    BY <1>2, <1>4, <1>5, <1>6, <2>1, <2>2, <2>3, <2>4 DEF Registered
  <2>6. ASSUME NEW i \in Inst, config'[i] # None
        PROVE  disposals'[i] <= 1 /\ (disposals'[i] = 0 <=> i \in Registered' \cup pending')
    <3>1. CASE config[i] = None
      <4>1. i[1] \in S /\ i = Spare(i[1])
        BY <1>2, <2>6, <3>1
      <4> QED BY <1>5, <1>8, <2>2, <3>1, <4>1
    <3>2. CASE config[i] # None
      <4>1. ~(i[1] \in S /\ i = Spare(i[1]))
        BY <1>2, <3>2
      <4>2. i \in Registered' \cup pending' <=> i \in Registered \cup pending
        BY <1>5, <2>2, <2>3, <4>1
      <4> QED BY <1>5, <2>1, <3>2, <4>2
    <3> QED BY <3>1, <3>2
  <2> QED BY <2>5, <2>6 DEF InstancesAccounted
<1> QED BY <1>9, <1>10 DEF InstanceInv

(* A refresh that fails disposes what it built. *)
LEMMA InstanceApplyFails ==
  ASSUME Typed, InstanceInv, NEW new \in Config, ApplyFails(new),
         UNCHANGED <<gateway, holds>>
  PROVE  InstanceInv'
<1>1. PICK S \in SUBSET Changed(new) :
        /\ Room(S)
        /\ Build(S, new)
        /\ disposals' = [i \in Inst |-> IF i[1] \in S /\ i = Spare(i[1]) THEN disposals[i] + 1
                                        ELSE disposals[i]]
  BY DEF ApplyFails
<1>2. /\ \A n \in S : /\ Spare(n) \in Inst /\ Spare(n)[1] = n
                      /\ config[Spare(n)] = None /\ config'[Spare(n)] # None
      /\ \A i \in Inst : config[i] # None => config'[i] = config[i]
      /\ \A i \in Inst : config'[i] # config[i] => i[1] \in S /\ i = Spare(i[1])
  BY <1>1, Built, Swaps DEF Typed, TypeOK
<1>3. UNCHANGED <<raw, pending, gateway, holds>> /\ Registered' = Registered
  BY DEF ApplyFails, Registered
<1>4. /\ \A n \in Name : raw[n] # None => raw[n] \in Inst
      /\ \A c \in Call : holds[c] # None => holds[c] \in Inst
      /\ pending \subseteq Inst
      /\ \A i \in Inst : disposals[i] \in Nat
  BY DEF Typed, TypeOK, RegistryTypeOK
<1>5. Existing'
  BY <1>1, <1>2, <1>3, <1>4 DEF InstanceInv, Existing
<1>6. ASSUME NEW i \in Inst, config'[i] # None
      PROVE  /\ disposals'[i] <= 1
             /\ disposals'[i] = 0 <=> gateway = "up" /\ i \in Registered \cup pending
  <2>1. CASE config[i] = None
    <3>1. disposals'[i] = 1
      BY <1>1, <1>2, <1>6, <2>1 DEF InstanceInv, Existing
    <3>2. i \notin Registered \cup pending
      BY <2>1 DEF InstanceInv, Existing, Registered
    <3> QED BY <3>1, <3>2
  <2>2. CASE config[i] # None
    <3>1. disposals'[i] = disposals[i]
      BY <1>1, <1>2, <2>2
    <3> QED BY <2>2, <3>1 DEF InstanceInv, InstancesAccounted
  <2> QED BY <2>1, <2>2
<1> QED BY <1>3, <1>5, <1>6 DEF InstanceInv, InstancesAccounted

(* Every step keeps the instances accounted for. *)
LEMMA InstanceStep == ASSUME Typed, InstanceInv, [Next]_vars PROVE InstanceInv'
<1> USE DEF InstanceInv
<1>1. CASE UNCHANGED <<config, raw, pending, disposals, gateway, holds>>
  BY <1>1 DEF Existing, InstancesAccounted, Registered
<1>2. ASSUME NEW c \in Call, Resolve(c) PROVE InstanceInv'
  <2>1. PICK n \in Name : raw[n] # None /\ holds' = [holds EXCEPT ![c] = raw[n]]
    BY <1>2 DEF Resolve, Selectable
  <2>2. UNCHANGED <<config, raw, pending, disposals, gateway>>
    BY <1>2 DEF Resolve, registry, disposal
  <2>3. \A d \in Call : holds'[d] = holds[d] \/ holds'[d] = raw[n]
    BY <2>1 DEF Typed, TypeOK
  <2> QED BY <2>1, <2>2, <2>3 DEF Existing, InstancesAccounted, Registered
<1>3. ASSUME NEW c \in Call, NEW verdict \in Verdict, End(c, verdict) PROVE InstanceInv'
  <2>1. \A d \in Call : holds'[d] = holds[d] \/ holds'[d] = None
    BY <1>3 DEF End, Typed, TypeOK
  <2> QED BY <1>3, <2>1 DEF End, Existing, InstancesAccounted, Registered
<1>4. ASSUME NEW i \in Inst, DisposalFires(i) PROVE InstanceInv'
  <2>1. /\ i \in pending /\ pending' = pending \ {i}
        /\ disposals' = [disposals EXCEPT ![i] = @ + 1]
        /\ UNCHANGED <<config, raw, gateway, holds>>
    BY <1>4 DEF DisposalFires, DisposalTimer, DisposalDue, registry, calls
  <2>2. config[i] # None /\ gateway = "up" /\ i \notin Registered /\ disposals[i] = 0
    BY <2>1 DEF Existing, InstancesAccounted
  <2>3. \A j \in Inst : disposals'[j] = IF j = i THEN 1 ELSE disposals[j]
    BY <2>1, <2>2 DEF Typed, TypeOK, RegistryTypeOK
  <2>4. Existing'
    BY <2>1, <2>2, <2>3 DEF Existing
  <2>5. Registered' = Registered
    BY <2>1 DEF Registered
  <2>6. InstancesAccounted'
    BY <2>1, <2>2, <2>3, <2>5 DEF InstancesAccounted
  <2> QED BY <2>4, <2>6
<1>5. ASSUME NEW i \in Inst, Collect(i) PROVE InstanceInv'
  <2>1. /\ config' = [config EXCEPT ![i] = None] /\ disposals' = [disposals EXCEPT ![i] = 0]
        /\ i \notin Registered \cup pending /\ \A c \in Call : holds[c] # i
        /\ UNCHANGED <<raw, pending, gateway, holds>>
    BY <1>5 DEF Collect, calls
  <2>2. \A j \in Inst : /\ config'[j] = IF j = i THEN None ELSE config[j]
                       /\ disposals'[j] = IF j = i THEN 0 ELSE disposals[j]
    BY <2>1 DEF Typed, TypeOK, RegistryTypeOK
  <2>3. /\ \A n \in Name : raw[n] # None => raw[n] \in Inst /\ raw[n] # i
        /\ \A c \in Call : holds[c] # None => holds[c] \in Inst
        /\ pending \subseteq Inst
    BY <2>1 DEF Registered, Typed, TypeOK, RegistryTypeOK
  <2>4. Existing'
    BY <2>1, <2>2, <2>3 DEF Existing
  <2>5. Registered' = Registered
    BY <2>1 DEF Registered
  <2> QED BY <2>1, <2>2, <2>4, <2>5 DEF InstancesAccounted
<1>6. ASSUME Dispose PROVE InstanceInv'
  <2>1. /\ gateway = "up" /\ gateway' = "closing" /\ pending' = {}
        /\ UNCHANGED <<config, raw, holds>>
        /\ \A i \in Inst : disposals'[i] = IF i \in Registered \cup pending THEN disposals[i] + 1
                                           ELSE disposals[i]
    BY <1>6 DEF Dispose, DisposeAll, registry, calls
  <2>2. /\ \A n \in Name : raw[n] # None => raw[n] \in Inst
        /\ pending \subseteq Inst /\ \A i \in Inst : disposals[i] \in Nat
    BY DEF Typed, TypeOK, RegistryTypeOK
  <2>3. \A i \in Inst : config[i] = None => i \notin Registered \cup pending
    BY DEF Existing, Registered
  <2>4. Existing'
    BY <2>1, <2>3 DEF Existing
  <2>5. \A i \in Inst : config[i] # None => disposals'[i] = 1
    BY <2>1, <2>2 DEF InstancesAccounted
  <2> QED BY <2>1, <2>4, <2>5 DEF InstancesAccounted
<1>7. ASSUME Disposed PROVE InstanceInv'
  <2>1. /\ gateway = "closing" /\ gateway' = "down" /\ \A n \in Name : raw'[n] = None
        /\ UNCHANGED <<config, pending, disposals, holds>>
    BY <1>7 DEF Disposed, UnregisterAll, disposal, calls
  <2> QED BY <2>1 DEF Existing, InstancesAccounted
<1>8. ASSUME NEW l \in Load, LoadApplied(l) PROVE InstanceInv'
  <2>1. gateway = "up" /\ Apply(snap[l]) /\ snap[l] \in Config /\ UNCHANGED <<gateway, holds>>
    BY <1>8 DEF LoadApplied, Ignored, Settle, LetGo, Typed, TypeOK
  <2> QED BY <2>1, InstanceApply
<1>9. ASSUME NEW l \in Load, LoadRejected(l) PROVE InstanceInv'
  <2>1. ApplyFails(snap[l]) /\ snap[l] \in Config /\ UNCHANGED <<gateway, holds>>
    BY <1>9 DEF LoadRejected, KeepOld, Settle, LetGo, Typed, TypeOK
  <2> QED BY <2>1, InstanceApplyFails
<1> QED BY <1>1, <1>2, <1>3, <1>4, <1>5, <1>6, <1>7, <1>8, <1>9, Steps
     DEF vars, registryVars, registry, disposal, calls, Edit, Lapse, EnterStart, EnterFresh,
         EnterJoin, NoProvider, Chunk, Expire, CircuitOpens, Read, LoadFails, LoadIgnored,
         KeepOld, Settle, LetGo

(* The invariant of the instances holds in every state. *)
LEMMA InstanceAlways == Spec => [](Typed /\ InstanceInv)
<1>1. Init => InstanceInv
  BY DEF Init, RegistryInit, InstanceInv, Existing, InstancesAccounted, Registered
<1> QED BY <1>1, TypedAlways, InstanceStep, PTL DEF Spec

(* InstancesAccounted: no instance leaks, none is disposed twice, none     *)
(* while it is registered and the gateway is up.                           *)
THEOREM EveryInstanceAccounted == Spec => []InstancesAccounted
BY InstanceAlways, PTL DEF InstanceInv

-----------------------------------------------------------------------------
(* OneSnapshot: the registry holds what one load read, as a whole.         *)
THEOREM RegistryIsOneSnapshot == Spec => []OneSnapshot
<1>1. Init => OneSnapshot
  BY DEF Init, RegistryInit, OneSnapshot, Empty
<1>2. Typed /\ InstanceInv /\ OneSnapshot /\ [Next]_vars => OneSnapshot'
  <2> SUFFICES ASSUME Typed, InstanceInv, OneSnapshot, [Next]_vars PROVE OneSnapshot'
    OBVIOUS
  <2>0. \A n \in Name : raw[n] # None => raw[n] \in Inst /\ config[raw[n]] # None
    BY DEF Typed, TypeOK, RegistryTypeOK, InstanceInv, Existing
  <2>1. CASE UNCHANGED <<config, raw, active, gateway, applied>>
    BY <2>1 DEF OneSnapshot
  <2>2. CASE Dispose
    BY <2>2 DEF Dispose, DisposeAll, registry, history, OneSnapshot
  <2>3. CASE Disposed
    BY <2>3 DEF Disposed, OneSnapshot
  <2>4. ASSUME NEW i \in Inst, Collect(i) PROVE OneSnapshot'
    <3>1. \A n \in Name : raw[n] # None => config'[raw[n]] = config[raw[n]]
      BY <2>0, <2>4 DEF Collect, Registered, Typed, TypeOK, RegistryTypeOK
    <3> QED BY <2>4, <3>1 DEF Collect, history, OneSnapshot
  <2>5. ASSUME NEW l \in Load, LoadRejected(l) PROVE OneSnapshot'
    <3>1. PICK S \in SUBSET Changed(snap[l]) : Room(S) /\ Build(S, snap[l])
      BY <2>5 DEF LoadRejected, ApplyFails
    <3>2. \A i \in Inst : config[i] # None => config'[i] = config[i]
      BY <3>1, Built, Swaps DEF Typed, TypeOK
    <3> QED BY <2>0, <2>5, <3>2 DEF LoadRejected, ApplyFails, KeepOld, Settle, LetGo, OneSnapshot
  <2>6. ASSUME NEW l \in Load, LoadApplied(l) PROVE OneSnapshot'
    <3> DEFINE new == snap[l]
               S == Changed(new)
               R == Removed(new)
    <3>1. new \in Config /\ Apply(new) /\ gateway = "up" /\ applied' = new /\ active' = new
      BY <2>6 DEF LoadApplied, Ignored, Apply, Typed, TypeOK
    <3>2. /\ \A n \in S : /\ Spare(n) \in Inst /\ config'[Spare(n)] = new[n]
          /\ \A i \in Inst : config[i] # None => config'[i] = config[i]
      BY <3>1, Built, Swaps DEF Apply, Typed, TypeOK
    <3>3. \A n \in Name : raw'[n] = IF n \in S THEN Spare(n) ELSE IF n \in R THEN None ELSE raw[n]
      BY <3>1 DEF Apply
    <3>4. ASSUME NEW n \in Name
          PROVE  /\ raw'[n] = None <=> new[n] = None
                 /\ raw'[n] # None => config'[raw'[n]] = new[n]
      <4>0. /\ raw[n] = None <=> active[n] = None
            /\ raw[n] # None => config[raw[n]] = active[n]
        BY <3>1 DEF OneSnapshot
      <4>1. CASE n \in S
        BY <3>2, <3>3, <4>1 DEF Changed
      <4>2. CASE n \in R
        BY <3>3, <4>2 DEF Changed, Removed
      <4>3. CASE n \notin S \cup R
        <5>1. raw'[n] = raw[n] /\ new[n] = active[n]
          BY <3>3, <4>3 DEF Changed, Removed
        <5> QED BY <2>0, <3>2, <4>0, <5>1
      <4> QED BY <4>1, <4>2, <4>3
    <3> QED BY <3>1, <3>4 DEF OneSnapshot
  <2> QED BY <2>1, <2>2, <2>3, <2>4, <2>5, <2>6, Steps
       DEF vars, registryVars, registry, disposal, history, Edit, Lapse, EnterStart, EnterFresh,
           EnterJoin, Resolve, NoProvider, End, Chunk, Expire, CircuitOpens, Read, LoadFails,
           LoadIgnored, KeepOld, Settle, LetGo, DisposalFires, DisposalTimer
<1> QED BY <1>1, <1>2, InstanceAlways, PTL DEF Spec

-----------------------------------------------------------------------------
(* A stream in flight has its idle timer running; unless a chunk set it    *)
(* anew since, or the call is patient, its provider is registered, or is   *)
(* displaced and outlasts that timer.                                      *)
Streams ==
  \A c \in Call : phase[c] = "open" =>
    /\ c \in armed
    /\ gateway = "up" /\ c \notin fed \cup Patient =>
         holds[c] \in Registered \/ (holds[c] \in pending /\ c \in outlasts[holds[c]])

(* No step takes its provider from a quiet stream. *)
LEMMA StreamsStep ==
  ASSUME Typed, InstanceInv, Streams, [Next]_vars
  PROVE  Streams'
<1>0. \A c \in Call : phase[c] = "open" => holds[c] \in Inst
  BY DEF Typed, TypeOK
<1>1. CASE UNCHANGED <<raw, pending, outlasts, armed, gateway, phase, holds, fed>>
  BY <1>1 DEF Streams, Registered
<1>2. ASSUME NEW c \in Call, EnterFresh(c) \/ EnterJoin(c) \/ NoProvider(c)
             \/ \E l \in Load : EnterStart(c, l)
      PROVE  Streams'
  <2>1. \A d \in Call : phase'[d] = "open" => phase[d] = "open"
    BY <1>2 DEF EnterFresh, EnterJoin, EnterStart, NoProvider, Typed, TypeOK
  <2> QED BY <1>2, <2>1 DEF EnterFresh, EnterJoin, EnterStart, NoProvider, registryVars,
            registry, disposal, Streams, Registered
<1>3. ASSUME NEW c \in Call, Resolve(c) PROVE Streams'
  <2>1. PICK n \in Name : /\ raw[n] # None /\ holds' = [holds EXCEPT ![c] = raw[n]]
                          /\ phase' = [phase EXCEPT ![c] = "open"] /\ armed' = armed \cup {c}
    BY <1>3 DEF Resolve, Selectable
  <2>2. UNCHANGED <<raw, pending, outlasts, gateway, fed>> /\ Registered' = Registered
    BY <1>3 DEF Resolve, registry, disposal, Registered
  <2>3. raw[n] \in Registered
    BY <2>1 DEF Registered
  <2> QED BY <2>1, <2>2, <2>3 DEF Streams, Typed, TypeOK
<1>4. ASSUME NEW c \in Call, Chunk(c) PROVE Streams'
  <2>1. /\ \A i \in Inst : outlasts'[i] = outlasts[i] \ {c}
        /\ armed' = armed \cup {c}
        /\ fed' = IF holds[c] \in Registered THEN fed ELSE fed \cup {c}
        /\ UNCHANGED <<raw, pending, gateway, phase, holds>> /\ Registered' = Registered
    BY <1>4 DEF Chunk, Outlived, registry, Registered
  <2> QED BY <1>0, <2>1 DEF Streams
<1>5. ASSUME NEW c \in Call, Expire(c) \/ \E verdict \in Verdict : End(c, verdict)
      PROVE  Streams'
  <2>1. /\ \A i \in Inst : outlasts'[i] = outlasts[i] \ {c}
        /\ armed' = armed \ {c}
        /\ \A d \in Call \ {c} : phase'[d] = phase[d] /\ holds'[d] = holds[d]
        /\ phase'[c] # "open"
        /\ fed \ {c} \subseteq fed'
        /\ UNCHANGED <<raw, pending, gateway>> /\ Registered' = Registered
    BY <1>5 DEF Expire, End, Outlived, registry, Registered, Typed, TypeOK
  <2> QED BY <1>0, <2>1 DEF Streams
<1>6. ASSUME NEW i \in Inst, DisposalFires(i) PROVE Streams'
  <2>1. /\ pending' = pending \ {i} /\ outlasts[i] = {} /\ Registered' = Registered
        /\ UNCHANGED <<raw, outlasts, armed, gateway, phase, holds, fed>>
    BY <1>6 DEF DisposalFires, DisposalTimer, DisposalDue, registry, calls, Registered
  <2> QED BY <2>1 DEF Streams
<1>7. CASE Dispose
  BY <1>7 DEF Dispose, DisposeAll, calls, Streams
<1>8. CASE Disposed
  BY <1>8 DEF Disposed, UnregisterAll, calls, Streams
<1>9. ASSUME NEW l \in Load,
             LoadFails(l) \/ LoadIgnored(l) \/ LoadRejected(l) \/ LoadApplied(l)
      PROVE  Streams'
  <2>1. PICK ok \in BOOLEAN : Settle(l, ok)
    BY <1>9 DEF LoadFails, LoadIgnored, LoadApplied, LoadRejected, KeepOld, Typed, TypeOK
  <2>2. /\ \A c \in Call : phase'[c] = "open" => phase[c] = "open"
        /\ UNCHANGED <<gateway, holds, fed>>
    BY <1>9, <2>1, Settled DEF LoadFails, LoadIgnored, LoadApplied, LoadRejected
  <2>3. CASE UNCHANGED <<raw, pending, outlasts, armed>>
    BY <2>2, <2>3 DEF Streams, Registered
  <2>4. CASE Apply(snap[l])
    <3> DEFINE D == {raw[n] : n \in Changed(snap[l]) \cup Removed(snap[l])} \ {None}
    <3>1. /\ pending' = pending \cup D /\ armed' = armed
          /\ \A i \in Inst : outlasts'[i] = IF i \in D THEN armed \ Patient ELSE outlasts[i]
      BY <2>4 DEF Apply, DeferDispose
    <3>2. \A i \in Registered : i \in Registered' \/ i \in D
      BY <2>4 DEF Apply, Registered
    <3>3. Registered \cap pending = {}
      BY DEF InstanceInv, InstancesAccounted
    <3>4. D \subseteq Registered
      BY DEF Registered, Changed, Removed
    <3> QED BY <1>0, <2>2, <3>1, <3>2, <3>3, <3>4 DEF Streams
  <2> QED BY <1>9, <2>3, <2>4
       DEF LoadFails, LoadIgnored, LoadApplied, LoadRejected, ApplyFails, registryVars, registry,
           disposal
<1> QED BY <1>1, <1>2, <1>3, <1>4, <1>5, <1>6, <1>7, <1>8, <1>9, Steps
     DEF vars, registryVars, registry, disposal, calls, Edit, Lapse, CircuitOpens, Read, Collect

(* DisposedAfterIdle: a swap takes no provider from a stream whose idle    *)
(* timer still runs as it was set before the swap, unless the call's own   *)
(* timeout is longer than the disposal's.                                  *)
THEOREM QuietStreamsKeepProvider == Spec => []DisposedAfterIdle
<1>1. Init => Streams
  BY DEF Init, Streams
<1>2. Typed /\ InstanceInv /\ Streams => DisposedAfterIdle
  <2> SUFFICES ASSUME Typed, InstanceInv, Streams, NEW c \in Call, gateway = "up",
                      phase[c] = "open", c \notin fed \cup Patient
               PROVE  ~(disposals[holds[c]] > 0)
    BY DEF DisposedAfterIdle
  <2>1. holds[c] \in Inst /\ config[holds[c]] # None
    BY DEF Typed, TypeOK, InstanceInv, Existing
  <2>2. holds[c] \in Registered \cup pending
    BY DEF Streams
  <2> QED BY <2>1, <2>2 DEF InstanceInv, InstancesAccounted
<1> QED BY <1>1, <1>2, InstanceAlways, StreamsStep, PTL DEF Spec

-----------------------------------------------------------------------------
(* OutOfRotationByOwnCircuit: a swap puts the name back in rotation, and   *)
(* only the circuit registered now takes it out.                           *)
THEOREM RotationIsOwn == Spec => []OutOfRotationByOwnCircuit
<1>1. Init => OutOfRotationByOwnCircuit
  BY DEF Init, RegistryInit, OutOfRotationByOwnCircuit
<1>2. Typed /\ OutOfRotationByOwnCircuit /\ [Next]_vars => OutOfRotationByOwnCircuit'
  <2> SUFFICES ASSUME Typed, OutOfRotationByOwnCircuit, [Next]_vars
               PROVE  OutOfRotationByOwnCircuit'
    OBVIOUS
  <2>1. CASE raw' = raw /\ health' = health /\ tripped \subseteq tripped'
    BY <2>1 DEF OutOfRotationByOwnCircuit
  <2>2. ASSUME NEW c \in Call, NEW verdict \in Verdict, End(c, verdict)
        PROVE  OutOfRotationByOwnCircuit'
    <3>1. holds[c][1] \in Name /\ UNCHANGED <<raw, tripped>>
      BY <2>2 DEF End, InFlight, Typed, TypeOK, Inst
    <3>2. \A n \in Name : health'[n] = "down" =>
            health[n] = "down" \/ raw[n] \in tripped
      BY <2>2, <3>1 DEF End, HealthAfter, Typed, TypeOK, RegistryTypeOK
    <3> QED BY <3>1, <3>2 DEF OutOfRotationByOwnCircuit
  <2>3. ASSUME NEW i \in Inst, Collect(i) PROVE OutOfRotationByOwnCircuit'
    <3>1. \A n \in Name : raw[n] # None => raw[n] # i
      BY <2>3 DEF Collect, Registered
    <3> QED BY <2>3, <3>1 DEF Collect, OutOfRotationByOwnCircuit
  <2>4. CASE Disposed
    BY <2>4 DEF Disposed, UnregisterAll, OutOfRotationByOwnCircuit
  <2>5. ASSUME NEW l \in Load, LoadApplied(l) PROVE OutOfRotationByOwnCircuit'
    BY <2>5 DEF LoadApplied, Apply, OutOfRotationByOwnCircuit
  <2> QED BY <2>1, <2>2, <2>3, <2>4, <2>5, Steps
       DEF vars, registryVars, registry, Edit, Lapse, EnterStart, EnterFresh, EnterJoin, Resolve,
           NoProvider, Chunk, Expire, CircuitOpens, Read, LoadFails, LoadIgnored, LoadRejected,
           ApplyFails, DisposalFires, DisposalTimer, Dispose, DisposeAll
<1> QED BY <1>1, <1>2, TypedAlways, PTL DEF Spec

(* UnchangedKeepInstance: only a new configuration replaces an instance.   *)
THEOREM UnchangedKeepsInstance == Spec => UnchangedKeepInstance
<1> DEFINE Keeps == \A n \in Name : active[n] # None /\ active'[n] = active[n] => raw'[n] = raw[n]
<1>1. ASSUME [Next]_vars PROVE [Keeps]_vars
  <2>1. CASE UNCHANGED raw
    BY <2>1
  <2>2. CASE Disposed
    BY <2>2 DEF Disposed, UnregisterAll
  <2>3. ASSUME NEW l \in Load, LoadApplied(l) PROVE Keeps
    BY <2>3 DEF LoadApplied, Apply, Changed, Removed
  <2> QED BY <1>1, <2>1, <2>2, <2>3, Steps
       DEF vars, registryVars, registry, calls, Edit, Lapse, EnterStart, EnterFresh, EnterJoin,
           Resolve, NoProvider, End, Chunk, Expire, CircuitOpens, Read, LoadFails, LoadIgnored,
           LoadRejected, ApplyFails, DisposalFires, DisposalTimer, Dispose, DisposeAll, Collect
<1> QED BY <1>1, PTL DEF Spec, UnchangedKeepInstance
=============================================================================
