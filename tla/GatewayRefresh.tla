--------------------------- MODULE GatewayRefresh ---------------------------
(***************************************************************************)
(* LLMGateway in source mode: calls enter through ensureFresh, which       *)
(* shares one load of the source among them, take a registered provider    *)
(* and hold it until they end, while refreshes displace instances and      *)
(* dispose() tears the gateway down.  The calls are streams; chat() does   *)
(* the same with a timer no chunk resets.  A call's own timeout            *)
(* (options.timeout) may be longer than what a displaced provider is kept  *)
(* for.                                                                    *)
(***************************************************************************)
EXTENDS ProviderRegistry

CONSTANTS
  Load,      \* loads of the source in progress at once
  Pinned,    \* calls made with options.provider
  MaxEdits   \* bound: changes of the source

ASSUME RefreshAssumption ==
  /\ None \notin Load
  /\ Pinned \subseteq Call
  /\ MaxEdits \in Nat

VARIABLES
  gateway,    \* "up", "closing" once dispose is called, "down" when it is done
  table,      \* what the source holds
  edits,      \* how often that changed
  lapsed,     \* no load yet, or refreshTtlMs has passed since lastLoadedAt
  loadedOnce, \* hasLoadedOnce
  shared,     \* refreshInFlight
  stage,      \* where a load is
  snap,       \* what it read
  snapAt,     \* history: the value of edits it read at
  phase,      \* where a call is
  awaits,     \* the load a call waits for
  holds,      \* the instance a call was resolved to
  fed,        \* history: calls that had a chunk after their provider was displaced
  applied,    \* history: the last snapshot applied
  appliedAt,  \* history: the value of edits it was read at
  lapsedAt,   \* history: the value of edits when the TTL last passed
  kept        \* history: the last refresh failed and the old configuration was kept

source  == <<table, edits>>
refresh == <<lapsed, loadedOnce, shared, stage, snap, snapAt>>
calls   == <<phase, awaits, holds, fed>>
history == <<applied, appliedAt, lapsedAt, kept>>
registryVars == <<registry, tripped, disposal, armed>>
vars == <<registryVars, gateway, source, refresh, calls, history>>

TypeOK ==
  /\ RegistryTypeOK
  /\ gateway \in {"up", "closing", "down"}
  /\ table \in Config
  /\ edits \in 0 .. MaxEdits
  /\ lapsed \in BOOLEAN
  /\ loadedOnce \in BOOLEAN
  /\ shared \in Load \cup {None}
  /\ stage \in [Load -> {"idle", "asked", "read"}]
  /\ snap \in [Load -> Config]
  /\ snapAt \in [Load -> 0 .. MaxEdits]
  /\ phase \in [Call -> {"idle", "waiting", "due", "open", "expired"}]
  /\ awaits \in [Call -> Load \cup {None}]
  /\ holds \in [Call -> Inst \cup {None}]
  /\ \A c \in Call : holds[c] # None <=> phase[c] \in {"open", "expired"}
  /\ fed \in SUBSET Call
  /\ applied \in Config
  /\ appliedAt \in 0 .. MaxEdits
  /\ lapsedAt \in 0 .. MaxEdits
  /\ kept \in BOOLEAN

Empty == [n \in Name |-> None]

Init ==
  /\ RegistryInit
  /\ gateway = "up"
  /\ table = Empty
  /\ edits = 0
  /\ lapsed = TRUE
  /\ loadedOnce = FALSE
  /\ shared = None
  /\ stage = [l \in Load |-> "idle"]
  /\ snap = [l \in Load |-> Empty]
  /\ snapAt = [l \in Load |-> 0]
  /\ phase = [c \in Call |-> "idle"]
  /\ awaits = [c \in Call |-> None]
  /\ holds = [c \in Call |-> None]
  /\ fed = {}
  /\ applied = Empty
  /\ appliedAt = 0
  /\ lapsedAt = 0
  /\ kept = FALSE

-----------------------------------------------------------------------------
(* The source: somebody adds, changes or removes a provider. *)
Edit(n, cfg) ==
  /\ edits < MaxEdits
  /\ cfg # table[n]
  /\ table' = [table EXCEPT ![n] = cfg]
  /\ edits' = edits + 1
  /\ UNCHANGED <<registryVars, gateway, refresh, calls, history>>

(* refreshTtlMs has passed. *)
Lapse ==
  /\ ~lapsed
  /\ lapsed' = TRUE
  /\ lapsedAt' = edits
  /\ UNCHANGED <<registryVars, gateway, source, loadedOnce, shared, stage, snap, snapAt,
                 calls, applied, appliedAt, kept>>

-----------------------------------------------------------------------------
(* ensureFresh                                                             *)

(* Mutant of StartsLoad: no load is shared. *)
StartsLoadAlways == lapsed

StartsLoad == lapsed /\ shared = None

(* Nothing to wait for: the configuration is fresh, or the gateway is torn *)
(* down and refreshFromSource returns at once.                             *)
EnterFresh(c) ==
  /\ phase[c] = "idle"
  /\ ~lapsed \/ (shared = None /\ gateway # "up")
  /\ phase' = [phase EXCEPT ![c] = "due"]
  /\ UNCHANGED <<registryVars, gateway, source, refresh, awaits, holds, fed, history>>

EnterStart(c, l) ==
  /\ phase[c] = "idle"
  /\ StartsLoad
  /\ gateway = "up"
  /\ stage[l] = "idle"
  /\ stage' = [stage EXCEPT ![l] = "asked"]
  /\ shared' = l
  /\ phase' = [phase EXCEPT ![c] = "waiting"]
  /\ awaits' = [awaits EXCEPT ![c] = l]
  /\ UNCHANGED <<registryVars, gateway, source, lapsed, loadedOnce, snap, snapAt,
                 holds, fed, history>>

EnterJoin(c) ==
  /\ phase[c] = "idle"
  /\ lapsed
  /\ shared # None
  /\ phase' = [phase EXCEPT ![c] = "waiting"]
  /\ awaits' = [awaits EXCEPT ![c] = shared]
  /\ UNCHANGED <<registryVars, gateway, source, refresh, holds, fed, history>>

(* The source answers the query of a load. *)
Read(l) ==
  /\ stage[l] = "asked"
  /\ stage' = [stage EXCEPT ![l] = "read"]
  /\ snap' = [snap EXCEPT ![l] = table]
  /\ snapAt' = [snapAt EXCEPT ![l] = edits]
  /\ UNCHANGED <<registryVars, gateway, source, lapsed, loadedOnce, shared, calls, history>>

(* Load l is over, and whoever awaited it goes on or throws. *)
LetGo(l, ok) ==
  /\ stage' = [stage EXCEPT ![l] = "idle"]
  /\ snap' = [snap EXCEPT ![l] = Empty]
  /\ snapAt' = [snapAt EXCEPT ![l] = 0]
  /\ phase' = [c \in Call |-> IF awaits[c] # l THEN phase[c] ELSE IF ok THEN "due" ELSE "idle"]
  /\ awaits' = [c \in Call |-> IF awaits[c] = l THEN None ELSE awaits[c]]
  /\ UNCHANGED <<gateway, source, holds, fed>>

(* Mutant of Settle: refreshInFlight is not cleared. *)
SettleStays(l, ok) == LetGo(l, ok) /\ UNCHANGED shared

(* The promise of load l settles: refreshInFlight is cleared first. *)
Settle(l, ok) == LetGo(l, ok) /\ shared' = None

(* The catch of refreshFromSource: before the first configuration its      *)
(* callers fail with it; after that the old one is kept and counts as      *)
(* loaded now.                                                             *)
KeepOld(l) ==
  /\ Settle(l, loadedOnce)
  /\ lapsed' = ~loadedOnce
  /\ kept' = TRUE
  /\ UNCHANGED <<loadedOnce, applied, appliedAt, lapsedAt>>

LoadFails(l) ==
  /\ stage[l] = "asked"
  /\ KeepOld(l)
  /\ UNCHANGED registryVars

(* Mutant of Ignored: a load that ends after dispose is applied. *)
NeverIgnored == FALSE

(* The load raced dispose: it does not fill the registry again. *)
Ignored == gateway # "up"

LoadIgnored(l) ==
  /\ stage[l] = "read"
  /\ Ignored
  /\ Settle(l, TRUE)
  /\ UNCHANGED <<registryVars, lapsed, loadedOnce, history>>

LoadApplied(l) ==
  /\ stage[l] = "read"
  /\ ~Ignored
  /\ Apply(snap[l])
  /\ Settle(l, TRUE)
  /\ lapsed' = FALSE
  /\ loadedOnce' = TRUE
  /\ applied' = snap[l]
  /\ appliedAt' = snapAt[l]
  /\ kept' = FALSE
  /\ UNCHANGED lapsedAt

(* A constructor rejects its configuration. *)
LoadRejected(l) ==
  /\ stage[l] = "read"
  /\ ~Ignored
  /\ ApplyFails(snap[l])
  /\ KeepOld(l)

-----------------------------------------------------------------------------
(* A call and the provider it holds.                                       *)

(* resolveProvider: what options.provider names, else what is healthy.     *)
Selectable(c) == {n \in Name : raw[n] # None /\ (c \in Pinned \/ health[n] = "up")}

Resolve(c) ==
  /\ phase[c] = "due"
  /\ \E n \in Selectable(c) :
       /\ phase' = [phase EXCEPT ![c] = "open"]
       /\ holds' = [holds EXCEPT ![c] = raw[n]]
       /\ armed' = armed \cup {c}
  /\ UNCHANGED <<registry, tripped, disposal, gateway, source, refresh, awaits, fed, history>>

NoProvider(c) ==
  /\ phase[c] = "due"
  /\ Selectable(c) = {}
  /\ phase' = [phase EXCEPT ![c] = "idle"]
  /\ UNCHANGED <<registryVars, gateway, source, refresh, awaits, holds, fed, history>>

InFlight(c) == phase[c] \in {"open", "expired"}

(* The idle timer of c no longer runs out before any disposal timer. *)
Outlived(c) == outlasts' = [i \in Inst |-> outlasts[i] \ {c}]

(* A chunk sets the idle timer anew. *)
Chunk(c) ==
  /\ InFlight(c)
  /\ armed' = armed \cup {c}
  /\ Outlived(c)
  /\ fed' = IF holds[c] \in Registered THEN fed ELSE fed \cup {c}
  /\ UNCHANGED <<registry, tripped, pending, disposals, gateway, source, refresh,
                 phase, awaits, holds, history>>

(* The idle timer aborts the stream; the provider or the retry's sleep     *)
(* ends it at its next await.                                              *)
Expire(c) ==
  /\ c \in armed
  /\ phase' = [phase EXCEPT ![c] = "expired"]
  /\ armed' = armed \ {c}
  /\ Outlived(c)
  /\ UNCHANGED <<registry, tripped, pending, disposals, gateway, source, refresh,
                 awaits, holds, fed, history>>

(* An attempt opens the circuit of the provider a call holds. *)
CircuitOpens(c) ==
  /\ InFlight(c)
  /\ tripped' = tripped \cup {holds[c]}
  /\ UNCHANGED <<registry, disposal, armed, gateway, source, refresh, calls, history>>

(* Mutant of HealthAfter: a fault marks the name whatever its circuit is. *)
HealthAfterBlindly(n, verdict) ==
  CASE verdict = "success" -> "up" [] verdict = "fault" -> "down" [] OTHER -> health[n]

(* updateCircuitHealth knows the provider by name: a success marks it      *)
(* healthy, registered or not; a fault marks it unhealthy if the circuit   *)
(* registered under the name by now is open.                               *)
HealthAfter(n, verdict) ==
  CASE verdict = "success" -> "up"
    [] verdict = "fault" /\ raw[n] \in tripped -> "down"
    [] OTHER -> health[n]

(* A call ends: its text is complete, its error is the provider's, or the  *)
(* end is nobody's (a timeout, an abort, a consumer that left), like a     *)
(* fault that finds the circuit half-open or closed again.                 *)
End(c, verdict) ==
  /\ InFlight(c)
  /\ LET n == holds[c][1] IN health' = [health EXCEPT ![n] = HealthAfter(n, verdict)]
  /\ phase' = [phase EXCEPT ![c] = "idle"]
  /\ holds' = [holds EXCEPT ![c] = None]
  /\ fed' = fed \ {c}
  /\ armed' = armed \ {c}
  /\ Outlived(c)
  /\ UNCHANGED <<config, raw, active, tripped, pending, disposals, gateway, source,
                 refresh, awaits, history>>

-----------------------------------------------------------------------------
DisposalFires(i) ==
  /\ DisposalTimer(i)
  /\ UNCHANGED <<gateway, source, refresh, calls, history>>

Dispose ==
  /\ gateway = "up"
  /\ gateway' = "closing"
  /\ DisposeAll
  /\ UNCHANGED <<source, refresh, calls, history>>

Disposed ==
  /\ gateway = "closing"
  /\ gateway' = "down"
  /\ UnregisterAll
  /\ UNCHANGED <<source, refresh, calls, history>>

(* Bound: the slot of an instance nobody refers to any more is used again. *)
Collect(i) ==
  /\ disposals[i] > 0
  /\ i \notin Registered \cup pending
  /\ \A c \in Call : holds[c] # i
  /\ config' = [config EXCEPT ![i] = None]
  /\ disposals' = [disposals EXCEPT ![i] = 0]
  /\ tripped' = tripped \ {i}
  /\ UNCHANGED <<raw, active, health, pending, outlasts, armed, gateway, source, refresh,
                 calls, history>>

LoadStep(l) ==
  Read(l) \/ LoadFails(l) \/ LoadIgnored(l) \/ LoadApplied(l) \/ LoadRejected(l)

StreamStep(c) ==
  \/ Chunk(c)
  \/ Expire(c)
  \/ \E verdict \in {"success", "fault", "nobody"} : End(c, verdict)

Next ==
  \/ \E n \in Name, cfg \in Cfg \cup {None} : Edit(n, cfg)
  \/ Lapse
  \/ \E c \in Call :
       \/ EnterFresh(c)
       \/ \E l \in Load : EnterStart(c, l)
       \/ EnterJoin(c)
       \/ Resolve(c)
       \/ NoProvider(c)
       \/ StreamStep(c)
       \/ CircuitOpens(c)
  \/ \E l \in Load : LoadStep(l)
  \/ \E i \in Inst : DisposalFires(i) \/ Collect(i)
  \/ Dispose
  \/ Disposed

Spec == Init /\ [][Next]_vars

-----------------------------------------------------------------------------
(* While the gateway is up every instance it ever built is registered, or  *)
(* waits for its disposal timer, or was disposed, once: refreshes that     *)
(* fail halfway leak none and dispose none that serves.  Once dispose was  *)
(* called none is left undisposed, a refresh that raced it included.       *)
InstancesAccounted ==
  /\ Registered \cap pending = {}
  /\ \A i \in Inst : config[i] # None =>
       /\ disposals[i] <= 1
       /\ disposals[i] = 0 <=> gateway = "up" /\ i \in Registered \cup pending

(* What is registered is one snapshot of the source as a whole, never a    *)
(* mix of two: applyLoadedConfig with its constructors that may throw.     *)
OneSnapshot ==
  gateway # "down" =>
    \A n \in Name :
      /\ active[n] = applied[n]
      /\ raw[n] = None <=> applied[n] = None
      /\ raw[n] # None => config[raw[n]] = applied[n]

(* A fresh configuration was read from the source after refreshTtlMs had   *)
(* last passed, unless that refresh failed: no load that was asked earlier *)
(* replaces it, whoever shares which load.                                 *)
FreshSinceLapse == loadedOnce /\ ~lapsed /\ ~kept => appliedAt >= lapsedAt

(* "In-flight streams complete before provider disposal" as far as it is   *)
(* so: a stream loses its provider to a swap only if its idle timer ran    *)
(* out first, or was set anew by a chunk after the swap, or is set to more *)
(* than streamIdleTimeoutMs by the call's own timeout.                     *)
DisposedAfterIdle ==
  \A c \in Call :
    gateway = "up" /\ phase[c] = "open" /\ disposals[holds[c]] > 0 => c \in fed \cup Patient

(* A registered name is out of rotation only if its own circuit opened:    *)
(* neither the circuit it had before a swap nor the late faults of the     *)
(* calls that still hold the displaced instance keep the new one out.      *)
OutOfRotationByOwnCircuit ==
  \A n \in Name : raw[n] # None /\ health[n] = "down" => raw[n] \in tripped

(* A call that waits in ensureFresh waits for a load that is under way:    *)
(* none is left behind on the promise of a load that has ended, however it *)
(* ended and whatever dispose does meanwhile.                              *)
WaitersHaveLoad ==
  \A c \in Call : phase[c] = "waiting" => awaits[c] # None /\ stage[awaits[c]] # "idle"

(* "Unchanged providers keep their instance and circuit-breaker state"     *)
(* (README.md:232): a refresh replaces an instance only under a new        *)
(* configuration.                                                          *)
UnchangedKeepInstance ==
  [][\A n \in Name : active[n] # None /\ active'[n] = active[n] => raw'[n] = raw[n]]_vars

=============================================================================
