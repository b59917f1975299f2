-------------------------- MODULE ProviderRegistry --------------------------
(***************************************************************************)
(* The registry of an LLMGateway that takes its providers from a source:   *)
(* the provider instances it built, which of them is registered under each *)
(* name, and the displaced ones whose disposal waits for a timer.  A       *)
(* registration is rawProviders, circuitBreakers and the router's map at   *)
(* once: the code changes them together.                                   *)
(***************************************************************************)
EXTENDS Naturals

CONSTANTS
  Name,     \* provider names the gateway supports
  Cfg,      \* configurations a provider can have, serialized
  Slot,     \* bound: instances of a name that exist at once
  Call,     \* calls in progress at once; a slot is used again
  Patient,  \* calls whose own timeout is longer than streamIdleTimeoutMs
  None      \* no configuration, no instance, no load

(* An instance is one of the slots of its name. *)
Inst == Name \X Slot

ASSUME RegistryAssumption == None \notin Cfg \cup Inst /\ Patient \subseteq Call

VARIABLES
  config,     \* what each instance was built with, None where there is none
  raw,        \* the instance registered under a name
  active,     \* activeConfigs
  health,     \* the router's health of a name, "gone" when it has no entry
  tripped,    \* instances whose circuit has opened, and may be open
  pending,    \* pendingDisposes
  outlasts,   \* calls whose idle timer runs out before an instance's disposal timer
  disposals,  \* how often dispose() was called on each instance
  armed       \* calls whose idle timer runs

registry == <<config, raw, active, health>>
disposal == <<pending, outlasts, disposals>>

Config == [Name -> Cfg \cup {None}]

RegistryTypeOK ==
  /\ config \in [Inst -> Cfg \cup {None}]
  /\ raw \in [Name -> Inst \cup {None}]
  /\ active \in Config
  /\ health \in [Name -> {"up", "down", "gone"}]
  /\ tripped \in SUBSET Inst
  /\ pending \in SUBSET Inst
  /\ outlasts \in [Inst -> SUBSET Call]
  /\ disposals \in [Inst -> Nat]
  /\ armed \in SUBSET Call

RegistryInit ==
  /\ config = [i \in Inst |-> None]
  /\ raw = [n \in Name |-> None]
  /\ active = [n \in Name |-> None]
  /\ health = [n \in Name |-> "gone"]
  /\ tripped = {}
  /\ pending = {}
  /\ outlasts = [i \in Inst |-> {}]
  /\ disposals = [i \in Inst |-> 0]
  /\ armed = {}

Registered == {raw[n] : n \in Name} \ {None}

-----------------------------------------------------------------------------
(* The plan of applyLoadedConfig: what to swap, what to remove.            *)

(* Mutant of Changed: every configured name is swapped at every refresh. *)
ChangedAlways(new) == {n \in Name : new[n] # None}

Changed(new) == {n \in Name : new[n] \notin {None, active[n]}}
Removed(new) == {n \in Name : new[n] = None /\ active[n] # None}

(* Slots for the new instances of the names in S. *)
Room(S) == \A n \in S : \E i \in Inst : i[1] = n /\ config[i] = None
Spare(n) == CHOOSE i \in Inst : i[1] = n /\ config[i] = None

Build(S, new) ==
  config' = [i \in Inst |-> IF i[1] \in S /\ i = Spare(i[1]) THEN new[i[1]] ELSE config[i]]

(* deferDispose: a timer of streamIdleTimeoutMs.  The idle timer of a      *)
(* stream is set to options.timeout and only by default to the same, so    *)
(* of the idle timers that run now those of patient calls may run longer.  *)
DeferDispose(I) ==
  /\ pending' = pending \cup I
  /\ outlasts' = [i \in Inst |-> IF i \in I THEN armed \ Patient ELSE outlasts[i]]
  /\ UNCHANGED disposals

(* Every new instance is built: each takes its name's registration, with a *)
(* circuit breaker of its own, and the name is healthy; removed names lose *)
(* theirs.                                                                 *)
Apply(new) ==
  LET swaps == Changed(new)
      removals == Removed(new)
  IN /\ Room(swaps)
     /\ Build(swaps, new)
     /\ raw' = [n \in Name |-> IF n \in swaps THEN Spare(n)
                               ELSE IF n \in removals THEN None ELSE raw[n]]
     /\ active' = new
     /\ health' = [n \in Name |-> IF n \in swaps THEN "up"
                                  ELSE IF n \in removals THEN "gone" ELSE health[n]]
     /\ DeferDispose({raw[n] : n \in swaps \cup removals} \ {None})
     /\ UNCHANGED <<tripped, armed>>

(* Mutant of ApplyFails: names are swapped one by one until one fails. *)
ApplyFailsHalfway(new) ==
  \E bad \in Changed(new) : \E S \in SUBSET (Changed(new) \ {bad}) :
    Apply([n \in Name |-> IF n \in S THEN new[n] ELSE active[n]])

(* A constructor throws: the instances built before it (of any of the      *)
(* other names, the order is the gateway's) are disposed, nothing else     *)
(* changes.                                                                *)
ApplyFails(new) ==
  /\ \E bad \in Changed(new) : \E S \in SUBSET (Changed(new) \ {bad}) :
       /\ Room(S)
       /\ Build(S, new)
       /\ disposals' = [i \in Inst |-> IF i[1] \in S /\ i = Spare(i[1]) THEN disposals[i] + 1
                                       ELSE disposals[i]]
  /\ UNCHANGED <<raw, active, health, tripped, pending, outlasts, armed>>

-----------------------------------------------------------------------------
(* Mutant of DisposalDue: the timer waits for nobody. *)
DisposedAtOnce(i) == i \in pending

DisposalDue(i) == i \in pending /\ outlasts[i] = {}

(* The timer of a displaced instance. *)
DisposalTimer(i) ==
  /\ DisposalDue(i)
  /\ pending' = pending \ {i}
  /\ disposals' = [disposals EXCEPT ![i] = @ + 1]
  /\ UNCHANGED <<registry, tripped, outlasts, armed>>

(* dispose, up to its await: the disposal timers are cleared, and every    *)
(* instance they waited for is disposed with the registered ones.          *)
DisposeAll ==
  /\ pending' = {}
  /\ disposals' = [i \in Inst |-> IF i \in Registered \cup pending THEN disposals[i] + 1
                                  ELSE disposals[i]]
  /\ UNCHANGED <<registry, tripped, outlasts, armed>>

(* dispose, after it: every name is unregistered. *)
UnregisterAll ==
  /\ raw' = [n \in Name |-> None]
  /\ active' = [n \in Name |-> None]
  /\ health' = [n \in Name |-> "gone"]
  /\ UNCHANGED <<config, tripped, disposal, armed>>
=============================================================================
