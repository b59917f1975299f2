---------------------------- MODULE GatewayCalls ----------------------------
(***************************************************************************)
(* LLMGateway.chat and stream: a call is resolved to a provider by the     *)
(* router, attempted through RetryDecorator and that provider's circuit    *)
(* breaker, and its outcome moves the router's health of the provider.     *)
(* Calls run concurrently; each of the breaker's and the router's methods  *)
(* is synchronous, everything between them is awaited.                     *)
(***************************************************************************)
EXTENDS CircuitBreaker, FiniteSets

CONSTANTS
  Call,         \* calls in progress at once; a slot is used again
  Pinned,       \* calls made with options.provider
  WithSignal,   \* calls made with options.signal
  MaxRetries,   \* retry.maxRetries
  None,         \* no provider yet
  Hiccups       \* bound: what goes wrong around the gateway, a subset of Hiccup

(* A provider's error that is worth a retry, one that is not (the caller's *)
(* invalid request too), a stream without a chunk, a consumer that stops   *)
(* pulling, a guardrail of options.guardrails that blocks, the caller's    *)
(* abort, and the gateway's own timeout.                                   *)
Hiccup == {"error", "fatal", "empty", "leave", "block", "abort", "timeout"}

ASSUME CallAssumption ==
  /\ IsFiniteSet(Call)
  /\ Pinned \subseteq Call
  /\ WithSignal \subseteq Call
  /\ MaxRetries \in Nat
  /\ None \notin Provider
  /\ Hiccups \subseteq Hiccup

VARIABLES
  health,    \* Router.healthStatus of each provider
  phase,     \* where a call is
  target,    \* the provider it was resolved to
  attempt,   \* the loop counter of RetryDecorator
  aborted,   \* calls whose caller aborted
  expired,   \* calls whose gateway timeout fired
  probing,   \* history: attempts admitted by the half-open circuit of now
  silent     \* history: one of those ended with no verdict

callVars == <<phase, target, attempt, aborted, expired>>
vars == <<circuitVars, health, callVars, probing, silent>>

Phase == {"idle", "ready", "running", "doomed", "backoff"}

(* The signal of a call: its caller's or the timeout's. *)
Signalled(c) == c \in aborted \cup expired
InFlight(c)  == phase[c] \in {"running", "doomed"}

TypeOK ==
  /\ CircuitTypeOK
  /\ health \in [Provider -> BOOLEAN]
  /\ phase \in [Call -> Phase]
  /\ target \in [Call -> Provider \cup {None}]
  /\ attempt \in [Call -> 0 .. MaxRetries]
  /\ aborted \in SUBSET Call
  /\ expired \in SUBSET Call
  /\ probing \in SUBSET Call
  /\ silent \in [Provider -> BOOLEAN]

Init ==
  /\ CircuitInit
  /\ health = [p \in Provider |-> TRUE]
  /\ phase = [c \in Call |-> "idle"]
  /\ target = [c \in Call |-> None]
  /\ attempt = [c \in Call |-> 0]
  /\ aborted = {}
  /\ expired = {}
  /\ probing = {}
  /\ silent = [p \in Provider |-> FALSE]

-----------------------------------------------------------------------------
(* History: c was admitted; a verdict on c's provider ends a half-open     *)
(* episode; c ended with no verdict.                                       *)
NoteAdmitted(c) ==
  /\ probing' = IF state'[target[c]] = "half" THEN probing \cup {c} ELSE probing
  /\ UNCHANGED silent

NoteVerdict(c) ==
  /\ probing' = {d \in probing : target[d] # target[c]}
  /\ silent' = [silent EXCEPT ![target[c]] = FALSE]

NoteSilence(c) ==
  /\ probing' = probing \ {c}
  /\ silent' = [silent EXCEPT ![target[c]] = @ \/ c \in probing]

(* The call returns or throws: its slot is free again. *)
Return(c) ==
  /\ phase' = [phase EXCEPT ![c] = "idle"]
  /\ target' = [target EXCEPT ![c] = None]
  /\ attempt' = [attempt EXCEPT ![c] = 0]
  /\ aborted' = aborted \ {c}
  /\ expired' = expired \ {c}

(* updateCircuitHealth: a success marks the provider healthy, a fault      *)
(* marks it unhealthy if its circuit is open by now.                       *)
MarkHealthy(p) == health' = [health EXCEPT ![p] = TRUE]
Blame(p) == health' = [health EXCEPT ![p] = @ /\ state'[p] # "open"]

(* Mutant of Throw: every error is blamed on the provider, open or not. *)
ThrowBlamesAll(c, providerFault) ==
  /\ health' = [health EXCEPT ![target[c]] = FALSE]
  /\ Return(c)

(* The error that ends a call.  isProviderFault excuses the provider when  *)
(* the caller aborted, whatever the error is, and for a timeout or abort   *)
(* error.                                                                  *)
Throw(c, providerFault) ==
  /\ IF providerFault /\ c \notin aborted THEN Blame(target[c]) ELSE UNCHANGED health
  /\ Return(c)

-----------------------------------------------------------------------------
(* resolveProvider: the provider of options.provider whatever its health,  *)
(* else one the router takes for healthy (round robin or named by the      *)
(* model).                                                                 *)
Selectable(c) == IF c \in Pinned THEN Provider ELSE {p \in Provider : health[p]}

Begin(c, p) ==
  /\ phase[c] = "idle"
  /\ p \in Selectable(c)
  /\ phase' = [phase EXCEPT ![c] = "ready"]
  /\ target' = [target EXCEPT ![c] = p]
  /\ UNCHANGED <<circuitVars, health, attempt, aborted, expired, probing, silent>>

(* precheckGuardrails throws before the first attempt, and its error is    *)
(* taken for a fault of the provider.                                      *)
Block(c) ==
  /\ "block" \in Hiccups
  /\ phase[c] = "ready"
  /\ attempt[c] = 0
  /\ UNCHANGED <<circuitVars, probing, silent>>
  /\ Throw(c, TRUE)

(* An attempt starts.  With the signal aborted already the provider throws *)
(* before it sends anything, but after the breaker admitted the attempt.   *)
Attempt(c) ==
  /\ phase[c] = "ready"
  /\ Admit(target[c])
  /\ phase' = [phase EXCEPT ![c] = IF Signalled(c) THEN "doomed" ELSE "running"]
  /\ NoteAdmitted(c)
  /\ UNCHANGED <<health, target, attempt, aborted, expired>>

(* CircuitOpenError: not retried, and a fault of the provider. *)
Rejected(c) ==
  /\ phase[c] = "ready"
  /\ ~Admits(target[c])
  /\ UNCHANGED <<circuitVars, probing, silent>>
  /\ Throw(c, TRUE)

Answer(c) ==
  /\ phase[c] = "running"
  /\ RecordSuccess(target[c])
  /\ MarkHealthy(target[c])
  /\ NoteVerdict(c)
  /\ Return(c)

(* A stream that ends without a chunk is a success to the gateway and      *)
(* nothing to the breaker.                                                 *)
Empty(c) ==
  /\ "empty" \in Hiccups
  /\ phase[c] = "running"
  /\ MarkHealthy(target[c])
  /\ NoteSilence(c)
  /\ Return(c)
  /\ UNCHANGED circuitVars

(* The consumer of a stream stops pulling: only the finally blocks run. *)
Leave(c) ==
  /\ "leave" \in Hiccups
  /\ phase[c] = "running"
  /\ NoteSilence(c)
  /\ Return(c)
  /\ UNCHANGED <<circuitVars, health>>

(* What the provider can throw: its own errors; once the signal is aborted *)
(* also an abort error or, as the OpenAI and Anthropic providers wrap it,  *)
(* an error worth a retry; an attempt that starts too late only the abort  *)
(* error.                                                                  *)
Throws(c) ==
  IF phase[c] = "doomed" THEN {"abort"}
  ELSE (Hiccups \cap {"error", "fatal"}) \cup
       (IF Signalled(c) THEN {"abort", "error"} ELSE {})

Retries(c, err) == err = "error" /\ attempt[c] < MaxRetries

(* The attempt fails: the breaker counts every error, the decorator        *)
(* retries or gives up.                                                    *)
Fail(c, err) ==
  /\ InFlight(c)
  /\ err \in Throws(c)
  /\ RecordFailure(target[c])
  /\ NoteVerdict(c)
  /\ IF Retries(c, err)
       THEN /\ phase' = [phase EXCEPT ![c] = "backoff"]
            /\ UNCHANGED <<health, target, attempt, aborted, expired>>
       ELSE Throw(c, err # "abort")

(* Mutant of WakeUp: the loop counter stays. *)
WakeUpUncounted(c) ==
  /\ phase[c] = "backoff"
  /\ phase' = [phase EXCEPT ![c] = "ready"]
  /\ UNCHANGED <<circuitVars, health, target, attempt, aborted, expired, probing, silent>>

(* The backoff is over.  A signal aborted before the sleep began does not  *)
(* cut it short.                                                           *)
WakeUp(c) ==
  /\ phase[c] = "backoff"
  /\ phase' = [phase EXCEPT ![c] = "ready"]
  /\ attempt' = [attempt EXCEPT ![c] = @ + 1]
  /\ UNCHANGED <<circuitVars, health, target, aborted, expired, probing, silent>>

(* The signal aborts.  A sleeping call wakes with a plain Error, which     *)
(* after a timeout is taken for a fault of the provider.                   *)
CallerAborts(c) ==
  /\ "abort" \in Hiccups
  /\ phase[c] # "idle"
  /\ c \in WithSignal \ aborted
  /\ IF phase[c] = "backoff" /\ c \notin expired
       THEN Return(c)
       ELSE aborted' = aborted \cup {c} /\ UNCHANGED <<phase, target, attempt, expired>>
  /\ UNCHANGED <<circuitVars, health, probing, silent>>

TimeoutFires(c) ==
  /\ "timeout" \in Hiccups
  /\ phase[c] # "idle"
  /\ ~Signalled(c)
  /\ UNCHANGED <<circuitVars, probing, silent>>
  /\ IF phase[c] = "backoff"
       THEN Throw(c, TRUE)
       ELSE /\ expired' = expired \cup {c}
            /\ UNCHANGED <<health, phase, target, attempt, aborted>>

-----------------------------------------------------------------------------
(* resetTimeoutMs passes for an open circuit. *)
TimePasses(p) == CoolDown(p) /\ UNCHANGED <<health, callVars, probing, silent>>

Progress(c) ==
  \/ Block(c) \/ Attempt(c) \/ Rejected(c) \/ Answer(c) \/ Empty(c) \/ Leave(c)
  \/ \E err \in {"error", "fatal", "abort"} : Fail(c, err)
  \/ WakeUp(c)

Next ==
  \/ \E c \in Call :
       \/ \E p \in Provider : Begin(c, p)
       \/ Progress(c)
       \/ CallerAborts(c)
       \/ TimeoutFires(c)
  \/ \E p \in Provider : TimePasses(p)

Spec == Init /\ [][Next]_vars
(* Fair: an attempt ends (the gateway's timeout ends one that hangs), a    *)
(* call goes on from one await to the next, and time passes.               *)
FairSpec ==
  /\ Spec
  /\ \A c \in Call : WF_vars(Progress(c))
  /\ \A p \in Provider : WF_vars(TimePasses(p))

(* In addition somebody always wants every provider the router offers.     *)
DemandSpec ==
  FairSpec /\ \A c \in Call : \A p \in Provider : SF_vars(Begin(c, p))

-----------------------------------------------------------------------------
(* A half-open circuit waits for the verdict of a trial it admitted itself *)
(* and that is still running, whatever the attempts admitted before it     *)
(* opened report meanwhile: only a trial that ends with no verdict (an     *)
(* empty stream, a consumer gone) takes its slot with it.                  *)
HalfOpenAwaitsVerdict ==
  \A p \in Provider :
    state[p] = "half" /\ ~silent[p] =>
      \E c \in probing : target[c] = p /\ InFlight(c)

(* A provider on trial gets HalfOpenRequests attempts and the one that     *)
(* found the timeout over, and no more, however many calls come.           *)
TrialsBounded ==
  \A p \in Provider :
    Cardinality({c \in probing : target[c] = p}) <= HalfOpenRequests + 1

(* A circuit that is not closed has counted its full threshold of failures *)
(* since it last closed.                                                   *)
OpenedForCause ==
  \A p \in Provider : state[p] # "closed" => failures[p] = FailureThreshold

(* A provider is out of the router's rotation only while its circuit is    *)
(* not closed: the breaker's state and the router's health, updated at     *)
(* different places, never disagree that way, though calls resolved before *)
(* end in any order.                                                       *)
OutOfRotationForCause ==
  \A p \in Provider : ~health[p] => state[p] # "closed"

(* Every call returns or throws: retries, backoffs, rejections and late    *)
(* aborts do not keep it going.  Under FairSpec.                           *)
CallsEnd == \A c \in Call : phase[c] # "idle" ~> phase[c] = "idle"

-----------------------------------------------------------------------------
(* What the repository says and the code does not do.                      *)

(* "an abort must not trip the circuit" (gateway.test.ts:394): with no     *)
(* mishap but aborts every provider stays in rotation.                     *)
AbortIsNoFault == Hiccups \subseteq {"abort"} => \A p \in Provider : health[p]

(* "After timeout, try HALF_OPEN" (system-architecture.md:539): a circuit  *)
(* that opened is tried again while there is demand.  Under DemandSpec.    *)
OpenCircuitIsRetried == \A p \in Provider : state[p] = "open" ~> state[p] # "open"
=============================================================================

