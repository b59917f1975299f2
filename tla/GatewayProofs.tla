--------------------------- MODULE GatewayProofs ---------------------------
(***************************************************************************)
(* Theorems about GatewayCalls, for every number of providers and calls,   *)
(* every threshold and every limit of retries and half-open trials.        *)
(***************************************************************************)
EXTENDS GatewayCalls, FiniteSetTheorems, TLAPS

USE CircuitAssumption, CallAssumption

Verdicts == {"error", "fatal", "abort"}

(* What a step does, one disjunct per action. *)
LEMMA Steps ==
  ASSUME [Next]_vars
  PROVE  \/ UNCHANGED vars
         \/ \E p \in Provider : TimePasses(p)
         \/ \E c \in Call :
              \/ \E p \in Provider : Begin(c, p)
              \/ \E err \in Verdicts : Fail(c, err)
              \/ Block(c) \/ Attempt(c) \/ Rejected(c) \/ Answer(c) \/ Empty(c) \/ Leave(c)
              \/ WakeUp(c) \/ CallerAborts(c) \/ TimeoutFires(c)
BY DEF Next, Progress, Verdicts

-----------------------------------------------------------------------------
(* Type correctness needs two facts more: a call that has begun has a      *)
(* provider, and one that backs off has a retry left.                      *)
Resolved  == \A c \in Call : phase[c] # "idle" => target[c] \in Provider
RetryLeft == \A c \in Call : phase[c] = "backoff" => attempt[c] < MaxRetries
Typed == TypeOK /\ Resolved /\ RetryLeft

(* The end of a call keeps the variables of the calls in their types. *)
LEMMA ReturnTyped ==
  ASSUME Typed, NEW c \in Call, Return(c)
  PROVE  /\ phase' \in [Call -> Phase] /\ target' \in [Call -> Provider \cup {None}]
         /\ attempt' \in [Call -> 0 .. MaxRetries]
         /\ aborted' \in SUBSET Call /\ expired' \in SUBSET Call
         /\ Resolved' /\ RetryLeft'
BY DEF Typed, TypeOK, Resolved, RetryLeft, Return, Phase

(* Whatever error ends it, health keeps its type too. *)
LEMMA ThrowTyped ==
  ASSUME Typed, NEW c \in Call, target[c] \in Provider, NEW fault, Throw(c, fault)
  PROVE  health' \in [Provider -> BOOLEAN]
<1>1. health \in [Provider -> BOOLEAN]
  BY DEF Typed, TypeOK
<1>2. CASE UNCHANGED health
  BY <1>1, <1>2
<1>3. CASE Blame(target[c])
  BY <1>1, <1>3, Zenon DEF Blame
<1> QED BY <1>2, <1>3 DEF Throw

(* The breaker's methods keep its variables in their types. *)
LEMMA CircuitTyped ==
  ASSUME CircuitTypeOK, NEW p \in Provider,
         \/ Admit(p) \/ RecordSuccess(p) \/ RecordFailure(p) \/ CoolDown(p)
         \/ UNCHANGED circuitVars
  PROVE  CircuitTypeOK'
<1>1. CASE Admit(p) BY <1>1 DEF CircuitTypeOK, Admit, Admits
<1>2. CASE RecordSuccess(p) BY <1>2 DEF CircuitTypeOK, RecordSuccess, circuitVars
<1>3. CASE RecordFailure(p) BY <1>3 DEF CircuitTypeOK, RecordFailure, CountFailure
<1>4. CASE CoolDown(p) BY <1>4 DEF CircuitTypeOK, CoolDown
<1>5. CASE UNCHANGED circuitVars BY <1>5 DEF CircuitTypeOK, circuitVars
<1> QED BY <1>1, <1>2, <1>3, <1>4, <1>5

(* The three notes keep the history in its type. *)
LEMMA NotesTyped ==
  ASSUME Typed, NEW c \in Call, target[c] \in Provider,
         NoteAdmitted(c) \/ NoteVerdict(c) \/ NoteSilence(c)
  PROVE  probing' \in SUBSET Call /\ silent' \in [Provider -> BOOLEAN]
<1>1. probing \in SUBSET Call /\ silent \in [Provider -> BOOLEAN]
  BY DEF Typed, TypeOK
<1>2. CASE NoteAdmitted(c) BY <1>1, <1>2 DEF NoteAdmitted
<1>3. CASE NoteVerdict(c) BY <1>1, <1>3 DEF NoteVerdict
<1>4. CASE NoteSilence(c)
  <2>1. [silent EXCEPT ![target[c]] = @ \/ c \in probing] \in [Provider -> BOOLEAN]
    BY <1>1, Zenon
  <2> QED BY <1>1, <1>4, <2>1 DEF NoteSilence
<1> QED BY <1>2, <1>3, <1>4

(* Every step keeps the types. *)
LEMMA TypedStep == ASSUME Typed, [Next]_vars PROVE Typed'
<1> USE DEF Typed
<1>1. CASE UNCHANGED vars
  BY <1>1 DEF vars, circuitVars, callVars, TypeOK, CircuitTypeOK, Resolved, RetryLeft
<1>2. ASSUME NEW p \in Provider, TimePasses(p) PROVE Typed'
  BY <1>2, CircuitTyped DEF TimePasses, callVars, TypeOK, Resolved, RetryLeft
<1>3. ASSUME NEW c \in Call, NEW p \in Provider, Begin(c, p) PROVE Typed'
  <2>1. CircuitTypeOK' BY <1>3, CircuitTyped DEF Begin, TypeOK
  <2> QED BY <1>3, <2>1 DEF Begin, TypeOK, Resolved, RetryLeft, Phase
<1>4. ASSUME NEW c \in Call, Attempt(c) PROVE Typed'
  <2>1. target[c] \in Provider BY <1>4 DEF Attempt, Resolved
  <2>2. CircuitTypeOK' BY <1>4, <2>1, CircuitTyped DEF Attempt, TypeOK
  <2>3. probing' \in SUBSET Call /\ silent' \in [Provider -> BOOLEAN]
    BY <1>4, <2>1, NotesTyped DEF Attempt
  <2> QED BY <1>4, <2>1, <2>2, <2>3 DEF Attempt, TypeOK, Resolved, RetryLeft, Phase
<1>5. ASSUME NEW c \in Call, Block(c) \/ Rejected(c) PROVE Typed'
  <2>1. target[c] \in Provider BY <1>5 DEF Block, Rejected, Resolved
  <2>2. CircuitTypeOK' BY <1>5, <2>1, CircuitTyped DEF Block, Rejected, TypeOK
  <2>3. health' \in [Provider -> BOOLEAN] BY <1>5, <2>1, ThrowTyped DEF Block, Rejected
  <2> QED BY <1>5, <2>2, <2>3, ReturnTyped DEF Block, Rejected, Throw, TypeOK
<1>6. ASSUME NEW c \in Call, Answer(c) \/ Empty(c) \/ Leave(c) PROVE Typed'
  <2>1. target[c] \in Provider BY <1>6 DEF Answer, Empty, Leave, Resolved
  <2>2. CircuitTypeOK' BY <1>6, <2>1, CircuitTyped DEF Answer, Empty, Leave, TypeOK
  <2>3. probing' \in SUBSET Call /\ silent' \in [Provider -> BOOLEAN]
    BY <1>6, <2>1, NotesTyped DEF Answer, Empty, Leave
  <2>4. health' \in [Provider -> BOOLEAN]
    BY <1>6 DEF Answer, Empty, Leave, MarkHealthy, TypeOK
  <2> QED BY <1>6, <2>2, <2>3, <2>4, ReturnTyped DEF Answer, Empty, Leave, TypeOK
<1>7. ASSUME NEW c \in Call, NEW err \in Verdicts, Fail(c, err) PROVE Typed'
  <2>1. target[c] \in Provider BY <1>7 DEF Fail, InFlight, Resolved
  <2>2. CircuitTypeOK' BY <1>7, <2>1, CircuitTyped DEF Fail, TypeOK
  <2>3. probing' \in SUBSET Call /\ silent' \in [Provider -> BOOLEAN]
    BY <1>7, <2>1, NotesTyped DEF Fail
  <2>4. CASE Retries(c, err)
    BY <1>7, <2>1, <2>2, <2>3, <2>4 DEF Fail, Retries, TypeOK, Resolved, RetryLeft, Phase
  <2>5. CASE ~Retries(c, err)
    <3>1. Throw(c, err # "abort") BY <1>7, <2>5 DEF Fail
    <3>2. health' \in [Provider -> BOOLEAN] BY <2>1, <3>1, ThrowTyped
    <3> QED BY <2>2, <2>3, <3>1, <3>2, ReturnTyped DEF Throw, TypeOK
  <2> QED BY <2>4, <2>5
<1>8. ASSUME NEW c \in Call, WakeUp(c) PROVE Typed'
  <2>1. CircuitTypeOK' BY <1>8, CircuitTyped DEF WakeUp, TypeOK, Resolved
  <2>2. attempt[c] < MaxRetries BY <1>8 DEF WakeUp, RetryLeft
  <2> QED BY <1>8, <2>1, <2>2 DEF WakeUp, TypeOK, Resolved, RetryLeft, Phase
<1>9. ASSUME NEW c \in Call, CallerAborts(c) PROVE Typed'
  <2>1. CircuitTypeOK' BY <1>9, CircuitTyped DEF CallerAborts, TypeOK, Resolved
  <2>2. CASE Return(c)
    BY <1>9, <2>1, <2>2, ReturnTyped DEF CallerAborts, TypeOK
  <2>3. CASE aborted' = aborted \cup {c} /\ UNCHANGED <<phase, target, attempt, expired>>
    BY <1>9, <2>1, <2>3 DEF CallerAborts, TypeOK, Resolved, RetryLeft
  <2> QED BY <1>9, <2>2, <2>3 DEF CallerAborts
<1>10. ASSUME NEW c \in Call, TimeoutFires(c) PROVE Typed'
  <2>1. target[c] \in Provider BY <1>10 DEF TimeoutFires, Resolved
  <2>2. CircuitTypeOK' BY <1>10, <2>1, CircuitTyped DEF TimeoutFires, TypeOK
  <2>3. CASE Throw(c, TRUE)
    <3>1. health' \in [Provider -> BOOLEAN] BY <2>1, <2>3, ThrowTyped
    <3> QED BY <1>10, <2>2, <2>3, <3>1, ReturnTyped DEF TimeoutFires, Throw, TypeOK
  <2>4. CASE expired' = expired \cup {c} /\ UNCHANGED <<health, phase, target, attempt, aborted>>
    BY <1>10, <2>2, <2>4 DEF TimeoutFires, TypeOK, Resolved, RetryLeft
  <2> QED BY <1>10, <2>3, <2>4 DEF TimeoutFires
<1> QED
  BY <1>1, <1>2, <1>3, <1>4, <1>5, <1>6, <1>7, <1>8, <1>9, <1>10, Steps

(* The types hold throughout. *)
LEMMA TypedAlways == Spec => []Typed
<1>1. Init => Typed
  BY DEF Init, Typed, TypeOK, CircuitInit, CircuitTypeOK, Phase, Resolved, RetryLeft
<1> QED BY <1>1, TypedStep, PTL DEF Spec

(* TypeOK, for every value of the constants; with it, that no call is      *)
(* retried more than MaxRetries times.                                     *)
THEOREM GatewayTyped == Spec => []TypeOK
<1>1. Typed => TypeOK
  BY DEF Typed
<1> QED BY <1>1, TypedAlways, PTL

-----------------------------------------------------------------------------
(* The breaker and the router's health of its provider. *)

(* What a step of one provider's breaker leaves to the others. *)
LEMMA OtherCircuits ==
  ASSUME Typed, NEW p \in Provider, NEW q \in Provider, q # p,
         Admit(p) \/ RecordSuccess(p) \/ RecordFailure(p) \/ CoolDown(p)
  PROVE  state'[q] = state[q] /\ failures'[q] = failures[q] /\ trials'[q] = trials[q]
BY DEF Typed, TypeOK, CircuitTypeOK, Admit, RecordSuccess, RecordFailure, CountFailure,
  CoolDown, circuitVars

(* A breaker opens with its threshold of failures counted and forgets them *)
(* only when it closes.                                                    *)
LEMMA CauseKept ==
  ASSUME Typed, OpenedForCause, NEW p \in Provider,
         \/ Admit(p) \/ RecordSuccess(p) \/ RecordFailure(p) \/ CoolDown(p)
         \/ UNCHANGED circuitVars
  PROVE  OpenedForCause'
<1> USE DEF Typed, TypeOK, CircuitTypeOK, OpenedForCause
<1>1. CASE Admit(p) BY <1>1 DEF Admit, Admits
<1>2. CASE RecordSuccess(p) BY <1>2 DEF RecordSuccess, circuitVars
<1>3. CASE RecordFailure(p) BY <1>3 DEF RecordFailure, CountFailure
<1>4. CASE CoolDown(p) BY <1>4 DEF CoolDown
<1>5. CASE UNCHANGED circuitVars BY <1>5 DEF circuitVars
<1> QED BY <1>1, <1>2, <1>3, <1>4, <1>5

(* A step of the gateway is, to the breakers, a call of one method. *)
LEMMA CircuitSteps ==
  ASSUME Typed, [Next]_vars
  PROVE  \/ UNCHANGED circuitVars
         \/ \E p \in Provider :
              Admit(p) \/ RecordSuccess(p) \/ RecordFailure(p) \/ CoolDown(p)
<1>1. CASE UNCHANGED vars BY <1>1 DEF vars
<1>2. ASSUME NEW c \in Call, Attempt(c)
      PROVE  \E p \in Provider : Admit(p)
  BY <1>2 DEF Attempt, Typed, Resolved
<1>3. ASSUME NEW c \in Call, Answer(c)
      PROVE  \E p \in Provider : RecordSuccess(p)
  BY <1>3 DEF Answer, Typed, Resolved
<1>4. ASSUME NEW c \in Call, NEW err \in Verdicts, Fail(c, err)
      PROVE  \E p \in Provider : RecordFailure(p)
  BY <1>4 DEF Fail, InFlight, Typed, Resolved
<1>5. ASSUME NEW c \in Call,
             \/ \E p \in Provider : Begin(c, p)
             \/ Block(c) \/ Rejected(c) \/ Empty(c) \/ Leave(c) \/ WakeUp(c)
             \/ CallerAborts(c) \/ TimeoutFires(c)
      PROVE  UNCHANGED circuitVars
  BY <1>5 DEF Begin, Block, Rejected, Empty, Leave, WakeUp, CallerAborts, TimeoutFires
<1> QED BY <1>1, <1>2, <1>3, <1>4, <1>5, Steps DEF TimePasses

(* OpenedForCause: no interleaving of calls, and no late verdict of an     *)
(* attempt admitted before, opens a circuit early or loses its count.      *)
THEOREM OpenOnlyForCause == Spec => []OpenedForCause
<1>1. Init => OpenedForCause
  BY DEF Init, CircuitInit, OpenedForCause
<1>2. Typed /\ OpenedForCause /\ [Next]_vars => OpenedForCause'
  <2> SUFFICES ASSUME Typed, OpenedForCause, [Next]_vars PROVE OpenedForCause'
    OBVIOUS
  <2>1. CASE UNCHANGED circuitVars BY <2>1 DEF OpenedForCause, circuitVars
  <2> QED BY <2>1, CauseKept, CircuitSteps
<1> QED BY <1>1, <1>2, TypedAlways, PTL DEF Spec

(* A step that leaves the breakers alone, but for one it may open, keeps   *)
(* the router and the breakers in agreement.                               *)
LEMMA ThrowAgrees ==
  ASSUME Typed, OutOfRotationForCause, NEW c \in Call, target[c] \in Provider,
         NEW fault, Throw(c, fault),
         UNCHANGED circuitVars \/ RecordFailure(target[c])
  PROVE  OutOfRotationForCause'
<1> USE DEF Typed, TypeOK, CircuitTypeOK, OutOfRotationForCause
<1>1. \A p \in Provider : state[p] # "closed" => state'[p] # "closed"
  BY DEF circuitVars, RecordFailure
<1>2. CASE UNCHANGED health BY <1>1, <1>2
<1>3. CASE Blame(target[c])
  <2>1. ASSUME NEW p \in Provider, ~health'[p] PROVE state'[p] # "closed"
    <3>1. CASE p = target[c]
      <4>1. health'[p] = (health[p] /\ state'[p] # "open")
        BY <1>3, <3>1, Zenon DEF Blame
      <4> QED BY <1>1, <2>1, <4>1
    <3>2. CASE p # target[c]
      <4>1. health'[p] = health[p]
        BY <1>3, <3>2, Zenon DEF Blame
      <4> QED BY <1>1, <2>1, <4>1
    <3> QED BY <3>1, <3>2
  <2> QED BY <2>1
<1> QED BY <1>2, <1>3 DEF Throw

(* OutOfRotationForCause is inductive: a circuit closes only in the step   *)
(* that also marks its provider healthy.                                   *)
THEOREM RotationAgrees == Spec => []OutOfRotationForCause
<1>1. Init => OutOfRotationForCause
  BY DEF Init, OutOfRotationForCause
<1>2. Typed /\ OutOfRotationForCause /\ [Next]_vars => OutOfRotationForCause'
  <2> SUFFICES ASSUME Typed, OutOfRotationForCause, [Next]_vars
               PROVE  OutOfRotationForCause'
    OBVIOUS
  <2> USE DEF Typed, TypeOK, CircuitTypeOK, OutOfRotationForCause
  <2>1. CASE UNCHANGED vars BY <2>1 DEF vars, circuitVars
  <2>2. ASSUME NEW p \in Provider, TimePasses(p) PROVE OutOfRotationForCause'
    BY <2>2 DEF TimePasses, CoolDown
  <2>3. ASSUME NEW c \in Call,
               (\E p \in Provider : Begin(c, p)) \/ Leave(c) \/ WakeUp(c) \/ CallerAborts(c)
        PROVE  OutOfRotationForCause'
    BY <2>3 DEF Begin, Leave, WakeUp, CallerAborts, circuitVars
  <2>4. ASSUME NEW c \in Call, Attempt(c) PROVE OutOfRotationForCause'
    BY <2>4 DEF Attempt, Admit
  <2>5. ASSUME NEW c \in Call, Answer(c) \/ Empty(c) PROVE OutOfRotationForCause'
    <3>1. target[c] \in Provider BY <2>5 DEF Answer, Empty, Resolved
    <3>2. health' = [health EXCEPT ![target[c]] = TRUE]
      BY <2>5 DEF Answer, Empty, MarkHealthy
    <3>3. \A q \in Provider : q # target[c] => state'[q] = state[q]
      BY <2>5, <3>1 DEF Answer, Empty, RecordSuccess, circuitVars
    <3> QED BY <3>1, <3>2, <3>3
  <2>6. ASSUME NEW c \in Call, NEW err \in Verdicts, Fail(c, err)
        PROVE  OutOfRotationForCause'
    <3>1. target[c] \in Provider BY <2>6 DEF Fail, InFlight, Resolved
    <3>2. CASE Retries(c, err) BY <2>6, <3>2 DEF Fail, RecordFailure
    <3>3. CASE ~Retries(c, err)
      <4>1. Throw(c, err # "abort") /\ RecordFailure(target[c]) BY <2>6, <3>3 DEF Fail
      <4> QED BY <3>1, <4>1, ThrowAgrees
    <3> QED BY <3>2, <3>3
  <2>7. ASSUME NEW c \in Call, Block(c) \/ Rejected(c) PROVE OutOfRotationForCause'
    BY <2>7, ThrowAgrees DEF Block, Rejected, Resolved
  <2>8. ASSUME NEW c \in Call, TimeoutFires(c) PROVE OutOfRotationForCause'
    <3>1. CASE Throw(c, TRUE) BY <2>8, <3>1, ThrowAgrees DEF TimeoutFires, Resolved
    <3>2. CASE UNCHANGED health BY <2>8, <3>2 DEF TimeoutFires, circuitVars
    <3> QED BY <2>8, <3>1, <3>2 DEF TimeoutFires
  <2> QED BY <2>1, <2>2, <2>3, <2>4, <2>5, <2>6, <2>7, <2>8, Steps
<1> QED BY <1>1, <1>2, TypedAlways, PTL DEF Spec

-----------------------------------------------------------------------------
(* The half-open circuit.                                                  *)

Probes(p) == {c \in probing : target[c] = p}

(* The trials of a half-open circuit are running; there are no more of     *)
(* them than admissions counted and the uncounted first; and one is left   *)
(* until a verdict ends the episode or a silent end spoils it.             *)
ProbesRun  == \A c \in probing : InFlight(c)
TrialCount == \A p \in Provider :
                IF state[p] = "half" THEN Cardinality(Probes(p)) <= trials[p] + 1
                                     ELSE Probes(p) = {}
Awaited    == \A p \in Provider : state[p] = "half" /\ ~silent[p] => Probes(p) # {}
HalfInv    == ProbesRun /\ TrialCount /\ Awaited

(* The trials of one provider are finitely many. *)
LEMMA ProbesFinite ==
  ASSUME Typed, NEW p
  PROVE  IsFiniteSet(Probes(p)) /\ Cardinality(Probes(p)) \in Nat
<1>1. Probes(p) \subseteq Call BY DEF Probes, Typed, TypeOK
<1> QED BY <1>1, FS_Subset, FS_CardinalityType

(* A step that is nothing to the breakers, and touches one call that is no *)
(* trial afterwards: if it was one, its end was silent.                    *)
LEMMA QuietStep ==
  ASSUME Typed, HalfInv, UNCHANGED circuitVars, NEW c \in Call,
         probing' \in {probing, probing \ {c}}, c \notin probing',
         \A d \in Call \ {c} : phase'[d] = phase[d] /\ target'[d] = target[d],
         \A p \in Provider : ~silent'[p] => ~silent[p] /\ ~(c \in probing /\ target[c] = p)
  PROVE  HalfInv'
<1> USE DEF HalfInv
<1>1. probing \subseteq Call BY DEF Typed, TypeOK
<1>2. ProbesRun' BY <1>1 DEF ProbesRun, InFlight
<1>3. ASSUME NEW p \in Provider PROVE Probes(p)' = Probes(p) \ {c}
  BY <1>1 DEF Probes
<1>4. UNCHANGED <<state, trials>> BY DEF circuitVars
<1>5. TrialCount'
  <2>1. ASSUME NEW p \in Provider, state[p] = "half"
        PROVE  Cardinality(Probes(p)') <= trials[p] + 1
    <3>1. Cardinality(Probes(p)') <= Cardinality(Probes(p))
          /\ Cardinality(Probes(p)') \in Nat
      BY <1>3, ProbesFinite, FS_Subset, FS_CardinalityType
    <3>2. Cardinality(Probes(p)) <= trials[p] + 1 /\ Cardinality(Probes(p)) \in Nat
      BY <2>1, ProbesFinite DEF TrialCount
    <3>3. trials[p] \in Nat BY DEF Typed, TypeOK, CircuitTypeOK
    <3> QED BY <3>1, <3>2, <3>3
  <2>2. ASSUME NEW p \in Provider, state[p] # "half" PROVE Probes(p)' = {}
    BY <1>3, <2>2 DEF TrialCount
  <2> QED BY <1>4, <2>1, <2>2 DEF TrialCount
<1>6. Awaited'
  <2> SUFFICES ASSUME NEW p \in Provider, state'[p] = "half", ~silent'[p]
               PROVE  Probes(p)' # {}
    BY DEF Awaited
  <2>1. Probes(p)' = Probes(p) BY <1>3 DEF Probes
  <2> QED BY <1>4, <2>1 DEF Awaited
<1> QED BY <1>2, <1>5, <1>6

(* A verdict takes the circuit out of half-open and ends its trials. *)
LEMMA VerdictStep ==
  ASSUME Typed, HalfInv, NEW c \in Call, target[c] \in Provider, NoteVerdict(c),
         RecordSuccess(target[c]) \/ RecordFailure(target[c]),
         \A d \in Call \ {c} : phase'[d] = phase[d] /\ target'[d] = target[d]
  PROVE  HalfInv'
<1>0. PICK t \in Provider : t = target[c] OBVIOUS
<1> USE <1>0 DEF HalfInv
<1>1. probing \subseteq Call BY DEF Typed, TypeOK
<1>2. \A d \in probing' : d \in probing /\ d \in Call \ {c} /\ target[d] # t
  BY <1>1 DEF NoteVerdict
<1>3. ProbesRun' BY <1>2 DEF ProbesRun, InFlight
<1>4. Probes(t)' = {} BY <1>2 DEF Probes
<1>5. ASSUME NEW q \in Provider, q # t
      PROVE  /\ Probes(q)' = Probes(q) /\ silent'[q] = silent[q]
             /\ state'[q] = state[q] /\ trials'[q] = trials[q]
  <2>1. probing' = {d \in probing : target[d] # t} BY DEF NoteVerdict
  <2>2. \A d \in probing' : target'[d] = target[d] BY <1>2
  <2>3. Probes(q)' = Probes(q) BY <1>5, <2>1, <2>2 DEF Probes
  <2>4. silent'[q] = silent[q] BY <1>5 DEF NoteVerdict, Typed, TypeOK
  <2> QED BY <1>5, <2>3, <2>4, OtherCircuits
<1>6. state'[t] # "half"
  BY DEF Typed, TypeOK, CircuitTypeOK, RecordSuccess, RecordFailure, circuitVars
<1>7. TrialCount' BY <1>4, <1>5, <1>6 DEF TrialCount
<1>8. Awaited' BY <1>5, <1>6 DEF Awaited
<1> QED BY <1>3, <1>7, <1>8

(* An admission adds a trial exactly when the circuit is half-open after it. *)
LEMMA AdmissionStep ==
  ASSUME Typed, HalfInv, NEW c \in Call, Attempt(c)
  PROVE  HalfInv'
<1>0. PICK t \in Provider : t = target[c] BY DEF Typed, Resolved, Attempt
<1> USE <1>0 DEF HalfInv
<1>1. probing \subseteq Call /\ c \notin probing
  BY DEF Typed, TypeOK, Resolved, Attempt, ProbesRun, InFlight
<1>2. Admit(t) /\ NoteAdmitted(c) /\ UNCHANGED target BY DEF Attempt
<1>3. \A d \in Call \ {c} : phase'[d] = phase[d]
  BY DEF Attempt, Typed, TypeOK
<1>4. phase'[c] \in {"running", "doomed"} BY DEF Attempt, Typed, TypeOK
<1>5. probing' \subseteq probing \cup {c} BY <1>2 DEF NoteAdmitted
<1>6. ProbesRun' BY <1>1, <1>3, <1>4, <1>5 DEF ProbesRun, InFlight
<1>7. UNCHANGED silent BY <1>2 DEF NoteAdmitted
<1>8. ASSUME NEW q \in Provider, q # t
      PROVE  Probes(q)' = Probes(q) /\ state'[q] = state[q] /\ trials'[q] = trials[q]
  <2>1. Probes(q)' = Probes(q) BY <1>2, <1>8 DEF NoteAdmitted, Probes
  <2> QED BY <1>1, <1>2, <1>8, <2>1, OtherCircuits
<1>9. CASE state[t] = "closed"
  <2>1. state'[t] = "closed" BY <1>1, <1>2, <1>9 DEF Admit, Typed, TypeOK, CircuitTypeOK
  <2>2. Probes(t)' = Probes(t) BY <1>2, <2>1 DEF NoteAdmitted, Probes
  <2>3. TrialCount' BY <1>8, <1>9, <2>1, <2>2 DEF TrialCount
  <2>4. Awaited' BY <1>7, <1>8, <2>1 DEF Awaited
  <2> QED BY <1>6, <2>3, <2>4
<1>10. CASE state[t] # "closed"
  <2>1. state'[t] = "half" BY <1>1, <1>2, <1>10 DEF Admit, Typed, TypeOK, CircuitTypeOK
  <2>2. Probes(t)' = Probes(t) \cup {c} BY <1>2, <2>1 DEF NoteAdmitted, Probes
  <2>3. Cardinality(Probes(t)') = Cardinality(Probes(t)) + 1
        /\ Cardinality(Probes(t)) \in Nat
    <3>1. c \notin Probes(t) BY <1>1 DEF Probes
    <3>2. IsFiniteSet(Probes(t)) /\ Cardinality(Probes(t)) \in Nat BY ProbesFinite
    <3>3. Cardinality(Probes(t) \cup {c}) = Cardinality(Probes(t)) + 1
      BY <3>1, <3>2, FS_AddElement
    <3> QED BY <2>2, <3>2, <3>3
  <2>4. trials[t] \in Nat /\ trials'[t] \in Nat
    BY <1>1, <1>2, CircuitTyped DEF Typed, TypeOK, CircuitTypeOK
  <2>5. Cardinality(Probes(t)') <= trials'[t] + 1
    <3>1. CASE state[t] = "open"
      <4>1. Cardinality(Probes(t)) = 0 BY <1>1, <3>1, FS_EmptySet DEF TrialCount
      <4> QED BY <2>3, <2>4, <4>1
    <3>2. CASE state[t] = "half"
      <4>1. trials'[t] = trials[t] + 1
        BY <1>1, <1>2, <3>2 DEF Admit, Typed, TypeOK, CircuitTypeOK
      <4>2. Cardinality(Probes(t)) <= trials[t] + 1 BY <1>1, <3>2 DEF TrialCount
      <4> QED BY <2>3, <2>4, <4>1, <4>2
    <3> QED BY <1>1, <1>10, <3>1, <3>2 DEF Typed, TypeOK, CircuitTypeOK
  <2>6. TrialCount' BY <1>8, <2>1, <2>5 DEF TrialCount
  <2>7. Awaited' BY <1>7, <1>8, <2>2 DEF Awaited
  <2> QED BY <1>6, <2>6, <2>7
<1> QED BY <1>9, <1>10

(* Every step keeps the invariant of the half-open circuit. *)
LEMMA HalfStep == ASSUME Typed, HalfInv, [Next]_vars PROVE HalfInv'
<1> USE DEF Typed, TypeOK
<1>1. CASE UNCHANGED vars
  BY <1>1 DEF vars, circuitVars, callVars, HalfInv, ProbesRun, InFlight, TrialCount,
    Awaited, Probes
<1>2. ASSUME NEW p \in Provider, TimePasses(p) PROVE HalfInv'
  BY <1>2 DEF TimePasses, CoolDown, callVars, HalfInv, ProbesRun, InFlight, TrialCount,
    Awaited, Probes
<1>3. ASSUME NEW c \in Call,
             \/ \E p \in Provider : Begin(c, p)
             \/ Block(c) \/ Rejected(c) \/ WakeUp(c)
      PROVE  HalfInv'
  <2>1. c \notin probing
    BY <1>3 DEF Begin, Block, Rejected, WakeUp, HalfInv, ProbesRun, InFlight
  <2>2. UNCHANGED <<circuitVars, probing, silent>> BY <1>3 DEF Begin, Block, Rejected, WakeUp
  <2>3. \A d \in Call \ {c} : phase'[d] = phase[d] /\ target'[d] = target[d]
    BY <1>3 DEF Begin, Block, Rejected, WakeUp, Throw, Return
  <2> QED BY <2>1, <2>2, <2>3, QuietStep
<1>4. ASSUME NEW c \in Call, Empty(c) \/ Leave(c) PROVE HalfInv'
  <2>1. target[c] \in Provider BY <1>4 DEF Empty, Leave, Resolved
  <2>2. UNCHANGED circuitVars /\ NoteSilence(c) /\ Return(c) BY <1>4 DEF Empty, Leave
  <2>3. probing' = probing \ {c} BY <2>2 DEF NoteSilence
  <2>4. \A d \in Call \ {c} : phase'[d] = phase[d] /\ target'[d] = target[d]
    BY <2>2 DEF Return
  <2>5. ASSUME NEW p \in Provider, ~silent'[p]
        PROVE  ~silent[p] /\ ~(c \in probing /\ target[c] = p)
    <3>1. silent' = [silent EXCEPT ![target[c]] = silent[target[c]] \/ c \in probing]
      BY <2>2 DEF NoteSilence
    <3>2. CASE p = target[c]
      <4>1. silent'[p] = (silent[p] \/ c \in probing) BY <2>1, <3>1, <3>2, Zenon
      <4> QED BY <2>5, <4>1
    <3>3. CASE p # target[c]
      <4>1. silent'[p] = silent[p] BY <2>1, <3>1, <3>3, Zenon
      <4> QED BY <2>5, <3>3, <4>1
    <3> QED BY <3>2, <3>3
  <2> QED BY <2>2, <2>3, <2>4, <2>5, QuietStep
<1>5. ASSUME NEW c \in Call, Answer(c) PROVE HalfInv'
  <2>1. target[c] \in Provider BY <1>5 DEF Answer, Resolved
  <2>2. \A d \in Call \ {c} : phase'[d] = phase[d] /\ target'[d] = target[d]
    BY <1>5 DEF Answer, Return
  <2> QED BY <1>5, <2>1, <2>2, VerdictStep DEF Answer
<1>6. ASSUME NEW c \in Call, NEW err \in Verdicts, Fail(c, err) PROVE HalfInv'
  <2>1. target[c] \in Provider BY <1>6 DEF Fail, InFlight, Resolved
  <2>2. \A d \in Call \ {c} : phase'[d] = phase[d] /\ target'[d] = target[d]
    BY <1>6 DEF Fail, Throw, Return
  <2> QED BY <1>6, <2>1, <2>2, VerdictStep DEF Fail
<1>7. ASSUME NEW c \in Call, CallerAborts(c) \/ TimeoutFires(c) PROVE HalfInv'
  <2>1. UNCHANGED <<circuitVars, probing, silent>>
    BY <1>7 DEF CallerAborts, TimeoutFires
  <2>2. CASE Return(c) /\ phase[c] = "backoff"
    <3>1. c \notin probing BY <2>2 DEF HalfInv, ProbesRun, InFlight
    <3>2. \A d \in Call \ {c} : phase'[d] = phase[d] /\ target'[d] = target[d]
      BY <2>2 DEF Return
    <3> QED BY <2>1, <3>1, <3>2, QuietStep
  <2>3. CASE UNCHANGED <<phase, target>>
    BY <2>1, <2>3 DEF circuitVars, HalfInv, ProbesRun, InFlight, TrialCount, Awaited, Probes
  <2> QED BY <1>7, <2>2, <2>3 DEF CallerAborts, TimeoutFires, Throw
<1> QED BY <1>1, <1>2, <1>3, <1>4, <1>5, <1>6, <1>7, AdmissionStep, Steps

(* The invariant of the half-open circuit holds throughout. *)
LEMMA HalfAlways == Spec => [](Typed /\ HalfInv)
<1>1. Init => HalfInv
  BY DEF Init, CircuitInit, HalfInv, ProbesRun, TrialCount, Awaited, Probes
<1> QED BY <1>1, TypedAlways, HalfStep, PTL DEF Spec

(* TrialsBounded: however many calls come at once, a half-open circuit     *)
(* lets through HalfOpenRequests of them and the one that found the        *)
(* timeout over.                                                           *)
THEOREM TrialsAreBounded == Spec => []TrialsBounded
<1>1. Typed /\ HalfInv => TrialsBounded
  <2> SUFFICES ASSUME Typed, HalfInv, NEW p \in Provider
               PROVE  Cardinality(Probes(p)) <= HalfOpenRequests + 1
    BY DEF TrialsBounded, Probes
  <2>1. trials[p] \in 0 .. HalfOpenRequests BY DEF Typed, TypeOK, CircuitTypeOK
  <2>2. Cardinality(Probes(p)) \in Nat BY ProbesFinite
  <2>3. CASE state[p] = "half" BY <2>1, <2>2, <2>3 DEF HalfInv, TrialCount
  <2>4. CASE state[p] # "half"
    <3>1. Cardinality(Probes(p)) = 0 BY <2>4, FS_EmptySet DEF HalfInv, TrialCount
    <3> QED BY <3>1
  <2> QED BY <2>3, <2>4
<1> QED BY <1>1, HalfAlways, PTL

(* HalfOpenAwaitsVerdict: a half-open circuit is not left waiting for      *)
(* nobody, except by a trial that ended without a verdict.                 *)
THEOREM HalfOpenIsAwaited == Spec => []HalfOpenAwaitsVerdict
<1>1. Typed /\ HalfInv => HalfOpenAwaitsVerdict
  BY DEF HalfInv, ProbesRun, Awaited, Probes, HalfOpenAwaitsVerdict
<1> QED BY <1>1, HalfAlways, PTL
=============================================================================
