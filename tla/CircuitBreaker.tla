--------------------------- MODULE CircuitBreaker ---------------------------
(***************************************************************************)
(* CircuitBreaker: one around each provider of the gateway.  checkState    *)
(* admits or rejects an attempt before it starts; recordSuccess and        *)
(* recordFailure are called when it ends, by which time the circuit may    *)
(* have changed under it.  Time enters as one fact: whether resetTimeoutMs *)
(* has passed since openedAt.                                              *)
(***************************************************************************)
EXTENDS Naturals

CONSTANTS
  Provider,           \* the registered providers
  FailureThreshold,   \* failures before the circuit opens
  HalfOpenRequests    \* requests to test in half-open

ASSUME CircuitAssumption ==
  /\ FailureThreshold \in Nat \ {0}
  /\ HalfOpenRequests \in Nat

VARIABLES
  state,      \* "closed", "open" or "half"
  failures,   \* failures since the circuit closed; counts to the threshold
  trials,     \* halfOpenRequests: admissions counted in half-open
  cooled      \* the reset timeout has passed since the circuit opened

circuitVars == <<state, failures, trials, cooled>>

CircuitTypeOK ==
  /\ state \in [Provider -> {"closed", "open", "half"}]
  /\ failures \in [Provider -> 0 .. FailureThreshold]
  /\ trials \in [Provider -> 0 .. HalfOpenRequests]
  /\ cooled \in [Provider -> BOOLEAN]

CircuitInit ==
  /\ state = [p \in Provider |-> "closed"]
  /\ failures = [p \in Provider |-> 0]
  /\ trials = [p \in Provider |-> 0]
  /\ cooled = [p \in Provider |-> FALSE]

-----------------------------------------------------------------------------
(* checkState returns, or throws CircuitOpenError. *)
Admits(p) ==
  \/ state[p] = "closed"
  \/ state[p] = "open" /\ cooled[p]
  \/ state[p] = "half" /\ trials[p] < HalfOpenRequests

(* Mutant of Admit: the trials are not counted. *)
AdmitUncounted(p) ==
  /\ state' = [state EXCEPT ![p] = IF @ = "open" THEN "half" ELSE @]
  /\ cooled' = [cooled EXCEPT ![p] = FALSE]
  /\ UNCHANGED <<failures, trials>>

(* The attempt that finds the timeout over turns the circuit half-open and *)
(* is not counted among its trials.                                        *)
Admit(p) ==
  /\ Admits(p)
  /\ state' = [state EXCEPT ![p] = IF @ = "open" THEN "half" ELSE @]
  /\ trials' = [trials EXCEPT ![p] =
       IF state[p] = "open" THEN 0 ELSE IF state[p] = "half" THEN @ + 1 ELSE @]
  /\ cooled' = [cooled EXCEPT ![p] = FALSE]
  /\ UNCHANGED failures

(* One success closes a half-open circuit, whenever its attempt began; it  *)
(* resets nothing in the other states.                                     *)
RecordSuccess(p) ==
  IF state[p] = "half"
    THEN /\ state' = [state EXCEPT ![p] = "closed"]
         /\ failures' = [failures EXCEPT ![p] = 0]
         /\ trials' = [trials EXCEPT ![p] = 0]
         /\ UNCHANGED cooled
    ELSE UNCHANGED circuitVars

CountFailure(p) == [failures EXCEPT ![p] = IF @ < FailureThreshold THEN @ + 1 ELSE @]

(* Mutants of RecordFailure: a failed trial leaves the circuit half-open;  *)
(* the first failure opens it.                                             *)
RecordFailureStays(p) ==
  /\ failures' = CountFailure(p)
  /\ state' = [state EXCEPT ![p] =
       IF @ = "closed" /\ CountFailure(p)[p] = FailureThreshold THEN "open" ELSE @]
  /\ UNCHANGED <<trials, cooled>>

RecordFailureTrips(p) ==
  /\ failures' = CountFailure(p)
  /\ state' = [state EXCEPT ![p] = "open"]
  /\ trials' = [trials EXCEPT ![p] = IF state[p] = "half" THEN 0 ELSE @]
  /\ UNCHANGED cooled

(* Any failure reopens a half-open circuit; the threshold opens a closed   *)
(* one.                                                                    *)
RecordFailure(p) ==
  /\ failures' = CountFailure(p)
  /\ state' = [state EXCEPT ![p] =
       IF @ = "half" \/ (@ = "closed" /\ CountFailure(p)[p] = FailureThreshold)
         THEN "open" ELSE @]
  /\ trials' = [trials EXCEPT ![p] = IF state[p] = "half" THEN 0 ELSE @]
  /\ UNCHANGED cooled

(* resetTimeoutMs passes. *)
CoolDown(p) ==
  /\ state[p] = "open"
  /\ ~cooled[p]
  /\ cooled' = [cooled EXCEPT ![p] = TRUE]
  /\ UNCHANGED <<state, failures, trials>>
=============================================================================
