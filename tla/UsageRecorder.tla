---------------------------- MODULE UsageRecorder ----------------------------
(***************************************************************************)
(* attachUsageRecorder: who asked is remembered at chat.requested, keyed   *)
(* by request, and joined with the token counts at stream.completed into   *)
(* one usage_metrics row.  Every failure of the awaited lookups and of the *)
(* insert is caught, logged and drops the row.                             *)
(***************************************************************************)
EXTENDS ChatBase

VARIABLES
  usagePending,  \* requests with a captured context
  usageJob,      \* "record" while the completed handler awaits the database
  usageRows      \* rows of usage_metrics per request

usageVars == <<usagePending, usageJob, usageRows>>

UsageTypeOK ==
  /\ usagePending \in SUBSET Req
  /\ usageJob \in [Req -> {"none", "record", "done"}]
  /\ usageRows \in [Req -> Nat]

UsageInit ==
  /\ usagePending = {}
  /\ usageJob = [r \in Req |-> "none"]
  /\ usageRows = [r \in Req |-> 0]

UsageOnRequested(r) ==
  /\ usagePending' = usagePending \cup {r}
  /\ UNCHANGED <<usageJob, usageRows>>

(* Mutant of UsageOnCompleted: the context stays. *)
UsageOnCompletedKeeps(r) ==
  /\ usageJob' = IF r \in usagePending THEN [usageJob EXCEPT ![r] = "record"] ELSE usageJob
  /\ UNCHANGED <<usagePending, usageRows>>

(* stream.completed without a context is skipped with a warning. *)
UsageOnCompleted(r) ==
  /\ usagePending' = usagePending \ {r}
  /\ usageJob' = IF r \in usagePending THEN [usageJob EXCEPT ![r] = "record"] ELSE usageJob
  /\ UNCHANGED usageRows

(* Mutant of UsageOnDropped: not subscribed. *)
UsageOnDroppedNot(r) == UNCHANGED usageVars

(* stream.failed and stream.aborted drop the context and write no row. *)
UsageOnDropped(r) ==
  /\ usagePending' = usagePending \ {r}
  /\ UNCHANGED <<usageJob, usageRows>>

-----------------------------------------------------------------------------
(* convRepo.get, resolveActiveProviderId and usageRepo.record: the row is  *)
(* written, or the conversation is missing or a call fails and it is not.  *)
RecordUsage(r) ==
  /\ usageJob[r] = "record"
  /\ usageJob' = [usageJob EXCEPT ![r] = "done"]
  /\ \/ usageRows' = [usageRows EXCEPT ![r] = @ + 1]
     \/ "lostWrite" \in Faults /\ UNCHANGED usageRows
  /\ UNCHANGED <<conv, usagePending>>

UsageLost ==
  /\ usagePending' = {}
  /\ usageJob' = [r \in Req |-> IF usageJob[r] = "none" THEN "none" ELSE "done"]
  /\ UNCHANGED usageRows
=============================================================================
