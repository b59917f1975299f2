----------------------------- MODULE ChatHandler -----------------------------
(***************************************************************************)
(* ChatHandler: runs one gateway stream per published request and turns    *)
(* its chunks into bus events.  The bus awaits every subscriber before     *)
(* publish returns, so after a terminal event the handler waits for the    *)
(* database work it caused before it pulls the next chunk.                 *)
(***************************************************************************)
EXTENDS ChatBase

VARIABLES
  active,   \* requests with an entry in the active map
  signal,   \* the abort signal of a request: "none", or why it was aborted
  stage,    \* where onChatRequested of the request is
  pulled    \* chunks of the stream that became events, bounded by MaxChunks

handlerVars == <<active, signal, stage, pulled>>

HandlerTypeOK ==
  /\ active \in SUBSET Req
  /\ signal \in [Req -> {"none", "manual", "client"}]
  /\ stage \in [Req -> {"idle", "pulling", "completing", "aborting", "done"}]
  /\ pulled \in [Req -> 0 .. MaxChunks]

HandlerInit ==
  /\ active = {}
  /\ signal = [r \in Req |-> "none"]
  /\ stage = [r \in Req |-> "idle"]
  /\ pulled = [r \in Req |-> 0]

-----------------------------------------------------------------------------
(* chat.requested: the entry is made and stream.started is published; the  *)
(* handlers of both run before anything else can.                          *)
HandlerOnRequested(r) ==
  /\ active' = active \cup {r}
  /\ stage' = [stage EXCEPT ![r] = "pulling"]
  /\ UNCHANGED <<signal, pulled>>

(* A chunk that becomes an event: token.generated when it has a delta that *)
(* adapts to one, stream.completed when it has a finish reason and the     *)
(* usage (fin), both when it has both; the loop goes on in any case.  A    *)
(* chunk that is neither leaves no trace.                                  *)
PullChunk(r, fin) ==
  /\ stage[r] = "pulling"
  /\ pulled[r] < MaxChunks
  /\ pulled' = [pulled EXCEPT ![r] = @ + 1]
  /\ stage' = [stage EXCEPT ![r] = IF fin THEN "completing" ELSE "pulling"]
  /\ UNCHANGED <<active, signal>>

Resume(r) ==
  /\ stage[r] = "completing"
  /\ stage' = [stage EXCEPT ![r] = "pulling"]
  /\ UNCHANGED <<active, signal, pulled>>

(* The stream ends, with or without a finishing chunk before: no event. *)
EndOfStream(r) ==
  /\ stage[r] = "pulling"
  /\ stage' = [stage EXCEPT ![r] = "done"]
  /\ active' = active \ {r}
  /\ UNCHANGED <<signal, pulled>>

(* The stream throws.  With the signal aborted it is an abort whatever the *)
(* error was, and the publish of stream.aborted is awaited; otherwise it   *)
(* is a failure, whose subscribers are all synchronous.                    *)
StreamThrows(r) ==
  /\ stage[r] = "pulling"
  /\ IF signal[r] # "none"
       THEN /\ stage' = [stage EXCEPT ![r] = "aborting"]
            /\ UNCHANGED active
       ELSE /\ stage' = [stage EXCEPT ![r] = "done"]
            /\ active' = active \ {r}
  /\ UNCHANGED <<signal, pulled>>

FinishAbort(r) ==
  /\ stage[r] = "aborting"
  /\ stage' = [stage EXCEPT ![r] = "done"]
  /\ active' = active \ {r}
  /\ UNCHANGED <<signal, pulled>>

(* abort(requestId, reason) for every request of R: a request without an   *)
(* entry is ignored, a second abort overwrites the reason of the first.    *)
AbortAll(R, reason) ==
  /\ signal' = [r \in Req |-> IF r \in R \cap active THEN reason ELSE signal[r]]
  /\ UNCHANGED <<active, stage, pulled>>

(* dispose: every controller is aborted without a reason, which is         *)
(* reported as "client", and the map is emptied.                           *)
HandlerDispose ==
  /\ signal' = [r \in Req |->
                  IF r \in active /\ signal[r] = "none" THEN "client" ELSE signal[r]]
  /\ active' = {}
  /\ UNCHANGED <<stage, pulled>>

(* The process ends: controllers and running streams are gone. *)
HandlerLost ==
  /\ active' = {}
  /\ signal' = [r \in Req |-> "none"]
  /\ stage' = [r \in Req |-> IF stage[r] = "idle" THEN "idle" ELSE "done"]
  /\ pulled' = [r \in Req |-> 0]
=============================================================================
