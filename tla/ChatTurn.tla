------------------------------ MODULE ChatTurn ------------------------------
(***************************************************************************)
(* One server process of llm-http: the sessions, the chat handler, the     *)
(* message persister and the usage recorder around the event bus, and the  *)
(* gateway stream and the database as their environment.                   *)
(*                                                                         *)
(* publish runs every subscriber in a microtask, and a socket message, a   *)
(* socket close, a chunk or a database answer is a macrotask: an event and *)
(* the synchronous part of all its handlers are one step, and the awaited  *)
(* database calls are steps of their own, interleaved with everything.     *)
(***************************************************************************)
EXTENDS MessagePersister, UsageRecorder, ConnectionSession, ChatHandler

VARIABLES
  server,   \* the process: see ServerState
  outcome,  \* history: the first terminal event published for a request
  said      \* history: text deltas published before it

historyVars == <<outcome, said>>
vars == <<conv, persisterVars, usageVars, sessionVars, handlerVars, server, historyVars>>

ServerState == {"up", "draining", "disposed", "exited", "crashed"}
Running == server \in {"up", "draining", "disposed"}

TypeOK ==
  /\ conv \in [Req -> Conv \cup {None}]
  /\ PersisterTypeOK
  /\ UsageTypeOK
  /\ SessionTypeOK
  /\ HandlerTypeOK
  /\ server \in ServerState
  /\ outcome \in [Req -> Terminal \cup {"none"}]
  /\ said \in [Req -> Nat]

Init ==
  /\ conv = [r \in Req |-> None]
  /\ PersisterInit
  /\ UsageInit
  /\ SessionInit
  /\ HandlerInit
  /\ server = "up"
  /\ outcome = [r \in Req |-> "none"]
  /\ said = [r \in Req |-> 0]

-----------------------------------------------------------------------------
(* The history of what was published for r. *)
Publish(r, event) ==
  outcome' = [outcome EXCEPT ![r] = IF @ = "none" THEN event ELSE @]

Say(r, kind) ==
  said' = [said EXCEPT ![r] =
             IF outcome[r] = "none" /\ kind = "text" THEN @ + 1 ELSE @]

-----------------------------------------------------------------------------
(* The client and its socket. *)

NewLink(s) ==
  /\ server = "up"
  /\ Start(s)
  /\ UNCHANGED <<persisterVars, usageVars, handlerVars, server, historyVars>>

Backlog(s) ==
  /\ Congest(s)
  /\ UNCHANGED <<persisterVars, usageVars, handlerVars, server, historyVars>>

ChatSend(s, r, c) ==
  /\ Send(s, r, c)
  /\ UNCHANGED <<persisterVars, usageVars, handlerVars, server, historyVars>>

(* c.chat.abort: of a request the session still owns.  The client knows    *)
(* the request id from the messages it got.                                *)
ChatAbort(s, r) ==
  /\ link[s] = "open"
  /\ wire[r] # <<>>
  /\ r \in owned[s]
  /\ AbortAll({r}, "manual")
  /\ UNCHANGED <<conv, persisterVars, usageVars, sessionVars, server, historyVars>>

(* The socket closes, at the client's wish, by a failure or by the server's *)
(* heartbeat.                                                               *)
Close(s) ==
  /\ AbortAll(owned[s], "client")
  /\ SessionClose(s)
  /\ UNCHANGED <<persisterVars, usageVars, server, historyVars>>

-----------------------------------------------------------------------------
(* handleChatSend goes on when an awaited call answers. *)

Open(r) ==
  /\ Running
  /\ OpenExisting(r) \/ OpenNew(r)
  /\ UNCHANGED <<persisterVars, usageVars, handlerVars, server, historyVars>>

Own(r) ==
  /\ Running
  /\ OwnRequest(r)
  /\ UNCHANGED <<persisterVars, usageVars, handlerVars, server, historyVars>>

(* Mutant of Blocked: the return after the block is missing. *)
BlockedGoesOn(r) ==
  /\ Running
  /\ SessionBlocked(r)
  /\ PersisterOnRequested(r)
  /\ UsageOnDropped(r)
  /\ Publish(r, "failed")
  /\ UNCHANGED <<handlerVars, server, said>>

(* The guardrails block: stream.failed, and never chat.requested. *)
Blocked(r) ==
  /\ Running
  /\ SessionBlocked(r)
  /\ PersisterOnFailed(r)
  /\ UsageOnDropped(r)
  /\ Publish(r, "failed")
  /\ UNCHANGED <<handlerVars, server, said>>

(* chat.requested, and stream.started unless the chat handler has          *)
(* unsubscribed.                                                           *)
Ask(r) ==
  /\ Running
  /\ SessionAsks(r, server # "disposed")
  /\ PersisterOnRequested(r)
  /\ UsageOnRequested(r)
  /\ IF server # "disposed" THEN HandlerOnRequested(r) ELSE UNCHANGED handlerVars
  /\ UNCHANGED <<server, historyVars>>

-----------------------------------------------------------------------------
(* The gateway stream of r, one chunk, its end or its error at a time. *)

Chunk(r, kind) ==
  /\ PullChunk(r, FALSE)
  /\ PersisterOnToken(r, kind)
  /\ SessionOnToken(r, kind)
  /\ Say(r, kind)
  /\ UNCHANGED <<conv, usageVars, link, slow, sentBy, sending, owner, server, outcome>>

FinishChunk(r, kind) ==
  /\ PullChunk(r, TRUE)
  /\ PersisterOnCompleted(r, kind)
  /\ UsageOnCompleted(r)
  /\ SessionOnCompleted(r, kind)
  /\ Say(r, kind)
  /\ Publish(r, "completed")
  /\ UNCHANGED <<conv, link, slow, sentBy, sending, owner, server>>

(* Mutant of AfterCompleted: it waits for a stored answer. *)
AfterCompletedStored(r) ==
  /\ answerJob[r] = "stored"
  /\ usageJob[r] # "record"
  /\ Resume(r)
  /\ UNCHANGED <<conv, persisterVars, usageVars, sessionVars, server, historyVars>>

(* publish(stream.completed) returns when the rows it caused are settled. *)
AfterCompleted(r) ==
  /\ answerJob[r] # "append"
  /\ usageJob[r] # "record"
  /\ Resume(r)
  /\ UNCHANGED <<conv, persisterVars, usageVars, sessionVars, server, historyVars>>

End(r) ==
  /\ EndOfStream(r)
  /\ UNCHANGED <<conv, persisterVars, usageVars, sessionVars, server, historyVars>>

(* Mutant of Throw: only a manual abort counts as one. *)
ThrowManual(r) ==
  /\ StreamThrows(r)
  /\ UsageOnDropped(r)
  /\ IF signal[r] = "manual"
       THEN PersisterOnAborted(r) /\ SessionOnAborted(r) /\ Publish(r, "aborted")
       ELSE PersisterOnFailed(r) /\ SessionOnFailed(r) /\ Publish(r, "failed")
  /\ UNCHANGED <<conv, link, slow, sentBy, sending, owner, server, said>>

Throw(r) ==
  /\ StreamThrows(r)
  /\ UsageOnDropped(r)
  /\ IF signal[r] # "none"
       THEN PersisterOnAborted(r) /\ SessionOnAborted(r) /\ Publish(r, "aborted")
       ELSE PersisterOnFailed(r) /\ SessionOnFailed(r) /\ Publish(r, "failed")
  /\ UNCHANGED <<conv, link, slow, sentBy, sending, owner, server, said>>

AfterAborted(r) ==
  /\ answerJob[r] # "append"
  /\ FinishAbort(r)
  /\ UNCHANGED <<conv, persisterVars, usageVars, sessionVars, server, historyVars>>

-----------------------------------------------------------------------------
(* The database answers a handler of the bus. *)

StoreUser(r) ==
  /\ AppendUser(r) \/ LookupTitle(r) \/ SetTitle(r)
  /\ UNCHANGED <<usageVars, sessionVars, handlerVars, server, historyVars>>

StoreAssistant(r) ==
  /\ AppendAnswer(r)
  /\ UNCHANGED <<usageVars, sessionVars, handlerVars, server, historyVars>>

StoreUsage(r) ==
  /\ RecordUsage(r)
  /\ UNCHANGED <<persisterVars, sessionVars, handlerVars, server, historyVars>>

-----------------------------------------------------------------------------
(* The process. *)

(* SIGTERM: wss.close refuses new sockets and waits for the open ones. *)
BeginShutdown ==
  /\ "stop" \in Faults
  /\ server = "up"
  /\ server' = "draining"
  /\ UNCHANGED <<conv, persisterVars, usageVars, sessionVars, handlerVars, historyVars>>

DisposeHandler ==
  /\ server = "draining"
  /\ \A s \in Session : link[s] # "open"
  /\ server' = "disposed"
  /\ HandlerDispose
  /\ UNCHANGED <<conv, persisterVars, usageVars, sessionVars, historyVars>>

ProcessEnds(how) ==
  /\ server' = how
  /\ PersisterLost
  /\ UsageLost
  /\ SessionsLost
  /\ HandlerLost
  /\ UNCHANGED <<conv, historyVars>>

(* Mutant of Exit: it waits for the persister's map to empty. *)
ExitDrained == server = "disposed" /\ pending = {} /\ ProcessEnds("exited")

(* The database is closed, with five seconds for the calls in flight. *)
Exit == server = "disposed" /\ ProcessEnds("exited")

(* A repository call rejects inside handleChatSend, which nobody awaits:   *)
(* the unhandled rejection ends the process.                               *)
Crash(r) ==
  "lostRead" \in Faults /\ Running /\ Awaiting(r) /\ ProcessEnds("crashed")

-----------------------------------------------------------------------------
Client(s) ==
  \/ NewLink(s)
  \/ Backlog(s)
  \/ Close(s)
  \/ \E r \in Req : ChatAbort(s, r) \/ \E c \in Conv \cup {None} : ChatSend(s, r, c)

Dispatch(r) == Open(r) \/ Own(r) \/ Blocked(r) \/ Ask(r)

Stream(r) ==
  \/ \E kind \in {"text", "blank"} : Chunk(r, kind)
  \/ \E kind \in {"text", "blank", "none"} : FinishChunk(r, kind)
  \/ AfterCompleted(r)
  \/ End(r)
  \/ Throw(r)
  \/ AfterAborted(r)

Database(r) == StoreUser(r) \/ StoreAssistant(r) \/ StoreUsage(r)

Next ==
  \/ \E s \in Session : Client(s)
  \/ \E r \in Req : Dispatch(r) \/ Stream(r) \/ Database(r) \/ Crash(r)
  \/ BeginShutdown
  \/ DisposeHandler
  \/ Exit

Spec == Init /\ [][Next]_vars

(* Fair: the database answers, a guardrail check ends, a stream moves on   *)
(* (the gateway's idle timeout ends a stalled one), and the shutdown goes  *)
(* on once begun.  Not fair: whatever the clients do, SIGTERM, a crash.    *)
Fairness ==
  /\ \A r \in Req :
       /\ WF_vars(Dispatch(r))
       /\ WF_vars(Stream(r))
       /\ WF_vars(StoreUser(r))
       /\ WF_vars(StoreAssistant(r))
       /\ WF_vars(StoreUsage(r))
  /\ WF_vars(DisposeHandler)
  /\ WF_vars(Exit)

FairSpec == Spec /\ Fairness

-----------------------------------------------------------------------------
(* Safety.                                                                 *)

Texts(w) == Cardinality({i \in DOMAIN w : w[i] = "text"})
Shown(r) == Texts(wire[r])
Last(r)  == IF wire[r] = <<>> THEN "none" ELSE wire[r][Len(wire[r])]

(* What a client reads about a request is one started first, if it was not *)
(* dropped, and nothing after the one terminal message, which is the first *)
(* terminal event of the stream even when the stream goes on after it: a   *)
(* retry or a second finishing chunk completes again, an error after the   *)
(* completion fails.                                                       *)
ClientSeesOneEnd ==
  \A r \in Req :
    /\ \A i \in 1 .. Len(wire[r]) :
         /\ wire[r][i] = "started" => i = 1
         /\ wire[r][i] \in Terminal => i = Len(wire[r])
    /\ Last(r) \in Terminal => Last(r) = outcome[r]

(* A client that lost nothing to backpressure and is told the turn is      *)
(* completed or aborted has been sent the very text the transcript keeps.  *)
ClientReadsWhatIsKept ==
  \A r \in Req :
    r \notin dropped /\ Last(r) \in {"completed", "aborted"} =>
      /\ Shown(r) = said[r]
      /\ answers[r] # <<>> => answers[r] = <<Shown(r)>>

(* A turn has at most one assistant row, whatever the order in which the   *)
(* terminal events, the append and a shutdown come; it is stored only for  *)
(* a completed or aborted turn and holds all the text published before.    *)
AnswerKeptOnce ==
  \A r \in Req :
    answers[r] # <<>> =>
      /\ answers[r] = <<said[r]>>
      /\ said[r] > 0
      /\ outcome[r] \in {"completed", "aborted"}

(* A turn is billed at most once, and only if it completed before anything *)
(* else ended it.                                                          *)
BilledOnce ==
  \A r \in Req :
    /\ usageRows[r] <= 1
    /\ usageRows[r] = 1 => outcome[r] = "completed"

(* When a turn has ended, none of the three maps keyed by its request id   *)
(* still has an entry for it: they would never be freed.                   *)
NothingLeftBehind ==
  \A r \in Req :
    outcome[r] # "none" =>
      /\ r \notin pending
      /\ r \notin usagePending
      /\ \A s \in Session : link[s] = "open" => r \notin owned[s]

(* A request that was refused, blocked by the guardrails or cut off before *)
(* chat.requested reaches neither the transcript, the provider nor the     *)
(* usage table.                                                            *)
RefusedLeavesNoTrace ==
  \A r \in Req :
    sending[r] # "asked" =>
      /\ userJob[r] = "none" /\ asks[r] = 0 /\ answers[r] = <<>>
      /\ stage[r] = "idle" /\ usageRows[r] = 0

(* The transcript read for a prompt, and the one a turn is appended to,    *)
(* are the sender's own, whoever creates conversations meanwhile.          *)
OnlyOwnTranscript ==
  \A r \in Req :
    sending[r] \in {"reading", "checking", "blocked", "asked"} =>
      owner[conv[r]] = UserOf[sentBy[r]]

(* While its socket is open a client can abort what is still being         *)
(* streamed to it: its session owns the request and the handler finds the  *)
(* controller.                                                             *)
Abortable ==
  \A r \in Req :
    stage[r] = "pulling" /\ outcome[r] = "none" =>
      \A s \in Session :
        sentBy[r] = s /\ link[s] = "open" => r \in owned[s] \cap active

(* A stream that ends with an error is reported as aborted exactly when    *)
(* somebody aborted it first, and as a failure of the provider otherwise.  *)
BlameIsRight ==
  Running => \A r \in Req :
    /\ outcome[r] = "aborted" => signal[r] # "none"
    /\ outcome[r] = "failed" => signal[r] = "none"

-----------------------------------------------------------------------------
(* The contract of a turn.                                                 *)

TurnOf(r) ==
  IF outcome[r] # "none" THEN outcome[r]
  ELSE IF sending[r] = "asked" THEN "running" ELSE "idle"

Contract ==
  INSTANCE TurnContract WITH
    turn <- [r \in Req |-> TurnOf(r)], text <- said, row <- answers, bill <- usageRows

(* Every behaviour of the server keeps the contract of every turn.         *)
KeepsContract == Contract!ContractSpec

-----------------------------------------------------------------------------
(* Liveness, under FairSpec.                                               *)

(* A message the client sent is refused, blocked or asked in the end, even *)
(* if the client has gone.                                                 *)
SendsResolve == \A r \in Req : Awaiting(r) ~> ~Awaiting(r)

(* A running stream ends and gives up its place in the active map, though  *)
(* publish waits for database calls the stream itself caused.              *)
StreamsEnd ==
  \A r \in Req : stage[r] \in {"pulling", "completing", "aborting"} ~>
                    stage[r] = "done" /\ r \notin active

(* A turn that ended with text is stored, or its append failed: it is      *)
(* never just forgotten.                                                   *)
EndedTurnsAreStored ==
  \A r \in Req :
    outcome[r] \in {"completed", "aborted"} /\ said[r] > 0 ~>
      answers[r] # <<>> \/ answerJob[r] = "lost"

(* Once every client has gone, a shutdown that has begun reaches the exit. *)
ShutdownEnds ==
  server = "draining" /\ (\A s \in Session : link[s] # "open") ~> ~Running

-----------------------------------------------------------------------------
(* What the repository says and the code does not do.                      *)

(* "unregisters and aborts all owned requests on close"                    *)
(* (connection-session.test.ts:574): no stream runs on, unaborted, for a   *)
(* socket that has closed.                                                 *)
ClosedMeansAborted ==
  \A r \in Req :
    stage[r] = "pulling" /\ outcome[r] = "none" =>
      \A s \in Session : sentBy[r] = s /\ link[s] = "closed" => signal[r] # "none"

(* "Publish completion" after the loop (event-driven-architecture.md:260): *)
(* a stream that has run to its end has published a terminal event.        *)
EndIsPublished ==
  \A r \in Req : stage[r] = "done" /\ Running => outcome[r] # "none"

=============================================================================
