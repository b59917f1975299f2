--------------------------- MODULE ChatTurnProofs ---------------------------
(***************************************************************************)
(* Theorems about ChatTurn, for every number of connections, users,        *)
(* requests and conversations, every length of a stream and every choice   *)
(* of faults.                                                              *)
(***************************************************************************)
EXTENDS ChatTurn, FiniteSetTheorems, SequenceTheorems, TLAPS

USE DEF Terminal, WireMsg

-----------------------------------------------------------------------------
(* What a step of the server is to one of its components. *)

PersisterStep ==
  \/ UNCHANGED persisterVars
  \/ PersisterLost
  \/ \E r \in Req :
       \/ PersisterOnRequested(r) \/ PersisterOnAborted(r) \/ PersisterOnFailed(r)
       \/ \E kind \in {"text", "blank"} : PersisterOnToken(r, kind)
       \/ \E kind \in {"text", "blank", "none"} : PersisterOnCompleted(r, kind)
       \/ AppendUser(r) \/ LookupTitle(r) \/ SetTitle(r) \/ AppendAnswer(r)

UsageStep ==
  \/ UNCHANGED usageVars
  \/ UsageLost
  \/ \E r \in Req :
       UsageOnRequested(r) \/ UsageOnCompleted(r) \/ UsageOnDropped(r) \/ RecordUsage(r)

HandlerStep ==
  \/ UNCHANGED handlerVars
  \/ HandlerLost
  \/ HandlerDispose
  \/ \E R \in SUBSET Req, reason \in {"manual", "client"} : AbortAll(R, reason)
  \/ \E r \in Req :
       \/ HandlerOnRequested(r) \/ PullChunk(r, TRUE) \/ PullChunk(r, FALSE)
       \/ Resume(r) \/ EndOfStream(r) \/ StreamThrows(r) \/ FinishAbort(r)

(* Every step of the server is one of each component. *)
LEMMA ComponentSteps ==
  ASSUME TypeOK, [Next]_vars PROVE PersisterStep /\ UsageStep /\ HandlerStep
<1>1. ASSUME NEW s \in Session, Client(s) PROVE PersisterStep /\ UsageStep /\ HandlerStep
  BY <1>1 DEF Client, NewLink, Backlog, Close, ChatAbort, ChatSend, PersisterStep, UsageStep,
    HandlerStep, TypeOK, SessionTypeOK
<1>2. ASSUME NEW r \in Req, Dispatch(r) PROVE PersisterStep /\ UsageStep /\ HandlerStep
  BY <1>2 DEF Dispatch, Open, Own, Blocked, Ask, PersisterStep, UsageStep, HandlerStep
<1>3. ASSUME NEW r \in Req, Stream(r) PROVE PersisterStep /\ UsageStep /\ HandlerStep
  BY <1>3 DEF Stream, Chunk, FinishChunk, AfterCompleted, End, Throw, AfterAborted,
    PersisterStep, UsageStep, HandlerStep
<1>4. ASSUME NEW r \in Req, Database(r) PROVE PersisterStep /\ UsageStep /\ HandlerStep
  BY <1>4 DEF Database, StoreUser, StoreAssistant, StoreUsage,
    PersisterStep, UsageStep, HandlerStep
<1>5. ASSUME NEW how, ProcessEnds(how) PROVE PersisterStep /\ UsageStep /\ HandlerStep
  BY <1>5 DEF ProcessEnds, PersisterStep, UsageStep, HandlerStep
<1>6. CASE Next
  BY <1>1, <1>2, <1>3, <1>4, <1>5, <1>6 DEF Next, BeginShutdown, DisposeHandler, Exit, Crash,
    PersisterStep, UsageStep, HandlerStep
<1> QED BY <1>6 DEF vars, PersisterStep, UsageStep, HandlerStep

-----------------------------------------------------------------------------
(* The types of the components. *)

(* The persister's map, buffers, jobs and tables. *)
LEMMA PersisterType == ASSUME PersisterTypeOK, PersisterStep PROVE PersisterTypeOK'
<1>1. CASE UNCHANGED persisterVars \/ PersisterLost
  BY <1>1 DEF PersisterTypeOK, UserJob, AnswerJob, persisterVars, PersisterLost
<1>2. ASSUME NEW r \in Req, PersisterOnRequested(r) \/ PersisterOnFailed(r)
      PROVE  PersisterTypeOK'
  <2>1. CASE PersisterOnRequested(r)
    <3>1. PICK textual \in BOOLEAN :
            userJob' = [userJob EXCEPT ![r] = IF textual THEN "append" ELSE "done"]
      BY <2>1 DEF PersisterTypeOK, UserJob, AnswerJob, PersisterOnRequested
    <3>2. userJob' \in [Req -> UserJob]
      BY <3>1 DEF PersisterTypeOK, UserJob
    <3> QED BY <2>1, <3>2 DEF PersisterTypeOK, UserJob, AnswerJob, PersisterOnRequested
  <2>2. CASE PersisterOnFailed(r)
    BY <2>2 DEF PersisterTypeOK, UserJob, AnswerJob, PersisterOnFailed
  <2> QED BY <1>2, <2>1, <2>2
<1>3. ASSUME NEW r \in Req, NEW buf \in [Req -> Nat], StoreAnswer(r, buf)
      PROVE  PersisterTypeOK'
  BY <1>3 DEF PersisterTypeOK, UserJob, AnswerJob, StoreAnswer
<1>4. ASSUME NEW r \in Req, NEW kind PROVE BufferWith(r, kind) \in [Req -> Nat]
  BY DEF PersisterTypeOK, UserJob, AnswerJob, BufferWith
<1>5. ASSUME NEW r \in Req, NEW kind, PersisterOnToken(r, kind) PROVE PersisterTypeOK'
  BY <1>4, <1>5 DEF PersisterTypeOK, UserJob, AnswerJob, PersisterOnToken
<1>6. ASSUME NEW r \in Req, AppendUser(r) \/ LookupTitle(r) PROVE PersisterTypeOK'
  <2>1. CASE AppendUser(r)
    <3>1. asks \in [Req -> Nat] /\ userJob \in [Req -> UserJob]
      BY DEF PersisterTypeOK
    <3>2. asks' \in [Req -> Nat]
      BY <2>1, <3>1 DEF AppendUser
    <3>3. userJob' \in [Req -> UserJob]
      BY <2>1, <3>1 DEF UserJob, AppendUser
    <3> QED BY <2>1, <3>2, <3>3 DEF PersisterTypeOK, AppendUser
  <2>2. CASE LookupTitle(r)
    BY <2>2 DEF PersisterTypeOK, UserJob, LookupTitle
  <2> QED BY <1>6, <2>1, <2>2
<1>7. ASSUME NEW r \in Req, SetTitle(r) PROVE PersisterTypeOK'
  BY <1>7 DEF PersisterTypeOK, UserJob, AnswerJob, SetTitle
<1>8. ASSUME NEW r \in Req, AppendAnswer(r) PROVE PersisterTypeOK'
  <2>1. Append(answers[r], buffer[r]) \in Seq(Nat)
    BY DEF PersisterTypeOK
  <2>2. answers \in [Req -> Seq(Nat)] /\ answerJob \in [Req -> AnswerJob]
    BY DEF PersisterTypeOK
  <2>3. answers' \in [Req -> Seq(Nat)]
    BY <1>8, <2>1, <2>2 DEF AppendAnswer
  <2>4. answerJob' \in [Req -> AnswerJob]
    BY <1>8, <2>2 DEF AnswerJob, AppendAnswer
  <2> QED BY <1>8, <2>3, <2>4 DEF PersisterTypeOK, AppendAnswer
<1>9. ASSUME NEW r \in Req, NEW kind, PersisterOnCompleted(r, kind) PROVE PersisterTypeOK'
  BY <1>3, <1>4, <1>9 DEF PersisterOnCompleted
<1>10. ASSUME NEW r \in Req, PersisterOnAborted(r) PROVE PersisterTypeOK'
  <2>1. buffer \in [Req -> Nat]
    BY DEF PersisterTypeOK
  <2> QED BY <1>3, <1>10, <2>1 DEF PersisterOnAborted
<1> QED
  BY <1>1, <1>2, <1>5, <1>6, <1>7, <1>8, <1>9, <1>10 DEF PersisterStep

(* The recorder's map, jobs and rows. *)
LEMMA UsageType == ASSUME UsageTypeOK, UsageStep PROVE UsageTypeOK'
BY DEF UsageStep, UsageTypeOK, usageVars, UsageLost, UsageOnRequested, UsageOnCompleted,
  UsageOnDropped, RecordUsage

(* The handler's map, signals and streams: a stream never exceeds its bound. *)
LEMMA HandlerType == ASSUME HandlerTypeOK, HandlerStep PROVE HandlerTypeOK'
<1>1. ASSUME NEW r \in Req,
        HandlerOnRequested(r) \/ PullChunk(r, TRUE) \/ PullChunk(r, FALSE) \/ Resume(r)
      PROVE  HandlerTypeOK'
  BY <1>1, ChatAssumption DEF ChatAssumption, HandlerTypeOK, HandlerOnRequested, PullChunk, Resume
<1>2. ASSUME NEW r \in Req, EndOfStream(r) \/ StreamThrows(r) \/ FinishAbort(r)
      PROVE  HandlerTypeOK'
  BY <1>2, ChatAssumption DEF ChatAssumption, HandlerTypeOK, EndOfStream, StreamThrows, FinishAbort
<1>3. CASE UNCHANGED handlerVars \/ HandlerLost \/ HandlerDispose
  BY <1>3, ChatAssumption DEF ChatAssumption, HandlerTypeOK, handlerVars, HandlerLost, HandlerDispose
<1>4. ASSUME NEW R \in SUBSET Req, NEW reason \in {"manual", "client"}, AbortAll(R, reason)
      PROVE  HandlerTypeOK'
  BY <1>4, ChatAssumption DEF ChatAssumption, HandlerTypeOK, AbortAll
<1> QED BY <1>1, <1>2, <1>3, <1>4 DEF HandlerStep

(* What is written to a socket is a sequence of messages. *)
LEMMA ForwardType ==
  ASSUME SessionTypeOK, NEW r \in Req, NEW msgs \in Seq(WireMsg), Forward(r, msgs)
  PROVE  wire' \in [Req -> Seq(WireMsg)] /\ dropped' \in SUBSET Req
<1>1. wire \in [Req -> Seq(WireMsg)] /\ dropped \in SUBSET Req
  BY DEF SessionTypeOK
<1>2. /\ wire[r] \o msgs \in Seq(WireMsg)
      /\ Len(msgs) > 1 => wire[r] \o <<msgs[1]>> \in Seq(WireMsg)
  BY <1>1
<1>3. wire' \in [Req -> Seq(WireMsg)]
  BY <1>1, <1>2 DEF Forward
<1> QED BY <1>1, <1>3 DEF Forward

(* Releasing a request leaves each session a set of requests. *)
LEMMA ReleaseType ==
  ASSUME SessionTypeOK, NEW r \in Req, Release(r) PROVE owned' \in [Session -> SUBSET Req]
BY DEF SessionTypeOK, Release

(* handleChatSend knows its sender from the start, and its conversation    *)
(* once it is opened.                                                      *)
Placed ==
  \A r \in Req :
    /\ sending[r] # "new" => sentBy[r] \in Session
    /\ sending[r] \in {"reading", "checking", "blocked", "asked"} => conv[r] \in Conv

(* The types of the sessions, with what their operations rely on. *)
SessionTypes == conv \in [Req -> Conv \cup {None}] /\ SessionTypeOK /\ Placed

(* What a client does keeps them, *)
LEMMA SessionTypeClient ==
  ASSUME SessionTypes, NEW s \in Session, Client(s) PROVE SessionTypes'
<1>1. CASE NewLink(s) \/ Backlog(s)
  BY <1>1 DEF SessionTypes, SessionTypeOK, Placed, NewLink, Start, Backlog, Congest
<1>2. CASE Close(s)
  BY <1>2 DEF SessionTypes, SessionTypeOK, Placed, Close, SessionClose
<1>3. CASE \E r \in Req : ChatAbort(s, r)
  BY <1>3 DEF SessionTypes, SessionTypeOK, Placed, ChatAbort, sessionVars
<1>4. ASSUME NEW r \in Req, NEW c \in Conv \cup {None}, ChatSend(s, r, c) PROVE SessionTypes'
  <2>1. sending' \in [Req -> Sending] /\ sentBy' \in [Req -> Session \cup {None}]
        /\ conv' \in [Req -> Conv \cup {None}]
    BY <1>4 DEF SessionTypes, SessionTypeOK, ChatSend, Send, Sending
  <2>2. Placed'
    BY <1>4 DEF SessionTypes, SessionTypeOK, Placed, ChatSend, Send
  <2> QED BY <1>4, <2>1, <2>2 DEF SessionTypes, SessionTypeOK, ChatSend, Send
<1> QED BY <1>1, <1>2, <1>3, <1>4 DEF Client

(* handleChatSend does, whose conversation is opened before it is used, *)
LEMMA SessionTypeDispatch ==
  ASSUME SessionTypes, NEW r \in Req, Dispatch(r) PROVE SessionTypes'
<1>1. <<"failed">> \in Seq(WireMsg) /\ <<"started">> \in Seq(WireMsg)
  OBVIOUS
<1>2. CASE OpenExisting(r)
  BY <1>2 DEF SessionTypes, SessionTypeOK, Placed, OpenExisting, Sending
<1>3. CASE OpenNew(r)
  <2>1. UserOf[sentBy[r]] \in User
    BY <1>3, ChatAssumption DEF ChatAssumption, SessionTypes, SessionTypeOK, Placed, OpenNew
  <2>2. /\ conv' \in [Req -> Conv \cup {None}]
        /\ owner' \in [Conv -> User \cup {None}]
        /\ sending' \in [Req -> Sending]
    <3>1. /\ conv \in [Req -> Conv \cup {None}]
          /\ owner \in [Conv -> User \cup {None}]
          /\ sending \in [Req -> Sending]
      BY DEF SessionTypes, SessionTypeOK
    <3>2. sending' \in [Req -> Sending]
      BY <1>3, <3>1 DEF OpenNew, Sending
    <3>3. conv' \in [Req -> Conv \cup {None}]
      BY <1>3, <3>1 DEF OpenNew
    <3>4. owner' \in [Conv -> User \cup {None}]
      BY <1>3, <2>1, <3>1 DEF OpenNew
    <3> QED BY <3>2, <3>3, <3>4
  <2>3. Placed'
    BY <1>3 DEF SessionTypes, SessionTypeOK, Placed, OpenNew
  <2> QED BY <1>3, <2>2, <2>3 DEF SessionTypes, SessionTypeOK, OpenNew
<1>4. CASE Own(r)
  BY <1>4 DEF SessionTypes, SessionTypeOK, Placed, Own, OwnRequest, Sending
<1>5. CASE Blocked(r)
  <2>1. wire' \in [Req -> Seq(WireMsg)] /\ dropped' \in SUBSET Req
    BY <1>1, <1>5, ForwardType DEF SessionTypes, Blocked, SessionBlocked, SessionOnFailed
  <2>2. owned' \in [Session -> SUBSET Req]
    BY <1>5, ReleaseType DEF SessionTypes, Blocked, SessionBlocked, SessionOnFailed
  <2> QED
    BY <1>5, <2>1, <2>2 DEF SessionTypes, SessionTypeOK, Placed, Blocked, SessionBlocked, Sending
<1>6. CASE Ask(r)
  <2>1. wire' \in [Req -> Seq(WireMsg)] /\ dropped' \in SUBSET Req
    BY <1>1, <1>6, ForwardType DEF SessionTypes, SessionTypeOK, Ask, SessionAsks
  <2> QED
    BY <1>6, <2>1 DEF SessionTypes, SessionTypeOK, Placed, Ask, SessionAsks, Sending
<1> QED BY <1>2, <1>3, <1>4, <1>5, <1>6 DEF Dispatch, Open

(* the bus events of a stream do, *)
LEMMA SessionTypeStream ==
  ASSUME SessionTypes, NEW r \in Req, Stream(r) PROVE SessionTypes'
<1>1. ASSUME NEW msgs \in Seq(WireMsg), Forward(r, msgs), Release(r) \/ UNCHANGED owned,
             UNCHANGED <<conv, link, slow, sentBy, sending, owner>>
      PROVE  SessionTypes'
  <2>1. wire' \in [Req -> Seq(WireMsg)] /\ dropped' \in SUBSET Req
    BY <1>1, ForwardType DEF SessionTypes
  <2>2. owned' \in [Session -> SUBSET Req]
    BY <1>1, ReleaseType DEF SessionTypes, SessionTypeOK
  <2> QED BY <1>1, <2>1, <2>2 DEF SessionTypes, SessionTypeOK, Placed
<1>2. ASSUME NEW kind \in {"text", "blank"}, Chunk(r, kind) PROVE SessionTypes'
  <2>1. <<kind>> \in Seq(WireMsg)
    BY <1>2
  <2> QED BY <1>1, <1>2, <2>1 DEF Chunk, SessionOnToken
<1>3. ASSUME NEW kind \in {"text", "blank", "none"}, FinishChunk(r, kind) PROVE SessionTypes'
  <2>1. <<"completed">> \in Seq(WireMsg)
    OBVIOUS
  <2>2. ASSUME kind # "none" PROVE <<kind, "completed">> \in Seq(WireMsg)
    BY <1>3, <2>2
  <2> QED BY <1>1, <1>3, <2>1, <2>2 DEF FinishChunk, SessionOnCompleted
<1>4. CASE Throw(r)
  <2>1. <<"failed">> \in Seq(WireMsg) /\ <<"aborted">> \in Seq(WireMsg)
    OBVIOUS
  <2> QED BY <1>1, <1>4, <2>1 DEF Throw, SessionOnFailed, SessionOnAborted
<1>5. CASE AfterCompleted(r) \/ End(r) \/ AfterAborted(r)
  BY <1>5 DEF AfterCompleted, End, AfterAborted, SessionTypes, SessionTypeOK, Placed, sessionVars
<1> QED BY <1>2, <1>3, <1>4, <1>5 DEF Stream

(* and everything else leaves the sessions alone or ends them. *)
LEMMA SessionTypeOther ==
  ASSUME SessionTypes,
         UNCHANGED <<conv, sessionVars>> \/ (UNCHANGED conv /\ SessionsLost)
  PROVE  SessionTypes'
BY DEF SessionTypes, SessionTypeOK, Placed, sessionVars, SessionsLost, Sending, Awaiting

(* The sessions keep their types in every step of the server. *)
LEMMA SessionType == ASSUME SessionTypes, [Next]_vars PROVE SessionTypes'
<1>1. ASSUME NEW r \in Req, Database(r) PROVE UNCHANGED <<conv, sessionVars>>
  BY <1>1 DEF Database, StoreUser, StoreAssistant, StoreUsage, AppendUser, LookupTitle, SetTitle,
    AppendAnswer, RecordUsage
<1>2. ASSUME NEW how, ProcessEnds(how) PROVE UNCHANGED conv /\ SessionsLost
  BY <1>2 DEF ProcessEnds
<1>3. CASE BeginShutdown \/ DisposeHandler
  BY <1>3, SessionTypeOther DEF BeginShutdown, DisposeHandler
<1>4. CASE UNCHANGED vars
  BY <1>4, SessionTypeOther DEF vars
<1> QED
  BY <1>1, <1>2, <1>3, <1>4, SessionTypeClient, SessionTypeDispatch, SessionTypeStream,
    SessionTypeOther DEF Next, Exit, Crash

(* The process state and the history of what was published. *)
LEMMA HistoryType ==
  ASSUME TypeOK, [Next]_vars
  PROVE  /\ server' \in ServerState
         /\ outcome' \in [Req -> Terminal \cup {"none"}]
         /\ said' \in [Req -> Nat]
<1>1. /\ server \in ServerState
      /\ outcome \in [Req -> Terminal \cup {"none"}]
      /\ said \in [Req -> Nat]
  BY DEF TypeOK
<1>2. ASSUME NEW s \in Session, Client(s) PROVE UNCHANGED <<server, outcome, said>>
  BY <1>2 DEF Client, NewLink, Backlog, Close, ChatAbort, ChatSend, historyVars
<1>3. ASSUME NEW r \in Req, Database(r) PROVE UNCHANGED <<server, outcome, said>>
  BY <1>3 DEF Database, StoreUser, StoreAssistant, StoreUsage, historyVars
<1>4. ASSUME NEW r \in Req, Dispatch(r) \/ Stream(r)
      PROVE  /\ UNCHANGED server
             /\ UNCHANGED outcome \/ \E event \in Terminal : Publish(r, event)
             /\ UNCHANGED said \/ \E kind \in {"text", "blank", "none"} : Say(r, kind)
  BY <1>4 DEF Dispatch, Open, Own, Blocked, Ask, Stream, Chunk, FinishChunk, AfterCompleted, End,
    Throw, AfterAborted, historyVars
<1>5. ASSUME NEW how \in ServerState, ProcessEnds(how)
      PROVE  server' \in ServerState /\ UNCHANGED <<outcome, said>>
  BY <1>5 DEF ProcessEnds, historyVars
<1>6. CASE BeginShutdown \/ DisposeHandler \/ UNCHANGED vars
  BY <1>1, <1>6 DEF BeginShutdown, DisposeHandler, historyVars, vars, ServerState
<1>7. ASSUME NEW r \in Req, NEW event \in Terminal, Publish(r, event)
      PROVE  outcome' \in [Req -> Terminal \cup {"none"}]
  BY <1>1, <1>7 DEF Publish
<1>8. ASSUME NEW r \in Req, NEW kind, Say(r, kind) PROVE said' \in [Req -> Nat]
  BY <1>1, <1>8 DEF Say
<1>9. "exited" \in ServerState /\ "crashed" \in ServerState
  BY DEF ServerState
<1> QED
  BY <1>1, <1>2, <1>3, <1>4, <1>5, <1>6, <1>7, <1>8, <1>9 DEF Next, Exit, Crash

(* TypeOK holds in every state of the server. *)
THEOREM TypeCorrect == Spec => [](TypeOK /\ Placed)
<1>1. Init => TypeOK /\ Placed
  BY ChatAssumption DEF ChatAssumption, Init, TypeOK, PersisterInit, PersisterTypeOK, UsageInit,
    UsageTypeOK, SessionInit, SessionTypeOK, HandlerInit, HandlerTypeOK, ServerState, UserJob,
    AnswerJob, Sending, Placed
<1>2. TypeOK /\ Placed /\ [Next]_vars => TypeOK' /\ Placed'
  <2> SUFFICES ASSUME TypeOK, Placed, [Next]_vars PROVE TypeOK' /\ Placed'
    OBVIOUS
  <2>1. SessionTypes'
    BY SessionType DEF SessionTypes, TypeOK
  <2>2. PersisterTypeOK' /\ UsageTypeOK' /\ HandlerTypeOK'
    BY ComponentSteps, PersisterType, UsageType, HandlerType DEF TypeOK
  <2>3. server' \in ServerState /\ outcome' \in [Req -> Terminal \cup {"none"}]
        /\ said' \in [Req -> Nat]
    BY HistoryType
  <2> QED BY <2>1, <2>2, <2>3 DEF TypeOK, SessionTypes
<1> QED BY <1>1, <1>2, PTL DEF Spec

-----------------------------------------------------------------------------
(* The inductive invariant of a turn.                                      *)

(* A request that never was published has touched nothing. *)
Untouched(r) ==
  sending[r] # "asked" =>
    /\ stage[r] = "idle" /\ r \notin pending /\ r \notin usagePending
    /\ userJob[r] = "none" /\ answerJob[r] = "none" /\ usageJob[r] = "none"
    /\ asks[r] = 0 /\ answers[r] = <<>> /\ usageRows[r] = 0 /\ said[r] = 0
    /\ outcome[r] = "none" \/ (outcome[r] = "failed" /\ sending[r] = "blocked")

(* While a turn is open its buffer is what has been said; the entry leaves *)
(* the map with the first terminal event, and only that event can start an *)
(* append, so nothing is appended twice.                                   *)
Buffering(r) ==
  /\ r \in pending =>
       outcome[r] = "none" /\ buffer[r] = said[r] /\ answerJob[r] = "none" /\ answers[r] = <<>>
  /\ answerJob[r] = "append" =>
       /\ outcome[r] \in {"completed", "aborted"}
       /\ buffer[r] = said[r] /\ said[r] > 0 /\ answers[r] = <<>>
  /\ answers[r] # <<>> =>
       /\ outcome[r] \in {"completed", "aborted"}
       /\ answers[r] = <<said[r]>> /\ said[r] > 0

(* The same for the usage row. *)
Billing(r) ==
  /\ r \in usagePending => outcome[r] = "none" /\ usageJob[r] = "none" /\ usageRows[r] = 0
  /\ usageJob[r] = "record" => outcome[r] = "completed" /\ usageRows[r] = 0
  /\ usageRows[r] <= 1
  /\ usageRows[r] = 1 => outcome[r] = "completed"

TurnInv(r) == Untouched(r) /\ Buffering(r) /\ Billing(r)

(* What TurnInv(r) speaks of is left alone. *)
Same(r) ==
  /\ r \in pending' <=> r \in pending
  /\ r \in usagePending' <=> r \in usagePending
  /\ buffer'[r] = buffer[r] /\ userJob'[r] = userJob[r] /\ answerJob'[r] = answerJob[r]
  /\ asks'[r] = asks[r] /\ answers'[r] = answers[r]
  /\ usageJob'[r] = usageJob[r] /\ usageRows'[r] = usageRows[r]
  /\ sending'[r] = sending[r] /\ stage'[r] = stage[r]
  /\ outcome'[r] = outcome[r] /\ said'[r] = said[r]

(* TurnInv(r) is about nothing else. *)
LEMMA SameKeeps == ASSUME NEW r, TurnInv(r), Same(r) PROVE TurnInv(r)'
BY DEF TurnInv, Same, Untouched, Buffering, Billing

(* The step of one request leaves the others alone. *)
LEMMA Frame ==
  ASSUME TypeOK, NEW q \in Req, NEW r \in Req, q # r, Dispatch(q) \/ Stream(q) \/ Database(q)
  PROVE  Same(r)
<1> USE DEF TypeOK, PersisterTypeOK, UsageTypeOK, HandlerTypeOK, SessionTypeOK
<1>1. CASE Open(q) \/ Own(q)
  BY <1>1 DEF Same, Open, OpenExisting, OpenNew, Own, OwnRequest, persisterVars, usageVars,
    handlerVars, historyVars
<1>2. CASE Blocked(q)
  BY <1>2 DEF Same, Blocked, SessionBlocked, PersisterOnFailed, UsageOnDropped, Publish, handlerVars
<1>3. CASE Ask(q)
  BY <1>3 DEF Same, Ask, SessionAsks, PersisterOnRequested, UsageOnRequested, HandlerOnRequested,
    handlerVars, historyVars
<1>4. ASSUME NEW kind, Chunk(q, kind) PROVE Same(r)
  BY <1>4 DEF Same, Chunk, PullChunk, PersisterOnToken, BufferWith, Say, usageVars
<1>5. ASSUME NEW kind, FinishChunk(q, kind) PROVE Same(r)
  BY <1>5 DEF Same, FinishChunk, PullChunk, PersisterOnCompleted, StoreAnswer, BufferWith,
    UsageOnCompleted, Say, Publish
<1>6. CASE AfterCompleted(q) \/ End(q) \/ AfterAborted(q)
  BY <1>6 DEF Same, AfterCompleted, Resume, End, EndOfStream, AfterAborted, FinishAbort,
    persisterVars, usageVars, sessionVars, historyVars
<1>7. CASE Throw(q)
  BY <1>7 DEF Same, Throw, StreamThrows, PersisterOnAborted, StoreAnswer, PersisterOnFailed,
    UsageOnDropped, Publish
<1>8. CASE StoreUser(q)
  BY <1>8 DEF Same, StoreUser, AppendUser, LookupTitle, SetTitle, usageVars, sessionVars,
    handlerVars, historyVars
<1>9. CASE StoreAssistant(q) \/ StoreUsage(q)
  BY <1>9 DEF Same, StoreAssistant, AppendAnswer, StoreUsage, RecordUsage, persisterVars,
    usageVars, sessionVars, handlerVars, historyVars
<1> QED
  BY <1>1, <1>2, <1>3, <1>4, <1>5, <1>6, <1>7, <1>8, <1>9 DEF Dispatch, Stream, Database

(* The steps of handleChatSend keep the invariant of their turn. *)
LEMMA TurnDispatch ==
  ASSUME TypeOK, NEW r \in Req, TurnInv(r), Dispatch(r) PROVE TurnInv(r)'
<1> USE DEF TypeOK, PersisterTypeOK, UsageTypeOK, HandlerTypeOK, SessionTypeOK
<1>1. CASE Open(r) \/ Own(r)
  BY <1>1 DEF TurnInv, Untouched, Buffering, Billing, Open, OpenExisting, OpenNew, Own,
    OwnRequest, persisterVars, usageVars, handlerVars, historyVars
<1>2. CASE Blocked(r)
  BY <1>2 DEF TurnInv, Untouched, Buffering, Billing, Blocked, SessionBlocked, PersisterOnFailed,
    UsageOnDropped, Publish, handlerVars
<1>3. CASE Ask(r)
  BY <1>3 DEF TurnInv, Untouched, Buffering, Billing, Ask, SessionAsks, PersisterOnRequested,
    UsageOnRequested, historyVars
<1> QED BY <1>1, <1>2, <1>3 DEF Dispatch

(* So do the steps of its stream, *)
LEMMA TurnStream ==
  ASSUME TypeOK, NEW r \in Req, TurnInv(r), Stream(r) PROVE TurnInv(r)'
<1> USE DEF TypeOK, PersisterTypeOK, UsageTypeOK, HandlerTypeOK, SessionTypeOK
<1>1. ASSUME NEW kind, Chunk(r, kind) PROVE TurnInv(r)'
  BY <1>1 DEF TurnInv, Untouched, Buffering, Billing, Chunk, PullChunk, PersisterOnToken,
    BufferWith, Say, usageVars
<1>2. ASSUME NEW kind, FinishChunk(r, kind) PROVE TurnInv(r)'
  BY <1>2 DEF TurnInv, Untouched, Buffering, Billing, FinishChunk, PullChunk,
    PersisterOnCompleted, StoreAnswer, BufferWith, UsageOnCompleted, Say, Publish
<1>3. CASE AfterCompleted(r) \/ End(r) \/ AfterAborted(r)
  BY <1>3 DEF TurnInv, Untouched, Buffering, Billing, AfterCompleted, Resume, End, EndOfStream,
    AfterAborted, FinishAbort, persisterVars, usageVars, sessionVars, historyVars
<1>4. CASE Throw(r)
  BY <1>4 DEF TurnInv, Untouched, Buffering, Billing, Throw, StreamThrows, PersisterOnAborted,
    StoreAnswer, PersisterOnFailed, UsageOnDropped, Publish
<1> QED BY <1>1, <1>2, <1>3, <1>4 DEF Stream

(* the database answers it waits for, *)
LEMMA TurnDatabase ==
  ASSUME TypeOK, NEW r \in Req, TurnInv(r), Database(r) PROVE TurnInv(r)'
<1> USE DEF TypeOK, PersisterTypeOK, UsageTypeOK, HandlerTypeOK, SessionTypeOK
<1>1. CASE StoreUser(r)
  BY <1>1 DEF TurnInv, Untouched, Buffering, Billing, StoreUser, AppendUser, LookupTitle,
    SetTitle, usageVars, sessionVars, handlerVars, historyVars
<1>2. CASE StoreAssistant(r)
  BY <1>2 DEF TurnInv, Untouched, Buffering, Billing, StoreAssistant, AppendAnswer, usageVars,
    sessionVars, handlerVars, historyVars
<1>3. CASE StoreUsage(r)
  BY <1>3 DEF TurnInv, Untouched, Buffering, Billing, StoreUsage, RecordUsage, persisterVars,
    sessionVars, handlerVars, historyVars
<1> QED BY <1>1, <1>2, <1>3 DEF Database

(* everything a client does, *)
LEMMA TurnClient ==
  ASSUME TypeOK, NEW s \in Session, NEW r \in Req, TurnInv(r), Client(s) PROVE TurnInv(r)'
<1>1. ASSUME NEW q \in Req, NEW c \in Conv \cup {None}, ChatSend(s, q, c) PROVE TurnInv(r)'
  BY <1>1 DEF TurnInv, Untouched, Buffering, Billing, ChatSend, Send, persisterVars, usageVars,
    handlerVars, historyVars, TypeOK, SessionTypeOK
<1>2. CASE NewLink(s) \/ Backlog(s) \/ Close(s) \/ \E q \in Req : ChatAbort(s, q)
  BY <1>2, SameKeeps DEF Same, NewLink, Start, Backlog, Congest, Close, SessionClose, ChatAbort,
    AbortAll, persisterVars, usageVars, sessionVars, handlerVars, historyVars
<1> QED BY <1>1, <1>2 DEF Client

(* and the shutdown and the end of the process. *)
LEMMA TurnServer ==
  ASSUME TypeOK, NEW r \in Req, TurnInv(r),
         BeginShutdown \/ DisposeHandler \/ (\E how \in ServerState : ProcessEnds(how))
  PROVE  TurnInv(r)'
<1>1. CASE BeginShutdown \/ DisposeHandler
  BY <1>1, SameKeeps DEF Same, BeginShutdown, DisposeHandler, HandlerDispose, persisterVars,
    usageVars, sessionVars, handlerVars, historyVars
<1>2. ASSUME NEW how, ProcessEnds(how) PROVE TurnInv(r)'
  BY <1>2 DEF TurnInv, Untouched, Buffering, Billing, ProcessEnds, PersisterLost, UsageLost,
    SessionsLost, HandlerLost, Awaiting, historyVars, TypeOK, SessionTypeOK, PersisterTypeOK,
    UsageTypeOK, HandlerTypeOK
<1> QED BY <1>1, <1>2

TurnsInv == \A r \in Req : TurnInv(r)

(* The invariant of the turns is inductive relative to the types. *)
LEMMA TurnStep == ASSUME TypeOK, TurnsInv, [Next]_vars PROVE TurnsInv'
<1> SUFFICES ASSUME NEW r \in Req, TurnInv(r) PROVE TurnInv(r)'
  BY DEF TurnsInv
<1>1. CASE UNCHANGED vars
  BY <1>1, SameKeeps DEF Same, vars, persisterVars, usageVars, sessionVars, handlerVars, historyVars
<1>2. ASSUME NEW q \in Req, Dispatch(q) \/ Stream(q) \/ Database(q) PROVE TurnInv(r)'
  <2>1. CASE q = r
    BY <1>2, <2>1, TurnDispatch, TurnStream, TurnDatabase
  <2>2. CASE q # r
    BY <1>2, <2>2, Frame, SameKeeps
  <2> QED BY <2>1, <2>2
<1>3. "exited" \in ServerState /\ "crashed" \in ServerState
  BY DEF ServerState
<1> QED BY <1>1, <1>2, <1>3, TurnClient, TurnServer DEF Next, Exit, Crash

(* Every turn keeps its invariant in every state of the server. *)
THEOREM TurnsCorrect == Spec => []TurnsInv
<1>1. Init => TurnsInv
  BY DEF Init, PersisterInit, UsageInit, SessionInit, HandlerInit, TurnsInv, TurnInv, Untouched,
    Buffering, Billing
<1>2. TypeOK /\ TurnsInv /\ [Next]_vars => TurnsInv'
  BY TurnStep
<1> QED BY <1>1, <1>2, TypeCorrect, PTL DEF Spec

(* At most one assistant row per turn, holding the text published before   *)
(* the completion or the abort that ended it: the persister's buffers and  *)
(* appends, in any order with anything else.                               *)
THEOREM AnswersAreKeptOnce == Spec => []AnswerKeptOnce
<1>1. TurnsInv => AnswerKeptOnce
  BY DEF TurnsInv, TurnInv, Buffering, AnswerKeptOnce
<1> QED BY <1>1, TurnsCorrect, PTL

(* At most one usage row per turn, and only for a completed one. *)
THEOREM TurnsAreBilledOnce == Spec => []BilledOnce
<1>1. TurnsInv => BilledOnce
  BY DEF TurnsInv, TurnInv, Billing, BilledOnce
<1> QED BY <1>1, TurnsCorrect, PTL

(* A refused or blocked request reaches neither the transcript, the        *)
(* provider nor the usage table.                                           *)
THEOREM RefusalsLeaveNoTrace == Spec => []RefusedLeavesNoTrace
<1>1. TurnsInv => RefusedLeavesNoTrace
  BY DEF TurnsInv, TurnInv, Untouched, RefusedLeavesNoTrace
<1> QED BY <1>1, TurnsCorrect, PTL

-----------------------------------------------------------------------------
(* The contract. *)

(* The contract sees no change of r's turn. *)
Still(r) ==
  /\ TurnOf(r)' = TurnOf(r)
  /\ said'[r] = said[r] /\ answers'[r] = answers[r] /\ usageRows'[r] = usageRows[r]

Others(q) == \A r \in Req \ {q} : Still(r)

Mapped == [r \in Req |-> TurnOf(r)]

ContractStep ==
  \/ UNCHANGED <<Mapped, said, answers, usageRows>>
  \/ \E r \in Req :
       \/ Contract!Run(r) \/ Contract!Refuse(r) \/ Contract!Speak(r)
       \/ Contract!EndTurn(r) \/ Contract!Keep(r) \/ Contract!Bill(r)

(* The step of one request is invisible in the turns of the others. *)
LEMMA ContractOthers ==
  ASSUME TypeOK, NEW q \in Req, Dispatch(q) \/ Stream(q) \/ Database(q)
  PROVE  Others(q)
BY Frame DEF Others, Still, Same, TurnOf

(* A step that changes no turn's look is a stutter of the contract. *)
LEMMA StillStep ==
  ASSUME TypeOK, TypeOK', \A r \in Req : Still(r)
  PROVE  UNCHANGED <<Mapped, said, answers, usageRows>>
BY DEF Still, Mapped, TypeOK, PersisterTypeOK, UsageTypeOK

(* handleChatSend refuses, starts a turn, or changes none. *)
LEMMA ContractDispatch ==
  ASSUME TypeOK, TypeOK', TurnsInv, NEW r \in Req, Dispatch(r) PROVE ContractStep
<1>1. TurnInv(r) /\ Others(r)
  BY ContractOthers DEF TurnsInv
<1>2. CASE Open(r) \/ Own(r)
  <2>1. Still(r)
    BY <1>1, <1>2 DEF Still, TurnOf, TurnInv, Untouched, Open, OpenExisting, OpenNew, Own,
      OwnRequest, persisterVars, usageVars, historyVars, TypeOK, SessionTypeOK
  <2> QED BY <1>1, <2>1, StillStep DEF Others, Still, ContractStep
<1>3. CASE Blocked(r)
  <2>1. /\ TurnOf(r) = "idle" /\ TurnOf(r)' = "failed"
        /\ UNCHANGED <<said, answers, usageRows>>
    BY <1>1, <1>3 DEF TurnOf, TurnInv, Untouched, Blocked, SessionBlocked, PersisterOnFailed,
      UsageOnDropped, Publish, TypeOK, SessionTypeOK
  <2>2. Contract!Refuse(r)
    BY <1>1, <2>1 DEF Others, Still, Contract!Refuse
  <2> QED BY <2>2 DEF ContractStep
<1>4. CASE Ask(r)
  <2>1. /\ TurnOf(r) = "idle" /\ TurnOf(r)' = "running"
        /\ UNCHANGED <<said, answers, usageRows>>
    BY <1>1, <1>4 DEF TurnOf, TurnInv, Untouched, Ask, SessionAsks, PersisterOnRequested,
      UsageOnRequested, historyVars, TypeOK, SessionTypeOK
  <2>2. Contract!Run(r)
    BY <1>1, <2>1 DEF Others, Still, Contract!Run
  <2> QED BY <2>2 DEF ContractStep
<1> QED BY <1>2, <1>3, <1>4 DEF Dispatch

(* A stream speaks, ends its turn, or changes none: whatever comes after   *)
(* the first terminal event is lost on the contract.                       *)
LEMMA ContractStream ==
  ASSUME TypeOK, TypeOK', TurnsInv, NEW r \in Req, Stream(r) PROVE ContractStep
<1>1. TurnInv(r) /\ Others(r)
  BY ContractOthers DEF TurnsInv
<1>2. stage[r] # "idle" => TurnOf(r) = IF outcome[r] = "none" THEN "running" ELSE outcome[r]
  BY <1>1 DEF TurnInv, Untouched, TurnOf
<1>3. CASE Still(r)
  BY <1>1, <1>3, StillStep DEF Others, ContractStep
<1>4. ASSUME NEW kind, Chunk(r, kind), ~Still(r) PROVE ContractStep
  <2>1. /\ TurnOf(r) = "running" /\ TurnOf(r)' = "running"
        /\ said' = [said EXCEPT ![r] = @ + 1]
        /\ UNCHANGED <<answers, usageRows>>
    BY <1>2, <1>4 DEF Still, TurnOf, Chunk, PullChunk, PersisterOnToken, Say, usageVars, TypeOK
  <2>2. Contract!Speak(r)
    BY <1>1, <2>1 DEF Others, Still, Contract!Speak
  <2> QED BY <2>2 DEF ContractStep
<1>5. ASSUME NEW kind, FinishChunk(r, kind), ~Still(r) PROVE ContractStep
  <2>1. /\ TurnOf(r) = "running" /\ TurnOf(r)' = "completed"
        /\ said' \in {said, [said EXCEPT ![r] = @ + 1]}
        /\ UNCHANGED <<answers, usageRows>>
    BY <1>2, <1>5 DEF Still, TurnOf, FinishChunk, PullChunk, PersisterOnCompleted, StoreAnswer,
      UsageOnCompleted, Say, Publish, TypeOK
  <2>2. Contract!EndTurn(r)
    BY <1>1, <2>1 DEF Others, Still, Contract!EndTurn
  <2> QED BY <2>2 DEF ContractStep
<1>6. ASSUME Throw(r), ~Still(r) PROVE ContractStep
  <2>1. /\ TurnOf(r) = "running" /\ TurnOf(r)' \in {"aborted", "failed"}
        /\ UNCHANGED <<said, answers, usageRows>>
    BY <1>2, <1>6 DEF Still, TurnOf, Throw, StreamThrows, PersisterOnAborted, StoreAnswer,
      PersisterOnFailed, UsageOnDropped, Publish, TypeOK
  <2>2. Contract!EndTurn(r)
    BY <1>1, <2>1 DEF Others, Still, Contract!EndTurn
  <2> QED BY <2>2 DEF ContractStep
<1>7. AfterCompleted(r) \/ End(r) \/ AfterAborted(r) => Still(r)
  BY DEF Still, TurnOf, AfterCompleted, End, AfterAborted, persisterVars, usageVars, sessionVars,
    historyVars
<1> QED BY <1>3, <1>4, <1>5, <1>6, <1>7 DEF Stream

(* A database answer keeps a text, bills a turn, or changes none.          *)
LEMMA ContractDatabase ==
  ASSUME TypeOK, TypeOK', TurnsInv, NEW r \in Req, Database(r) PROVE ContractStep
<1>1. TurnInv(r) /\ Others(r)
  BY ContractOthers DEF TurnsInv
<1>2. CASE Still(r)
  BY <1>1, <1>2, StillStep DEF Others, ContractStep
<1>3. StoreUser(r) => Still(r)
  BY DEF Still, TurnOf, StoreUser, AppendUser, LookupTitle, SetTitle, usageVars, sessionVars,
    historyVars
<1>4. ASSUME StoreAssistant(r), ~Still(r) PROVE ContractStep
  <2>1. /\ answerJob[r] = "append" /\ answers' = [answers EXCEPT ![r] = Append(@, buffer[r])]
        /\ UNCHANGED <<said, usageRows>> /\ TurnOf(r)' = TurnOf(r)
    BY <1>4 DEF Still, TurnOf, StoreAssistant, AppendAnswer, usageVars, sessionVars, historyVars
  <2>2. /\ outcome[r] \in {"completed", "aborted"}
        /\ buffer[r] = said[r] /\ said[r] > 0 /\ answers[r] = <<>>
    BY <1>1, <2>1 DEF TurnInv, Buffering
  <2>3. TurnOf(r) \in {"completed", "aborted"}
    BY <2>2 DEF TurnOf
  <2>4. Append(answers[r], buffer[r]) = <<said[r]>>
    BY <2>2
  <2>5. Contract!Keep(r)
    BY <1>1, <2>1, <2>2, <2>3, <2>4 DEF Others, Still, Contract!Keep, TypeOK, PersisterTypeOK
  <2> QED BY <2>5 DEF ContractStep
<1>5. ASSUME StoreUsage(r), ~Still(r) PROVE ContractStep
  <2>1. /\ usageJob[r] = "record" /\ usageRows' = [usageRows EXCEPT ![r] = @ + 1]
        /\ UNCHANGED <<said, answers>> /\ TurnOf(r)' = TurnOf(r)
    BY <1>5 DEF Still, TurnOf, StoreUsage, RecordUsage, persisterVars, sessionVars, historyVars
  <2>2. outcome[r] = "completed" /\ usageRows[r] = 0
    BY <1>1, <2>1 DEF TurnInv, Billing
  <2>3. TurnOf(r) = "completed"
    BY <2>2 DEF TurnOf
  <2>4. Contract!Bill(r)
    BY <1>1, <2>1, <2>2, <2>3 DEF Others, Still, Contract!Bill, TypeOK, UsageTypeOK
  <2> QED BY <2>4 DEF ContractStep
<1> QED BY <1>2, <1>3, <1>4, <1>5 DEF Database

(* Neither a client nor the process touches a turn. *)
LEMMA ContractStill ==
  ASSUME TypeOK, NEW r \in Req,
         \/ \E s \in Session : Client(s)
         \/ BeginShutdown \/ DisposeHandler \/ (\E how \in ServerState : ProcessEnds(how))
         \/ UNCHANGED vars
  PROVE  Still(r)
<1> USE DEF Still, TurnOf
<1>1. ASSUME NEW s \in Session, Client(s) PROVE Still(r)
  BY <1>1 DEF Client, NewLink, Start, Backlog, Congest, Close, SessionClose, ChatAbort, ChatSend,
    Send, persisterVars, usageVars, sessionVars, handlerVars, historyVars, TypeOK, SessionTypeOK
<1>2. CASE BeginShutdown \/ DisposeHandler \/ UNCHANGED vars
  BY <1>2 DEF BeginShutdown, DisposeHandler, vars, persisterVars, usageVars, sessionVars, historyVars
<1>3. ASSUME NEW how, ProcessEnds(how) PROVE Still(r)
  BY <1>3 DEF ProcessEnds, PersisterLost, UsageLost, SessionsLost, Awaiting, historyVars
<1> QED BY <1>1, <1>2, <1>3

(* Every step of the server is a step of the contract or none. *)
LEMMA EveryStep ==
  ASSUME TypeOK, TypeOK', TurnsInv, [Next]_vars PROVE ContractStep
<1>1. "exited" \in ServerState /\ "crashed" \in ServerState
  BY DEF ServerState
<1>2. CASE \E r \in Req : Dispatch(r) \/ Stream(r) \/ Database(r)
  BY <1>2, ContractDispatch, ContractStream, ContractDatabase
<1>3. CASE \A r \in Req : Still(r)
  BY <1>3, StillStep DEF ContractStep
<1> QED BY <1>1, <1>2, <1>3, ContractStill DEF Next, Exit, Crash

(* The server implements the contract of a turn: under every interleaving  *)
(* of clients, streams, database answers, shutdown and crash, a turn runs, *)
(* speaks and ends once, and only then is kept or billed, once.            *)
THEOREM ImplementsContract == Spec => KeepsContract
<1>1. Init => Contract!ContractInit
  BY DEF Init, PersisterInit, UsageInit, SessionInit, Contract!ContractInit, TurnOf
<1>2. TypeOK /\ TypeOK' /\ TurnsInv /\ [Next]_vars =>
        [Contract!ContractNext]_(Contract!turnVars)
  BY EveryStep DEF ContractStep, Mapped, Contract!ContractNext, Contract!turnVars
<1>3. Spec => []TypeOK
  BY TypeCorrect, PTL
<1> QED BY <1>1, <1>2, <1>3, TurnsCorrect, PTL DEF Spec, KeepsContract, Contract!ContractSpec

-----------------------------------------------------------------------------
(***************************************************************************)
(* What a client of ChatTurn is shown and may do: the inductive invariant  *)
(* of a request's session, handler and socket, on top of the invariant of  *)
(* its turn, and the properties it implies.                                *)
(***************************************************************************)

(* A request is owned by the session it came in on alone, from OwnRequest  *)
(* to its first end; what a session with an open socket owns has not ended. *)
Owning(r) ==
  /\ sending[r] # "new" => sentBy[r] \in Session /\ link[sentBy[r]] # "new"
  /\ \A s \in Session : r \in owned[s] =>
       sending[r] # "new" /\ sentBy[r] = s /\ (link[s] = "open" => outcome[r] = "none")
  /\ sending[r] \in {"checking", "asked"} /\ outcome[r] = "none" /\ link[sentBy[r]] = "open" =>
       r \in owned[sentBy[r]]

(* A stream has its controller until it ends or the server is disposed,    *)
(* and what is aborted afterwards does not change whom its end blames.     *)
Streaming(r) ==
  /\ r \in active => stage[r] \in {"pulling", "completing", "aborting"}
  /\ stage[r] \in {"pulling", "completing", "aborting"} /\ server \in {"up", "draining"} =>
       r \in active
  /\ sending[r] # "asked" => signal[r] = "none"
  /\ outcome[r] = "failed" => stage[r] \in {"idle", "done"} /\ signal[r] = "none"
  /\ outcome[r] = "aborted" => stage[r] \in {"aborting", "done"} /\ (Running => signal[r] # "none")

(* The transcript a request was let into is its sender's. *)
Belonging(r) ==
  sending[r] \in {"reading", "checking", "blocked", "asked"} =>
    conv[r] \in Conv /\ owner[conv[r]] = UserOf[sentBy[r]]

(* Nothing is written before the verdict of the guardrails, and a terminal *)
(* message is the last one and names the outcome.                          *)
Writing(r) ==
  /\ sending[r] \notin {"asked", "blocked"} => wire[r] = <<>>
  /\ \A i \in 1 .. Len(wire[r]) :
       /\ wire[r][i] = "started" => i = 1
       /\ wire[r][i] \in Terminal => i = Len(wire[r]) /\ wire[r][i] = outcome[r]

(* Unless a message was dropped, an open socket has been written what has  *)
(* been said, and a terminal message came after all of it.                 *)
Reading(r) ==
  r \notin dropped =>
    /\ sending[r] \in {"checking", "asked"} /\ outcome[r] = "none" /\ link[sentBy[r]] = "open" =>
         Shown(r) = said[r]
    /\ Last(r) \in Terminal => Shown(r) = said[r]

LinkInv(r) == Owning(r) /\ Streaming(r) /\ Belonging(r)
TextInv(r) == Writing(r) /\ Reading(r)

(* Once the handler is disposed no socket is open. *)
Draining == server \in {"disposed", "exited", "crashed"} => \A s \in Session : link[s] # "open"

-----------------------------------------------------------------------------
(* Frames.                                                                 *)

(* A step that is nothing to the socket of r, its session and its stream. *)
SameLink(r) ==
  /\ link' = link /\ server' = server
  /\ \A s \in Session : r \in owned'[s] <=> r \in owned[s]
  /\ sending'[r] = sending[r] /\ sentBy'[r] = sentBy[r] /\ conv'[r] = conv[r]
  /\ conv[r] \in Conv /\ owner[conv[r]] # None => owner'[conv[r]] = owner[conv[r]]
  /\ r \in active' <=> r \in active
  /\ stage'[r] = stage[r] /\ signal'[r] = signal[r] /\ outcome'[r] = outcome[r]

SameText(r) ==
  /\ link' = link /\ sending'[r] = sending[r] /\ sentBy'[r] = sentBy[r]
  /\ wire'[r] = wire[r] /\ (r \in dropped' <=> r \in dropped)
  /\ said'[r] = said[r] /\ outcome'[r] = outcome[r]

(* LinkInv(r) and TextInv(r) are about nothing else. *)
LEMMA SameLinkKeeps ==
  ASSUME TypeOK, NEW r \in Req, LinkInv(r), SameLink(r) PROVE LinkInv(r)'
<1>1. Owning(r)'
  BY DEF LinkInv, Owning, SameLink
<1>2. Streaming(r)'
  BY DEF LinkInv, Streaming, SameLink, Running
<1>3. Belonging(r)'
  BY ChatAssumption DEF LinkInv, Owning, Belonging, SameLink
<1> QED BY <1>1, <1>2, <1>3 DEF LinkInv

(* Nor does the promise about a request's text. *)
LEMMA SameTextKeeps ==
  ASSUME NEW r \in Req, TextInv(r), SameText(r) PROVE TextInv(r)'
BY DEF TextInv, Writing, Reading, Last, Shown, SameText

(* The step of one request leaves the others alone. *)
LEMMA LinkFrame ==
  ASSUME TypeOK, NEW q \in Req, NEW r \in Req, q # r, Dispatch(q) \/ Stream(q) \/ Database(q)
  PROVE  SameLink(r) /\ SameText(r)
<1> USE DEF TypeOK, HandlerTypeOK, SessionTypeOK, SameLink, SameText
<1>1. CASE Open(q)
  BY <1>1 DEF Open, OpenExisting, OpenNew, handlerVars, historyVars
<1>2. CASE Own(q)
  BY <1>2 DEF Own, OwnRequest, handlerVars, historyVars
<1>3. CASE Blocked(q)
  BY <1>3 DEF Blocked, SessionBlocked, SessionOnFailed, Forward, Release, Publish, PersisterOnFailed,
    handlerVars
<1>4. CASE Ask(q)
  BY <1>4 DEF Ask, SessionAsks, Forward, HandlerOnRequested, PersisterOnRequested, handlerVars,
    historyVars
<1>5. ASSUME NEW kind, Chunk(q, kind) PROVE SameLink(r) /\ SameText(r)
  BY <1>5 DEF Chunk, PullChunk, SessionOnToken, Forward, Say
<1>6. ASSUME NEW kind, FinishChunk(q, kind) PROVE SameLink(r) /\ SameText(r)
  BY <1>6 DEF FinishChunk, PullChunk, SessionOnCompleted, Forward, Release, Say, Publish
<1>7. CASE AfterCompleted(q) \/ End(q) \/ AfterAborted(q)
  BY <1>7 DEF AfterCompleted, Resume, End, EndOfStream, AfterAborted, FinishAbort, sessionVars,
    historyVars
<1>8. CASE Throw(q)
  <2>1. /\ active' \in {active, active \ {q}} /\ \E new : stage' = [stage EXCEPT ![q] = new]
        /\ UNCHANGED <<conv, link, sentBy, sending, owner, server, signal, said>>
    BY <1>8 DEF Throw, StreamThrows
  <2>2. \E event : Forward(q, <<event>>) /\ Release(q) /\ Publish(q, event)
    BY <1>8 DEF Throw, SessionOnAborted, SessionOnFailed
  <2> QED BY <2>1, <2>2 DEF Forward, Release, Publish
<1>9. CASE Database(q)
  BY <1>9 DEF Database, StoreUser, AppendUser, LookupTitle, SetTitle, StoreAssistant, AppendAnswer,
    StoreUsage, RecordUsage, sessionVars, handlerVars, historyVars
<1> QED
  BY <1>1, <1>2, <1>3, <1>4, <1>5, <1>6, <1>7, <1>8, <1>9 DEF Dispatch, Stream

-----------------------------------------------------------------------------
(* Ownership, stream and transcript.                                       *)

(* The steps of handleChatSend, *)
LEMMA LinkDispatch ==
  ASSUME TypeOK, NEW r \in Req, TurnInv(r), LinkInv(r), Dispatch(r) PROVE LinkInv(r)'
<1> USE DEF TypeOK, HandlerTypeOK, SessionTypeOK, LinkInv, Owning, Streaming, Belonging,
            TurnInv, Untouched, Running
<1>1. CASE Open(r)
  BY <1>1, ChatAssumption DEF Open, OpenExisting, OpenNew, handlerVars, historyVars
<1>2. CASE Own(r)
  BY <1>2 DEF Own, OwnRequest, handlerVars, historyVars
<1>3. CASE Blocked(r)
  BY <1>3 DEF Blocked, SessionBlocked, SessionOnFailed, Release, Listener, Publish,
    PersisterOnFailed, handlerVars
<1>4. CASE Ask(r)
  BY <1>4 DEF Ask, SessionAsks, HandlerOnRequested, PersisterOnRequested, handlerVars, historyVars
<1> QED BY <1>1, <1>2, <1>3, <1>4 DEF Dispatch

(* of the stream, *)
LEMMA LinkStream ==
  ASSUME TypeOK, NEW r \in Req, TurnInv(r), LinkInv(r), Stream(r) PROVE LinkInv(r)'
<1> USE DEF TypeOK, HandlerTypeOK, SessionTypeOK, LinkInv, Owning, Streaming, Belonging,
            TurnInv, Untouched, Running
<1>1. ASSUME NEW kind, Chunk(r, kind) PROVE LinkInv(r)'
  BY <1>1 DEF Chunk, PullChunk, SessionOnToken
<1>2. ASSUME NEW kind, FinishChunk(r, kind) PROVE LinkInv(r)'
  BY <1>2 DEF FinishChunk, PullChunk, SessionOnCompleted, Release, Listener, Publish
<1>3. CASE AfterCompleted(r) \/ End(r) \/ AfterAborted(r)
  BY <1>3 DEF AfterCompleted, Resume, End, EndOfStream, AfterAborted, FinishAbort, sessionVars,
    historyVars
<1>4. CASE Throw(r) /\ signal[r] # "none"
  BY <1>4 DEF Throw, StreamThrows, SessionOnAborted, Release, Listener, Publish
<1>5. CASE Throw(r) /\ signal[r] = "none"
  BY <1>5 DEF Throw, StreamThrows, SessionOnFailed, Release, Listener, Publish
<1> QED BY <1>1, <1>2, <1>3, <1>4, <1>5 DEF Stream

(* of the database, *)
LEMMA LinkDatabase ==
  ASSUME TypeOK, NEW r \in Req, LinkInv(r) /\ TextInv(r), Database(r)
  PROVE  LinkInv(r)' /\ TextInv(r)'
<1>1. SameLink(r) /\ SameText(r)
  BY DEF SameLink, SameText, Database, StoreUser, AppendUser, LookupTitle, SetTitle, StoreAssistant,
    AppendAnswer, StoreUsage, RecordUsage, sessionVars, handlerVars, historyVars
<1> QED BY <1>1, SameLinkKeeps, SameTextKeeps

(* of a client, *)
LEMMA LinkClient ==
  ASSUME TypeOK, NEW s \in Session, NEW r \in Req, TurnInv(r), LinkInv(r), Client(s)
  PROVE  LinkInv(r)'
<1> USE DEF TypeOK, HandlerTypeOK, SessionTypeOK, LinkInv, Owning, Streaming, Belonging,
            TurnInv, Untouched, Running
<1>1. CASE NewLink(s) \/ Backlog(s)
  BY <1>1 DEF NewLink, Start, Backlog, Congest, handlerVars, historyVars
<1>2. CASE Close(s)
  BY <1>2 DEF Close, AbortAll, SessionClose, historyVars
<1>3. ASSUME NEW q \in Req, ChatAbort(s, q) PROVE LinkInv(r)'
  BY <1>3 DEF ChatAbort, AbortAll, sessionVars, historyVars
<1>4. ASSUME NEW q \in Req, NEW c \in Conv \cup {None}, ChatSend(s, q, c) PROVE LinkInv(r)'
  BY <1>4 DEF ChatSend, Send, handlerVars, historyVars
<1> QED BY <1>1, <1>2, <1>3, <1>4 DEF Client

(* and of the process. *)
LEMMA LinkServer ==
  ASSUME TypeOK, NEW r \in Req, TurnInv(r), LinkInv(r),
         BeginShutdown \/ DisposeHandler \/ ProcessEnds("exited") \/ ProcessEnds("crashed")
  PROVE  LinkInv(r)'
<1> USE DEF TypeOK, HandlerTypeOK, SessionTypeOK, LinkInv, Owning, Streaming, Belonging,
            TurnInv, Untouched, Running
<1>1. CASE BeginShutdown \/ DisposeHandler
  BY <1>1 DEF BeginShutdown, DisposeHandler, HandlerDispose, handlerVars, sessionVars, historyVars
<1>2. ASSUME NEW how \in {"exited", "crashed"}, ProcessEnds(how) PROVE LinkInv(r)'
  BY <1>2 DEF ProcessEnds, SessionsLost, HandlerLost, Awaiting, historyVars
<1> QED BY <1>1, <1>2

(* No socket is opened once the shutdown has begun. *)
LEMMA DrainingStep == ASSUME TypeOK, Draining, [Next]_vars PROVE Draining'
<1> USE DEF Draining, TypeOK, SessionTypeOK
<1>1. ASSUME NEW s \in Session, Client(s) PROVE Draining'
  BY <1>1 DEF Client, NewLink, Start, Backlog, Congest, Close, SessionClose, ChatAbort, ChatSend,
    Send, sessionVars
<1>2. ASSUME NEW r \in Req, Dispatch(r) \/ Stream(r) \/ Database(r) PROVE UNCHANGED <<link, server>>
  BY <1>2 DEF Dispatch, Open, OpenExisting, OpenNew, Own, OwnRequest, Blocked, SessionBlocked, Ask,
    SessionAsks, Stream, Chunk, FinishChunk, AfterCompleted, End, Throw, AfterAborted, Database,
    StoreUser, StoreAssistant, StoreUsage, sessionVars
<1>3. CASE BeginShutdown \/ DisposeHandler
  BY <1>3 DEF BeginShutdown, DisposeHandler, sessionVars
<1>4. ASSUME NEW how, ProcessEnds(how) PROVE Draining'
  BY <1>4 DEF ProcessEnds, SessionsLost
<1>5. CASE UNCHANGED vars
  BY <1>5 DEF vars, sessionVars
<1> QED BY <1>1, <1>2, <1>3, <1>4, <1>5 DEF Next, Exit, Crash

-----------------------------------------------------------------------------
(* What is written to the socket.                                          *)

(* The texts among the messages of an extended wire. *)
LEMMA TextsGrow ==
  ASSUME NEW w \in Seq(WireMsg), NEW m \in WireMsg
  PROVE  /\ Texts(w) \in Nat
         /\ Texts(w \o <<m>>) = IF m = "text" THEN Texts(w) + 1 ELSE Texts(w)
<1> DEFINE T(v) == {i \in DOMAIN v : v[i] = "text"}
<1>2. IsFiniteSet(T(w)) /\ Cardinality(T(w)) \in Nat
  <2>1. IsFiniteSet(1 .. Len(w)) /\ T(w) \subseteq 1 .. Len(w)
    BY FS_Interval
  <2> QED BY <2>1, FS_Subset, FS_CardinalityType
<1>3. T(w \o <<m>>) = IF m = "text" THEN T(w) \cup {Len(w) + 1} ELSE T(w)
  <2>1. w \o <<m>> = Append(w, m) /\ DOMAIN Append(w, m) = 1 .. Len(w) + 1
    OBVIOUS
  <2>2. \A i \in 1 .. Len(w) : Append(w, m)[i] = w[i]
    OBVIOUS
  <2>3. Append(w, m)[Len(w) + 1] = m
    OBVIOUS
  <2>4. \A i \in T(w \o <<m>>) : i \in T(w) \/ (i = Len(w) + 1 /\ m = "text")
    BY <2>1, <2>2, <2>3
  <2>5. T(w) \subseteq T(w \o <<m>>)
    BY <2>1, <2>2
  <2>6. m = "text" => Len(w) + 1 \in T(w \o <<m>>)
    BY <2>1, <2>3
  <2>7. CASE m = "text"
    BY <2>4, <2>5, <2>6, <2>7
  <2>8. CASE m # "text"
    BY <2>4, <2>5, <2>8
  <2> QED BY <2>7, <2>8
<1>4. Len(w) + 1 \notin T(w)
  OBVIOUS
<1>5. Cardinality(T(w) \cup {Len(w) + 1}) = Cardinality(T(w)) + 1
  BY <1>2, <1>4, FS_AddElement
<1>6. /\ Texts(w) = Cardinality(T(w))
      /\ Texts(w \o <<m>>) = Cardinality(T(w \o <<m>>))
  BY DEF Texts
<1> HIDE DEF T
<1> QED BY <1>2, <1>3, <1>5, <1>6

(* The wire before the first message, and with one. *)
LEMMA TextsOfNone == Texts(<<>>) = 0
<1>1. {i \in DOMAIN <<>> : <<>>[i] = "text"} = {}
  OBVIOUS
<1> QED BY <1>1, FS_EmptySet DEF Texts

(* One message adds one text or none. *)
LEMMA TextsOfOne == ASSUME NEW m \in WireMsg PROVE Texts(<<m>>) = IF m = "text" THEN 1 ELSE 0
<1>1. <<>> \in Seq(WireMsg) /\ <<m>> = <<>> \o <<m>>
  OBVIOUS
<1>2. Texts(<<>>) = 0
  BY TextsOfNone
<1>3. Texts(<<>> \o <<m>>) = IF m = "text" THEN Texts(<<>>) + 1 ELSE Texts(<<>>)
  BY <1>1, TextsGrow
<1> QED BY <1>1, <1>2, <1>3

(* One more message. *)
LEMMA Extended ==
  ASSUME NEW w \in Seq(WireMsg), NEW m \in WireMsg
  PROVE  /\ w \o <<m>> \in Seq(WireMsg) /\ Len(w \o <<m>>) = Len(w) + 1
         /\ \A i \in 1 .. Len(w) : (w \o <<m>>)[i] = w[i]
         /\ (w \o <<m>>)[Len(w) + 1] = m
OBVIOUS

(* Two messages. *)
LEMMA Paired == ASSUME NEW S, NEW k \in S, NEW e \in S PROVE <<k>> \o <<e>> = <<k, e>>
<1> DEFINE s == <<k>>
           t == <<e>>
           u == <<k, e>>
<1>1. /\ s \in Seq(S) /\ Len(s) = 1 /\ s[1] = k
      /\ t \in Seq(S) /\ Len(t) = 1 /\ t[1] = e
  OBVIOUS
<1>2. u \in Seq(S) /\ Len(u) = 2 /\ u[1] = k /\ u[2] = e
  OBVIOUS
<1> HIDE DEF s, t, u
<1>3. /\ s \o t \in Seq(S) /\ Len(s \o t) = 2
      /\ \A i \in 1 .. 2 : (s \o t)[i] = IF i <= 1 THEN s[i] ELSE t[i - 1]
  BY <1>1, ConcatProperties
<1>4. \A i \in 1 .. 2 : (s \o t)[i] = u[i]
  BY <1>1, <1>2, <1>3
<1>5. s \o t = u
  BY <1>1, <1>2, <1>3, <1>4, SeqEqual
<1> QED BY <1>5 DEF s, t, u

(* A message reaches the socket of the request's own session, is dropped,  *)
(* or finds no session that listens.                                       *)
LEMMA Forwarded ==
  ASSUME TypeOK, NEW r \in Req, LinkInv(r), NEW msgs, Forward(r, msgs)
  PROVE  \/ Listener(r) = {} /\ wire' = wire /\ dropped' = dropped
         \/ wire' = wire /\ r \in dropped'
         \/ /\ outcome[r] = "none" /\ sending[r] # "new" /\ Len(msgs) > 1
            /\ wire' = [wire EXCEPT ![r] = @ \o <<msgs[1]>>] /\ r \in dropped'
         \/ /\ outcome[r] = "none" /\ sending[r] # "new" /\ link[sentBy[r]] = "open"
            /\ wire' = [wire EXCEPT ![r] = @ \o msgs] /\ dropped' = dropped
<1>1. \A s \in Listener(r) : s = sentBy[r] /\ outcome[r] = "none" /\ sending[r] # "new"
  BY DEF Listener, LinkInv, Owning
<1>2. \A s \in Listener(r) : link[s] = "open"
  BY DEF Listener
<1> QED BY <1>1, <1>2 DEF Forward

(* No session listens to an open request only if its socket has closed. *)
LEMMA Unheard ==
  ASSUME NEW r \in Req, LinkInv(r), Listener(r) = {}, sending[r] \in {"checking", "asked"},
         outcome[r] = "none"
  PROVE  link[sentBy[r]] # "open"
BY DEF LinkInv, Owning, Listener

(* The messages of an open request: none of them ends it. *)
LEMMA OpenWire ==
  ASSUME TypeOK, NEW r \in Req, TextInv(r), outcome[r] = "none"
  PROVE  /\ \A i \in 1 .. Len(wire[r]) : wire[r][i] \notin Terminal
         /\ Last(r) \notin Terminal
<1>1. \A i \in 1 .. Len(wire[r]) : wire[r][i] \notin Terminal
  BY DEF TextInv, Writing
<1>2. wire[r] \in Seq(WireMsg)
  BY DEF TypeOK, SessionTypeOK
<1>3. wire[r] # <<>> => Len(wire[r]) \in 1 .. Len(wire[r])
  BY <1>2
<1> QED BY <1>1, <1>3 DEF Last

(* A step of its stream that says what it writes keeps the wire of r: n    *)
(* texts are said, if the turn is open, and written, if anything is.       *)
LEMMA StreamWrites ==
  ASSUME TypeOK, NEW r \in Req, LinkInv(r), TextInv(r), sending[r] = "asked",
         NEW pre \in {<<>>, <<"text">>, <<"blank">>}, NEW end \in Terminal \cup {"none"},
         Forward(r, IF end = "none" THEN pre ELSE pre \o <<end>>),
         said'[r] = said[r] + (IF outcome[r] = "none" THEN Texts(pre) ELSE 0),
         outcome'[r] = (IF outcome[r] = "none" THEN end ELSE outcome[r]),
         UNCHANGED <<link, sending, sentBy>>
  PROVE  TextInv(r)'
<1> DEFINE msgs == IF end = "none" THEN pre ELSE pre \o <<end>>
<1>1. wire[r] \in Seq(WireMsg) /\ said[r] \in Nat /\ outcome[r] \in Terminal \cup {"none"}
  BY DEF TypeOK, SessionTypeOK
<1>2. CASE wire' = wire /\ outcome[r] # "none"
  <2>1. Writing(r)'
    BY <1>2 DEF TextInv, Writing
  <2>2. dropped \subseteq dropped'
    BY DEF Forward
  <2>3. said'[r] = said[r]
    BY <1>1, <1>2
  <2> QED BY <1>2, <2>1, <2>2, <2>3 DEF TextInv, Reading, Last, Shown
<1>3. CASE wire' = wire /\ outcome[r] = "none" /\ (r \in dropped' \/ link[sentBy[r]] # "open")
  <2>1. \A i \in 1 .. Len(wire[r]) : wire[r][i] \notin Terminal
    BY <1>3, OpenWire
  <2>2. Writing(r)'
    BY <1>3, <2>1 DEF TextInv, Writing
  <2>3. Last(r)' \notin Terminal
    BY <1>3, OpenWire DEF Last
  <2> QED BY <1>3, <2>2, <2>3 DEF TextInv, Reading
<1>4. CASE /\ outcome[r] = "none" /\ link[sentBy[r]] = "open"
           /\ wire' = [wire EXCEPT ![r] = @ \o msgs] /\ dropped' = dropped
  <2> DEFINE w == wire[r]
             v == w \o pre
  <2>1. \A i \in 1 .. Len(w) : w[i] \notin Terminal /\ (w[i] = "started" => i = 1)
    BY <1>4, OpenWire DEF TextInv, Writing
  <2>2. /\ v \in Seq(WireMsg) /\ Texts(v) = Texts(w) + Texts(pre)
        /\ \A i \in 1 .. Len(v) : v[i] \notin Terminal /\ (v[i] = "started" => i = 1)
    <3>1. CASE pre = <<>>
      <4>1. v = w
        BY <1>1, <3>1
      <4> QED BY <1>1, <2>1, <3>1, <4>1, TextsGrow, TextsOfNone
    <3>2. ASSUME NEW m \in {"text", "blank"}, pre = <<m>> PROVE <2>2
      <4>1. Texts(pre) = IF m = "text" THEN 1 ELSE 0
        BY <3>2, TextsOfOne
      <4>2. Texts(v) = Texts(w) + Texts(pre)
        BY <1>1, <3>2, <4>1, TextsGrow
      <4>3. v \in Seq(WireMsg) /\ Len(v) = Len(w) + 1 /\ v[Len(w) + 1] = m
            /\ \A i \in 1 .. Len(w) : v[i] = w[i]
        BY <1>1, <3>2, Extended
      <4> HIDE DEF v, w
      <4>4. Len(w) \in Nat
        BY <1>1 DEF w
      <4> QED BY <2>1, <3>2, <4>2, <4>3, <4>4
    <3> QED BY <3>1, <3>2
  <2>3. CASE end = "none"
    <3>1. wire'[r] = v
      BY <1>4, <2>3 DEF TypeOK, SessionTypeOK
    <3>2. Len(v) \in Nat
      BY <2>2
    <3>3. Last(r)' \notin Terminal
      BY <2>2, <3>1, <3>2 DEF Last
    <3> HIDE DEF v, w
    <3>4. Writing(r)'
      BY <2>2, <3>1 DEF Writing
    <3>5. r \notin dropped => Shown(r) = said[r]
      BY <1>4 DEF TextInv, Reading
    <3>6. Shown(r)' = Shown(r) + Texts(pre)
      BY <2>2, <3>1 DEF Shown, w
    <3> QED BY <1>1, <1>4, <3>3, <3>4, <3>5, <3>6 DEF TextInv, Reading
  <2>4. CASE end # "none"
    <3>1. wire'[r] = v \o <<end>>
      BY <1>1, <1>4, <2>4 DEF TypeOK, SessionTypeOK
    <3> HIDE DEF v
    <3>2. Len(wire'[r]) = Len(v) + 1 /\ wire'[r][Len(v) + 1] = end /\ Len(v) \in Nat
          /\ \A i \in 1 .. Len(v) : wire'[r][i] = v[i]
      BY <2>2, <2>4, <3>1, Extended
    <3>3. Texts(wire'[r]) = Texts(v)
      BY <2>2, <2>4, <3>1, TextsGrow
    <3>4. Writing(r)'
      <4>1. \A i \in 1 .. Len(wire'[r]) : i \in 1 .. Len(v) \/ i = Len(v) + 1
        BY <3>2
      <4>2. \A i \in 1 .. Len(v) :
              wire'[r][i] \notin Terminal /\ (wire'[r][i] = "started" => i = 1)
        BY <2>2, <3>2
      <4>3. outcome'[r] = end /\ end # "started" /\ sending'[r] = "asked"
        BY <1>4, <2>4
      <4> QED BY <3>2, <4>1, <4>2, <4>3 DEF Writing
    <3>5. r \notin dropped => Shown(r) = said[r]
      BY <1>4 DEF TextInv, Reading
    <3>6. Shown(r)' = Shown(r) + Texts(pre)
      BY <2>2, <3>3 DEF Shown, w
    <3> QED BY <1>1, <1>4, <2>4, <3>4, <3>5, <3>6 DEF TextInv, Reading
  <2> QED BY <2>3, <2>4
<1>5. CASE /\ outcome[r] = "none" /\ Len(msgs) > 1
           /\ wire' = [wire EXCEPT ![r] = @ \o <<msgs[1]>>] /\ r \in dropped'
  <2> DEFINE w == wire[r]
  <2>1. \A i \in 1 .. Len(w) : w[i] \notin Terminal /\ (w[i] = "started" => i = 1)
    BY <1>5, OpenWire DEF TextInv, Writing
  <2>2. PICK m \in {"text", "blank"} : pre = <<m>> /\ end # "none"
    <3>1. CASE end = "none"
      <4>1. msgs = pre
        BY <3>1
      <4>2. ~(Len(pre) > 1)
        <5>1. Len(pre) \in {0, 1}
          OBVIOUS
        <5> DEFINE n == Len(pre)
        <5>2. n = 0 \/ n = 1
          BY <5>1
        <5> HIDE DEF n, msgs
        <5>3. ~(n > 1)
          BY <5>2
        <5> QED BY <5>3 DEF n
      <4>3. Len(pre) > 1
        BY <1>5, <4>1
      <4> HIDE DEF msgs
      <4> QED BY <4>2, <4>3
    <3>2. CASE end # "none" /\ pre = <<>>
      <4>1. msgs = <<end>>
        BY <3>2
      <4> QED BY <1>5, <4>1
    <3> HIDE DEF msgs
    <3> QED BY <3>1, <3>2
  <2>3. msgs[1] = m
    <3>1. msgs = <<m>> \o <<end>>
      BY <2>2
    <3> QED BY <3>1
  <2>4. wire'[r] = w \o <<m>> /\ sending'[r] = "asked"
    BY <1>5, <2>3 DEF TypeOK, SessionTypeOK
  <2>5. /\ Len(wire'[r]) = Len(w) + 1 /\ Len(w) \in Nat /\ wire'[r][Len(w) + 1] = m
        /\ \A i \in 1 .. Len(w) : wire'[r][i] = w[i]
    BY <1>1, <2>2, <2>4, Extended
  <2> HIDE DEF w, msgs
  <2>6. \A i \in 1 .. Len(wire'[r]) : wire'[r][i] \notin Terminal /\ (wire'[r][i] = "started" => i = 1)
    <3>1. \A i \in 1 .. Len(wire'[r]) : i \in 1 .. Len(w) \/ i = Len(w) + 1
      BY <2>5
    <3>2. m \notin Terminal /\ m # "started"
      BY <2>2
    <3> QED BY <2>1, <2>5, <3>1, <3>2
  <2>7. Writing(r)'
    BY <2>4, <2>6 DEF Writing
  <2> QED BY <1>5, <2>7 DEF TextInv, Reading
<1> QED BY <1>2, <1>3, <1>4, <1>5, Forwarded, Unheard DEF msgs

(* The steps of handleChatSend keep the wire, *)
LEMMA TextDispatch ==
  ASSUME TypeOK, NEW r \in Req, TurnInv(r), LinkInv(r), TextInv(r), Dispatch(r) PROVE TextInv(r)'
<1>1. /\ sending[r] # "asked" => said[r] = 0
      /\ sending[r] \notin {"asked", "blocked"} => outcome[r] = "none" /\ wire[r] = <<>>
  BY DEF TurnInv, Untouched, TextInv, Writing
<1>2. /\ Texts(<<>>) = 0 /\ Texts(<<"started">>) = 0 /\ Texts(<<"failed">>) = 0
  BY TextsOfNone, TextsOfOne
<1>3. CASE Open(r) \/ Own(r)
  <2>1. /\ wire'[r] = <<>> /\ said'[r] = 0 /\ sending'[r] \notin {"asked", "blocked"}
    BY <1>1, <1>3 DEF Open, OpenExisting, OpenNew, Own, OwnRequest, historyVars, TypeOK, SessionTypeOK
  <2> QED BY <1>2, <2>1 DEF TextInv, Writing, Reading, Last, Shown
<1>4. CASE Blocked(r)
  <2>1. sending[r] = "checking" /\ wire[r] = <<>> /\ said'[r] = 0
        /\ sending'[r] = "blocked" /\ outcome'[r] = "failed"
    BY <1>1, <1>4 DEF Blocked, SessionBlocked, Publish, TypeOK, SessionTypeOK
  <2>2. wire'[r] \in {<<>>, <<"failed">>}
    BY <1>4, <2>1 DEF Blocked, SessionBlocked, SessionOnFailed, Forward, TypeOK, SessionTypeOK
  <2>3. Writing(r)'
    <3>1. CASE wire'[r] = <<>>
      BY <2>1, <3>1 DEF Writing
    <3>2. CASE wire'[r] = <<"failed">>
      BY <2>1, <3>2 DEF Writing
    <3> QED BY <2>2, <3>1, <3>2
  <2>4. Reading(r)'
    BY <1>2, <2>1, <2>2 DEF Reading, Shown
  <2> QED BY <2>3, <2>4 DEF TextInv
<1>5. CASE Ask(r)
  <2>1. sending[r] = "checking" /\ wire[r] = <<>> /\ said'[r] = 0
        /\ sending'[r] = "asked" /\ outcome'[r] = "none"
    BY <1>1, <1>5 DEF Ask, SessionAsks, historyVars, TypeOK, SessionTypeOK
  <2>2. wire'[r] \in {<<>>, <<"started">>}
    BY <1>5, <2>1 DEF Ask, SessionAsks, Forward, TypeOK, SessionTypeOK
  <2> QED BY <1>2, <2>1, <2>2 DEF TextInv, Writing, Reading, Last, Shown
<1> QED BY <1>3, <1>4, <1>5 DEF Dispatch

(* and so do those of the stream. *)
LEMMA TextStream ==
  ASSUME TypeOK, NEW r \in Req, TurnInv(r), LinkInv(r), TextInv(r), Stream(r) PROVE TextInv(r)'
<1>1. stage[r] # "idle" => sending[r] = "asked"
  BY DEF TurnInv, Untouched
<1>2. Texts(<<>>) = 0 /\ Texts(<<"text">>) = 1 /\ Texts(<<"blank">>) = 0
  BY TextsOfNone, TextsOfOne
<1>3. ASSUME NEW kind \in {"text", "blank"}, Chunk(r, kind) PROVE TextInv(r)'
  <2>1. /\ Forward(r, <<kind>>) /\ UNCHANGED <<link, sending, sentBy, outcome>>
        /\ sending[r] = "asked"
        /\ said'[r] = said[r] + (IF outcome[r] = "none" THEN Texts(<<kind>>) ELSE 0)
    BY <1>1, <1>2, <1>3 DEF Chunk, PullChunk, SessionOnToken, Say, TypeOK
  <2> QED BY <2>1, StreamWrites
<1>4. ASSUME NEW kind \in {"text", "blank", "none"}, FinishChunk(r, kind) PROVE TextInv(r)'
  <2> DEFINE pre == IF kind = "none" THEN <<>> ELSE <<kind>>
  <2>1. Forward(r, pre \o <<"completed">>)
    <3>1. CASE kind = "none"
      BY <1>4, <3>1 DEF FinishChunk, SessionOnCompleted
    <3>2. CASE kind # "none"
      <4>1. <<kind>> \o <<"completed">> = <<kind, "completed">>
        <5>1. kind \in WireMsg /\ "completed" \in WireMsg
          BY <3>2
        <5> QED BY <5>1, Paired
      <4> QED BY <1>4, <3>2, <4>1 DEF FinishChunk, SessionOnCompleted
    <3> QED BY <3>1, <3>2
  <2>2. Texts(pre) = IF kind = "text" THEN 1 ELSE 0
    BY <1>2
  <2>3. /\ UNCHANGED <<link, sending, sentBy>> /\ sending[r] = "asked"
        /\ outcome'[r] = (IF outcome[r] = "none" THEN "completed" ELSE outcome[r])
        /\ said'[r] = said[r] + (IF outcome[r] = "none" /\ kind = "text" THEN 1 ELSE 0)
    BY <1>1, <1>4 DEF FinishChunk, PullChunk, Say, Publish, TypeOK
  <2>4. pre \in {<<>>, <<"text">>, <<"blank">>}
    OBVIOUS
  <2> HIDE DEF pre
  <2> QED BY <2>1, <2>2, <2>3, <2>4, StreamWrites
<1>5. ASSUME NEW end \in {"aborted", "failed"}, Throw(r), Forward(r, <<end>>), Publish(r, end)
      PROVE  TextInv(r)'
  <2>1. /\ UNCHANGED <<link, sending, sentBy, said>> /\ sending[r] = "asked" /\ said[r] \in Nat
        /\ outcome'[r] = (IF outcome[r] = "none" THEN end ELSE outcome[r])
    BY <1>1, <1>5 DEF Throw, StreamThrows, Publish, TypeOK
  <2>2. Forward(r, <<>> \o <<end>>)
    BY <1>5
  <2> QED BY <1>2, <2>1, <2>2, StreamWrites
<1>6. CASE Throw(r)
  BY <1>5, <1>6 DEF Throw, SessionOnAborted, SessionOnFailed
<1>7. CASE AfterCompleted(r) \/ End(r) \/ AfterAborted(r)
  BY <1>7, SameTextKeeps DEF SameText, AfterCompleted, End, AfterAborted, sessionVars, historyVars
<1> QED BY <1>3, <1>4, <1>6, <1>7 DEF Stream

-----------------------------------------------------------------------------
(* All together.                                                           *)

(* What a client does writes nothing; a close ends what is read. *)
LEMMA TextClient ==
  ASSUME TypeOK, NEW s \in Session, NEW r \in Req, TurnInv(r), LinkInv(r), TextInv(r), Client(s)
  PROVE  TextInv(r)'
<1> USE DEF TypeOK, SessionTypeOK, TextInv, Writing, Reading, Last, Shown
<1>1. CASE Backlog(s) \/ \E q \in Req : ChatAbort(s, q)
  BY <1>1, SameTextKeeps DEF SameText, Backlog, Congest, ChatAbort, sessionVars, historyVars
<1>4. CASE NewLink(s)
  <2>1. /\ UNCHANGED <<sending, sentBy, wire, dropped, said, outcome>>
        /\ link' = [link EXCEPT ![s] = "open"] /\ link[s] = "new"
    BY <1>4 DEF NewLink, Start, historyVars
  <2>2. sending[r] # "new" => sentBy[r] # s
    BY <2>1 DEF LinkInv, Owning
  <2> QED BY <2>1, <2>2
<1>2. CASE Close(s)
  BY <1>2 DEF Close, SessionClose, historyVars
<1>3. ASSUME NEW q \in Req, NEW c \in Conv \cup {None}, ChatSend(s, q, c) PROVE TextInv(r)'
  BY <1>3 DEF ChatSend, Send, historyVars
<1> QED BY <1>1, <1>2, <1>3, <1>4 DEF Client

(* So does the process. *)
LEMMA TextServer ==
  ASSUME TypeOK, NEW r \in Req, LinkInv(r), TextInv(r),
         BeginShutdown \/ DisposeHandler \/ ProcessEnds("exited") \/ ProcessEnds("crashed")
  PROVE  TextInv(r)'
<1>1. CASE BeginShutdown \/ DisposeHandler
  BY <1>1, SameTextKeeps DEF SameText, BeginShutdown, DisposeHandler, sessionVars, historyVars
<1>2. ASSUME NEW how, ProcessEnds(how) PROVE TextInv(r)'
  <2>1. /\ UNCHANGED <<wire, dropped, said, outcome, sentBy>>
        /\ sending'[r] = IF Awaiting(r) THEN "killed" ELSE sending[r]
        /\ \A s \in Session : link'[s] # "open"
    BY <1>2 DEF ProcessEnds, SessionsLost, historyVars
  <2>2. sending'[r] \in {"checking", "asked"} => sentBy[r] \in Session
    BY <2>1 DEF Awaiting, LinkInv, Owning
  <2>3. Reading(r)'
    BY <2>1, <2>2 DEF TextInv, Reading, Last, Shown
  <2> QED BY <2>1, <2>3 DEF Awaiting, TextInv, Writing
<1> QED BY <1>1, <1>2

LinksInv == Draining /\ \A r \in Req : LinkInv(r) /\ TextInv(r)

(* The invariant of the requests is inductive relative to that of their    *)
(* turns.                                                                  *)
LEMMA LinkStep == ASSUME TypeOK, TurnsInv, LinksInv, [Next]_vars PROVE LinksInv'
<1> SUFFICES ASSUME NEW r \in Req, TurnInv(r), LinkInv(r), TextInv(r)
             PROVE  LinkInv(r)' /\ TextInv(r)'
  BY DrainingStep DEF TurnsInv, LinksInv
<1>1. CASE UNCHANGED vars
  BY <1>1, SameLinkKeeps, SameTextKeeps DEF SameLink, SameText, vars, sessionVars, handlerVars,
    historyVars
<1>2. ASSUME NEW q \in Req, Dispatch(q) \/ Stream(q) \/ Database(q)
      PROVE  LinkInv(r)' /\ TextInv(r)'
  <2>1. CASE q = r
    BY <1>2, <2>1, LinkDispatch, LinkStream, LinkDatabase, TextDispatch, TextStream
  <2>2. CASE q # r
    BY <1>2, <2>2, LinkFrame, SameLinkKeeps, SameTextKeeps
  <2> QED BY <2>1, <2>2
<1> QED BY <1>1, <1>2, LinkClient, TextClient, LinkServer, TextServer DEF Next, Exit, Crash

(* Every request keeps its invariant in every state of the server. *)
THEOREM LinksCorrect == Spec => []LinksInv
<1>1. Init => LinksInv
  BY TextsOfNone DEF Init, SessionInit, HandlerInit, LinksInv, Draining, LinkInv, Owning, Streaming,
    Belonging, TextInv, Writing, Reading, Last, Shown
<1>2. TypeOK /\ TurnsInv /\ LinksInv /\ [Next]_vars => LinksInv'
  BY LinkStep
<1> QED BY <1>1, <1>2, TypeCorrect, TurnsCorrect, PTL DEF Spec

-----------------------------------------------------------------------------
(* The properties.                                                         *)

(* What a client reads of a request is one started first and one end last, *)
(* the end the stream first came to: sessions forward and release under    *)
(* any interleaving with closes, aborts, backpressure and a second end.    *)
THEOREM OneEndIsSeen == Spec => []ClientSeesOneEnd
<1>1. ASSUME TypeOK, LinksInv PROVE ClientSeesOneEnd
  <2>1. ASSUME NEW r \in Req, Last(r) \in Terminal PROVE Last(r) = outcome[r]
    <3>1. wire[r] \in Seq(WireMsg) /\ wire[r] # <<>>
      BY <1>1, <2>1 DEF TypeOK, SessionTypeOK, Last
    <3>2. Len(wire[r]) \in 1 .. Len(wire[r]) /\ Last(r) = wire[r][Len(wire[r])]
      BY <3>1 DEF Last
    <3> QED BY <1>1, <2>1, <3>2 DEF LinksInv, TextInv, Writing
  <2> QED BY <1>1, <2>1 DEF ClientSeesOneEnd, LinksInv, TextInv, Writing
<1> QED BY <1>1, LinksCorrect, TypeCorrect, PTL

(* A client that lost nothing to backpressure and is told of a completion  *)
(* or an abort has read the text the transcript keeps.                     *)
THEOREM WhatIsReadIsKept == Spec => []ClientReadsWhatIsKept
<1>1. LinksInv /\ TurnsInv => ClientReadsWhatIsKept
  BY DEF LinksInv, TextInv, Reading, TurnsInv, TurnInv, Buffering, ClientReadsWhatIsKept
<1> QED BY <1>1, LinksCorrect, TurnsCorrect, PTL

(* An ended turn is in none of the three maps keyed by its request id.     *)
THEOREM NothingStaysBehind == Spec => []NothingLeftBehind
<1>1. LinksInv /\ TurnsInv => NothingLeftBehind
  BY DEF LinksInv, LinkInv, Owning, TurnsInv, TurnInv, Buffering, Billing, NothingLeftBehind
<1> QED BY <1>1, LinksCorrect, TurnsCorrect, PTL

(* An end is an abort exactly if somebody aborted before the error came.   *)
THEOREM BlameIsCorrect == Spec => []BlameIsRight
<1>1. LinksInv => BlameIsRight
  BY DEF LinksInv, LinkInv, Streaming, BlameIsRight
<1> QED BY <1>1, LinksCorrect, PTL

(* No turn reads or extends a transcript of another user, however many     *)
(* sessions create conversations between its awaits.                       *)
THEOREM TranscriptIsOwn == Spec => []OnlyOwnTranscript
<1>1. LinksInv => OnlyOwnTranscript
  BY DEF LinksInv, LinkInv, Belonging, OnlyOwnTranscript
<1> QED BY <1>1, LinksCorrect, PTL

(* A client with an open socket can abort whatever is streamed to it, at   *)
(* every point of a shutdown too.                                          *)
THEOREM AlwaysAbortable == Spec => []Abortable
<1>1. TypeOK /\ LinksInv /\ TurnsInv => Abortable
  BY DEF LinksInv, Draining, LinkInv, Owning, Streaming, TurnsInv, TurnInv, Untouched, Abortable,
    TypeOK, ServerState
<1> QED BY <1>1, LinksCorrect, TurnsCorrect, TypeCorrect, PTL

=============================================================================
