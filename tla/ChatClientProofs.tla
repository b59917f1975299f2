-------------------------- MODULE ChatClientProofs --------------------------
(***************************************************************************)
(* What the chat screen keeps whatever socket, server and user do: its     *)
(* types, the lifeline of its socket, the thread it shows and the draft    *)
(* each reply ends in.                                                     *)
(***************************************************************************)
EXTENDS ChatClient, WellFoundedInduction, SequenceTheorems, TLAPS

Statuses == {"pending", "streaming", "complete", "error", "user", "network"}
Draft == [id : Send, req : Send \cup {None}, status : Statuses, text : Nat]
Store == [messages : Seq(Draft), activeLocalId : Send \cup {None}, activeRequestId : Send \cup {None},
          pendingAborts : SUBSET Send, status : {"idle", "sending", "streaming"}]
Seen == [busy : BOOLEAN, activeLocalId : Send \cup {None}, activeRequestId : Send \cup {None},
         pending : Send \cup {None}]
Msg == [type : {"created", "started", "token", "completed", "failed", "aborted", "error"}, req : Send]
Turn == {"idle", "running", "completed", "failed", "aborted"}

StoreTyped == store \in Store /\ seen \in Seen

ScreenTyped ==
  /\ conversations \subseteq Conv
  /\ activeConvId \in Conv \cup {None}
  /\ activeConvIdRef \in Conv \cup {None}
  /\ fetches \in [Conv -> Nat]
  /\ thread \in Conv \cup {None}
  /\ lateCreated \in BOOLEAN

ServerTyped ==
  /\ down \in Seq(Msg)
  /\ via \in [Send -> Socket \cup {None}]
  /\ home \in [Send -> Conv \cup {None}]
  /\ turn \in [Send -> Turn]
  /\ text \in [Send -> Nat]

Typed == intents \subseteq Send /\ StoreTyped /\ ScreenTyped /\ ServerTyped

-----------------------------------------------------------------------------
(* Finding a draft.                                                        *)

(* A set of places has a first one. *)
LEMMA FirstPlace ==
  ASSUME NEW T \in SUBSET Nat, T # {}
  PROVE  Min(T) \in T
<1> DEFINE Less == {ss \in Nat \X Nat : ss[1] < ss[2]}
<1>1. IsWellFoundedOn(Less, Nat)
  BY NatLessThanWellFounded DEF OpToRel
<1> HIDE DEF Less
<1>2. PICK x \in T : \A y \in T : ~ (<<y, x>> \in Less)
  BY <1>1, WFMin
<1>3. \A y \in T : x =< y
  <2> TAKE y \in T
  <2>1. x \in Nat /\ y \in Nat /\ ~ (y < x)
    BY <1>2 DEF Less
  <2> QED BY <2>1
<1> QED BY <1>3 DEF Min

(* The pending draft without a request id, if there is one. *)
LEMMA PendingFound ==
  ASSUME NEW st \in Store, findPendingAssistantDraft(st) # 0
  PROVE  /\ findPendingAssistantDraft(st) \in DOMAIN st.messages
         /\ st.messages[findPendingAssistantDraft(st)].status = "pending"
         /\ st.messages[findPendingAssistantDraft(st)].req = None
<1> DEFINE I == {i \in 1 .. Len(st.messages) : st.messages[i].status = "pending" /\ st.messages[i].req = None}
<1>1. I \in SUBSET Nat
  OBVIOUS
<1>2. findPendingAssistantDraft(st) = IF I # {} THEN Min(I) ELSE 0
  BY DEF findPendingAssistantDraft, Find, SelectInSeq
<1>3. Min(I) \in I
  BY <1>1, <1>2, FirstPlace
<1>4. findPendingAssistantDraft(st) \in I
  <2> HIDE DEF I
  <2> QED BY <1>2, <1>3
<1>5. DOMAIN st.messages = 1 .. Len(st.messages)
  BY DEF Store
<1> QED BY <1>4, <1>5

(* The draft bound to a request. *)
LEMMA BoundFound ==
  ASSUME NEW st \in Store, NEW r \in Send, findDraftByRequestId(st, r) # 0
  PROVE  /\ findDraftByRequestId(st, r) \in DOMAIN st.messages
         /\ st.messages[findDraftByRequestId(st, r)].req = r
<1> DEFINE I == {i \in 1 .. Len(st.messages) : st.messages[i].req = r}
<1>1. I \in SUBSET Nat
  OBVIOUS
<1>2. findDraftByRequestId(st, r) = IF I # {} THEN Min(I) ELSE 0
  BY DEF findDraftByRequestId, Find, SelectInSeq
<1>3. Min(I) \in I
  BY <1>1, <1>2, FirstPlace
<1>4. findDraftByRequestId(st, r) \in I
  <2> HIDE DEF I
  <2> QED BY <1>2, <1>3
<1>5. DOMAIN st.messages = 1 .. Len(st.messages)
  BY DEF Store
<1> QED BY <1>4, <1>5

(* The active draft. *)
LEMMA ActiveFound ==
  ASSUME NEW st \in Store, findActiveDraft(st) # 0
  PROVE  /\ findActiveDraft(st) \in DOMAIN st.messages
         /\ st.messages[findActiveDraft(st)].id = st.activeLocalId
         /\ st.messages[findActiveDraft(st)].status \in {"pending", "streaming"}
<1> DEFINE I == {i \in 1 .. Len(st.messages) :
                   st.messages[i].id = st.activeLocalId /\ st.messages[i].status \in {"pending", "streaming"}}
<1>1. I \in SUBSET Nat
  OBVIOUS
<1>2. findActiveDraft(st) = IF I # {} THEN Min(I) ELSE 0
  BY DEF findActiveDraft, Find, SelectInSeq
<1>3. Min(I) \in I
  BY <1>1, <1>2, FirstPlace
<1>4. findActiveDraft(st) \in I
  <2> HIDE DEF I
  <2> QED BY <1>2, <1>3
<1>5. DOMAIN st.messages = 1 .. Len(st.messages)
  BY DEF Store
<1> QED BY <1>4, <1>5

-----------------------------------------------------------------------------
(* What the reducer does to the drafts.                                    *)

(* The drafts stay in their places, and none begins to be awaited. *)
Follows(st, next) ==
  /\ next \in Store
  /\ DOMAIN next.messages = DOMAIN st.messages
  /\ \A i \in DOMAIN st.messages :
       /\ next.messages[i].id = st.messages[i].id
       /\ Waiting(next.messages[i]) => Waiting(st.messages[i])

Patched(messages) ==
  [messages : {messages}, activeLocalId : Send \cup {None}, activeRequestId : Send \cup {None},
   pendingAborts : SUBSET Send, status : {"idle", "sending", "streaming"}]

(* One draft is replaced. *)
LEMMA DraftReplaced ==
  ASSUME NEW st \in Store, NEW next, NEW i \in DOMAIN st.messages, NEW d \in Draft,
         d.id = st.messages[i].id, Waiting(d) => Waiting(st.messages[i]),
         next \in Patched([st.messages EXCEPT ![i] = d])
  PROVE  Follows(st, next)
<1>1. st.messages \in Seq(Draft)
  BY DEF Store
<1>2. next.messages = [st.messages EXCEPT ![i] = d]
  BY DEF Patched
<1>3. next.messages \in Seq(Draft) /\ DOMAIN next.messages = DOMAIN st.messages
  BY <1>1, <1>2
<1>4. next \in Store
  BY <1>3 DEF Store, Patched
<1> QED BY <1>1, <1>2, <1>3, <1>4 DEF Follows

(* The end of a draft. *)
LEMMA DraftEnded ==
  ASSUME NEW st \in Store, NEW i \in DOMAIN st.messages \cup {0},
         NEW how \in Statuses \ {"pending", "streaming"}
  PROVE  Follows(st, EndDraft(st, i, how))
<1>1. CASE i = 0
  BY <1>1 DEF Follows, EndDraft
<1>2. CASE i # 0
  <2> DEFINE d == [st.messages[i] EXCEPT !.status = how]
             next == EndDraft(st, i, how)
  <2>1. i \in DOMAIN st.messages /\ st.messages[i] \in Draft
    BY <1>2 DEF Store
  <2>2. d \in Draft /\ d.id = st.messages[i].id /\ ~ Waiting(d)
    BY <2>1 DEF Draft, Waiting, Statuses
  <2>3. next = [messages |-> [st.messages EXCEPT ![i] = d], activeLocalId |-> None,
                activeRequestId |-> None, pendingAborts |-> st.pendingAborts, status |-> "idle"]
    BY <1>2, <2>1 DEF EndDraft, clearActive, Store
  <2>4. next \in Patched([st.messages EXCEPT ![i] = d])
    BY <2>3 DEF Store, Patched
  <2> HIDE DEF d, next
  <2>5. Follows(st, next)
    BY <2>1, <2>2, <2>4, DraftReplaced
  <2> QED BY <2>5 DEF next
<1> QED BY <1>1, <1>2

(* Every message of the server. *)
LEMMA Reduced ==
  ASSUME NEW st \in Store, NEW msg \in Msg
  PROVE  Follows(st, Reduce(st, msg))
<1> DEFINE r == msg.req
<1>1. r \in Send
  BY DEF Msg
<1>2. /\ findDraftByRequestId(st, r) \in DOMAIN st.messages \cup {0}
      /\ findActiveDraft(st) \in DOMAIN st.messages \cup {0}
  BY <1>1, BoundFound, ActiveFound
<1>3. Follows(st, ServerStarted(st, r))
  <2> DEFINE i == findPendingAssistantDraft(st)
             d == [st.messages[i] EXCEPT !.req = r, !.status = "streaming"]
             next == ServerStarted(st, r)
  <2>1. CASE i = 0
    BY <2>1 DEF ServerStarted, Follows
  <2>2. CASE i # 0
    <3>1. i \in DOMAIN st.messages /\ st.messages[i].status = "pending" /\ st.messages[i] \in Draft
      BY <2>2, PendingFound DEF Store
    <3>2. d \in Draft /\ d.id = st.messages[i].id /\ Waiting(st.messages[i])
      BY <1>1, <3>1 DEF Draft, Waiting, Statuses
    <3>3. next = [messages |-> [st.messages EXCEPT ![i] = d], activeLocalId |-> st.activeLocalId,
                  activeRequestId |-> r, pendingAborts |-> st.pendingAborts \ {st.messages[i].id},
                  status |-> "streaming"]
      BY <2>2, <3>1 DEF ServerStarted, Store, Draft
    <3>4. next \in Patched([st.messages EXCEPT ![i] = d])
      BY <1>1, <3>3 DEF Store, Patched
    <3> HIDE DEF d, next
    <3>5. Follows(st, next)
      BY <3>1, <3>2, <3>4, DraftReplaced
    <3> QED BY <3>5 DEF next
  <2> QED BY <2>1, <2>2
<1>4. Follows(st, ServerToken(st, r))
  <2> DEFINE i == findDraftByRequestId(st, r)
             d == [st.messages[i] EXCEPT !.text = @ + 1]
             next == ServerToken(st, r)
  <2>1. CASE i = 0
    BY <2>1 DEF ServerToken, Follows
  <2>2. CASE i # 0
    <3>1. i \in DOMAIN st.messages /\ st.messages[i] \in Draft
      BY <1>2, <2>2 DEF Store
    <3>2. d \in Draft /\ d.id = st.messages[i].id /\ d.status = st.messages[i].status
      BY <3>1 DEF Draft
    <3>3. next = [st EXCEPT !.messages = [st.messages EXCEPT ![i] = d]]
      BY <2>2, <3>1 DEF ServerToken, Store, Draft
    <3>4. next \in Patched([st.messages EXCEPT ![i] = d])
      BY <3>3 DEF Store, Patched
    <3> HIDE DEF d, next
    <3>5. Follows(st, next)
      BY <3>1, <3>2, <3>4, DraftReplaced DEF Waiting
    <3> QED BY <3>5 DEF next
  <2> QED BY <2>1, <2>2
<1>5. Follows(st, st)
  BY DEF Follows
<1>6. /\ Follows(st, ServerCompleted(st, r)) /\ Follows(st, ServerFailed(st, r))
      /\ Follows(st, ServerAborted(st, r)) /\ Follows(st, ServerError(st))
  BY <1>2, DraftEnded DEF ServerCompleted, ServerFailed, ServerAborted, ServerError, Blamed, Statuses
<1> QED BY <1>3, <1>4, <1>5, <1>6 DEF Reduce

(* No draft is active. *)
LEMMA Cleared ==
  ASSUME NEW st \in Store
  PROVE  clearActive(st) \in Store /\ clearActive(st).messages = st.messages
BY DEF clearActive, Store

(* A lost connection ends every draft that is awaited. *)
LEMMA LostKept ==
  ASSUME NEW st \in Store
  PROVE  /\ Follows(st, ConnectionLost(st))
         /\ \A i \in DOMAIN st.messages : ~ Waiting(ConnectionLost(st).messages[i])
<1> DEFINE idle == clearActive(st)
           ms == [i \in DOMAIN idle.messages |-> Cut(idle.messages[i])]
<1>1. ConnectionLost(st) = [idle EXCEPT !.pendingAborts = {}, !.messages = ms]
  BY DEF ConnectionLost
<1>0. idle \in Store /\ idle.messages = st.messages
  BY Cleared
<1> HIDE DEF idle
<1>2. \A i \in DOMAIN st.messages :
        Cut(st.messages[i]) \in Draft /\ ~ Waiting(Cut(st.messages[i])) /\ Cut(st.messages[i]).id = st.messages[i].id
  <2> TAKE i \in DOMAIN st.messages
  <2>1. st.messages[i] \in Draft
    BY DEF Store
  <2> QED BY <2>1 DEF Cut, Draft, Statuses, Waiting
<1>3. ms \in Seq(Draft)
  <2>1. st.messages \in Seq(Draft)
    BY DEF Store
  <2>2. DOMAIN st.messages = 1 .. Len(st.messages) /\ Len(st.messages) \in Nat
    BY <2>1
  <2> QED BY <1>0, <1>2, <2>2
<1> HIDE DEF ms
<1>4. ConnectionLost(st) \in Store /\ ConnectionLost(st).messages = ms
  BY <1>0, <1>1, <1>3 DEF Store
<1> QED BY <1>0, <1>2, <1>4 DEF Follows, ms

(* A store without drafts. *)
LEMMA EmptyStore == initialChatState \in Store /\ initialChatState.messages = <<>>
BY DEF initialChatState, Store

(* One with a new draft, and one with an intent to abort. *)
LEMMA OtherStores ==
  ASSUME NEW st \in Store, NEW k \in Send
  PROVE  /\ SendUser(st, k) \in Store
         /\ SendUser(st, k).messages =
              Append(st.messages, [id |-> k, req |-> None, status |-> "pending", text |-> 0])
         /\ Follows(st, AbortBeforeStarted(st, k))
<1>1. /\ SendUser(st, k) \in Store
      /\ SendUser(st, k).messages = Append(st.messages, [id |-> k, req |-> None, status |-> "pending", text |-> 0])
  <2> DEFINE d == [id |-> k, req |-> None, status |-> "pending", text |-> 0]
             ms == Append(st.messages, d)
  <2>1. d \in Draft
    BY DEF Draft, Statuses
  <2>2. SendUser(st, k) = [st EXCEPT !.messages = ms, !.activeLocalId = k, !.activeRequestId = None,
                                     !.status = "sending"]
    BY DEF SendUser
  <2> HIDE DEF d
  <2>3. ms \in Seq(Draft)
    BY <2>1 DEF Store
  <2> HIDE DEF ms
  <2>4. SendUser(st, k) \in Store /\ SendUser(st, k).messages = ms
    BY <2>2, <2>3 DEF Store
  <2> QED BY <2>4 DEF ms, d
<1>2. Follows(st, AbortBeforeStarted(st, k))
  BY DEF AbortBeforeStarted, Store, Follows
<1> QED BY <1>1, <1>2

(* What callbacks read of a state. *)
LEMMA ViewTyped == ASSUME NEW st \in Store PROVE View(st) \in Seen
<1> DEFINE i == findPendingAssistantDraft(st)
           id == IF i = 0 THEN None ELSE st.messages[i].id
<1>1. id \in Send \cup {None}
  <2>1. i # 0 => i \in DOMAIN st.messages
    BY PendingFound
  <2> HIDE DEF i
  <2>2. i # 0 => st.messages[i] \in Draft
    BY <2>1 DEF Store
  <2> QED BY <2>2 DEF Draft
<1>2. View(st) = [busy |-> st.status # "idle", activeLocalId |-> st.activeLocalId,
                  activeRequestId |-> st.activeRequestId, pending |-> id]
  BY DEF View
<1> HIDE DEF id
<1> QED BY <1>1, <1>2 DEF Seen, Store

(* What a step does to the store: its drafts go on, or go, or one comes. *)
LEMMA Dispatched ==
  ASSUME Typed, Next
  PROVE  /\ \/ Follows(store, store')
            \/ store' = initialChatState
            \/ \E k \in Send : UserSends(k) /\ store' = SendUser(store, k)
         /\ seen' = seen \/ seen' = View(store')
<1> DEFINE Goes == /\ \/ Follows(store, store')
                      \/ store' = initialChatState
                      \/ \E k \in Send : UserSends(k) /\ store' = SendUser(store, k)
                   /\ seen' = seen \/ seen' = View(store')
<1>0. store \in Store /\ seen \in Seen
  BY DEF Typed, StoreTyped
<1>1. Follows(store, store)
  BY <1>0 DEF Follows
<1>2. Follows(store, AbortedStore)
  BY <1>0, <1>1, OtherStores DEF AbortedStore, AbortsLater, Seen
<1>3. CASE Render
  BY <1>1, <1>3 DEF Render
<1>4. CASE Deliver
  <2>1. Head(down) \in Msg
    BY <1>4 DEF Deliver, Typed, ServerTyped
  <2>2. store' = Reduce(store, Head(down)) /\ seen' = seen
    BY <1>4 DEF Deliver, Dispatch
  <2> QED BY <1>0, <2>1, <2>2, Reduced
<1>5. CASE Unmount
  BY <1>5 DEF Unmount, DispatchNow
<1>6. CASE UserStops
  BY <1>2, <1>6 DEF UserStops, DispatchNow
<1>7. CASE StartChat
  BY <1>7 DEF StartChat, DispatchNow, LoadHistory
<1>8. ASSUME NEW s \in Socket, Mount(s) \/ SocketEvent(s) PROVE Goes
  BY <1>1, <1>8 DEF Mount, SocketEvent, storeVars
<1>9. ASSUME NEW s \in Socket, NEW code \in CloseCode, SocketLost(s, code) PROVE Goes
  BY <1>0, <1>1, <1>9, LostKept DEF SocketLost, Dispatch
<1>10. ASSUME NEW k \in Send, UserSends(k) PROVE Goes
  BY <1>10 DEF UserSends, DispatchNow
<1>11. ASSUME NEW k \in Send, Server(k) PROVE Goes
  BY <1>1, <1>11 DEF Server, Progress, RefuseSend, AnswerSend, SpeakTurn, EndOfTurn, FallSilent, ServerOnly, storeVars
<1>12. ASSUME NEW c \in Conv, OpenConversation(c) PROVE Goes
  BY <1>2, <1>12 DEF OpenConversation, DispatchNow
<1>13. ASSUME NEW c \in Conv, HistoryArrives(c) PROVE Goes
  BY <1>1, <1>13 DEF HistoryArrives, Dispatch, LoadHistory
<1> QED BY <1>3, <1>4, <1>5, <1>6, <1>7, <1>8, <1>9, <1>10, <1>11, <1>12, <1>13 DEF Next

-----------------------------------------------------------------------------
(* The socket.                                                             *)

LifeTyped ==
  /\ clientState \in ClientStates
  /\ ws \in Socket \cup {None}
  /\ phase \in [Socket -> Phases]
  /\ reconnectTimer \in BOOLEAN
  /\ heartbeatTimer \in BOOLEAN
  /\ authFailureStreak \in 0 .. AuthFailLimit
  /\ disposed \in BOOLEAN

(* OneLifeline but for the drafts; and only what was disposed of closes by *)
(* itself, and who goes on has failures left.                              *)
Lines ==
  /\ clientState \in {"connecting", "open"} <=> ws # None
  /\ reconnectTimer <=> clientState = "reconnecting"
  /\ heartbeatTimer <=> clientState = "open"
  /\ disposed => clientState = "permanent-closed"
  /\ \A s \in Socket : phase[s] \in {"connecting", "open"} => s = ws
  /\ ws # None => phase[ws] = clientState
  /\ \A s \in Socket : phase[s] = "closing" => disposed
  /\ clientState # "permanent-closed" => authFailureStreak < AuthFailLimit

Life == LifeTyped /\ Lines

(* The steps of the socket's life. *)
LifeSteps ==
  \/ UNCHANGED lifeVars
  \/ Dispose
  \/ \E s \in Socket : (clientState = "idle" /\ Connect(s)) \/ SocketOpens(s) \/ ReconnectFires(s)
  \/ \E s \in Socket, code \in CloseCode : SocketCloses(s, code)

(* They keep the lifeline. *)
LEMMA LifeKept ==
  ASSUME Life, LifeSteps
  PROVE  Life'
<1> USE WsClientAssumption DEF ClientStates, Phases
<1>1. CASE UNCHANGED lifeVars
  BY <1>1 DEF Life, LifeTyped, Lines, lifeVars
<1>2. CASE Dispose
  BY <1>2 DEF Life, LifeTyped, Lines, Dispose
<1>3. ASSUME NEW s \in Socket, clientState = "idle", Connect(s) PROVE Life'
  <2>1. ws = None /\ ~ reconnectTimer /\ ~ heartbeatTimer /\ s # None
    BY <1>3 DEF Life, Lines, LifeTyped
  <2>2. LifeTyped'
    BY <1>3 DEF Life, LifeTyped, Connect, OpenSocket
  <2>3. Lines'
    BY <1>3, <2>1 DEF Life, LifeTyped, Lines, Connect, OpenSocket
  <2> QED BY <2>2, <2>3 DEF Life
<1>4. ASSUME NEW s \in Socket, SocketOpens(s) PROVE Life'
  BY <1>4 DEF Life, LifeTyped, Lines, SocketOpens
<1>5. ASSUME NEW s \in Socket, ReconnectFires(s) PROVE Life'
  <2>1. ws = None /\ clientState = "reconnecting" /\ ~ disposed /\ ~ heartbeatTimer /\ s # None
    BY <1>5 DEF Life, Lines, LifeTyped, ReconnectFires
  <2>2. LifeTyped'
    BY <1>5, <2>1 DEF Life, LifeTyped, ReconnectFires, OpenSocket
  <2>3. Lines'
    BY <1>5, <2>1 DEF Life, LifeTyped, Lines, ReconnectFires, OpenSocket
  <2> QED BY <2>2, <2>3 DEF Life
<1>6. ASSUME NEW s \in Socket, NEW code \in CloseCode, SocketCloses(s, code) PROVE Life'
  <2>1. CASE disposed \/ clientState = "permanent-closed"
    BY <1>6, <2>1 DEF Life, LifeTyped, Lines, SocketCloses
  <2>2. CASE ~ (disposed \/ clientState = "permanent-closed")
    <3>1. Recover(code) /\ s = ws
      BY <1>6, <2>2 DEF Life, Lines, SocketCloses
    <3>2. Streak(code) \in 0 .. AuthFailLimit /\ (~ GivesUp(code) => Streak(code) < AuthFailLimit)
      BY <2>2 DEF Life, LifeTyped, Lines, Streak, GivesUp
    <3>3. LifeTyped'
      BY <1>6, <3>1, <3>2 DEF Life, LifeTyped, Recover, SocketCloses
    <3>4. Lines'
      BY <1>6, <2>2, <3>1, <3>2 DEF Life, LifeTyped, Lines, Recover, SocketCloses
    <3> QED BY <3>3, <3>4 DEF Life
  <2> QED BY <2>1, <2>2
<1> QED BY <1>1, <1>2, <1>3, <1>4, <1>5, <1>6 DEF LifeSteps

(* Every step of the screen is one of them for the socket. *)
LEMMA NextLives == ASSUME Next PROVE LifeSteps
<1> USE DEF lifeVars, clientVars
<1>1. CASE Render \/ Deliver \/ UserStops \/ StartChat
  BY <1>1 DEF LifeSteps, Render, Deliver, UserStops, StartChat, Abort
<1>2. CASE Unmount
  BY <1>2 DEF LifeSteps, Unmount
<1>3. ASSUME NEW s \in Socket, Mount(s) \/ SocketEvent(s) PROVE LifeSteps
  BY <1>3 DEF LifeSteps, Mount, SocketEvent
<1>4. ASSUME NEW s \in Socket, NEW code \in CloseCode, SocketLost(s, code) PROVE LifeSteps
  BY <1>4 DEF LifeSteps, SocketLost
<1>5. ASSUME NEW k \in Send, UserSends(k) PROVE LifeSteps
  BY <1>5 DEF LifeSteps, UserSends
<1>6. ASSUME NEW k \in Send, Server(k) PROVE LifeSteps
  BY <1>6 DEF LifeSteps, Server, Progress, RefuseSend, AnswerSend, SpeakTurn, EndOfTurn, FallSilent, ServerOnly
<1>7. ASSUME NEW c \in Conv, OpenConversation(c) \/ HistoryArrives(c) PROVE LifeSteps
  BY <1>7 DEF LifeSteps, OpenConversation, HistoryArrives, Abort
<1> QED BY <1>1, <1>2, <1>3, <1>4, <1>5, <1>6, <1>7 DEF Next

-----------------------------------------------------------------------------
(* Types.                                                                  *)

(* The store and what is read of it. *)
LEMMA StoreTypes == ASSUME Typed, Next PROVE StoreTyped'
<1>1. store \in Store /\ seen \in Seen
  BY DEF Typed, StoreTyped
<1>2. store' \in Store
  BY <1>1, Dispatched, EmptyStore, OtherStores DEF Follows
<1>3. seen' \in Seen
  BY <1>1, <1>2, Dispatched, ViewTyped
<1> QED BY <1>2, <1>3 DEF StoreTyped

(* The intents to abort. *)
LEMMA IntentTypes == ASSUME Typed, Next PROVE (intents \subseteq Send)'
<1> USE DEF lifeVars, clientVars
<1>0. intents \subseteq Send /\ seen.activeLocalId \in Send \cup {None}
  BY DEF Typed, StoreTyped, Seen
<1>1. Abort => intents' \subseteq Send
  BY <1>0 DEF Abort, AbortsLater, AbortPending
<1>2. CASE Render \/ Unmount
  BY <1>0, <1>2 DEF Render, Unmount, Dispose
<1>3. CASE Deliver
  BY <1>0, <1>3 DEF Deliver, FlushPendingAbort
<1>4. CASE UserStops \/ StartChat
  BY <1>1, <1>4 DEF UserStops, StartChat
<1>5. ASSUME NEW s \in Socket, Mount(s) \/ SocketEvent(s) PROVE intents' \subseteq Send
  BY <1>0, <1>5 DEF Mount, Connect, SocketEvent, SocketOpens, ReconnectFires
<1>6. ASSUME NEW s \in Socket, NEW code \in CloseCode, SocketLost(s, code) PROVE intents' \subseteq Send
  BY <1>0, <1>6 DEF SocketLost, SocketCloses
<1>7. ASSUME NEW k \in Send, UserSends(k) \/ Server(k) PROVE intents' \subseteq Send
  BY <1>0, <1>7 DEF UserSends, Server, Progress, RefuseSend, AnswerSend, SpeakTurn, EndOfTurn, FallSilent, ServerOnly
<1>8. ASSUME NEW c \in Conv, OpenConversation(c) \/ HistoryArrives(c) PROVE intents' \subseteq Send
  BY <1>0, <1>1, <1>8 DEF OpenConversation, HistoryArrives
<1> QED BY <1>2, <1>3, <1>4, <1>5, <1>6, <1>7, <1>8 DEF Next

(* The rail and the thread. *)
LEMMA ScreenTypes == ASSUME Typed, Next PROVE ScreenTyped'
<1> USE DEF ScreenTyped, screenVars
<1>0. ScreenTyped /\ ServerTyped
  BY DEF Typed
<1>1. CASE Render \/ UserStops
  BY <1>0, <1>1 DEF Render, UserStops
<1>2. CASE Unmount
  BY <1>2 DEF Unmount, Conv
<1>3. CASE StartChat
  BY <1>0, <1>3 DEF StartChat, LoadThread
<1>4. CASE Deliver
  <2>0. Head(down) \in Msg
    BY <1>0, <1>4 DEF Deliver, ServerTyped
  <2>1. Head(down).req \in Conv
    BY <2>0 DEF Msg, Conv
  <2>2. UNCHANGED screenVars \/ Created(Head(down).req)
    BY <1>4 DEF Deliver
  <2> QED BY <1>0, <2>1, <2>2 DEF Created
<1>5. ASSUME NEW s \in Socket, Mount(s) \/ SocketEvent(s) PROVE ScreenTyped'
  BY <1>0, <1>5 DEF Mount, SocketEvent
<1>6. ASSUME NEW s \in Socket, NEW code \in CloseCode, SocketLost(s, code) PROVE ScreenTyped'
  BY <1>0, <1>6 DEF SocketLost
<1>7. ASSUME NEW k \in Send, UserSends(k) \/ Server(k) PROVE ScreenTyped'
  BY <1>0, <1>7 DEF UserSends, Server, Progress, RefuseSend, AnswerSend, SpeakTurn, EndOfTurn, FallSilent, ServerOnly
<1>8. ASSUME NEW c \in Conv, OpenConversation(c) PROVE ScreenTyped'
  BY <1>0, <1>8 DEF OpenConversation
<1>9. ASSUME NEW c \in Conv, HistoryArrives(c) PROVE ScreenTyped'
  BY <1>0, <1>9 DEF HistoryArrives, LoadThread
<1> QED BY <1>1, <1>2, <1>3, <1>4, <1>5, <1>6, <1>7, <1>8, <1>9 DEF Next

(* One message more. *)
LEMMA SaysTyped ==
  ASSUME NEW k \in Send, NEW type \in {"created", "started", "token", "completed", "failed", "aborted", "error"}
  PROVE  Says(type, k) \in Seq(Msg)
<1>1. [type |-> type, req |-> k] \in Msg
  BY DEF Msg
<1> QED BY <1>1 DEF Says

DownTyped == down \in Seq(Msg)

(* What is on its way. *)
LEMMA DownTypes == ASSUME Typed, Next PROVE DownTyped'
<1> USE DEF DownTyped
<1>0. /\ down \in Seq(Msg) /\ <<>> \in Seq(Msg)
      /\ seen.activeRequestId \in Send \cup {None} /\ turn \in [Send -> Turn]
      /\ \A msgs \in Seq(Msg) : down \o msgs \in Seq(Msg)
  BY DEF Typed, ServerTyped, StoreTyped, Seen
<1>1. Abort => DownTyped'
  <2>1. AbortsNow => Says("error", seen.activeRequestId) \in Seq(Msg)
    BY <1>0, SaysTyped DEF AbortsNow
  <2> QED BY <1>0, <2>1 DEF Abort, WriteAbort, WriteNothing, Emit
<1>2. CASE Render \/ Unmount
  BY <1>0, <1>2 DEF Render, Unmount
<1>3. CASE Deliver
  <2>1. Head(down) \in Msg /\ Tail(down) \in Seq(Msg)
    BY <1>0, <1>3 DEF Deliver
  <2>2. Says("error", Head(down).req) \in Seq(Msg)
    BY <2>1, SaysTyped DEF Msg
  <2>3. PICK late \in BOOLEAN : down' = Tail(down) \o (IF late THEN Says("error", Head(down).req) ELSE <<>>)
    BY <1>3 DEF Deliver, Flushed, Forbidden, CanSend
  <2> QED BY <1>0, <2>1, <2>2, <2>3
<1>4. CASE UserStops \/ StartChat
  BY <1>1, <1>4 DEF UserStops, StartChat
<1>5. ASSUME NEW s \in Socket, Mount(s) \/ SocketEvent(s) PROVE DownTyped'
  BY <1>0, <1>5 DEF Mount, SocketEvent
<1>6. ASSUME NEW s \in Socket, NEW code \in CloseCode, SocketLost(s, code) PROVE DownTyped'
  BY <1>0, <1>6 DEF SocketLost
<1>7. ASSUME NEW k \in Send, UserSends(k) PROVE DownTyped'
  BY <1>0, <1>7 DEF UserSends
<1>8. ASSUME NEW k \in Send, RefuseSend(k) \/ SpeakTurn(k) PROVE DownTyped'
  BY <1>0, <1>8, SaysTyped DEF RefuseSend, SpeakTurn, Emit
<1>9. ASSUME NEW k \in Send, AnswerSend(k) PROVE DownTyped'
  <2>1. PICK type \in {"failed", "started"} :
          Emit((IF New(k) THEN Says("created", k) ELSE <<>>) \o Says(type, k))
    BY <1>9 DEF AnswerSend
  <2>2. Says("created", k) \in Seq(Msg) /\ Says(type, k) \in Seq(Msg)
    BY SaysTyped
  <2> QED BY <1>0, <2>1, <2>2 DEF Emit
<1>10. ASSUME NEW k \in Send, EndOfTurn(k) PROVE DownTyped'
  <2>1. turn'[k] \in {"completed", "aborted", "failed"}
    BY <1>0, <1>10 DEF EndOfTurn, Turns!EndTurn
  <2>2. Says("token", k) \in Seq(Msg) /\ Says(turn'[k], k) \in Seq(Msg)
    BY <2>1, SaysTyped
  <2> QED BY <1>0, <1>10, <2>2 DEF EndOfTurn, Emit
<1>11. ASSUME NEW c \in Conv, OpenConversation(c) \/ HistoryArrives(c) PROVE DownTyped'
  BY <1>0, <1>1, <1>11 DEF OpenConversation, HistoryArrives
<1>12. ASSUME NEW k \in Send, FallSilent(k) PROVE DownTyped'
  BY <1>0, <1>12 DEF FallSilent
<1> QED BY <1>2, <1>3, <1>4, <1>5, <1>6, <1>7, <1>8, <1>9, <1>10, <1>11, <1>12 DEF Next, Server, Progress

(* The server's side. *)
LEMMA ServerTypes == ASSUME Typed, Life, Next PROVE ServerTyped'
<1> USE DEF serverVars, userVars, Conv
<1>0. ServerTyped /\ ws \in Socket \cup {None} /\ activeConvId \in Conv \cup {None}
  BY DEF Typed, Life, LifeTyped, ScreenTyped
<1>1. down' \in Seq(Msg)
  BY DownTypes DEF DownTyped
<1> DEFINE Rest == /\ via' \in [Send -> Socket \cup {None}]
                   /\ home' \in [Send -> Conv \cup {None}]
                   /\ turn' \in [Send -> Turn]
                   /\ text' \in [Send -> Nat]
<1> SUFFICES Rest
  BY <1>1 DEF ServerTyped
<1>2. UNCHANGED <<via, home, turn, text>> => Rest
  BY <1>0 DEF ServerTyped
<1>3. CASE Render \/ Deliver \/ Unmount \/ UserStops \/ StartChat
  BY <1>2, <1>3 DEF Render, Deliver, Unmount, UserStops, StartChat, Abort
<1>4. ASSUME NEW s \in Socket, Mount(s) \/ SocketEvent(s) PROVE Rest
  BY <1>2, <1>4 DEF Mount, SocketEvent
<1>5. ASSUME NEW s \in Socket, NEW code \in CloseCode, SocketLost(s, code) PROVE Rest
  BY <1>2, <1>5 DEF SocketLost
<1>6. ASSUME NEW k \in Send, UserSends(k) PROVE Rest
  BY <1>0, <1>6 DEF UserSends, ServerTyped, CanSend
<1>7. ASSUME NEW k \in Send, RefuseSend(k) \/ SpeakTurn(k) PROVE Rest
  <2>1. (Turns!Refuse(k) \/ Turns!Speak(k)) /\ UNCHANGED <<home, via>>
    BY <1>7 DEF RefuseSend, SpeakTurn, ServerOnly
  <2>2. turn' \in [Send -> Turn]
    BY <1>0, <2>1 DEF ServerTyped, Turn, Turns!Refuse, Turns!Speak
  <2>3. text' \in [Send -> Nat]
    <3>1. CASE Turns!Refuse(k)
      BY <1>0, <3>1 DEF ServerTyped, Turns!Refuse
    <3>2. CASE Turns!Speak(k)
      BY <1>0, <3>2 DEF ServerTyped, Turns!Speak
    <3> QED BY <2>1, <3>1, <3>2
  <2> QED BY <1>0, <2>1, <2>2, <2>3 DEF ServerTyped
<1>8. ASSUME NEW k \in Send, AnswerSend(k) PROVE Rest
  <2>1. Turns!Refuse(k) \/ Turns!Run(k)
    BY <1>8 DEF AnswerSend
  <2>2. home' \in [Send -> Conv \cup {None}] /\ via' = via
    BY <1>0, <1>8 DEF AnswerSend, ServerOnly, ServerTyped
  <2> QED BY <1>0, <2>1, <2>2 DEF ServerTyped, Turn, Turns!Refuse, Turns!Run
<1>9. ASSUME NEW k \in Send, EndOfTurn(k) PROVE Rest
  <2>1. Turns!EndTurn(k) /\ UNCHANGED <<home, via>>
    BY <1>9 DEF EndOfTurn, ServerOnly
  <2>2. turn' \in [Send -> Turn]
    BY <1>0, <2>1 DEF ServerTyped, Turn, Turns!EndTurn
  <2>3. text' \in [Send -> Nat]
    BY <1>0, <2>1 DEF ServerTyped, Turns!EndTurn
  <2> QED BY <1>0, <2>1, <2>2, <2>3 DEF ServerTyped
<1>10. ASSUME NEW c \in Conv, OpenConversation(c) \/ HistoryArrives(c) PROVE Rest
  BY <1>2, <1>10 DEF OpenConversation, HistoryArrives, Abort
<1>11. ASSUME NEW k \in Send, FallSilent(k) PROVE Rest
  BY <1>0, <1>11 DEF FallSilent, ServerOnly, ServerTyped
<1> QED BY <1>3, <1>4, <1>5, <1>6, <1>7, <1>8, <1>9, <1>10, <1>11 DEF Next, Server, Progress

(* All of them. *)
LEMMA TypesKept == ASSUME Typed, Life, Next PROVE Typed'
BY StoreTypes, IntentTypes, ScreenTypes, ServerTypes DEF Typed

-----------------------------------------------------------------------------
(* The drafts.                                                             *)

Ids == {m.id : m \in Drafts}

(* What follows a store awaits no draft it did not, and has the same ones. *)
LEMMA DraftsKept ==
  ASSUME Typed, Follows(store, store')
  PROVE  Awaited' \subseteq Awaited /\ Ids' = Ids
<1>1. store.messages \in Seq(Draft)
  BY DEF Typed, StoreTyped, Store
<1>2. ASSUME NEW k \in Awaited' PROVE k \in Awaited
  <2>1. PICK i \in DOMAIN store'.messages : store'.messages[i].id = k /\ Waiting(store'.messages[i])
    BY <1>2 DEF Awaited, Drafts, Waiting
  <2>2. store.messages[i].id = k /\ Waiting(store.messages[i]) /\ i \in DOMAIN store.messages
    BY <2>1 DEF Follows
  <2> QED BY <2>2 DEF Awaited, Drafts
<1>3. Ids' = {store'.messages[i].id : i \in DOMAIN store'.messages}
  BY DEF Ids, Drafts
<1>4. Ids = {store.messages[i].id : i \in DOMAIN store.messages}
  BY DEF Ids, Drafts
<1> QED BY <1>2, <1>3, <1>4 DEF Follows

(* Sends are awaited. *)
LEMMA AwaitedSends == ASSUME Typed PROVE Ids \subseteq Send /\ Awaited \subseteq Send
<1>1. \A i \in DOMAIN store.messages : store.messages[i] \in Draft
  BY DEF Typed, StoreTyped, Store
<1> QED BY <1>1 DEF Awaited, Ids, Drafts, Draft

(* An empty store awaits nothing. *)
LEMMA NoDrafts == ASSUME store' = initialChatState PROVE Awaited' = {} /\ Ids' = {} /\ Drafts' = {}
BY EmptyStore DEF Awaited, Ids, Drafts

(* A send adds its draft. *)
LEMMA DraftAdded ==
  ASSUME Typed, NEW k \in Send, store' = SendUser(store, k)
  PROVE  Awaited' \subseteq Awaited \cup {k} /\ Ids' = Ids \cup {k}
<1> DEFINE d == [id |-> k, req |-> None, status |-> "pending", text |-> 0]
<1>1. store \in Store /\ store.messages \in Seq(Draft)
  BY DEF Typed, StoreTyped, Store
<1>2. store'.messages = Append(store.messages, d)
  BY <1>1, OtherStores
<1>3. d.id = k
  OBVIOUS
<1> HIDE DEF d
<1>4. Drafts' = Drafts \cup {d}
  <2> DEFINE n == Len(store.messages)
             longer == Append(store.messages, d)
  <2>1. /\ n \in Nat /\ DOMAIN store.messages = 1 .. n /\ DOMAIN longer = 1 .. n + 1
        /\ longer[n + 1] = d
        /\ \A i \in 1 .. n : longer[i] = store.messages[i]
    BY <1>1
  <2>2. Drafts' = {longer[i] : i \in 1 .. n + 1} /\ Drafts = {store.messages[i] : i \in 1 .. n}
    BY <1>2, <2>1 DEF Drafts
  <2> HIDE DEF n, longer
  <2>3. 1 .. n + 1 = (1 .. n) \cup {n + 1}
    BY <2>1
  <2> QED BY <2>1, <2>2, <2>3
<1> QED BY <1>3, <1>4 DEF Awaited, Ids

AwaitedHere == ~ disposed => \A k \in Awaited : clientState = "open" /\ via[k] = ws

(* No step but a send begins to await a draft. *)
LEMMA NotAwaited ==
  ASSUME Typed, Next, \A k \in Send : ~ UserSends(k)
  PROVE  Awaited' \subseteq Awaited
BY Dispatched, DraftsKept, NoDrafts

(* Every step keeps awaited drafts on the open socket. *)
LEMMA AwaitedKept == ASSUME Typed, Life, AwaitedHere, Next PROVE AwaitedHere'
<1> USE DEF lifeVars, clientVars, userVars
<1>1. ASSUME NEW k \in Send, UserSends(k) PROVE AwaitedHere'
  <2>1. /\ UNCHANGED <<disposed, clientState, ws>> /\ clientState = "open"
        /\ via' = [via EXCEPT ![k] = ws] /\ store' = SendUser(store, k)
    BY <1>1 DEF UserSends, CanSend, DispatchNow
  <2>2. Awaited' \subseteq Awaited \cup {k}
    BY <2>1, DraftAdded
  <2>3. via \in [Send -> Socket \cup {None}]
    BY DEF Typed, ServerTyped
  <2> HIDE DEF Awaited
  <2>4. \A j \in Awaited' : j \in Send
    BY <2>2, AwaitedSends
  <2> QED BY <2>1, <2>2, <2>3, <2>4 DEF AwaitedHere
<1> SUFFICES ASSUME \A k \in Send : ~ UserSends(k) PROVE AwaitedHere'
  BY <1>1
<1>2. Awaited' \subseteq Awaited
  BY NotAwaited
<1>3. UNCHANGED <<disposed, clientState, ws, via>> => AwaitedHere'
  BY <1>2 DEF AwaitedHere
<1>4. Awaited = {} \/ disposed' => AwaitedHere'
  BY <1>2 DEF AwaitedHere
<1>5. CASE Render \/ Deliver \/ UserStops \/ StartChat
  BY <1>3, <1>5 DEF Render, Deliver, UserStops, StartChat, Abort
<1>6. CASE Unmount
  BY <1>4, <1>6 DEF Unmount, Dispose
<1>7. ASSUME NEW s \in Socket, Mount(s) PROVE AwaitedHere'
  BY <1>4, <1>7 DEF AwaitedHere, Mount, Connect, OpenSocket
<1>8. ASSUME NEW s \in Socket, SocketEvent(s) PROVE AwaitedHere'
  <2>1. clientState # "open"
    BY <1>8 DEF Life, Lines, SocketEvent, SocketOpens, ReconnectFires
  <2>2. disposed' = disposed
    BY <1>8 DEF SocketEvent, SocketOpens, ReconnectFires
  <2> QED BY <1>4, <2>1, <2>2 DEF AwaitedHere
<1>9. ASSUME NEW s \in Socket, NEW code \in CloseCode, SocketLost(s, code) PROVE AwaitedHere'
  <2>1. CASE WasStreaming
    <3>1. store' = ConnectionLost(store) /\ store \in Store
      BY <1>9, <2>1 DEF SocketLost, Dispatch, Typed, StoreTyped
    <3>2. \A i \in DOMAIN store'.messages : ~ Waiting(store'.messages[i])
      BY <3>1, LostKept DEF Follows
    <3>3. Awaited' = {}
      BY <3>2 DEF Awaited, Drafts, Waiting
    <3> QED BY <3>3 DEF AwaitedHere
  <2>2. CASE ~ WasStreaming
    <3>1. disposed' = disposed
      BY <1>9 DEF SocketLost, SocketCloses
    <3> QED BY <1>4, <2>2, <3>1 DEF AwaitedHere, WasStreaming
  <2> QED BY <2>1, <2>2
<1>10. ASSUME NEW k \in Send, Server(k) PROVE AwaitedHere'
  BY <1>3, <1>10 DEF Server, Progress, RefuseSend, AnswerSend, SpeakTurn, EndOfTurn, FallSilent, ServerOnly
<1>11. ASSUME NEW c \in Conv, OpenConversation(c) \/ HistoryArrives(c) PROVE AwaitedHere'
  BY <1>3, <1>11 DEF OpenConversation, HistoryArrives, Abort
<1> QED BY <1>5, <1>6, <1>7, <1>8, <1>9, <1>10, <1>11 DEF Next

-----------------------------------------------------------------------------
(* The initial state. *)
LEMMA InitHolds == ASSUME Init PROVE Typed /\ Life /\ AwaitedHere
<1> USE WsClientAssumption, ChatClientAssumption DEF Init, ClientInit
<1>1. StoreTyped
  BY EmptyStore, ViewTyped DEF StoreTyped
<1>2. ScreenTyped
  BY DEF ScreenTyped, Conv
<1>3. ServerTyped
  BY DEF ServerTyped, Turns!ContractInit, Turn
<1>4. Life
  <2>1. /\ clientState = "idle" /\ ws = None /\ phase = [s \in Socket |-> "unused"]
        /\ ~ reconnectTimer /\ ~ heartbeatTimer /\ authFailureStreak = 0 /\ ~ disposed
        /\ reconnectTimer \in BOOLEAN /\ heartbeatTimer \in BOOLEAN /\ disposed \in BOOLEAN
    OBVIOUS
  <2> HIDE DEF Init, ClientInit
  <2> QED BY <2>1 DEF Life, LifeTyped, Lines, ClientStates, Phases
<1>5. AwaitedHere
  BY EmptyStore DEF AwaitedHere, Awaited, Drafts
<1> QED BY <1>1, <1>2, <1>3, <1>4, <1>5 DEF Typed

Lifeline == Typed /\ Life /\ AwaitedHere

(* What every step keeps, a stuttering one too. *)
LEMMA LifelineKept == ASSUME Lifeline, [Next]_vars PROVE Lifeline'
<1>1. CASE Next
  BY <1>1, TypesKept, NextLives, LifeKept, AwaitedKept DEF Lifeline
<1>2. CASE UNCHANGED vars
  <2> USE <1>2 DEF vars, clientVars, lifeVars, screenVars, storeVars, serverVars, userVars
  <2>1. Typed'
    BY DEF Lifeline, Typed, StoreTyped, ScreenTyped, ServerTyped
  <2>2. Life'
    BY DEF Lifeline, Life, LifeTyped, Lines
  <2>3. AwaitedHere'
    BY DEF Lifeline, AwaitedHere, Awaited, Drafts
  <2> QED BY <2>1, <2>2, <2>3 DEF Lifeline
<1> QED BY <1>1, <1>2

(***************************************************************************)
(* The client's types hold, and its lifeline, whatever closes, is lost,    *)
(* disposed of or opened again (ws-client.ts).                             *)
(***************************************************************************)
THEOREM LifelineHolds == Spec => [](Typed /\ OneLifeline)
<1>1. Init => Lifeline
  BY InitHolds DEF Lifeline
<1>2. Lifeline /\ [Next]_vars => Lifeline'
  BY LifelineKept
<1>3. Lifeline => Typed /\ OneLifeline
  BY DEF Lifeline, Life, Lines, AwaitedHere, OneLifeline
<1> QED BY <1>1, <1>2, <1>3, PTL DEF Spec

-----------------------------------------------------------------------------
(* The thread.                                                             *)

Announces(msgs, k) == \E i \in DOMAIN msgs : msgs[i].type = "created" /\ msgs[i].req = k

(* Only the conversation of a send the server has placed is announced.     *)
Announced ==
  \A k \in Send :
    /\ via[k] = None => home[k] = None
    /\ home[k] = None => k \notin conversations /\ ~ Announces(down, k)

InPlace == thread = activeConvId /\ \A k \in Ids : home[k] \in conversations => home[k] = activeConvId

(* The screen shows the conversation it sends to, or fetches it.           *)
Following ==
  ~ lateCreated =>
    /\ activeConvIdRef # None => activeConvId = activeConvIdRef
    /\ InPlace \/ (activeConvIdRef \in Conv /\ fetches[activeConvIdRef] > 0)

(* What joins a sequence announces no more than its parts. *)
LEMMA Joined ==
  ASSUME NEW a \in Seq(Msg), NEW b \in Seq(Msg), NEW k, Announces(a \o b, k)
  PROVE  Announces(a, k) \/ Announces(b, k)
<1>1. PICK i \in DOMAIN (a \o b) : (a \o b)[i].type = "created" /\ (a \o b)[i].req = k
  BY DEF Announces
<1>2. i \in 1 .. Len(a) + Len(b)
  BY <1>1
<1>3. CASE i =< Len(a)
  <2>1. i \in DOMAIN a /\ (a \o b)[i] = a[i]
    BY <1>2, <1>3
  <2> QED BY <1>1, <2>1 DEF Announces
<1>4. CASE ~ (i =< Len(a))
  <2>1. i - Len(a) \in DOMAIN b /\ (a \o b)[i] = b[i - Len(a)]
    BY <1>2, <1>4
  <2> QED BY <1>1, <2>1 DEF Announces
<1> QED BY <1>3, <1>4

(* A message announces its own conversation, if any. *)
LEMMA Said ==
  ASSUME NEW type, NEW j, NEW k, Announces(Says(type, j), k)
  PROVE  type = "created" /\ j = k
BY DEF Announces, Says

(* Nothing on its way announces nothing. *)
LEMMA NothingSaid == ASSUME NEW k PROVE ~ Announces(<<>>, k)
BY DEF Announces

(* An abort announces nothing new. *)
LEMMA AbortSilent ==
  ASSUME Typed, Abort, NEW k, Announces(down', k)
  PROVE  Announces(down, k)
<1> DEFINE r == seen.activeRequestId
<1>1. CASE AbortsNow /\ CanSend /\ Forbidden(r)
  <2>1. down' = down \o Says("error", r)
    BY <1>1 DEF Abort, WriteAbort, Emit
  <2>2. down \in Seq(Msg) /\ Says("error", r) \in Seq(Msg)
    BY <1>1, SaysTyped DEF Typed, ServerTyped, StoreTyped, Seen, AbortsNow
  <2> QED BY <2>1, <2>2, Joined, Said
<1>2. CASE ~ (AbortsNow /\ CanSend /\ Forbidden(r))
  BY <1>2 DEF Abort, WriteAbort, WriteNothing
<1> QED BY <1>1, <1>2

(* A delivery announces nothing new either. *)
LEMMA DeliverySilent ==
  ASSUME Typed, Deliver, NEW k, Announces(down', k)
  PROVE  Announces(down, k)
<1>1. down \in Seq(Msg) /\ down # <<>>
  BY DEF Deliver, Typed, ServerTyped
<1>2. Head(down) \in Msg /\ Tail(down) \in Seq(Msg)
  BY <1>1
<1>3. Says("error", Head(down).req) \in Seq(Msg) /\ <<>> \in Seq(Msg)
  <2>1. Head(down).req \in Send
    BY <1>2 DEF Msg
  <2> QED BY <2>1, SaysTyped
<1>4. PICK late \in BOOLEAN : down' = Tail(down) \o (IF late THEN Says("error", Head(down).req) ELSE <<>>)
  BY DEF Deliver, Flushed, Forbidden, CanSend
<1>5. Announces(Tail(down), k)
  <2> DEFINE rest == IF late THEN Says("error", Head(down).req) ELSE <<>>
  <2>1. rest \in Seq(Msg)
    BY <1>3
  <2>2. ~ Announces(rest, k)
    BY Said, NothingSaid
  <2>3. down' = Tail(down) \o rest
    BY <1>4
  <2> HIDE DEF rest
  <2> QED BY <1>2, <2>1, <2>2, <2>3, Joined
<1>6. \A i \in DOMAIN Tail(down) : i + 1 \in DOMAIN down /\ Tail(down)[i] = down[i + 1]
  BY <1>1
<1> QED BY <1>5, <1>6 DEF Announces

(* An announcement is that of a send the server has placed. *)
LEMMA AnnouncedKept == ASSUME Typed, Life, Announced, Next PROVE Announced'
<1> USE ChatClientAssumption, WsClientAssumption DEF screenVars, serverVars, userVars
<1>0. /\ via \in [Send -> Socket \cup {None}] /\ home \in [Send -> Conv \cup {None}]
      /\ down \in Seq(Msg) /\ <<>> \in Seq(Msg)
  BY DEF Typed, ServerTyped
<1>1. ASSUME UNCHANGED <<via, home, conversations>>, \A k \in Send : Announces(down', k) => Announces(down, k)
      PROVE  Announced'
  BY <1>1 DEF Announced
<1>2. CASE Render
  BY <1>1, <1>2 DEF Render
<1>3. CASE Deliver
  <2>1. \A k \in Send : Announces(down', k) => Announces(down, k)
    BY <1>3, DeliverySilent
  <2>2. UNCHANGED <<via, home>>
    BY <1>3 DEF Deliver
  <2>3. CASE UNCHANGED screenVars
    BY <1>1, <2>1, <2>2, <2>3
  <2>4. CASE Head(down).type = "created"
    <3>1. conversations' = conversations \cup {Head(down).req}
      BY <1>3, <2>4 DEF Deliver, Created
    <3>2. 1 \in DOMAIN down /\ Head(down) = down[1]
      BY <1>0, <1>3 DEF Deliver
    <3>3. Announces(down, Head(down).req)
      BY <2>4, <3>2 DEF Announces
    <3> QED BY <2>1, <2>2, <3>1, <3>3 DEF Announced
  <2> QED BY <1>3, <2>3, <2>4 DEF Deliver
<1>4. CASE Unmount
  <2>1. \A k \in Send : k \notin OldConv
    OBVIOUS
  <2> QED BY <1>4, <2>1, NothingSaid DEF Unmount, Announced
<1>5. CASE UserStops \/ StartChat
  <2>1. Abort /\ UNCHANGED <<via, home, conversations>>
    BY <1>5 DEF UserStops, StartChat, Abort
  <2> QED BY <1>1, <2>1, AbortSilent
<1>6. ASSUME NEW s \in Socket, Mount(s) \/ SocketEvent(s) PROVE Announced'
  BY <1>1, <1>6 DEF Mount, SocketEvent
<1>7. ASSUME NEW s \in Socket, NEW code \in CloseCode, SocketLost(s, code) PROVE Announced'
  BY <1>1, <1>7, NothingSaid DEF SocketLost
<1>8. ASSUME NEW k \in Send, UserSends(k) PROVE Announced'
  <2>1. /\ via[k] = None /\ via' = [via EXCEPT ![k] = ws] /\ ws # None
        /\ home' = [home EXCEPT ![k] = activeConvId] /\ UNCHANGED <<conversations, down>>
    BY <1>8 DEF UserSends, CanSend, Typed, ServerTyped
  <2> QED BY <1>0, <2>1 DEF Announced
<1>9. ASSUME NEW k \in Send, RefuseSend(k) \/ SpeakTurn(k) PROVE Announced'
  <2>1. UNCHANGED <<via, home, conversations>>
    BY <1>9 DEF RefuseSend, SpeakTurn, ServerOnly
  <2>2. PICK type \in {"error", "token"} : down' = down \o Says(type, k)
    BY <1>9 DEF RefuseSend, SpeakTurn, Emit
  <2>3. Says(type, k) \in Seq(Msg)
    BY SaysTyped
  <2> QED BY <1>0, <1>1, <2>1, <2>2, <2>3, Joined, Said
<1>10. ASSUME NEW k \in Send, AnswerSend(k) PROVE Announced'
  <2>1. /\ home' = [home EXCEPT ![k] = IF New(k) THEN k ELSE @] /\ UNCHANGED <<via, conversations>>
        /\ via[k] # None
    BY <1>10 DEF AnswerSend, ServerOnly, Here
  <2>2. PICK type \in {"failed", "started"} :
          down' = down \o ((IF New(k) THEN Says("created", k) ELSE <<>>) \o Says(type, k))
    BY <1>10 DEF AnswerSend, Emit
  <2>3. Says("created", k) \in Seq(Msg) /\ Says(type, k) \in Seq(Msg)
    BY SaysTyped
  <2>4. \A j \in Send : Announces(down', j) => Announces(down, j) \/ (j = k /\ New(k))
    <3> DEFINE first == IF New(k) THEN Says("created", k) ELSE <<>>
    <3>1. first \in Seq(Msg) /\ first \o Says(type, k) \in Seq(Msg)
      BY <1>0, <2>3
    <3>2. \A j \in Send : Announces(first, j) => j = k /\ New(k)
      BY Said, NothingSaid
    <3> HIDE DEF first
    <3>3. down' = down \o (first \o Says(type, k))
      BY <2>2 DEF first
    <3>4. ASSUME NEW j \in Send, Announces(down', j) PROVE Announces(down, j) \/ (j = k /\ New(k))
      <4>1. Announces(down, j) \/ Announces(first \o Says(type, k), j)
        BY <1>0, <3>1, <3>3, <3>4, Joined
      <4>2. ~ Announces(Says(type, k), j)
        BY Said
      <4>3. Announces(down, j) \/ Announces(first, j)
        BY <2>3, <3>1, <4>1, <4>2, Joined
      <4> QED BY <3>2, <4>3
    <3> QED BY <3>4
  <2>5. home'[k] # None /\ \A j \in Send : j # k => home'[j] = home[j]
    BY <1>0, <2>1 DEF New
  <2> QED BY <1>0, <2>1, <2>4, <2>5 DEF Announced
<1>11. ASSUME NEW k \in Send, EndOfTurn(k) PROVE Announced'
  <2>1. UNCHANGED <<via, home, conversations>>
    BY <1>11 DEF EndOfTurn, ServerOnly
  <2>2. down' = down \o ((IF text' = text THEN <<>> ELSE Says("token", k)) \o Says(turn'[k], k))
    BY <1>11 DEF EndOfTurn, Emit
  <2>3. turn'[k] \in {"completed", "aborted", "failed"}
    BY <1>11 DEF EndOfTurn, Turns!EndTurn, Typed, ServerTyped
  <2>4. Says("token", k) \in Seq(Msg) /\ Says(turn'[k], k) \in Seq(Msg)
    BY <2>3, SaysTyped
  <2>5. ASSUME NEW j \in Send, Announces(down', j) PROVE Announces(down, j)
    <3> DEFINE first == IF text' = text THEN <<>> ELSE Says("token", k)
               last == Says(turn'[k], k)
    <3>1. ~ Announces(first, j) /\ ~ Announces(last, j)
      BY <2>3, Said, NothingSaid
    <3>2. first \in Seq(Msg) /\ last \in Seq(Msg)
      BY <1>0, <2>4
    <3>3. down' = down \o (first \o last)
      BY <2>2
    <3> HIDE DEF first, last
    <3>4. first \o last \in Seq(Msg)
      BY <3>2
    <3>5. ~ Announces(first \o last, j)
      BY <3>1, <3>2, Joined
    <3> QED BY <1>0, <2>5, <3>3, <3>4, <3>5, Joined
  <2> QED BY <1>1, <2>1, <2>5
<1>12. ASSUME NEW c \in Conv, OpenConversation(c) PROVE Announced'
  BY <1>1, <1>12, AbortSilent DEF OpenConversation, Abort
<1>13. ASSUME NEW c \in Conv, HistoryArrives(c) PROVE Announced'
  BY <1>1, <1>13 DEF HistoryArrives
<1>14. ASSUME NEW k \in Send, FallSilent(k) PROVE Announced'
  BY <1>1, <1>14 DEF FallSilent, ServerOnly
<1> QED BY <1>2, <1>3, <1>4, <1>5, <1>6, <1>7, <1>8, <1>9, <1>10, <1>11, <1>12, <1>13, <1>14 DEF Next, Server, Progress

(* What follows shows the same thread, of the same drafts or of none.      *)
LEMMA SameThread ==
  ASSUME Typed, Following, UNCHANGED <<activeConvId, activeConvIdRef, fetches, thread, lateCreated, home, conversations>>,
         Ids' \subseteq Ids
  PROVE  Following'
BY DEF Following, InPlace

(* A screen without drafts that follows what it fetches, or shows it. *)
LEMMA CleanThread ==
  ASSUME Ids' = {}, activeConvIdRef' # None => activeConvId' = activeConvIdRef', thread' = activeConvId'
  PROVE  Following'
BY DEF Following, InPlace

(* The thread shown stays the one the screen sends to. *)
LEMMA FollowingKept == ASSUME Typed, Life, Announced, Following, Next PROVE Following'
<1> USE ChatClientAssumption, WsClientAssumption DEF screenVars, serverVars, userVars
<1>0. /\ via \in [Send -> Socket \cup {None}] /\ home \in [Send -> Conv \cup {None}]
      /\ conversations \subseteq Conv /\ fetches \in [Conv -> Nat] /\ Ids \subseteq Send
      /\ None \notin Conv
  BY AwaitedSends DEF Typed, ServerTyped, ScreenTyped, Conv
<1>1. ASSUME NEW k \in Send, UserSends(k) PROVE Following'
  <2>1. /\ UNCHANGED screenVars /\ store' = SendUser(store, k)
        /\ home' = [home EXCEPT ![k] = activeConvId]
    BY <1>1 DEF UserSends, DispatchNow
  <2>2. Ids' = Ids \cup {k}
    BY <2>1, DraftAdded
  <2> QED BY <1>0, <2>1, <2>2 DEF Following, InPlace
<1> SUFFICES ASSUME \A k \in Send : ~ UserSends(k) PROVE Following'
  BY <1>1
<1>2. Ids' = Ids \/ Ids' = {}
  BY Dispatched, DraftsKept, NoDrafts
<1>3. UNCHANGED <<screenVars, home>> => Following'
  BY <1>2, SameThread
<1>4. CASE Render \/ UserStops
  BY <1>3, <1>4 DEF Render, UserStops, Abort
<1>5. CASE Deliver
  <2>1. UNCHANGED home
    BY <1>5 DEF Deliver
  <2>2. CASE UNCHANGED screenVars
    BY <1>3, <2>1, <2>2
  <2>3. CASE Created(Head(down).req)
    <3> DEFINE k == Head(down).req
    <3>1. Head(down) \in Msg
      BY <1>5 DEF Deliver, Typed, ServerTyped
    <3>2. k \in Send /\ Ids = {m.id : m \in Drafts}
      BY <3>1 DEF Msg, Ids
    <3>3. CASE activeConvId # None \/ k \notin Ids \/ lateCreated
      BY <2>3, <3>2, <3>3 DEF Created, Following
    <3>4. CASE activeConvId = None /\ k \in Ids /\ ~ lateCreated
      <4>1. /\ activeConvId' = k /\ thread' = k /\ conversations' = conversations \cup {k}
            /\ UNCHANGED <<activeConvIdRef, fetches>>
        BY <2>3, <3>2, <3>4 DEF Created
      <4>2. activeConvIdRef = None /\ InPlace
        BY <1>0, <3>4 DEF Following
      <4>3. \A j \in Ids' : home'[j] \in conversations' => home'[j] = k
        BY <1>0, <1>2, <2>1, <3>4, <4>1, <4>2 DEF InPlace
      <4> QED BY <4>1, <4>2, <4>3 DEF Following, InPlace
    <3> QED BY <3>3, <3>4
  <2> QED BY <1>5, <2>2, <2>3 DEF Deliver
<1>6. CASE Unmount
  <2>1. Ids' = {}
    BY <1>6, NoDrafts DEF Unmount, DispatchNow
  <2> QED BY <1>6, <2>1, CleanThread DEF Unmount
<1>7. CASE StartChat
  <2>1. Ids' = {}
    BY <1>7, NoDrafts DEF StartChat, DispatchNow, LoadHistory
  <2> QED BY <1>7, <2>1, CleanThread DEF StartChat, LoadThread
<1>8. ASSUME NEW s \in Socket, Mount(s) \/ SocketEvent(s) PROVE Following'
  BY <1>3, <1>8 DEF Mount, SocketEvent
<1>9. ASSUME NEW s \in Socket, NEW code \in CloseCode, SocketLost(s, code) PROVE Following'
  BY <1>3, <1>9 DEF SocketLost
<1>10. ASSUME NEW k \in Send, RefuseSend(k) \/ SpeakTurn(k) \/ EndOfTurn(k) \/ FallSilent(k) PROVE Following'
  BY <1>3, <1>10 DEF RefuseSend, SpeakTurn, EndOfTurn, FallSilent, ServerOnly
<1>11. ASSUME NEW k \in Send, AnswerSend(k) PROVE Following'
  <2>1. UNCHANGED screenVars /\ home' = [home EXCEPT ![k] = IF New(k) THEN k ELSE @]
    BY <1>11 DEF AnswerSend, ServerOnly
  <2>2. New(k) => k \notin conversations
    BY DEF Announced, New
  <2>3. \A j \in Send : home'[j] \in conversations => home'[j] = home[j]
    BY <1>0, <2>1, <2>2
  <2>4. /\ UNCHANGED <<conversations, activeConvId, activeConvIdRef, fetches, thread, lateCreated>>
        /\ \A j \in Ids' : j \in Send /\ j \in Ids
    BY <1>0, <1>2, <2>1
  <2>5. InPlace => InPlace'
    BY <2>3, <2>4 DEF InPlace
  <2> QED BY <2>4, <2>5 DEF Following
<1>12. ASSUME NEW c \in Conv, OpenConversation(c) PROVE Following'
  <2>1. activeConvId' = c /\ activeConvIdRef' = c /\ fetches' = [fetches EXCEPT ![c] = @ + 1]
    BY <1>12 DEF OpenConversation
  <2>2. fetches'[c] > 0
    BY <1>0, <2>1
  <2> QED BY <2>1, <2>2 DEF Following
<1>13. ASSUME NEW c \in Conv, HistoryArrives(c) PROVE Following'
  <2>1. CASE StillOpen(c)
    <3>1. Ids' = {} /\ thread' = c /\ UNCHANGED <<activeConvId, activeConvIdRef, lateCreated>>
      BY <1>13, <2>1, NoDrafts DEF HistoryArrives, Dispatch, LoadHistory, LoadThread
    <3>2. activeConvIdRef = c /\ c # None
      BY <1>0, <2>1 DEF StillOpen
    <3> QED BY <3>1, <3>2 DEF Following, InPlace
  <2>2. CASE ~ StillOpen(c)
    <3>1. /\ fetches' = [fetches EXCEPT ![c] = @ - 1]
          /\ UNCHANGED <<thread, activeConvId, activeConvIdRef, lateCreated, home, conversations>>
      BY <1>13, <2>2 DEF HistoryArrives
    <3> QED BY <1>2, <2>2, <3>1 DEF Following, InPlace, StillOpen
  <2> QED BY <2>1, <2>2
<1> QED BY <1>4, <1>5, <1>6, <1>7, <1>8, <1>9, <1>10, <1>11, <1>12, <1>13 DEF Next, Server, Progress

(***************************************************************************)
(* The screen shows the thread of the conversation it sends to, once the   *)
(* history it asked for is there (chat-screen.tsx).                        *)
(***************************************************************************)
THEOREM ThreadFollows == Spec => []ThreadIsActive
<1> DEFINE Inv == Lifeline /\ Announced /\ Following
<1>1. Init => Inv
  <2> SUFFICES ASSUME Init PROVE Announced /\ Following
    BY InitHolds DEF Lifeline
  <2>1. Ids = {}
    BY EmptyStore DEF Init, Ids, Drafts
  <2>2. /\ conversations = OldConv /\ activeConvId = None /\ activeConvIdRef = None /\ thread = None
        /\ fetches = [c \in Conv |-> 0] /\ down = <<>> /\ home = [k \in Send |-> None]
    BY DEF Init
  <2>3. Announced
    BY <2>2, NothingSaid, ChatClientAssumption, WsClientAssumption DEF Announced
  <2> QED BY <2>1, <2>2, <2>3 DEF Following, InPlace
<1>2. Inv /\ [Next]_vars => Inv'
  <2> SUFFICES ASSUME Inv, [Next]_vars PROVE Announced' /\ Following'
    BY LifelineKept
  <2>1. CASE Next
    BY <2>1, AnnouncedKept, FollowingKept DEF Lifeline
  <2>2. CASE UNCHANGED vars
    <3>1. UNCHANGED <<screenVars, down, serverVars, userVars, store>>
      BY <2>2 DEF vars, storeVars
    <3>2. Announced'
      BY <3>1 DEF Announced, screenVars, serverVars, userVars
    <3>3. Ids' = Ids
      BY <3>1 DEF Ids, Drafts
    <3>4. Following'
      BY <3>1, <3>3 DEF Following, InPlace, screenVars, serverVars
    <3> QED BY <3>2, <3>4
  <2> QED BY <2>1, <2>2
<1>3. Inv => ThreadIsActive
  BY DEF Lifeline, Typed, ScreenTyped, Following, InPlace, ThreadIsActive, Ids, Conv
<1> QED BY <1>1, <1>2, <1>3, PTL DEF Spec

-----------------------------------------------------------------------------
(* The replies.                                                            *)

Ended == {"completed", "failed", "aborted"}

(* A send is placed on a socket before the server can take it up, each     *)
(* send has one draft, and a page that is left has none.                   *)
Placed ==
  /\ \A k \in Send : /\ via[k] = None => turn[k] = "idle"
                     /\ turn[k] = "idle" => text[k] = 0
                     /\ via[k] # None => phase[via[k]] # "unused"
  /\ \A i \in DOMAIN store.messages : via[store.messages[i].id] # None
  /\ \A i, j \in DOMAIN store.messages : store.messages[i].id = store.messages[j].id => i = j

(* The draft that is awaited is the active one, bound once it streams, and *)
(* while it is pending the page has been rendered with it.                 *)
Active(m) ==
  /\ store.activeLocalId = m.id
  /\ store.status # "idle"
  /\ m.req = IF m.status = "pending" THEN None ELSE m.id
  /\ m.status = "pending" => seen.pending = m.id

(* Behind the first a messages on their way are the text that m lacks and  *)
(* the end of its turn, if it has ended.                                   *)
Answered(m, a) ==
  \E z \in 0 .. 1 :
    /\ turn[m.id] # "idle" /\ (z = 0 <=> turn[m.id] = "running")
    /\ a + z =< Len(down)
    /\ \A j \in a + 1 .. Len(down) - z : down[j].type = "token"
    /\ z = 1 => down[Len(down)].type = turn[m.id]
    /\ m.text + Len(down) = text[m.id] + a + z

Announcing(a) == \A j \in 1 .. a : down[j].type = "created"

(* The server has not answered m, it has refused it, ...                   *)
Unanswered(m) == m.status = "pending" /\ turn[m.id] = "idle" /\ down = <<>>

Refused(m) ==
  /\ m.status = "pending" /\ turn[m.id] = "failed"
  /\ down # <<>> /\ down[Len(down)].type \in {"failed", "error"}
  /\ Announcing(Len(down) - 1)

(* ... it has answered, which m has yet to hear or is hearing.             *)
Starting(m, a) ==
  /\ m.status = "pending"
  /\ a =< Len(down) /\ down[a].type = "started" /\ Announcing(a - 1)
  /\ Answered(m, a)

Hearing(m) == m.status = "streaming" /\ Answered(m, 0)

UnderWay(m) == Unanswered(m) \/ Refused(m) \/ (\E a \in 1 .. 2 : Starting(m, a)) \/ Hearing(m)

Known(m) == OwnReply(m) /\ (Waiting(m) => Active(m) /\ UnderWay(m))

Clean == ~ strayed /\ ~ crossed /\ ~ disposed

(* Every draft is right so far; what is on its way is for the one that is  *)
(* awaited, and the server is done with every other send of this socket.   *)
Replying ==
  Clean =>
    /\ store.status # "idle" => seen.busy
    /\ \A i \in DOMAIN store.messages : Known(store.messages[i])
    /\ \A j \in DOMAIN down : down[j].req \in Awaited
    /\ \A k \in Send : via[k] # None /\ via[k] = ws => k \in Awaited \/ turn[k] \in Ended

(* A page that is left shows nothing. *)
Forgotten == disposed => store.messages = <<>>

(* Who is awaited, by place. *)
LEMMA AwaitedAt ==
  ASSUME NEW k
  PROVE  k \in Awaited <=> \E i \in DOMAIN store.messages : store.messages[i].id = k /\ Waiting(store.messages[i])
BY DEF Awaited, Drafts

(* The types of a draft. *)
LEMMA DraftAt ==
  ASSUME Typed, NEW i \in DOMAIN store.messages
  PROVE  /\ store.messages[i] \in Draft /\ store.messages[i].id \in Send
         /\ store.messages \in Seq(Draft) /\ store \in Store
<1>1. store \in Store
  BY DEF Typed, StoreTyped
<1>2. store.messages \in Seq(Draft)
  BY <1>1 DEF Store
<1>3. store.messages[i] \in Draft
  BY <1>2
<1> QED BY <1>1, <1>2, <1>3 DEF Draft

(* Only one draft is awaited. *)
LEMMA OneAwaited ==
  ASSUME Typed, Placed, Replying, Clean, NEW i \in DOMAIN store.messages, NEW j \in DOMAIN store.messages,
         Waiting(store.messages[i]), Waiting(store.messages[j])
  PROVE  i = j
<1>1. Active(store.messages[i]) /\ Active(store.messages[j])
  BY DEF Replying, Known
<1>2. store.messages[i].id = store.messages[j].id
  BY <1>1 DEF Active
<1> QED BY <1>2 DEF Placed

-----------------------------------------------------------------------------
(* A step that is about one awaited draft: the others stay as they are.    *)
LEMMA OneAnswered ==
  ASSUME Typed, Placed, Replying, Clean, Clean', NEW i \in DOMAIN store.messages, Waiting(store.messages[i]),
         NEW d, d.id = store.messages[i].id,
         store'.messages = [store.messages EXCEPT ![i] = d],
         \A k \in Send \ {d.id} : turn'[k] = turn[k] /\ text'[k] = text[k],
         Known(d)', UNCHANGED <<via, ws>>,
         \A j \in DOMAIN down' : down'[j].req = d.id /\ Waiting(d),
         Waiting(d) \/ turn'[d.id] \in Ended,
         store'.status # "idle" => seen'.busy
  PROVE  Replying'
<1> DEFINE M == store.messages
<1>0. DOMAIN store'.messages = DOMAIN M /\ store'.messages[i] = d /\ d.id \in Send
  BY DraftAt
<1>1. ASSUME NEW j \in DOMAIN M, j # i
      PROVE  store'.messages[j] = M[j] /\ ~ Waiting(M[j]) /\ M[j].id # d.id /\ M[j].id \in Send
  BY <1>1, OneAwaited, DraftAt DEF Placed
<1>2. ASSUME NEW j \in DOMAIN store'.messages PROVE Known(store.messages[j])'
  <2>1. CASE j = i
    BY <1>0, <2>1 DEF Known, OwnReply, Active, UnderWay, Unanswered, Refused, Starting, Hearing, Answered
  <2>2. CASE j # i
    <3>0. PICK m : m = M[j]
      OBVIOUS
    <3>1. store'.messages[j] = m /\ ~ Waiting(m) /\ m.id \in Send /\ m.id # d.id
      BY <1>0, <1>1, <2>2, <3>0
    <3>2. OwnReply(m)
      BY <1>0, <3>0 DEF Replying, Known
    <3>3. turn'[m.id] = turn[m.id] /\ text'[m.id] = text[m.id]
      BY <3>1
    <3>4. OwnReply(m)' /\ ~ Waiting(m)'
      BY <3>1, <3>2, <3>3 DEF OwnReply, Waiting
    <3> QED BY <3>1, <3>4 DEF Known
  <2> QED BY <2>1, <2>2
<1>3. \A k : k \in Awaited' <=> k = d.id /\ Waiting(d)
  <2>1. \A j \in DOMAIN M : j # i => ~ Waiting(store'.messages[j])
    BY <1>1
  <2>2. \A k : k \in Awaited' <=> \E j \in DOMAIN M : store'.messages[j].id = k /\ Waiting(store'.messages[j])
    BY <1>0 DEF Awaited, Drafts, Waiting
  <2> QED BY <1>0, <2>1, <2>2
<1>4. \A k : k \in Awaited => k = d.id
  BY <1>1, AwaitedAt
<1>5. ASSUME NEW k \in Send, via'[k] # None, via'[k] = ws' PROVE k \in Awaited' \/ turn'[k] \in Ended
  <2>1. k \in Awaited \/ turn[k] \in Ended
    BY <1>5 DEF Replying
  <2> QED BY <1>3, <1>4, <2>1
<1> HIDE DEF M
<1> QED BY <1>2, <1>3, <1>5 DEF Replying

-----------------------------------------------------------------------------
(* The reducer finds the draft that is awaited.                            *)

(* The only pending draft is the one that is found. *)
LEMMA PendingOnly ==
  ASSUME NEW st, NEW n \in Nat, n = Len(st.messages), NEW i \in 1 .. n,
         st.messages[i].status = "pending", st.messages[i].req = None,
         \A j \in 1 .. n : st.messages[j].status = "pending" => j = i
  PROVE  findPendingAssistantDraft(st) = i
<1> DEFINE I == {j \in 1 .. Len(st.messages) : st.messages[j].status = "pending" /\ st.messages[j].req = None}
<1>1. findPendingAssistantDraft(st) = IF I # {} THEN Min(I) ELSE 0
  BY DEF findPendingAssistantDraft, Find, SelectInSeq
<1>2. i \in I /\ \A j \in I : j = i
  OBVIOUS
<1>3. I \in SUBSET Nat
  OBVIOUS
<1>4. Min(I) \in I
  BY <1>2, <1>3, FirstPlace
<1> HIDE DEF I
<1> QED BY <1>1, <1>2, <1>4

(* Whoever is pending is the pending draft, ... *)
LEMMA PendingIs ==
  ASSUME Typed, Placed, Replying, Clean, NEW i \in DOMAIN store.messages, store.messages[i].status = "pending"
  PROVE  findPendingAssistantDraft(store) = i
<1>1. PICK n \in Nat : n = Len(store.messages) /\ DOMAIN store.messages = 1 .. n
  <2>1. store.messages \in Seq(Draft)
    BY DraftAt
  <2> QED BY <2>1
<1>2. store.messages[i].req = None
  BY DEF Replying, Known, Active, Waiting
<1>3. \A j \in 1 .. n : store.messages[j].status = "pending" => j = i
  BY <1>1, OneAwaited DEF Waiting
<1> QED BY <1>1, <1>2, <1>3, PendingOnly

(* ... whoever is awaited is the active one, ... *)
LEMMA ActiveIs ==
  ASSUME Typed, Placed, Replying, Clean, NEW i \in DOMAIN store.messages, Waiting(store.messages[i])
  PROVE  findActiveDraft(store) = i
<1> DEFINE I == {j \in 1 .. Len(store.messages) :
                   store.messages[j].id = store.activeLocalId /\ store.messages[j].status \in {"pending", "streaming"}}
<1>1. findActiveDraft(store) = IF I # {} THEN Min(I) ELSE 0
  BY DEF findActiveDraft, Find, SelectInSeq
<1>2. i \in 1 .. Len(store.messages)
  BY DraftAt
<1>3. store.messages[i].id = store.activeLocalId
  BY DEF Replying, Known, Active
<1>4. i \in I
  BY <1>2, <1>3 DEF Waiting
<1>5. Min(I) \in I
  <2>1. I \in SUBSET Nat
    OBVIOUS
  <2> QED BY <1>4, <2>1, FirstPlace
<1>6. Min(I) \in DOMAIN store.messages /\ Waiting(store.messages[Min(I)])
  BY <1>2, <1>5, DraftAt DEF Waiting
<1> HIDE DEF I
<1> QED BY <1>1, <1>4, <1>6, OneAwaited

(* ... and a request's draft is that of its send, once it is bound. *)
LEMMA BoundIs ==
  ASSUME Typed, Placed, Replying, Clean, NEW i \in DOMAIN store.messages
  PROVE  findDraftByRequestId(store, store.messages[i].id) = IF store.messages[i].req = None THEN 0 ELSE i
<1> DEFINE M == store.messages
           I == {j \in 1 .. Len(M) : M[j].req = M[i].id}
<1>1. findDraftByRequestId(store, M[i].id) = IF I # {} THEN Min(I) ELSE 0
  BY DEF findDraftByRequestId, Find, SelectInSeq
<1>2. DOMAIN M = 1 .. Len(M) /\ None \notin Send
  <2>1. M \in Seq(Draft)
    BY DraftAt
  <2>2. DOMAIN M = 1 .. Len(M)
    BY <2>1
  <2>3. None \notin Send
    BY WsClientAssumption
  <2> HIDE DEF M
  <2> QED BY <2>2, <2>3
<1>3. \A j \in DOMAIN M : M[j].req \in {None, M[j].id} /\ M[j].id \in Send
  BY DraftAt DEF Replying, Known, OwnReply
<1>4. \A j \in I : j = i /\ M[i].req # None
  BY <1>2, <1>3 DEF Placed
<1>5. M[i].req # None => i \in I
  BY <1>2, <1>3
<1>6. I # {} => Min(I) \in I
  <2>1. I \in SUBSET Nat
    OBVIOUS
  <2> QED BY <2>1, FirstPlace
<1> HIDE DEF I
<1> QED BY <1>1, <1>4, <1>5, <1>6

(* What an awaited draft is when something is on its way to it. *)
LEMMA HeadAwaited ==
  ASSUME Typed, Replying, Clean, Deliver
  PROVE  /\ Head(down) = down[1] /\ 1 \in DOMAIN down /\ down \in Seq(Msg) /\ down[1] \in Msg /\ Len(down) \in Nat \ {0}
         /\ \E i \in DOMAIN store.messages :
              Waiting(store.messages[i]) /\ \A j \in DOMAIN down : down[j].req = store.messages[i].id
<1>1. /\ Head(down) = down[1] /\ 1 \in DOMAIN down /\ down \in Seq(Msg) /\ down[1] \in Msg /\ Len(down) \in Nat \ {0}
  BY DEF Deliver, Typed, ServerTyped
<1>2. \A j \in DOMAIN down : down[j].req \in Awaited
  BY DEF Replying
<1>3. PICK i \in DOMAIN store.messages : store.messages[i].id = down[1].req /\ Waiting(store.messages[i])
  BY <1>1, <1>2, AwaitedAt
<1>4. \A k \in Awaited : k = store.messages[i].id
  <2> TAKE k \in Awaited
  <2>1. PICK j \in DOMAIN store.messages : store.messages[j].id = k /\ Waiting(store.messages[j])
    BY AwaitedAt
  <2>2. Active(store.messages[i]) /\ Active(store.messages[j])
    BY <1>3, <2>1 DEF Replying, Known
  <2> QED BY <2>1, <2>2 DEF Active
<1> QED BY <1>1, <1>2, <1>3, <1>4

(* The answer comes nearer: a message ahead of it was read, or its text.   *)
LEMMA Nearer ==
  ASSUME Typed, down # <<>>, down' = Tail(down), UNCHANGED <<turn, text>>,
         NEW m \in Draft, NEW d \in Draft, d.id = m.id, NEW a \in Nat, NEW b \in Nat, Answered(m, a),
         \/ a = b + 1 /\ d.text = m.text
         \/ a = 0 /\ b = 0 /\ down[1].type = "token" /\ d.text = m.text + 1
  PROVE  Answered(d, b)'
<1> DEFINE n == Len(down)
<1>1. /\ down \in Seq(Msg) /\ turn \in [Send -> Turn] /\ text \in [Send -> Nat] /\ m.id \in Send
      /\ m.text \in Nat /\ d.text \in Nat
  BY DEF Typed, ServerTyped, Draft
<1>2. n \in Nat \ {0} /\ Len(down') = n - 1 /\ \A j \in 1 .. n - 1 : down'[j] = down[j + 1]
  BY <1>1
<1>3. PICK z \in 0 .. 1 :
        /\ turn[m.id] # "idle" /\ (z = 0 <=> turn[m.id] = "running")
        /\ a + z =< n
        /\ \A j \in a + 1 .. n - z : down[j].type = "token"
        /\ z = 1 => down[n].type = turn[m.id]
        /\ m.text + n = text[m.id] + a + z
  BY DEF Answered
<1>4. text[m.id] \in Nat /\ z \in {0, 1} /\ turn[m.id] \in Turn
  BY <1>1
<1>5. b + z =< n - 1
  <2>1. CASE a = b + 1
    BY <1>2, <1>3, <1>4, <2>1
  <2>2. CASE a = 0 /\ b = 0 /\ down[1].type = "token"
    <3>1. ~ (z = 1 /\ n = 1)
      BY <1>3, <1>4, <2>2 DEF Turn
    <3> QED BY <1>2, <1>3, <1>4, <2>2, <3>1
  <2> QED BY <2>1, <2>2
<1>6. \A j \in b + 1 .. (n - 1) - z : down'[j].type = "token"
  <2> TAKE j \in b + 1 .. (n - 1) - z
  <2>1. j \in 1 .. n - 1 /\ j + 1 \in a + 1 .. n - z
    BY <1>2, <1>4
  <2> QED BY <1>2, <1>3, <2>1
<1>7. z = 1 => down'[n - 1].type = turn[m.id]
  <2>1. z = 1 => n - 1 \in 1 .. n - 1 /\ (n - 1) + 1 = n
    BY <1>2, <1>5
  <2> QED BY <1>2, <1>3, <2>1
<1>8. d.text + (n - 1) = text[m.id] + b + z
  <2>1. PICK u \in Nat, v \in Nat, t \in Nat : u = m.text /\ v = d.text /\ t = text[m.id]
    BY <1>1, <1>4
  <2>2. u + n = t + a + z /\ ((a = b + 1 /\ v = u) \/ (a = 0 /\ b = 0 /\ v = u + 1))
    BY <1>3, <2>1
  <2>3. v + (n - 1) = t + b + z
    BY <1>2, <1>4, <2>2
  <2> QED BY <2>1, <2>3
<1> HIDE DEF n
<1> QED BY <1>2, <1>3, <1>4, <1>5, <1>6, <1>7, <1>8 DEF Answered

(* What a delivery does, but for the end of a turn that a stop crossed. *)
LEMMA Delivered ==
  ASSUME Typed, Deliver, Clean'
  PROVE  /\ Clean /\ down # <<>> /\ down' = Tail(down) /\ store' = Reduce(store, down[1])
         /\ UNCHANGED <<seen, via, ws, turn, text>> /\ intents' \subseteq intents
         /\ down[1].type = "started" /\ Flushed(seen.pending) => intents' = intents \ {seen.pending}
<1> USE DEF lifeVars, serverVars
<1>1. down \in Seq(Msg) /\ down # <<>> /\ Head(down) = down[1]
  BY DEF Deliver, Typed, ServerTyped
<1>2. DEFINE flush == down[1].type = "started" /\ Flushed(seen.pending)
             late == flush /\ Forbidden(down[1].req)
<1>3. /\ IF flush THEN FlushPendingAbort(seen.pending) ELSE UNCHANGED intents
      /\ crossed' = (crossed \/ late)
      /\ down' = Tail(down) \o (IF late THEN Says("error", down[1].req) ELSE <<>>)
      /\ store' = Reduce(store, down[1]) /\ UNCHANGED <<seen, via, ws, turn, text, strayed, disposed>>
  BY <1>1 DEF Deliver, Dispatch
<1>4. ~ late /\ Clean
  BY <1>3 DEF Clean
<1>5. down' = Tail(down)
  <2>1. Tail(down) \in Seq(Msg)
    BY <1>1
  <2> HIDE DEF late
  <2> QED BY <1>3, <1>4, <2>1
<1> QED BY <1>1, <1>3, <1>4, <1>5 DEF FlushPendingAbort

(* The end of the awaited draft. *)
LEMMA EndedAt ==
  ASSUME NEW st \in Store, NEW i \in DOMAIN st.messages, NEW how
  PROVE  /\ EndDraft(st, i, how).messages = [st.messages EXCEPT ![i] = [st.messages[i] EXCEPT !.status = how]]
         /\ EndDraft(st, i, how).status = "idle"
<1>1. i # 0
  BY DEF Store
<1> QED BY <1>1 DEF EndDraft, clearActive, Store

(* It ends as its turn did. *)
LEMMA DeliveredEnd ==
  ASSUME Typed, Placed, Replying, Deliver, Clean', NEW i \in DOMAIN store.messages, Waiting(store.messages[i]),
         \A j \in DOMAIN down : down[j].req = store.messages[i].id,
         Len(down) = 1, NEW how \in {"complete", "error", "user"},
         store' = EndDraft(store, i, how),
         turn[store.messages[i].id] = CASE how = "complete" -> "completed" [] how = "error" -> "failed" [] how = "user" -> "aborted",
         how = "complete" => store.messages[i].text = text[store.messages[i].id]
  PROVE  Replying'
<1> DEFINE m == store.messages[i]
           d == [m EXCEPT !.status = how]
<1>1. m \in Draft /\ store \in Store /\ Known(m)
  BY Delivered, DraftAt DEF Replying
<1>2. Clean /\ UNCHANGED <<seen, via, ws, turn, text>> /\ down' = Tail(down) /\ down \in Seq(Msg)
  BY Delivered DEF Typed, ServerTyped
<1>3. DOMAIN down' = {}
  BY <1>2
<1>4. /\ d.id = m.id /\ d.req = m.req /\ d.text = m.text /\ d.status = how
  BY <1>1 DEF Draft
<1>5. store'.messages = [store.messages EXCEPT ![i] = d] /\ store'.status = "idle"
  BY <1>1, EndedAt
<1>6. OwnReply(m)
  BY <1>1 DEF Known
<1>7. PICK e : e = d
  OBVIOUS
<1> HIDE DEF d
<1>8. e.id = m.id /\ e.req = m.req /\ e.text = m.text /\ e.status = how /\ ~ Waiting(e)
  BY <1>4, <1>7 DEF Waiting
<1>9. turn[m.id] \in Ended
  BY DEF Ended
<1>10. PICK q : q = m
  OBVIOUS
<1> HIDE DEF m
<1>11. OwnReply(e)'
  BY <1>2, <1>6, <1>8, <1>10 DEF OwnReply, m
<1> QED BY <1>2, <1>3, <1>5, <1>7, <1>8, <1>9, <1>11, OneAnswered DEF Known, m

(* The awaited draft is bound, and a stop pressed before is written now.   *)
LEMMA DeliveredStart ==
  ASSUME Typed, Life, AwaitedHere, Placed, Replying, Deliver, Clean', NEW i \in DOMAIN store.messages,
         \A j \in DOMAIN down : down[j].req = store.messages[i].id,
         down[1].type = "started", Starting(store.messages[i], 1)
  PROVE  Replying'
<1>0. PICK m : m = store.messages[i]
  OBVIOUS
<1> DEFINE r == m.id
           d == [m EXCEPT !.req = r, !.status = "streaming"]
<1>1. /\ m \in Draft /\ store \in Store /\ Known(m) /\ m.status = "pending" /\ Waiting(m) /\ Active(m)
      /\ r \in Send /\ None \notin Send
  BY <1>0, Delivered, DraftAt, WsClientAssumption DEF Replying, Known, Starting, Waiting
<1>2. /\ Clean /\ UNCHANGED <<seen, via, ws, turn, text>> /\ down' = Tail(down) /\ down \in Seq(Msg) /\ down # <<>>
      /\ down[1].req = r
  BY <1>0, Delivered DEF Typed, ServerTyped
<1>3. store' = ServerStarted(store, r)
  BY <1>2, Delivered DEF Reduce
<1>4. findPendingAssistantDraft(store) = i /\ i # 0
  BY <1>0, <1>1, <1>2, PendingIs DEF Store
<1>5. /\ store'.messages = [store.messages EXCEPT ![i] = d] /\ store'.status = "streaming"
      /\ store'.activeLocalId = store.activeLocalId
  BY <1>0, <1>1, <1>3, <1>4 DEF ServerStarted, Store, Draft
<1>6. /\ d \in Draft /\ d.id = r /\ d.req = r /\ d.text = m.text /\ d.status = "streaming" /\ Waiting(d)
  BY <1>1 DEF Draft, Statuses, Waiting
<1>7. r \notin intents'
  <2>1. clientState = "open" /\ ws # None
    <3>1. r \in Awaited
      BY <1>0, <1>1, AwaitedAt
    <3> QED BY <1>2, <3>1 DEF AwaitedHere, Clean, Life, Lines
  <2>2. seen.pending = r
    BY <1>1 DEF Active
  <2> QED BY <2>1, <2>2, Delivered DEF Flushed, CanSend
<1>8. PICK e : e = d
  OBVIOUS
<1> HIDE DEF d
<1>9. OwnReply(m)
  BY <1>1 DEF Known
<1>10. OwnReply(e)'
  BY <1>1, <1>2, <1>6, <1>7, <1>8, <1>9 DEF OwnReply
<1>11. Active(e)'
  BY <1>1, <1>5, <1>6, <1>8 DEF Active
<1>12. Answered(e, 0)'
  BY <1>0, <1>1, <1>2, <1>6, <1>8, Nearer DEF Starting
<1>13. Known(e)'
  BY <1>6, <1>8, <1>10, <1>11, <1>12 DEF Known, UnderWay, Hearing
<1>14. \A j \in DOMAIN down' : down'[j].req = r
  BY <1>0, <1>2
<1>15. seen'.busy
  BY <1>1, <1>2 DEF Replying, Active
<1> QED BY <1>0, <1>1, <1>2, <1>5, <1>6, <1>8, <1>13, <1>14, <1>15, OneAnswered

(* The awaited draft shows what it is given. *)
LEMMA DeliveredText ==
  ASSUME Typed, Placed, Replying, Deliver, Clean', NEW i \in DOMAIN store.messages,
         \A j \in DOMAIN down : down[j].req = store.messages[i].id,
         down[1].type = "token", Hearing(store.messages[i])
  PROVE  Replying'
<1>0. PICK m : m = store.messages[i]
  OBVIOUS
<1> DEFINE r == m.id
           d == [m EXCEPT !.text = @ + 1]
<1>1. /\ m \in Draft /\ store \in Store /\ Known(m) /\ m.status = "streaming" /\ Waiting(m) /\ Active(m)
      /\ r \in Send /\ None \notin Send
  BY <1>0, Delivered, DraftAt, WsClientAssumption DEF Replying, Known, Hearing, Waiting
<1>2. /\ Clean /\ UNCHANGED <<seen, via, ws, turn, text>> /\ down' = Tail(down) /\ down \in Seq(Msg) /\ down # <<>>
      /\ down[1].req = r /\ intents' \subseteq intents
  BY <1>0, Delivered DEF Typed, ServerTyped
<1>3. store' = ServerToken(store, r)
  BY <1>2, Delivered DEF Reduce
<1>4. findDraftByRequestId(store, r) = i /\ i # 0
  <2>1. m.req # None
    BY <1>1 DEF Active
  <2> QED BY <1>0, <1>1, <1>2, <2>1, BoundIs DEF Store
<1>5. /\ store'.messages = [store.messages EXCEPT ![i] = d] /\ store'.status = store.status
      /\ store'.activeLocalId = store.activeLocalId /\ store'.pendingAborts = store.pendingAborts
  BY <1>0, <1>1, <1>3, <1>4 DEF ServerToken, Store, Draft
<1>6. /\ d \in Draft /\ d.id = r /\ d.req = m.req /\ d.text = m.text + 1 /\ d.status = "streaming" /\ Waiting(d)
  BY <1>1 DEF Draft, Statuses, Waiting
<1>8. PICK e : e = d
  OBVIOUS
<1> HIDE DEF d
<1>9. OwnReply(m) /\ Answered(m, 0)
  BY <1>0, <1>1 DEF Known, Hearing
<1>12. Answered(e, 0)'
  BY <1>1, <1>2, <1>6, <1>8, <1>9, Nearer
<1>7. e.text =< text'[r]
  <2>1. e.text \in Nat /\ text'[r] \in Nat /\ Len(down') \in Nat
    BY <1>1, <1>2, <1>6, <1>8 DEF Draft, Typed, ServerTyped
  <2>2. PICK z \in 0 .. 1 : 0 + z =< Len(down') /\ e.text + Len(down') = text'[r] + 0 + z
    BY <1>6, <1>8, <1>12 DEF Answered
  <2> QED BY <2>1, <2>2
<1>10. OwnReply(e)'
  BY <1>1, <1>2, <1>5, <1>6, <1>7, <1>8, <1>9 DEF OwnReply
<1>11. Active(e)'
  BY <1>1, <1>2, <1>5, <1>6, <1>8 DEF Active
<1>13. Known(e)'
  BY <1>6, <1>8, <1>10, <1>11, <1>12 DEF Known, UnderWay, Hearing
<1>14. \A j \in DOMAIN down' : down'[j].req = r
  BY <1>0, <1>2
<1>15. seen'.busy
  BY <1>1, <1>2 DEF Replying, Active
<1> QED BY <1>0, <1>1, <1>2, <1>5, <1>6, <1>8, <1>13, <1>14, <1>15, OneAnswered

(* A new conversation is announced: the draft has yet to hear the rest.    *)
LEMMA DeliveredAhead ==
  ASSUME Typed, Placed, Replying, Deliver, Clean', NEW i \in DOMAIN store.messages,
         \A j \in DOMAIN down : down[j].req = store.messages[i].id,
         down[1].type = "created",
         \/ Refused(store.messages[i]) /\ Len(down) > 1
         \/ Starting(store.messages[i], 2)
  PROVE  Replying'
<1>0. PICK m : m = store.messages[i]
  OBVIOUS
<1>1. /\ m \in Draft /\ store \in Store /\ Known(m) /\ m.status = "pending" /\ Waiting(m) /\ Active(m)
      /\ store.messages \in Seq(Draft)
  BY <1>0, Delivered, DraftAt DEF Replying, Known, Refused, Starting, Waiting
<1>2. /\ Clean /\ UNCHANGED <<seen, via, ws, turn, text>> /\ down' = Tail(down) /\ down \in Seq(Msg) /\ down # <<>>
      /\ store' = store /\ intents' \subseteq intents
  BY <1>0, Delivered DEF Typed, ServerTyped, Reduce
<1>3. Len(down') = Len(down) - 1 /\ \A j \in 1 .. Len(down) - 1 : down'[j] = down[j + 1] /\ j + 1 \in DOMAIN down
  BY <1>2
<1>4. store'.messages = [store.messages EXCEPT ![i] = m]
  BY <1>0, <1>1, <1>2
<1>5. OwnReply(m)' /\ Active(m)'
  BY <1>1, <1>2 DEF OwnReply, Active, Known
<1>6. ASSUME Refused(m), Len(down) > 1 PROVE UnderWay(m)'
  <2>1. down' # <<>> /\ Len(down') \in 1 .. Len(down) - 1 /\ Len(down') + 1 = Len(down)
    BY <1>2, <1>3, <1>6
  <2>2. down'[Len(down')] = down[Len(down)]
    BY <1>3, <2>1
  <2>3. \A j \in 1 .. Len(down') - 1 : down'[j].type = "created"
    <3> TAKE j \in 1 .. Len(down') - 1
    <3>1. j \in 1 .. Len(down) - 1 /\ j + 1 \in 1 .. Len(down) - 1
      BY <2>1
    <3> QED BY <1>3, <1>6, <3>1 DEF Refused, Announcing
  <2>4. Refused(m)'
    BY <1>2, <1>6, <2>1, <2>2, <2>3 DEF Refused, Announcing
  <2> QED BY <2>4 DEF UnderWay
<1>7. ASSUME Starting(m, 2) PROVE UnderWay(m)'
  <2>1. 1 \in 1 .. Len(down) - 1 /\ Len(down) \in Nat
    BY <1>2, <1>7 DEF Starting
  <2>2. down'[1] = down[2] /\ 1 =< Len(down') /\ \A j \in 1 .. 1 - 1 : FALSE
    BY <1>3, <2>1
  <2>3. Answered(m, 1)'
    BY <1>1, <1>2, <1>7, Nearer DEF Starting
  <2>4. Starting(m, 1)'
    BY <1>7, <2>2, <2>3 DEF Starting, Announcing
  <2> QED BY <2>4 DEF UnderWay
<1>8. Known(m)'
  BY <1>0, <1>5, <1>6, <1>7 DEF Known
<1>9. \A j \in DOMAIN down' : down'[j].req = m.id
  BY <1>0, <1>2
<1>10. seen'.busy
  BY <1>1, <1>2 DEF Replying, Active
<1> QED BY <1>0, <1>1, <1>2, <1>4, <1>8, <1>9, <1>10, OneAnswered

(* Whatever is delivered, the replies are still those of their drafts.     *)
LEMMA DeliverReplies == ASSUME Typed, Life, AwaitedHere, Placed, Replying, Deliver, Clean' PROVE Replying'
<1>1. /\ Clean /\ down \in Seq(Msg) /\ down[1] \in Msg /\ 1 \in DOMAIN down /\ Len(down) \in Nat \ {0}
      /\ store' = Reduce(store, down[1]) /\ store \in Store
  BY Delivered, HeadAwaited DEF Typed, StoreTyped
<1>2. PICK i \in DOMAIN store.messages :
        Waiting(store.messages[i]) /\ \A j \in DOMAIN down : down[j].req = store.messages[i].id
  BY <1>1, HeadAwaited
<1>3. PICK m : m = store.messages[i]
  OBVIOUS
<1>4. /\ m \in Draft /\ Known(m) /\ Waiting(m) /\ Active(m) /\ UnderWay(m) /\ down[1].req = m.id
      /\ m.id \in Send /\ None \notin Send /\ turn[m.id] \in Turn /\ text[m.id] \in Nat
  BY <1>1, <1>2, <1>3, DraftAt, WsClientAssumption DEF Replying, Known, Typed, ServerTyped
<1>5. findActiveDraft(store) = i /\ (m.req # None => findDraftByRequestId(store, m.id) = i)
      /\ (m.req = None => findDraftByRequestId(store, m.id) = 0) /\ i # 0
  BY <1>1, <1>2, <1>3, ActiveIs, BoundIs DEF Store
<1>6. CASE Unanswered(m)
  BY <1>1, <1>6 DEF Unanswered
<1>7. CASE Refused(m)
  <2>1. CASE Len(down) = 1
    <3>1. down[1].type \in {"failed", "error"} /\ turn[m.id] = "failed" /\ m.req = None
      BY <1>4, <1>7, <2>1 DEF Refused, Active
    <3>2. store' = EndDraft(store, i, "error")
      BY <1>1, <1>4, <1>5, <3>1 DEF Reduce, ServerFailed, ServerError, Blamed
    <3> QED BY <1>2, <1>3, <2>1, <3>1, <3>2, DeliveredEnd
  <2>2. CASE Len(down) # 1
    <3>0. PICK n \in Nat \ {0} : n = Len(down)
      BY <1>1
    <3>1. 1 \in 1 .. Len(down) - 1 /\ Len(down) > 1
      BY <2>2, <3>0
    <3>2. down[1].type = "created"
      BY <1>7, <3>1 DEF Refused, Announcing
    <3> QED BY <1>2, <1>3, <1>7, <3>1, <3>2, DeliveredAhead
  <2> QED BY <2>1, <2>2
<1>8. ASSUME NEW a \in 1 .. 2, Starting(m, a) PROVE Replying'
  <2>1. CASE a = 1
    BY <1>2, <1>3, <1>8, <2>1, DeliveredStart DEF Starting
  <2>2. CASE a = 2
    <3>1. down[1].type = "created"
      BY <1>8, <2>2 DEF Starting, Announcing
    <3> QED BY <1>2, <1>3, <1>8, <2>2, <3>1, DeliveredAhead
  <2> QED BY <2>1, <2>2
<1>9. CASE Hearing(m)
  <2>1. PICK z \in 0 .. 1 :
          /\ turn[m.id] # "idle" /\ (z = 0 <=> turn[m.id] = "running")
          /\ 0 + z =< Len(down)
          /\ \A j \in 0 + 1 .. Len(down) - z : down[j].type = "token"
          /\ z = 1 => down[Len(down)].type = turn[m.id]
          /\ m.text + Len(down) = text[m.id] + 0 + z
    BY <1>9 DEF Hearing, Answered
  <2>2. m.req # None /\ m.text \in Nat
    BY <1>4, <1>9 DEF Hearing, Active, Draft
  <2>3. CASE z = 1 /\ Len(down) = 1
    <3>1. down[1].type = turn[m.id] /\ turn[m.id] \in {"completed", "failed", "aborted"} /\ m.text = text[m.id]
      BY <1>4, <2>1, <2>2, <2>3 DEF Turn
    <3>2. PICK how \in {"complete", "error", "user"} :
            turn[m.id] = CASE how = "complete" -> "completed" [] how = "error" -> "failed" [] how = "user" -> "aborted"
      BY <3>1
    <3>3. store' = EndDraft(store, i, how)
      BY <1>1, <1>4, <1>5, <2>2, <3>1, <3>2
      DEF Reduce, ServerCompleted, ServerFailed, ServerAborted, Blamed
    <3> QED BY <1>2, <1>3, <2>3, <3>1, <3>2, <3>3, DeliveredEnd
  <2>4. CASE ~ (z = 1 /\ Len(down) = 1)
    <3>1. 1 \in 0 + 1 .. Len(down) - z
      <4>1. z \in {0, 1}
        BY <2>1
      <4>2. PICK n \in Nat \ {0} : n = Len(down)
        BY <1>1
      <4> QED BY <2>4, <4>1, <4>2
    <3> QED BY <1>2, <1>3, <1>9, <2>1, <3>1, DeliveredText
  <2> QED BY <2>3, <2>4
<1> QED BY <1>4, <1>6, <1>7, <1>8, <1>9 DEF UnderWay

-----------------------------------------------------------------------------
(* The server.                                                             *)

(* What is added to what is on its way. *)
LEMMA Behind ==
  ASSUME NEW more \in Seq(Msg), Typed, down' = down \o more
  PROVE  /\ down \in Seq(Msg) /\ Len(down) \in Nat /\ Len(more) \in Nat /\ Len(down') = Len(down) + Len(more)
         /\ down' \in Seq(Msg)
         /\ \A j \in 1 .. Len(down) : down'[j] = down[j]
         /\ \A j \in 1 .. Len(more) : down'[Len(down) + j] = more[j]
         /\ \A j \in DOMAIN down' : (j \in DOMAIN down /\ down'[j] = down[j]) \/ \E l \in DOMAIN more : down'[j] = more[l]
<1>1. down \in Seq(Msg)
  BY DEF Typed, ServerTyped
<1>2. /\ Len(down) \in Nat /\ Len(more) \in Nat /\ Len(down') = Len(down) + Len(more) /\ down' \in Seq(Msg)
      /\ DOMAIN down' = 1 .. Len(down) + Len(more) /\ DOMAIN down = 1 .. Len(down) /\ DOMAIN more = 1 .. Len(more)
  BY <1>1
<1>3. \A j \in 1 .. Len(down) : down'[j] = down[j]
  BY <1>1
<1>4. \A j \in 1 .. Len(more) : down'[Len(down) + j] = more[j]
  BY <1>1
<1>5. ASSUME NEW j \in DOMAIN down', j \notin DOMAIN down PROVE \E l \in DOMAIN more : down'[j] = more[l]
  <2>1. PICK l \in 1 .. Len(more) : j = Len(down) + l
    <3>1. j - Len(down) \in 1 .. Len(more) /\ j = Len(down) + (j - Len(down))
      BY <1>2, <1>5
    <3> QED BY <3>1
  <2> QED BY <1>2, <1>4, <2>1
<1> QED BY <1>1, <1>2, <1>3, <1>4, <1>5

(* What the server says is one message, ... *)
LEMMA SaysOne ==
  ASSUME NEW type, NEW k
  PROVE  Len(Says(type, k)) = 1 /\ Says(type, k)[1].type = type /\ Says(type, k)[1].req = k
BY DEF Says

(* ... or two, ... *)
LEMMA TwoSaid ==
  ASSUME NEW x \in Msg, NEW y \in Msg
  PROVE  /\ <<x>> \o <<y>> \in Seq(Msg) /\ Len(<<x>> \o <<y>>) = 2
         /\ (<<x>> \o <<y>>)[1] = x /\ (<<x>> \o <<y>>)[2] = y
<1>1. <<x>> \in Seq(Msg) /\ <<y>> \in Seq(Msg) /\ Len(<<x>>) = 1 /\ Len(<<y>>) = 1 /\ <<x>>[1] = x /\ <<y>>[1] = y
  OBVIOUS
<1>2. Len(<<x>> \o <<y>>) = Len(<<x>>) + Len(<<y>>) /\ <<x>> \o <<y>> \in Seq(Msg)
  BY <1>1
<1>3. (<<x>> \o <<y>>)[1] = <<x>>[1] /\ (<<x>> \o <<y>>)[2] = <<y>>[2 - Len(<<x>>)]
  BY <1>1, ConcatProperties
<1> QED BY <1>1, <1>2, <1>3

Both(first, k, type) == first \o Says(type, k)

(* ... or one with an optional one before it. *)
LEMMA SaysBoth ==
  ASSUME NEW k \in Send, NEW opening, NEW type, NEW first, Says(opening, k) \in Seq(Msg), Says(type, k) \in Seq(Msg),
         first = <<>> \/ first = Says(opening, k)
  PROVE  /\ Both(first, k, type) \in Seq(Msg) /\ \A l \in DOMAIN Both(first, k, type) : Both(first, k, type)[l].req = k
         /\ Len(Both(first, k, type)) = Len(first) + 1 /\ Both(first, k, type)[Len(first) + 1].type = type
         /\ first = <<>> => Len(first) = 0
         /\ first # <<>> => Len(first) = 1 /\ Both(first, k, type)[1].type = opening
<1>0. PICK x, y : x = [type |-> opening, req |-> k] /\ y = [type |-> type, req |-> k]
  OBVIOUS
<1>1. /\ Says(opening, k) = <<x>> /\ Says(type, k) = <<y>> /\ x.type = opening /\ x.req = k /\ y.type = type /\ y.req = k
  BY <1>0 DEF Says
<1>2. x \in Msg /\ y \in Msg
  BY <1>1
<1>3. CASE first = <<>>
  <2>1. <<>> \o <<y>> = <<y>>
    BY <1>2, ConcatEmptySeq
  <2>2. Both(first, k, type) = <<y>>
    BY <1>1, <1>3, <2>1 DEF Both
  <2>3. Len(first) = 0
    BY <1>3
  <2> QED BY <1>1, <1>2, <1>3, <2>2, <2>3
<1>4. CASE first = Says(opening, k)
  <2>1. PICK both : both = <<x>> \o <<y>>
    OBVIOUS
  <2>2. both \in Seq(Msg) /\ Len(both) = 2 /\ both[1] = x /\ both[2] = y
    BY <1>2, <2>1, TwoSaid
  <2>3. first = <<x>> /\ Both(first, k, type) = both
    BY <1>1, <1>4, <2>1 DEF Both
  <2>4. DOMAIN both = {1, 2} /\ Len(first) = 1 /\ first # <<>>
    BY <2>2, <2>3
  <2> QED BY <1>1, <2>2, <2>3, <2>4
<1> QED BY <1>3, <1>4

(* The answer goes on by a piece of text, ... *)
LEMMA AnswerGoesOn ==
  ASSUME Typed, NEW m \in Draft, NEW a \in Nat, Answered(m, a), turn[m.id] = "running",
         down' = down \o Says("token", m.id), turn'[m.id] = "running", text'[m.id] = text[m.id] + 1
  PROVE  Answered(m, a)'
<1>1. m.id \in Send /\ m.text \in Nat /\ text[m.id] \in Nat
  BY DEF Draft, Typed, ServerTyped
<1>2. Says("token", m.id) \in Seq(Msg) /\ Len(Says("token", m.id)) = 1 /\ Says("token", m.id)[1].type = "token"
  BY <1>1, SaysTyped, SaysOne
<1>3. PICK n \in Nat : n = Len(down)
  BY DEF Typed, ServerTyped
<1>4. Len(down') = n + 1 /\ down'[n + 1].type = "token" /\ \A j \in 1 .. n : down'[j] = down[j]
  BY <1>2, <1>3, Behind
<1>5. a =< n /\ (\A j \in a + 1 .. n : down[j].type = "token") /\ m.text + n = text[m.id] + a
  <2>1. PICK z \in 0 .. 1 :
          /\ (z = 0 <=> turn[m.id] = "running") /\ a + z =< n
          /\ \A j \in a + 1 .. n - z : down[j].type = "token"
          /\ m.text + n = text[m.id] + a + z
    BY <1>3 DEF Answered
  <2> QED BY <1>1, <1>3, <2>1
<1>6. \A j \in a + 1 .. (n + 1) - 0 : down'[j].type = "token"
  <2> TAKE j \in a + 1 .. (n + 1) - 0
  <2>1. j = n + 1 \/ (j \in a + 1 .. n /\ j \in 1 .. n)
    BY <1>3
  <2> QED BY <1>4, <1>5, <2>1
<1>7. a + 0 =< n + 1 /\ m.text + (n + 1) = text'[m.id] + a + 0
  <2>1. PICK u \in Nat, t \in Nat : u = m.text /\ t = text[m.id]
    BY <1>1
  <2>2. a =< n /\ u + n = t + a
    BY <1>5, <2>1
  <2>3. a + 0 =< n + 1 /\ u + (n + 1) = (t + 1) + a + 0
    BY <2>2
  <2> QED BY <2>1, <2>3
<1> QED BY <1>4, <1>6, <1>7 DEF Answered

(* ... or ends, perhaps with a last one. *)
LEMMA AnswerEnds ==
  ASSUME Typed, NEW m \in Draft, NEW a \in Nat, Answered(m, a), turn[m.id] = "running",
         NEW first, first = <<>> \/ first = Says("token", m.id),
         down' = down \o Both(first, m.id, turn'[m.id]), turn'[m.id] \in Ended,
         text'[m.id] = text[m.id] + Len(first)
  PROVE  Answered(m, a)'
<1> DEFINE k == m.id
           more == Both(first, k, turn'[k])
<1>1. k \in Send /\ m.text \in Nat /\ text[k] \in Nat
  BY DEF Draft, Typed, ServerTyped
<1>2. Says("token", k) \in Seq(Msg) /\ Says(turn'[k], k) \in Seq(Msg)
  BY <1>1, SaysTyped DEF Ended
<1>3. PICK f \in 0 .. 1 : f = Len(first) /\ (f = 1 => more[1].type = "token")
  BY <1>1, <1>2, SaysBoth
<1>4. more \in Seq(Msg) /\ Len(more) = f + 1 /\ more[f + 1].type = turn'[k]
  BY <1>1, <1>2, <1>3, SaysBoth
<1>5. PICK n \in Nat : n = Len(down)
  BY DEF Typed, ServerTyped
<1> HIDE DEF more
<1>6. /\ Len(down') = n + (f + 1) /\ \A j \in 1 .. n : down'[j] = down[j]
      /\ \A j \in 1 .. f + 1 : down'[n + j] = more[j]
  BY <1>4, <1>5, Behind DEF more
<1>7. a =< n /\ (\A j \in a + 1 .. n : down[j].type = "token") /\ m.text + n = text[k] + a
  <2>1. PICK z \in 0 .. 1 :
          /\ (z = 0 <=> turn[k] = "running") /\ a + z =< n
          /\ \A j \in a + 1 .. n - z : down[j].type = "token"
          /\ m.text + n = text[k] + a + z
    BY <1>5 DEF Answered
  <2> QED BY <1>1, <1>5, <2>1
<1>8. \A j \in a + 1 .. (n + (f + 1)) - 1 : down'[j].type = "token"
  <2> TAKE j \in a + 1 .. (n + (f + 1)) - 1
  <2>1. (f = 1 /\ j = n + 1) \/ (j \in a + 1 .. n /\ j \in 1 .. n)
    BY <1>3, <1>5
  <2>2. CASE f = 1 /\ j = n + 1
    <3>1. 1 \in 1 .. f + 1
      BY <2>2
    <3> QED BY <1>3, <1>6, <2>2, <3>1
  <2>3. CASE j \in a + 1 .. n /\ j \in 1 .. n
    BY <1>6, <1>7, <2>3
  <2> QED BY <2>1, <2>2, <2>3
<1>9. a + 1 =< n + (f + 1) /\ m.text + (n + (f + 1)) = text'[k] + a + 1
  <2>1. PICK u \in Nat, t \in Nat : u = m.text /\ t = text[k]
    BY <1>1
  <2>2. a =< n /\ u + n = t + a
    BY <1>7, <2>1
  <2>3. a + 1 =< n + (f + 1) /\ u + (n + (f + 1)) = (t + f) + a + 1
    BY <2>2
  <2>4. text'[k] = t + f
    BY <1>3, <2>1
  <2> QED BY <2>1, <2>3, <2>4
<1>10. down'[n + (f + 1)].type = turn'[k]
  BY <1>3, <1>4, <1>6
<1>11. turn'[k] # "idle" /\ turn'[k] # "running"
  BY DEF Ended
<1> QED BY <1>6, <1>8, <1>9, <1>10, <1>11 DEF Answered

(* What is added behind leaves the draft under way. *)
LEMMA GoesOn ==
  ASSUME Typed, NEW m \in Draft, turn[m.id] = "running", UnderWay(m),
         NEW more \in Seq(Msg), down' = down \o more,
         \A a \in Nat : Answered(m, a) => Answered(m, a)'
  PROVE  UnderWay(m)'
<1>1. ~ Unanswered(m) /\ ~ Refused(m)
  BY DEF Unanswered, Refused
<1>2. Len(down) =< Len(down') /\ (\A j \in 1 .. Len(down) : down'[j] = down[j]) /\ Len(down) \in Nat /\ Len(down') \in Nat
  BY Behind
<1>3. CASE Hearing(m)
  BY <1>3 DEF Hearing, UnderWay
<1>4. ASSUME NEW a \in 1 .. 2, Starting(m, a) PROVE Starting(m, a)'
  <2>1. a =< Len(down) /\ a \in 1 .. Len(down) /\ 1 .. a - 1 \subseteq 1 .. Len(down)
    BY <1>2, <1>4 DEF Starting
  <2>2. Announcing(a - 1)'
    BY <1>2, <1>4, <2>1 DEF Starting, Announcing
  <2>3. a =< Len(down')
    BY <1>2, <2>1
  <2> QED BY <1>2, <1>4, <2>1, <2>2, <2>3 DEF Starting
<1> QED BY <1>1, <1>3, <1>4 DEF UnderWay

(* Whom the server answers is awaited. *)
LEMMA HereAwaited ==
  ASSUME Typed, Replying, Clean, NEW k \in Send, Here(k), turn[k] \in {"idle", "running"}
  PROVE  /\ \E i \in DOMAIN store.messages : store.messages[i].id = k /\ Waiting(store.messages[i])
         /\ \A j \in DOMAIN down : down[j].req = k
<1>1. k \in Awaited
  BY DEF Replying, Here, Ended
<1>2. PICK i \in DOMAIN store.messages : store.messages[i].id = k /\ Waiting(store.messages[i])
  BY <1>1, AwaitedAt
<1>3. ASSUME NEW l \in Awaited PROVE l = k
  <2>1. PICK j \in DOMAIN store.messages : store.messages[j].id = l /\ Waiting(store.messages[j])
    BY <1>3, AwaitedAt
  <2>2. Active(store.messages[i]) /\ Active(store.messages[j])
    BY <1>2, <2>1 DEF Replying, Known
  <2> QED BY <1>2, <2>1, <2>2 DEF Active
<1> QED BY <1>2, <1>3 DEF Replying

(* It adds to what is on its way, and the draft is still under way.        *)
LEMMA ServerAdds ==
  ASSUME Typed, Placed, Replying, Clean, Clean', NEW k \in Send, Here(k), turn[k] \in {"idle", "running"},
         UNCHANGED <<store, seen, intents, via, ws>>,
         \A j \in Send \ {k} : turn'[j] = turn[j] /\ text'[j] = text[j],
         text'[k] \in Nat, text[k] =< text'[k],
         NEW more \in Seq(Msg), down' = down \o more, \A l \in DOMAIN more : more[l].req = k,
         \A m \in Draft : m.id = k /\ m.text =< text[k] /\ UnderWay(m) => UnderWay(m)'
  PROVE  Replying'
<1>1. PICK i \in DOMAIN store.messages : store.messages[i].id = k /\ Waiting(store.messages[i])
  BY HereAwaited
<1>2. PICK m : m = store.messages[i]
  OBVIOUS
<1>3. m \in Draft /\ store.messages \in Seq(Draft) /\ Known(m) /\ m.id = k /\ Waiting(m)
  BY <1>1, <1>2, DraftAt DEF Replying
<1>4. Active(m) /\ UnderWay(m) /\ OwnReply(m)
  BY <1>3 DEF Known
<1>5. OwnReply(m)'
  <2>1. m.text \in Nat /\ text[k] \in Nat
    BY <1>3 DEF Draft, Typed, ServerTyped
  <2>2. m.text =< text'[k]
    BY <1>3, <1>4, <2>1 DEF OwnReply
  <2>3. m.status \in {"pending", "streaming"}
    BY <1>3 DEF Waiting
  <2> QED BY <1>3, <1>4, <2>2, <2>3 DEF OwnReply
<1>6. Active(m)'
  BY <1>4 DEF Active
<1>7. UnderWay(m)'
  BY <1>3, <1>4 DEF OwnReply
<1>8. Known(m)'
  BY <1>5, <1>6, <1>7 DEF Known
<1>9. \A j \in DOMAIN down' : down'[j].req = m.id
  BY <1>3, HereAwaited, Behind
<1>10. store'.messages = [store.messages EXCEPT ![i] = m]
  <2>1. store'.messages = store.messages
    OBVIOUS
  <2>2. store.messages = [store.messages EXCEPT ![i] = store.messages[i]]
    BY <1>3
  <2> QED BY <1>2, <2>1, <2>2
<1>11. store'.status # "idle" => seen'.busy
  BY DEF Replying
<1> QED BY <1>1, <1>2, <1>3, <1>8, <1>9, <1>10, <1>11, OneAnswered

(* A refusal, ... *)
LEMMA RefusalReplies ==
  ASSUME Typed, Placed, Replying, Clean, Clean', NEW k \in Send, RefuseSend(k)
  PROVE  Replying'
<1>1. /\ Here(k) /\ turn[k] = "idle" /\ turn' = [turn EXCEPT ![k] = "failed"] /\ UNCHANGED text
      /\ UNCHANGED <<store, seen, intents, via, ws>> /\ down' = down \o Says("error", k)
  BY DEF RefuseSend, Turns!Refuse, Emit, ServerOnly, clientVars, lifeVars, storeVars, userVars
<1>2. Says("error", k) \in Seq(Msg) /\ Len(Says("error", k)) = 1 /\ Says("error", k)[1].type = "error"
      /\ \A l \in DOMAIN Says("error", k) : Says("error", k)[l].req = k
  BY SaysTyped, SaysOne
<1>3. turn \in [Send -> Turn] /\ text \in [Send -> Nat]
  BY DEF Typed, ServerTyped
<1>4. ASSUME NEW m \in Draft, m.id = k, UnderWay(m) PROVE UnderWay(m)'
  <2>1. m.status = "pending" /\ down = <<>>
    BY <1>1, <1>4 DEF UnderWay, Unanswered, Refused, Starting, Hearing, Answered
  <2>2. Len(down) = 0
    BY <2>1
  <2>3. Len(down') = 1 /\ down'[1].type = "error"
    BY <1>1, <1>2, <2>2, Behind
  <2>4. down' # <<>> /\ \A j \in 1 .. Len(down') - 1 : FALSE
    BY <2>3
  <2>5. turn'[k] = "failed"
    BY <1>1, <1>3
  <2> QED BY <1>4, <2>1, <2>3, <2>4, <2>5 DEF UnderWay, Refused, Announcing
<1>5. text'[k] \in Nat /\ text[k] =< text'[k] /\ \A j \in Send \ {k} : turn'[j] = turn[j] /\ text'[j] = text[j]
  BY <1>1, <1>3
<1> QED BY <1>1, <1>2, <1>4, <1>5, ServerAdds

(* ... an answer, ... *)
LEMMA AnswerReplies ==
  ASSUME Typed, Placed, Replying, Clean, Clean', NEW k \in Send, AnswerSend(k)
  PROVE  Replying'
<1>1. PICK type \in {"failed", "started"} :
        /\ IF type = "failed" THEN Turns!Refuse(k) ELSE Turns!Run(k)
        /\ down' = down \o ((IF New(k) THEN Says("created", k) ELSE <<>>) \o Says(type, k))
  BY DEF AnswerSend, Emit
<1>2. /\ Here(k) /\ turn[k] = "idle" /\ UNCHANGED text
      /\ turn' = [turn EXCEPT ![k] = IF type = "failed" THEN "failed" ELSE "running"]
      /\ UNCHANGED <<store, seen, intents, via, ws>>
  BY <1>1 DEF AnswerSend, Turns!Refuse, Turns!Run, ServerOnly, clientVars, lifeVars, storeVars, userVars
<1>3. PICK first : first = IF New(k) THEN Says("created", k) ELSE <<>>
  OBVIOUS
<1>4. PICK more : more = Both(first, k, type)
  OBVIOUS
<1>5. Says("created", k) \in Seq(Msg) /\ Says(type, k) \in Seq(Msg)
  BY SaysTyped
<1>6. PICK f \in 0 .. 1 : f = Len(first) /\ (f = 1 => more[1].type = "created")
  BY <1>3, <1>4, <1>5, SaysBoth
<1>7. more \in Seq(Msg) /\ Len(more) = f + 1 /\ more[f + 1].type = type /\ \A l \in DOMAIN more : more[l].req = k
  BY <1>3, <1>4, <1>5, <1>6, SaysBoth
<1>8. down' = down \o more
  BY <1>1, <1>3, <1>4 DEF Both
<1>9. turn \in [Send -> Turn] /\ text \in [Send -> Nat]
  BY DEF Typed, ServerTyped
<1>10. ASSUME NEW m \in Draft, m.id = k, m.text =< text[k], UnderWay(m) PROVE UnderWay(m)'
  <2>1. m.status = "pending" /\ down = <<>>
    BY <1>2, <1>10 DEF UnderWay, Unanswered, Refused, Starting, Hearing, Answered
  <2>2. down' = more
    BY <1>7, <1>8, <2>1, ConcatEmptySeq
  <2>3. f \in {0, 1} /\ \A j \in 1 .. f : down'[j].type = "created"
    BY <1>6, <2>2
  <2>4. turn'[k] = IF type = "failed" THEN "failed" ELSE "running"
    BY <1>2, <1>9
  <2>5. CASE type = "failed"
    <3>1. down' # <<>> /\ Len(down') - 1 = f
      BY <1>7, <2>2
    <3>2. down'[Len(down')].type = "failed"
      BY <1>7, <2>2, <2>5
    <3> QED BY <1>10, <2>1, <2>3, <2>4, <2>5, <3>1, <3>2 DEF UnderWay, Refused, Announcing
  <2>6. CASE type = "started"
    <3>1. m.text = 0 /\ text'[k] = 0
      BY <1>2, <1>9, <1>10 DEF Placed, Draft
    <3>2. \A j \in (f + 1) + 1 .. Len(down') - 0 : FALSE
      BY <1>7, <2>2, <2>3
    <3>3. (f + 1) + 0 =< Len(down') /\ m.text + Len(down') = text'[k] + (f + 1) + 0
      BY <1>7, <2>2, <2>3, <3>1
    <3>4. Answered(m, f + 1)'
      BY <1>10, <2>4, <2>6, <3>2, <3>3 DEF Answered
    <3>5. f + 1 \in 1 .. 2 /\ (f + 1) - 1 = f /\ f + 1 =< Len(down') /\ down'[f + 1].type = "started"
      BY <1>7, <2>2, <2>3, <2>6
    <3>6. Starting(m, f + 1)'
      BY <2>1, <2>3, <3>4, <3>5 DEF Starting, Announcing
    <3> QED BY <3>5, <3>6 DEF UnderWay
  <2> QED BY <2>5, <2>6
<1>11. text'[k] \in Nat /\ text[k] =< text'[k] /\ \A j \in Send \ {k} : turn'[j] = turn[j] /\ text'[j] = text[j]
  BY <1>2, <1>9
<1> QED BY <1>2, <1>7, <1>8, <1>10, <1>11, ServerAdds

(* ... a piece of text ... *)
LEMMA SpeechReplies ==
  ASSUME Typed, Placed, Replying, Clean, Clean', NEW k \in Send, SpeakTurn(k)
  PROVE  Replying'
<1>1. /\ Here(k) /\ turn[k] = "running" /\ UNCHANGED turn /\ text' = [text EXCEPT ![k] = @ + 1]
      /\ UNCHANGED <<store, seen, intents, via, ws>> /\ down' = down \o Says("token", k)
  BY DEF SpeakTurn, Turns!Speak, Emit, ServerOnly, clientVars, lifeVars, storeVars, userVars
<1>2. Says("token", k) \in Seq(Msg) /\ \A l \in DOMAIN Says("token", k) : Says("token", k)[l].req = k
  BY SaysTyped, SaysOne
<1>3. turn \in [Send -> Turn] /\ text \in [Send -> Nat]
  BY DEF Typed, ServerTyped
<1>4. text[k] \in Nat /\ text'[k] = text[k] + 1 /\ turn'[k] = "running"
  BY <1>1, <1>3
<1>5. ASSUME NEW m \in Draft, m.id = k, UnderWay(m) PROVE UnderWay(m)'
  <2>1. \A a \in Nat : Answered(m, a) => Answered(m, a)'
    BY <1>1, <1>4, <1>5, AnswerGoesOn
  <2> QED BY <1>1, <1>2, <1>5, <2>1, GoesOn
<1>6. text'[k] \in Nat /\ text[k] =< text'[k] /\ \A j \in Send \ {k} : turn'[j] = turn[j] /\ text'[j] = text[j]
  BY <1>1, <1>3, <1>4
<1> QED BY <1>1, <1>2, <1>5, <1>6, ServerAdds

(* ... and the end of the turn reach the draft in order. *)
LEMMA EndReplies ==
  ASSUME Typed, Placed, Replying, Clean, Clean', NEW k \in Send, EndOfTurn(k)
  PROVE  Replying'
<1>1. /\ Here(k) /\ turn[k] = "running" /\ UNCHANGED <<store, seen, intents, via, ws>>
      /\ down' = down \o ((IF text' = text THEN <<>> ELSE Says("token", k)) \o Says(turn'[k], k))
      /\ \E how \in Ended : turn' = [turn EXCEPT ![k] = how]
      /\ text' = text \/ text' = [text EXCEPT ![k] = @ + 1]
  BY DEF EndOfTurn, Turns!EndTurn, Emit, ServerOnly, clientVars, lifeVars, storeVars, userVars, Ended
<1>2. turn \in [Send -> Turn] /\ text \in [Send -> Nat] /\ text[k] \in Nat
  BY DEF Typed, ServerTyped
<1>3. PICK first : first = IF text' = text THEN <<>> ELSE Says("token", k)
  OBVIOUS
<1>4. Len(<<>>) = 0 /\ Len(Says("token", k)) = 1
  BY SaysOne
<1>5. turn'[k] \in Ended /\ text'[k] = text[k] + Len(first)
  <2>1. turn'[k] \in Ended
    BY <1>1, <1>2
  <2>2. CASE text' = text
    <3>1. Len(first) = 0
      BY <1>3, <1>4, <2>2
    <3> QED BY <1>2, <2>1, <2>2, <3>1
  <2>3. CASE text' # text
    <3>1. Len(first) = 1 /\ text'[k] = text[k] + 1
      BY <1>1, <1>2, <1>3, <1>4, <2>3
    <3> QED BY <2>1, <3>1
  <2> QED BY <2>2, <2>3
<1>6. PICK how, more : how = turn'[k] /\ more = Both(first, k, how)
  OBVIOUS
<1>7. Says("token", k) \in Seq(Msg) /\ Says(how, k) \in Seq(Msg)
  BY <1>5, <1>6, SaysTyped DEF Ended
<1>8. more \in Seq(Msg) /\ (\A l \in DOMAIN more : more[l].req = k) /\ down' = down \o more /\ Len(first) \in Nat
  <2>1. first = <<>> \/ first = Says("token", k)
    BY <1>3
  <2>0. Both(first, k, how) \in Seq(Msg) /\ \A l \in DOMAIN Both(first, k, how) : Both(first, k, how)[l].req = k
    BY <1>7, <2>1, SaysBoth
  <2>2. more \in Seq(Msg) /\ (\A l \in DOMAIN more : more[l].req = k)
    BY <1>6, <2>0
  <2>3. down' = down \o more
    BY <1>1, <1>3, <1>6 DEF Both
  <2>4. Len(first) \in Nat
    BY <1>3, <1>4
  <2> QED BY <2>2, <2>3, <2>4
<1>9. ASSUME NEW m \in Draft, m.id = k, UnderWay(m) PROVE UnderWay(m)'
  <2>1. ASSUME NEW a \in Nat, Answered(m, a) PROVE Answered(m, a)'
    BY <1>1, <1>3, <1>5, <1>6, <1>8, <1>9, <2>1, AnswerEnds
  <2> QED BY <1>1, <1>8, <1>9, <2>1, GoesOn
<1>10. text'[k] \in Nat /\ text[k] =< text'[k] /\ \A j \in Send \ {k} : turn'[j] = turn[j] /\ text'[j] = text[j]
  BY <1>1, <1>2, <1>5, <1>8
<1> QED BY <1>1, <1>8, <1>9, <1>10, ServerAdds

-----------------------------------------------------------------------------
(* Where sends are placed.                                                 *)

(* The same drafts, by their ids, and nothing new from the server.         *)
LEMMA SamePlaces ==
  ASSUME Typed, Placed, UNCHANGED <<via, turn, text>>, \A s \in Socket : phase[s] # "unused" => phase'[s] # "unused",
         \/ Follows(store, store')
         \/ store' = initialChatState
  PROVE  Placed'
<1>1. \A k \in Send : via[k] # None => phase'[via[k]] # "unused"
  BY DEF Typed, ServerTyped, Placed
<1>2. CASE Follows(store, store')
  <2>1. DOMAIN store'.messages = DOMAIN store.messages
        /\ \A i \in DOMAIN store.messages : store'.messages[i].id = store.messages[i].id
    BY <1>2 DEF Follows
  <2> QED BY <1>1, <2>1 DEF Placed
<1>3. CASE store' = initialChatState
  <2>1. DOMAIN store'.messages = {}
    BY <1>3, EmptyStore
  <2> QED BY <1>1, <2>1 DEF Placed
<1> QED BY <1>2, <1>3

(* Every step keeps them so. *)
LEMMA PlacedKept == ASSUME Typed, Life, Placed, Next PROVE Placed'
<1> USE DEF lifeVars, clientVars, serverVars, userVars
<1>0. /\ via \in [Send -> Socket \cup {None}] /\ turn \in [Send -> Turn] /\ text \in [Send -> Nat]
      /\ ws \in Socket \cup {None} /\ phase \in [Socket -> Phases] /\ None \notin Socket /\ store \in Store
  BY WsClientAssumption DEF Typed, ServerTyped, StoreTyped, Life, LifeTyped
<1>1. \A s \in Socket : phase[s] # "unused" => phase'[s] # "unused"
  <2>1. LifeSteps
    BY NextLives
  <2> QED BY <1>0, <2>1 DEF LifeSteps, Dispose, Connect, OpenSocket, SocketOpens, ReconnectFires, SocketCloses
<1>2. ASSUME NEW k \in Send, UserSends(k) PROVE Placed'
  <2>1. /\ store' = SendUser(store, k) /\ via' = [via EXCEPT ![k] = ws] /\ via[k] = None /\ ws # None
        /\ UNCHANGED <<turn, text, phase>> /\ clientState = "open"
    <3>1. k \in Nat
      BY WsClientAssumption
    <3>2. via[k] = None
      BY <1>2, <3>1 DEF UserSends
    <3> QED BY <1>2, <3>2 DEF UserSends, DispatchNow, CanSend
  <2>2. phase[ws] # "unused"
    BY <2>1 DEF Life, Lines
  <2>3. PICK d : d = [id |-> k, req |-> None, status |-> "pending", text |-> 0]
    OBVIOUS
  <2>4. store'.messages = Append(store.messages, d) /\ d.id = k
    BY <1>0, <2>1, <2>3, OtherStores
  <2>5. store.messages \in Seq(Draft)
    BY <1>0 DEF Store
  <2>6. /\ DOMAIN store'.messages = DOMAIN store.messages \cup {Len(store.messages) + 1}
        /\ store'.messages[Len(store.messages) + 1].id = k
        /\ \A i \in DOMAIN store.messages :
             store'.messages[i] = store.messages[i] /\ store.messages[i].id # k /\ store.messages[i].id \in Send
             /\ i # Len(store.messages) + 1
    <3>1. \A i \in DOMAIN store.messages : store.messages[i].id # k /\ store.messages[i].id \in Send
      BY <2>1, DraftAt DEF Placed
    <3>2. DOMAIN store'.messages = 1 .. Len(store.messages) + 1 /\ DOMAIN store.messages = 1 .. Len(store.messages)
          /\ Len(store.messages) \in Nat
      BY <2>4, <2>5
    <3> QED BY <2>4, <2>5, <3>1, <3>2
  <2>7. \A j \in Send : via'[j] = IF j = k THEN ws ELSE via[j]
    BY <1>0, <2>1
  <2> QED BY <2>1, <2>2, <2>6, <2>7 DEF Placed
<1>3. ASSUME NEW k \in Send, Server(k) PROVE Placed'
  <2>1. via[k] # None /\ UNCHANGED <<store, via, phase>>
    BY <1>3 DEF Server, Progress, RefuseSend, AnswerSend, SpeakTurn, EndOfTurn, FallSilent, Here, ServerOnly, storeVars
  <2>2. /\ \A j \in Send \ {k} : turn'[j] = turn[j] /\ text'[j] = text[j]
        /\ turn'[k] # "idle"
    <3>1. Turns!Refuse(k) \/ Turns!Run(k) \/ Turns!Speak(k) \/ Turns!EndTurn(k) \/ FallSilent(k)
      BY <1>3 DEF Server, Progress, RefuseSend, AnswerSend, SpeakTurn, EndOfTurn, FallSilent
    <3>2. CASE Turns!Refuse(k)
      BY <1>0, <3>2 DEF Turns!Refuse
    <3>3. CASE Turns!Run(k)
      BY <1>0, <3>3 DEF Turns!Run
    <3>4. CASE Turns!Speak(k)
      BY <1>0, <3>4 DEF Turns!Speak
    <3>5. CASE Turns!EndTurn(k)
      BY <1>0, <3>5 DEF Turns!EndTurn
    <3>6. CASE FallSilent(k)
      BY <3>6 DEF FallSilent
    <3> QED BY <3>1, <3>2, <3>3, <3>4, <3>5, <3>6
  <2> QED BY <2>1, <2>2 DEF Placed
<1> SUFFICES ASSUME \A k \in Send : ~ UserSends(k) /\ ~ Server(k) PROVE Placed'
  BY <1>2, <1>3
<1>4. Follows(store, store') \/ store' = initialChatState
  BY Dispatched
<1>5. UNCHANGED <<via, turn, text>>
  BY DEF Next, Render, Deliver, Unmount, UserStops, StartChat, Abort, Mount, SocketEvent, SocketLost,
         OpenConversation, HistoryArrives
<1> QED BY <1>1, <1>4, <1>5, SamePlaces

-----------------------------------------------------------------------------
(* The user and the socket.                                                *)

(* Nobody is awaited: nothing is on its way. *)
LEMMA NobodyWaits ==
  ASSUME Typed, Replying, Clean, Awaited = {}
  PROVE  /\ down = <<>> /\ DOMAIN down = {}
         /\ \A i \in DOMAIN store.messages : ~ Waiting(store.messages[i])
         /\ \A k \in Send : via[k] # None /\ via[k] = ws => turn[k] \in Ended
<1>1. down \in Seq(Msg)
  BY DEF Typed, ServerTyped
<1>2. \A j \in DOMAIN down : FALSE
  BY DEF Replying
<1>3. down = <<>> /\ DOMAIN down = {}
  <2>1. PICK n \in Nat : n = Len(down) /\ DOMAIN down = 1 .. n
    BY <1>1
  <2>2. n = 0
    <3>1. 1 \notin 1 .. n
      BY <1>2, <2>1
    <3> QED BY <3>1
  <2> QED BY <1>1, <2>1, <2>2
<1>4. \A i \in DOMAIN store.messages : ~ Waiting(store.messages[i])
  BY AwaitedAt
<1> QED BY <1>3, <1>4 DEF Replying

(* What neither the drafts nor the turns are part of. *)
LEMMA SameReplies ==
  ASSUME Replying, Clean, UNCHANGED <<store, seen, intents, down, via, ws, turn, text>>
  PROVE  Replying'
<1>1. Awaited' = Awaited
  BY DEF Awaited, Drafts
<1>2. ASSUME NEW i \in DOMAIN store.messages PROVE Known(store.messages[i])'
  <2>1. Known(store.messages[i])
    BY <1>2 DEF Replying
  <2> QED BY <2>1
      DEF Known, OwnReply, Active, UnderWay, Unanswered, Refused, Starting, Hearing, Answered, Announcing
<1> QED BY <1>1, <1>2 DEF Replying

(* A thread without awaited drafts is left. *)
LEMMA LeftReplies ==
  ASSUME Typed, Replying, Clean, Awaited = {}, store' = initialChatState, UNCHANGED <<down, via, ws, turn>>
  PROVE  Replying'
<1>1. DOMAIN store'.messages = {} /\ store'.status = "idle"
  BY EmptyStore DEF initialChatState
<1>2. DOMAIN down' = {}
  BY NobodyWaits
<1> QED BY <1>1, <1>2, NobodyWaits DEF Replying

(* The page is rendered, with more intents to abort or the same.           *)
LEMMA RenderReplies ==
  ASSUME Typed, Placed, Replying, Clean, Clean', seen' = View(store'),
         store'.messages = store.messages, store'.activeLocalId = store.activeLocalId, store'.status = store.status,
         store.pendingAborts \subseteq store'.pendingAborts, intents' \subseteq intents \cup store'.pendingAborts,
         UNCHANGED <<down, via, ws, turn, text>>
  PROVE  Replying'
<1>1. store'.status # "idle" => seen'.busy
  BY DEF View
<1>2. Awaited' = Awaited
  BY DEF Awaited, Drafts
<1>3. ASSUME NEW i \in DOMAIN store'.messages PROVE Known(store.messages[i])'
  <2>1. PICK m : m = store.messages[i] /\ m = store'.messages[i]
    OBVIOUS
  <2>2. Known(m)
    BY <2>1 DEF Replying
  <2>3. OwnReply(m)'
    BY <2>2 DEF Known, OwnReply
  <2>4. ASSUME m.status = "pending" PROVE seen'.pending = m.id
    <3>1. findPendingAssistantDraft(store) = i /\ i # 0
      BY <2>1, <2>4, PendingIs, DraftAt
    <3>2. findPendingAssistantDraft(store') = findPendingAssistantDraft(store)
      BY DEF findPendingAssistantDraft, Find
    <3> QED BY <2>1, <3>1, <3>2 DEF View
  <2>5. Active(m) => Active(m)'
    BY <2>4 DEF Active
  <2>6. UnderWay(m) => UnderWay(m)'
    BY DEF UnderWay, Unanswered, Refused, Starting, Hearing, Answered, Announcing
  <2>7. Known(m)'
    BY <2>2, <2>3, <2>5, <2>6 DEF Known, Waiting
  <2>8. Known(m)' => Known(store.messages[i])'
    BY <2>1 DEF Known, OwnReply, Active, UnderWay, Unanswered, Refused, Starting, Hearing, Answered, Announcing
  <2> QED BY <2>7, <2>8
<1> QED BY <1>1, <1>2, <1>3 DEF Replying

(* A stop that does not cross the end of its turn. *)
LEMMA StopReplies ==
  ASSUME Typed, Placed, Replying, Clean, Clean', Abort, store' = AbortedStore, seen' = View(store')
  PROVE  Replying'
<1>1. UNCHANGED <<down, via, ws, turn, text>>
  BY DEF Abort, WriteAbort, WriteNothing, Clean, lifeVars, serverVars
<1>2. store \in Store /\ seen.activeLocalId \in Send \cup {None}
  BY DEF Typed, StoreTyped, Seen
<1>3. CASE AbortsLater
  <2>1. store' = [store EXCEPT !.pendingAborts = @ \cup {seen.activeLocalId}] /\ intents' = intents \cup {seen.activeLocalId}
    BY <1>3 DEF AbortedStore, AbortBeforeStarted, Abort, AbortPending
  <2>2. /\ store'.messages = store.messages /\ store'.activeLocalId = store.activeLocalId
        /\ store'.status = store.status /\ store'.pendingAborts = store.pendingAborts \cup {seen.activeLocalId}
    BY <1>2, <2>1 DEF Store
  <2> QED BY <1>1, <2>1, <2>2, RenderReplies
<1>4. CASE ~ AbortsLater
  <2>1. store' = store /\ intents' = intents
    BY <1>4 DEF AbortedStore, Abort
  <2> QED BY <1>1, <2>1, RenderReplies
<1> QED BY <1>3, <1>4

(* A send: its draft is the one awaited, and the server has yet to answer. *)
LEMMA SendReplies ==
  ASSUME Typed, Placed, Replying, Clean, Clean', NEW k \in Send, UserSends(k)
  PROVE  Replying'
<1> DEFINE M == store.messages
           n == Len(M)
<1>0. /\ store \in Store /\ M \in Seq(Draft) /\ n \in Nat /\ DOMAIN M = 1 .. n
      /\ via \in [Send -> Socket \cup {None}] /\ None \notin Send
  <2>1. store \in Store /\ via \in [Send -> Socket \cup {None}]
    BY DEF Typed, StoreTyped, ServerTyped
  <2>2. M \in Seq(Draft)
    BY <2>1 DEF Store
  <2>3. n \in Nat /\ DOMAIN M = 1 .. n
    BY <2>2
  <2>4. None \notin Send
    BY WsClientAssumption
  <2> HIDE DEF M, n
  <2> QED BY <2>1, <2>2, <2>3, <2>4
<1>1. /\ ~ seen.busy /\ store' = SendUser(store, k) /\ seen' = View(store') /\ via' = [via EXCEPT ![k] = ws]
      /\ UNCHANGED <<down, ws, turn, text, intents>> /\ via[k] = None
  <2>1. k \in Nat
    BY WsClientAssumption
  <2>2. via[k] = None
    BY <2>1 DEF UserSends
  <2> QED BY <2>2 DEF UserSends, DispatchNow, clientVars, lifeVars
<1>2. Awaited = {}
  <2>1. store.status = "idle"
    BY <1>1 DEF Replying
  <2>2. \A i \in DOMAIN M : ~ Waiting(M[i])
    BY <2>1 DEF Replying, Known, Active
  <2> QED BY <2>2 DEF Awaited, Drafts
<1>3. PICK d : d = [id |-> k, req |-> None, status |-> "pending", text |-> 0]
  OBVIOUS
<1>4. store'.messages = Append(M, d) /\ store'.activeLocalId = k /\ store'.status = "sending"
  BY <1>0, <1>1, <1>3, OtherStores DEF SendUser, Store
<1>5. /\ d.id = k /\ d.req = None /\ d.status = "pending" /\ d.text = 0 /\ Waiting(d)
  BY <1>3 DEF Waiting
<1>6. /\ Len(store'.messages) = n + 1 /\ DOMAIN store'.messages = 1 .. n + 1 /\ store'.messages[n + 1] = d
      /\ \A i \in 1 .. n : store'.messages[i] = M[i] /\ ~ Waiting(M[i])
  <2>1. \A i \in 1 .. n : ~ Waiting(M[i])
    BY <1>0, <1>2, AwaitedAt
  <2> HIDE DEF n
  <2> QED BY <1>0, <1>4, <2>1 DEF n
<1> HIDE DEF M, n
<1>7. seen'.pending = k
  <2>1. findPendingAssistantDraft(store') = n + 1
    <3>1. \A j \in 1 .. n + 1 : store'.messages[j].status = "pending" => j = n + 1
      <4> TAKE j \in 1 .. n + 1
      <4>1. j = n + 1 \/ j \in 1 .. n
        BY <1>0
      <4> QED BY <1>6, <4>1 DEF Waiting
    <3>2. n + 1 \in Nat /\ n + 1 \in 1 .. n + 1
      BY <1>0
    <3> QED BY <1>5, <1>6, <3>1, <3>2, PendingOnly
  <2>2. n + 1 # 0
    BY <1>0
  <2> QED BY <1>1, <1>5, <1>6, <2>1, <2>2 DEF View
<1>8. store'.status # "idle" => seen'.busy
  BY <1>1 DEF View
<1>9. turn[k] = "idle" /\ text[k] = 0 /\ down = <<>> /\ DOMAIN down = {}
  BY <1>1, <1>2, NobodyWaits DEF Placed
<1>10. Known(d)'
  <2>1. OwnReply(d)'
    BY <1>1, <1>5, <1>9 DEF OwnReply
  <2>2. Active(d)'
    BY <1>4, <1>5, <1>7 DEF Active
  <2>3. Unanswered(d)'
    BY <1>1, <1>5, <1>9 DEF Unanswered
  <2> QED BY <2>1, <2>2, <2>3 DEF Known, UnderWay
<1>11. ASSUME NEW i \in DOMAIN store'.messages PROVE Known(store.messages[i])'
  <2>1. PICK m : m = store'.messages[i]
    OBVIOUS
  <2>2. CASE i = n + 1
    BY <1>6, <1>10, <2>1, <2>2
    DEF Known, OwnReply, Active, UnderWay, Unanswered, Refused, Starting, Hearing, Answered, Announcing
  <2>3. CASE i # n + 1
    <3>1. i \in 1 .. n
      BY <1>0, <1>6, <2>3
    <3>2. m = M[i] /\ ~ Waiting(m) /\ OwnReply(m)
      BY <1>0, <1>6, <2>1, <3>1 DEF Replying, Known, M
    <3>3. OwnReply(m)'
      BY <1>1, <3>2 DEF OwnReply, Waiting
    <3>4. Known(m)'
      BY <3>2, <3>3 DEF Known
    <3> QED BY <2>1, <3>4
        DEF Known, OwnReply, Active, UnderWay, Unanswered, Refused, Starting, Hearing, Answered, Announcing
  <2> QED BY <2>2, <2>3
<1>12. k \in Awaited'
  <2>1. n + 1 \in DOMAIN store'.messages
    BY <1>0, <1>6
  <2> QED BY <1>5, <1>6, <2>1 DEF Awaited, Drafts, Waiting
<1>13. \A j \in Send : via'[j] # None /\ via'[j] = ws' => j \in Awaited' \/ turn'[j] \in Ended
  BY <1>0, <1>1, <1>2, <1>12, NobodyWaits
<1>14. \A j \in DOMAIN down' : down'[j].req \in Awaited'
  BY <1>1, <1>9
<1> QED BY <1>8, <1>11, <1>13, <1>14 DEF Replying

(* A socket that begins or opens: nobody is awaited. *)
LEMMA SocketReplies ==
  ASSUME Typed, AwaitedHere, Placed, Replying, Clean, Clean', clientState # "open",
         UNCHANGED <<store, seen, intents, down, via, turn, text>>, ws' = ws \/ phase[ws'] = "unused"
  PROVE  Replying'
<1>1. Awaited = {}
  BY DEF AwaitedHere, Clean
<1>2. DOMAIN down' = {} /\ \A i \in DOMAIN store.messages : ~ Waiting(store.messages[i])
  BY <1>1, NobodyWaits
<1>3. ASSUME NEW i \in DOMAIN store.messages PROVE Known(store.messages[i])'
  <2>1. Known(store.messages[i]) /\ ~ Waiting(store.messages[i])
    BY <1>2 DEF Replying
  <2> QED BY <2>1 DEF Known, OwnReply, Waiting
<1>4. ASSUME NEW k \in Send, via'[k] # None, via'[k] = ws' PROVE turn'[k] \in Ended
  <2>1. phase[via[k]] # "unused"
    BY <1>4 DEF Placed
  <2>2. ws' = ws
    BY <1>4, <2>1
  <2> QED BY <1>1, <1>4, <2>2, NobodyWaits
<1>5. store'.status # "idle" => seen'.busy
  BY DEF Replying
<1> QED BY <1>2, <1>3, <1>4, <1>5 DEF Replying

(* A socket that is lost: whoever was awaited is cut.                      *)
LEMMA LossReplies ==
  ASSUME Typed, Life, AwaitedHere, Placed, Replying, Clean, Clean',
         NEW s \in Socket, NEW code \in CloseCode, SocketLost(s, code)
  PROVE  Replying'
<1> DEFINE M == store.messages
<1>0. store \in Store /\ M \in Seq(Draft)
  BY DEF Typed, StoreTyped, Store
<1>1. /\ UNCHANGED <<seen, via, turn, text, intents>> /\ ws' = None /\ down' = <<>>
      /\ store' = IF WasStreaming THEN ConnectionLost(store) ELSE store
  BY DEF SocketLost, SocketCloses, Dispatch, storeVars, serverVars, userVars
<1>2. /\ DOMAIN store'.messages = DOMAIN M
      /\ \A i \in DOMAIN M :
           /\ ~ Waiting(store'.messages[i])
           /\ store'.messages[i] = M[i] \/ store'.messages[i] = [M[i] EXCEPT !.status = "network"]
      /\ store'.status # "idle" => store.status # "idle"
  <2>1. CASE WasStreaming
    <3>1. store' = ConnectionLost(store)
      BY <1>1, <2>1
    <3>2. PICK idle : idle = clearActive(store)
      OBVIOUS
    <3>3. idle \in Store /\ idle.messages = M /\ idle.status = "idle"
      BY <1>0, <3>2, Cleared DEF clearActive, Store
    <3>4. store' = [idle EXCEPT !.pendingAborts = {}, !.messages = [i \in DOMAIN idle.messages |-> Cut(idle.messages[i])]]
      BY <3>1, <3>2 DEF ConnectionLost
    <3>5. store'.messages = [i \in DOMAIN M |-> Cut(M[i])] /\ store'.status = "idle"
      BY <3>3, <3>4 DEF Store
    <3>6. \A i \in DOMAIN M :
            ~ Waiting(Cut(M[i])) /\ (Cut(M[i]) = M[i] \/ Cut(M[i]) = [M[i] EXCEPT !.status = "network"])
      <4> TAKE i \in DOMAIN M
      <4>1. M[i] \in Draft
        BY <1>0
      <4> QED BY <4>1 DEF Cut, Waiting, Draft, Statuses
    <3> HIDE DEF M
    <3> QED BY <3>5, <3>6
  <2>2. CASE ~ WasStreaming
    <3>1. Awaited = {}
      BY <2>2 DEF AwaitedHere, WasStreaming, Clean
    <3>2. store' = store
      BY <1>1, <2>2
    <3> QED BY <3>1, <3>2, NobodyWaits
  <2> QED BY <2>1, <2>2
<1>3. ASSUME NEW i \in DOMAIN store'.messages PROVE Known(store.messages[i])'
  <2>1. PICK m, d : m = M[i] /\ d = store'.messages[i]
    OBVIOUS
  <2>2. OwnReply(m) /\ m \in Draft /\ ~ Waiting(d) /\ (d = m \/ d = [m EXCEPT !.status = "network"])
    <3>1. i \in DOMAIN M
      BY <1>2
    <3>2. M[i] \in Draft
      BY <1>0, <3>1
    <3>3. Known(M[i])
      BY <3>1 DEF Replying
    <3> HIDE DEF M
    <3> QED BY <1>2, <2>1, <3>1, <3>2, <3>3 DEF Known
  <2>3. OwnReply(d)'
    <3>1. CASE d = m
      BY <1>1, <2>2, <3>1 DEF OwnReply, Waiting
    <3>2. CASE d # m
      <4>1. d.id = m.id /\ d.req = m.req /\ d.text = m.text /\ d.status = "network"
        BY <2>2, <3>2 DEF Draft
      <4> QED BY <1>1, <2>2, <4>1 DEF OwnReply
    <3> QED BY <3>1, <3>2
  <2> QED BY <2>1, <2>2, <2>3 DEF Known, OwnReply, Waiting
<1>4. DOMAIN down' = {}
  BY <1>1
<1>5. \A k \in Send : ~ (via'[k] # None /\ via'[k] = ws')
  BY <1>1
<1>6. store'.status # "idle" => seen'.busy
  BY <1>1, <1>2 DEF Replying
<1> QED BY <1>3, <1>4, <1>5, <1>6 DEF Replying

(* A clean page was clean before. *)
LEMMA CleanBefore == ASSUME Next, Clean' PROVE Clean /\ ~ Unmount
<1> USE DEF clientVars, lifeVars, screenVars, storeVars, serverVars, userVars
<1>1. ~ Unmount
  BY DEF Unmount, Dispose, Clean
<1>2. disposed => disposed'
  BY NextLives DEF LifeSteps, Dispose, Connect, SocketOpens, ReconnectFires, SocketCloses
<1>3. strayed => strayed'
  BY <1>1 DEF Next, Render, Deliver, UserStops, StartChat, Mount, SocketEvent, SocketLost, UserSends, Server,
              Progress, RefuseSend, AnswerSend, SpeakTurn, EndOfTurn, FallSilent, ServerOnly, OpenConversation, HistoryArrives, LoadThread
<1>4. crossed => crossed'
  BY <1>1 DEF Next, Render, Deliver, UserStops, StartChat, Abort, WriteAbort, WriteNothing, Mount, SocketEvent,
              SocketLost, UserSends, Server, Progress, RefuseSend, AnswerSend, SpeakTurn, EndOfTurn, FallSilent, ServerOnly,
              OpenConversation, HistoryArrives
<1> QED BY <1>1, <1>2, <1>3, <1>4 DEF Clean

(* Every step leaves every reply with its draft.                           *)
LEMMA RepliesKept == ASSUME Typed, Life, AwaitedHere, Placed, Replying, Next PROVE Replying'
<1> USE DEF clientVars, lifeVars, screenVars, storeVars, serverVars, userVars
<1> SUFFICES ASSUME Clean' PROVE Replying'
  BY DEF Replying
<1>0. Clean /\ ~ Unmount
  BY CleanBefore
<1>1. CASE Render
  BY <1>0, <1>1, RenderReplies DEF Render
<1>2. CASE Deliver
  BY <1>2, DeliverReplies
<1>3. CASE UserStops
  BY <1>0, <1>3, StopReplies DEF UserStops, DispatchNow
<1>4. CASE StartChat
  <2>1. UNCHANGED <<down, via, ws, turn>> /\ Awaited = {} /\ store' = initialChatState
    BY <1>4 DEF StartChat, LoadThread, LoadHistory, DispatchNow, Abort, WriteAbort, WriteNothing, Clean
  <2> QED BY <1>0, <2>1, LeftReplies
<1>5. ASSUME NEW s \in Socket, Mount(s) PROVE Replying'
  BY <1>0, <1>5, SocketReplies DEF Mount, Connect, OpenSocket
<1>6. ASSUME NEW s \in Socket, SocketEvent(s) PROVE Replying'
  <2>1. UNCHANGED <<store, seen, intents, down, via, turn, text>>
    BY <1>6 DEF SocketEvent, SocketOpens, ReconnectFires
  <2>2. clientState # "open" /\ (ws' = ws \/ phase[ws'] = "unused")
    BY <1>6 DEF SocketEvent, SocketOpens, ReconnectFires, OpenSocket, Life, Lines
  <2> QED BY <1>0, <2>1, <2>2, SocketReplies
<1>7. ASSUME NEW s \in Socket, NEW code \in CloseCode, SocketLost(s, code) PROVE Replying'
  BY <1>0, <1>7, LossReplies
<1>8. ASSUME NEW k \in Send, UserSends(k) PROVE Replying'
  BY <1>0, <1>8, SendReplies
<1>9. ASSUME NEW k \in Send, Server(k) PROVE Replying'
  <2>1. FallSilent(k) => Replying'
    BY <1>0, SameReplies DEF FallSilent, ServerOnly
  <2> QED BY <1>0, <1>9, <2>1, RefusalReplies, AnswerReplies, SpeechReplies, EndReplies DEF Server, Progress
<1>10. ASSUME NEW c \in Conv, OpenConversation(c) PROVE Replying'
  BY <1>0, <1>10, StopReplies DEF OpenConversation, DispatchNow
<1>11. ASSUME NEW c \in Conv, HistoryArrives(c) PROVE Replying'
  <2>1. CASE StillOpen(c)
    <3>1. UNCHANGED <<down, via, ws, turn>> /\ Awaited = {} /\ store' = initialChatState
      BY <1>11, <2>1 DEF HistoryArrives, LoadThread, LoadHistory, Dispatch, Clean
    <3> QED BY <1>0, <3>1, LeftReplies
  <2>2. CASE ~ StillOpen(c)
    BY <1>0, <1>11, <2>2, SameReplies DEF HistoryArrives
  <2> QED BY <2>1, <2>2
<1> QED BY <1>0, <1>1, <1>2, <1>3, <1>4, <1>5, <1>6, <1>7, <1>8, <1>9, <1>10, <1>11 DEF Next

(* What was left stays empty. *)
LEMMA ForgottenKept == ASSUME Typed, Life, Forgotten, Next PROVE Forgotten'
<1> SUFFICES ASSUME disposed' PROVE store'.messages = <<>>
  BY DEF Forgotten
<1>1. CASE Unmount
  BY <1>1, EmptyStore DEF Unmount, DispatchNow
<1>2. CASE ~ Unmount
  <2>1. disposed
    BY <1>2, NextLives
    DEF LifeSteps, Connect, SocketOpens, ReconnectFires, SocketCloses, lifeVars, Next, Render, Deliver, UserStops, StartChat,
        Abort, Mount, SocketEvent, SocketLost, UserSends, Server, Progress, RefuseSend, AnswerSend, SpeakTurn, EndOfTurn, FallSilent,
        ServerOnly, OpenConversation, HistoryArrives, clientVars
  <2>2. clientState = "permanent-closed" /\ store.messages = <<>>
    BY <2>1 DEF Life, Lines, Forgotten
  <2>3. \A k \in Send : ~ UserSends(k)
    BY <2>2 DEF UserSends, CanSend
  <2>4. Follows(store, store') \/ store' = initialChatState
    BY <2>3, Dispatched
  <2>5. CASE Follows(store, store')
    <3>1. store'.messages \in Seq(Draft) /\ DOMAIN store'.messages = DOMAIN store.messages
      BY <2>5 DEF Follows, Store
    <3>2. PICK n \in Nat : n = Len(store'.messages) /\ DOMAIN store'.messages = 1 .. n
      BY <3>1
    <3>3. DOMAIN store.messages = {}
      BY <2>2
    <3>4. 1 \notin 1 .. n
      BY <3>1, <3>2, <3>3
    <3>5. n = 0
      BY <3>4
    <3>6. PICK ms : ms = store'.messages
      OBVIOUS
    <3>7. ms \in Seq(Draft) /\ Len(ms) = 0
      BY <3>1, <3>2, <3>5, <3>6
    <3>8. ms = <<>>
      BY <3>7
    <3> QED BY <3>6, <3>8
  <2> QED BY <2>4, <2>5, EmptyStore
<1> QED BY <1>1, <1>2

(***************************************************************************)
(* However the messages of the server, the stops and the losses of the     *)
(* socket fall, a reply ends in the draft of the send it answers and the   *)
(* draft shows what its turn came to (chat-reducer.ts, use-chat-socket.ts):*)
(* unless a thread was left while a send in it was awaited or a stop       *)
(* crossed the end of its turn.                                            *)
(***************************************************************************)
THEOREM RepliesAreOwn == Spec => []RepliesFindTheirDraft
<1> DEFINE Inv == Lifeline /\ Placed /\ Forgotten /\ Replying
<1>1. Init => Inv
  <2> SUFFICES ASSUME Init PROVE Placed /\ Forgotten /\ Replying
    BY InitHolds DEF Lifeline
  <2>1. /\ store = initialChatState /\ via = [k \in Send |-> None] /\ ~ disposed /\ down = <<>>
        /\ turn = [k \in Send |-> "idle"] /\ text = [k \in Send |-> 0]
    BY DEF Init, ClientInit, Turns!ContractInit
  <2>2. DOMAIN store.messages = {} /\ store.status = "idle" /\ DOMAIN down = {}
    BY <2>1, EmptyStore DEF initialChatState
  <2> QED BY <2>1, <2>2 DEF Placed, Forgotten, Replying
<1>2. Inv /\ [Next]_vars => Inv'
  <2> SUFFICES ASSUME Inv, [Next]_vars PROVE Placed' /\ Forgotten' /\ Replying'
    BY LifelineKept
  <2>1. CASE Next
    BY <2>1, PlacedKept, ForgottenKept, RepliesKept DEF Lifeline
  <2>2. CASE UNCHANGED vars
    <3>1. UNCHANGED <<store, seen, intents, down, via, ws, turn, text, phase, disposed, strayed, crossed>>
      BY <2>2 DEF vars, clientVars, lifeVars, storeVars, serverVars, userVars
    <3>2. Placed' /\ Forgotten'
      BY <3>1 DEF Placed, Forgotten
    <3>3. Awaited' = Awaited
      BY <3>1 DEF Awaited, Drafts
    <3>4. ASSUME NEW i \in DOMAIN store.messages, Known(store.messages[i]) PROVE Known(store.messages[i])'
      BY <3>1, <3>4
      DEF Known, OwnReply, Active, UnderWay, Unanswered, Refused, Starting, Hearing, Answered, Announcing
    <3> QED BY <3>1, <3>2, <3>3, <3>4 DEF Replying, Clean
  <2> QED BY <2>1, <2>2
<1>3. Inv => RepliesFindTheirDraft
  <2> SUFFICES ASSUME Inv, ~ strayed, ~ crossed, NEW m \in Drafts PROVE OwnReply(m)
    BY DEF RepliesFindTheirDraft
  <2>1. PICK i \in DOMAIN store.messages : m = store.messages[i]
    BY DEF Drafts
  <2>2. ~ disposed
    BY <2>1 DEF Forgotten
  <2> QED BY <2>1, <2>2 DEF Replying, Known, Clean
<1> QED BY <1>1, <1>2, <1>3, PTL DEF Spec
=============================================================================
