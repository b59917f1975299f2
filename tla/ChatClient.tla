----------------------------- MODULE ChatClient -----------------------------
(***************************************************************************)
(* The chat screen: ChatScreen and its composer, useChatSocket, the socket *)
(* client (WsClient) and the reducer's state (ChatStore), at the other end *)
(* of the wire from a server that keeps TurnContract, the contract         *)
(* ChatTurn is shown to implement. The server's messages arrive in order   *)
(* over the open socket, and what is on its way is lost when it closes.    *)
(* What the client writes is received at once: the answer may take its     *)
(* time on the way.                                                        *)
(*                                                                         *)
(* A send's localId also stands for the request id the server mints for    *)
(* it, so that a draft bound to another send's request shows.              *)
(***************************************************************************)
EXTENDS WsClient, Sequences

INSTANCE ChatStore

CONSTANTS
  OldConv,      \* conversations that exist already
  MaxText,      \* bound: text deltas of one turn
  MaxAhead,     \* bound: messages under way
  MaxActs       \* bound: sends, stops, switches and new chats of the user

ASSUME ChatClientAssumption ==
  /\ OldConv \cap (Nat \cup {None}) = {}
  /\ MaxText \in Nat
  /\ MaxAhead \in Nat
  /\ MaxActs \in Nat

VARIABLES
  store,            \* the reducer's state, every dispatch applied
  seen,             \* what callbacks read of the state last rendered
  conversations,    \* those the rail lists
  activeConvId,
  activeConvIdRef,
  fetches,          \* fetches[c]: fetches of c's history under way
  down,             \* the server's messages on their way
  via,              \* via[k]: the socket send k was written to
  home,             \* home[k]: the conversation of send k, None if new
  turn, text,       \* TurnContract's view of the turns
  mute,             \* turns on the open socket of which nothing more comes
  thread,           \* history: the conversation whose messages are shown
  strayed,          \* history: whether a thread with an awaited draft was left
  crossed,          \* history: whether an abort came after the end of its turn
  lateCreated,      \* history: see Created
  acts              \* counter of the bound

screenVars == <<conversations, activeConvId, activeConvIdRef, fetches, thread, lateCreated>>
storeVars == <<store, seen, strayed>>
serverVars == <<home, turn, text, mute>>
userVars == <<via, crossed, acts>>
vars == <<clientVars, screenVars, storeVars, down, serverVars, userVars>>

(* A conversation a send creates is named after the send. *)
Conv == OldConv \cup Send

(* stateRef, and the composer's busy. *)
View(st) ==
  LET i == findPendingAssistantDraft(st)
  IN [busy |-> st.status # "idle", activeLocalId |-> st.activeLocalId,
      activeRequestId |-> st.activeRequestId,
      pending |-> IF i = 0 THEN None ELSE st.messages[i].id]

Turns == INSTANCE TurnContract WITH Req <- Send,
           row <- [k \in Send |-> <<>>], bill <- [k \in Send |-> 0]

Init ==
  /\ ClientInit
  /\ store = initialChatState
  /\ seen = View(initialChatState)
  /\ conversations = OldConv
  /\ activeConvId = None
  /\ activeConvIdRef = None
  /\ fetches = [c \in Conv |-> 0]
  /\ down = <<>>
  /\ thread = None
  /\ strayed = FALSE
  /\ crossed = FALSE
  /\ lateCreated = FALSE
  /\ via = [k \in Send |-> None]
  /\ home = [k \in Send |-> None]
  /\ Turns!ContractInit
  /\ mute = {}
  /\ acts = 0

-----------------------------------------------------------------------------
(* Dispatching to the store. *)

Waiting(m) == m.status \in {"pending", "streaming"}
Drafts == {store.messages[i] : i \in DOMAIN store.messages}
Awaited == {m.id : m \in {d \in Drafts : Waiting(d)}}

Render ==
  /\ ~disposed
  /\ seen # View(store)
  /\ seen' = View(store)
  /\ UNCHANGED <<clientVars, screenVars, store, strayed, down, serverVars, userVars>>

(* A dispatch from an event of the socket: rendered some time later. *)
Dispatch(st) == store' = st /\ UNCHANGED seen

(* A dispatch from a click: rendered before the next event. *)
DispatchNow(st) == store' = st /\ seen' = View(st)

Act == acts < MaxActs /\ acts' = acts + 1

-----------------------------------------------------------------------------
(* What the server writes while the client keeps reading; the messages     *)
(* sendWithBackpressure drops otherwise are left out.                      *)

Says(type, k) == <<[type |-> type, req |-> k]>>

Emit(msgs) == down' = down \o msgs /\ Len(down') <= MaxAhead

(* c.chat.abort: that of a request that has ended is answered with an      *)
(* s.error that names no request.                                          *)
Forbidden(r) == turn[r] # "running"

WriteAbort(r) ==
  /\ crossed' = (crossed \/ Forbidden(r))
  /\ IF Forbidden(r) THEN Emit(Says("error", r)) ELSE UNCHANGED down

WriteNothing == UNCHANGED <<crossed, down>>

-----------------------------------------------------------------------------
(* useChatSocket's abort(): it writes the abort, or buffers and dispatches *)
(* the intent.                                                             *)

AbortsNow == seen.activeRequestId # None
AbortsLater == ~AbortsNow /\ seen.activeLocalId # None

Abort ==
  /\ IF AbortsNow /\ CanSend THEN WriteAbort(seen.activeRequestId) ELSE WriteNothing
  /\ IF AbortsLater THEN AbortPending(seen.activeLocalId) ELSE UNCHANGED intents
  /\ Act
  /\ UNCHANGED <<lifeVars, serverVars, via>>

AbortedStore ==
  IF AbortsLater THEN AbortBeforeStarted(store, seen.activeLocalId) ELSE store

-----------------------------------------------------------------------------
(* The user.                                                               *)

Mount(s) ==
  /\ clientState = "idle"
  /\ Connect(s)
  /\ UNCHANGED <<screenVars, storeVars, down, serverVars, userVars>>

(* The page forgets its state; the client it disposed of lives on until its *)
(* socket has closed.                                                      *)
Unmount ==
  /\ clientState # "idle"
  /\ Dispose
  /\ DispatchNow(initialChatState)
  /\ conversations' = OldConv
  /\ activeConvId' = None
  /\ activeConvIdRef' = None
  /\ fetches' = [c \in Conv |-> 0]
  /\ down' = <<>>
  /\ thread' = None
  /\ strayed' = FALSE
  /\ crossed' = FALSE
  /\ lateCreated' = FALSE
  /\ mute' = {}
  /\ UNCHANGED <<home, turn, text, via, acts>>

(* The composer's send, in the conversation the screen holds active.       *)
UserSends(k) ==
  /\ \A j \in Send : via[j] = None <=> j >= k
  /\ ~seen.busy
  /\ CanSend
  /\ Act
  /\ via' = [via EXCEPT ![k] = ws]
  /\ home' = [home EXCEPT ![k] = activeConvId]
  /\ DispatchNow(SendUser(store, k))
  /\ UNCHANGED <<clientVars, screenVars, strayed, down, turn, text, mute, crossed>>

UserStops ==
  /\ ~disposed
  /\ seen.busy
  /\ Abort
  /\ DispatchNow(AbortedStore)
  /\ UNCHANGED <<screenVars, strayed>>

OpenConversation(c) ==
  /\ ~disposed
  /\ c \in conversations
  /\ Abort
  /\ DispatchNow(AbortedStore)
  /\ activeConvId' = c
  /\ activeConvIdRef' = c
  /\ fetches' = [fetches EXCEPT ![c] = @ + 1]
  /\ UNCHANGED <<conversations, thread, lateCreated, strayed>>

(* LOAD_HISTORY; it strays when it discards a draft that is still awaited. *)
LoadThread(c) ==
  /\ thread' = c
  /\ strayed' = (strayed \/ Awaited # {})

(* startChat, and switchWorkspace to a workspace without conversations. *)
StartChat ==
  /\ ~disposed
  /\ Abort
  /\ activeConvId' = None
  /\ activeConvIdRef' = None
  /\ LoadThread(None)
  /\ DispatchNow(LoadHistory)
  /\ UNCHANGED <<conversations, fetches, lateCreated>>

(* Mutant: no check after the fetch. *)
StillOpenAnyway(c) == TRUE

(* A history of c arrives, or fails to, and the screen loads it if c is    *)
(* still the conversation opened last.                                     *)
StillOpen(c) == activeConvIdRef = c

HistoryArrives(c) ==
  /\ ~disposed
  /\ fetches[c] > 0
  /\ fetches' = [fetches EXCEPT ![c] = @ - 1]
  /\ IF StillOpen(c)
     THEN LoadThread(c) /\ Dispatch(LoadHistory)
     ELSE UNCHANGED <<thread, strayed, store, seen>>
  /\ UNCHANGED <<clientVars, conversations, activeConvId, activeConvIdRef, lateCreated, down, serverVars, userVars>>

-----------------------------------------------------------------------------
(* The socket.                                                             *)

SocketEvent(s) ==
  /\ \/ SocketOpens(s)
     \/ ReconnectFires(s)
  /\ UNCHANGED <<screenVars, storeVars, down, serverVars, userVars>>

SocketLost(s, code) ==
  /\ SocketCloses(s, code)
  /\ down' = <<>>
  /\ Dispatch(IF WasStreaming THEN ConnectionLost(store) ELSE store)
  /\ mute' = {}
  /\ UNCHANGED <<screenVars, strayed, home, turn, text, userVars>>

(* s.conversation.created makes its conversation the active one, even if   *)
(* the user has left the thread that started it.                           *)
Created(k) ==
  /\ conversations' = conversations \cup {k}
  /\ activeConvId' = k
  /\ lateCreated' = (lateCreated \/ activeConvId # None \/ k \notin {m.id : m \in Drafts})
  /\ thread' = IF activeConvId = None /\ k \in {m.id : m \in Drafts} THEN k ELSE thread
  /\ UNCHANGED <<activeConvIdRef, fetches>>

(* s.chat.started writes the abort the user asked for before the request   *)
(* had an id, for the draft the rendered state holds pending.              *)
(* An abort that is flushed to a turn already over is answered behind what *)
(* is still on its way.                                                    *)
Deliver ==
  /\ down # <<>>
  /\ ws # None
  /\ LET msg == Head(down)
         flush == msg.type = "started" /\ Flushed(seen.pending)
         late == flush /\ Forbidden(msg.req)
     IN /\ IF msg.type = "created" THEN Created(msg.req) ELSE UNCHANGED screenVars
        /\ IF flush THEN FlushPendingAbort(seen.pending) ELSE UNCHANGED intents
        /\ crossed' = (crossed \/ late)
        /\ down' = Tail(down) \o (IF late THEN Says("error", msg.req) ELSE <<>>)
        /\ Dispatch(Reduce(store, msg))
  /\ UNCHANGED <<lifeVars, strayed, serverVars, via, acts>>

-----------------------------------------------------------------------------
(* The server, as a client sees it.                                        *)

Here(k) == via[k] # None /\ via[k] = ws /\ phase[ws] = "open"

ServerOnly == UNCHANGED <<clientVars, screenVars, storeVars, userVars>>

(* handleChatSend refuses before the request has an id (not found,         *)
(* forbidden, no such template).                                           *)
RefuseSend(k) ==
  /\ Here(k)
  /\ Turns!Refuse(k)
  /\ Emit(Says("error", k))
  /\ UNCHANGED <<home, mute>>
  /\ ServerOnly

(* Or it creates the conversation, if the send names none, and then the    *)
(* guardrails block the request or its stream starts.                      *)
New(k) == home[k] = None

AnswerSend(k) ==
  /\ Here(k)
  /\ home' = [home EXCEPT ![k] = IF New(k) THEN k ELSE @]
  /\ \E type \in {"failed", "started"} :
       /\ IF type = "failed" THEN Turns!Refuse(k) ELSE Turns!Run(k)
       /\ Emit((IF New(k) THEN Says("created", k) ELSE <<>>) \o Says(type, k))
  /\ UNCHANGED mute
  /\ ServerOnly

SpeakTurn(k) ==
  /\ Here(k)
  /\ k \notin mute
  /\ text[k] < MaxText
  /\ Turns!Speak(k)
  /\ Emit(Says("token", k))
  /\ UNCHANGED <<home, mute>>
  /\ ServerOnly

EndOfTurn(k) ==
  /\ Here(k)
  /\ k \notin mute
  /\ Turns!EndTurn(k)
  /\ text'[k] <= MaxText
  /\ Emit((IF text' = text THEN <<>> ELSE Says("token", k)) \o Says(turn'[k], k))
  /\ UNCHANGED <<home, mute>>
  /\ ServerOnly

(* A stream without a chunk that has both a finish reason and the usage    *)
(* ends unannounced, and an abort finds no controller any more.            *)
FallSilent(k) ==
  /\ Here(k)
  /\ turn[k] = "running" /\ k \notin mute
  /\ mute' = mute \cup {k}
  /\ UNCHANGED <<home, turn, text, down>>
  /\ ServerOnly

-----------------------------------------------------------------------------
Progress(k) == AnswerSend(k) \/ EndOfTurn(k) \/ FallSilent(k)

Server(k) == RefuseSend(k) \/ Progress(k) \/ SpeakTurn(k)

Next ==
  \/ Render \/ Deliver \/ Unmount \/ UserStops \/ StartChat
  \/ \E s \in Socket : Mount(s) \/ SocketEvent(s)
  \/ \E s \in Socket, code \in CloseCode : SocketLost(s, code)
  \/ \E k \in Send : UserSends(k) \/ Server(k)
  \/ \E c \in Conv : OpenConversation(c) \/ HistoryArrives(c)

(* The wire delivers, React renders, and the server gets on with a request: *)
(* its stream ends, but nothing makes it end with a message.               *)
Fairness ==
  /\ WF_vars(Deliver)
  /\ WF_vars(Render)
  /\ \A k \in Send : WF_vars(Progress(k))

Spec == Init /\ [][Next]_vars /\ Fairness

-----------------------------------------------------------------------------
(***************************************************************************)
(* A reply ends in the draft of the send it answers: each draft is bound   *)
(* to its own request, shows no text but that request's and the whole of   *)
(* it when complete, fails or is aborted only if its request was, and a    *)
(* stop pressed before the request had an id is written when it gets one   *)
(* (one pressed after that, but before it was rendered, stays buffered in  *)
(* the client and in the reducer). Not so once a thread was left while a   *)
(* send in it was awaited, or a stop crossed the end of its turn:          *)
(* s.chat.started and s.error name no send, and s.chat.failed of a request *)
(* no draft has is blamed on the active one.                               *)
(***************************************************************************)
OwnReply(m) ==
  /\ m.req \in {None, m.id}
  /\ m.text <= text[m.id]
  /\ m.status = "complete" => turn[m.id] = "completed" /\ m.text = text[m.id]
  /\ m.status = "error" => turn[m.id] = "failed"
  /\ m.status = "user" => turn[m.id] = "aborted"
  /\ m.status = "streaming" /\ m.id \in intents => m.id \in store.pendingAborts

RepliesFindTheirDraft ==
  ~strayed /\ ~crossed => \A m \in Drafts : OwnReply(m)

(***************************************************************************)
(* A client that is not given up or disposed has one way to go on, either  *)
(* a socket on its way or open, or the backoff timer; a heartbeat beats    *)
(* while the socket is open; a disposed client has no socket but one that  *)
(* closes, and no timer. A draft is awaited only while its socket is open. *)
(***************************************************************************)
OneLifeline ==
  /\ clientState \in {"connecting", "open"} <=> ws # None
  /\ reconnectTimer <=> clientState = "reconnecting"
  /\ heartbeatTimer <=> clientState = "open"
  /\ disposed => clientState = "permanent-closed"
  /\ \A s \in Socket : phase[s] \in {"connecting", "open"} => s = ws
  /\ ws # None => phase[ws] = clientState
  /\ ~disposed => \A k \in Awaited : clientState = "open" /\ via[k] = ws

(***************************************************************************)
(* Once the history asked for has arrived, the screen shows the thread of  *)
(* the conversation it sends to, and a draft in it is in that conversation *)
(* or in one the client never heard of (its announcement was lost). Not so *)
(* when an announcement comes after the user left the new thread.          *)
(***************************************************************************)
ThreadIsActive ==
  ~lateCreated /\ (\A c \in Conv : fetches[c] = 0) =>
    /\ thread = activeConvId
    /\ \A m \in Drafts : home[m.id] \in conversations => home[m.id] = activeConvId

(***************************************************************************)
(* The composer does not stay busy: whatever the user leaves and stops and *)
(* whichever draft a reply finds, the composer takes the next send in the  *)
(* end. But on a socket that stays open a draft stays awaited if the turn  *)
(* of its send, or the one it is bound to, ended without a message.        *)
(***************************************************************************)
Busy == store.status # "idle" /\ ~disposed

Hanging == \E m \in Drafts : Waiting(m) /\ {m.id, m.req} \cap mute # {}

BusyEnds == Busy ~> (~Busy \/ Hanging)
=============================================================================
