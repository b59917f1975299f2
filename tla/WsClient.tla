------------------------------ MODULE WsClient ------------------------------
(***************************************************************************)
(* ChatV2Client: the browser's one WebSocket to the chat server, opened,   *)
(* lost, opened again after a backoff, given up or disposed; and the       *)
(* intents to abort a send whose request id is not known yet.              *)
(* The backoff's length and the heartbeat's ping are left out: no delay is *)
(* told apart from another, and a pong is not routed anywhere.             *)
(***************************************************************************)
EXTENDS Naturals, FiniteSets

CONSTANTS
  Socket,        \* bound: the WebSocket objects one client opens, in order
  Send,          \* bound: the sends of the user, in order; a send's localId
  CloseCode,     \* how a close event may be coded: see CloseCodes
  AuthFailLimit, \* AUTH_FAIL_LIMIT
  None

(* 1000, a code of AUTH_FAIL_CODES, any other. *)
CloseCodes == {"normal", "auth", "lost"}

ASSUME WsClientAssumption ==
  /\ CloseCode \subseteq CloseCodes
  /\ AuthFailLimit \in Nat \ {0}
  /\ Socket \subseteq Nat /\ Send \subseteq Nat
  /\ None \notin Nat

VARIABLES
  clientState,       \* ChatV2ClientState
  ws,                \* the socket the client holds, or None
  phase,             \* phase[s]: the browser's readyState of socket s
  reconnectTimer,    \* whether the backoff timer is set
  heartbeatTimer,    \* whether the heartbeat interval is set
  authFailureStreak,
  intents,           \* pendingAbortLocalIds
  disposed

lifeVars == <<clientState, ws, phase, reconnectTimer, heartbeatTimer, authFailureStreak, disposed>>
clientVars == <<lifeVars, intents>>

ClientStates == {"idle", "connecting", "open", "reconnecting", "permanent-closed"}
Phases == {"unused", "connecting", "open", "closing", "closed"}

ClientTypeOK ==
  /\ clientState \in ClientStates
  /\ ws \in Socket \cup {None}
  /\ phase \in [Socket -> Phases]
  /\ reconnectTimer \in BOOLEAN
  /\ heartbeatTimer \in BOOLEAN
  /\ authFailureStreak \in 0..AuthFailLimit
  /\ intents \subseteq Send
  /\ disposed \in BOOLEAN

ClientInit ==
  /\ clientState = "idle"
  /\ ws = None
  /\ phase = [s \in Socket |-> "unused"]
  /\ reconnectTimer = FALSE
  /\ heartbeatTimer = FALSE
  /\ authFailureStreak = 0
  /\ intents = {}
  /\ disposed = FALSE

OpenSocket(s) ==
  /\ phase[s] = "unused"
  /\ \A t \in Socket : t < s => phase[t] # "unused"
  /\ clientState' = "connecting"
  /\ phase' = [phase EXCEPT ![s] = "connecting"]
  /\ ws' = s

Connect(s) ==
  /\ ~disposed
  /\ clientState \notin {"open", "connecting"}
  /\ OpenSocket(s)
  /\ UNCHANGED <<reconnectTimer, heartbeatTimer, authFailureStreak, intents, disposed>>

(* The "open" event. *)
SocketOpens(s) ==
  /\ phase[s] = "connecting"
  /\ phase' = [phase EXCEPT ![s] = "open"]
  /\ clientState' = "open"
  /\ heartbeatTimer' = TRUE
  /\ authFailureStreak' = 0
  /\ UNCHANGED <<ws, reconnectTimer, intents, disposed>>

Streak(code) == IF code = "auth" THEN authFailureStreak + 1 ELSE 0

GivesUp(code) == code = "normal" \/ Streak(code) >= AuthFailLimit

(* A close that is neither the client's own doing nor the last. *)
Recover(code) ==
  /\ authFailureStreak' = Streak(code)
  /\ clientState' = IF GivesUp(code) THEN "permanent-closed" ELSE "reconnecting"
  /\ reconnectTimer' = ~GivesUp(code)

(* Mutant: a disposed client recovers as well. *)
SocketClosesAlways(s, code) ==
  /\ phase[s] \in {"connecting", "open", "closing"}
  /\ phase' = [phase EXCEPT ![s] = "closed"]
  /\ heartbeatTimer' = FALSE
  /\ ws' = None
  /\ Recover(code)
  /\ UNCHANGED <<intents, disposed>>

(* The "close" event. *)
SocketCloses(s, code) ==
  /\ phase[s] \in {"connecting", "open", "closing"}
  /\ phase' = [phase EXCEPT ![s] = "closed"]
  /\ heartbeatTimer' = FALSE
  /\ ws' = None
  /\ IF disposed \/ clientState = "permanent-closed"
     THEN UNCHANGED <<authFailureStreak, clientState, reconnectTimer>>
     ELSE Recover(code)
  /\ UNCHANGED <<intents, disposed>>

(* Whether handleClose reports client.connection.lost. *)
WasStreaming == ~disposed /\ clientState = "open"

ReconnectFires(s) ==
  /\ reconnectTimer
  /\ reconnectTimer' = FALSE
  /\ IF disposed THEN UNCHANGED <<clientState, phase, ws>> ELSE OpenSocket(s)
  /\ UNCHANGED <<heartbeatTimer, authFailureStreak, intents, disposed>>

Dispose ==
  /\ ~disposed
  /\ disposed' = TRUE
  /\ heartbeatTimer' = FALSE
  /\ reconnectTimer' = FALSE
  /\ clientState' = "permanent-closed"
  /\ phase' = IF ws = None THEN phase ELSE [phase EXCEPT ![ws] = "closing"]
  /\ ws' = None
  /\ UNCHANGED <<authFailureStreak, intents>>

(* What send() asks before it writes to the socket. *)
CanSend == clientState = "open" /\ ws # None

AbortPending(k) == intents' = intents \cup {k}

(* The requests flushPendingAbort writes an abort for. *)
Flushed(k) == k \in intents /\ CanSend

FlushPendingAbort(k) == intents' = intents \ {k}
=============================================================================
