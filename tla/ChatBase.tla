------------------------------ MODULE ChatBase ------------------------------
(***************************************************************************)
(* What the components of a chat turn share: the sockets, the users behind *)
(* them, the request ids the server mints, the conversations, and the      *)
(* conversationId every bus event of a request carries.                    *)
(***************************************************************************)
EXTENDS Naturals, Sequences, FiniteSets

CONSTANTS
  Session,    \* WebSocket connections, each with its own ConnectionSession
  User,       \* authenticated users
  UserOf,     \* the user a connection was upgraded for
  Req,        \* request ids (one c.chat.send each)
  Conv,       \* conversation ids
  Faults,     \* bound: the faults explored, a subset of Fault
  None,       \* no conversation yet, no owner, no title
  MaxChunks   \* bound: chunks of one gateway stream

(***************************************************************************)
(* What may go wrong around the code: a client stops reading its socket, a *)
(* database call of a bus handler rejects, one of handleChatSend rejects,  *)
(* and the process is told to stop.                                        *)
(***************************************************************************)
Fault == {"backlog", "lostWrite", "lostRead", "stop"}

ASSUME ChatAssumption ==
  /\ UserOf \in [Session -> User]
  /\ Faults \subseteq Fault
  /\ None \notin User \cup Req \cup Conv
  /\ MaxChunks \in Nat \ {0}

VARIABLE conv   \* conv[r]: the conversation request r belongs to

(***************************************************************************)
(* The message types a client sees for one request, and those that end it. *)
(***************************************************************************)
Terminal == {"completed", "failed", "aborted"}
WireMsg  == {"started", "text", "blank"} \cup Terminal
=============================================================================
