-------------------------- MODULE ConnectionSession --------------------------
(***************************************************************************)
(* ConnectionSession: one per WebSocket.  It owns the requests its client  *)
(* sent, forwards their bus events to the socket and drops a message when  *)
(* the socket's buffer is over the limit.  handleChatSend runs across      *)
(* several awaits, modelled by sending[r]; the client may send, abort or   *)
(* close between any two of them.                                          *)
(***************************************************************************)
EXTENDS ChatBase

VARIABLES
  link,      \* the socket of a session: "new", "open" or "closed"
  slow,      \* sessions whose bufferedAmount is over BACKPRESSURE_LIMIT
  owned,     \* ownedRequestIds of each session
  sentBy,    \* the session whose client sent the request
  sending,   \* how far handleChatSend of the request has come
  owner,     \* conversations table: the user of a conversation, None if no row
  wire,      \* history: what was written to the socket for the request
  dropped    \* history: requests that lost a message to backpressure

sessionVars == <<link, slow, owned, sentBy, sending, owner, wire, dropped>>

Sending == {"new", "opening", "reading", "checking", "rejected", "blocked", "asked", "killed"}

(* handleChatSend awaits a repository or a guardrail check. *)
Awaiting(r) == sending[r] \in {"opening", "reading", "checking"}

SessionTypeOK ==
  /\ link \in [Session -> {"new", "open", "closed"}]
  /\ slow \in SUBSET Session
  /\ owned \in [Session -> SUBSET Req]
  /\ sentBy \in [Req -> Session \cup {None}]
  /\ sending \in [Req -> Sending]
  /\ owner \in [Conv -> User \cup {None}]
  /\ wire \in [Req -> Seq(WireMsg)]
  /\ dropped \in SUBSET Req

SessionInit ==
  /\ link = [s \in Session |-> "new"]
  /\ slow = {}
  /\ owned = [s \in Session |-> {}]
  /\ sentBy = [r \in Req |-> None]
  /\ sending = [r \in Req |-> "new"]
  /\ owner = [c \in Conv |-> None]
  /\ wire = [r \in Req |-> <<>>]
  /\ dropped = {}

-----------------------------------------------------------------------------
(* subscribeToBus: the sessions whose filter lets an event of r through; a *)
(* closed session has unsubscribed.                                        *)
Listener(r) == {s \in Session : link[s] = "open" /\ r \in owned[s]}

(* sendWithBackpressure of each of msgs for r: written, or dropped when    *)
(* the buffer is over the limit; the first may be what takes it over.      *)
Forward(r, msgs) ==
  \/ /\ wire' = IF Listener(r) \ slow # {} THEN [wire EXCEPT ![r] = @ \o msgs] ELSE wire
     /\ dropped' = IF Listener(r) \cap slow # {} THEN dropped \cup {r} ELSE dropped
  \/ /\ "backlog" \in Faults
     /\ Len(msgs) > 1
     /\ Listener(r) \ slow # {}
     /\ wire' = [wire EXCEPT ![r] = @ \o <<msgs[1]>>]
     /\ dropped' = dropped \cup {r}

(* Mutant of Release: ownership ends with the socket only. *)
ReleaseNothing(r) == UNCHANGED owned

(* A terminal event releases the request before it is written. *)
Release(r) ==
  owned' = [s \in Session |-> IF s \in Listener(r) THEN owned[s] \ {r} ELSE owned[s]]

SessionOnToken(r, kind) ==
  /\ Forward(r, <<kind>>)
  /\ UNCHANGED owned

(* Mutant of SessionOnCompleted: the completion overtakes the last token. *)
SessionOnCompletedEarly(r, kind) == Forward(r, <<"completed">>) /\ Release(r)

(* stream.completed, after the token of the same chunk when it had one. *)
SessionOnCompleted(r, kind) ==
  /\ \/ kind = "none" /\ Forward(r, <<"completed">>)
     \/ kind # "none" /\ Forward(r, <<kind, "completed">>)
  /\ Release(r)

SessionOnFailed(r)  == Forward(r, <<"failed">>) /\ Release(r)
SessionOnAborted(r) == Forward(r, <<"aborted">>) /\ Release(r)

-----------------------------------------------------------------------------
(* start: the session registers, subscribes and listens to its socket.     *)
Start(s) ==
  /\ link[s] = "new"
  /\ link' = [link EXCEPT ![s] = "open"]
  /\ UNCHANGED <<conv, slow, owned, sentBy, sending, owner, wire, dropped>>

(* The client stops or resumes reading: the buffer crosses the limit. *)
Congest(s) ==
  /\ "backlog" \in Faults
  /\ link[s] = "open"
  /\ slow' = IF s \in slow THEN slow \ {s} ELSE slow \cup {s}
  /\ UNCHANGED <<conv, link, owned, sentBy, sending, owner, wire, dropped>>

(* c.chat.send for conversation c, or for a new one when c = None. *)
Send(s, r, c) ==
  /\ link[s] = "open"
  /\ sending[r] = "new"
  /\ sending' = [sending EXCEPT ![r] = "opening"]
  /\ sentBy' = [sentBy EXCEPT ![r] = s]
  /\ conv' = [conv EXCEPT ![r] = c]
  /\ UNCHANGED <<link, slow, owned, owner, wire, dropped>>

(* Mutants of OpenExisting: any existing conversation is accepted; an      *)
(* unknown one is never answered.                                          *)
OpenExistingOfAnyone(r) ==
  /\ sending[r] = "opening"
  /\ conv[r] # None
  /\ sending' = [sending EXCEPT ![r] =
       IF owner[conv[r]] # None THEN "reading" ELSE "rejected"]
  /\ UNCHANGED <<conv, link, slow, owned, sentBy, owner, wire, dropped>>

OpenExistingHangs(r) ==
  /\ sending[r] = "opening"
  /\ conv[r] # None
  /\ owner[conv[r]] = UserOf[sentBy[r]]
  /\ sending' = [sending EXCEPT ![r] = "reading"]
  /\ UNCHANGED <<conv, link, slow, owned, sentBy, owner, wire, dropped>>

(* convRepo.get answered: an unknown conversation and another user's are   *)
(* refused, and membership is not asked again.                             *)
OpenExisting(r) ==
  /\ sending[r] = "opening"
  /\ conv[r] # None
  /\ sending' = [sending EXCEPT ![r] =
       IF owner[conv[r]] = UserOf[sentBy[r]] THEN "reading" ELSE "rejected"]
  /\ UNCHANGED <<conv, link, slow, owned, sentBy, owner, wire, dropped>>

(* No conversationId: the workspace is resolved and the template checked,  *)
(* either of which may refuse; then the conversation is created.           *)
OpenNew(r) ==
  /\ sending[r] = "opening"
  /\ conv[r] = None
  /\ \/ /\ sending' = [sending EXCEPT ![r] = "rejected"]
        /\ UNCHANGED <<conv, owner>>
     \/ \E c \in Conv :
          /\ owner[c] = None
          /\ owner' = [owner EXCEPT ![c] = UserOf[sentBy[r]]]
          /\ conv' = [conv EXCEPT ![r] = c]
          /\ sending' = [sending EXCEPT ![r] = "reading"]
  /\ UNCHANGED <<link, slow, owned, sentBy, wire, dropped>>

(* Mutant of OwnRequest: a session owns its latest request only. *)
OwnRequestOnly(r) ==
  /\ sending[r] = "reading"
  /\ sending' = [sending EXCEPT ![r] = "checking"]
  /\ owned' = [owned EXCEPT ![sentBy[r]] = {r}]
  /\ UNCHANGED <<conv, link, slow, sentBy, owner, wire, dropped>>

(* listByConversation answered: the prompt is assembled and the request id *)
(* minted and owned, whether or not the socket is still open.              *)
OwnRequest(r) ==
  /\ sending[r] = "reading"
  /\ sending' = [sending EXCEPT ![r] = "checking"]
  /\ owned' = [owned EXCEPT ![sentBy[r]] = @ \cup {r}]
  /\ UNCHANGED <<conv, link, slow, sentBy, owner, wire, dropped>>

(* The guardrail verdict is in: a block publishes stream.failed to the     *)
(* session itself, otherwise chat.requested and, answered by the handler,  *)
(* stream.started.                                                         *)
SessionBlocked(r) ==
  /\ sending[r] = "checking"
  /\ sending' = [sending EXCEPT ![r] = "blocked"]
  /\ SessionOnFailed(r)
  /\ UNCHANGED <<conv, link, slow, sentBy, owner>>

SessionAsks(r, handled) ==
  /\ sending[r] = "checking"
  /\ sending' = [sending EXCEPT ![r] = "asked"]
  /\ IF handled THEN Forward(r, <<"started">>) ELSE UNCHANGED <<wire, dropped>>
  /\ UNCHANGED <<conv, link, slow, owned, sentBy, owner>>

(* dispose, on the socket's close event: unsubscribe, unregister, forget.  *)
(* The requests it owned are aborted by ChatTurn's Close.                  *)
SessionClose(s) ==
  /\ link[s] = "open"
  /\ link' = [link EXCEPT ![s] = "closed"]
  /\ slow' = slow \ {s}
  /\ owned' = [owned EXCEPT ![s] = {}]
  /\ UNCHANGED <<conv, sentBy, sending, owner, wire, dropped>>

(* The process ends: every socket closes and no await is resumed. *)
SessionsLost ==
  /\ link' = [s \in Session |-> "closed"]
  /\ slow' = {}
  /\ owned' = [s \in Session |-> {}]
  /\ sending' = [r \in Req |-> IF Awaiting(r) THEN "killed" ELSE sending[r]]
  /\ UNCHANGED <<sentBy, owner, wire, dropped>>
=============================================================================
