------------------------------ MODULE ChatStore ------------------------------
(***************************************************************************)
(* chatReducer: the chat the screen renders, as a function of the actions  *)
(* dispatched to it. Of the messages only the assistant drafts are kept:   *)
(* one per send, with the send's localId, the request id bound to it, its  *)
(* status ("user" and "network" are the two ways to be aborted) and how    *)
(* many text deltas it was given. Tool calls, user messages and loaded     *)
(* history change nothing a draft is found by.                             *)
(***************************************************************************)
EXTENDS Naturals, Sequences, SequencesExt

CONSTANT None   \* no request id yet, nothing active

initialChatState ==
  [messages |-> <<>>, activeLocalId |-> None, activeRequestId |-> None,
   pendingAborts |-> {}, status |-> "idle"]

(* The position of the first message P holds of, 0 if there is none. *)
Find(st, P(_)) == SelectInSeq(st.messages, P)

findPendingAssistantDraft(st) ==
  Find(st, LAMBDA m : m.status = "pending" /\ m.req = None)

findDraftByRequestId(st, r) == Find(st, LAMBDA m : m.req = r)

findActiveDraft(st) ==
  Find(st, LAMBDA m : m.id = st.activeLocalId /\ m.status \in {"pending", "streaming"})

clearActive(st) ==
  [st EXCEPT !.activeLocalId = None, !.activeRequestId = None, !.status = "idle"]

(* A handler that ends the draft at i, if there is one. *)
EndDraft(st, i, how) ==
  IF i = 0 THEN st ELSE clearActive([st EXCEPT !.messages[i].status = how])

SendUser(st, k) ==
  [st EXCEPT !.messages = Append(@, [id |-> k, req |-> None, status |-> "pending", text |-> 0]),
             !.activeLocalId = k, !.activeRequestId = None, !.status = "sending"]

ServerStarted(st, r) ==
  LET i == findPendingAssistantDraft(st)
  IN IF i = 0 THEN st
     ELSE [st EXCEPT !.messages[i].req = r, !.messages[i].status = "streaming",
                     !.pendingAborts = @ \ {st.messages[i].id},
                     !.activeRequestId = r, !.status = "streaming"]

ServerToken(st, r) ==
  LET i == findDraftByRequestId(st, r)
  IN IF i = 0 THEN st ELSE [st EXCEPT !.messages[i].text = @ + 1]

ServerCompleted(st, r) == EndDraft(st, findDraftByRequestId(st, r), "complete")

Blamed(st, r) ==
  LET i == findDraftByRequestId(st, r) IN IF i # 0 THEN i ELSE findActiveDraft(st)

ServerFailed(st, r) == EndDraft(st, Blamed(st, r), "error")

ServerAborted(st, r) == EndDraft(st, findDraftByRequestId(st, r), "user")

ServerError(st) == EndDraft(st, findActiveDraft(st), "error")

AbortBeforeStarted(st, k) == [st EXCEPT !.pendingAborts = @ \cup {k}]

(* Mutant: only what streams is cut. *)
CutStreaming(m) == IF m.status = "streaming" THEN [m EXCEPT !.status = "network"] ELSE m

Cut(m) == IF m.status \in {"pending", "streaming"} THEN [m EXCEPT !.status = "network"] ELSE m

(* Mutant: the composer is not given back. *)
ConnectionLostBusy(st) ==
  [st EXCEPT !.activeLocalId = None, !.activeRequestId = None, !.pendingAborts = {},
             !.messages = [i \in DOMAIN @ |-> Cut(@[i])]]

ConnectionLost(st) ==
  [clearActive(st) EXCEPT !.pendingAborts = {},
                          !.messages = [i \in DOMAIN @ |-> Cut(@[i])]]

LoadHistory == initialChatState

(* mapServerEventToAction and the reducer's switch. *)
Reduce(st, msg) ==
  CASE msg.type = "started"   -> ServerStarted(st, msg.req)
    [] msg.type = "token"     -> ServerToken(st, msg.req)
    [] msg.type = "completed" -> ServerCompleted(st, msg.req)
    [] msg.type = "failed"    -> ServerFailed(st, msg.req)
    [] msg.type = "aborted"   -> ServerAborted(st, msg.req)
    [] msg.type = "error"     -> ServerError(st)
    [] OTHER                  -> st
=============================================================================
