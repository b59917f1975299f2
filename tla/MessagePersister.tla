-------------------------- MODULE MessagePersister --------------------------
(***************************************************************************)
(* attachMessagePersister: it buffers the text of every running request    *)
(* and appends the user turn when the request is published, the assistant  *)
(* turn when its stream settles.  On<Event> is the synchronous part of the *)
(* bus handler, run while the event is published; what the handler awaits  *)
(* afterwards (one database call each) are the actions of their own below. *)
(* A rejected call rejects the handler, which the bus only logs.           *)
(***************************************************************************)
EXTENDS ChatBase

VARIABLES
  pending,     \* requests with an entry in the pending map
  buffer,      \* text deltas accumulated in that entry
  userJob,     \* where the chat.requested handler of a request awaits
  answerJob,   \* the append of the assistant turn
  asks,        \* messages table: the user rows a request caused
  answers,     \* messages table: the text of its assistant rows
  title        \* the request whose text titles a conversation

persisterVars == <<pending, buffer, userJob, answerJob, asks, answers, title>>

UserJob   == {"none", "append", "lookup", "title", "done"}
AnswerJob == {"none", "append", "stored", "lost"}

PersisterTypeOK ==
  /\ pending \in SUBSET Req
  /\ buffer \in [Req -> Nat]
  /\ userJob \in [Req -> UserJob]
  /\ answerJob \in [Req -> AnswerJob]
  /\ asks \in [Req -> Nat]
  /\ answers \in [Req -> Seq(Nat)]
  /\ title \in [Conv -> Req \cup {None}]

PersisterInit ==
  /\ pending = {}
  /\ buffer = [r \in Req |-> 0]
  /\ userJob = [r \in Req |-> "none"]
  /\ answerJob = [r \in Req |-> "none"]
  /\ asks = [r \in Req |-> 0]
  /\ answers = [r \in Req |-> <<>>]
  /\ title = [c \in Conv |-> None]

-----------------------------------------------------------------------------
(* chat.requested: an entry is made; the user turn is appended unless the  *)
(* last message is not a user's plain text (textual), the early return.    *)
PersisterOnRequested(r) ==
  /\ pending' = pending \cup {r}
  /\ buffer' = [buffer EXCEPT ![r] = 0]
  /\ \E textual \in BOOLEAN :
       userJob' = [userJob EXCEPT ![r] = IF textual THEN "append" ELSE "done"]
  /\ UNCHANGED <<answerJob, asks, answers, title>>

(* token.generated: text extends the buffer of a request still pending.    *)
BufferWith(r, kind) ==
  IF r \in pending /\ kind = "text" THEN [buffer EXCEPT ![r] = @ + 1] ELSE buffer

PersisterOnToken(r, kind) ==
  /\ buffer' = BufferWith(r, kind)
  /\ UNCHANGED <<pending, userJob, answerJob, asks, answers, title>>

(* Mutant of StoreAnswer: the entry stays in the map. *)
StoreAnswerKeepsEntry(r, buf) ==
  /\ buffer' = buf
  /\ answerJob' = IF r \in pending /\ buf[r] > 0
                    THEN [answerJob EXCEPT ![r] = "append"]
                    ELSE answerJob
  /\ UNCHANGED <<pending, userJob, asks, answers, title>>

(* The entry is taken out of the map before the append, so a second        *)
(* terminal event of the request finds nothing to store.  buf is the       *)
(* buffer at that moment: an empty one stores nothing.                     *)
StoreAnswer(r, buf) ==
  /\ pending' = pending \ {r}
  /\ buffer' = buf
  /\ answerJob' = IF r \in pending /\ buf[r] > 0
                    THEN [answerJob EXCEPT ![r] = "append"]
                    ELSE answerJob
  /\ UNCHANGED <<userJob, asks, answers, title>>

(* Mutant of PersisterOnAborted: an aborted turn is dropped like a failed one. *)
PersisterOnAbortedDrops(r) ==
  /\ pending' = pending \ {r}
  /\ UNCHANGED <<buffer, userJob, answerJob, asks, answers, title>>

(* stream.completed, after the token of the same chunk (kind); and         *)
(* stream.aborted.                                                         *)
PersisterOnCompleted(r, kind) == StoreAnswer(r, BufferWith(r, kind))
PersisterOnAborted(r) == StoreAnswer(r, buffer)

(* Mutant of PersisterOnFailed: a failed turn keeps its text like an aborted one. *)
PersisterOnFailedStores(r) == StoreAnswer(r, buffer)

(* stream.failed: the entry is dropped and nothing is stored. *)
PersisterOnFailed(r) ==
  /\ pending' = pending \ {r}
  /\ UNCHANGED <<buffer, userJob, answerJob, asks, answers, title>>

-----------------------------------------------------------------------------
(* The awaited calls.  Each either takes effect in the database or rejects. *)
AppendUser(r) ==
  /\ userJob[r] = "append"
  /\ \/ /\ asks' = [asks EXCEPT ![r] = @ + 1]
        /\ userJob' = [userJob EXCEPT ![r] = "lookup"]
     \/ /\ "lostWrite" \in Faults
        /\ userJob' = [userJob EXCEPT ![r] = "done"]
        /\ UNCHANGED asks
  /\ UNCHANGED <<conv, pending, buffer, answerJob, answers, title>>

(* convRepo.get, then updateTitle when the title is still empty and touch  *)
(* otherwise (touch moves only updatedAt, which is not modelled).          *)
LookupTitle(r) ==
  /\ userJob[r] = "lookup"
  /\ userJob' = [userJob EXCEPT ![r] = IF title[conv[r]] = None THEN "title" ELSE "done"]
  /\ UNCHANGED <<conv, pending, buffer, answerJob, asks, answers, title>>

SetTitle(r) ==
  /\ userJob[r] = "title"
  /\ userJob' = [userJob EXCEPT ![r] = "done"]
  /\ \/ title' = [title EXCEPT ![conv[r]] = r]
     \/ "lostWrite" \in Faults /\ UNCHANGED title
  /\ UNCHANGED <<conv, pending, buffer, answerJob, asks, answers>>

AppendAnswer(r) ==
  /\ answerJob[r] = "append"
  /\ \/ /\ answers' = [answers EXCEPT ![r] = Append(@, buffer[r])]
        /\ answerJob' = [answerJob EXCEPT ![r] = "stored"]
     \/ /\ "lostWrite" \in Faults
        /\ answerJob' = [answerJob EXCEPT ![r] = "lost"]
        /\ UNCHANGED answers
  /\ UNCHANGED <<conv, pending, buffer, userJob, asks, title>>

(* The process ends: the map is gone and no awaited call is resumed. *)
PersisterLost ==
  /\ pending' = {}
  /\ buffer' = [r \in Req |-> 0]
  /\ userJob' = [r \in Req |-> IF userJob[r] = "none" THEN "none" ELSE "done"]
  /\ answerJob' = [r \in Req |->
                     IF answerJob[r] = "append" THEN "lost" ELSE answerJob[r]]
  /\ UNCHANGED <<asks, answers, title>>
=============================================================================
