--------------------------- MODULE StreamAdapters ---------------------------
(***************************************************************************)
(* The provider adapters: what each vendor is asked, and how its answer    *)
(* becomes the gateway's chunks.  An answer is a sequence of messages      *)
(* (events of the SDKs of OpenAI and Anthropic, lines of the HTTP bodies   *)
(* of MiniMax and Ollama), a message a sequence of items: text, the        *)
(* opening of a tool call, with arguments or without, a fragment of its    *)
(* arguments, the close of its block, the end with its reason, the usage,  *)
(* "done", an error, or junk.                                              *)
(* A piece of text or of arguments is known by its place in the answer.    *)
(***************************************************************************)
EXTENDS Naturals, Sequences, SequencesExt

VARIABLES
  answer,   \* the answer being read
  read,     \* how much of it has arrived: messages, or half-lines
  buffer,   \* half-lines read that are no line yet
  lines,    \* messages read and not handled yet; 0 for a torn line
  calls,    \* tool calls the adapter keeps: toolCallAccumulator, currentToolCallId
  heard     \* chunks this attempt has given to the caller

adapterVars == <<answer, read, buffer, lines, calls, heard>>

Kind == {"openai", "anthropic", "minimax", "ollama"}

(* Adapters that read bytes and cut them into lines themselves. *)
Framed(k) == k \in {"minimax", "ollama"}

AdapterInit ==
  /\ answer = <<>>
  /\ read = 0
  /\ buffer = <<>>
  /\ lines = <<>>
  /\ calls = {}
  /\ heard = <<>>

-----------------------------------------------------------------------------
(* What is sent.                                                           *)

(* The elements of s at the places of I, in their order: filter. *)
Those(s, I) == FlattenSeq([i \in DOMAIN s |-> IF i \in I THEN <<s[i]>> ELSE <<>>])

(* mapMessages throws: a tool message that answers no call, an image by    *)
(* URL for Anthropic.                                                      *)
Unanswered(m) == m.role = "tool" /\ ~m.answers
HasURL(m) == m.role \in {"user", "assistant"} /\ \E j \in DOMAIN m.parts : m.parts[j].is = "url"
Unsendable(k, r) ==
  \E i \in DOMAIN r.messages :
    \/ k \in {"openai", "anthropic"} /\ Unanswered(r.messages[i])
    \/ k = "anthropic" /\ HasURL(r.messages[i])

(* The parts of a message a vendor gets: mapUserContent, mapContent,       *)
(* extractImages; of any other message getTextContent.                     *)
TextOnly == {"text"}
OpenAICarries(m) == IF m.role = "user" THEN TextOnly \cup {"url", "base64"} ELSE TextOnly
AnthropicCarries(m) == IF m.role \in {"user", "assistant"} THEN TextOnly \cup {"base64"} ELSE TextOnly
OllamaCarries == TextOnly \cup {"base64"}
Carried(k, m) ==
  CASE k = "openai" -> OpenAICarries(m)
    [] k = "anthropic" -> AnthropicCarries(m)
    [] k = "minimax" -> TextOnly
    [] k = "ollama" -> OllamaCarries

SentRole(k, role) == IF role = "tool" /\ k \in {"anthropic", "minimax"} THEN "user" ELSE role
SentMessage(k, m) ==
  [role |-> SentRole(k, m.role),
   parts |-> Those(m.parts, {j \in DOMAIN m.parts : m.parts[j].is \in Carried(k, m)})]

(* Anthropic takes one system prompt: the last system message. *)
Kept(k, r) ==
  LET n == Len(r.messages)
      Superseded(i) == /\ k = "anthropic"
                       /\ r.messages[i].role = "system"
                       /\ \E j \in i + 1 .. n : r.messages[j].role = "system"
  IN Those([i \in 1 .. n |-> i], {i \in 1 .. n : ~Superseded(i)})

(* MiniMax is told of no tools. *)
SentTools(k, r) == IF k = "minimax" THEN <<>> ELSE r.tools

(* The fields that go along as the caller gave them (the model without     *)
(* its prefix).                                                            *)
SentApart(k) ==
  CASE k = "openai" -> {"model", "stop", "toolNames", "toolChoice", "jsonSchema", "toolCallIds"}
    [] k = "anthropic" -> {"model", "stop", "toolNames", "toolChoice", "toolCallIds"}
    [] k = "minimax" -> {"model"}
    [] k = "ollama" -> {"model", "stop", "toolNames"}

Prompt(k, r) ==
  [messages |-> [i \in DOMAIN Kept(k, r) |-> SentMessage(k, r.messages[Kept(k, r)[i]])],
   tools |-> SentTools(k, r),
   user |-> IF k = "openai" THEN r.user ELSE <<>>,
   apart |-> [f \in SentApart(k) |-> r.apart[f]]]

-----------------------------------------------------------------------------
(* What may come back.                                                     *)

Items ==
  [is : {"text", "usage", "done", "close", "fault"}]
  \cup [is : {"open"}, tool : Nat, args : BOOLEAN]
  \cup [is : {"args"}, tool : Nat]
  \cup [is : {"end"}, why : {"stop", "length", "tool_calls", "other"}]
Answers == Seq(Seq(Items))

Has(m, what) == \E j \in DOMAIN m : m[j].is = what
OpenedBy(m) == {m[j].tool : j \in {j \in DOMAIN m : m[j].is = "open"}}

(* The end is said once, and after it the trailer. *)
Trailing == {"usage", "done", "fault"}
EndsOnce(a) ==
  \A i \in DOMAIN a : \A j \in DOMAIN a[i] : a[i][j].is = "end" =>
    /\ \A l \in j + 1 .. Len(a[i]) : a[i][l].is \in Trailing
    /\ \A n \in i + 1 .. Len(a) : \A l \in DOMAIN a[n] : a[n][l].is \in Trailing
DoneAfterEnd(a) == \A i \in DOMAIN a : Has(a[i], "done") => \E l \in 1 .. i - 1 : Has(a[l], "end")

(* Fragments of a call's arguments follow its opening. *)
OpenedBefore(a, i, j) ==
  (UNION {OpenedBy(a[l]) : l \in 1 .. i - 1}) \cup OpenedBy(SubSeq(a[i], 1, j - 1))
ArgsAfterOpening(a) ==
  \A i \in DOMAIN a : \A j \in DOMAIN a[i] : a[i][j].is = "args" => a[i][j].tool \in OpenedBefore(a, i, j)

(* Only the delta that opens a call of OpenAI may carry arguments.         *)
OpensEmpty(a) == \A i \in DOMAIN a : \A j \in DOMAIN a[i] : a[i][j].is = "open" => ~a[i][j].args
OpensFullOnce(a) ==
  \A i \in DOMAIN a : \A j \in DOMAIN a[i] :
    a[i][j].is = "open" /\ a[i][j].args => a[i][j].tool \notin OpenedBefore(a, i, j)

(* Events of one item, and one block at a time: the tools of the block     *)
(* that is open when message i comes.                                      *)
Block(a, i) ==
  UNION {OpenedBy(a[l]) : l \in {l \in 1 .. i - 1 : \A n \in l .. i - 1 : ~Has(a[n], "close")}}
OneBlockAtATime(a) ==
  \A i \in DOMAIN a :
    /\ Len(a[i]) <= 1
    /\ Has(a[i], "open") => Block(a, i) = {}
    /\ Has(a[i], "args") => a[i][1].tool \in Block(a, i)

(* The protocol of each vendor, as far as its adapter relies on it. *)
Lawful(k, a) ==
  /\ a \in Answers
  /\ EndsOnce(a)
  /\ DoneAfterEnd(a)
  /\ IF k = "openai" THEN ArgsAfterOpening(a) /\ OpensFullOnce(a) ELSE OpensEmpty(a)
  /\ k = "anthropic" => OneBlockAtATime(a)

-----------------------------------------------------------------------------
(* What the caller is told of it.                                          *)

TextChunk(i) == [is |-> "text", at |-> i]
StartChunk(t) == [is |-> "start", tool |-> t]
DeltaChunk(t, i) == [is |-> "delta", tool |-> t, at |-> i]
FinishChunk(why, usage) == [is |-> "finish", why |-> why, usage |-> usage]

(* mapFinishReason and mapStopReason: what the vendor means and what the   *)
(* gateway makes of it.                                                    *)
OpenAITold(why) == IF why = "other" THEN "stop" ELSE why
AnthropicTold(why) == IF why \in {"length", "tool_calls"} THEN why ELSE "stop"
MiniMaxTold(why) == IF why = "length" THEN why ELSE "stop"

(* A chunk without a choice is skipped, and so is the usage it carries.    *)
(* The opening of a call is told without the arguments that came with it,  *)
(* and nothing else tells them.                                            *)
Known(m, j) == calls \cup OpenedBy(SubSeq(m, 1, j - 1))
OpenAIChunks(m, i) ==
  FlattenSeq([j \in DOMAIN m |->
    CASE m[j].is = "text" -> <<TextChunk(i)>>
      [] m[j].is = "open" /\ m[j].tool \notin Known(m, j) -> <<StartChunk(m[j].tool)>>
      [] m[j].is = "open" /\ m[j].tool \in Known(m, j) /\ m[j].args -> <<DeltaChunk(m[j].tool, i)>>
      [] m[j].is = "args" /\ m[j].tool \in Known(m, j) -> <<DeltaChunk(m[j].tool, i)>>
      [] m[j].is = "end" -> <<FinishChunk(OpenAITold(m[j].why), Has(m, "usage"))>>
      [] OTHER -> <<>>])

(* A fragment of arguments belongs to the call whose block is open. *)
AnthropicChunks(m, i) ==
  CASE Has(m, "text") -> <<TextChunk(i)>>
    [] Has(m, "open") -> <<StartChunk(m[1].tool)>>
    [] Has(m, "args") -> IF calls = {} THEN <<>> ELSE <<DeltaChunk(CHOOSE t \in calls : TRUE, i)>>
    [] Has(m, "end") -> <<FinishChunk(AnthropicTold(m[1].why), TRUE)>>
    [] OTHER -> <<>>

(* "[DONE]" is told as one more finish, without usage. *)
MiniMaxChunks(m, i) ==
  FlattenSeq([j \in DOMAIN m |->
    CASE m[j].is = "text" -> <<TextChunk(i)>>
      [] m[j].is = "end" -> <<FinishChunk(MiniMaxTold(m[j].why), Has(m, "usage"))>>
      [] m[j].is = "done" -> <<FinishChunk("stop", FALSE)>>
      [] OTHER -> <<>>])

(* Tool calls are not read from a stream. *)
OllamaChunks(m, i) ==
  FlattenSeq([j \in DOMAIN m |->
    CASE m[j].is = "text" -> <<TextChunk(i)>>
      [] m[j].is = "end" -> <<FinishChunk("stop", TRUE)>>
      [] OTHER -> <<>>])

Chunks(k, m, i) ==
  CASE k = "openai" -> OpenAIChunks(m, i)
    [] k = "anthropic" -> AnthropicChunks(m, i)
    [] k = "minimax" -> MiniMaxChunks(m, i)
    [] k = "ollama" -> OllamaChunks(m, i)

(* Mutant of CallsAfter: a second call does not displace the first, as if  *)
(* content_block_stop were not handled.                                    *)
CallsAfterKeepFirst(k, m) ==
  CASE k = "openai" -> calls \cup OpenedBy(m)
    [] k = "anthropic" -> IF calls = {} THEN OpenedBy(m) ELSE calls
    [] OTHER -> {}

CallsAfter(k, m) ==
  CASE k = "openai" -> calls \cup OpenedBy(m)
    [] k = "anthropic" -> IF Has(m, "close") THEN {} ELSE IF Has(m, "open") THEN OpenedBy(m) ELSE calls
    [] OTHER -> {}

(* The whole answer at once: normalizeResponse.  The place of an item is   *)
(* that of its message, once for each item of the message.                 *)
PlacesIn(what, m, i) == FlattenSeq([j \in DOMAIN m |-> IF m[j].is = what THEN <<i>> ELSE <<>>])
Places(what, upTo) == FlattenSeq([i \in 1 .. upTo |-> PlacesIn(what, answer[i], i)])
Opened == UNION {OpenedBy(answer[i]) : i \in DOMAIN answer}
Reason ==
  IF \E i \in DOMAIN answer : Has(answer[i], "end")
    THEN LET i == CHOOSE i \in DOMAIN answer : Has(answer[i], "end")
             j == CHOOSE j \in DOMAIN answer[i] : answer[i][j].is = "end"
         IN answer[i][j].why
    ELSE "other"

ReplyWith(tools, why) ==
  [is |-> "reply", texts |-> Places("text", Len(answer)), tools |-> tools, why |-> why]
OpenAIReply == ReplyWith(Opened, OpenAITold(Reason))
AnthropicReply == ReplyWith(Opened, AnthropicTold(Reason))
MiniMaxReply == ReplyWith({}, MiniMaxTold(Reason))
OllamaReply == ReplyWith(Opened, IF Opened # {} THEN "tool_calls" ELSE "stop")
Reply(k) ==
  CASE k = "openai" -> OpenAIReply
    [] k = "anthropic" -> AnthropicReply
    [] k = "minimax" -> MiniMaxReply
    [] k = "ollama" -> OllamaReply

-----------------------------------------------------------------------------
(* Steps of an attempt of kind k; its vendor gives one of answers.         *)

OpenStream(answers) ==
  /\ answer' \in answers
  /\ read' = 0
  /\ buffer' = <<>>
  /\ lines' = <<>>
  /\ calls' = {}
  /\ heard' = <<>>

(* The generator of a failed attempt is gone with what it had. *)
Discard ==
  /\ answer' = <<>>
  /\ read' = 0
  /\ buffer' = <<>>
  /\ lines' = <<>>
  /\ calls' = {}
  /\ heard' = <<>>

(* Half-line 2i - 1 is message i without its newline, 2i the newline.  A   *)
(* line whose first half is missing is no JSON.                            *)
Extent(k) == IF Framed(k) THEN 2 * Len(answer) ELSE Len(answer)
LinesOf(bytes) ==
  LET ends == Those(bytes, {j \in DOMAIN bytes : bytes[j] % 2 = 0})
  IN [j \in DOMAIN ends |-> IF Contains(bytes, ends[j] - 1) THEN ends[j] \div 2 ELSE 0]
Remainder(bytes) == IF bytes # <<>> /\ Last(bytes) % 2 = 1 THEN <<Last(bytes)>> ELSE <<>>

(* Mutant of Receive: what follows the last newline is thrown away. *)
ReceiveUnbuffered(k, n) ==
  /\ lines = <<>>
  /\ read + n <= Extent(k)
  /\ n = 1 \/ Framed(k)
  /\ read' = read + n
  /\ LET bytes == [j \in 1 .. n |-> read + j]
     IN lines' = IF Framed(k) THEN LinesOf(bytes) ELSE bytes
  /\ UNCHANGED <<answer, buffer, calls, heard>>

(* reader.read returns any number of bytes; the SDKs hand over one event.  *)
Receive(k, n) ==
  /\ lines = <<>>
  /\ read + n <= Extent(k)
  /\ read' = read + n
  /\ LET bytes == buffer \o [j \in 1 .. n |-> read + j]
     IN IF Framed(k) THEN /\ lines' = LinesOf(bytes)
                          /\ buffer' = Remainder(bytes)
                     ELSE /\ n = 1
                          /\ lines' = bytes
                          /\ UNCHANGED buffer
  /\ UNCHANGED <<answer, calls, heard>>

(* The message about to be handled; a torn line is skipped as malformed. *)
Message == IF Head(lines) = 0 THEN <<>> ELSE answer[Head(lines)]

Handle(k) ==
  /\ lines # <<>>
  /\ ~Has(Message, "fault")
  /\ heard' = heard \o Chunks(k, Message, Head(lines))
  /\ calls' = CallsAfter(k, Message)
  /\ lines' = Tail(lines)
  /\ UNCHANGED <<answer, read, buffer>>

(* An error in the middle: the SDK throws, or checkBodyError. *)
Faulty == lines # <<>> /\ Has(Message, "fault")

(* mapError and handleFetchError: the code of the error thrown for what    *)
(* the vendor, the network or the caller did.  The SDK adapters take an    *)
(* abort for a fault of the provider.                                      *)
Mishap == {"auth", "rate", "model", "filter", "server", "abort"}
Code == [auth |-> "AUTH_ERROR", rate |-> "RATE_LIMIT", model |-> "MODEL_NOT_FOUND",
         filter |-> "CONTENT_FILTERED", server |-> "PROVIDER_ERROR", abort |-> "ABORTED"]
Among(told, mishap) == IF mishap \in told THEN Code[mishap] ELSE "PROVIDER_ERROR"
OpenAIError(mishap) == Among({"auth", "rate", "model", "filter"}, mishap)
AnthropicError(mishap) == Among({"auth", "rate", "model"}, mishap)
MiniMaxError(mishap) == Among({"auth", "rate", "abort"}, mishap)
OllamaError(mishap) == Among({"abort"}, mishap)
ErrorOf(k, mishap) ==
  CASE k = "openai" -> OpenAIError(mishap)
    [] k = "anthropic" -> AnthropicError(mishap)
    [] k = "minimax" -> MiniMaxError(mishap)
    [] k = "ollama" -> OllamaError(mishap)
=============================================================================
