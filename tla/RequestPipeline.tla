--------------------------- MODULE RequestPipeline --------------------------
(***************************************************************************)
(* A call of the gateway from the request to the last chunk: the checks of *)
(* its guardrail policy, then attempts through a RetryDecorator or the     *)
(* providers of a FallbackChain, each reading one vendor's answer.  What   *)
(* the attempts look at is the signal of the gateway, which a timer or the *)
(* caller's abort aborts at any moment once it is made; the caller may     *)
(* abort before.  Breaker and router are in GatewayCalls and taken as      *)
(* letting the call through.                                               *)
(***************************************************************************)
EXTENDS Guardrails, StreamAdapters

CONSTANTS
  Calls,       \* the calls made: policy, request, way, chain, stream, vendor
  Answer,      \* what each vendor answers, by kind
  MaxRetries,  \* retry.maxRetries
  NoPrompt     \* nothing was sent yet

ASSUME PipelineAssumption ==
  /\ MaxRetries \in Nat
  /\ \A n \in DOMAIN Calls :
       /\ Calls[n].way \in {"retry", "fallback"}
       /\ Calls[n].chain \in Seq(Kind) \ {<<>>}
       /\ Calls[n].way = "retry" => Len(Calls[n].chain) = 1
       /\ Calls[n].stream \in BOOLEAN
       /\ Calls[n].request \in Requests
       /\ Calls[n].policy.enabled \in BOOLEAN
       /\ Calls[n].policy.checks \in Seq(Checks)
       /\ \A i \in DOMAIN Calls[n].policy.checks : IsFiniteSet(Calls[n].policy.checks[i].words)

(* Vendors keep to their protocols. *)
ASSUME AnswerAssumption ==
  \A v \in {Calls[n].vendor : n \in DOMAIN Calls} : \A k \in Kind :
    \A a \in Answer[v][k] : Lawful(k, a)

VARIABLES
  id,        \* the call
  phase,     \* where it is
  checked,   \* checks of the policy that have run
  guarded,   \* the request as the checks leave it
  attempt,   \* the loop counter of the decorator or the chain
  early,     \* the caller aborted before the gateway made its signal
  aborted,   \* the gateway's signal is aborted
  prompt,    \* what the vendor was sent last
  skipped,   \* history: <<check, segment>> that a check could not clean
  altered    \* history: <<check, segment>> whose text a check changed

pipeVars == <<id, checked, guarded, skipped, altered>>
vars == <<pipeVars, phase, attempt, early, aborted, prompt, adapterVars>>

call == Calls[id]

Ended == {"done", "blocked", "failed"}
Phase == {"fresh", "checking", "ready", "open", "backoff"} \cup Ended

(* The provider of the attempt. *)
Provider == IF call.way = "retry" THEN call.chain[1] ELSE call.chain[attempt + 1]
MaxAttempt == IF call.way = "retry" THEN MaxRetries ELSE Len(call.chain) - 1

TypeOK ==
  /\ id \in DOMAIN Calls
  /\ phase \in Phase
  /\ checked \in Nat
  /\ attempt \in 0 .. MaxAttempt
  /\ early \in BOOLEAN
  /\ aborted \in BOOLEAN

Init ==
  /\ id \in DOMAIN Calls
  /\ phase = "fresh"
  /\ checked = 0
  /\ guarded = call.request
  /\ attempt = 0
  /\ early = FALSE
  /\ aborted = FALSE
  /\ prompt = NoPrompt
  /\ skipped = {}
  /\ altered = {}
  /\ AdapterInit

-----------------------------------------------------------------------------
(* The signal.                                                             *)

(* The caller's signal is aborted before the call, or while ensureFresh is *)
(* awaited.                                                                *)
AbortEarly ==
  /\ phase = "fresh"
  /\ ~early
  /\ early' = TRUE
  /\ UNCHANGED <<pipeVars, phase, attempt, aborted, prompt, adapterVars>>

(* Mutant of MakeSignal: the signal of a stream, too, only listens. *)
MakeSignalListening ==
  /\ phase = "fresh"
  /\ phase' = "checking"
  /\ UNCHANGED <<pipeVars, attempt, early, aborted, prompt, adapterVars>>

(* createIdleTimeoutSignal looks whether the caller's signal is aborted    *)
(* already; createTimeoutSignal, of a call without a stream, only listens. *)
MakeSignal ==
  /\ phase = "fresh"
  /\ phase' = "checking"
  /\ aborted' = (early /\ call.stream)
  /\ UNCHANGED <<pipeVars, attempt, early, prompt, adapterVars>>

(* The caller aborts, or the timer of the signal fires; a backoff under    *)
(* way ends the call.                                                      *)
Abort ==
  /\ ~aborted
  /\ phase \notin Ended \cup {"fresh"}
  /\ aborted' = TRUE
  /\ phase' = IF phase = "backoff" THEN "failed" ELSE phase
  /\ UNCHANGED <<pipeVars, attempt, early, prompt, adapterVars>>

-----------------------------------------------------------------------------
(* The engine: one check after the other, each over the request as the     *)
(* checks before it left it.                                               *)

Policy == IF call.policy.enabled THEN call.policy.checks ELSE <<>>

(* History: what the check leaves although it looks for it. *)
Missed(check) ==
  {s \in Segments(guarded) :
     LET text == TextAt(guarded, s)
     IN \/ Oversize(check, text)
        \/ /\ check.action = "redact"
           /\ \/ s[1] = "tool_call_args"
              \/ s[1] = "tool_def" /\ s[3] = 1 /\ Unparsable(text, Found(check, text))}

(* History: the segments whose text this step changes. *)
Changed == {s \in Segments(guarded) : TextAt(guarded', s) # TextAt(guarded, s)}

(* Mutant of RunCheck: every check sees the request as it came, and the    *)
(* last redaction wins.                                                    *)
RunCheckOnOriginal(verdict) ==
  LET check == Policy[checked + 1]
  IN /\ phase = "checking"
     /\ checked < Len(Policy)
     /\ verdict # "clean" => check.kind = "moderation"
     /\ checked' = checked + 1
     /\ phase' = IF check.enabled /\ Blocks(check, call.request, verdict) THEN "blocked" ELSE "checking"
     /\ guarded' = IF check.enabled /\ Findings(check, call.request, verdict) # {}
                     THEN After(check, call.request) ELSE guarded
     /\ skipped' = skipped \cup {<<checked + 1, s>> : s \in Missed(check)}
     /\ altered' = altered \cup {<<checked + 1, s>> : s \in Changed}
     /\ UNCHANGED <<id, attempt, early, aborted, prompt, adapterVars>>

RunCheck(verdict) ==
  LET check == Policy[checked + 1]
  IN /\ phase = "checking"
     /\ checked < Len(Policy)
     /\ verdict # "clean" => check.kind = "moderation"
     /\ checked' = checked + 1
     /\ phase' = IF check.enabled /\ Blocks(check, guarded, verdict) THEN "blocked" ELSE "checking"
     /\ guarded' = IF check.enabled /\ phase' # "blocked" THEN After(check, guarded) ELSE guarded
     /\ skipped' = skipped \cup {<<checked + 1, s>> : s \in Missed(check)}
     /\ altered' = altered \cup {<<checked + 1, s>> : s \in Changed}
     /\ UNCHANGED <<id, attempt, early, aborted, prompt, adapterVars>>

Passed ==
  /\ phase = "checking"
  /\ checked = Len(Policy)
  /\ phase' = "ready"
  /\ UNCHANGED <<pipeVars, attempt, early, aborted, prompt, adapterVars>>

-----------------------------------------------------------------------------
(* Attempts.                                                               *)

(* RetryDecorator.shouldRetry; a chain goes on after every error. *)
Retryable == {"RATE_LIMIT", "PROVIDER_ERROR"}

Fail(error) ==
  /\ Discard
  /\ IF attempt < MaxAttempt /\ call.way = "fallback"
       THEN phase' = "ready" /\ attempt' = attempt + 1
       ELSE /\ phase' = IF attempt < MaxAttempt /\ error \in Retryable THEN "backoff" ELSE "failed"
            /\ UNCHANGED attempt

(* The provider's own checks, before anything is sent: validateRequest,    *)
(* checkAbort, mapMessages.                                                *)
Refuse ==
  /\ phase = "ready"
  /\ \/ guarded.messages = <<>> /\ Fail("VALIDATION_ERROR")
     \/ guarded.messages # <<>> /\ aborted /\ Fail("ABORTED")
     \/ ~aborted /\ Unsendable(Provider, guarded) /\ Fail("VALIDATION_ERROR")
  /\ UNCHANGED <<pipeVars, early, aborted, prompt>>

Ask ==
  /\ phase = "ready"
  /\ guarded.messages # <<>>
  /\ ~aborted
  /\ ~Unsendable(Provider, guarded)
  /\ phase' = "open"
  /\ prompt' = Prompt(Provider, guarded)
  /\ OpenStream(Answer[call.vendor][Provider])
  /\ UNCHANGED <<pipeVars, attempt, early, aborted>>

(* The vendor refuses, or the network fails, at any moment. *)
Break(mishap) ==
  /\ phase = "open"
  /\ mishap = "server" \/ read = 0
  /\ Fail(ErrorOf(Provider, mishap))
  /\ UNCHANGED <<pipeVars, early, aborted, prompt>>

Arrive(n) ==
  /\ phase = "open"
  /\ call.stream
  /\ Receive(Provider, n)
  /\ UNCHANGED <<pipeVars, phase, attempt, early, aborted, prompt>>

(* The SDK adapters look at the signal before each event, the others       *)
(* before each read only.                                                  *)
Yield ==
  /\ phase = "open"
  /\ Framed(Provider) \/ ~aborted
  /\ Handle(Provider)
  /\ UNCHANGED <<pipeVars, phase, attempt, early, aborted, prompt>>

Fault ==
  /\ phase = "open"
  /\ Faulty
  /\ \E m \in {"auth", "rate", "server"} :
       /\ m # "server" => Provider = "minimax"
       /\ Fail(ErrorOf(Provider, m))
  /\ UNCHANGED <<pipeVars, early, aborted, prompt>>

(* The body ends, where the vendor or the network ends it.  A chain takes  *)
(* a stream without a chunk for a failure.                                 *)
Finish ==
  /\ phase = "open"
  /\ call.stream
  /\ lines = <<>>
  /\ IF call.way = "fallback" /\ heard = <<>>
       THEN Fail("EMPTY")
       ELSE phase' = "done" /\ UNCHANGED <<attempt, adapterVars>>
  /\ UNCHANGED <<pipeVars, early, aborted, prompt>>

(* chatCompletion: the answer at once; OpenAI and MiniMax want a choice. *)
Complete ==
  /\ phase = "open"
  /\ ~call.stream
  /\ IF answer = <<>> /\ Provider \in {"openai", "minimax"}
       THEN Fail("PROVIDER_ERROR")
       ELSE /\ phase' = "done"
            /\ heard' = <<Reply(Provider)>>
            /\ UNCHANGED <<attempt, answer, read, buffer, lines, calls>>
  /\ UNCHANGED <<pipeVars, early, aborted, prompt>>

(* Mutant of Cancel: the signal is not handed to fetch, only looked at     *)
(* when something arrives.                                                 *)
CancelBetweenEvents ==
  /\ phase = "open"
  /\ aborted
  /\ read > 0
  /\ IF Framed(Provider) THEN lines = <<>> ELSE lines # <<>>
  /\ Fail(ErrorOf(Provider, "abort"))
  /\ UNCHANGED <<pipeVars, early, aborted, prompt>>

(* The aborted signal rejects a pending request or read, or is seen by     *)
(* checkAbort.                                                             *)
Cancel ==
  /\ phase = "open"
  /\ aborted
  /\ Framed(Provider) => lines = <<>>
  /\ Fail(ErrorOf(Provider, "abort"))
  /\ UNCHANGED <<pipeVars, early, aborted, prompt>>

(* The backoff is over; a signal that was aborted before it began does not *)
(* cut it short, one aborted during it ends the call.                      *)
WakeUp ==
  /\ phase = "backoff"
  /\ phase' = "ready"
  /\ attempt' = attempt + 1
  /\ UNCHANGED <<pipeVars, early, aborted, prompt, adapterVars>>

-----------------------------------------------------------------------------
(* What the process does by itself, and what takes a moderator, a vendor   *)
(* or the configuration's source.                                          *)
AsksModerator ==
  /\ phase = "checking"
  /\ checked < Len(Policy)
  /\ LET check == Policy[checked + 1]
     IN check.enabled /\ check.kind = "moderation" /\ ModeratedTexts(guarded) # {}

Own ==
  \/ ~AsksModerator /\ \E v \in Verdict : RunCheck(v)
  \/ Passed \/ Refuse \/ Yield \/ Fault \/ Cancel \/ WakeUp

Vendor ==
  \/ Ask
  \/ \E m \in Mishap \ {"abort"} : Break(m)
  \/ \E n \in 1 .. Extent(Provider) : Arrive(n)
  \/ Finish \/ Complete

Moderator == AsksModerator /\ \E v \in Verdict : RunCheck(v)

Next == Own \/ Moderator \/ Vendor \/ AbortEarly \/ MakeSignal \/ Abort

(* Fair: the process and its timers go on.  A vendor may stall for ever,   *)
(* and so may a moderator: moderate takes no signal and no timeout.        *)
Spec == Init /\ [][Next]_vars /\ WF_vars(Own)

-----------------------------------------------------------------------------
(* Properties.                                                             *)

PartTexts(m) == {m.parts[j].text : j \in DOMAIN m.parts}
TextsOf(messages) == UNION {PartTexts(messages[i]) : i \in DOMAIN messages}
ToolTexts(tools) == UNION {{tools[i].description, tools[i].parameters} : i \in DOMAIN tools}
PromptTexts == TextsOf(prompt.messages) \cup ToolTexts(prompt.tools) \cup {prompt.user}
GuardedTexts == TextsOf(guarded.messages) \cup ToolTexts(guarded.tools) \cup {guarded.user, <<>>}

(* What a check looks for, but for words that a mask has. *)
Masking(atom) == \E n \in DOMAIN Mask : Mask[n] = atom
Sought(check) == {word \in check.words : \A n \in DOMAIN word : ~Masking(word[n])}

(* A mask set by the check or by a later one: it may give a bounded word   *)
(* the surroundings it had not when the check looked.                      *)
MaskedSince(i, s) == \E j \in i .. Len(Policy) : <<j, s>> \in altered

Clears(i) ==
  LET check == Policy[i]
      LeftOver(word, s) ==
        /\ \E n \in DOMAIN TextAt(guarded, s) : FoundAt(word, TextAt(guarded, s), n)
        /\ word \in Bounded => ~MaskedSince(i, s)
      Left(s) == <<i, s>> \notin skipped /\ \E word \in Sought(check) \ {<<>>} : LeftOver(word, s)
  IN check.enabled /\ check.kind # "moderation" /\ check.action # "warn" =>
       IF check.kind = "injection"
         THEN check.action = "block" => Cardinality(Hits(guarded, Sought(check))) < check.threshold
         ELSE ~\E s \in Segments(guarded) : Left(s)

(* The first check that redacts leaves no atom of a span it finds, and     *)
(* alone it takes no other, but for what looks like a mask already.        *)
Unmasked(text) == {n \in DOMAIN text : ~Masking(text[n])}
Redacts(i) == LET c == Policy[i] IN c.enabled /\ c.action = "redact" /\ c.kind \in {"pii", "blocklist"}
Masked(i) ==
  \A s \in Segments(guarded) : <<i, s>> \notin skipped =>
    LET was == TextAt(call.request, s)
        bare == {n \in Unmasked(was) : ~\E p \in Found(Policy[i], was) : p[1] <= n /\ n <= p[2]}
        left == Unmasked(TextAt(guarded, s))
    IN /\ Cardinality(left) <= Cardinality(bare)
       /\ (\A h \in DOMAIN Policy \ {i} : ~Redacts(h)) => Cardinality(left) = Cardinality(bare)

(* Messages, tool descriptions and parameters and user, as they leave for  *)
(* a vendor in whichever attempt of whichever provider, have passed every  *)
(* check that redacts or blocks, in the order of the policy and after all  *)
(* of them: no text of them still has what a check looks for, or a piece   *)
(* of it, but for a text beyond the blocklist's limit when it looked, for  *)
(* parameters of a tool a redaction would break, for the arguments of tool *)
(* calls, which no adapter sends, and for a bounded word in a text masked  *)
(* since; and nothing else is taken out.  The fields apart (model, stop,   *)
(* names and choice of tools, response schema, ids of tool calls) leave as *)
(* they came, scanned by none.                                             *)
SentIsGuarded ==
  prompt # NoPrompt =>
    /\ PromptTexts \subseteq GuardedTexts
    /\ \A f \in DOMAIN prompt.apart : prompt.apart[f] = call.request.apart[f]
    /\ \A i \in DOMAIN Policy :
         /\ Clears(i)
         /\ Redacts(i) /\ (\A h \in 1 .. i - 1 : ~Redacts(h)) => Masked(i)

(* The messages of the answer that have arrived whole and were handled. *)
Arrived == IF Framed(Provider) THEN read \div 2 ELSE read
Handled == 1 .. Arrived - Len(lines)
PlacesTold(what, s) == FlattenSeq([j \in DOMAIN s |-> IF s[j].is = what THEN <<s[j].at>> ELSE <<>>])
Billable(i) ==
  /\ Has(answer[i], "end")
  /\ Provider \in {"anthropic", "ollama"} \/ Has(answer[i], "usage")
Completions == {j \in DOMAIN heard : heard[j].is = "finish" /\ heard[j].usage}

(* However the network cuts the answer, the caller has heard of it, in the *)
(* attempt that reads it, what arrived in whole messages: the text in      *)
(* order, every fragment of a tool call's arguments that came after the    *)
(* opening, under the call it belongs to and after its start.  Arguments   *)
(* in the opening delta (OpenAI) and tool calls in a stream of Ollama are  *)
(* told by nothing.                                                        *)
SaidAsArrived ==
  /\ PlacesTold("text", heard) = Places("text", Arrived - Len(lines))
  /\ Provider \in {"openai", "anthropic"} => PlacesTold("delta", heard) = Places("args", Arrived - Len(lines))
  /\ \A j \in DOMAIN heard : heard[j].is = "delta" =>
       /\ \E l \in 1 .. j - 1 : heard[l] = StartChunk(heard[j].tool)
       /\ \E l \in DOMAIN answer[heard[j].at] :
            answer[heard[j].at][l].is = "args" /\ answer[heard[j].at][l].tool = heard[j].tool

(* In an attempt the chunk that completes a turn comes exactly if the      *)
(* vendor's end came with its usage, once, and after it nothing but        *)
(* another finish; an answer cut at the token limit is told so, except by  *)
(* Ollama.                                                                 *)
EndAsArrived ==
  /\ Cardinality(Completions) <= 1
  /\ Completions # {} <=> \E i \in Handled : Billable(i)
  /\ \A j \in DOMAIN heard : heard[j].is = "finish" =>
       /\ \A l \in j .. Len(heard) : heard[l].is = "finish"
       /\ (\A l \in 1 .. j - 1 : heard[l].is # "finish") /\ Provider # "ollama" /\ Reason = "length"
            => heard[j].why = "length"

(* Of each attempt by itself: the chunks of one that failed in the middle  *)
(* are not taken back, and the next tells its answer from the start.       *)
AnswerIsFaithful ==
  phase \in {"open", "done"} /\ call.stream => SaidAsArrived /\ EndAsArrived

(* Once the gateway's signal is aborted, by the caller or by its timer,    *)
(* the call ends although its vendor never answers again: through the      *)
(* pending read, the retries and their backoff, the other providers of a   *)
(* chain; unless it waits for a moderator, who knows of no signal.  An     *)
(* abort before the signal was made reaches a stream only.                 *)
Signalled == aborted \/ (early /\ call.stream /\ phase # "fresh")
AbortEndsCall == Signalled ~> (phase \in Ended \/ AsksModerator)
=============================================================================
