----------------------------- MODULE Guardrails -----------------------------
(***************************************************************************)
(* The checks of the guardrail engine over the text of a request.  A text  *)
(* is a sequence of atoms, a matcher a set of words (sequences of atoms):  *)
(* a regular expression is known by the spans it finds.  Some words are    *)
(* found wherever they occur, others only where what is around them lets   *)
(* them: between word boundaries, or where a greedy match passes its test. *)
(*                                                                         *)
(* A request is a record: messages (role, parts, the arguments of the      *)
(* tool calls an assistant message carries, and whether it names the call  *)
(* a tool message answers), tools (description and parameters), user, and  *)
(* apart, the fields no check looks at.  A part is a text, an image by URL *)
(* (its text is the URL) or an image in base64.                            *)
(***************************************************************************)
EXTENDS Naturals, FiniteSets, Sequences, SequencesExt

CONSTANTS
  Atom,       \* what texts are made of
  Mask,       \* what a redacted span becomes: a text of its own
  Bare,       \* atoms a JSON text cannot lose, as a number outside a string
  MaxInput,   \* the longest text a blocklist looks at
  Bounded,    \* words that count only where they stand: \b, Luhn, greedy
  Stands(_, _, _)   \* whether a bounded word stands in a text at a place

Texts == Seq(Atom)

ASSUME GuardrailAssumption ==
  /\ Mask \in Texts \ {<<>>}
  /\ MaxInput \in Nat

-----------------------------------------------------------------------------
(* Requests, and the checks of a policy.                                   *)

Parts == [is : {"text", "url", "base64"}, text : Texts]
Messages ==
  [role : {"system", "user", "assistant", "tool"}, parts : Seq(Parts), calls : Seq(Texts), answers : BOOLEAN]
Tools == [description : Texts, parameters : Texts]
Apart == {"model", "stop", "toolNames", "toolChoice", "jsonSchema", "toolCallIds"}
Requests == [messages : Seq(Messages), tools : Seq(Tools), user : Texts, apart : [Apart -> Texts]]

Checks ==
  [kind : {"pii", "blocklist", "injection", "moderation"}, enabled : BOOLEAN,
   action : {"block", "redact", "warn"}, words : SUBSET Texts, threshold : Nat, failClosed : BOOLEAN]

-----------------------------------------------------------------------------
(* Spans.                                                                  *)

OccursAt(word, text, n) ==
  n + Len(word) - 1 <= Len(text) /\ SubSeq(text, n, n + Len(word) - 1) = word
Occurs(word, text) == \E n \in DOMAIN text : OccursAt(word, text, n)

(* Where a regular expression would match. *)
FoundAt(word, text, n) ==
  OccursAt(word, text, n) /\ (word \in Bounded => Stands(word, text, n))

(* What a global regular expression finds: from left to right, each match  *)
(* after the end of the one before, but for one of no width.               *)
Matches(word, text) ==
  LET From[n \in 1 .. Len(text) + 1] ==
        IF word = <<>> \/ n + Len(word) - 1 > Len(text) THEN {}
        ELSE IF FoundAt(word, text, n)
               THEN {<<n, n + Len(word) - 1>>} \cup From[n + Len(word)]
               ELSE From[n + 1]
  IN From[1]

Oversize(check, text) == check.kind = "blocklist" /\ Len(text) > MaxInput

(* makeMatcher: the spans of every detector, or none in an oversize text.  *)
Found(check, text) ==
  IF Oversize(check, text) THEN {}
  ELSE UNION {Matches(word, text) : word \in check.words}

(* Mutant of Redacted: a span is cut one short of its end. *)
RedactedShort(text, spans) ==
  FlattenSeq([i \in DOMAIN text |->
    IF \E s \in spans : s[1] = i THEN Mask
    ELSE IF \E s \in spans : s[1] < i /\ i < s[2] THEN <<>> ELSE <<text[i]>>])

(* applyRedactions over mergeSpans: spans that overlap become one, and     *)
(* each merged span one mask; spans that only touch stay apart.            *)
Redacted(text, spans) ==
  LET Covered(i) == \E s \in spans : s[1] <= i /\ i <= s[2]
      GoesOn(i) == \E s \in spans : s[1] < i /\ i <= s[2]
  IN FlattenSeq([i \in DOMAIN text |->
       IF ~Covered(i) THEN <<text[i]>> ELSE IF GoesOn(i) THEN <<>> ELSE Mask])

-----------------------------------------------------------------------------
(* Segments: a locator is <<channel, message or tool, block>>.             *)

Scanned(m) == {j \in DOMAIN m.parts : m.parts[j].is # "base64"}
MessageSegments(r) ==
  UNION {{<<"message", i, j>> : j \in Scanned(r.messages[i])} : i \in DOMAIN r.messages}
CallSegments(r) ==
  UNION {{<<"tool_call_args", i, j>> : j \in DOMAIN r.messages[i].calls} : i \in DOMAIN r.messages}
ToolSegments(r) ==
  {<<"tool_def", i, 0>> : i \in {i \in DOMAIN r.tools : r.tools[i].description # <<>>}}
  \cup {<<"tool_def", i, 1>> : i \in DOMAIN r.tools}
UserSegments(r) == IF r.user = <<>> THEN {} ELSE {<<"user", 0, 0>>}

Segments(r) == MessageSegments(r) \cup CallSegments(r) \cup ToolSegments(r) \cup UserSegments(r)

TextAt(r, s) ==
  CASE s[1] = "message" -> r.messages[s[2]].parts[s[3]].text
    [] s[1] = "tool_call_args" -> r.messages[s[2]].calls[s[3]]
    [] s[1] = "tool_def" -> IF s[3] = 0 THEN r.tools[s[2]].description ELSE r.tools[s[2]].parameters
    [] s[1] = "user" -> r.user

(* reparseParams: redacted parameters that are JSON no more are given up,  *)
(* with every redaction in them.                                           *)
Unparsable(text, spans) ==
  \E s \in spans : \E i \in s[1] .. s[2] : text[i] \in Bare

Clean(check, text) == Redacted(text, Found(check, text))
CleanPart(check, p) == IF p.is = "base64" THEN p ELSE [p EXCEPT !.text = Clean(check, p.text)]
CleanMessage(check, m) == [m EXCEPT !.parts = [j \in DOMAIN m.parts |-> CleanPart(check, m.parts[j])]]
CleanParameters(check, text) == IF Unparsable(text, Found(check, text)) THEN text ELSE Clean(check, text)
CleanTool(check, t) ==
  [t EXCEPT !.description = Clean(check, t.description), !.parameters = CleanParameters(check, t.parameters)]

(* applySegmentRedactions: the arguments of tool calls are not written     *)
(* back.                                                                   *)
Rewritten(check, r) ==
  [r EXCEPT !.messages = [i \in DOMAIN r.messages |-> CleanMessage(check, r.messages[i])],
            !.tools = [i \in DOMAIN r.tools |-> CleanTool(check, r.tools[i])],
            !.user = Clean(check, r.user)]

-----------------------------------------------------------------------------
(* The checks.  Each tells where it found something.                       *)

SpanFindings(check, r) == {s \in Segments(r) : Found(check, TextAt(r, s)) # {}}

(* scanTexts: what the user, the system prompt and tool calls say. *)
InjectionTexts(r) ==
  {s \in Segments(r) : \/ s[1] = "message" /\ r.messages[s[2]].role \in {"user", "system"}
                       \/ s[1] = "tool_call_args"}

(* A phrase of which normalize leaves nothing is in every text. *)
Hits(r, words) ==
  {h \in InjectionTexts(r) \X words : h[2] = <<>> \/ Occurs(h[2], TextAt(r, h[1]))}

InjectionFindings(check, r) ==
  IF Cardinality(Hits(r, check.words)) < check.threshold THEN {} ELSE {<<"message", 0, 0>>}

ModeratedTexts(r) ==
  {s \in Segments(r) : s[1] \in {"message", "tool_call_args"} /\ TextAt(r, s) # <<>>}

(* What the moderator answers: nothing to say, a flag in a category the    *)
(* policy asks about or in none of them, no verdict.                       *)
Verdict == {"clean", "flagged", "unasked", "outage"}

ModerationFindings(check, r, verdict) ==
  IF ModeratedTexts(r) # {} /\ verdict \in {"flagged", "outage"} THEN {<<"message", 0, 0>>} ELSE {}

(* check.run.  Only moderation depends on a verdict; an outage of it       *)
(* passes through unless the check fails closed.                           *)
Findings(check, r, verdict) ==
  CASE check.kind \in {"pii", "blocklist"} -> SpanFindings(check, r)
    [] check.kind = "injection" -> InjectionFindings(check, r)
    [] check.kind = "moderation" -> ModerationFindings(check, r, verdict)

PassesThrough(check, verdict) ==
  check.kind = "moderation" /\ verdict = "outage" /\ ~check.failClosed

Blocks(check, r, verdict) ==
  /\ check.action = "block"
  /\ Findings(check, r, verdict) # {}
  /\ ~PassesThrough(check, verdict)

(* The request as the next check sees it; a redacting check without spans  *)
(* to redact (injection, moderation) leaves it alone.                      *)
After(check, r) ==
  IF check.action = "redact" /\ check.kind \in {"pii", "blocklist"} THEN Rewritten(check, r) ELSE r
=============================================================================
