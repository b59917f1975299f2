-------------------------- MODULE MCRequestPipeline --------------------------
(***************************************************************************)
(* Calls of two sorts: requests full of things to find, under every policy *)
(* of two checks, answered shortly; and plain requests, answered in every  *)
(* way of at most MaxAnswer lines or MaxAnswer + 1 events.                 *)
(***************************************************************************)
EXTENDS RequestPipeline

CONSTANT MaxAnswer   \* bound: lines of an answer; events are one more

-----------------------------------------------------------------------------
(* Answers: lawful, the tools opened in their order and once, texts and    *)
(* the end outside of Anthropic's blocks, a trailer only after the end.    *)
Text == [is |-> "text"]
End(why) == [is |-> "end", why |-> why]
Usage == [is |-> "usage"]
OpenTool(t) == [is |-> "open", tool |-> t, args |-> FALSE]
OpenFull(t) == [is |-> "open", tool |-> t, args |-> TRUE]
ArgsOf(t) == [is |-> "args", tool |-> t]
Item(what) == [is |-> what]

Shapes(k) ==
  CASE k = "openai" ->
         {<<Text>>, <<OpenTool(1)>>, <<OpenFull(1)>>, <<OpenTool(2)>>, <<ArgsOf(1)>>, <<ArgsOf(2)>>,
          <<Text, End("length")>>, <<End("tool_calls")>>, <<End("stop"), Usage>>, <<Usage>>, <<Item("fault")>>}
    [] k = "anthropic" ->
         {<<Text>>, <<OpenTool(1)>>, <<OpenTool(2)>>, <<ArgsOf(1)>>, <<ArgsOf(2)>>, <<Item("close")>>,
          <<End("length")>>, <<End("tool_calls")>>, <<Item("fault")>>}
    [] k = "minimax" ->
         {<<>>, <<Text>>, <<Text, End("length"), Usage>>, <<End("stop"), Usage>>, <<End("length")>>,
          <<Item("done")>>, <<Item("fault")>>}
    [] k = "ollama" ->
         {<<>>, <<Text>>, <<OpenTool(1)>>, <<End("length")>>, <<Text, End("stop")>>}

(* Of the lawful answers, those that tell cases apart: a call is opened    *)
(* once, the first before the second, its arguments follow, usage comes    *)
(* after the end, and nothing after a fault.                               *)
Orderly(k, a) ==
  /\ \A i \in DOMAIN a : a[i] = <<Usage>> => \E l \in 1 .. i - 1 : Has(a[l], "end")
  /\ \A i \in DOMAIN a : Has(a[i], "fault") => i = Len(a)
  /\ \A t \in 1 .. 2 : \A i \in DOMAIN a :
       /\ a[i] = <<ArgsOf(t)>> => \E l \in 1 .. i - 1 : OpenedBy(a[l]) = {t}
       /\ OpenedBy(a[i]) = {t} => \A l \in 1 .. i - 1 : OpenedBy(a[l]) # {t}
       /\ OpenedBy(a[i]) = {2} => \E l \in 1 .. i - 1 : OpenedBy(a[l]) = {1}
  /\ k = "anthropic" => \A i \in DOMAIN a : (Has(a[i], "end") \/ Has(a[i], "text")) => Block(a, i) = {}

Lawfuls(k, n) == {a \in BoundedSeq(Shapes(k), n) : Lawful(k, a) /\ Orderly(k, a)}
MCAnswer ==
  [any |-> [k \in Kind |-> Lawfuls(k, IF Framed(k) THEN MaxAnswer ELSE MaxAnswer + 1)],
   brief |-> [k \in Kind |-> {<<>>, << <<Text>> >>}]]

-----------------------------------------------------------------------------
(* Requests.  "at" makes an address of what is around it, "num" is a       *)
(* number, "bad" a blocked word, "jail" a phrase of an injection.  A       *)
(* blocked word run together with a number is none, nor is a number of two *)
(* numbers run together; masking one sets the other free.                  *)
MCAtom == {"a", "at", "b", "num", "bad", "jail", "w", "mask"}
MCMask == <<"mask", "mask">>
PiiWords == {<<"a", "at", "b">>, <<"b", "num">>, <<"num">>}
BlockedWords == {<<"bad">>, <<"w", "bad">>}
MCBounded == {<<"num">>, <<"bad">>}
MCStands(word, text, n) == \A j \in {n - 1, n + Len(word)} \cap DOMAIN text : text[j] # "num"

Part(is, text) == [is |-> is, text |-> text]
Msg(role, parts, args) == [role |-> role, parts |-> parts, calls |-> args, answers |-> TRUE]
Req(messages, tools, user) ==
  [messages |-> messages, tools |-> tools, user |-> user, apart |-> [f \in Apart |-> <<"bad">>]]

Plain == Req(<<Msg("user", <<Part("text", <<"w">>)>>, <<>>)>>, <<>>, <<>>)

MCRequests ==
  <<Req(<<Msg("system", <<Part("text", <<"w">>)>>, <<>>),
          Msg("system", <<Part("text", <<"jail">>)>>, <<>>),
          Msg("user", <<Part("text", <<"a", "at", "b", "num", "w">>), Part("base64", <<"num">>)>>, <<>>)>>,
        <<>>, <<"bad", "num">>),
    Req(<<Msg("user", <<Part("text", <<"w", "bad", "num", "bad">>), Part("url", <<"a", "at", "b">>)>>, <<>>)>>,
        <<[description |-> <<"bad">>, parameters |-> <<"w", "b", "num">>]>>, <<>>),
    Req(<<Msg("assistant", <<Part("text", <<"w">>)>>, << <<"jail", "num">> >>),
          [Msg("tool", <<Part("text", <<"num", "num">>)>>, <<>>) EXCEPT !.answers = FALSE],
          Msg("user", <<Part("text", <<"bad">>)>>, <<>>)>>,
        <<[description |-> <<>>, parameters |-> <<"a", "at", "b">>]>>, <<"bad">>),
    Req(<<Msg("user", <<Part("text", <<"w", "num", "w", "bad">>)>>, <<>>)>>, <<>>, <<>>),
    Req(<<>>, <<>>, <<>>) >>

Check(kind, action, words, threshold) ==
  [kind |-> kind, enabled |-> TRUE, action |-> action, words |-> words,
   threshold |-> threshold, failClosed |-> FALSE]

Failing(check, closed) == [check EXCEPT !.failClosed = closed]
MCChecks ==
  <<Check("pii", "redact", PiiWords, 1), Check("pii", "block", PiiWords, 1), Check("pii", "warn", PiiWords, 1),
    Check("blocklist", "redact", BlockedWords, 1), Check("blocklist", "block", BlockedWords, 1),
    Check("injection", "block", {<<"jail">>}, 1), Check("injection", "block", {<<"jail">>}, 2),
    Failing(Check("moderation", "block", {}, 1), TRUE), Failing(Check("moderation", "block", {}, 1), FALSE),
    [Check("pii", "redact", PiiWords, 1) EXCEPT !.enabled = FALSE]>>

Off == [enabled |-> FALSE, checks |-> <<Check("pii", "block", PiiWords, 1)>>]

-----------------------------------------------------------------------------
Retry(k) == [way |-> "retry", chain |-> <<k>>]
Fallback(k, l) == [way |-> "fallback", chain |-> <<k, l>>]
MakeCall(policy, request, c, stream, vendor) ==
  [policy |-> policy, request |-> request, way |-> c.way, chain |-> c.chain,
   stream |-> stream, vendor |-> vendor]

Kinds == <<"openai", "anthropic", "minimax", "ollama">>
Guarded ==
  [n \in 1 .. 2000 |->
     MakeCall([enabled |-> TRUE, checks |-> <<MCChecks[1 + (n % 10)], MCChecks[1 + ((n \div 10) % 10)]>>],
              MCRequests[1 + ((n \div 100) % 5)], Fallback(Kinds[1 + ((n \div 500) % 4)], "openai"), FALSE, "brief")]
Streamed ==
  [n \in 1 .. 4 |-> MakeCall(Off, Plain, Retry(Kinds[n]), TRUE, "any")]
  \o [n \in 1 .. 4 |-> MakeCall(Off, Plain, Fallback(Kinds[n], Kinds[1 + (n % 4)]), TRUE, "any")]
Asked == [n \in 1 .. 4 |-> MakeCall(Off, Plain, Retry(Kinds[n]), FALSE, "any")]

MCCalls == Guarded \o Streamed \o Asked
=============================================================================
