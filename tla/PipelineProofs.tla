--------------------------- MODULE PipelineProofs ---------------------------
(***************************************************************************)
(* What leaves for a vendor has been guarded, for any texts, words and     *)
(* policies; and what the caller hears is what arrived, however the        *)
(* network cuts the answer, for any lawful answer of any length.           *)
(***************************************************************************)
EXTENDS RequestPipeline, FiniteSetTheorems, SequenceTheorems, WellFoundedInduction, TLAPS

-----------------------------------------------------------------------------
(* Induction.  A property of numbers is the set of those that have it: a   *)
(* number without it would have a least one below it.                      *)

(* A set with 0 and the successors of its members has every number. *)
LEMMA Induction ==
  ASSUME NEW S, 0 \in S, \A n \in Nat : n \in S => n + 1 \in S
  PROVE  \A n \in Nat : n \in S
<1> DEFINE T == {n \in Nat : n \notin S}
<1>1. SUFFICES ASSUME T # {} PROVE FALSE
  OBVIOUS
<1>2. PICK x \in T : \A y \in T : ~ (<<y, x>> \in OpToRel(<, Nat))
  BY <1>1, NatLessThanWellFounded, WFMin, Zenon
<1>3. x \in Nat /\ x # 0 /\ x - 1 \in Nat
  OBVIOUS
<1>4. <<x - 1, x>> \in OpToRel(<, Nat)
  BY <1>3 DEF OpToRel
<1>5. x - 1 \notin T
  BY <1>2, <1>4, Zenon
<1> QED BY <1>3, <1>5

(* The first m pieces of a sequence of sequences, put together one by one. *)
Assembled(F, seqs, m, S) ==
  /\ F \in [0 .. m -> Seq(S)]
  /\ F[0] = <<>>
  /\ \A i \in 1 .. m : F[i] = F[i - 1] \o seqs[i]

(* Putting one more piece behind those put together so far. *)
LEMMA OneMorePiece ==
  ASSUME NEW S, NEW seqs \in Seq(Seq(S)), NEW m \in Nat, m + 1 =< Len(seqs),
         NEW F, Assembled(F, seqs, m, S)
  PROVE  \E G : Assembled(G, seqs, m + 1, S)
<1> USE DEF Assembled
<1>0. 0 \in 0 .. m + 1 /\ m + 1 # 0
  OBVIOUS
<1> DEFINE G == [i \in 0 .. m + 1 |-> IF i = m + 1 THEN F[m] \o seqs[m + 1] ELSE F[i]]
<1>1. F[m] \in Seq(S) /\ seqs[m + 1] \in Seq(S)
  OBVIOUS
<1>2. F[m] \o seqs[m + 1] \in Seq(S)
  BY <1>1
<1>3. \A i \in 0 .. m + 1 : i # m + 1 => i \in 0 .. m
  OBVIOUS
<1>4. G \in [0 .. m + 1 -> Seq(S)]
  BY <1>2, <1>3
<1>5. G[0] = <<>>
  <2>1. G[0] = IF 0 = m + 1 THEN F[m] \o seqs[m + 1] ELSE F[0]
    BY <1>0, Zenon
  <2> QED BY <1>0, <2>1
<1>6. ASSUME NEW i \in 1 .. m + 1 PROVE G[i] = G[i - 1] \o seqs[i]
  <2>1. i - 1 \in 0 .. m + 1 /\ i - 1 # m + 1
    OBVIOUS
  <2>2. G[i - 1] = F[i - 1]
    BY <2>1
  <2>3. CASE i = m + 1
    <3>1. i - 1 = m
      BY <2>3
    <3>2. m + 1 \in 0 .. m + 1
      OBVIOUS
    <3>3. G[m + 1] = F[m] \o seqs[m + 1]
      BY <3>2, Zenon
    <3> QED BY <2>2, <2>3, <3>1, <3>3
  <2>4. CASE i # m + 1
    <3>1. i \in 1 .. m /\ G[i] = F[i]
      BY <2>4
    <3> QED BY <2>2, <3>1
  <2> QED BY <2>3, <2>4
<1> HIDE DEF G
<1> QED BY <1>4, <1>5, <1>6

(* The pieces of a sequence of sequences can be put together one by one. *)
LEMMA Assembly ==
  ASSUME NEW S, NEW seqs \in Seq(Seq(S))
  PROVE  \E F : Assembled(F, seqs, Len(seqs), S)
<1> DEFINE Upto == {m \in Nat : m =< Len(seqs) => \E F : Assembled(F, seqs, m, S)}
<1>1. 0 \in Upto
  <2>1. <<>> \in Seq(S)
    OBVIOUS
  <2>2. [i \in 0 .. 0 |-> <<>>] \in [0 .. 0 -> Seq(S)]
    BY <2>1
  <2>3. [i \in 0 .. 0 |-> <<>>][0] = <<>> /\ 1 .. 0 = {}
    OBVIOUS
  <2>4. Assembled([i \in 0 .. 0 |-> <<>>], seqs, 0, S)
    BY <2>2, <2>3 DEF Assembled
  <2> QED BY <2>4
<1>2. ASSUME NEW m \in Nat, m \in Upto PROVE m + 1 \in Upto
  <2>1. ASSUME m + 1 =< Len(seqs) PROVE \E F : Assembled(F, seqs, m + 1, S)
    <3>1. m =< Len(seqs)
      BY <2>1
    <3>2. PICK F : Assembled(F, seqs, m, S)
      BY <1>2, <3>1
    <3> QED BY <2>1, <3>2, OneMorePiece
  <2> QED BY <2>1
<1>3. \A m \in Nat : m \in Upto
  <2> HIDE DEF Upto
  <2> QED BY <1>1, <1>2, Induction
<1>4. Len(seqs) \in Upto
  <2> HIDE DEF Upto
  <2> QED BY <1>3
<1> QED BY <1>4

(* A flattened sequence is what comes of putting its pieces together one   *)
(* by one.                                                                 *)
LEMMA Flattening ==
  ASSUME NEW S, NEW seqs \in Seq(Seq(S)), NEW F, Assembled(F, seqs, Len(seqs), S)
  PROVE  FlattenSeq(seqs) = F[Len(seqs)]
<1> USE DEF Assembled
<1> DEFINE n == Len(seqs)
           Step(g, i) == IF i = 1 THEN seqs[i] ELSE g[i - 1] \o seqs[i]
           flat == CHOOSE g : g = [i \in 1 .. n |-> Step(g, i)]
           grown == [i \in 1 .. n |-> F[i]]
<1>1. n \in Nat /\ \A i \in 1 .. n : seqs[i] \in Seq(S)
  OBVIOUS
<1>2. CASE n = 0
  <2>1. FlattenSeq(seqs) = <<>>
    BY <1>2 DEF FlattenSeq
  <2> QED BY <1>2, <2>1
<1>3. CASE n # 0
  <2>1. ASSUME NEW i \in 1 .. n PROVE F[i] = Step(grown, i)
    <3>1. F[i] = F[i - 1] \o seqs[i] /\ seqs[i] \in Seq(S)
      BY <1>1
    <3>2. i = 1 => F[i - 1] = <<>>
      OBVIOUS
    <3>3. i = 1 => F[i] = seqs[i]
      BY <3>1, <3>2, ConcatEmptySeq, Zenon
    <3>4. i # 1 => i - 1 \in 1 .. n
      BY <1>1
    <3>5. i # 1 => grown[i - 1] = F[i - 1]
      BY <3>4
    <3> HIDE DEF grown, n
    <3> QED BY <3>1, <3>3, <3>5
  <2>2. grown = [i \in 1 .. n |-> Step(grown, i)]
    BY <2>1
  <2>3. flat = [i \in 1 .. n |-> Step(flat, i)]
    <3> HIDE DEF Step, grown, n
    <3> QED BY <2>2, Zenon
  <2>4. FlattenSeq(seqs) = flat[n]
    BY <1>3 DEF FlattenSeq
  <2> HIDE DEF flat
  <2>5. \A i \in 1 .. n : flat[i] = Step(flat, i)
    BY <2>3
  <2> DEFINE Same == {m \in Nat : m + 1 =< n => flat[m + 1] = F[m + 1]}
  <2>6. 0 \in Same
    <3>1. 1 \in 1 .. n
      BY <1>1, <1>3
    <3>2. flat[1] = seqs[1] /\ seqs[1] \in Seq(S)
      BY <1>1, <2>5, <3>1
    <3>3. F[1] = F[1 - 1] \o seqs[1] /\ 1 - 1 = 0
      <4>1. 1 \in 1 .. Len(seqs)
        BY <3>1
      <4>2. F[1] = F[1 - 1] \o seqs[1]
        BY <4>1, Zenon
      <4> QED BY <4>2
    <3>4. F[1] = seqs[1]
      BY <3>2, <3>3, ConcatEmptySeq, Zenon
    <3> QED BY <3>2, <3>4
  <2>7. ASSUME NEW m \in Nat, m \in Same PROVE m + 1 \in Same
    <3> DEFINE j == m + 1 + 1
    <3>1. ASSUME j =< n PROVE flat[j] = F[j]
      <4>1. j \in 1 .. n /\ j # 1 /\ j - 1 = m + 1 /\ m + 1 =< n
        BY <1>1, <3>1
      <4>2. flat[m + 1] = F[m + 1]
        BY <2>7, <4>1
      <4> HIDE DEF j
      <4>3. flat[j] = flat[j - 1] \o seqs[j]
        BY <2>5, <4>1
      <4>4. F[j] = F[j - 1] \o seqs[j]
        BY <4>1
      <4> QED BY <4>1, <4>2, <4>3, <4>4
    <3> QED BY <3>1
  <2>8. \A m \in Nat : m \in Same
    <3> HIDE DEF Same
    <3> QED BY <2>6, <2>7, Induction
  <2>9. n - 1 \in Nat /\ (n - 1) + 1 = n
    BY <1>1, <1>3
  <2>10. n - 1 \in Same
    <3> HIDE DEF Same
    <3> QED BY <2>8, <2>9
  <2> QED BY <2>4, <2>9, <2>10
<1> QED BY <1>2, <1>3

-----------------------------------------------------------------------------
(* Redaction: a mask for each merged span, and everything else as it was.  *)

Covered(spans, n) == \E s \in spans : s[1] <= n /\ n <= s[2]
Continued(spans, n) == \E s \in spans : s[1] < n /\ n <= s[2]

(* What becomes of the place n of a text. *)
Piece(text, spans, n) ==
  IF ~Covered(spans, n) THEN <<text[n]>> ELSE IF Continued(spans, n) THEN <<>> ELSE Mask
Pieces(text, spans) == [n \in DOMAIN text |-> Piece(text, spans, n)]

(* The places a redacted text comes from: an atom that is no mask stands   *)
(* for one place that no span covers, every such place has its atom, and   *)
(* neighbours stay neighbours.                                             *)
Traced(src, text, spans, m, R) ==
  /\ src \in [DOMAIN R -> 1 .. m]
  /\ \A k \in DOMAIN R : ~Masking(R[k]) => ~Covered(spans, src[k]) /\ R[k] = text[src[k]]
  /\ \A k, l \in DOMAIN R : ~Masking(R[k]) /\ ~Masking(R[l]) /\ src[k] = src[l] => k = l
  /\ \A n \in 1 .. m : ~Covered(spans, n) /\ ~Masking(text[n]) =>
        \E k \in DOMAIN R : ~Masking(R[k]) /\ src[k] = n
  /\ \A k \in DOMAIN R : ~Masking(R[k]) /\ k + 1 \in DOMAIN R /\ ~Masking(R[k + 1]) =>
        src[k + 1] = src[k] + 1

(* Where the first m places end: in a mask, or in the last place.          *)
EndsAt(src, spans, m, R) ==
  m # 0 =>
    /\ Len(R) # 0
    /\ Covered(spans, m) => Masking(R[Len(R)])
    /\ ~Covered(spans, m) => src[Len(R)] = m

(* Every piece of a text is a text. *)
LEMMA PiecesAreTexts ==
  ASSUME NEW text \in Texts, NEW spans
  PROVE  Pieces(text, spans) \in Seq(Texts)
<1>1. Mask \in Seq(Atom) /\ <<>> \in Seq(Atom)
  BY GuardrailAssumption DEF Texts
<1>2. ASSUME NEW n \in DOMAIN text PROVE Piece(text, spans, n) \in Seq(Atom)
  <2>1. <<text[n]>> \in Seq(Atom)
    BY DEF Texts
  <2> QED BY <1>1, <2>1 DEF Piece
<1>3. DOMAIN text = 1 .. Len(text) /\ Len(text) \in Nat
  BY DEF Texts
<1> QED BY <1>2, <1>3 DEF Pieces, Texts

(* A place in the middle of a span leaves the text as it is. *)
LEMMA TraceMiddle ==
  ASSUME NEW text \in Texts, NEW spans, NEW m \in Nat, NEW R \in Texts, NEW src,
         \A s \in spans : s[1] \in Nat \ {0} /\ s[2] \in Nat,
         Traced(src, text, spans, m, R), EndsAt(src, spans, m, R),
         Covered(spans, m + 1), Continued(spans, m + 1)
  PROVE  Traced(src, text, spans, m + 1, R) /\ EndsAt(src, spans, m + 1, R)
<1>1. m # 0 /\ Covered(spans, m)
  BY DEF Continued, Covered
<1>2. EndsAt(src, spans, m + 1, R)
  BY <1>1 DEF EndsAt
<1>3. src \in [DOMAIN R -> 1 .. m + 1]
  BY DEF Traced
<1>4. \A n \in 1 .. m + 1 : ~Covered(spans, n) => n \in 1 .. m
  OBVIOUS
<1> QED BY <1>2, <1>3, <1>4 DEF Traced

(* A span begins: a mask behind the text so far. *)
LEMMA TraceMask ==
  ASSUME NEW text \in Texts, NEW spans, NEW m \in Nat, NEW R \in Texts, NEW src,
         Traced(src, text, spans, m, R), EndsAt(src, spans, m, R),
         Covered(spans, m + 1)
  PROVE  \E to : /\ Traced(to, text, spans, m + 1, R \o Mask)
                 /\ EndsAt(to, spans, m + 1, R \o Mask)
<1> DEFINE S == R \o Mask
           to == [k \in DOMAIN S |-> IF k \in DOMAIN R THEN src[k] ELSE m + 1]
<1>1. R \in Seq(Atom) /\ Mask \in Seq(Atom) /\ Len(R) \in Nat /\ Len(Mask) \in Nat \ {0}
  BY GuardrailAssumption DEF Texts
<1>2. /\ DOMAIN S = 1 .. Len(R) + Len(Mask)
      /\ DOMAIN R = 1 .. Len(R)
      /\ Len(S) = Len(R) + Len(Mask)
  BY <1>1
<1>3. \A k \in DOMAIN R : k \in DOMAIN S /\ S[k] = R[k] /\ to[k] = src[k]
  BY <1>1, <1>2
<1>4. \A k \in DOMAIN S \ DOMAIN R : Masking(S[k]) /\ to[k] = m + 1
  <2> SUFFICES ASSUME NEW k \in DOMAIN S \ DOMAIN R PROVE Masking(S[k]) /\ to[k] = m + 1
    OBVIOUS
  <2>1. k - Len(R) \in DOMAIN Mask /\ S[k] = Mask[k - Len(R)]
    BY <1>1, <1>2
  <2> QED BY <2>1 DEF Masking
<1>5. Len(S) \in DOMAIN S \ DOMAIN R
  BY <1>1, <1>2
<1>6. EndsAt(to, spans, m + 1, S)
  BY <1>1, <1>2, <1>4, <1>5 DEF EndsAt
<1>7. to \in [DOMAIN S -> 1 .. m + 1]
  BY DEF Traced
<1>8. \A k \in DOMAIN R : k + 1 \in DOMAIN S /\ ~Masking(S[k + 1]) => k + 1 \in DOMAIN R
  BY <1>4
<1>9. \A n \in 1 .. m + 1 : ~Covered(spans, n) => n \in 1 .. m
  OBVIOUS
<1> HIDE DEF S, to
<1>10. \A k \in DOMAIN S : ~Masking(S[k]) => ~Covered(spans, to[k]) /\ S[k] = text[to[k]]
  BY <1>3, <1>4 DEF Traced
<1>11. \A k, l \in DOMAIN S : ~Masking(S[k]) /\ ~Masking(S[l]) /\ to[k] = to[l] => k = l
  BY <1>3, <1>4 DEF Traced
<1>12. \A n \in 1 .. m + 1 : ~Covered(spans, n) /\ ~Masking(text[n]) =>
          \E k \in DOMAIN S : ~Masking(S[k]) /\ to[k] = n
  BY <1>3, <1>9 DEF Traced
<1>13. \A k \in DOMAIN S : ~Masking(S[k]) /\ k + 1 \in DOMAIN S /\ ~Masking(S[k + 1]) =>
          to[k + 1] = to[k] + 1
  BY <1>3, <1>4, <1>8 DEF Traced
<1>14. Traced(to, text, spans, m + 1, S)
  BY <1>7, <1>10, <1>11, <1>12, <1>13 DEF Traced
<1> QED BY <1>6, <1>14 DEF S

(* A place outside the spans: its atom behind the text so far. *)
LEMMA TraceAtom ==
  ASSUME NEW text \in Texts, NEW spans, NEW m \in Nat, NEW R \in Texts, NEW src,
         m + 1 \in DOMAIN text,
         Traced(src, text, spans, m, R), EndsAt(src, spans, m, R),
         ~Covered(spans, m + 1)
  PROVE  \E to : /\ Traced(to, text, spans, m + 1, R \o <<text[m + 1]>>)
                 /\ EndsAt(to, spans, m + 1, R \o <<text[m + 1]>>)
<1> DEFINE S == R \o <<text[m + 1]>>
           to == [k \in DOMAIN S |-> IF k \in DOMAIN R THEN src[k] ELSE m + 1]
           last == Len(R) + 1
<1>1. R \in Seq(Atom) /\ <<text[m + 1]>> \in Seq(Atom) /\ Len(R) \in Nat
  BY DEF Texts
<1>2. /\ DOMAIN S = 1 .. last
      /\ DOMAIN R = 1 .. Len(R)
      /\ Len(S) = last
      /\ last \in DOMAIN S
      /\ last \notin DOMAIN R
  BY <1>1
<1>3. \A k \in DOMAIN R : k \in DOMAIN S /\ S[k] = R[k] /\ to[k] = src[k] /\ src[k] \in 1 .. m
  BY <1>1, <1>2 DEF Traced
<1>4. S[last] = text[m + 1] /\ to[last] = m + 1
  BY <1>1, <1>2
<1>5. \A k \in DOMAIN S : k \in DOMAIN R \/ k = last
  BY <1>1, <1>2
<1>6. EndsAt(to, spans, m + 1, S)
  BY <1>1, <1>2, <1>4 DEF EndsAt
<1>7. to \in [DOMAIN S -> 1 .. m + 1]
  BY DEF Traced
<1>8. ASSUME NEW k \in DOMAIN R, k + 1 = last, ~Masking(R[k]) PROVE src[k] = m
  <2>1. k \in 1 .. Len(R)
    BY <1>2
  <2>2. k = Len(R)
    BY <1>1, <1>8, <2>1
  <2>3. src[k] \in 1 .. m
    BY <1>3
  <2>4. m # 0
    BY <2>3
  <2> QED BY <1>8, <2>2, <2>4 DEF EndsAt
<1>9. \A n \in 1 .. m + 1 : n \in 1 .. m \/ n = m + 1
  OBVIOUS
<1> HIDE DEF S, to
<1>10. \A k \in DOMAIN S : ~Masking(S[k]) => ~Covered(spans, to[k]) /\ S[k] = text[to[k]]
  BY <1>3, <1>4, <1>5 DEF Traced
<1>11. \A k, l \in DOMAIN S : ~Masking(S[k]) /\ ~Masking(S[l]) /\ to[k] = to[l] => k = l
  BY <1>3, <1>4, <1>5 DEF Traced
<1>12. \A n \in 1 .. m + 1 : ~Covered(spans, n) /\ ~Masking(text[n]) =>
          \E k \in DOMAIN S : ~Masking(S[k]) /\ to[k] = n
  BY <1>2, <1>3, <1>4, <1>9 DEF Traced
<1>13. \A k \in DOMAIN S : ~Masking(S[k]) /\ k + 1 \in DOMAIN S /\ ~Masking(S[k + 1]) =>
          to[k + 1] = to[k] + 1
  <2> SUFFICES ASSUME NEW k \in DOMAIN S, ~Masking(S[k]), k + 1 \in DOMAIN S, ~Masking(S[k + 1])
               PROVE  to[k + 1] = to[k] + 1
    OBVIOUS
  <2>1. k \in DOMAIN R
    BY <1>1, <1>2
  <2>2. CASE k + 1 \in DOMAIN R
    BY <1>3, <2>1, <2>2 DEF Traced
  <2>3. CASE k + 1 = last
    BY <1>3, <1>4, <1>8, <2>1, <2>3
  <2> QED BY <1>5, <2>2, <2>3
<1>14. Traced(to, text, spans, m + 1, S)
  BY <1>7, <1>10, <1>11, <1>12, <1>13 DEF Traced
<1> QED BY <1>6, <1>14 DEF S

(* Spans a matcher may find: places of texts. *)
Placed(spans) == \A s \in spans : s[1] \in Nat \ {0} /\ s[2] \in Nat

(* A redacted text is a text that can be traced to the text it was. *)
LEMMA RedactedIsTraced ==
  ASSUME NEW text \in Texts, NEW spans, Placed(spans)
  PROVE  /\ Redacted(text, spans) \in Texts
         /\ \E src : Traced(src, text, spans, Len(text), Redacted(text, spans))
<1> DEFINE pieces == Pieces(text, spans)
           n == Len(text)
<1>1. pieces \in Seq(Seq(Atom)) /\ Redacted(text, spans) = FlattenSeq(pieces)
  <2>1. Redacted(text, spans) = FlattenSeq(pieces)
    BY Zenon DEF Redacted, Pieces, Piece, Covered, Continued
  <2> QED BY <2>1, PiecesAreTexts DEF Texts
<1>2. /\ Len(pieces) = n
      /\ n \in Nat
      /\ \A m \in 1 .. n : m \in DOMAIN text /\ pieces[m] = Piece(text, spans, m)
  <2>1. text \in Seq(Atom)
    BY DEF Texts
  <2>2. DOMAIN text = 1 .. Len(text) /\ Len(text) \in Nat
    BY <2>1
  <2> QED BY <1>1, <2>2 DEF Pieces
<1> HIDE DEF pieces, n
<1>3. PICK F : Assembled(F, pieces, n, Atom)
  BY <1>1, <1>2, Assembly
<1>4. Redacted(text, spans) = F[n]
  BY <1>1, <1>2, <1>3, Flattening
<1> DEFINE Fits(src, m) == Traced(src, text, spans, m, F[m]) /\ EndsAt(src, spans, m, F[m])
           Upto == {m \in Nat : m =< n => \E src : Fits(src, m)}
<1>5. 0 \in Upto
  <2>1. F[0] = <<>>
    BY <1>3 DEF Assembled
  <2>2. DOMAIN F[0] = {} /\ 1 .. 0 = {}
    BY <2>1
  <2>3. [k \in {} |-> 0] \in [{} -> 1 .. 0]
    OBVIOUS
  <2>4. Fits([k \in {} |-> 0], 0)
    BY <2>2, <2>3 DEF Traced, EndsAt
  <2> HIDE DEF Fits
  <2> QED BY <2>4
<1>6. ASSUME NEW m \in Nat, m \in Upto PROVE m + 1 \in Upto
  <2>1. ASSUME m + 1 =< n PROVE \E src : Fits(src, m + 1)
    <3>1. m =< n /\ m + 1 \in 1 .. n /\ m \in 0 .. n
      BY <1>2, <2>1
    <3>2. PICK src : Fits(src, m)
      <4> HIDE DEF Fits
      <4> QED BY <1>6, <3>1
    <3>3. F[m] \in Texts
      BY <3>1, <1>3 DEF Assembled, Texts
    <3>4. F[m + 1] = F[m] \o Piece(text, spans, m + 1)
      <4>1. F[m + 1] = F[(m + 1) - 1] \o pieces[m + 1]
        BY <1>3, <3>1, Zenon DEF Assembled
      <4>2. (m + 1) - 1 = m
        OBVIOUS
      <4>3. pieces[m + 1] = Piece(text, spans, m + 1)
        BY <1>2, <3>1, Zenon
      <4> QED BY <4>1, <4>2, <4>3, Zenon
    <3>5. CASE ~Covered(spans, m + 1)
      <4>1. F[m + 1] = F[m] \o <<text[m + 1]>>
        BY <3>4, <3>5 DEF Piece
      <4> QED BY <1>2, <3>1, <3>2, <3>3, <3>5, <4>1, TraceAtom
    <3>6. CASE Covered(spans, m + 1) /\ Continued(spans, m + 1)
      <4>1. F[m + 1] = F[m] \o <<>>
        BY <3>4, <3>6 DEF Piece
      <4>2. F[m + 1] = F[m]
        <5>1. F[m] \in Seq(Atom)
          BY <3>3 DEF Texts
        <5> QED BY <4>1, <5>1, ConcatEmptySeq, Zenon
      <4> QED BY <3>2, <3>3, <3>6, <4>2, TraceMiddle DEF Placed
    <3>7. CASE Covered(spans, m + 1) /\ ~Continued(spans, m + 1)
      <4>1. F[m + 1] = F[m] \o Mask
        BY <3>4, <3>7 DEF Piece
      <4> QED BY <3>2, <3>3, <3>7, <4>1, TraceMask
    <3> QED BY <3>5, <3>6, <3>7
  <2> HIDE DEF Fits
  <2> QED BY <2>1
<1>7. \A m \in Nat : m \in Upto
  <2> HIDE DEF Upto
  <2> QED BY <1>5, <1>6, Induction
<1>8. n \in Upto
  <2> HIDE DEF Upto
  <2> QED BY <1>2, <1>7
<1>9. F[n] \in Texts
  BY <1>2, <1>3 DEF Assembled, Texts
<1> QED BY <1>2, <1>4, <1>8, <1>9 DEF n

(* A word of which no atom can be taken for a mask is in a redacted text   *)
(* only where it was in the text, outside the spans.                       *)
LEMMA RedactedHasNoMore ==
  ASSUME NEW text \in Texts, NEW spans, Placed(spans),
         NEW word \in Texts \ {<<>>}, \A j \in DOMAIN word : ~Masking(word[j]),
         Occurs(word, Redacted(text, spans))
  PROVE  \E p \in DOMAIN text :
           OccursAt(word, text, p) /\ ~Covered(spans, p)
<1> DEFINE R == Redacted(text, spans)
           w == Len(word)
<1>1. /\ text \in Seq(Atom) /\ Len(text) \in Nat /\ DOMAIN text = 1 .. Len(text)
      /\ R \in Seq(Atom) /\ Len(R) \in Nat /\ DOMAIN R = 1 .. Len(R)
      /\ word \in Seq(Atom) /\ w \in Nat \ {0} /\ DOMAIN word = 1 .. w
  BY RedactedIsTraced DEF Texts
<1>2. PICK src : Traced(src, text, spans, Len(text), R)
  BY RedactedIsTraced
<1>3. PICK n \in DOMAIN R : n + w - 1 <= Len(R) /\ SubSeq(R, n, n + w - 1) = word
  BY DEF Occurs, OccursAt
<1> HIDE DEF R, w
<1>4. n \in 1 .. Len(R) /\ n \in Nat
  BY <1>1, <1>3
<1>5. ASSUME NEW j \in Nat, j < w
      PROVE  /\ n + j \in DOMAIN R
             /\ R[n + j] = word[j + 1]
             /\ ~Masking(R[n + j])
             /\ src[n + j] \in 1 .. Len(text)
             /\ text[src[n + j]] = word[j + 1]
  <2>1. n + j \in 1 .. Len(R) /\ j + 1 \in 1 .. w
    BY <1>1, <1>3, <1>4, <1>5
  <2>2. SubSeq(R, n, n + w - 1)[j + 1] = R[n + j]
    BY <1>1, <1>3, <1>4, <2>1
  <2>3. R[n + j] = word[j + 1] /\ ~Masking(R[n + j])
    BY <1>1, <1>3, <2>1, <2>2
  <2> QED BY <1>1, <1>2, <2>1, <2>3 DEF Traced
<1> DEFINE Near == {j \in Nat : j < w => src[n + j] = src[n] + j}
<1>6. 0 \in Near
  BY <1>1, <1>4, <1>5
<1>7. ASSUME NEW j \in Nat, j \in Near PROVE j + 1 \in Near
  <2>1. ASSUME j + 1 < w PROVE src[n + (j + 1)] = src[n] + (j + 1)
    <3>1. j < w /\ (n + j) + 1 = n + (j + 1)
      BY <1>1, <1>4, <2>1
    <3>2. n + j \in DOMAIN R /\ ~Masking(R[n + j]) /\ n + (j + 1) \in DOMAIN R /\ ~Masking(R[n + (j + 1)])
      BY <1>5, <2>1, <3>1
    <3>3. src[n + (j + 1)] = src[n + j] + 1
      BY <1>2, <3>1, <3>2 DEF Traced
    <3>4. src[n + j] = src[n] + j
      BY <1>7, <3>1
    <3>5. n \in DOMAIN R /\ src[n] \in Nat
      BY <1>2, <1>3 DEF Traced
    <3> QED BY <3>3, <3>4, <3>5
  <2> QED BY <2>1
<1>8. \A j \in Nat : j < w => src[n + j] = src[n] + j
  <2>1. \A j \in Nat : j \in Near
    <3> HIDE DEF Near
    <3> QED BY <1>6, <1>7, Induction
  <2> QED BY <2>1
<1> DEFINE p == src[n]
<1>9. p \in 1 .. Len(text) /\ p \in Nat /\ ~Covered(spans, p)
  <2>1. n + 0 = n /\ 0 < w
    BY <1>1, <1>4
  <2>2. p \in 1 .. Len(text) /\ ~Masking(R[n])
    BY <1>5, <2>1
  <2> QED BY <1>2, <1>3, <2>2 DEF Traced
<1>10. ASSUME NEW j \in Nat, j < w
       PROVE  p + j \in 1 .. Len(text) /\ text[p + j] = word[j + 1]
  BY <1>5, <1>8, <1>10
<1> HIDE DEF p
<1>11. p + w - 1 <= Len(text) /\ p + w - 1 \in Nat /\ p =< p + w - 1
  <2>1. w - 1 \in Nat /\ w - 1 < w /\ p + (w - 1) = p + w - 1
    BY <1>1, <1>9
  <2>2. p + (w - 1) \in 1 .. Len(text)
    BY <1>10, <2>1
  <2> QED BY <1>1, <1>9, <2>1, <2>2
<1>12. SubSeq(text, p, p + w - 1) = word
  <2> DEFINE t == SubSeq(text, p, p + w - 1)
  <2>1. t \in Seq(Atom) /\ Len(t) = w /\ DOMAIN t = 1 .. w
    BY <1>1, <1>9, <1>11
  <2>2. ASSUME NEW i \in 1 .. w PROVE t[i] = word[i]
    <3>1. i - 1 \in Nat /\ i - 1 < w /\ (i - 1) + 1 = i /\ p + (i - 1) = p + i - 1
      BY <1>1, <1>9
    <3>2. t[i] = text[p + i - 1]
      BY <1>1, <1>9, <1>11, <2>1
    <3>3. text[p + (i - 1)] = word[i]
      BY <1>10, <3>1
    <3> QED BY <3>1, <3>2, <3>3
  <2> HIDE DEF t
  <2>3. t = word
    BY <1>1, <2>1, <2>2
  <2> QED BY <2>3 DEF t
<1> QED BY <1>1, <1>9, <1>11, <1>12 DEF w, OccursAt

(* Of what can be told from a mask, a redacted text has as much as the     *)
(* text has outside the spans.                                             *)
LEMMA RedactedHasNoLess ==
  ASSUME NEW text \in Texts, NEW spans, Placed(spans)
  PROVE  /\ IsFiniteSet(Unmasked(Redacted(text, spans)))
         /\ IsFiniteSet(Unmasked(text))
         /\ Cardinality(Unmasked(Redacted(text, spans)))
              = Cardinality({n \in Unmasked(text) : ~Covered(spans, n)})
<1> DEFINE R == Redacted(text, spans)
           Left == Unmasked(R)
           Uncovered == {n \in Unmasked(text) : ~Covered(spans, n)}
<1>1. /\ Len(text) \in Nat /\ DOMAIN text = 1 .. Len(text)
      /\ Len(R) \in Nat /\ DOMAIN R = 1 .. Len(R)
  BY RedactedIsTraced DEF Texts
<1>2. PICK src : Traced(src, text, spans, Len(text), R)
  BY RedactedIsTraced
<1>3. IsFiniteSet(DOMAIN R) /\ IsFiniteSet(DOMAIN text)
  <2>1. 1 \in Int /\ Len(R) \in Int /\ Len(text) \in Int
    BY <1>1
  <2> QED BY <1>1, <2>1, FS_Interval
<1>4. Left \subseteq DOMAIN R /\ Unmasked(text) \subseteq DOMAIN text
  BY DEF Unmasked
<1>5. IsFiniteSet(Left) /\ IsFiniteSet(Unmasked(text))
  BY <1>3, <1>4, FS_Subset, Zenon
<1> HIDE DEF R
<1> DEFINE f == [k \in Left |-> src[k]]
<1>6. f \in [Left -> Uncovered]
  <2> SUFFICES ASSUME NEW k \in Left PROVE src[k] \in Uncovered
    OBVIOUS
  <2>1. k \in DOMAIN R /\ ~Masking(R[k])
    BY DEF Unmasked
  <2>2. src[k] \in DOMAIN text /\ ~Covered(spans, src[k]) /\ R[k] = text[src[k]]
    BY <1>1, <1>2, <2>1 DEF Traced
  <2> QED BY <2>1, <2>2 DEF Unmasked
<1>7. \A k, l \in Left : f[k] = f[l] => k = l
  BY <1>2 DEF Traced, Unmasked
<1>8. \A n \in Uncovered : \E k \in Left : f[k] = n
  <2> SUFFICES ASSUME NEW n \in Uncovered PROVE \E k \in Left : src[k] = n
    OBVIOUS
  <2>1. n \in 1 .. Len(text) /\ ~Covered(spans, n) /\ ~Masking(text[n])
    BY <1>1 DEF Unmasked
  <2>2. PICK k \in DOMAIN R : ~Masking(R[k]) /\ src[k] = n
    BY <1>2, <2>1 DEF Traced
  <2> QED BY <2>2 DEF Unmasked
<1> HIDE DEF f, Left, Uncovered
<1>9. f \in Bijection(Left, Uncovered)
  BY <1>6, <1>7, <1>8 DEF Bijection, Injection, Surjection, IsInjective
<1>10. Cardinality(Left) = Cardinality(Uncovered)
  BY <1>5, <1>9, FS_Bijection DEF ExistsBijection
<1> QED BY <1>5, <1>10 DEF Left, Uncovered, R

-----------------------------------------------------------------------------
(* Matching: what is found can be found there, and all that can is.        *)

(* What a search finds from the place n on, given what it finds from every *)
(* later one.                                                              *)
Scan(from, word, text, n) ==
  IF word = <<>> \/ n + Len(word) - 1 > Len(text) THEN {}
  ELSE IF FoundAt(word, text, n)
         THEN {<<n, n + Len(word) - 1>>} \cup from[n + Len(word)]
         ELSE from[n + 1]

Scans(from, word, text) == from = [n \in 1 .. Len(text) + 1 |-> Scan(from, word, text, n)]

SameAfter(f, g, n, last) == \A l \in n + 1 .. last : f[l] = g[l]

(* A search only looks ahead. *)
LEMMA ScanLooksAhead ==
  ASSUME NEW word \in Texts \ {<<>>}, NEW text \in Texts, NEW n \in 1 .. Len(text) + 1,
         NEW f, NEW g, SameAfter(f, g, n, Len(text) + 1)
  PROVE  Scan(f, word, text, n) = Scan(g, word, text, n)
<1>1. Len(word) \in Nat \ {0} /\ Len(text) \in Nat
  BY DEF Texts
<1>2. CASE n + Len(word) - 1 > Len(text)
  BY <1>2 DEF Scan
<1>3. CASE n + Len(word) - 1 =< Len(text)
  <2>1. n + 1 \in n + 1 .. Len(text) + 1 /\ n + Len(word) \in n + 1 .. Len(text) + 1
    BY <1>1, <1>3
  <2>2. f[n + 1] = g[n + 1] /\ f[n + Len(word)] = g[n + Len(word)]
    BY <2>1 DEF SameAfter
  <2> QED BY <2>2 DEF Scan
<1> QED BY <1>1, <1>2, <1>3

(* Every text can be searched for every word. *)
LEMMA ScansExist ==
  ASSUME NEW word \in Texts \ {<<>>}, NEW text \in Texts
  PROVE  \E f : Scans(f, word, text)
<1> DEFINE N == Len(text) + 1
           Late(f, m) == /\ f = [n \in 1 .. N |-> f[n]]
                         /\ \A n \in 1 .. N : n + m >= N => f[n] = Scan(f, word, text, n)
           Upto == {m \in Nat : \E f : Late(f, m)}
<1>1. Len(word) \in Nat \ {0} /\ Len(text) \in Nat /\ N \in Nat \ {0}
  BY DEF Texts
<1>2. 0 \in Upto
  <2> DEFINE f == [n \in 1 .. N |-> {}]
  <2>1. ASSUME NEW n \in 1 .. N, n + 0 >= N PROVE f[n] = Scan(f, word, text, n)
    <3>1. n + Len(word) - 1 > Len(text)
      BY <1>1, <2>1
    <3> QED BY <3>1 DEF Scan
  <2>2. f = [n \in 1 .. N |-> f[n]]
    OBVIOUS
  <2> HIDE DEF f
  <2>3. Late(f, 0)
    BY <2>1, <2>2
  <2> HIDE DEF Late
  <2> QED BY <2>3
<1>3. ASSUME NEW m \in Nat, m \in Upto PROVE m + 1 \in Upto
  <2>1. PICK f : Late(f, m)
    <3> HIDE DEF Late
    <3> QED BY <1>3
  <2> DEFINE j == N - (m + 1)
             g == [n \in 1 .. N |-> IF n = j THEN Scan(f, word, text, j) ELSE f[n]]
  <2>2. j \in Int
    BY <1>1
  <2>3. \A n \in 1 .. N : n # j => g[n] = f[n]
    OBVIOUS
  <2>4. ASSUME NEW n \in 1 .. N, n >= j PROVE Scan(g, word, text, n) = Scan(f, word, text, n)
    <3>1. \A l \in n + 1 .. N : l \in 1 .. N /\ l # j
      BY <1>1, <2>2, <2>4
    <3>2. SameAfter(g, f, n, N)
      BY <2>3, <3>1 DEF SameAfter
    <3> HIDE DEF g, j
    <3> QED BY <3>2, ScanLooksAhead
  <2>5. ASSUME NEW n \in 1 .. N, n + (m + 1) >= N PROVE g[n] = Scan(g, word, text, n)
    <3>1. n >= j
      BY <1>1, <2>5
    <3>2. CASE n = j
      BY <2>4, <3>1, <3>2
    <3>3. CASE n # j
      <4>1. n + m >= N
        BY <1>1, <3>1, <3>3
      <4>2. f[n] = Scan(f, word, text, n)
        BY <2>1, <4>1
      <4> QED BY <2>3, <2>4, <3>1, <3>3, <4>2
    <3> QED BY <3>2, <3>3
  <2>6. g = [n \in 1 .. N |-> g[n]]
    OBVIOUS
  <2> HIDE DEF g
  <2>7. Late(g, m + 1)
    BY <2>5, <2>6
  <2> HIDE DEF Late
  <2> QED BY <2>7
<1>4. \A m \in Nat : m \in Upto
  <2> HIDE DEF Upto
  <2> QED BY <1>2, <1>3, Induction
<1>5. PICK f : Late(f, N)
  <2>1. N \in Upto
    <3> HIDE DEF Upto
    <3> QED BY <1>1, <1>4
  <2> HIDE DEF Late
  <2> QED BY <2>1
<1>6. \A n \in 1 .. N : f[n] = Scan(f, word, text, n)
  BY <1>1, <1>5
<1>7. f = [n \in 1 .. N |-> Scan(f, word, text, n)]
  BY <1>5, <1>6
<1> QED BY <1>7 DEF Scans

(* Searching from the first place on is what Matches does. *)
LEMMA MatchesScan ==
  ASSUME NEW word \in Texts \ {<<>>}, NEW text \in Texts
  PROVE  \E f : Scans(f, word, text) /\ Matches(word, text) = f[1]
<1> DEFINE f == CHOOSE f : f = [n \in 1 .. Len(text) + 1 |-> Scan(f, word, text, n)]
<1>1. Matches(word, text) = f[1]
  BY Zenon DEF Matches, Scan
<1>2. \E g : g = [n \in 1 .. Len(text) + 1 |-> Scan(g, word, text, n)]
  BY ScansExist DEF Scans
<1>3. f = [n \in 1 .. Len(text) + 1 |-> Scan(f, word, text, n)]
  BY <1>2, Zenon
<1> QED BY <1>1, <1>3 DEF Scans

(* Every span found is an occurrence of the word that counts. *)
LEMMA MatchesAreRight ==
  ASSUME NEW word \in Texts \ {<<>>}, NEW text \in Texts, NEW s \in Matches(word, text)
  PROVE  /\ s[1] \in DOMAIN text
         /\ s[1] \in Nat \ {0}
         /\ s[2] \in Nat
         /\ s[2] = s[1] + Len(word) - 1
         /\ FoundAt(word, text, s[1])
<1> DEFINE N == Len(text) + 1
           Good(t) == /\ t[1] \in DOMAIN text
                      /\ t[1] \in Nat \ {0}
                      /\ t[2] \in Nat
                      /\ t[2] = t[1] + Len(word) - 1
                      /\ FoundAt(word, text, t[1])
<1>1. /\ Len(word) \in Nat \ {0} /\ Len(text) \in Nat /\ N \in Nat \ {0}
      /\ DOMAIN text = 1 .. Len(text)
  BY DEF Texts
<1>2. PICK f : Scans(f, word, text) /\ Matches(word, text) = f[1]
  BY MatchesScan
<1>3. \A n \in 1 .. N : f[n] = Scan(f, word, text, n)
  BY <1>2, Zenon DEF Scans
<1> DEFINE Late == {m \in Nat : \A n \in 1 .. N : n + m >= N => \A t \in f[n] : Good(t)}
<1>4. 0 \in Late
  <2> SUFFICES ASSUME NEW n \in 1 .. N, n + 0 >= N PROVE f[n] = {}
    OBVIOUS
  <2>1. n + Len(word) - 1 > Len(text)
    BY <1>1
  <2> QED BY <1>3, <2>1 DEF Scan
<1>5. ASSUME NEW m \in Nat, m \in Late PROVE m + 1 \in Late
  <2> SUFFICES ASSUME NEW n \in 1 .. N, n + (m + 1) >= N, NEW t \in f[n] PROVE Good(t)
    OBVIOUS
  <2>1. f[n] = Scan(f, word, text, n)
    BY <1>3
  <2>2. n + Len(word) - 1 =< Len(text)
    BY <1>1, <2>1 DEF Scan
  <2>3. /\ n + 1 \in 1 .. N /\ (n + 1) + m >= N
        /\ n + Len(word) \in 1 .. N /\ (n + Len(word)) + m >= N
    BY <1>1, <2>2
  <2>4. (t \in f[n + 1] => Good(t)) /\ (t \in f[n + Len(word)] => Good(t))
    <3> HIDE DEF Good
    <3> QED BY <1>5, <2>3
  <2>5. CASE FoundAt(word, text, n) /\ t = <<n, n + Len(word) - 1>>
    BY <1>1, <2>2, <2>5
  <2> QED BY <2>1, <2>2, <2>4, <2>5 DEF Scan
<1>6. \A m \in Nat : m \in Late
  <2> HIDE DEF Late
  <2> QED BY <1>4, <1>5, Induction
<1>7. 1 \in 1 .. N /\ 1 + N >= N /\ N \in Late
  <2> HIDE DEF Late
  <2> QED BY <1>1, <1>6
<1>8. \A t \in f[1] : Good(t)
  <2> HIDE DEF Good
  <2> QED BY <1>7
<1> QED BY <1>2, <1>8

(* Every occurrence of the word that counts begins in a span found. *)
LEMMA MatchesAreAll ==
  ASSUME NEW word \in Texts \ {<<>>}, NEW text \in Texts, NEW p \in DOMAIN text,
         FoundAt(word, text, p)
  PROVE  \E s \in Matches(word, text) : s[1] <= p /\ p <= s[2]
<1> DEFINE N == Len(text) + 1
<1>1. /\ Len(word) \in Nat \ {0} /\ Len(text) \in Nat /\ N \in Nat \ {0}
      /\ DOMAIN text = 1 .. Len(text) /\ p \in 1 .. Len(text)
  BY DEF Texts
<1>2. PICK f : Scans(f, word, text) /\ Matches(word, text) = f[1]
  BY MatchesScan
<1>3. \A n \in 1 .. N : f[n] = Scan(f, word, text, n)
  BY <1>2, Zenon DEF Scans
<1> DEFINE Seen(n) == \E s \in f[n] : s[1] <= p /\ p <= s[2]
           Late == {m \in Nat : \A n \in 1 .. N : n + m >= N /\ n =< p => Seen(n)}
<1>4. 0 \in Late
  BY <1>1
<1>5. ASSUME NEW m \in Nat, m \in Late PROVE m + 1 \in Late
  <2> SUFFICES ASSUME NEW n \in 1 .. N, n + (m + 1) >= N, n =< p PROVE Seen(n)
    OBVIOUS
  <2>1. f[n] = Scan(f, word, text, n)
    BY <1>3
  <2>2. p + Len(word) - 1 <= Len(text)
    BY DEF FoundAt, OccursAt
  <2>3. n + Len(word) - 1 =< Len(text)
    BY <1>1, <2>2
  <2>4. CASE FoundAt(word, text, n)
    <3>1. f[n] = {<<n, n + Len(word) - 1>>} \cup f[n + Len(word)]
      BY <1>1, <2>1, <2>3, <2>4 DEF Scan
    <3>2. CASE p =< n + Len(word) - 1
      <4>1. <<n, n + Len(word) - 1>> \in f[n]
        BY <3>1
      <4> QED BY <3>2, <4>1
    <3>3. CASE p > n + Len(word) - 1
      <4>1. n + Len(word) \in 1 .. N /\ (n + Len(word)) + m >= N /\ n + Len(word) =< p
        BY <1>1, <3>3
      <4>2. Seen(n + Len(word))
        <5> HIDE DEF Seen
        <5> QED BY <1>5, <4>1
      <4> QED BY <3>1, <4>2
    <3> QED BY <1>1, <3>2, <3>3
  <2>5. CASE ~FoundAt(word, text, n)
    <3>1. f[n] = f[n + 1] /\ n # p
      BY <1>1, <2>1, <2>3, <2>5 DEF Scan
    <3>2. n + 1 \in 1 .. N /\ (n + 1) + m >= N /\ n + 1 =< p
      BY <1>1, <3>1
    <3>3. Seen(n + 1)
      <4> HIDE DEF Seen
      <4> QED BY <1>5, <3>2
    <3> QED BY <3>1, <3>3
  <2> QED BY <2>4, <2>5
<1>6. \A m \in Nat : m \in Late
  <2> HIDE DEF Late
  <2> QED BY <1>4, <1>5, Induction
<1>7. 1 \in 1 .. N /\ 1 + N >= N /\ N \in Late /\ 1 =< p
  <2> HIDE DEF Late
  <2> QED BY <1>1, <1>6
<1>8. Seen(1)
  <2> HIDE DEF Seen
  <2> QED BY <1>7
<1> QED BY <1>2, <1>8

(* A word of no width is found nowhere. *)
LEMMA NothingMatches ==
  ASSUME NEW text \in Texts
  PROVE  Matches(<<>>, text) = {}
<1> DEFINE f == CHOOSE f : f = [n \in 1 .. Len(text) + 1 |-> Scan(f, <<>>, text, n)]
           none == [n \in 1 .. Len(text) + 1 |-> {}]
<1>1. Matches(<<>>, text) = f[1]
  BY Zenon DEF Matches, Scan
<1>2. none = [n \in 1 .. Len(text) + 1 |-> Scan(none, <<>>, text, n)]
  BY DEF Scan
<1>3. f = [n \in 1 .. Len(text) + 1 |-> Scan(f, <<>>, text, n)]
  <2> HIDE DEF none
  <2> QED BY <1>2, Zenon
<1>4. 1 \in 1 .. Len(text) + 1
  BY DEF Texts
<1> HIDE DEF f
<1>5. f[1] = Scan(f, <<>>, text, 1)
  BY <1>3, <1>4, Zenon
<1> QED BY <1>1, <1>5 DEF Scan

-----------------------------------------------------------------------------
(* What one check does to one text.                                        *)

(* What a check finds are places of the text. *)
LEMMA FoundIsPlaced ==
  ASSUME NEW check \in Checks, NEW text \in Texts
  PROVE  Placed(Found(check, text))
<1> SUFFICES ASSUME NEW word \in check.words, NEW s \in Matches(word, text)
             PROVE  s[1] \in Nat \ {0} /\ s[2] \in Nat
  BY DEF Placed, Found
<1>1. word \in Texts \ {<<>>}
  BY NothingMatches DEF Checks
<1> QED BY <1>1, MatchesAreRight

(* A cleaned text is a text, and none is made of nothing. *)
LEMMA CleanIsText ==
  ASSUME NEW check \in Checks, NEW text \in Texts
  PROVE  Clean(check, text) \in Texts /\ (text = <<>> => Clean(check, text) = <<>>)
<1>1. Placed(Found(check, text))
  BY FoundIsPlaced
<1>2. Clean(check, text) \in Texts
  BY <1>1, RedactedIsTraced DEF Clean
<1>3. PICK src : Traced(src, text, Found(check, text), Len(text), Clean(check, text))
  BY <1>1, RedactedIsTraced DEF Clean
<1>4. ASSUME text = <<>> PROVE Clean(check, text) = <<>>
  <2>1. Len(text) = 0 /\ 1 .. 0 = {}
    BY <1>4
  <2>2. src \in [DOMAIN Clean(check, text) -> {}]
    BY <1>3, <2>1 DEF Traced
  <2>3. DOMAIN Clean(check, text) = {}
    BY <2>2
  <2> QED BY <1>2, <2>3 DEF Texts
<1> QED BY <1>2, <1>4

(* Cleaning brings no word into a text, *)
LEMMA CleanAddsNothing ==
  ASSUME NEW check \in Checks, NEW text \in Texts,
         NEW word \in Texts \ {<<>>}, \A j \in DOMAIN word : ~Masking(word[j]),
         Occurs(word, Clean(check, text))
  PROVE  Occurs(word, text)
<1>1. \E p \in DOMAIN text : OccursAt(word, text, p)
  BY FoundIsPlaced, RedactedHasNoMore DEF Clean
<1> QED BY <1>1 DEF Occurs

(* and leaves none of those it looks for. *)
LEMMA CleanLeavesNothing ==
  ASSUME NEW check \in Checks, NEW text \in Texts, ~Oversize(check, text),
         NEW word \in Sought(check) \ {<<>>}, word \notin Bounded
  PROVE  ~Occurs(word, Clean(check, text))
<1> SUFFICES ASSUME Occurs(word, Clean(check, text)) PROVE FALSE
  OBVIOUS
<1>1. word \in check.words /\ word \in Texts \ {<<>>} /\ \A j \in DOMAIN word : ~Masking(word[j])
  BY DEF Sought, Checks
<1>2. PICK p \in DOMAIN text : OccursAt(word, text, p) /\ ~Covered(Found(check, text), p)
  BY <1>1, FoundIsPlaced, RedactedHasNoMore DEF Clean
<1>3. PICK s \in Matches(word, text) : s[1] <= p /\ p <= s[2]
  BY <1>1, <1>2, MatchesAreAll DEF FoundAt
<1>4. s \in Found(check, text)
  BY <1>1, <1>3 DEF Found
<1> QED BY <1>2, <1>3, <1>4 DEF Covered

Unfound(check, text) == {n \in Unmasked(text) : ~Covered(Found(check, text), n)}

(* What is left of a text is finite. *)
LEMMA UnmaskedIsFinite ==
  ASSUME NEW text \in Texts
  PROVE  IsFiniteSet(Unmasked(text)) /\ Cardinality(Unmasked(text)) \in Nat
<1>1. Placed({})
  BY DEF Placed
<1>2. IsFiniteSet(Unmasked(text))
  BY <1>1, RedactedHasNoLess
<1> QED BY <1>2, FS_CardinalityType

(* A text in which a check finds something is another one when cleaned.    *)
LEMMA CleanChanges ==
  ASSUME NEW check \in Checks, NEW text \in Texts, ~Oversize(check, text),
         NEW word \in Sought(check) \ {<<>>}, NEW n \in DOMAIN text, FoundAt(word, text, n)
  PROVE  Clean(check, text) # text
<1> SUFFICES ASSUME Clean(check, text) = text PROVE FALSE
  OBVIOUS
<1>1. /\ word \in check.words /\ word \in Texts \ {<<>>} /\ \A j \in DOMAIN word : ~Masking(word[j])
  BY DEF Sought, Checks
<1>2. PICK s \in Matches(word, text) : s[1] <= n /\ n <= s[2]
  BY <1>1, MatchesAreAll
<1>3. Covered(Found(check, text), n)
  BY <1>1, <1>2 DEF Found, Covered
<1>4. n \in Unmasked(text)
  <2>1. /\ n \in Nat \ {0} /\ Len(text) \in Nat /\ Len(word) \in Nat \ {0} /\ word \in Seq(Atom)
        /\ DOMAIN word = 1 .. Len(word)
        /\ text \in Seq(Atom)
        /\ DOMAIN text = 1 .. Len(text)
    BY <1>1 DEF Texts
  <2>2. n + Len(word) - 1 <= Len(text) /\ SubSeq(text, n, n + Len(word) - 1) = word
    BY DEF FoundAt, OccursAt
  <2>3. SubSeq(text, n, n + Len(word) - 1)[1] = text[n]
    BY <2>1, <2>2
  <2>4. 1 \in DOMAIN word
    BY <2>1
  <2> QED BY <1>1, <2>2, <2>3, <2>4 DEF Unmasked
<1>5. Cardinality(Unmasked(text)) = Cardinality(Unfound(check, text)) /\ IsFiniteSet(Unmasked(text))
  BY FoundIsPlaced, RedactedHasNoLess DEF Clean, Unfound
<1>6. Unfound(check, text) \subseteq Unmasked(text) /\ n \notin Unfound(check, text)
  BY <1>3 DEF Unfound
<1> HIDE DEF Unfound
<1>7. Unfound(check, text) # Unmasked(text)
  BY <1>4, <1>6
<1>8. Cardinality(Unfound(check, text)) < Cardinality(Unmasked(text))
  BY <1>5, <1>6, <1>7, FS_Subset
<1>9. Cardinality(Unmasked(text)) \in Nat
  BY UnmaskedIsFinite
<1> QED BY <1>5, <1>8, <1>9

-----------------------------------------------------------------------------
(* What one check does to a request.                                       *)

(* The elements of a sequence. *)
LEMMA ElementsAreIn ==
  ASSUME NEW S, NEW s \in Seq(S)
  PROVE  /\ \A i \in DOMAIN s : s[i] \in S
         /\ DOMAIN s = 1 .. Len(s)
         /\ Len(s) \in Nat
OBVIOUS

(* What the parts of a request are. *)
LEMMA RequestParts ==
  ASSUME NEW r \in Requests
  PROVE  /\ r.user \in Texts
         /\ \A i \in DOMAIN r.messages :
              /\ r.messages[i] \in Messages
              /\ \A j \in DOMAIN r.messages[i].parts : r.messages[i].parts[j] \in Parts
              /\ \A j \in DOMAIN r.messages[i].calls : r.messages[i].calls[j] \in Texts
         /\ \A i \in DOMAIN r.tools : r.tools[i] \in Tools
<1>1. r.messages \in Seq(Messages) /\ r.tools \in Seq(Tools) /\ r.user \in Texts
  BY DEF Requests
<1>2. /\ \A i \in DOMAIN r.messages : r.messages[i] \in Messages
      /\ \A i \in DOMAIN r.tools : r.tools[i] \in Tools
  BY <1>1, ElementsAreIn
<1>3. ASSUME NEW i \in DOMAIN r.messages
      PROVE  /\ \A j \in DOMAIN r.messages[i].parts : r.messages[i].parts[j] \in Parts
             /\ \A j \in DOMAIN r.messages[i].calls : r.messages[i].calls[j] \in Texts
  <2>1. r.messages[i].parts \in Seq(Parts) /\ r.messages[i].calls \in Seq(Texts)
    BY <1>2 DEF Messages
  <2> QED BY <2>1, ElementsAreIn
<1> QED BY <1>1, <1>2, <1>3

(* The text at a segment, in the four places a segment can be. *)
LEMMA SegmentCases ==
  ASSUME NEW r \in Requests, NEW s \in Segments(r)
  PROVE  /\ TextAt(r, s) \in Texts
         /\ \/ /\ s[1] = "message" /\ s[2] \in DOMAIN r.messages
               /\ s[3] \in DOMAIN r.messages[s[2]].parts
               /\ s = <<"message", s[2], s[3]>>
               /\ r.messages[s[2]].parts[s[3]].is # "base64"
               /\ TextAt(r, s) = r.messages[s[2]].parts[s[3]].text
            \/ /\ s[1] = "tool_call_args" /\ s[2] \in DOMAIN r.messages
               /\ s[3] \in DOMAIN r.messages[s[2]].calls
               /\ s = <<"tool_call_args", s[2], s[3]>>
               /\ TextAt(r, s) = r.messages[s[2]].calls[s[3]]
            \/ /\ s[1] = "tool_def" /\ s[2] \in DOMAIN r.tools /\ s[3] = 0
               /\ s = <<"tool_def", s[2], 0>>
               /\ r.tools[s[2]].description # <<>>
               /\ TextAt(r, s) = r.tools[s[2]].description
            \/ /\ s[1] = "tool_def" /\ s[2] \in DOMAIN r.tools /\ s[3] = 1
               /\ s = <<"tool_def", s[2], 1>>
               /\ TextAt(r, s) = r.tools[s[2]].parameters
            \/ /\ s[1] = "user" /\ s = <<"user", 0, 0>>
               /\ r.user # <<>>
               /\ TextAt(r, s) = r.user
<1>1. r.user \in Texts
  BY RequestParts
<1>3. \A i \in DOMAIN r.messages : \A j \in DOMAIN r.messages[i].parts : r.messages[i].parts[j].text \in Texts
  BY RequestParts DEF Parts
<1>4. \A i \in DOMAIN r.messages : \A j \in DOMAIN r.messages[i].calls : r.messages[i].calls[j] \in Texts
  BY RequestParts
<1>5. \A i \in DOMAIN r.tools : r.tools[i].description \in Texts /\ r.tools[i].parameters \in Texts
  BY RequestParts DEF Tools
<1>6. CASE \E i \in DOMAIN r.messages : \E j \in DOMAIN r.messages[i].parts :
              r.messages[i].parts[j].is # "base64" /\ s = <<"message", i, j>>
  BY <1>3, <1>6 DEF TextAt
<1>7. CASE \E i \in DOMAIN r.messages : \E j \in DOMAIN r.messages[i].calls : s = <<"tool_call_args", i, j>>
  BY <1>4, <1>7 DEF TextAt
<1>8. CASE \E i \in DOMAIN r.tools : r.tools[i].description # <<>> /\ s = <<"tool_def", i, 0>>
  BY <1>5, <1>8 DEF TextAt
<1>9. CASE \E i \in DOMAIN r.tools : s = <<"tool_def", i, 1>>
  BY <1>5, <1>9 DEF TextAt
<1>10. CASE r.user # <<>> /\ s = <<"user", 0, 0>>
  BY <1>1, <1>10 DEF TextAt
<1>11. s \in MessageSegments(r) => \E i \in DOMAIN r.messages : \E j \in DOMAIN r.messages[i].parts :
          r.messages[i].parts[j].is # "base64" /\ s = <<"message", i, j>>
  BY DEF MessageSegments, Scanned
<1>12. s \in CallSegments(r) =>
          \E i \in DOMAIN r.messages : \E j \in DOMAIN r.messages[i].calls : s = <<"tool_call_args", i, j>>
  BY DEF CallSegments
<1>13. s \in ToolSegments(r) =>
          \/ \E i \in DOMAIN r.tools : r.tools[i].description # <<>> /\ s = <<"tool_def", i, 0>>
          \/ \E i \in DOMAIN r.tools : s = <<"tool_def", i, 1>>
  BY DEF ToolSegments
<1>14. s \in UserSegments(r) => r.user # <<>> /\ s = <<"user", 0, 0>>
  BY DEF UserSegments
<1>15. \/ s \in MessageSegments(r) \/ s \in CallSegments(r)
       \/ s \in ToolSegments(r) \/ s \in UserSegments(r)
  BY DEF Segments
<1> QED BY <1>6, <1>7, <1>8, <1>9, <1>10, <1>11, <1>12, <1>13, <1>14, <1>15

(* The parts of a rewritten request, one by one. *)
LEMMA RewrittenParts ==
  ASSUME NEW check \in Checks, NEW r \in Requests, NEW R, R = Rewritten(check, r)
  PROVE  /\ R \in Requests
         /\ R.user = Clean(check, r.user)
         /\ R.apart = r.apart
         /\ DOMAIN R.tools = DOMAIN r.tools
         /\ DOMAIN R.messages = DOMAIN r.messages
         /\ \A i \in DOMAIN r.tools :
              /\ R.tools[i].description = Clean(check, r.tools[i].description)
              /\ R.tools[i].parameters = CleanParameters(check, r.tools[i].parameters)
         /\ \A i \in DOMAIN r.messages :
              /\ R.messages[i].role = r.messages[i].role
              /\ R.messages[i].calls = r.messages[i].calls
              /\ DOMAIN R.messages[i].parts = DOMAIN r.messages[i].parts
              /\ \A j \in DOMAIN r.messages[i].parts :
                   R.messages[i].parts[j] = CleanPart(check, r.messages[i].parts[j])
<1>1. /\ r.messages \in Seq(Messages) /\ r.tools \in Seq(Tools) /\ r.user \in Texts
      /\ r.apart \in [Apart -> Texts]
      /\ r = [messages |-> r.messages, tools |-> r.tools, user |-> r.user, apart |-> r.apart]
  BY DEF Requests
<1>2. /\ R.messages = [i \in DOMAIN r.messages |-> CleanMessage(check, r.messages[i])]
      /\ R.tools = [i \in DOMAIN r.tools |-> CleanTool(check, r.tools[i])]
      /\ R.user = Clean(check, r.user)
      /\ R.apart = r.apart
      /\ R = [messages |-> R.messages, tools |-> R.tools, user |-> R.user, apart |-> R.apart]
  BY <1>1 DEF Rewritten
<1>3. ASSUME NEW p \in Parts PROVE CleanPart(check, p) \in Parts
  <2>1. Clean(check, p.text) \in Texts
    BY CleanIsText DEF Parts
  <2> QED BY <2>1 DEF CleanPart, Parts
<1>4. ASSUME NEW m \in Messages
      PROVE  /\ CleanMessage(check, m) \in Messages
             /\ CleanMessage(check, m).role = m.role
             /\ CleanMessage(check, m).calls = m.calls
             /\ CleanMessage(check, m).parts = [j \in DOMAIN m.parts |-> CleanPart(check, m.parts[j])]
  <2> DEFINE parts == [j \in DOMAIN m.parts |-> CleanPart(check, m.parts[j])]
  <2>1. m.parts \in Seq(Parts)
    BY DEF Messages
  <2>2. parts \in Seq(Parts)
    <3>1. \A j \in DOMAIN m.parts : CleanPart(check, m.parts[j]) \in Parts
      BY <1>3, <2>1, ElementsAreIn
    <3>2. DOMAIN m.parts = 1 .. Len(m.parts) /\ Len(m.parts) \in Nat
      BY <2>1
    <3> QED BY <3>1, <3>2
  <2>3. CleanMessage(check, m) = [m EXCEPT !.parts = parts]
    BY DEF CleanMessage
  <2> HIDE DEF parts
  <2>4. CleanMessage(check, m).parts = parts
    BY <2>3 DEF Messages
  <2> QED BY <2>2, <2>3, <2>4 DEF Messages, parts
<1>5. ASSUME NEW t \in Tools
      PROVE  /\ CleanTool(check, t) \in Tools
             /\ CleanTool(check, t).description = Clean(check, t.description)
             /\ CleanTool(check, t).parameters = CleanParameters(check, t.parameters)
  <2>1. t.description \in Texts /\ t.parameters \in Texts
    BY DEF Tools
  <2>2. Clean(check, t.description) \in Texts /\ CleanParameters(check, t.parameters) \in Texts
    BY <2>1, CleanIsText DEF CleanParameters
  <2> QED BY <2>2 DEF CleanTool, Tools
<1>6. R.messages \in Seq(Messages)
  <2>1. \A i \in DOMAIN r.messages : CleanMessage(check, r.messages[i]) \in Messages
    BY <1>4, RequestParts
  <2>2. DOMAIN r.messages = 1 .. Len(r.messages) /\ Len(r.messages) \in Nat
    BY <1>1
  <2> QED BY <1>2, <2>1, <2>2
<1>7. R.tools \in Seq(Tools)
  <2>1. \A i \in DOMAIN r.tools : CleanTool(check, r.tools[i]) \in Tools
    BY <1>5, RequestParts
  <2>2. DOMAIN r.tools = 1 .. Len(r.tools) /\ Len(r.tools) \in Nat
    BY <1>1
  <2> QED BY <1>2, <2>1, <2>2
<1>8. R.user \in Texts
  BY <1>1, <1>2, CleanIsText
<1>9. R \in Requests
  BY <1>1, <1>2, <1>6, <1>7, <1>8 DEF Requests
<1>10. ASSUME NEW i \in DOMAIN r.messages
       PROVE  /\ R.messages[i].role = r.messages[i].role
              /\ R.messages[i].calls = r.messages[i].calls
              /\ R.messages[i].parts
                   = [j \in DOMAIN r.messages[i].parts |-> CleanPart(check, r.messages[i].parts[j])]
  <2>1. r.messages[i] \in Messages
    BY RequestParts
  <2>2. R.messages[i] = CleanMessage(check, r.messages[i])
    BY <1>2
  <2> QED BY <1>4, <2>1, <2>2
<1>11. ASSUME NEW i \in DOMAIN r.tools
       PROVE  /\ R.tools[i].description = Clean(check, r.tools[i].description)
              /\ R.tools[i].parameters = CleanParameters(check, r.tools[i].parameters)
  <2>1. r.tools[i] \in Tools /\ R.tools[i] = CleanTool(check, r.tools[i])
    BY <1>2, RequestParts
  <2> QED BY <1>5, <2>1
<1>12. /\ R.user = Clean(check, r.user) /\ R.apart = r.apart
       /\ DOMAIN R.tools = DOMAIN r.tools /\ DOMAIN R.messages = DOMAIN r.messages
  BY <1>2
<1>13. ASSUME NEW i \in DOMAIN r.messages
       PROVE  /\ DOMAIN R.messages[i].parts = DOMAIN r.messages[i].parts
              /\ \A j \in DOMAIN r.messages[i].parts :
                   R.messages[i].parts[j] = CleanPart(check, r.messages[i].parts[j])
  BY <1>10
<1> QED BY <1>9, <1>10, <1>11, <1>12, <1>13

(* Where a request has segments. *)
LEMMA SegmentsAreThere ==
  ASSUME NEW r
  PROVE  /\ \A i \in DOMAIN r.messages : \A j \in DOMAIN r.messages[i].parts :
              r.messages[i].parts[j].is # "base64" =>
                /\ <<"message", i, j>> \in Segments(r)
                /\ TextAt(r, <<"message", i, j>>) = r.messages[i].parts[j].text
         /\ \A i \in DOMAIN r.messages : \A j \in DOMAIN r.messages[i].calls :
              /\ <<"tool_call_args", i, j>> \in Segments(r)
              /\ TextAt(r, <<"tool_call_args", i, j>>) = r.messages[i].calls[j]
         /\ \A i \in DOMAIN r.tools :
              /\ r.tools[i].description # <<>> => <<"tool_def", i, 0>> \in Segments(r)
              /\ <<"tool_def", i, 1>> \in Segments(r)
              /\ TextAt(r, <<"tool_def", i, 0>>) = r.tools[i].description
              /\ TextAt(r, <<"tool_def", i, 1>>) = r.tools[i].parameters
         /\ r.user # <<>> => <<"user", 0, 0>> \in Segments(r)
         /\ TextAt(r, <<"user", 0, 0>>) = r.user
<1>1. ASSUME NEW i \in DOMAIN r.messages, NEW j \in DOMAIN r.messages[i].parts,
             r.messages[i].parts[j].is # "base64"
      PROVE  <<"message", i, j>> \in MessageSegments(r)
  <2>1. j \in Scanned(r.messages[i])
    BY <1>1 DEF Scanned
  <2> QED BY <2>1 DEF MessageSegments
<1>2. ASSUME NEW i \in DOMAIN r.messages, NEW j \in DOMAIN r.messages[i].calls
      PROVE  <<"tool_call_args", i, j>> \in CallSegments(r)
  BY DEF CallSegments
<1>3. ASSUME NEW i \in DOMAIN r.tools
      PROVE  /\ r.tools[i].description # <<>> => <<"tool_def", i, 0>> \in ToolSegments(r)
             /\ <<"tool_def", i, 1>> \in ToolSegments(r)
  BY DEF ToolSegments
<1>4. r.user # <<>> => <<"user", 0, 0>> \in UserSegments(r)
  BY DEF UserSegments
<1>5. /\ \A i, j : TextAt(r, <<"message", i, j>>) = r.messages[i].parts[j].text
      /\ \A i, j : TextAt(r, <<"tool_call_args", i, j>>) = r.messages[i].calls[j]
      /\ \A i : TextAt(r, <<"tool_def", i, 0>>) = r.tools[i].description
      /\ \A i : TextAt(r, <<"tool_def", i, 1>>) = r.tools[i].parameters
      /\ TextAt(r, <<"user", 0, 0>>) = r.user
  BY DEF TextAt
<1> QED BY <1>1, <1>2, <1>3, <1>4, <1>5 DEF Segments

(* Segments whose redacted text is not written back. *)
Spared(check, r, s) ==
  \/ s[1] = "tool_call_args"
  \/ s[1] = "tool_def" /\ s[3] = 1 /\ Unparsable(TextAt(r, s), Found(check, TextAt(r, s)))

(* A rewritten request has no new segments; their texts are cleaned, or    *)
(* left as they were, and those the injection check scans stay apart.      *)
LEMMA RewrittenSegments ==
  ASSUME NEW check \in Checks, NEW r \in Requests, NEW R, R = Rewritten(check, r),
         NEW s \in Segments(R)
  PROVE  /\ s \in Segments(r)
         /\ \/ TextAt(R, s) = TextAt(r, s)
            \/ TextAt(R, s) = Clean(check, TextAt(r, s))
         /\ ~Spared(check, r, s) => TextAt(R, s) = Clean(check, TextAt(r, s))
         /\ s \in InjectionTexts(R) => s \in InjectionTexts(r)
<1>1. R \in Requests
  BY RewrittenParts
<1> HIDE DEF Rewritten
<1>2. CASE s[1] = "message"
  <2> DEFINE i == s[2]
             j == s[3]
  <2>1. /\ i \in DOMAIN R.messages
        /\ j \in DOMAIN R.messages[i].parts
        /\ s = <<"message", i, j>>
        /\ R.messages[i].parts[j].is # "base64"
        /\ TextAt(R, s) = R.messages[i].parts[j].text
    BY <1>1, <1>2, SegmentCases
  <2> HIDE DEF i, j
  <2>2. /\ i \in DOMAIN r.messages
        /\ j \in DOMAIN r.messages[i].parts
        /\ R.messages[i].role = r.messages[i].role
        /\ R.messages[i].parts[j] = CleanPart(check, r.messages[i].parts[j])
        /\ r.messages[i].parts[j] \in Parts
    BY <2>1, RewrittenParts, RequestParts
  <2>3. r.messages[i].parts[j].is # "base64"
    BY <2>1, <2>2 DEF CleanPart
  <2>4. R.messages[i].parts[j].text = Clean(check, r.messages[i].parts[j].text)
    BY <2>2, <2>3 DEF CleanPart, Parts
  <2>5. s \in Segments(r) /\ TextAt(r, s) = r.messages[i].parts[j].text
    BY <2>1, <2>2, <2>3, SegmentsAreThere
  <2>6. s \in InjectionTexts(R) => s \in InjectionTexts(r)
    BY <2>1, <2>2, <2>5 DEF InjectionTexts
  <2> QED BY <2>1, <2>4, <2>5, <2>6
<1>3. CASE s[1] = "tool_call_args"
  <2> DEFINE i == s[2]
             j == s[3]
  <2>1. /\ i \in DOMAIN R.messages
        /\ j \in DOMAIN R.messages[i].calls
        /\ s = <<"tool_call_args", i, j>>
        /\ TextAt(R, s) = R.messages[i].calls[j]
    BY <1>1, <1>3, SegmentCases
  <2> HIDE DEF i, j
  <2>2. i \in DOMAIN r.messages /\ R.messages[i].calls = r.messages[i].calls
    BY <2>1, RewrittenParts
  <2>3. s \in Segments(r) /\ TextAt(r, s) = r.messages[i].calls[j]
    BY <2>1, <2>2, SegmentsAreThere
  <2> QED BY <1>3, <2>1, <2>2, <2>3 DEF Spared, InjectionTexts
<1>4. CASE s[1] = "tool_def"
  <2> DEFINE i == s[2]
  <2>1. /\ i \in DOMAIN R.tools
        /\ \/ /\ s[3] = 0 /\ s = <<"tool_def", i, 0>>
              /\ R.tools[i].description # <<>> /\ TextAt(R, s) = R.tools[i].description
           \/ /\ s[3] = 1 /\ s = <<"tool_def", i, 1>>
              /\ TextAt(R, s) = R.tools[i].parameters
    BY <1>1, <1>4, SegmentCases
  <2> HIDE DEF i
  <2>2. /\ i \in DOMAIN r.tools
        /\ r.tools[i] \in Tools
        /\ R.tools[i].description = Clean(check, r.tools[i].description)
        /\ R.tools[i].parameters = CleanParameters(check, r.tools[i].parameters)
    BY <2>1, RewrittenParts, RequestParts
  <2>3. s \notin InjectionTexts(R)
    BY <1>4 DEF InjectionTexts
  <2>4. CASE s[3] = 0
    <3>1. r.tools[i].description # <<>>
      <4>1. r.tools[i].description \in Texts
        BY <2>2 DEF Tools
      <4>2. Clean(check, r.tools[i].description) # <<>>
        BY <2>1, <2>2, <2>4
      <4> QED BY <4>1, <4>2, CleanIsText
    <3>2. s = <<"tool_def", i, 0>> /\ TextAt(R, s) = Clean(check, r.tools[i].description)
      BY <2>1, <2>2, <2>4
    <3>3. s \in Segments(r) /\ TextAt(r, s) = r.tools[i].description
      BY <2>2, <3>1, <3>2, SegmentsAreThere
    <3> QED BY <2>3, <3>2, <3>3
  <2>5. CASE s[3] = 1
    <3>0. s = <<"tool_def", i, 1>> /\ TextAt(R, s) = R.tools[i].parameters
      BY <2>1, <2>5
    <3>1. s \in Segments(r) /\ TextAt(r, s) = r.tools[i].parameters
      BY <2>2, <3>0, SegmentsAreThere
    <3> QED BY <1>4, <2>2, <2>3, <2>5, <3>0, <3>1 DEF CleanParameters, Spared
  <2> QED BY <2>1, <2>4, <2>5
<1>5. CASE s[1] = "user"
  <2>1. s = <<"user", 0, 0>> /\ R.user # <<>> /\ TextAt(R, s) = R.user
    BY <1>1, <1>5, SegmentCases
  <2>2. R.user = Clean(check, r.user) /\ r.user \in Texts
    BY RewrittenParts, RequestParts
  <2>3. r.user # <<>>
    BY <2>1, <2>2, CleanIsText
  <2>4. s \notin InjectionTexts(R)
    BY <1>5 DEF InjectionTexts
  <2> QED BY <2>1, <2>2, <2>3, <2>4, SegmentsAreThere
<1> QED BY <1>1, <1>2, <1>3, <1>4, <1>5, SegmentCases

-----------------------------------------------------------------------------
(* What a check clears stays cleared.                                      *)

(* The set of f[x] for x in a finite set is finite. *)
LEMMA ImageIsFinite ==
  ASSUME NEW S, IsFiniteSet(S), NEW f, DOMAIN f = S, f = [x \in S |-> f[x]]
  PROVE  IsFiniteSet({f[x] : x \in S})
<1> DEFINE T == {f[x] : x \in S}
<1>1. f \in [S -> T]
  OBVIOUS
<1>2. \A t \in T : \E x \in S : f[x] = t
  OBVIOUS
<1> HIDE DEF T
<1>3. f \in Surjection(S, T)
  BY <1>1, <1>2 DEF Surjection
<1>4. IsFiniteSet(T)
  BY <1>3, FS_Surjection
<1> QED BY <1>4 DEF T

(* The texts the injection check scans are finitely many. *)
LEMMA InjectionTextsAreFinite ==
  ASSUME NEW r \in Requests
  PROVE  IsFiniteSet(InjectionTexts(r))
<1> DEFINE M == DOMAIN r.messages
           PartsOf == [i \in M |-> {<<"message", i, j>> : j \in Scanned(r.messages[i])}]
           CallsOf == [i \in M |-> {<<"tool_call_args", i, j>> : j \in DOMAIN r.messages[i].calls}]
<1>1. ASSUME NEW S, NEW s \in Seq(S) PROVE IsFiniteSet(DOMAIN s)
  <2>1. DOMAIN s = 1 .. Len(s) /\ 1 \in Int /\ Len(s) \in Int
    OBVIOUS
  <2> QED BY <2>1, FS_Interval
<1>2. IsFiniteSet(M)
  BY <1>1 DEF Requests
<1>3. ASSUME NEW i \in M PROVE IsFiniteSet(PartsOf[i])
  <2>1. r.messages[i].parts \in Seq(Parts)
    BY RequestParts DEF Messages
  <2>2. IsFiniteSet(Scanned(r.messages[i]))
    BY <1>1, <2>1, FS_Subset DEF Scanned
  <2> DEFINE f == [j \in Scanned(r.messages[i]) |-> <<"message", i, j>>]
  <2>3. IsFiniteSet({f[j] : j \in Scanned(r.messages[i])})
    BY <2>2, ImageIsFinite
  <2>4. PartsOf[i] = {f[j] : j \in Scanned(r.messages[i])}
    OBVIOUS
  <2> QED BY <2>3, <2>4
<1>4. ASSUME NEW i \in M PROVE IsFiniteSet(CallsOf[i])
  <2> DEFINE T == DOMAIN r.messages[i].calls
             f == [j \in T |-> <<"tool_call_args", i, j>>]
  <2>1. r.messages[i].calls \in Seq(Texts)
    BY RequestParts DEF Messages
  <2>2. IsFiniteSet(T)
    BY <1>1, <2>1
  <2>3. IsFiniteSet({f[j] : j \in T})
    <3> HIDE DEF T
    <3> QED BY <2>2, ImageIsFinite
  <2>4. CallsOf[i] = {f[j] : j \in T}
    OBVIOUS
  <2> QED BY <2>3, <2>4
<1>5. IsFiniteSet(UNION {PartsOf[i] : i \in M})
  <2>1. IsFiniteSet({PartsOf[i] : i \in M})
    BY <1>2, ImageIsFinite
  <2> HIDE DEF PartsOf, M
  <2> QED BY <1>3, <2>1, FS_UNION
<1>6. IsFiniteSet(UNION {CallsOf[i] : i \in M})
  <2>1. IsFiniteSet({CallsOf[i] : i \in M})
    BY <1>2, ImageIsFinite
  <2> HIDE DEF CallsOf, M
  <2> QED BY <1>4, <2>1, FS_UNION
<1>7. ASSUME NEW s \in InjectionTexts(r)
      PROVE  s \in (UNION {PartsOf[i] : i \in M}) \cup (UNION {CallsOf[i] : i \in M})
  <2>1. s \in Segments(r) /\ s[1] \in {"message", "tool_call_args"}
    BY DEF InjectionTexts
  <2>2. CASE s[1] = "message"
    <3>1. s[2] \in M /\ s \in PartsOf[s[2]]
      BY <2>1, <2>2, SegmentCases DEF Scanned
    <3> HIDE DEF PartsOf, M
    <3> QED BY <3>1
  <2>3. CASE s[1] = "tool_call_args"
    <3>1. s[2] \in M /\ s \in CallsOf[s[2]]
      BY <2>1, <2>3, SegmentCases
    <3> HIDE DEF CallsOf, M
    <3> QED BY <3>1
  <2> QED BY <2>1, <2>2, <2>3
<1> HIDE DEF PartsOf, CallsOf, M
<1>8. IsFiniteSet((UNION {PartsOf[i] : i \in M}) \cup (UNION {CallsOf[i] : i \in M}))
  BY <1>5, <1>6, FS_Union
<1>9. InjectionTexts(r) \subseteq (UNION {PartsOf[i] : i \in M}) \cup (UNION {CallsOf[i] : i \in M})
  BY <1>7
<1> QED BY <1>8, <1>9, FS_Subset

(* Fewer words hit less, and only finitely often. *)
LEMMA FewerHits ==
  ASSUME NEW r \in Requests, NEW words, IsFiniteSet(words),
         NEW H, H \subseteq Hits(r, words)
  PROVE  /\ IsFiniteSet(H) /\ Cardinality(H) \in Nat
         /\ Cardinality(Hits(r, words)) \in Nat
         /\ Cardinality(H) <= Cardinality(Hits(r, words))
<1>1. IsFiniteSet(InjectionTexts(r) \X words)
  BY InjectionTextsAreFinite, FS_Product
<1>2. Hits(r, words) \subseteq InjectionTexts(r) \X words
  BY DEF Hits
<1>3. IsFiniteSet(Hits(r, words))
  BY <1>1, <1>2, FS_Subset
<1> QED BY <1>3, FS_Subset, FS_CardinalityType

(* Clears and Masked of a request, of what checks missed in it and of what *)
(* they altered.                                                           *)
AlteredSince(i, n, alt, s) == \E j \in i .. n : <<j, s>> \in alt
WordLeft(word, i, n, r, alt, s) ==
  /\ \E p \in DOMAIN TextAt(r, s) : FoundAt(word, TextAt(r, s), p)
  /\ word \in Bounded => ~AlteredSince(i, n, alt, s)
LeftIn(check, i, n, r, gone, alt, s) ==
  <<i, s>> \notin gone /\ \E word \in Sought(check) \ {<<>>} : WordLeft(word, i, n, r, alt, s)
Cleared(check, i, n, r, gone, alt) ==
  check.enabled /\ check.kind # "moderation" /\ check.action # "warn" =>
    IF check.kind = "injection"
      THEN check.action = "block" => Cardinality(Hits(r, Sought(check))) < check.threshold
      ELSE ~\E s \in Segments(r) : LeftIn(check, i, n, r, gone, alt, s)
MissedIn(check, r) ==
  {s \in Segments(r) :
     LET text == TextAt(r, s)
     IN \/ Oversize(check, text)
        \/ /\ check.action = "redact"
           /\ \/ s[1] = "tool_call_args"
              \/ s[1] = "tool_def" /\ s[3] = 1 /\ Unparsable(text, Found(check, text))}

(* A later redaction brings nothing back. *)
LEMMA RedactionKeepsClear ==
  ASSUME NEW check \in Checks, IsFiniteSet(check.words), NEW i, NEW r \in Requests, NEW gone,
         NEW n, NEW at \in i .. n, NEW alt, Cleared(check, i, n, r, gone, alt),
         NEW later \in Checks, NEW R, R = Rewritten(later, r), NEW more, gone \subseteq more,
         NEW changed, alt \subseteq changed,
         \A s \in Segments(r) : TextAt(R, s) # TextAt(r, s) => <<at, s>> \in changed
  PROVE  Cleared(check, i, n, R, more, changed)
<1>1. R \in Requests
  BY RewrittenParts
<1>2. ASSUME NEW s \in Segments(R), NEW word \in Sought(check) \ {<<>>}, Occurs(word, TextAt(R, s))
      PROVE  Occurs(word, TextAt(r, s))
  <2>1. /\ s \in Segments(r)
        /\ TextAt(R, s) = TextAt(r, s) \/ TextAt(R, s) = Clean(later, TextAt(r, s))
    BY RewrittenSegments
  <2>2. TextAt(r, s) \in Texts
    BY <2>1, SegmentCases
  <2>3. word \in Texts \ {<<>>} /\ \A j \in DOMAIN word : ~Masking(word[j])
    BY DEF Sought, Checks
  <2> QED BY <1>2, <2>1, <2>2, <2>3, CleanAddsNothing
<1>3. Segments(R) \subseteq Segments(r)
  BY RewrittenSegments
<1>4. Hits(R, Sought(check)) \subseteq Hits(r, Sought(check))
  <2> SUFFICES ASSUME NEW s \in InjectionTexts(R), NEW word \in Sought(check),
                      word # <<>>, Occurs(word, TextAt(R, s))
               PROVE  Occurs(word, TextAt(r, s))
    <3>1. \A s \in InjectionTexts(R) : s \in InjectionTexts(r)
      BY RewrittenSegments DEF InjectionTexts
    <3> QED BY <3>1 DEF Hits
  <2>1. s \in Segments(R) /\ s \in Segments(r)
    BY <1>3 DEF InjectionTexts
  <2> QED BY <1>2, <2>1
<1>5. IsFiniteSet(Sought(check)) /\ check.threshold \in Nat
  BY FS_Subset DEF Sought, Checks
<1>6. /\ Cardinality(Hits(R, Sought(check))) \in Nat
      /\ Cardinality(Hits(r, Sought(check))) \in Nat
      /\ Cardinality(Hits(R, Sought(check))) <= Cardinality(Hits(r, Sought(check)))
  BY <1>4, <1>5, FewerHits
<1>7. CASE check.kind = "moderation" \/ check.action = "warn" \/ ~check.enabled
  BY <1>7 DEF Cleared
<1>8. CASE ~(check.kind = "moderation" \/ check.action = "warn" \/ ~check.enabled) /\ check.kind = "injection"
  <2>1. check.action = "block" => Cardinality(Hits(r, Sought(check))) < check.threshold
    BY <1>8 DEF Cleared
  <2>2. check.action = "block" => Cardinality(Hits(R, Sought(check))) < check.threshold
    BY <1>5, <1>6, <2>1
  <2> QED BY <1>8, <2>2 DEF Cleared
<1>9. CASE ~(check.kind = "moderation" \/ check.action = "warn" \/ ~check.enabled) /\ check.kind # "injection"
  <2>1. ~\E s \in Segments(r) : LeftIn(check, i, n, r, gone, alt, s)
    BY <1>9 DEF Cleared
  <2>2. ASSUME NEW s \in Segments(R), NEW word \in Sought(check) \ {<<>>},
               WordLeft(word, i, n, R, changed, s)
        PROVE  WordLeft(word, i, n, r, alt, s)
    <3>1. CASE word \in Bounded
      <4>1. ~AlteredSince(i, n, changed, s)
        BY <2>2, <3>1 DEF WordLeft
      <4>2. TextAt(R, s) = TextAt(r, s) /\ ~AlteredSince(i, n, alt, s)
        BY <1>3, <4>1 DEF AlteredSince
      <4> QED BY <2>2, <4>2 DEF WordLeft
    <3>2. CASE word \notin Bounded
      <4>1. Occurs(word, TextAt(R, s))
        BY <2>2 DEF WordLeft, FoundAt, Occurs
      <4>2. Occurs(word, TextAt(r, s))
        BY <1>2, <4>1
      <4> QED BY <3>2, <4>2 DEF WordLeft, FoundAt, Occurs
    <3> QED BY <3>1, <3>2
  <2>3. ~\E s \in Segments(R) : LeftIn(check, i, n, R, more, changed, s)
    BY <1>3, <2>1, <2>2 DEF LeftIn
  <2> QED BY <1>9, <2>3 DEF Cleared
<1> QED BY <1>7, <1>8, <1>9

(* A check that does not block leaves the request clear of what it looks   *)
(* for.                                                                    *)
LEMMA CheckClears ==
  ASSUME NEW check \in Checks, IsFiniteSet(check.words), NEW i, NEW r \in Requests, NEW verdict, NEW R,
         ~(check.enabled /\ Blocks(check, r, verdict)),
         R = IF check.enabled THEN After(check, r) ELSE r,
         NEW gone, \A s \in MissedIn(check, r) : <<i, s>> \in gone,
         NEW n, i \in i .. n, NEW alt,
         \A s \in Segments(r) : TextAt(R, s) # TextAt(r, s) => <<i, s>> \in alt
  PROVE  Cleared(check, i, n, R, gone, alt)
<1>1. /\ check.kind \in {"pii", "blocklist", "injection", "moderation"}
      /\ check.action \in {"block", "redact", "warn"}
      /\ check.threshold \in Nat
      /\ check.words \subseteq Texts
  BY DEF Checks
<1>2. CASE check.kind = "moderation" \/ check.action = "warn" \/ ~check.enabled
  BY <1>2 DEF Cleared
<1>3. CASE check.enabled /\ check.kind = "injection" /\ check.action = "block"
  <2>1. R = r /\ InjectionFindings(check, r) = {}
    <3>1. Findings(check, r, verdict) = InjectionFindings(check, r)
      BY <1>3 DEF Findings
    <3>2. ~PassesThrough(check, verdict)
      BY <1>3 DEF PassesThrough
    <3> QED BY <1>3, <3>1, <3>2 DEF After, Blocks
  <2>2. Cardinality(Hits(r, check.words)) < check.threshold
    BY <2>1 DEF InjectionFindings
  <2>3. Hits(r, Sought(check)) \subseteq Hits(r, check.words)
    BY DEF Hits, Sought
  <2>4. /\ Cardinality(Hits(r, Sought(check))) \in Nat
        /\ Cardinality(Hits(r, check.words)) \in Nat
        /\ Cardinality(Hits(r, Sought(check))) <= Cardinality(Hits(r, check.words))
    BY <2>3, FewerHits
  <2>5. Cardinality(Hits(r, Sought(check))) < check.threshold
    BY <1>1, <2>2, <2>4
  <2> QED BY <1>3, <2>1, <2>5 DEF Cleared
<1>4. CASE check.enabled /\ check.kind = "injection" /\ check.action = "redact"
  BY <1>4 DEF Cleared
<1>5. CASE check.enabled /\ check.kind \in {"pii", "blocklist"} /\ check.action = "block"
  <2>1. R = r /\ SpanFindings(check, r) = {}
    BY <1>5 DEF After, Blocks, Findings, PassesThrough
  <2>2. ASSUME NEW s \in Segments(r), <<i, s>> \notin gone, NEW word \in Sought(check) \ {<<>>},
               NEW p \in DOMAIN TextAt(r, s), FoundAt(word, TextAt(r, s), p)
        PROVE  FALSE
    <3>1. ~Oversize(check, TextAt(r, s))
      BY <2>2 DEF MissedIn
    <3>2. TextAt(r, s) \in Texts /\ word \in check.words /\ word \in Texts \ {<<>>}
      BY <1>1, SegmentCases DEF Sought
    <3>3. Matches(word, TextAt(r, s)) # {}
      BY <2>2, <3>2, MatchesAreAll
    <3>4. Found(check, TextAt(r, s)) # {}
      BY <3>1, <3>2, <3>3 DEF Found
    <3> QED BY <2>1, <3>4 DEF SpanFindings
  <2> QED BY <1>5, <2>1, <2>2 DEF Cleared, LeftIn, WordLeft
<1>6. CASE check.enabled /\ check.kind \in {"pii", "blocklist"} /\ check.action = "redact"
  <2>1. R = Rewritten(check, r)
    BY <1>6 DEF After
  <2>2. ASSUME NEW s \in Segments(R), <<i, s>> \notin gone, NEW word \in Sought(check) \ {<<>>},
               WordLeft(word, i, n, R, alt, s)
        PROVE  FALSE
    <3>1. s \in Segments(r)
      BY <2>1, RewrittenSegments
    <3>2. s \notin MissedIn(check, r)
      BY <2>2
    <3>3. ~Oversize(check, TextAt(r, s)) /\ ~Spared(check, r, s)
      BY <1>6, <3>1, <3>2 DEF MissedIn, Spared
    <3>4. TextAt(R, s) = Clean(check, TextAt(r, s))
      BY <2>1, <3>3, RewrittenSegments
    <3>5. TextAt(r, s) \in Texts
      BY <3>1, SegmentCases
    <3>6. CASE word \notin Bounded
      <4>1. Occurs(word, TextAt(R, s))
        BY <2>2 DEF WordLeft, FoundAt, Occurs
      <4> QED BY <3>3, <3>4, <3>5, <3>6, <4>1, CleanLeavesNothing
    <3>7. CASE word \in Bounded
      <4>1. TextAt(R, s) = TextAt(r, s)
        BY <2>2, <3>1, <3>7 DEF WordLeft, AlteredSince
      <4>2. PICK p \in DOMAIN TextAt(r, s) : FoundAt(word, TextAt(r, s), p)
        BY <2>2, <4>1 DEF WordLeft
      <4> QED BY <3>3, <3>4, <3>5, <4>1, <4>2, CleanChanges
    <3> QED BY <3>6, <3>7
  <2> QED BY <1>6, <2>2 DEF Cleared, LeftIn
<1> QED BY <1>1, <1>2, <1>3, <1>4, <1>5, <1>6 DEF Checks

MaskedIn(check, i, alone, was, r, gone) ==
  \A s \in Segments(r) : <<i, s>> \notin gone =>
    LET bare == Cardinality(Unfound(check, TextAt(was, s)))
        left == Cardinality(Unmasked(TextAt(r, s)))
    IN left <= bare /\ (alone => left = bare)

(* The first redaction takes what it found, and nothing else. *)
LEMMA RedactionMasks ==
  ASSUME NEW check \in Checks, NEW i, NEW alone \in BOOLEAN, NEW r \in Requests, NEW R, R = Rewritten(check, r),
         check.action = "redact",
         NEW gone, \A s \in MissedIn(check, r) : <<i, s>> \in gone
  PROVE  MaskedIn(check, i, alone, r, R, gone)
<1> SUFFICES ASSUME NEW s \in Segments(R), <<i, s>> \notin gone
             PROVE  /\ Cardinality(Unmasked(TextAt(R, s))) = Cardinality(Unfound(check, TextAt(r, s)))
                    /\ Cardinality(Unmasked(TextAt(R, s))) \in Nat
  BY DEF MaskedIn
<1>1. s \in Segments(r)
  BY RewrittenSegments
<1>2. s \notin MissedIn(check, r)
  OBVIOUS
<1>3. ~Spared(check, r, s)
  BY <1>1, <1>2 DEF MissedIn, Spared
<1>4. TextAt(R, s) = Clean(check, TextAt(r, s)) /\ TextAt(r, s) \in Texts
  BY <1>1, <1>3, RewrittenSegments, SegmentCases
<1>5. Clean(check, TextAt(r, s)) \in Texts
  BY <1>4, CleanIsText
<1>6. Cardinality(Unmasked(Clean(check, TextAt(r, s)))) = Cardinality(Unfound(check, TextAt(r, s)))
  BY <1>4, FoundIsPlaced, RedactedHasNoLess DEF Clean, Unfound
<1> QED BY <1>4, <1>5, <1>6, UnmaskedIsFinite

(* A later redaction only takes more. *)
LEMMA RedactionKeepsMasked ==
  ASSUME NEW check \in Checks, NEW i, NEW was \in Requests, NEW r \in Requests, NEW gone,
         MaskedIn(check, i, FALSE, was, r, gone), Segments(r) \subseteq Segments(was),
         NEW later \in Checks, NEW R, R = Rewritten(later, r), NEW more, gone \subseteq more
  PROVE  MaskedIn(check, i, FALSE, was, R, more) /\ Segments(R) \subseteq Segments(was)
<1>1. Segments(R) \subseteq Segments(r)
  BY RewrittenSegments
<1>2. ASSUME NEW s \in Segments(R), <<i, s>> \notin more
      PROVE  Cardinality(Unmasked(TextAt(R, s))) <= Cardinality(Unfound(check, TextAt(was, s)))
  <2> DEFINE text == TextAt(r, s)
  <2>1. /\ s \in Segments(r) /\ s \in Segments(was) /\ text \in Texts /\ TextAt(was, s) \in Texts
        /\ TextAt(R, s) = text \/ TextAt(R, s) = Clean(later, text)
    BY <1>1, RewrittenSegments, SegmentCases
  <2>2. Cardinality(Unmasked(text)) <= Cardinality(Unfound(check, TextAt(was, s)))
    BY <1>2, <2>1 DEF MaskedIn
  <2>3. /\ Cardinality(Unmasked(Clean(later, text))) = Cardinality(Unfound(later, text))
        /\ IsFiniteSet(Unmasked(text))
        /\ Clean(later, text) \in Texts
    BY <2>1, FoundIsPlaced, RedactedHasNoLess, CleanIsText DEF Clean, Unfound
  <2>4. Cardinality(Unfound(later, text)) <= Cardinality(Unmasked(text))
    BY <2>3, FS_Subset DEF Unfound
  <2>5. /\ Cardinality(Unmasked(text)) \in Nat
        /\ Cardinality(Unmasked(Clean(later, text))) \in Nat
        /\ Cardinality(Unfound(check, TextAt(was, s))) \in Nat
    <3>1. IsFiniteSet(Unmasked(TextAt(was, s))) /\ Unfound(check, TextAt(was, s)) \subseteq Unmasked(TextAt(was, s))
      BY <2>1, UnmaskedIsFinite DEF Unfound
    <3>2. IsFiniteSet(Unfound(check, TextAt(was, s)))
      BY <3>1, FS_Subset
    <3> QED BY <2>1, <2>3, <3>2, UnmaskedIsFinite, FS_CardinalityType
  <2> QED BY <2>1, <2>2, <2>3, <2>4, <2>5
<1> QED BY <1>1, <1>2 DEF MaskedIn

-----------------------------------------------------------------------------
(* What is sent is of the request as the checks left it.                   *)

(* The elements of a sequence at some places are a sequence of them. *)
LEMMA ThoseAreElements ==
  ASSUME NEW S, NEW s \in Seq(S), NEW I
  PROVE  Those(s, I) \in Seq(S)
<1> DEFINE pieces == [i \in DOMAIN s |-> IF i \in I THEN <<s[i]>> ELSE <<>>]
<1>1. pieces \in Seq(Seq(S))
  <2>1. \A i \in DOMAIN s : pieces[i] \in Seq(S)
    OBVIOUS
  <2>2. DOMAIN s = 1 .. Len(s) /\ Len(s) \in Nat
    OBVIOUS
  <2> QED BY <2>1, <2>2
<1> HIDE DEF pieces
<1>2. PICK F : Assembled(F, pieces, Len(pieces), S)
  BY <1>1, Assembly
<1>3. FlattenSeq(pieces) = F[Len(pieces)]
  BY <1>1, <1>2, Flattening
<1>4. F[Len(pieces)] \in Seq(S)
  BY <1>1, <1>2 DEF Assembled
<1> QED BY <1>3, <1>4 DEF Those, pieces

(* No adapter makes up a text. *)
LEMMA PromptIsOfRequest ==
  ASSUME NEW k, NEW r \in Requests
  PROVE  /\ TextsOf(Prompt(k, r).messages) \subseteq TextsOf(r.messages)
         /\ ToolTexts(Prompt(k, r).tools) \subseteq ToolTexts(r.tools)
         /\ Prompt(k, r).user \in {r.user, <<>>}
         /\ \A f \in DOMAIN Prompt(k, r).apart : Prompt(k, r).apart[f] = r.apart[f]
<1> DEFINE kept == Kept(k, r)
           n == Len(r.messages)
<1>1. kept \in Seq(DOMAIN r.messages)
  <2>1. DOMAIN r.messages = 1 .. n /\ n \in Nat
    BY DEF Requests
  <2>2. [i \in 1 .. n |-> i] \in Seq(DOMAIN r.messages)
    BY <2>1
  <2> QED BY <2>2, ThoseAreElements DEF Kept
<1>2. \A i \in DOMAIN kept : kept[i] \in DOMAIN r.messages
  BY <1>1, ElementsAreIn
<1>3. Prompt(k, r).messages = [i \in DOMAIN kept |-> SentMessage(k, r.messages[kept[i]])]
  BY DEF Prompt
<1>4. ASSUME NEW m, m.parts \in Seq(Parts) PROVE PartTexts(SentMessage(k, m)) \subseteq PartTexts(m)
  <2> DEFINE I == {j \in DOMAIN m.parts : m.parts[j].is \in Carried(k, m)}
             S == {m.parts[j] : j \in DOMAIN m.parts}
  <2>1. m.parts \in Seq(S)
    <3>1. DOMAIN m.parts = 1 .. Len(m.parts) /\ Len(m.parts) \in Nat
      BY <1>4
    <3> QED BY <1>4, <3>1
  <2>2. Those(m.parts, I) \in Seq(S)
    <3> HIDE DEF S, I
    <3> QED BY <2>1, ThoseAreElements
  <2>3. SentMessage(k, m).parts = Those(m.parts, I)
    BY DEF SentMessage
  <2>4. \A j \in DOMAIN Those(m.parts, I) : Those(m.parts, I)[j] \in S
    <3> HIDE DEF S, I
    <3> QED BY <2>2, ElementsAreIn
  <2> QED BY <2>3, <2>4 DEF PartTexts
<1>5. TextsOf(Prompt(k, r).messages) \subseteq TextsOf(r.messages)
  <2>1. ASSUME NEW i \in DOMAIN kept
        PROVE  PartTexts(Prompt(k, r).messages[i]) \subseteq PartTexts(r.messages[kept[i]])
    <3>1. r.messages[kept[i]].parts \in Seq(Parts)
      BY <1>2, RequestParts DEF Messages
    <3> HIDE DEF kept
    <3> QED BY <1>3, <1>4, <3>1
  <2> HIDE DEF kept
  <2>2. DOMAIN Prompt(k, r).messages = DOMAIN kept
    BY <1>3
  <2> QED BY <1>2, <2>1, <2>2 DEF TextsOf
<1>6. ToolTexts(Prompt(k, r).tools) \subseteq ToolTexts(r.tools)
  BY DEF Prompt, SentTools, ToolTexts
<1>7. Prompt(k, r).user \in {r.user, <<>>}
  BY DEF Prompt
<1>8. \A f \in DOMAIN Prompt(k, r).apart : Prompt(k, r).apart[f] = r.apart[f]
  BY DEF Prompt
<1> QED BY <1>5, <1>6, <1>7, <1>8

-----------------------------------------------------------------------------
(* The pipeline.                                                           *)

(* Where nothing can have been sent. *)
Unsent == {"fresh", "checking", "blocked"}

(* What the checks that have run made of the request.                      *)
Guarding ==
  /\ guarded \in Requests
  /\ guarded.apart = call.request.apart
  /\ checked \in 0 .. Len(Policy)
  /\ phase \notin Unsent => checked = Len(Policy)
  /\ Segments(guarded) \subseteq Segments(call.request)
  /\ phase # "blocked" => \A i \in 1 .. checked :
       /\ Cleared(Policy[i], i, Len(Policy), guarded, skipped, altered)
       /\ Redacts(i) /\ (\A h \in 1 .. i - 1 : ~Redacts(h)) =>
            MaskedIn(Policy[i], i, \A h \in 1 .. checked \ {i} : ~Redacts(h), call.request, guarded, skipped)
  /\ (\A h \in 1 .. checked : ~Redacts(h)) => guarded = call.request

(* What was sent, once something was.                                      *)
Sending ==
  prompt # NoPrompt =>
    /\ phase \notin Unsent
    /\ PromptTexts \subseteq GuardedTexts
    /\ \A f \in DOMAIN prompt.apart : prompt.apart[f] = guarded.apart[f]

GuardInv == id \in DOMAIN Calls /\ Guarding /\ Sending

(* What the assumption says of the policy of a call. *)
LEMMA PolicyIsTyped ==
  ASSUME id \in DOMAIN Calls
  PROVE  /\ Policy \in Seq(Checks)
         /\ call.request \in Requests
         /\ \A i \in DOMAIN Policy : Policy[i] \in Checks /\ IsFiniteSet(Policy[i].words)
         /\ DOMAIN Policy = 1 .. Len(Policy)
         /\ Len(Policy) \in Nat
<1>1. /\ call.policy.checks \in Seq(Checks) /\ call.request \in Requests
      /\ \A i \in DOMAIN call.policy.checks : IsFiniteSet(call.policy.checks[i].words)
  BY PipelineAssumption DEF call
<1>2. Policy \in Seq(Checks)
  BY <1>1 DEF Policy
<1>3. \A i \in DOMAIN Policy : IsFiniteSet(Policy[i].words)
  <2>1. Policy = call.policy.checks \/ Policy = <<>>
    BY DEF Policy
  <2>2. DOMAIN <<>> = {}
    OBVIOUS
  <2> QED BY <1>1, <2>1, <2>2
<1> QED BY <1>1, <1>2, <1>3, ElementsAreIn

(* A check: what it clears is clear, what others cleared stays so. *)
LEMMA RunCheckGuards ==
  ASSUME GuardInv, NEW v, RunCheck(v)
  PROVE  GuardInv'
<1> DEFINE check == Policy[checked + 1]
           n == checked + 1
<1>1. /\ id' = id /\ Policy' = Policy /\ call' = call
      /\ \A i : Redacts(i)' <=> Redacts(i)
  BY DEF RunCheck, Policy, call, Redacts
<1>2. /\ n \in 1 .. Len(Policy) /\ n \in DOMAIN Policy /\ checked \in Nat
      /\ Len(Policy) \in Nat
      /\ check \in Checks /\ IsFiniteSet(check.words)
      /\ checked' = n
      /\ phase = "checking" /\ phase' \in {"checking", "blocked"}
      /\ call.request \in Requests
  BY PolicyIsTyped DEF GuardInv, Guarding, RunCheck
<1>3. /\ guarded \in Requests /\ skipped \subseteq skipped' /\ altered \subseteq altered'
      /\ \A s \in Segments(guarded) : TextAt(guarded', s) # TextAt(guarded, s) => <<n, s>> \in altered'
      /\ Segments(guarded) \subseteq Segments(call.request)
  BY DEF GuardInv, Guarding, RunCheck, Changed
<1>4. \/ guarded' = guarded /\ (phase' # "blocked" => ~Redacts(n))
      \/ guarded' = Rewritten(check, guarded) /\ Redacts(n) /\ phase' # "blocked"
  BY DEF RunCheck, After, Redacts
<1>5. /\ guarded' \in Requests /\ Segments(guarded') \subseteq Segments(call.request)
      /\ guarded'.apart = call.request.apart
  <2>1. guarded.apart = call.request.apart
    BY DEF GuardInv, Guarding
  <2> QED BY <1>2, <1>3, <1>4, <2>1, RewrittenParts, RewrittenSegments
<1>6. ASSUME NEW i \in 1 .. checked, phase' # "blocked"
      PROVE  Cleared(Policy[i], i, Len(Policy), guarded', skipped', altered')
  <2>1. Policy[i] \in Checks /\ IsFiniteSet(Policy[i].words) /\ Cleared(Policy[i], i, Len(Policy), guarded, skipped, altered)
    <3>1. i \in DOMAIN Policy
      BY <1>2, PolicyIsTyped DEF GuardInv
    <3>2. Policy[i] \in Checks /\ IsFiniteSet(Policy[i].words)
      BY <3>1, PolicyIsTyped DEF GuardInv
    <3>3. Cleared(Policy[i], i, Len(Policy), guarded, skipped, altered)
      BY <1>2 DEF GuardInv, Guarding
    <3> QED BY <3>2, <3>3
  <2>2. CASE guarded' = guarded
    BY <1>3, <2>1, <2>2 DEF Cleared, LeftIn, WordLeft, AlteredSince
  <2>3. CASE guarded' = Rewritten(check, guarded)
    <3>1. n \in i .. Len(Policy)
      BY <1>2
    <3> QED BY <1>2, <1>3, <2>1, <2>3, <3>1, RedactionKeepsClear
  <2> QED BY <1>4, <2>2, <2>3
<1>7. ASSUME phase' # "blocked" PROVE Cleared(check, n, Len(Policy), guarded', skipped', altered')
  <2>1. ~(check.enabled /\ Blocks(check, guarded, v))
    BY <1>7 DEF RunCheck
  <2>2. guarded' = IF check.enabled THEN After(check, guarded) ELSE guarded
    BY <1>7 DEF RunCheck
  <2>3. \A s \in MissedIn(check, guarded) : <<n, s>> \in skipped'
    BY DEF RunCheck, Missed, MissedIn
  <2>4. n \in n .. Len(Policy)
    BY <1>2
  <2> QED BY <1>2, <1>3, <2>1, <2>2, <2>3, <2>4, CheckClears
<1> DEFINE Alone(i, m) == \A h \in (1 .. m) \ {i} : ~Redacts(h)
           First(i) == Redacts(i) /\ \A h \in 1 .. i - 1 : ~Redacts(h)
<1>8. ASSUME NEW i \in 1 .. checked, phase' # "blocked", First(i)
      PROVE  MaskedIn(Policy[i], i, Alone(i, n), call.request, guarded', skipped')
  <2>1. MaskedIn(Policy[i], i, Alone(i, checked), call.request, guarded, skipped) /\ Policy[i] \in Checks
    <3>1. i \in DOMAIN Policy
      BY <1>2, PolicyIsTyped DEF GuardInv
    <3>2. Policy[i] \in Checks
      BY <3>1, PolicyIsTyped DEF GuardInv
    <3>3. MaskedIn(Policy[i], i, Alone(i, checked), call.request, guarded, skipped)
      BY <1>2, <1>8 DEF GuardInv, Guarding
    <3> QED BY <3>2, <3>3
  <2>2. CASE guarded' = guarded /\ ~Redacts(n)
    <3>1. Alone(i, n) <=> Alone(i, checked)
      BY <1>2, <2>2
    <3> HIDE DEF Alone
    <3> QED BY <1>3, <2>1, <2>2, <3>1 DEF MaskedIn
  <2>3. CASE guarded' = Rewritten(check, guarded) /\ Redacts(n)
    <3>1. ~Alone(i, n)
      BY <1>2, <2>3
    <3> HIDE DEF Alone
    <3>2. MaskedIn(Policy[i], i, FALSE, call.request, guarded, skipped)
      BY <2>1 DEF MaskedIn
    <3>3. MaskedIn(Policy[i], i, FALSE, call.request, guarded', skipped')
      BY <1>2, <1>3, <2>1, <2>3, <3>2, RedactionKeepsMasked
    <3> QED BY <3>1, <3>3 DEF MaskedIn
  <2> HIDE DEF Alone, First
  <2> QED BY <1>4, <1>8, <2>2, <2>3
<1>9. ASSUME phase' # "blocked", First(n)
      PROVE  MaskedIn(check, n, Alone(n, n), call.request, guarded', skipped')
  <2>1. \A h \in 1 .. checked : ~Redacts(h)
    BY <1>2, <1>9
  <2>2. guarded = call.request
    BY <2>1 DEF GuardInv, Guarding
  <2>3. guarded' = Rewritten(check, call.request) /\ check.action = "redact"
    BY <1>4, <1>9, <2>2 DEF Redacts
  <2>4. \A s \in MissedIn(check, call.request) : <<n, s>> \in skipped'
    BY <2>2 DEF RunCheck, Missed, MissedIn
  <2>5. Alone(n, n) \in BOOLEAN
    OBVIOUS
  <2> HIDE DEF Alone
  <2> QED BY <1>2, <2>3, <2>4, <2>5, RedactionMasks
<1>10. (\A h \in 1 .. n : ~Redacts(h)) => guarded' = call.request
  <2> SUFFICES ASSUME \A h \in 1 .. n : ~Redacts(h) PROVE guarded' = call.request
    OBVIOUS
  <2>1. ~Redacts(n) /\ \A h \in 1 .. checked : ~Redacts(h)
    BY <1>2
  <2>2. guarded = call.request
    BY <2>1 DEF GuardInv, Guarding
  <2>3. phase' = "blocked" => guarded' = guarded
    BY DEF RunCheck
  <2> QED BY <1>4, <2>1, <2>2, <2>3
<1>11. \A i \in 1 .. n : i \in 1 .. checked \/ i = n
  BY <1>2
<1>12. ASSUME NEW i \in 1 .. n, phase' # "blocked"
       PROVE  /\ Cleared(Policy[i], i, Len(Policy), guarded', skipped', altered')
              /\ First(i) => MaskedIn(Policy[i], i, Alone(i, n), call.request, guarded', skipped')
  <2> HIDE DEF First, Alone
  <2> QED BY <1>6, <1>7, <1>8, <1>9, <1>11, <1>12
<1>13. n \in 0 .. Len(Policy)
  BY <1>2
<1>14. Guarding'
  BY <1>1, <1>2, <1>5, <1>10, <1>12, <1>13 DEF Guarding, Unsent
<1>15. Sending'
  <2>1. prompt = NoPrompt /\ prompt' = prompt
    BY <1>2 DEF GuardInv, Sending, RunCheck, Unsent
  <2> QED BY <2>1 DEF Sending
<1> QED BY <1>1, <1>14, <1>15 DEF GuardInv

(* The steps of the checks and of the attempts leave the request alone. *)
LEMMA OthersLeaveRequest ==
  ASSUME GuardInv, UNCHANGED pipeVars,
         phase \in Unsent => phase' \in Unsent \/ checked = Len(Policy),
         phase = "blocked" <=> phase' = "blocked",
         prompt' # NoPrompt => /\ phase' \notin Unsent
                               /\ PromptTexts' \subseteq GuardedTexts
                               /\ \A f \in DOMAIN prompt'.apart : prompt'.apart[f] = guarded.apart[f]
  PROVE  GuardInv'
<1>1. /\ id' = id /\ guarded' = guarded /\ checked' = checked /\ skipped' = skipped /\ altered' = altered
      /\ Policy' = Policy /\ call' = call
      /\ \A i : Redacts(i)' <=> Redacts(i)
  BY DEF pipeVars, Policy, call, Redacts
<1>2. Guarding'
  BY <1>1 DEF GuardInv, Guarding, Unsent
<1>3. GuardedTexts' = GuardedTexts
  BY <1>1 DEF GuardedTexts, TextsOf, ToolTexts, PartTexts
<1>4. Sending'
  BY <1>1, <1>3 DEF Sending
<1> QED BY <1>1, <1>2, <1>4 DEF GuardInv

(* What is asked of a vendor is of the request as all checks left it. *)
LEMMA AskSendsGuarded ==
  ASSUME GuardInv, Ask
  PROVE  /\ PromptTexts' \subseteq GuardedTexts
         /\ \A f \in DOMAIN prompt'.apart : prompt'.apart[f] = guarded.apart[f]
<1>1. guarded \in Requests /\ prompt' = Prompt(Provider, guarded)
  BY DEF GuardInv, Guarding, Ask
<1>2. /\ TextsOf(prompt'.messages) \subseteq TextsOf(guarded.messages)
      /\ ToolTexts(prompt'.tools) \subseteq ToolTexts(guarded.tools)
      /\ prompt'.user \in {guarded.user, <<>>}
      /\ \A f \in DOMAIN prompt'.apart : prompt'.apart[f] = guarded.apart[f]
  BY <1>1, PromptIsOfRequest
<1>3. PromptTexts' = TextsOf(prompt'.messages) \cup ToolTexts(prompt'.tools) \cup {prompt'.user}
  BY DEF PromptTexts, TextsOf, ToolTexts, PartTexts
<1>4. GuardedTexts = TextsOf(guarded.messages) \cup ToolTexts(guarded.tools) \cup {guarded.user, <<>>}
  BY DEF GuardedTexts
<1> QED BY <1>2, <1>3, <1>4

(* Every step keeps the request guarded. *)
LEMMA GuardStep ==
  ASSUME GuardInv, [Next]_vars
  PROVE  GuardInv'
<1> USE DEF pipeVars
<1>1. ASSUME NEW v \in Verdict, RunCheck(v) PROVE GuardInv'
  BY <1>1, RunCheckGuards
<1> DEFINE Keeps == /\ UNCHANGED pipeVars
                    /\ prompt' = prompt
                    /\ phase \notin Unsent
                    /\ phase' \notin Unsent
<1>2. ASSUME Keeps PROVE GuardInv'
  <2>1. PromptTexts' = PromptTexts
    BY <1>2 DEF PromptTexts, TextsOf, ToolTexts, PartTexts
  <2>2. prompt' # NoPrompt =>
          /\ PromptTexts \subseteq GuardedTexts
          /\ \A f \in DOMAIN prompt'.apart : prompt'.apart[f] = guarded.apart[f]
    BY <1>2 DEF GuardInv, Sending
  <2>3. /\ UNCHANGED pipeVars
        /\ phase \notin Unsent
        /\ phase' \notin Unsent
        /\ phase = "blocked" <=> phase' = "blocked"
    BY <1>2 DEF Unsent
  <2> QED BY <2>1, <2>2, <2>3, OthersLeaveRequest
<1>3. ASSUME NEW error, phase = "ready" \/ phase = "open", Fail(error) PROVE phase' \notin Unsent
  BY <1>3 DEF Fail, Unsent
<1>4. ASSUME Passed PROVE GuardInv'
  <2>1. prompt' = NoPrompt
    BY <1>4 DEF Passed, GuardInv, Sending, Unsent
  <2> QED BY <1>4, <2>1, OthersLeaveRequest DEF Passed
<1>5. ASSUME Refuse PROVE GuardInv'
  <2>1. Keeps
    BY <1>3, <1>5 DEF Refuse, Unsent
  <2> QED BY <1>2, <2>1
<1>6. ASSUME Yield PROVE GuardInv'
  BY <1>2, <1>6 DEF Yield, Unsent
<1>7. ASSUME Fault PROVE GuardInv'
  <2>1. Keeps
    BY <1>3, <1>7 DEF Fault, Unsent
  <2> QED BY <1>2, <2>1
<1>8. ASSUME Cancel PROVE GuardInv'
  <2>1. Keeps
    BY <1>3, <1>8 DEF Cancel, Unsent
  <2> QED BY <1>2, <2>1
<1>9. ASSUME WakeUp PROVE GuardInv'
  BY <1>2, <1>9 DEF WakeUp, Unsent
<1>10. ASSUME Ask PROVE GuardInv'
  <2>1. /\ PromptTexts' \subseteq GuardedTexts
        /\ \A f \in DOMAIN prompt'.apart : prompt'.apart[f] = guarded.apart[f]
    BY <1>10, AskSendsGuarded
  <2> QED BY <1>10, <2>1, OthersLeaveRequest DEF Ask, Unsent
<1>11. ASSUME NEW m, Break(m) PROVE GuardInv'
  <2>1. Keeps
    BY <1>3, <1>11 DEF Break, Unsent
  <2> QED BY <1>2, <2>1
<1>12. ASSUME NEW n, Arrive(n) PROVE GuardInv'
  BY <1>2, <1>12 DEF Arrive, Unsent
<1>13. ASSUME Finish PROVE GuardInv'
  <2>1. Keeps
    BY <1>3, <1>13 DEF Finish, Unsent
  <2> QED BY <1>2, <2>1
<1>14. ASSUME Complete PROVE GuardInv'
  <2>1. Keeps
    BY <1>3, <1>14 DEF Complete, Unsent
  <2> QED BY <1>2, <2>1
<1>15. ASSUME Abort PROVE GuardInv'
  <2>1. PromptTexts' = PromptTexts
    BY <1>15 DEF Abort, PromptTexts, TextsOf, ToolTexts, PartTexts
  <2> QED BY <1>15, <2>1, OthersLeaveRequest DEF Abort, Ended, GuardInv, Sending, Unsent
<1>17. ASSUME AbortEarly \/ MakeSignal PROVE GuardInv'
  <2>1. phase = "fresh" /\ prompt' = prompt /\ prompt = NoPrompt /\ phase' \in {"fresh", "checking"}
    BY <1>17 DEF AbortEarly, MakeSignal, GuardInv, Sending, Unsent
  <2>2. UNCHANGED pipeVars
    BY <1>17 DEF AbortEarly, MakeSignal
  <2> QED BY <2>1, <2>2, OthersLeaveRequest DEF Unsent
<1>16. ASSUME UNCHANGED vars PROVE GuardInv'
  <2>1. PromptTexts' = PromptTexts
    BY <1>16 DEF vars, PromptTexts, TextsOf, ToolTexts, PartTexts
  <2> QED BY <1>16, <2>1, OthersLeaveRequest DEF vars, GuardInv, Sending
<1> QED BY <1>1, <1>4, <1>5, <1>6, <1>7, <1>8, <1>9, <1>10, <1>11, <1>12, <1>13, <1>14, <1>15, <1>16, <1>17
        DEF Next, Own, Moderator, Vendor

(* A call begins with its own request. *)
LEMMA GuardInit == Init => GuardInv
<1> SUFFICES ASSUME Init PROVE GuardInv
  OBVIOUS
<1>1. id \in DOMAIN Calls /\ Len(Policy) \in Nat /\ call.request \in Requests
  BY PolicyIsTyped DEF Init
<1> QED BY <1>1 DEF Init, GuardInv, Guarding, Sending, Unsent

(* The invariant is what is claimed, once something was sent. *)
LEMMA GuardedIsSent == GuardInv => SentIsGuarded
<1> SUFFICES ASSUME GuardInv, prompt # NoPrompt, NEW i \in DOMAIN Policy
             PROVE  /\ Clears(i)
                    /\ Redacts(i) /\ (\A h \in 1 .. i - 1 : ~Redacts(h)) => Masked(i)
  BY DEF SentIsGuarded, GuardInv, Guarding, Sending
<1>1. phase \notin Unsent
  BY DEF GuardInv, Sending
<1>2. checked = Len(Policy) /\ DOMAIN Policy = 1 .. checked
  BY <1>1, PolicyIsTyped DEF GuardInv, Guarding
<1> DEFINE alone == \A h \in (1 .. checked) \ {i} : ~Redacts(h)
<1>3. /\ Cleared(Policy[i], i, Len(Policy), guarded, skipped, altered)
      /\ Redacts(i) /\ (\A h \in 1 .. i - 1 : ~Redacts(h)) =>
           MaskedIn(Policy[i], i, alone, call.request, guarded, skipped)
  BY <1>1, <1>2 DEF GuardInv, Guarding, Unsent
<1>4. Clears(i)
  BY <1>3 DEF Cleared, LeftIn, WordLeft, AlteredSince, Clears, MaskedSince
<1>5. ASSUME MaskedIn(Policy[i], i, alone, call.request, guarded, skipped) PROVE Masked(i)
  <2>1. alone <=> \A h \in DOMAIN Policy \ {i} : ~Redacts(h)
    BY <1>2
  <2> HIDE DEF alone
  <2> QED BY <1>5, <2>1 DEF MaskedIn, Masked, Unfound, Covered
<1> QED BY <1>3, <1>4, <1>5

(* Whatever texts are made of, whatever the checks of a policy look for    *)
(* and in whatever order they stand, what leaves for a vendor has passed   *)
(* all of them, through every retry and every provider of a chain.         *)
THEOREM PromptsAreGuarded == Spec => []SentIsGuarded
<1>1. GuardInv /\ [Next]_vars => GuardInv'
  BY GuardStep
<1> QED BY <1>1, GuardInit, GuardedIsSent, PTL DEF Spec

-----------------------------------------------------------------------------
(* Sequences.                                                              *)

(* A set with the empty sequence and every extension of its members has    *)
(* every sequence.                                                         *)
LEMMA SeqInduction ==
  ASSUME NEW S, NEW P, <<>> \in P,
         \A s \in Seq(S) : \A x \in S : s \in P => Append(s, x) \in P
  PROVE  \A s \in Seq(S) : s \in P
<1> DEFINE Upto == {n \in Nat : \A s \in Seq(S) : Len(s) = n => s \in P}
<1>1. 0 \in Upto
  OBVIOUS
<1>2. ASSUME NEW n \in Nat, n \in Upto PROVE n + 1 \in Upto
  <2>1. ASSUME NEW s \in Seq(S), Len(s) = n + 1 PROVE s \in P
    <3> DEFINE front == [i \in 1 .. n |-> s[i]]
    <3>1. front \in Seq(S) /\ Len(front) = n /\ s[n + 1] \in S
      BY <2>1
    <3>2. s = Append(front, s[n + 1])
      BY <2>1
    <3> HIDE DEF front
    <3>3. front \in P
      BY <1>2, <3>1
    <3> QED BY <3>1, <3>2, <3>3
  <2> QED BY <2>1
<1>3. \A n \in Nat : n \in Upto
  <2> HIDE DEF Upto
  <2> QED BY <1>1, <1>2, Induction
<1>4. ASSUME NEW s \in Seq(S) PROVE s \in P
  <2>1. Len(s) \in Nat
    OBVIOUS
  <2>2. Len(s) \in Upto
    <3> HIDE DEF Upto
    <3> QED BY <1>3, <2>1
  <2> QED BY <2>2
<1> QED BY <1>4

(* A set of numbers that is not empty has a least member. *)
LEMMA LeastNumber ==
  ASSUME NEW T \in SUBSET Nat, T # {}
  PROVE  \E x \in T : \A y \in T : x =< y
<1>1. PICK x \in T : \A y \in T : ~ (<<y, x>> \in OpToRel(<, Nat))
  BY NatLessThanWellFounded, WFMin, Zenon
<1>2. ASSUME NEW y \in T PROVE x =< y
  <2>1. ~(y < x)
    BY <1>1 DEF OpToRel
  <2> QED BY <2>1
<1> QED BY <1>2

(* A short sequence that is not empty has one element. *)
LEMMA ShortIsOne ==
  ASSUME NEW S, NEW x \in Seq(S), Len(x) =< 1, x # <<>>
  PROVE  \E y \in S : x = <<y>>
<1>1. PICK n \in Nat : n = Len(x)
  OBVIOUS
<1>2. n # 0
  BY <1>1, EmptySeq
<1>3. Len(x) = 1
  BY <1>1, <1>2
<1>4. PICK y \in S : y = x[1]
  BY <1>3
<1>5. <<y>> \in Seq(S) /\ Len(<<y>>) = 1 /\ <<y>>[1] = y
  OBVIOUS
<1>6. x = <<y>>
  BY <1>3, <1>4, <1>5, SeqEqual
<1> QED BY <1>6

(* Nothing flattened is nothing. *)
LEMMA FlatNothing == FlattenSeq(<<>>) = <<>>
BY DEF FlattenSeq

(* One more piece is flattened behind the others. *)
LEMMA FlatAppend ==
  ASSUME NEW S, NEW seqs \in Seq(Seq(S)), NEW x \in Seq(S)
  PROVE  /\ FlattenSeq(seqs) \in Seq(S)
         /\ FlattenSeq(Append(seqs, x)) = FlattenSeq(seqs) \o x
<1> DEFINE n == Len(seqs)
           more == Append(seqs, x)
<1>1. /\ n \in Nat /\ more \in Seq(Seq(S)) /\ Len(more) = n + 1 /\ more[n + 1] = x
      /\ \A i \in 1 .. n : more[i] = seqs[i]
  OBVIOUS
<1> HIDE DEF more
<1>2. PICK F : Assembled(F, more, n + 1, S)
  BY <1>1, Assembly
<1> DEFINE G == [i \in 0 .. n |-> F[i]]
<1>3. Assembled(G, seqs, n, S)
  <2>1. F \in [0 .. n + 1 -> Seq(S)] /\ F[0] = <<>> /\ \A i \in 1 .. n + 1 : F[i] = F[i - 1] \o more[i]
    BY <1>2 DEF Assembled
  <2>2. G \in [0 .. n -> Seq(S)] /\ G[0] = <<>>
    BY <1>1, <2>1
  <2>3. ASSUME NEW i \in 1 .. n PROVE G[i] = G[i - 1] \o seqs[i]
    <3>1. i \in 0 .. n /\ i - 1 \in 0 .. n /\ i \in 1 .. n + 1
      BY <1>1
    <3>2. F[i] = F[i - 1] \o more[i] /\ more[i] = seqs[i]
      BY <1>1, <2>1, <3>1
    <3>3. G[i] = F[i] /\ G[i - 1] = F[i - 1]
      BY <3>1
    <3> QED BY <3>2, <3>3
  <2> HIDE DEF G, n
  <2> QED BY <2>2, <2>3 DEF Assembled
<1>4. FlattenSeq(seqs) = F[n] /\ F[n] \in Seq(S)
  <2>1. G[n] = F[n] /\ F[n] \in Seq(S)
    BY <1>1, <1>2 DEF Assembled
  <2> QED BY <1>3, <2>1, Flattening
<1>5. FlattenSeq(more) = F[n + 1]
  BY <1>1, <1>2, Flattening
<1>6. F[n + 1] = F[n] \o x
  <2>1. n + 1 \in 1 .. n + 1 /\ (n + 1) - 1 = n
    BY <1>1
  <2>2. F[n + 1] = F[(n + 1) - 1] \o more[n + 1]
    <3> HIDE DEF n
    <3> QED BY <1>2, <2>1 DEF Assembled
  <2> QED BY <1>1, <2>1, <2>2
<1> QED BY <1>4, <1>5, <1>6 DEF more

(* The same of a function whose values are the pieces. *)
LEMMA FlatLonger ==
  ASSUME NEW S, NEW n \in Nat, NEW g \in [1 .. n -> Seq(S)], NEW f \in [1 .. n + 1 -> Seq(S)],
         \A j \in 1 .. n : f[j] = g[j]
  PROVE  /\ FlattenSeq(g) \in Seq(S)
         /\ FlattenSeq(f) = FlattenSeq(g) \o f[n + 1]
<1>1. PICK x \in Seq(S) : x = f[n + 1]
  OBVIOUS
<1>2. PICK d : d = Append(g, x)
  OBVIOUS
<1>3. g \in Seq(Seq(S)) /\ Len(g) = n
  OBVIOUS
<1>4. f \in Seq(Seq(S)) /\ Len(f) = n + 1
  OBVIOUS
<1>5. d \in Seq(Seq(S)) /\ Len(d) = n + 1 /\ d[n + 1] = x /\ \A j \in 1 .. n : d[j] = g[j]
  BY <1>2, <1>3
<1>6. ASSUME NEW j \in 1 .. n + 1 PROVE f[j] = d[j]
  <2>1. j = n + 1 \/ j \in 1 .. n
    OBVIOUS
  <2> QED BY <1>1, <1>5, <2>1
<1>7. f = d
  BY <1>4, <1>5, <1>6, SeqEqual
<1> QED BY <1>1, <1>2, <1>3, <1>7, FlatAppend

(* One piece flattened is itself. *)
LEMMA FlatOne ==
  ASSUME NEW S, NEW x \in Seq(S)
  PROVE  FlattenSeq(<<x>>) = x
<1>1. <<>> \in Seq(Seq(S)) /\ <<x>> = Append(<<>>, x)
  OBVIOUS
<1>2. FlattenSeq(<<x>>) = <<>> \o x
  BY <1>1, FlatAppend, FlatNothing
<1> QED BY <1>2, ConcatEmptySeq

(* Where the elements of a sequence of short pieces come from: an order,   *)
(* and every piece that is not empty.                                      *)
Sieved(c, F, src) ==
  /\ src \in [DOMAIN c -> DOMAIN F]
  /\ \A n \in DOMAIN c : F[src[n]] = <<c[n]>>
  /\ \A n \in DOMAIN c : \A l \in DOMAIN c : l < n => src[l] < src[n]
  /\ \A j \in DOMAIN F : F[j] # <<>> => \E n \in DOMAIN c : src[n] = j

(* Pieces of at most one element are flattened in their order. *)
LEMMA Sieve ==
  ASSUME NEW S, NEW F \in Seq({q \in Seq(S) : Len(q) =< 1})
  PROVE  \E src : Sieved(FlattenSeq(F), F, src)
<1> DEFINE Short == {q \in Seq(S) : Len(q) =< 1}
           P == {G \in Seq(Short) : \E src : Sieved(FlattenSeq(G), G, src)}
<1>1. <<>> \in P
  <2>1. Sieved(<<>>, <<>>, <<>>)
    BY DEF Sieved
  <2> QED BY <2>1, FlatNothing
<1>2. ASSUME NEW G \in Seq(Short), NEW x \in Short, G \in P PROVE Append(G, x) \in P
  <2> DEFINE c == FlattenSeq(G)
             more == Append(G, x)
  <2>1. PICK src : Sieved(c, G, src)
    BY <1>2
  <2>2. G \in Seq(Seq(S)) /\ x \in Seq(S) /\ Len(x) =< 1
    OBVIOUS
  <2>3. c \in Seq(S) /\ FlattenSeq(more) = c \o x
    BY <2>2, FlatAppend
  <2>4. more \in Seq(Short)
    OBVIOUS
  <2>5. more[Len(G) + 1] = x /\ \A j \in 1 .. Len(G) : more[j] = G[j]
    BY <2>2
  <2> HIDE DEF c, more
  <2> SUFFICES \E to : Sieved(FlattenSeq(more), more, to)
    BY <2>4 DEF more
  <2>6. PICK m \in Nat : m = Len(G)
    BY <2>2
  <2>7. PICK n \in Nat : n = Len(c)
    BY <2>3
  <2>8. DOMAIN G = 1 .. m /\ DOMAIN more = 1 .. m + 1 /\ DOMAIN c = 1 .. n
    BY <2>2, <2>3, <2>6, <2>7 DEF more
  <2>9. /\ \A l \in 1 .. n : src[l] \in 1 .. m /\ G[src[l]] = <<c[l]>>
        /\ \A l \in 1 .. n : \A k \in 1 .. n : k < l => src[k] < src[l]
        /\ \A j \in 1 .. m : G[j] # <<>> => \E l \in 1 .. n : src[l] = j
    BY <2>1, <2>8 DEF Sieved
  <2>10. CASE x = <<>>
    <3>1. FlattenSeq(more) = c
      BY <2>3, <2>10, ConcatEmptySeq
    <3>2. src \in [1 .. n -> 1 .. m + 1]
      BY <2>1, <2>8 DEF Sieved
    <3>3. ASSUME NEW j \in 1 .. m + 1, more[j] # <<>> PROVE \E l \in 1 .. n : src[l] = j
      <4>1. j # m + 1
        BY <2>5, <2>6, <2>10, <3>3
      <4>2. j \in 1 .. m
        BY <4>1
      <4>3. more[j] = G[j]
        BY <2>5, <2>6, <4>2
      <4> QED BY <2>9, <3>3, <4>2, <4>3, Zenon
    <3>4. \A l \in 1 .. n : more[src[l]] = <<c[l]>>
      BY <2>5, <2>6, <2>9
    <3>5. Sieved(c, more, src)
      BY <2>8, <2>9, <3>2, <3>3, <3>4 DEF Sieved
    <3> QED BY <3>1, <3>5
  <2>11. CASE x # <<>>
    <3>1. PICK y \in S : x = <<y>>
      BY <2>2, <2>11, ShortIsOne
    <3>2. PICK d : d = c \o x
      OBVIOUS
    <3>3. DOMAIN d = 1 .. n + 1 /\ d[n + 1] = y /\ \A l \in 1 .. n : d[l] = c[l]
      BY <2>3, <2>7, <3>1, <3>2
    <3> DEFINE to == [l \in 1 .. n + 1 |-> IF l = n + 1 THEN m + 1 ELSE src[l]]
    <3>4. /\ to[n + 1] = m + 1
          /\ \A l \in 1 .. n : to[l] = src[l]
      OBVIOUS
    <3>5. to \in [1 .. n + 1 -> 1 .. m + 1]
      BY <2>9
    <3> HIDE DEF to
    <3>6. ASSUME NEW l \in 1 .. n + 1 PROVE more[to[l]] = <<d[l]>>
      <4>1. CASE l = n + 1
        BY <2>5, <2>6, <3>1, <3>3, <3>4, <4>1
      <4>2. CASE l # n + 1
        <5>1. l \in 1 .. n
          BY <4>2
        <5> QED BY <2>5, <2>6, <2>9, <3>3, <3>4, <5>1
      <4> QED BY <4>1, <4>2
    <3>7. ASSUME NEW l \in 1 .. n + 1, NEW k \in 1 .. n + 1, k < l PROVE to[k] < to[l]
      <4>1. k \in 1 .. n /\ to[k] = src[k] /\ src[k] \in 1 .. m
        BY <2>9, <3>4, <3>7
      <4>2. CASE l = n + 1
        BY <3>4, <4>1, <4>2
      <4>3. CASE l # n + 1
        <5>1. l \in 1 .. n
          BY <4>3
        <5> QED BY <2>9, <3>4, <3>7, <4>1, <5>1
      <4> QED BY <4>2, <4>3
    <3>8. ASSUME NEW j \in 1 .. m + 1, more[j] # <<>> PROVE \E l \in 1 .. n + 1 : to[l] = j
      <4>1. CASE j = m + 1
        BY <3>4, <4>1
      <4>2. CASE j # m + 1
        <5>1. j \in 1 .. m
          BY <4>2
        <5>2. more[j] = G[j]
          BY <2>5, <2>6, <5>1
        <5>3. PICK l \in 1 .. n : src[l] = j
          BY <2>9, <3>8, <5>1, <5>2, Zenon
        <5>4. l \in 1 .. n + 1 /\ to[l] = j
          BY <3>4, <5>3
        <5> QED BY <5>4
      <4> QED BY <4>1, <4>2
    <3>9. Sieved(d, more, to)
      BY <2>8, <3>3, <3>5, <3>6, <3>7, <3>8 DEF Sieved
    <3> QED BY <2>3, <3>2, <3>9
  <2> QED BY <2>10, <2>11
<1>3. F \in P
  <2> HIDE DEF P
  <2> QED BY <1>1, <1>2, SeqInduction
<1> QED BY <1>3

-----------------------------------------------------------------------------
(* Places.                                                                 *)

Chunk ==
  [is : {"text"}, at : Nat] \cup [is : {"start"}, tool : Nat]
  \cup [is : {"delta"}, tool : Nat, at : Nat]
  \cup [is : {"finish"}, why : {"stop", "length", "tool_calls", "other"}, usage : BOOLEAN]
ToldOne(what, c) == IF c.is = what THEN <<c.at>> ELSE <<>>
PlacesOf(what, a, n) == FlattenSeq([i \in 1 .. n |-> PlacesIn(what, a[i], i)])

(* One more chunk is told behind the others. *)
LEMMA ToldAppend ==
  ASSUME NEW what \in {"text", "delta"}, NEW s \in Seq(Chunk), NEW c \in Chunk
  PROVE  /\ PlacesTold(what, s) \in Seq(Nat)
         /\ ToldOne(what, c) \in Seq(Nat)
         /\ PlacesTold(what, Append(s, c)) = PlacesTold(what, s) \o ToldOne(what, c)
<1>1. ASSUME NEW d \in Chunk PROVE ToldOne(what, d) \in Seq(Nat)
  <2>1. d.is = what => d.at \in Nat
    BY DEF Chunk
  <2> QED BY <2>1 DEF ToldOne
<1> DEFINE pieces == [j \in DOMAIN s |-> ToldOne(what, s[j])]
           all == [j \in DOMAIN Append(s, c) |-> ToldOne(what, Append(s, c)[j])]
<1>2. PICK n \in Nat : n = Len(s)
  OBVIOUS
<1>3. DOMAIN s = 1 .. n /\ \A j \in 1 .. n : s[j] \in Chunk
  BY <1>2
<1>4. /\ DOMAIN Append(s, c) = 1 .. n + 1
      /\ Append(s, c)[n + 1] = c
      /\ \A j \in 1 .. n : Append(s, c)[j] = s[j]
  BY <1>2
<1>5. pieces \in [1 .. n -> Seq(Nat)]
  BY <1>1, <1>3
<1>6. ASSUME NEW j \in 1 .. n + 1 PROVE Append(s, c)[j] \in Chunk
  <2>1. j = n + 1 \/ j \in 1 .. n
    OBVIOUS
  <2> QED BY <1>3, <1>4, <2>1
<1>7. all \in [1 .. n + 1 -> Seq(Nat)]
  BY <1>1, <1>4, <1>6
<1>8. all[n + 1] = ToldOne(what, c) /\ \A j \in 1 .. n : all[j] = pieces[j]
  BY <1>3, <1>4
<1>9. PlacesTold(what, s) = FlattenSeq(pieces) /\ PlacesTold(what, Append(s, c)) = FlattenSeq(all)
  BY DEF PlacesTold, ToldOne
<1> HIDE DEF pieces, all
<1> QED BY ZenonT(90), <1>1, <1>5, <1>7, <1>8, <1>9, FlatLonger

(* Nothing told, and one chunk told. *)
LEMMA ToldLittle ==
  ASSUME NEW what \in {"text", "delta"}
  PROVE  /\ PlacesTold(what, <<>>) = <<>>
         /\ \A c \in Chunk : PlacesTold(what, <<c>>) = ToldOne(what, c)
<1>1. PlacesTold(what, <<>>) = <<>>
  BY FlatNothing DEF PlacesTold
<1>2. ASSUME NEW c \in Chunk PROVE PlacesTold(what, <<c>>) = ToldOne(what, c)
  <2>1. <<>> \in Seq(Chunk) /\ Append(<<>>, c) = <<c>>
    OBVIOUS
  <2>2. PlacesTold(what, <<c>>) = <<>> \o ToldOne(what, c) /\ ToldOne(what, c) \in Seq(Nat)
    BY <1>1, <2>1, ToldAppend
  <2> QED BY <2>2, ConcatEmptySeq
<1> QED BY <1>1, <1>2

(* Of ConcatAssociative, the case of numbers. *)
LEMMA NumbersAssociate ==
  ASSUME NEW s \in Seq(Nat), NEW t \in Seq(Nat), NEW u \in Seq(Nat)
  PROVE  (s \o t) \o u = s \o (t \o u)
<1>1. PICK N : N = Nat
  OBVIOUS
<1>2. s \in Seq(N) /\ t \in Seq(N) /\ u \in Seq(N)
  BY <1>1
<1> QED BY <1>2, ConcatAssociative

(* What is told in two goes. *)
LEMMA ToldConcat ==
  ASSUME NEW what \in {"text", "delta"}, NEW s \in Seq(Chunk), NEW t \in Seq(Chunk)
  PROVE  PlacesTold(what, s \o t) = PlacesTold(what, s) \o PlacesTold(what, t)
<1> DEFINE P == {u \in Seq(Chunk) : PlacesTold(what, s \o u) = PlacesTold(what, s) \o PlacesTold(what, u)}
<1>1. <<>> \in P
  <2>1. PlacesTold(what, s) \in Seq(Nat)
    <3>1. PICK c \in Chunk : c = TextChunk(0)
      BY DEF Chunk, TextChunk
    <3> QED BY ToldAppend
  <2>2. s \o <<>> = s /\ PlacesTold(what, s) \o <<>> = PlacesTold(what, s)
    BY <2>1, ConcatEmptySeq
  <2>3. PlacesTold(what, <<>>) = <<>>
    BY ToldLittle
  <2>4. PlacesTold(what, s \o <<>>) = PlacesTold(what, s) \o PlacesTold(what, <<>>)
    BY <2>2, <2>3
  <2>5. <<>> \in Seq(Chunk)
    OBVIOUS
  <2> QED BY <2>4, <2>5
<1>2. ASSUME NEW u \in Seq(Chunk), NEW c \in Chunk, u \in P PROVE Append(u, c) \in P
  <2>1. s \o u \in Seq(Chunk) /\ s \o Append(u, c) = Append(s \o u, c)
    <3>1. s \o u \in Seq(Chunk) /\ <<c>> \in Seq(Chunk)
      OBVIOUS
    <3>2. (s \o u) \o <<c>> = s \o (u \o <<c>>)
      BY <3>1, ConcatAssociative
    <3>3. Append(u, c) = u \o <<c>> /\ Append(s \o u, c) = (s \o u) \o <<c>>
      BY <3>1, AppendIsConcat
    <3> QED BY <3>1, <3>2, <3>3
  <2>2. PlacesTold(what, Append(s \o u, c)) = PlacesTold(what, s \o u) \o ToldOne(what, c)
    BY <2>1, ToldAppend
  <2>3. /\ PlacesTold(what, Append(u, c)) = PlacesTold(what, u) \o ToldOne(what, c)
        /\ PlacesTold(what, u) \in Seq(Nat) /\ PlacesTold(what, s) \in Seq(Nat)
        /\ ToldOne(what, c) \in Seq(Nat)
    BY ToldAppend
  <2>4. PlacesTold(what, s \o u) = PlacesTold(what, s) \o PlacesTold(what, u)
    BY <1>2
  <2>5. (PlacesTold(what, s) \o PlacesTold(what, u)) \o ToldOne(what, c)
          = PlacesTold(what, s) \o (PlacesTold(what, u) \o ToldOne(what, c))
    BY <2>3, NumbersAssociate
  <2>6. Append(u, c) \in Seq(Chunk)
    OBVIOUS
  <2> QED BY <2>1, <2>2, <2>3, <2>4, <2>5, <2>6
<1>3. t \in P
  <2> HIDE DEF P
  <2> QED BY <1>1, <1>2, SeqInduction
<1> QED BY <1>3

(* What is told piece by piece. *)
LEMMA ToldFlat ==
  ASSUME NEW what \in {"text", "delta"}, NEW F \in Seq(Seq(Chunk))
  PROVE  PlacesTold(what, FlattenSeq(F)) = FlattenSeq([j \in DOMAIN F |-> PlacesTold(what, F[j])])
<1> DEFINE told(G) == [j \in DOMAIN G |-> PlacesTold(what, G[j])]
           P == {G \in Seq(Seq(Chunk)) : PlacesTold(what, FlattenSeq(G)) = FlattenSeq(told(G))}
<1>0. ASSUME NEW s \in Seq(Chunk) PROVE PlacesTold(what, s) \in Seq(Nat)
  <2>1. PICK c \in Chunk : c = TextChunk(0)
    BY DEF Chunk, TextChunk
  <2> QED BY ToldAppend
<1>1. <<>> \in P
  <2>1. told(<<>>) = <<>>
    OBVIOUS
  <2> QED BY <2>1, FlatNothing, ToldLittle
<1>2. ASSUME NEW G \in Seq(Seq(Chunk)), NEW x \in Seq(Chunk), G \in P PROVE Append(G, x) \in P
  <2>1. FlattenSeq(G) \in Seq(Chunk) /\ FlattenSeq(Append(G, x)) = FlattenSeq(G) \o x
    BY FlatAppend
  <2>2. PlacesTold(what, FlattenSeq(Append(G, x))) = PlacesTold(what, FlattenSeq(G)) \o PlacesTold(what, x)
    BY <2>1, ToldConcat
  <2>3. PlacesTold(what, x) \in Seq(Nat)
    BY <1>0
  <2>4. PICK n \in Nat : n = Len(G)
    OBVIOUS
  <2>5. DOMAIN G = 1 .. n /\ \A j \in 1 .. n : G[j] \in Seq(Chunk)
    BY <2>4
  <2>6. /\ DOMAIN Append(G, x) = 1 .. n + 1
        /\ Append(G, x)[n + 1] = x
        /\ \A j \in 1 .. n : Append(G, x)[j] = G[j]
    BY <2>4
  <2>7. PICK g : g = told(G)
    OBVIOUS
  <2>8. PICK f : f = told(Append(G, x))
    OBVIOUS
  <2>9. g \in [1 .. n -> Seq(Nat)]
    BY <1>0, <2>5, <2>7
  <2>10. ASSUME NEW j \in 1 .. n + 1 PROVE Append(G, x)[j] \in Seq(Chunk)
    <3>1. j = n + 1 \/ j \in 1 .. n
      OBVIOUS
    <3> QED BY <2>5, <2>6, <3>1
  <2>11. f \in [1 .. n + 1 -> Seq(Nat)]
    BY <1>0, <2>6, <2>8, <2>10
  <2>12. f[n + 1] = PlacesTold(what, x) /\ \A j \in 1 .. n : f[j] = g[j]
    BY <2>5, <2>6, <2>7, <2>8
  <2>13. FlattenSeq(f) = FlattenSeq(g) \o PlacesTold(what, x)
    BY ZenonT(90), <2>9, <2>11, <2>12, FlatLonger
  <2>14. Append(G, x) \in Seq(Seq(Chunk)) /\ PlacesTold(what, FlattenSeq(G)) = FlattenSeq(told(G))
    BY <1>2
  <2> HIDE DEF told
  <2> QED BY <2>2, <2>7, <2>8, <2>13, <2>14
<1>3. F \in P
  <2> HIDE DEF P
  <2> QED BY <1>1, <1>2, SeqInduction
<1> QED BY <1>3

(* The places of one more message come behind the others. *)
LEMMA PlacesAppend ==
  ASSUME NEW what, NEW a \in Answers, NEW n \in Nat, n + 1 =< Len(a)
  PROVE  /\ PlacesIn(what, a[n + 1], n + 1) \in Seq(Nat)
         /\ PlacesOf(what, a, n) \in Seq(Nat)
         /\ PlacesOf(what, a, n + 1) = PlacesOf(what, a, n) \o PlacesIn(what, a[n + 1], n + 1)
<1> DEFINE in(i) == PlacesIn(what, a[i], i)
<1>1. ASSUME NEW i \in 1 .. n + 1 PROVE in(i) \in Seq(Nat)
  <2>1. a[i] \in Seq(Items) /\ i \in Nat
    BY DEF Answers
  <2>2. <<i>> \in Seq(Nat) /\ <<>> \in Seq(Nat)
    BY <2>1
  <2>3. PICK pieces : pieces = [j \in DOMAIN a[i] |-> IF a[i][j].is = what THEN <<i>> ELSE <<>>]
    OBVIOUS
  <2>4. PICK l \in Nat : DOMAIN a[i] = 1 .. l
    BY <2>1
  <2>5. pieces \in [1 .. l -> Seq(Nat)]
    BY <2>2, <2>3, <2>4
  <2>6. pieces \in Seq(Seq(Nat))
    BY <2>5
  <2>7. FlattenSeq(pieces) \in Seq(Nat)
    BY <2>2, <2>6, FlatAppend
  <2>8. PlacesIn(what, a[i], i) = FlattenSeq(pieces)
    BY <2>3 DEF PlacesIn
  <2> QED BY <2>7, <2>8
<1> DEFINE first == [i \in 1 .. n |-> in(i)]
           all == [i \in 1 .. n + 1 |-> in(i)]
<1>2. first \in [1 .. n -> Seq(Nat)]
  BY <1>1
<1>3. all \in [1 .. n + 1 -> Seq(Nat)]
  BY <1>1
<1>4. all[n + 1] = in(n + 1) /\ \A i \in 1 .. n : all[i] = first[i]
  OBVIOUS
<1>5. in(n + 1) \in Seq(Nat)
  BY <1>1
<1>6. FlattenSeq(first) \in Seq(Nat) /\ FlattenSeq(all) = FlattenSeq(first) \o in(n + 1)
  <2> HIDE DEF first, all, in
  <2> QED BY ZenonT(90), <1>2, <1>3, <1>4, FlatLonger
<1> QED BY <1>5, <1>6 DEF PlacesOf

-----------------------------------------------------------------------------
(* Messages.                                                               *)

Trailer(m) == \A j \in DOMAIN m : m[j].is \in Trailing
WhyTold(k, why) ==
  CASE k = "openai" -> OpenAITold(why)
    [] k = "anthropic" -> AnthropicTold(why)
    [] k = "minimax" -> MiniMaxTold(why)
    [] k = "ollama" -> "stop"
Paid(k, m) == k \in {"anthropic", "ollama"} \/ Has(m, "usage")

(* What the adapter relies on in a message, with the calls it keeps. *)
Sound(k, m) ==
  /\ m \in Seq(Items)
  /\ \A j \in DOMAIN m : m[j].is = "end" => \A l \in j + 1 .. Len(m) : m[l].is \in Trailing
  /\ Has(m, "done") => Trailer(m)
  /\ k = "openai" => \A j \in DOMAIN m :
       /\ m[j].is = "args" => m[j].tool \in Known(m, j)
       /\ m[j].is = "open" /\ m[j].args => m[j].tool \notin Known(m, j)
  /\ k = "anthropic" =>
       /\ Len(m) =< 1
       /\ Has(m, "args") => m[1].tool \in calls
       /\ \A t \in calls : \A u \in calls : t = u

(* What the chunks of a message are: in their places, ... *)
ToldInPlace(k, m, i, c) ==
  /\ PlacesTold("text", c) = PlacesIn("text", m, i)
  /\ k \in {"openai", "anthropic"} => PlacesTold("delta", c) = PlacesIn("args", m, i)

(* ... fragments of calls that were begun, ... *)
Begun(k, m, i, c) ==
  /\ \A n \in DOMAIN c : c[n].is = "delta" =>
       /\ c[n].at = i
       /\ \E l \in DOMAIN m : m[l].is = "args" /\ m[l].tool = c[n].tool
       /\ c[n].tool \in calls \/ \E l \in 1 .. n - 1 : c[l] = StartChunk(c[n].tool)
  /\ k \in {"openai", "anthropic"} =>
       \A t \in OpenedBy(m) : t \in calls \/ \E l \in DOMAIN c : c[l] = StartChunk(t)

(* ... and the end where it was said. *)
EndTold(k, m, n, c) ==
  /\ \A l \in n .. Len(c) : c[l].is = "finish"
  /\ c[n].usage => Has(m, "end")
  /\ Has(m, "end") \/ Has(m, "done")
  /\ Has(m, "end") => \E j \in DOMAIN m : /\ m[j].is = "end"
                                        /\ c[n].why = WhyTold(k, m[j].why)
                                        /\ c[n].usage = Paid(k, m)
Ending(k, m, c) ==
  /\ \A n \in DOMAIN c : c[n].is = "finish" => EndTold(k, m, n, c)
  /\ Has(m, "end") => \E n \in DOMAIN c : c[n].is = "finish"
  /\ Trailer(m) => \A n \in DOMAIN c : c[n].is = "finish" /\ ~c[n].usage
  /\ \A n \in DOMAIN c : \A l \in DOMAIN c :
       c[n].is = "finish" /\ c[l].is = "finish" /\ c[n].usage /\ c[l].usage => n = l

Faithful(k, m, i, c) ==
  /\ c \in Seq(Chunk)
  /\ ToldInPlace(k, m, i, c)
  /\ Begun(k, m, i, c)
  /\ Ending(k, m, c)

(* What becomes of one item. *)
ChunkOf(k, m, i, j, d) ==
  \/ d = TextChunk(i) /\ m[j].is = "text"
  \/ d = StartChunk(m[j].tool) /\ m[j].is = "open"
  \/ k = "openai" /\ d = DeltaChunk(m[j].tool, i) /\ m[j].is = "args" /\ m[j].tool \in Known(m, j)
  \/ d = FinishChunk(WhyTold(k, m[j].why), Paid(k, m)) /\ m[j].is = "end"
  \/ d = FinishChunk("stop", FALSE) /\ m[j].is = "done"
PieceOf(k, m, i, j, q) ==
  /\ q = <<>> \/ \E d \in Chunk : q = <<d>> /\ ChunkOf(k, m, i, j, d)
  /\ m[j].is \in {"text", "end"} => q # <<>>
  /\ k = "openai" =>
       /\ m[j].is = "args" => q # <<>>
       /\ m[j].is = "open" /\ m[j].tool \notin Known(m, j) => q # <<>>

(* The tools opened by the items before j. *)
LEMMA OpenedFirst ==
  ASSUME NEW m \in Seq(Items), NEW j \in 1 .. Len(m) + 1, NEW t
  PROVE  t \in OpenedBy(SubSeq(m, 1, j - 1)) <=> \E l \in 1 .. j - 1 : m[l].is = "open" /\ m[l].tool = t
<1>1. PICK s : s = SubSeq(m, 1, j - 1)
  OBVIOUS
<1>2. DOMAIN s = 1 .. j - 1 /\ \A l \in 1 .. j - 1 : s[l] = m[l]
  BY <1>1
<1> QED BY <1>1, <1>2 DEF OpenedBy

(* A tool that is opened is opened a first time. *)
LEMMA FirstOpening ==
  ASSUME NEW m \in Seq(Items), NEW j \in 1 .. Len(m) + 1, NEW t \in OpenedBy(SubSeq(m, 1, j - 1)), t \notin calls
  PROVE  \E l \in 1 .. j - 1 : m[l].is = "open" /\ m[l].tool = t /\ t \notin Known(m, l)
<1> DEFINE T == {l \in 1 .. j - 1 : m[l].is = "open" /\ m[l].tool = t}
<1>1. T \in SUBSET Nat /\ T # {}
  BY OpenedFirst
<1>2. PICK l \in T : \A n \in T : l =< n
  <2> HIDE DEF T
  <2> QED BY <1>1, LeastNumber
<1>3. l \in 1 .. Len(m) + 1 /\ l \in 1 .. j - 1
  OBVIOUS
<1>4. ASSUME NEW n \in 1 .. l - 1, m[n].is = "open" /\ m[n].tool = t PROVE FALSE
  <2>1. n \in T
    BY <1>3, <1>4
  <2> QED BY <1>2, <1>3, <2>1
<1>5. t \notin OpenedBy(SubSeq(m, 1, l - 1))
  BY <1>3, <1>4, OpenedFirst
<1> QED BY <1>3, <1>5 DEF Known

(* Pieces are at most one chunk, told where the item is. *)
LEMMA PieceTold ==
  ASSUME NEW k \in {"openai", "minimax", "ollama"}, NEW m \in Seq(Items), NEW i \in Nat,
         NEW j \in DOMAIN m, NEW q, PieceOf(k, m, i, j, q)
  PROVE  /\ q \in Seq(Chunk) /\ Len(q) =< 1
         /\ PlacesTold("text", q) = IF m[j].is = "text" THEN <<i>> ELSE <<>>
         /\ k = "openai" => PlacesTold("delta", q) = IF m[j].is = "args" THEN <<i>> ELSE <<>>
<1>1. CASE q = <<>>
  <2>1. PlacesTold("text", <<>>) = <<>> /\ PlacesTold("delta", <<>>) = <<>>
    BY ToldLittle
  <2>2. <<>> \in Seq(Chunk) /\ Len(<<>>) = 0
    OBVIOUS
  <2> QED BY <1>1, <2>1, <2>2 DEF PieceOf
<1>2. ASSUME NEW d \in Chunk, q = <<d>>, ChunkOf(k, m, i, j, d)
      PROVE  /\ q \in Seq(Chunk) /\ Len(q) =< 1
             /\ PlacesTold("text", q) = IF m[j].is = "text" THEN <<i>> ELSE <<>>
             /\ PlacesTold("delta", q) = IF m[j].is = "args" THEN <<i>> ELSE <<>>
  <2>1. PlacesTold("text", <<d>>) = ToldOne("text", d) /\ PlacesTold("delta", <<d>>) = ToldOne("delta", d)
    BY ToldLittle
  <2>2. <<d>> \in Seq(Chunk) /\ Len(<<d>>) = 1
    OBVIOUS
  <2>3. ToldOne("text", d) = IF m[j].is = "text" THEN <<i>> ELSE <<>>
    BY <1>2 DEF ChunkOf, ToldOne, TextChunk, StartChunk, DeltaChunk, FinishChunk
  <2>4. ToldOne("delta", d) = IF m[j].is = "args" THEN <<i>> ELSE <<>>
    BY <1>2 DEF ChunkOf, ToldOne, TextChunk, StartChunk, DeltaChunk, FinishChunk
  <2> QED BY <1>2, <2>1, <2>2, <2>3, <2>4
<1> QED BY <1>1, <1>2 DEF PieceOf

(* Pieces that are right make a message that is. *)
LEMMA PiecesFaithful ==
  ASSUME NEW k \in {"openai", "minimax", "ollama"}, NEW m, Sound(k, m), NEW i \in Nat,
         NEW F, DOMAIN F = DOMAIN m, \A j \in DOMAIN m : PieceOf(k, m, i, j, F[j]),
         F = [j \in DOMAIN m |-> F[j]]
  PROVE  Faithful(k, m, i, FlattenSeq(F))
<1>1. m \in Seq(Items)
  BY DEF Sound
<1>2. PICK w \in Nat : w = Len(m) /\ DOMAIN m = 1 .. w
  BY <1>1
<1>3. ASSUME NEW j \in 1 .. w
      PROVE  /\ F[j] \in Seq(Chunk) /\ Len(F[j]) =< 1
             /\ PlacesTold("text", F[j]) = IF m[j].is = "text" THEN <<i>> ELSE <<>>
             /\ k = "openai" => PlacesTold("delta", F[j]) = IF m[j].is = "args" THEN <<i>> ELSE <<>>
  BY <1>1, <1>2, PieceTold
<1>4. PICK Short : Short = {q \in Seq(Chunk) : Len(q) =< 1}
  OBVIOUS
<1>5. F \in Seq(Short) /\ F \in Seq(Seq(Chunk))
  <2>1. F \in [1 .. w -> Short] /\ F \in [1 .. w -> Seq(Chunk)]
    BY <1>2, <1>3, <1>4
  <2> QED BY <2>1
<1>6. PICK c : c = FlattenSeq(F)
  OBVIOUS
<1>7. c \in Seq(Chunk)
  <2>1. <<>> \in Seq(Chunk)
    OBVIOUS
  <2> QED BY <1>5, <1>6, <2>1, FlatAppend
<1>8. PICK src : Sieved(c, F, src)
  BY <1>4, <1>5, <1>6, Sieve
<1>9. PICK z \in Nat : z = Len(c) /\ DOMAIN c = 1 .. z
  BY <1>7
<1>10. /\ \A n \in 1 .. z : src[n] \in 1 .. w /\ F[src[n]] = <<c[n]>>
       /\ \A n \in 1 .. z : \A l \in 1 .. z : l < n => src[l] < src[n]
       /\ \A j \in 1 .. w : F[j] # <<>> => \E n \in 1 .. z : src[n] = j
  BY <1>2, <1>8, <1>9 DEF Sieved
<1>11. ASSUME NEW n \in 1 .. z PROVE ChunkOf(k, m, i, src[n], c[n])
  <2>1. PICK j \in DOMAIN m : j = src[n]
    BY <1>2, <1>10
  <2>2. PieceOf(k, m, i, j, <<c[n]>>)
    BY <1>10, <2>1
  <2>3. <<c[n]>> # <<>>
    OBVIOUS
  <2>4. PICK d \in Chunk : <<c[n]>> = <<d>> /\ ChunkOf(k, m, i, j, d)
    BY <2>2, <2>3 DEF PieceOf
  <2>5. d = c[n]
    BY <2>4
  <2> QED BY <2>1, <2>4, <2>5
<1>12. ToldInPlace(k, m, i, c)
  <2>1. [j \in DOMAIN F |-> PlacesTold("text", F[j])] = [j \in DOMAIN m |-> IF m[j].is = "text" THEN <<i>> ELSE <<>>]
    BY <1>2, <1>3
  <2>2. k = "openai" => [j \in DOMAIN F |-> PlacesTold("delta", F[j])]
                          = [j \in DOMAIN m |-> IF m[j].is = "args" THEN <<i>> ELSE <<>>]
    BY <1>2, <1>3
  <2>3. /\ PlacesTold("text", c) = FlattenSeq([j \in DOMAIN F |-> PlacesTold("text", F[j])])
        /\ PlacesTold("delta", c) = FlattenSeq([j \in DOMAIN F |-> PlacesTold("delta", F[j])])
    BY <1>5, <1>6, ToldFlat
  <2> QED BY <2>1, <2>2, <2>3 DEF ToldInPlace, PlacesIn
<1>13. ASSUME NEW j \in 1 .. w, NEW t, k = "openai", m[j].is = "open", m[j].tool = t, t \notin Known(m, j)
       PROVE  \E n \in 1 .. z : src[n] = j /\ c[n] = StartChunk(t)
  <2>1. F[j] # <<>>
    BY <1>2, <1>13 DEF PieceOf
  <2>2. PICK n \in 1 .. z : src[n] = j
    BY <1>10, <2>1
  <2>3. c[n] = StartChunk(t)
    BY <1>11, <1>13, <2>2 DEF ChunkOf
  <2> QED BY <2>2, <2>3
<1>14. Begun(k, m, i, c)
  <2>1. ASSUME NEW n \in 1 .. z, c[n].is = "delta"
        PROVE  /\ k = "openai" /\ c[n].at = i
               /\ m[src[n]].is = "args" /\ m[src[n]].tool = c[n].tool
               /\ c[n].tool \in Known(m, src[n])
    <3>1. PICK d, j : d = c[n] /\ j = src[n]
      OBVIOUS
    <3>2. ChunkOf(k, m, i, j, d) /\ d.is = "delta"
      BY <1>11, <2>1, <3>1
    <3>3. k = "openai" /\ d = DeltaChunk(m[j].tool, i) /\ m[j].is = "args" /\ m[j].tool \in Known(m, j)
      BY <3>2 DEF ChunkOf, TextChunk, StartChunk, FinishChunk
    <3> QED BY <3>1, <3>3 DEF DeltaChunk
  <2>2. ASSUME NEW n \in 1 .. z, c[n].is = "delta", c[n].tool \notin calls
        PROVE  \E l \in 1 .. n - 1 : c[l] = StartChunk(c[n].tool)
    <3>1. PICK h \in 1 .. w : h = src[n]
      BY <1>10
    <3>2. c[n].tool \in OpenedBy(SubSeq(m, 1, h - 1))
      BY <2>1, <2>2, <3>1 DEF Known
    <3>3. h \in 1 .. Len(m) + 1
      BY <1>2
    <3>4. PICK j \in 1 .. h - 1 : m[j].is = "open" /\ m[j].tool = c[n].tool /\ c[n].tool \notin Known(m, j)
      BY <1>1, <2>2, <3>2, <3>3, FirstOpening
    <3>5. j \in 1 .. w /\ j < h
      BY <3>1, <3>4
    <3>6. PICK l \in 1 .. z : src[l] = j /\ c[l] = StartChunk(c[n].tool)
      BY <1>13, <2>1, <2>2, <3>4, <3>5
    <3>7. l < n
      <4>1. ~(n < l)
        BY <1>10, <3>1, <3>5, <3>6
      <4>2. l # n
        BY <3>1, <3>5, <3>6
      <4> QED BY <4>1, <4>2
    <3> QED BY <3>6, <3>7
  <2>3. ASSUME NEW t \in OpenedBy(m), t \notin calls, k = "openai" PROVE \E l \in 1 .. z : c[l] = StartChunk(t)
    <3>1. SubSeq(m, 1, (w + 1) - 1) = m /\ w + 1 \in 1 .. Len(m) + 1
      BY <1>1, <1>2
    <3>2. PICK h : h = w + 1
      OBVIOUS
    <3>3. t \in OpenedBy(SubSeq(m, 1, h - 1)) /\ h \in 1 .. Len(m) + 1
      BY <2>3, <3>1, <3>2
    <3>4. PICK j \in 1 .. h - 1 : m[j].is = "open" /\ m[j].tool = t /\ t \notin Known(m, j)
      BY <1>1, <2>3, <3>3, FirstOpening
    <3>5. j \in 1 .. w
      BY <3>2
    <3> QED BY <1>13, <2>3, <3>4, <3>5
  <2>4. ASSUME NEW n \in 1 .. z, c[n].is = "delta"
        PROVE  \E l \in DOMAIN m : m[l].is = "args" /\ m[l].tool = c[n].tool
    BY <1>2, <1>10, <2>1, <2>4
  <2> QED BY <1>9, <2>1, <2>2, <2>3, <2>4 DEF Begun
<1>15. ASSUME NEW n \in 1 .. z, c[n].is = "finish"
       PROVE  \/ /\ m[src[n]].is = "end"
                 /\ c[n].why = WhyTold(k, m[src[n]].why)
                 /\ c[n].usage = Paid(k, m)
              \/ m[src[n]].is = "done" /\ ~c[n].usage
  <2>1. PICK d, j : d = c[n] /\ j = src[n]
    OBVIOUS
  <2>2. ChunkOf(k, m, i, j, d) /\ d.is = "finish"
    BY <1>11, <1>15, <2>1
  <2>3. \/ d = FinishChunk(WhyTold(k, m[j].why), Paid(k, m)) /\ m[j].is = "end"
        \/ d = FinishChunk("stop", FALSE) /\ m[j].is = "done"
    <3>1. d # TextChunk(i) /\ d # StartChunk(m[j].tool) /\ d # DeltaChunk(m[j].tool, i)
      BY <2>2 DEF TextChunk, StartChunk, DeltaChunk
    <3> QED BY <2>2, <3>1, Zenon DEF ChunkOf
  <2>4. ASSUME NEW why, NEW usage, d = FinishChunk(why, usage) PROVE d.why = why /\ d.usage = usage
    BY <2>4 DEF FinishChunk
  <2>5. \/ d.why = WhyTold(k, m[j].why) /\ d.usage = Paid(k, m) /\ m[j].is = "end"
        \/ d.usage = FALSE /\ m[j].is = "done"
    BY <2>3, <2>4
  <2> QED BY <2>1, <2>5
<1>16. ASSUME NEW n \in 1 .. z, m[src[n]].is \in Trailing PROVE c[n].is = "finish" /\ ~c[n].usage
  <2>1. PICK d, j : d = c[n] /\ j = src[n]
    OBVIOUS
  <2>2. ChunkOf(k, m, i, j, d) /\ m[j].is \in {"usage", "done", "fault"}
    BY <1>11, <1>16, <2>1 DEF Trailing
  <2>3. d = FinishChunk("stop", FALSE)
    BY <2>2 DEF ChunkOf
  <2> QED BY <2>1, <2>3 DEF FinishChunk
<1>17. ASSUME NEW n \in 1 .. z, c[n].is = "finish", NEW l \in 1 .. z, n < l
       PROVE  m[src[l]].is \in Trailing
  <2>1. src[n] \in 1 .. w /\ src[l] \in src[n] + 1 .. w
    BY <1>10, <1>17
  <2>2. CASE m[src[n]].is = "end"
    BY <1>2, <2>1, <2>2 DEF Sound
  <2>3. CASE m[src[n]].is = "done"
    <3>1. Has(m, "done")
      BY <1>2, <2>1, <2>3 DEF Has
    <3> QED BY <1>2, <2>1, <3>1 DEF Sound, Trailer
  <2> QED BY <1>15, <1>17, <2>2, <2>3
<1>18. Has(m, "end") => ~Has(m, "done")
  BY DEF Sound, Trailer, Has, Trailing
<1>19. ASSUME NEW n \in 1 .. z, c[n].is = "finish" PROVE EndTold(k, m, n, c)
  <2>1. ASSUME NEW l \in n .. Len(c) PROVE c[l].is = "finish"
    <3>1. l \in 1 .. z /\ (l = n \/ n < l)
      BY <1>9
    <3> QED BY <1>16, <1>17, <1>19, <3>1
  <2>2. src[n] \in DOMAIN m
    BY <1>2, <1>10
  <2>3. Has(m, "end") \/ Has(m, "done")
    BY <1>15, <1>19, <2>2 DEF Has
  <2>4. c[n].usage => Has(m, "end")
    BY <1>15, <1>19, <2>2 DEF Has
  <2>5. ASSUME Has(m, "end")
        PROVE  m[src[n]].is = "end" /\ c[n].why = WhyTold(k, m[src[n]].why) /\ c[n].usage = Paid(k, m)
    <3>1. m[src[n]].is # "done"
      BY <1>18, <2>2, <2>5 DEF Has
    <3> QED BY <1>15, <1>19, <3>1
  <2> QED BY <2>1, <2>2, <2>3, <2>4, <2>5 DEF EndTold
<1>20. ASSUME Has(m, "end") PROVE \E n \in 1 .. z : c[n].is = "finish"
  <2>1. PICK j \in 1 .. w : m[j].is = "end"
    BY <1>2, <1>20 DEF Has
  <2>2. F[j] # <<>>
    BY <1>2, <2>1 DEF PieceOf
  <2>3. PICK n \in 1 .. z : src[n] = j
    BY <1>10, <2>2
  <2>4. ChunkOf(k, m, i, j, c[n])
    BY <1>11, <2>3
  <2>5. c[n] = FinishChunk(WhyTold(k, m[j].why), Paid(k, m))
    BY <2>1, <2>4 DEF ChunkOf
  <2>6. c[n].is = "finish"
    BY <2>5 DEF FinishChunk
  <2> QED BY <2>6
<1>21. ASSUME Trailer(m), NEW n \in 1 .. z PROVE c[n].is = "finish" /\ ~c[n].usage
  <2>1. m[src[n]].is \in Trailing
    BY <1>2, <1>10, <1>21 DEF Trailer
  <2> QED BY <1>16, <2>1
<1>22. ASSUME NEW n \in 1 .. z, NEW l \in 1 .. z, c[n].is = "finish", c[l].is = "finish", c[n].usage, c[l].usage
       PROVE  n = l
  <2>1. ~(n < l) /\ ~(l < n)
    BY <1>16, <1>17, <1>22
  <2> QED BY <2>1
<1>23. Ending(k, m, c)
  BY <1>9, <1>19, <1>20, <1>21, <1>22 DEF Ending
<1> QED BY <1>6, <1>7, <1>12, <1>14, <1>23 DEF Faithful

(* The chunks an item can become. *)
LEMMA ChunkTypes ==
  ASSUME NEW i \in Nat
  PROVE  /\ TextChunk(i) \in Chunk
         /\ \A t \in Nat : StartChunk(t) \in Chunk /\ DeltaChunk(t, i) \in Chunk
         /\ \A why \in {"stop", "length", "tool_calls", "other"} : \A usage \in BOOLEAN :
              FinishChunk(why, usage) \in Chunk
<1>1. TextChunk(i) \in Chunk
  BY DEF TextChunk, Chunk
<1>2. ASSUME NEW t \in Nat PROVE StartChunk(t) \in Chunk /\ DeltaChunk(t, i) \in Chunk
  BY DEF StartChunk, DeltaChunk, Chunk
<1>3. ASSUME NEW why \in {"stop", "length", "tool_calls", "other"}, NEW usage \in BOOLEAN
      PROVE  FinishChunk(why, usage) \in Chunk
  BY DEF FinishChunk, Chunk
<1> QED BY <1>1, <1>2, <1>3

(* An item is of one sort. *)
LEMMA ItemTypes ==
  ASSUME NEW x \in Items
  PROVE  /\ x.is \in {"text", "usage", "done", "close", "fault", "open", "args", "end"}
         /\ x.is \in {"open", "args"} => x.tool \in Nat
         /\ x.is = "end" => x.why \in {"stop", "length", "tool_calls", "other"}
BY DEF Items

(* OpenAI's chunks. *)
LEMMA OpenAIFaithful ==
  ASSUME NEW m, Sound("openai", m), NEW i \in Nat
  PROVE  Faithful("openai", m, i, OpenAIChunks(m, i))
<1> DEFINE G(j) ==
      CASE m[j].is = "text" -> <<TextChunk(i)>>
        [] m[j].is = "open" /\ m[j].tool \notin Known(m, j) -> <<StartChunk(m[j].tool)>>
        [] m[j].is = "open" /\ m[j].tool \in Known(m, j) /\ m[j].args -> <<DeltaChunk(m[j].tool, i)>>
        [] m[j].is = "args" /\ m[j].tool \in Known(m, j) -> <<DeltaChunk(m[j].tool, i)>>
        [] m[j].is = "end" -> <<FinishChunk(OpenAITold(m[j].why), Has(m, "usage"))>>
        [] OTHER -> <<>>
<1>1. m \in Seq(Items)
  BY DEF Sound
<1>2. ASSUME NEW j \in DOMAIN m PROVE PieceOf("openai", m, i, j, G(j))
  <2>1. m[j] \in Items
    BY <1>1
  <2>2. /\ m[j].is = "args" => m[j].tool \in Known(m, j)
        /\ m[j].is = "open" /\ m[j].args => m[j].tool \notin Known(m, j)
    BY DEF Sound
  <2>3. CASE m[j].is = "text"
    <3>1. G(j) = <<TextChunk(i)>>
      BY <2>3
    <3>2. TextChunk(i) \in Chunk /\ ChunkOf("openai", m, i, j, TextChunk(i))
      BY <2>3, ChunkTypes DEF ChunkOf
    <3> QED BY <2>3, <3>1, <3>2 DEF PieceOf
  <2>4. CASE m[j].is = "open" /\ m[j].tool \notin Known(m, j)
    <3>1. G(j) = <<StartChunk(m[j].tool)>>
      BY <2>4
    <3>2. StartChunk(m[j].tool) \in Chunk /\ ChunkOf("openai", m, i, j, StartChunk(m[j].tool))
      BY <2>1, <2>4, ChunkTypes, ItemTypes DEF ChunkOf
    <3> QED BY <2>4, <3>1, <3>2 DEF PieceOf
  <2>5. CASE m[j].is = "args"
    <3>1. G(j) = <<DeltaChunk(m[j].tool, i)>>
      BY <2>2, <2>5
    <3>2. DeltaChunk(m[j].tool, i) \in Chunk /\ ChunkOf("openai", m, i, j, DeltaChunk(m[j].tool, i))
      BY <2>1, <2>2, <2>5, ChunkTypes, ItemTypes DEF ChunkOf
    <3> QED BY <2>5, <3>1, <3>2 DEF PieceOf
  <2>6. CASE m[j].is = "end"
    <3>1. G(j) = <<FinishChunk(OpenAITold(m[j].why), Has(m, "usage"))>>
      BY <2>6
    <3>2. OpenAITold(m[j].why) = WhyTold("openai", m[j].why)
          /\ OpenAITold(m[j].why) \in {"stop", "length", "tool_calls", "other"}
      BY <2>1, <2>6, ItemTypes DEF WhyTold, OpenAITold
    <3>3. Has(m, "usage") = Paid("openai", m) /\ Has(m, "usage") \in BOOLEAN
      BY DEF Paid, Has
    <3>4. FinishChunk(OpenAITold(m[j].why), Has(m, "usage")) \in Chunk
      BY <3>2, <3>3, ChunkTypes
    <3>5. ChunkOf("openai", m, i, j, FinishChunk(OpenAITold(m[j].why), Has(m, "usage")))
      BY <2>6, <3>2, <3>3, Zenon DEF ChunkOf
    <3> QED BY <2>6, <3>1, <3>4, <3>5 DEF PieceOf
  <2>7. CASE m[j].is \notin {"text", "args", "end"} /\ ~(m[j].is = "open" /\ m[j].tool \notin Known(m, j))
    <3>1. G(j) = <<>>
      BY <2>2, <2>7
    <3> QED BY <2>7, <3>1 DEF PieceOf
  <2> HIDE DEF G
  <2> QED BY <2>3, <2>4, <2>5, <2>6, <2>7
<1>3. PICK F : F = [j \in DOMAIN m |-> G(j)]
  OBVIOUS
<1>4. OpenAIChunks(m, i) = FlattenSeq(F)
  BY <1>3 DEF OpenAIChunks
<1>5. DOMAIN F = DOMAIN m /\ F = [j \in DOMAIN m |-> F[j]] /\ \A j \in DOMAIN m : PieceOf("openai", m, i, j, F[j])
  <2> HIDE DEF G
  <2> QED BY <1>2, <1>3
<1> QED BY <1>4, <1>5, PiecesFaithful

(* MiniMax's chunks. *)
LEMMA MiniMaxFaithful ==
  ASSUME NEW m, Sound("minimax", m), NEW i \in Nat
  PROVE  Faithful("minimax", m, i, MiniMaxChunks(m, i))
<1> DEFINE G(j) ==
      CASE m[j].is = "text" -> <<TextChunk(i)>>
        [] m[j].is = "end" -> <<FinishChunk(MiniMaxTold(m[j].why), Has(m, "usage"))>>
        [] m[j].is = "done" -> <<FinishChunk("stop", FALSE)>>
        [] OTHER -> <<>>
<1>1. m \in Seq(Items)
  BY DEF Sound
<1>2. ASSUME NEW j \in DOMAIN m PROVE PieceOf("minimax", m, i, j, G(j))
  <2>1. m[j] \in Items
    BY <1>1
  <2>2. CASE m[j].is = "text"
    <3>1. G(j) = <<TextChunk(i)>>
      BY <2>2
    <3>2. TextChunk(i) \in Chunk /\ ChunkOf("minimax", m, i, j, TextChunk(i))
      BY <2>2, ChunkTypes DEF ChunkOf
    <3> QED BY <2>2, <3>1, <3>2 DEF PieceOf
  <2>3. CASE m[j].is = "end"
    <3>1. G(j) = <<FinishChunk(MiniMaxTold(m[j].why), Has(m, "usage"))>>
      BY <2>3
    <3>2. MiniMaxTold(m[j].why) = WhyTold("minimax", m[j].why)
          /\ MiniMaxTold(m[j].why) \in {"stop", "length", "tool_calls", "other"}
      BY <2>1, <2>3, ItemTypes DEF WhyTold, MiniMaxTold
    <3>3. Has(m, "usage") = Paid("minimax", m) /\ Has(m, "usage") \in BOOLEAN
      BY DEF Paid, Has
    <3>4. FinishChunk(MiniMaxTold(m[j].why), Has(m, "usage")) \in Chunk
      BY <3>2, <3>3, ChunkTypes
    <3>5. ChunkOf("minimax", m, i, j, FinishChunk(MiniMaxTold(m[j].why), Has(m, "usage")))
      BY <2>3, <3>2, <3>3, Zenon DEF ChunkOf
    <3> QED BY <2>3, <3>1, <3>4, <3>5 DEF PieceOf
  <2>4. CASE m[j].is = "done"
    <3>1. G(j) = <<FinishChunk("stop", FALSE)>>
      BY <2>4
    <3>2. FinishChunk("stop", FALSE) \in Chunk /\ ChunkOf("minimax", m, i, j, FinishChunk("stop", FALSE))
      BY <2>4, ChunkTypes DEF ChunkOf
    <3> QED BY <2>4, <3>1, <3>2 DEF PieceOf
  <2>5. CASE m[j].is \notin {"text", "end", "done"}
    <3>1. G(j) = <<>>
      BY <2>5
    <3> QED BY <2>5, <3>1 DEF PieceOf
  <2> HIDE DEF G
  <2> QED BY <2>2, <2>3, <2>4, <2>5
<1>3. PICK F : F = [j \in DOMAIN m |-> G(j)]
  OBVIOUS
<1>4. MiniMaxChunks(m, i) = FlattenSeq(F)
  BY <1>3 DEF MiniMaxChunks
<1>5. DOMAIN F = DOMAIN m /\ F = [j \in DOMAIN m |-> F[j]] /\ \A j \in DOMAIN m : PieceOf("minimax", m, i, j, F[j])
  <2> HIDE DEF G
  <2> QED BY <1>2, <1>3
<1> QED BY <1>4, <1>5, PiecesFaithful

(* Ollama's chunks. *)
LEMMA OllamaFaithful ==
  ASSUME NEW m, Sound("ollama", m), NEW i \in Nat
  PROVE  Faithful("ollama", m, i, OllamaChunks(m, i))
<1> DEFINE G(j) ==
      CASE m[j].is = "text" -> <<TextChunk(i)>>
        [] m[j].is = "end" -> <<FinishChunk("stop", TRUE)>>
        [] OTHER -> <<>>
<1>1. m \in Seq(Items)
  BY DEF Sound
<1>2. ASSUME NEW j \in DOMAIN m PROVE PieceOf("ollama", m, i, j, G(j))
  <2>1. CASE m[j].is = "text"
    <3>1. G(j) = <<TextChunk(i)>>
      BY <2>1
    <3>2. TextChunk(i) \in Chunk /\ ChunkOf("ollama", m, i, j, TextChunk(i))
      BY <2>1, ChunkTypes DEF ChunkOf
    <3> QED BY <2>1, <3>1, <3>2 DEF PieceOf
  <2>2. CASE m[j].is = "end"
    <3>1. G(j) = <<FinishChunk("stop", TRUE)>>
      BY <2>2
    <3>2. WhyTold("ollama", m[j].why) = "stop" /\ Paid("ollama", m) = TRUE
      BY DEF WhyTold, Paid
    <3>3. FinishChunk("stop", TRUE) \in Chunk
      BY ChunkTypes
    <3>4. ChunkOf("ollama", m, i, j, FinishChunk("stop", TRUE))
      BY <2>2, <3>2, Zenon DEF ChunkOf
    <3> QED BY <2>2, <3>1, <3>3, <3>4 DEF PieceOf
  <2>3. CASE m[j].is \notin {"text", "end"}
    <3>1. G(j) = <<>>
      BY <2>3
    <3> QED BY <2>3, <3>1 DEF PieceOf
  <2> HIDE DEF G
  <2> QED BY <2>1, <2>2, <2>3
<1>3. PICK F : F = [j \in DOMAIN m |-> G(j)]
  OBVIOUS
<1>4. OllamaChunks(m, i) = FlattenSeq(F)
  BY <1>3 DEF OllamaChunks
<1>5. DOMAIN F = DOMAIN m /\ F = [j \in DOMAIN m |-> F[j]] /\ \A j \in DOMAIN m : PieceOf("ollama", m, i, j, F[j])
  <2> HIDE DEF G
  <2> QED BY <1>2, <1>3
<1> QED BY <1>4, <1>5, PiecesFaithful

(* A message of one item: what it has, what it opens, and its places. *)
LEMMA OneItem ==
  ASSUME NEW m \in Seq(Items), Len(m) = 1, NEW i \in Nat
  PROVE  /\ m[1] \in Items /\ DOMAIN m = {1}
         /\ \A what : Has(m, what) <=> m[1].is = what
         /\ \A what : PlacesIn(what, m, i) = IF m[1].is = what THEN <<i>> ELSE <<>>
         /\ OpenedBy(m) = IF m[1].is = "open" THEN {m[1].tool} ELSE {}
<1>1. m[1] \in Items /\ DOMAIN m = {1}
  OBVIOUS
<1>2. ASSUME NEW what PROVE PlacesIn(what, m, i) = IF m[1].is = what THEN <<i>> ELSE <<>>
  <2>1. PICK x : x = IF m[1].is = what THEN <<i>> ELSE <<>>
    OBVIOUS
  <2>2. x \in Seq(Nat)
    BY <2>1
  <2>3. PICK f : f = [j \in DOMAIN m |-> IF m[j].is = what THEN <<i>> ELSE <<>>]
    OBVIOUS
  <2>4. f \in Seq(Seq(Nat)) /\ Len(f) = 1 /\ f[1] = x
    <3>1. DOMAIN f = {1} /\ f[1] = x
      BY <1>1, <2>1, <2>3
    <3>2. 1 .. 1 = {1}
      OBVIOUS
    <3>3. f = [j \in 1 .. 1 |-> x]
      BY <1>1, <2>1, <2>3, <3>2
    <3>4. f \in [1 .. 1 -> Seq(Nat)]
      BY <2>2, <3>3
    <3>5. PICK n \in Nat : n = 1
      OBVIOUS
    <3>6. f \in [1 .. n -> Seq(Nat)]
      BY <3>4, <3>5
    <3>7. f \in Seq(Seq(Nat)) /\ Len(f) = n
      BY <3>6
    <3> QED BY <3>1, <3>5, <3>7
  <2>5. <<x>> \in Seq(Seq(Nat)) /\ Len(<<x>>) = 1 /\ <<x>>[1] = x
    BY <2>2
  <2>6. f = <<x>>
    BY <2>4, <2>5, SeqEqual
  <2>7. FlattenSeq(f) = x
    BY <2>2, <2>6, FlatOne
  <2> QED BY <2>1, <2>3, <2>7 DEF PlacesIn
<1>3. OpenedBy(m) = IF m[1].is = "open" THEN {m[1].tool} ELSE {}
  BY <1>1 DEF OpenedBy
<1> QED BY <1>1, <1>2, <1>3 DEF Has

(* A message of at most one item that becomes at most one chunk. *)
LEMMA OneFaithful ==
  ASSUME NEW m \in Seq(Items), Len(m) = 1, NEW i \in Nat, NEW c,
         \/ c = <<>> /\ m[1].is \notin {"text", "args", "open", "end"}
         \/ c = <<TextChunk(i)>> /\ m[1].is = "text"
         \/ c = <<StartChunk(m[1].tool)>> /\ m[1].is = "open"
         \/ c = <<DeltaChunk(m[1].tool, i)>> /\ m[1].is = "args" /\ m[1].tool \in calls
         \/ c = <<FinishChunk(AnthropicTold(m[1].why), TRUE)>> /\ m[1].is = "end"
  PROVE  Faithful("anthropic", m, i, c)
<1>1. /\ m[1] \in Items /\ DOMAIN m = {1}
      /\ \A what : Has(m, what) <=> m[1].is = what
      /\ \A what : PlacesIn(what, m, i) = IF m[1].is = what THEN <<i>> ELSE <<>>
      /\ OpenedBy(m) = IF m[1].is = "open" THEN {m[1].tool} ELSE {}
  BY OneItem
<1>2. CASE c = <<>> /\ m[1].is \notin {"text", "args", "open", "end"}
  <2>1. DOMAIN c = {} /\ c \in Seq(Chunk)
    BY <1>2
  <2>2. ToldInPlace("anthropic", m, i, c)
    BY <1>1, <1>2, ToldLittle DEF ToldInPlace
  <2>3. Begun("anthropic", m, i, c)
    BY <1>1, <1>2, <2>1 DEF Begun
  <2>4. Ending("anthropic", m, c)
    BY <1>1, <1>2, <2>1 DEF Ending
  <2> QED BY <2>1, <2>2, <2>3, <2>4 DEF Faithful
<1>3. ASSUME NEW d \in Chunk, c = <<d>>
      PROVE  /\ DOMAIN c = {1} /\ c[1] = d /\ c \in Seq(Chunk) /\ Len(c) = 1
             /\ \A what \in {"text", "delta"} : PlacesTold(what, c) = ToldOne(what, d)
  BY <1>3, ToldLittle
<1>4. CASE c = <<TextChunk(i)>> /\ m[1].is = "text"
  <2>1. PICK d \in Chunk : d = TextChunk(i)
    BY ChunkTypes
  <2>2. /\ DOMAIN c = {1} /\ c[1] = d /\ c \in Seq(Chunk) /\ Len(c) = 1
        /\ \A what \in {"text", "delta"} : PlacesTold(what, c) = ToldOne(what, d)
    BY <1>3, <1>4, <2>1
  <2>3. d.is = "text" /\ d.at = i
    BY <2>1 DEF TextChunk
  <2>4. ToldInPlace("anthropic", m, i, c)
    BY <1>1, <1>4, <2>2, <2>3 DEF ToldInPlace, ToldOne
  <2>5. Begun("anthropic", m, i, c)
    BY <1>1, <1>4, <2>2, <2>3 DEF Begun
  <2>6. Ending("anthropic", m, c)
    BY <1>1, <1>4, <2>2, <2>3 DEF Ending, Trailer, Trailing
  <2> QED BY <2>2, <2>4, <2>5, <2>6 DEF Faithful
<1>5. CASE c = <<StartChunk(m[1].tool)>> /\ m[1].is = "open"
  <2>1. PICK d \in Chunk : d = StartChunk(m[1].tool)
    BY <1>1, <1>5, ChunkTypes, ItemTypes
  <2>2. /\ DOMAIN c = {1} /\ c[1] = d /\ c \in Seq(Chunk) /\ Len(c) = 1
        /\ \A what \in {"text", "delta"} : PlacesTold(what, c) = ToldOne(what, d)
    BY <1>3, <1>5, <2>1
  <2>3. d.is = "start"
    BY <2>1 DEF StartChunk
  <2>4. ToldInPlace("anthropic", m, i, c)
    BY <1>1, <1>5, <2>2, <2>3 DEF ToldInPlace, ToldOne
  <2>5. Begun("anthropic", m, i, c)
    BY <1>1, <1>5, <2>1, <2>2, <2>3 DEF Begun
  <2>6. Ending("anthropic", m, c)
    BY <1>1, <1>5, <2>2, <2>3 DEF Ending, Trailer, Trailing
  <2> QED BY <2>2, <2>4, <2>5, <2>6 DEF Faithful
<1>6. CASE c = <<DeltaChunk(m[1].tool, i)>> /\ m[1].is = "args" /\ m[1].tool \in calls
  <2>1. PICK d \in Chunk : d = DeltaChunk(m[1].tool, i)
    BY <1>1, <1>6, ChunkTypes, ItemTypes
  <2>2. /\ DOMAIN c = {1} /\ c[1] = d /\ c \in Seq(Chunk) /\ Len(c) = 1
        /\ \A what \in {"text", "delta"} : PlacesTold(what, c) = ToldOne(what, d)
    BY <1>3, <1>6, <2>1
  <2>3. d.is = "delta" /\ d.at = i /\ d.tool = m[1].tool
    BY <2>1 DEF DeltaChunk
  <2>4. ToldInPlace("anthropic", m, i, c)
    BY <1>1, <1>6, <2>2, <2>3 DEF ToldInPlace, ToldOne
  <2>5. Begun("anthropic", m, i, c)
    BY <1>1, <1>6, <2>2, <2>3 DEF Begun
  <2>6. Ending("anthropic", m, c)
    BY <1>1, <1>6, <2>2, <2>3 DEF Ending, Trailer, Trailing
  <2> QED BY <2>2, <2>4, <2>5, <2>6 DEF Faithful
<1>7. CASE c = <<FinishChunk(AnthropicTold(m[1].why), TRUE)>> /\ m[1].is = "end"
  <2>1. AnthropicTold(m[1].why) \in {"stop", "length", "tool_calls", "other"}
        /\ AnthropicTold(m[1].why) = WhyTold("anthropic", m[1].why)
    BY DEF AnthropicTold, WhyTold
  <2>2. PICK d \in Chunk : d = FinishChunk(AnthropicTold(m[1].why), TRUE)
    BY <2>1, ChunkTypes
  <2>3. /\ DOMAIN c = {1} /\ c[1] = d /\ c \in Seq(Chunk) /\ Len(c) = 1
        /\ \A what \in {"text", "delta"} : PlacesTold(what, c) = ToldOne(what, d)
    BY <1>3, <1>7, <2>2
  <2>4. d.is = "finish" /\ d.why = WhyTold("anthropic", m[1].why) /\ d.usage = TRUE
    BY <2>1, <2>2 DEF FinishChunk
  <2>5. ToldInPlace("anthropic", m, i, c)
    BY <1>1, <1>7, <2>3, <2>4 DEF ToldInPlace, ToldOne
  <2>6. Begun("anthropic", m, i, c)
    BY <1>1, <1>7, <2>3, <2>4 DEF Begun
  <2>7. Paid("anthropic", m) = TRUE
    BY DEF Paid
  <2>8. EndTold("anthropic", m, 1, c)
    <3>1. \A l \in 1 .. Len(c) : c[l].is = "finish"
      BY <2>3, <2>4
    <3>2. Has(m, "end")
      BY <1>1, <1>7
    <3>3. \E j \in DOMAIN m : m[j].is = "end" /\ c[1].why = WhyTold("anthropic", m[j].why)
                                /\ c[1].usage = Paid("anthropic", m)
      BY <1>1, <1>7, <2>3, <2>4, <2>7
    <3> QED BY <3>1, <3>2, <3>3 DEF EndTold
  <2>9. Ending("anthropic", m, c)
    BY <1>1, <1>7, <2>3, <2>4, <2>8 DEF Ending, Trailer, Trailing
  <2> QED BY <2>3, <2>5, <2>6, <2>9 DEF Faithful
<1> QED BY <1>2, <1>4, <1>5, <1>6, <1>7

(* Anthropic's chunks. *)
LEMMA AnthropicFaithful ==
  ASSUME NEW m, Sound("anthropic", m), NEW i \in Nat
  PROVE  Faithful("anthropic", m, i, AnthropicChunks(m, i))
<1>1. m \in Seq(Items) /\ Len(m) =< 1 /\ (Has(m, "args") => m[1].tool \in calls)
      /\ \A t \in calls : \A u \in calls : t = u
  BY DEF Sound
<1>2. PICK c : c = AnthropicChunks(m, i)
  OBVIOUS
<1>3. CASE m = <<>>
  <2>1. \A what : ~Has(m, what)
    BY <1>3 DEF Has
  <2>2. c = <<>>
    BY <1>2, <2>1 DEF AnthropicChunks
  <2>3. \A what : PlacesIn(what, m, i) = <<>> /\ OpenedBy(m) = {}
    BY <1>3, FlatNothing DEF PlacesIn, OpenedBy
  <2>4. DOMAIN c = {} /\ c \in Seq(Chunk)
    BY <2>2
  <2>5. ToldInPlace("anthropic", m, i, c)
    BY <2>2, <2>3, ToldLittle DEF ToldInPlace
  <2>6. Begun("anthropic", m, i, c)
    BY <2>3, <2>4 DEF Begun
  <2>7. Ending("anthropic", m, c)
    BY <2>1, <2>4 DEF Ending
  <2> QED BY <1>2, <2>4, <2>5, <2>6, <2>7 DEF Faithful
<1>4. CASE m # <<>>
  <2>1. Len(m) = 1
    <3>1. PICK n \in Nat : n = Len(m)
      BY <1>1
    <3>2. n # 0
      BY <1>1, <1>4, <3>1, EmptySeq
    <3> QED BY <1>1, <3>1, <3>2
  <2>2. \A what : Has(m, what) <=> m[1].is = what
    BY <1>1, <2>1, OneItem
  <2>3. ASSUME m[1].is = "args" PROVE calls # {} /\ (CHOOSE t \in calls : TRUE) = m[1].tool
    BY <1>1, <2>2, <2>3
  <2>4. \/ c = <<>> /\ m[1].is \notin {"text", "args", "open", "end"}
        \/ c = <<TextChunk(i)>> /\ m[1].is = "text"
        \/ c = <<StartChunk(m[1].tool)>> /\ m[1].is = "open"
        \/ c = <<DeltaChunk(m[1].tool, i)>> /\ m[1].is = "args" /\ m[1].tool \in calls
        \/ c = <<FinishChunk(AnthropicTold(m[1].why), TRUE)>> /\ m[1].is = "end"
    <3>1. CASE m[1].is = "text"
      BY <1>2, <2>2, <3>1 DEF AnthropicChunks
    <3>2. CASE m[1].is = "open"
      BY <1>2, <2>2, <3>2 DEF AnthropicChunks
    <3>3. CASE m[1].is = "args"
      BY <1>1, <1>2, <2>2, <2>3, <3>3 DEF AnthropicChunks
    <3>4. CASE m[1].is = "end"
      BY <1>2, <2>2, <3>4 DEF AnthropicChunks
    <3>5. CASE m[1].is \notin {"text", "args", "open", "end"}
      BY <1>2, <2>2, <3>5 DEF AnthropicChunks
    <3> QED BY <3>1, <3>2, <3>3, <3>4, <3>5
  <2> QED BY <1>1, <1>2, <2>1, <2>4, OneFaithful
<1> QED BY <1>3, <1>4

(* Every adapter's chunks of a message are what the message says. *)
LEMMA ChunksFaithful ==
  ASSUME NEW k \in Kind, NEW m, Sound(k, m), NEW i \in Nat
  PROVE  Faithful(k, m, i, Chunks(k, m, i))
<1>1. CASE k = "openai"
  BY <1>1, OpenAIFaithful DEF Chunks
<1>2. CASE k = "anthropic"
  BY <1>2, AnthropicFaithful DEF Chunks
<1>3. CASE k = "minimax"
  BY <1>3, MiniMaxFaithful DEF Chunks
<1>4. CASE k = "ollama"
  BY <1>4, OllamaFaithful DEF Chunks
<1> QED BY <1>1, <1>2, <1>3, <1>4 DEF Kind

-----------------------------------------------------------------------------
(* Answers: what was heard, hs, follows the first h messages of a, with    *)
(* the calls kept, cs.                                                     *)

Located(k, a, h, hs) ==
  /\ PlacesTold("text", hs) = PlacesOf("text", a, h)
  /\ k \in {"openai", "anthropic"} => PlacesTold("delta", hs) = PlacesOf("args", a, h)
Started(a, h, cs, hs) ==
  /\ \A n \in DOMAIN hs : hs[n].is = "delta" =>
       /\ \E l \in 1 .. n - 1 : hs[l] = StartChunk(hs[n].tool)
       /\ hs[n].at \in 1 .. h
       /\ \E l \in DOMAIN a[hs[n].at] : a[hs[n].at][l].is = "args" /\ a[hs[n].at][l].tool = hs[n].tool
  /\ \A t \in cs : \E n \in DOMAIN hs : hs[n] = StartChunk(t)
Keeping(k, a, h, cs) ==
  /\ k = "openai" => /\ \A l \in 1 .. h : OpenedBy(a[l]) \subseteq cs
                     /\ \A t \in cs : \E l \in 1 .. h : t \in OpenedBy(a[l])
  /\ k = "anthropic" => cs = Block(a, h + 1) /\ \A t \in cs : \A u \in cs : t = u

SaidEnd(a, h) == \E l \in 1 .. h : Has(a[l], "end")
Pays(c) == c.is = "finish" /\ c.usage
Finished(k, a, h, hs) ==
  /\ \A n \in DOMAIN hs : hs[n].is = "finish" =>
       /\ SaidEnd(a, h)
       /\ \A l \in n .. Len(hs) : hs[l].is = "finish"
       /\ (\A l \in 1 .. n - 1 : hs[l].is # "finish") =>
            \E l \in 1 .. h : \E j \in DOMAIN a[l] : a[l][j].is = "end" /\ hs[n].why = WhyTold(k, a[l][j].why)
  /\ SaidEnd(a, h) => \E n \in DOMAIN hs : hs[n].is = "finish"
  /\ \A n \in DOMAIN hs : \A l \in DOMAIN hs : Pays(hs[n]) /\ Pays(hs[l]) => n = l
  /\ (\E n \in DOMAIN hs : Pays(hs[n])) <=> \E l \in 1 .. h : Has(a[l], "end") /\ Paid(k, a[l])

Follows(k, a, h, cs, hs) ==
  /\ hs \in Seq(Chunk)
  /\ Located(k, a, h, hs)
  /\ Started(a, h, cs, hs)
  /\ Keeping(k, a, h, cs)
  /\ Finished(k, a, h, hs)

(* Where the tools opened before an item were opened. *)
LEMMA BeforeSplit ==
  ASSUME NEW a, NEW i, NEW j, NEW t \in OpenedBefore(a, i, j)
  PROVE  t \in OpenedBy(SubSeq(a[i], 1, j - 1)) \/ \E l \in 1 .. i - 1 : t \in OpenedBy(a[l])
<1>1. PICK D : D = 1 .. i - 1
  OBVIOUS
<1>2. PICK V : V = OpenedBy(SubSeq(a[i], 1, j - 1))
  OBVIOUS
<1>3. PICK W : W = {OpenedBy(a[l]) : l \in D}
  OBVIOUS
<1>4. t \in UNION W \/ t \in V
  <2>1. OpenedBefore(a, i, j) = (UNION W) \cup V
    BY <1>1, <1>2, <1>3 DEF OpenedBefore
  <2> QED BY <2>1
<1>5. ASSUME t \in UNION W PROVE \E l \in D : t \in OpenedBy(a[l])
  <2>1. PICK w \in W : t \in w
    BY <1>5
  <2>2. PICK l \in D : w = OpenedBy(a[l])
    BY <1>3, <2>1
  <2> QED BY <2>1, <2>2
<1> QED BY <1>1, <1>2, <1>4, <1>5

(* A tool opened in an earlier message, or earlier in this one, was opened *)
(* before.                                                                 *)
LEMMA BeforeJoin ==
  ASSUME NEW a, NEW i, NEW j, NEW t,
         t \in OpenedBy(SubSeq(a[i], 1, j - 1)) \/ \E l \in 1 .. i - 1 : t \in OpenedBy(a[l])
  PROVE  t \in OpenedBefore(a, i, j)
<1>1. PICK W : W = {OpenedBy(a[l]) : l \in 1 .. i - 1}
  OBVIOUS
<1>2. PICK V : V = OpenedBy(SubSeq(a[i], 1, j - 1))
  OBVIOUS
<1>3. (\E l \in 1 .. i - 1 : t \in OpenedBy(a[l])) => t \in UNION W
  BY <1>1
<1>4. OpenedBefore(a, i, j) = (UNION W) \cup V
  BY <1>1, <1>2 DEF OpenedBefore
<1> QED BY <1>2, <1>3, <1>4

(* Of a lawful answer, the next message is one the adapter can rely on; it *)
(* is a trailer once the end was said.                                     *)
LEMMA NextIsSound ==
  ASSUME NEW k \in Kind, NEW a, Lawful(k, a), NEW h \in Nat, h + 1 =< Len(a), Keeping(k, a, h, calls)
  PROVE  /\ Sound(k, a[h + 1])
         /\ SaidEnd(a, h) => Trailer(a[h + 1]) /\ ~Has(a[h + 1], "end")
<1>1. a \in Seq(Seq(Items)) /\ EndsOnce(a) /\ DoneAfterEnd(a)
  BY DEF Lawful, Answers
<1>2. PICK m, i : m = a[h + 1] /\ i = h + 1
  OBVIOUS
<1>3. i \in DOMAIN a /\ i \in Nat /\ i - 1 = h /\ m = a[i]
  BY <1>1, <1>2
<1>4. m \in Seq(Items)
  BY <1>1, <1>3
<1>5. ASSUME SaidEnd(a, h) PROVE Trailer(m) /\ ~Has(m, "end")
  <2>1. PICK l \in 1 .. h : Has(a[l], "end")
    BY <1>5 DEF SaidEnd
  <2>2. l \in DOMAIN a /\ i \in l + 1 .. Len(a)
    BY <1>1, <1>2, <1>3, <2>1
  <2>3. PICK j \in DOMAIN a[l] : a[l][j].is = "end"
    BY <2>1 DEF Has
  <2>4. \A n \in DOMAIN m : m[n].is \in Trailing
    BY <1>1, <1>3, <2>2, <2>3 DEF EndsOnce
  <2> QED BY <2>4 DEF Trailer, Has, Trailing
<1>6. \A j \in DOMAIN m : m[j].is = "end" => \A l \in j + 1 .. Len(m) : m[l].is \in Trailing
  BY <1>1, <1>3 DEF EndsOnce
<1>7. Has(m, "done") => Trailer(m)
  <2>1. Has(m, "done") => \E l \in 1 .. i - 1 : Has(a[l], "end")
    BY <1>1, <1>3 DEF DoneAfterEnd
  <2> QED BY <1>3, <1>5, <2>1 DEF SaidEnd
<1>8. ASSUME k = "openai", NEW j \in DOMAIN m, m[j].is = "args" PROVE m[j].tool \in Known(m, j)
  <2>1. m[j].tool \in OpenedBefore(a, i, j)
    BY <1>3, <1>8 DEF Lawful, ArgsAfterOpening
  <2>2. \A l \in 1 .. i - 1 : OpenedBy(a[l]) \subseteq calls
    BY <1>3, <1>8 DEF Keeping
  <2>3. m[j].tool \in OpenedBy(SubSeq(m, 1, j - 1)) \/ \E l \in 1 .. i - 1 : m[j].tool \in OpenedBy(a[l])
    BY <1>3, <2>1, BeforeSplit
  <2>4. CASE m[j].tool \in OpenedBy(SubSeq(m, 1, j - 1))
    BY <2>4 DEF Known
  <2>5. CASE \E l \in 1 .. i - 1 : m[j].tool \in OpenedBy(a[l])
    BY <2>2, <2>5 DEF Known
  <2> QED BY <2>3, <2>4, <2>5
<1>9. ASSUME k = "anthropic"
      PROVE  /\ Len(m) =< 1
             /\ Has(m, "args") => m[1].tool \in calls
             /\ \A t \in calls : \A u \in calls : t = u
  BY <1>2, <1>3, <1>9 DEF Lawful, OneBlockAtATime, Keeping
<1>10. ASSUME k = "openai", NEW j \in DOMAIN m, m[j].is = "open" /\ m[j].args, m[j].tool \in Known(m, j) PROVE FALSE
  <2>1. m[j].tool \notin OpenedBefore(a, i, j)
    BY <1>3, <1>10 DEF Lawful, OpensFullOnce
  <2>2. m[j].tool \in OpenedBy(SubSeq(m, 1, j - 1)) \/ \E l \in 1 .. i - 1 : m[j].tool \in OpenedBy(a[l])
    BY <1>3, <1>10 DEF Known, Keeping
  <2> QED BY <1>3, <2>1, <2>2, BeforeJoin
<1>11. Sound(k, m)
  BY <1>4, <1>6, <1>7, <1>8, <1>9, <1>10 DEF Sound
<1> QED BY <1>2, <1>5, <1>11

(* The block that is open after a message. *)
LEMMA NextBlock ==
  ASSUME NEW a, Lawful("anthropic", a), NEW h \in Nat, h + 1 =< Len(a), NEW m, m = a[h + 1]
  PROVE  /\ Has(m, "close") => Block(a, (h + 1) + 1) = {}
         /\ ~Has(m, "close") /\ Has(m, "open") => Block(a, (h + 1) + 1) = OpenedBy(m)
         /\ ~Has(m, "close") /\ ~Has(m, "open") => Block(a, (h + 1) + 1) = Block(a, h + 1)
         /\ \A t \in OpenedBy(m) : \A u \in OpenedBy(m) : t = u
<1>1. a \in Seq(Seq(Items)) /\ OneBlockAtATime(a)
  BY DEF Lawful, Answers
<1>2. PICK i : i = h + 1
  OBVIOUS
<1>3. i \in DOMAIN a /\ i \in Nat /\ m = a[i] /\ m \in Seq(Items) /\ i - 1 = h /\ (i + 1) - 1 = i
  BY <1>1, <1>2
<1>4. Len(m) =< 1 /\ (Has(m, "open") => Block(a, i) = {})
  BY <1>1, <1>3 DEF OneBlockAtATime
<1>5. \A t \in OpenedBy(m) : \A u \in OpenedBy(m) : t = u
  <2>1. \A j \in DOMAIN m : j = 1
    BY <1>3, <1>4
  <2> QED BY <2>1 DEF OpenedBy
<1> DEFINE Since(n, l) == \A q \in l .. n : ~Has(a[q], "close")
<1>6. ASSUME NEW t PROVE t \in Block(a, i + 1) <=> \E l \in 1 .. i : Since(i, l) /\ t \in OpenedBy(a[l])
  BY <1>3 DEF Block
<1>7. ASSUME NEW t PROVE t \in Block(a, i) <=> \E l \in 1 .. h : Since(h, l) /\ t \in OpenedBy(a[l])
  BY <1>3 DEF Block
<1>8. ASSUME Has(m, "close") PROVE Block(a, i + 1) = {}
  <2>1. \A l \in 1 .. i : ~Since(i, l)
    BY <1>3, <1>8
  <2> QED BY <1>6, <2>1
<1>9. ASSUME ~Has(m, "close") PROVE Block(a, i + 1) = Block(a, i) \cup OpenedBy(m)
  <2>1. \A l \in 1 .. h : Since(i, l) <=> Since(h, l)
    <3> SUFFICES ASSUME NEW l \in 1 .. h, Since(h, l), NEW q \in l .. i PROVE ~Has(a[q], "close")
      BY <1>2, <1>3
    <3>1. q = i \/ q \in l .. h
      BY <1>2, <1>3
    <3> QED BY <1>3, <1>9, <3>1
  <2>2. Since(i, i)
    BY <1>3, <1>9
  <2> HIDE DEF Since
  <2>3. \A l \in 1 .. i : l = i \/ l \in 1 .. h
    BY <1>2
  <2>4. i \in 1 .. i /\ \A l \in 1 .. h : l \in 1 .. i
    BY <1>2
  <2>5. ASSUME NEW t PROVE t \in Block(a, i + 1) <=> t \in Block(a, i) \/ t \in OpenedBy(m)
    BY <1>3, <1>6, <1>7, <2>1, <2>2, <2>3, <2>4
  <2> QED BY <2>5
<1>10. ~Has(m, "open") => OpenedBy(m) = {}
  BY DEF Has, OpenedBy
<1> HIDE DEF Since
<1> QED BY <1>2, <1>4, <1>5, <1>8, <1>9, <1>10

(* What was heard, and then the chunks of one more message. *)
Joined(hs, c, e) ==
  /\ DOMAIN e = 1 .. Len(hs) + Len(c) /\ Len(e) = Len(hs) + Len(c)
  /\ \A n \in 1 .. Len(hs) : e[n] = hs[n]
  /\ \A q \in 1 .. Len(c) : e[Len(hs) + q] = c[q]
  /\ \A n \in DOMAIN e : n \in 1 .. Len(hs) \/ \E q \in 1 .. Len(c) : n = Len(hs) + q

(* Concatenation joins. *)
LEMMA Joining ==
  ASSUME NEW hs \in Seq(Chunk), NEW c \in Seq(Chunk)
  PROVE  Joined(hs, c, hs \o c)
<1>1. PICK e : e = hs \o c
  OBVIOUS
<1>2. PICK z \in Nat : z = Len(hs)
  OBVIOUS
<1>3. PICK x \in Nat : x = Len(c)
  OBVIOUS
<1>4. e \in Seq(Chunk) /\ Len(e) = z + x
  BY <1>1, <1>2, <1>3
<1>5. DOMAIN hs = 1 .. z /\ DOMAIN c = 1 .. x /\ DOMAIN e = 1 .. z + x
  BY <1>2, <1>3, <1>4
<1>6. /\ \A n \in 1 .. z : e[n] = hs[n]
      /\ \A q \in 1 .. x : e[z + q] = c[q]
  BY <1>1, <1>2, <1>3
<1>7. ASSUME NEW n \in 1 .. z + x PROVE n \in 1 .. z \/ \E q \in 1 .. x : n = z + q
  <2>1. CASE n =< z
    BY <2>1
  <2>2. CASE ~(n =< z)
    <3>1. n - z \in 1 .. x /\ n = z + (n - z)
      BY <2>2
    <3> QED BY <3>1
  <2> QED BY <2>1, <2>2
<1>8. Joined(hs, c, e)
  BY <1>2, <1>3, <1>4, <1>5, <1>6, <1>7 DEF Joined
<1> QED BY <1>1, <1>8

(* A step of the answer: places, ... *)
LEMMA LocatedNext ==
  ASSUME NEW k \in Kind, NEW a \in Answers, NEW h \in Nat, h + 1 =< Len(a), NEW hs \in Seq(Chunk),
         Located(k, a, h, hs), NEW c \in Seq(Chunk), ToldInPlace(k, a[h + 1], h + 1, c)
  PROVE  Located(k, a, h + 1, hs \o c)
<1>1. PlacesTold("text", hs \o c) = PlacesTold("text", hs) \o PlacesTold("text", c)
  BY ToldConcat
<1>2. PlacesTold("delta", hs \o c) = PlacesTold("delta", hs) \o PlacesTold("delta", c)
  BY ToldConcat
<1>3. PlacesOf("text", a, h + 1) = PlacesOf("text", a, h) \o PlacesIn("text", a[h + 1], h + 1)
  BY PlacesAppend
<1>4. PlacesOf("args", a, h + 1) = PlacesOf("args", a, h) \o PlacesIn("args", a[h + 1], h + 1)
  BY PlacesAppend
<1>5. PlacesTold("text", hs \o c) = PlacesOf("text", a, h + 1)
  BY <1>1, <1>3 DEF Located, ToldInPlace
<1>6. k \in {"openai", "anthropic"} => PlacesTold("delta", hs \o c) = PlacesOf("args", a, h + 1)
  BY <1>2, <1>4 DEF Located, ToldInPlace
<1> QED BY <1>5, <1>6 DEF Located

(* ... calls, ... *)
LEMMA StartedNext ==
  ASSUME NEW k \in Kind, NEW a, NEW h \in Nat, NEW hs \in Seq(Chunk), Started(a, h, calls, hs),
         NEW c \in Seq(Chunk), Begun(k, a[h + 1], h + 1, c)
  PROVE  Started(a, h + 1, CallsAfter(k, a[h + 1]), hs \o c)
<1>1. PICK m, i, e : m = a[h + 1] /\ i = h + 1 /\ e = hs \o c
  OBVIOUS
<1>2. Joined(hs, c, e)
  BY <1>1, Joining
<1>3. PICK z \in Nat : z = Len(hs) /\ DOMAIN hs = 1 .. z
  OBVIOUS
<1>4. PICK x \in Nat : x = Len(c) /\ DOMAIN c = 1 .. x
  OBVIOUS
<1>5. /\ DOMAIN e = 1 .. z + x
      /\ \A n \in 1 .. z : e[n] = hs[n]
      /\ \A q \in 1 .. x : e[z + q] = c[q]
      /\ \A n \in DOMAIN e : n \in 1 .. z \/ \E q \in 1 .. x : n = z + q
  BY <1>2, <1>3, <1>4 DEF Joined
<1>6. ASSUME NEW n \in 1 .. z, hs[n].is = "delta"
      PROVE  /\ \E l \in 1 .. n - 1 : e[l] = StartChunk(hs[n].tool)
             /\ hs[n].at \in 1 .. i
             /\ \E l \in DOMAIN a[hs[n].at] : a[hs[n].at][l].is = "args" /\ a[hs[n].at][l].tool = hs[n].tool
  <2>1. /\ \E l \in 1 .. n - 1 : hs[l] = StartChunk(hs[n].tool)
        /\ hs[n].at \in 1 .. h
        /\ \E l \in DOMAIN a[hs[n].at] : a[hs[n].at][l].is = "args" /\ a[hs[n].at][l].tool = hs[n].tool
    BY <1>3, <1>6 DEF Started
  <2>2. PICK l \in 1 .. n - 1 : hs[l] = StartChunk(hs[n].tool)
    BY <2>1
  <2>3. l \in 1 .. z
    OBVIOUS
  <2>4. e[l] = StartChunk(hs[n].tool)
    BY <1>5, <2>2, <2>3
  <2>5. hs[n].at \in 1 .. i
    BY <1>1, <2>1
  <2> QED BY <2>1, <2>4, <2>5
<1>7. ASSUME NEW t \in calls PROVE \E l \in 1 .. z : e[l] = StartChunk(t)
  BY <1>3, <1>5 DEF Started
<1>8. ASSUME NEW q \in 1 .. x, c[q].is = "delta"
      PROVE  /\ \E l \in 1 .. (z + q) - 1 : e[l] = StartChunk(c[q].tool)
             /\ c[q].at = i
             /\ \E l \in DOMAIN m : m[l].is = "args" /\ m[l].tool = c[q].tool
  <2>1. /\ c[q].at = i
        /\ \E l \in DOMAIN m : m[l].is = "args" /\ m[l].tool = c[q].tool
        /\ c[q].tool \in calls \/ \E l \in 1 .. q - 1 : c[l] = StartChunk(c[q].tool)
    BY <1>1, <1>4, <1>8 DEF Begun
  <2>2. CASE c[q].tool \in calls
    <3>1. PICK l \in 1 .. z : e[l] = StartChunk(c[q].tool)
      BY <1>7, <2>2
    <3>2. l \in 1 .. (z + q) - 1
      OBVIOUS
    <3> QED BY <2>1, <3>1, <3>2
  <2>3. CASE \E l \in 1 .. q - 1 : c[l] = StartChunk(c[q].tool)
    <3>1. PICK l \in 1 .. q - 1 : c[l] = StartChunk(c[q].tool)
      BY <2>3
    <3>2. l \in 1 .. x /\ z + l \in 1 .. (z + q) - 1
      OBVIOUS
    <3>3. e[z + l] = StartChunk(c[q].tool)
      BY <1>5, <3>1, <3>2
    <3> QED BY <2>1, <3>2, <3>3
  <2> QED BY <2>1, <2>2, <2>3
<1>9. ASSUME NEW n \in DOMAIN e, e[n].is = "delta"
      PROVE  /\ \E l \in 1 .. n - 1 : e[l] = StartChunk(e[n].tool)
             /\ e[n].at \in 1 .. i
             /\ \E l \in DOMAIN a[e[n].at] : a[e[n].at][l].is = "args" /\ a[e[n].at][l].tool = e[n].tool
  <2>1. CASE n \in 1 .. z
    <3>1. e[n] = hs[n]
      BY <1>5, <2>1
    <3> QED BY <1>6, <1>9, <2>1, <3>1
  <2>2. CASE \E q \in 1 .. x : n = z + q
    <3>1. PICK q \in 1 .. x : n = z + q
      BY <2>2
    <3>2. e[n] = c[q]
      BY <1>5, <3>1
    <3>3. i \in 1 .. i /\ a[i] = m
      BY <1>1
    <3>4. c[q].is = "delta"
      BY <1>9, <3>2
    <3>5. /\ \E l \in 1 .. (z + q) - 1 : e[l] = StartChunk(c[q].tool)
          /\ c[q].at = i
          /\ \E l \in DOMAIN m : m[l].is = "args" /\ m[l].tool = c[q].tool
      BY <1>8, <3>4
    <3>6. \E l \in 1 .. n - 1 : e[l] = StartChunk(e[n].tool)
      BY <3>1, <3>2, <3>5
    <3>7. e[n].at \in 1 .. i /\ a[e[n].at] = m
      BY <3>2, <3>3, <3>5
    <3> QED BY <3>2, <3>5, <3>6, <3>7
  <2> QED BY <1>5, <2>1, <2>2
<1>10. ASSUME NEW t \in CallsAfter(k, m) PROVE \E n \in DOMAIN e : e[n] = StartChunk(t)
  <2>1. t \in calls \/ (k \in {"openai", "anthropic"} /\ t \in OpenedBy(m))
    <3>1. CASE k = "openai"
      BY <1>10, <3>1 DEF CallsAfter
    <3>2. CASE k = "anthropic"
      BY <1>10, <3>2 DEF CallsAfter
    <3>3. CASE k \notin {"openai", "anthropic"}
      BY <1>10, <3>3 DEF CallsAfter
    <3> QED BY <3>1, <3>2, <3>3
  <2>2. CASE t \in calls
    <3>1. PICK l \in 1 .. z : e[l] = StartChunk(t)
      BY <1>7, <2>2
    <3>2. l \in DOMAIN e
      BY <1>5
    <3> QED BY <3>1, <3>2
  <2>3. CASE \E q \in 1 .. x : c[q] = StartChunk(t)
    <3>1. PICK q \in 1 .. x : c[q] = StartChunk(t)
      BY <2>3
    <3>2. z + q \in DOMAIN e /\ e[z + q] = StartChunk(t)
      BY <1>5, <3>1
    <3> QED BY <3>2
  <2>4. k \in {"openai", "anthropic"} /\ t \in OpenedBy(m) => t \in calls \/ \E q \in 1 .. x : c[q] = StartChunk(t)
    BY <1>1, <1>4 DEF Begun
  <2> QED BY <2>1, <2>2, <2>3, <2>4
<1>11. Started(a, i, CallsAfter(k, m), e)
  BY <1>9, <1>10 DEF Started
<1> QED BY <1>1, <1>11

(* ... the calls that are kept, ... *)
LEMMA KeepingNext ==
  ASSUME NEW k \in Kind, NEW a, Lawful(k, a), NEW h \in Nat, h + 1 =< Len(a), Keeping(k, a, h, calls)
  PROVE  Keeping(k, a, h + 1, CallsAfter(k, a[h + 1]))
<1>1. PICK m, i : m = a[h + 1] /\ i = h + 1
  OBVIOUS
<1>2. ASSUME k = "openai", NEW l \in 1 .. i PROVE OpenedBy(a[l]) \subseteq CallsAfter(k, m)
  <2>1. CallsAfter(k, m) = calls \cup OpenedBy(m)
    BY <1>2 DEF CallsAfter
  <2>2. l = i \/ l \in 1 .. h
    BY <1>1
  <2>3. l \in 1 .. h => OpenedBy(a[l]) \subseteq calls
    BY <1>2 DEF Keeping
  <2> QED BY <1>1, <2>1, <2>2, <2>3
<1>3. ASSUME k = "openai", NEW t \in CallsAfter(k, m) PROVE \E l \in 1 .. i : t \in OpenedBy(a[l])
  <2>1. CallsAfter(k, m) = calls \cup OpenedBy(m)
    BY <1>3 DEF CallsAfter
  <2>2. t \in calls => \E l \in 1 .. h : t \in OpenedBy(a[l])
    BY <1>3 DEF Keeping
  <2>3. i \in 1 .. i /\ \A l \in 1 .. h : l \in 1 .. i
    BY <1>1
  <2> QED BY <1>1, <1>3, <2>1, <2>2, <2>3
<1>4. ASSUME k = "anthropic"
      PROVE  /\ CallsAfter(k, m) = Block(a, i + 1)
             /\ \A t \in CallsAfter(k, m) : \A u \in CallsAfter(k, m) : t = u
  <2>1. Lawful("anthropic", a) /\ m = a[h + 1] /\ h + 1 = i
    BY <1>1, <1>4
  <2>2. /\ Has(m, "close") => Block(a, i + 1) = {}
        /\ ~Has(m, "close") /\ Has(m, "open") => Block(a, i + 1) = OpenedBy(m)
        /\ ~Has(m, "close") /\ ~Has(m, "open") => Block(a, i + 1) = Block(a, i)
        /\ \A t \in OpenedBy(m) : \A u \in OpenedBy(m) : t = u
    BY ZenonT(90), <2>1, NextBlock
  <2>3. calls = Block(a, i) /\ \A t \in calls : \A u \in calls : t = u
    BY <1>1, <1>4 DEF Keeping
  <2>4. CASE Has(m, "close")
    BY <1>4, <2>2, <2>4 DEF CallsAfter
  <2>5. CASE ~Has(m, "close") /\ Has(m, "open")
    BY <1>4, <2>2, <2>5 DEF CallsAfter
  <2>6. CASE ~Has(m, "close") /\ ~Has(m, "open")
    BY <1>4, <2>2, <2>3, <2>6 DEF CallsAfter
  <2> QED BY <2>4, <2>5, <2>6
<1>5. Keeping(k, a, i, CallsAfter(k, m))
  BY <1>2, <1>3, <1>4 DEF Keeping
<1> QED BY <1>1, <1>5

(* ... and the end. *)
LEMMA FinishedNext ==
  ASSUME NEW k \in Kind, NEW a, Lawful(k, a), NEW h \in Nat, h + 1 =< Len(a), NEW hs \in Seq(Chunk),
         Finished(k, a, h, hs), SaidEnd(a, h) => Trailer(a[h + 1]) /\ ~Has(a[h + 1], "end"),
         NEW c \in Seq(Chunk), Ending(k, a[h + 1], c)
  PROVE  Finished(k, a, h + 1, hs \o c)
<1>1. PICK m, i, e : m = a[h + 1] /\ i = h + 1 /\ e = hs \o c
  OBVIOUS
<1>2. Joined(hs, c, e)
  BY <1>1, Joining
<1>3. PICK z \in Nat : z = Len(hs) /\ DOMAIN hs = 1 .. z
  OBVIOUS
<1>4. PICK x \in Nat : x = Len(c) /\ DOMAIN c = 1 .. x
  OBVIOUS
<1>5. /\ DOMAIN e = 1 .. z + x /\ Len(e) = z + x
      /\ \A n \in 1 .. z : e[n] = hs[n]
      /\ \A q \in 1 .. x : e[z + q] = c[q]
      /\ \A n \in DOMAIN e : n \in 1 .. z \/ \E q \in 1 .. x : n = z + q
  BY <1>2, <1>3, <1>4 DEF Joined
<1>6. /\ SaidEnd(a, h) => SaidEnd(a, i)
      /\ Has(m, "end") => SaidEnd(a, i)
      /\ SaidEnd(a, i) => SaidEnd(a, h) \/ Has(m, "end")
  <2>1. \A l \in 1 .. i : l \in 1 .. h \/ l = i
    BY <1>1
  <2>2. i \in 1 .. i /\ \A l \in 1 .. h : l \in 1 .. i
    BY <1>1
  <2> QED BY <1>1, <2>1, <2>2 DEF SaidEnd
<1>7. Has(m, "done") => SaidEnd(a, h)
  <2>1. i \in DOMAIN a /\ i - 1 = h
    BY <1>1 DEF Lawful, Answers
  <2> QED BY <1>1, <2>1 DEF Lawful, DoneAfterEnd, SaidEnd
<1>8. ASSUME NEW n \in 1 .. z, hs[n].is = "finish"
      PROVE  /\ SaidEnd(a, h)
             /\ \A l \in n .. z : hs[l].is = "finish"
             /\ (\A l \in 1 .. n - 1 : hs[l].is # "finish") =>
                  \E l \in 1 .. h : \E j \in DOMAIN a[l] : a[l][j].is = "end" /\ hs[n].why = WhyTold(k, a[l][j].why)
  BY <1>3, <1>8 DEF Finished
<1>9. SaidEnd(a, h) => \A q \in 1 .. x : c[q].is = "finish" /\ ~c[q].usage
  BY <1>1, <1>4 DEF Ending
<1>10. ASSUME NEW q \in 1 .. x, c[q].is = "finish"
       PROVE  /\ \A l \in q .. x : c[l].is = "finish"
              /\ c[q].usage => Has(m, "end")
              /\ Has(m, "end") \/ Has(m, "done")
              /\ Has(m, "end") => \E j \in DOMAIN m : /\ m[j].is = "end"
                                                    /\ c[q].why = WhyTold(k, m[j].why)
                                                    /\ c[q].usage = Paid(k, m)
  BY <1>1, <1>4, <1>10 DEF Ending, EndTold
<1>11. SaidEnd(a, h) => \E n \in 1 .. z : hs[n].is = "finish"
  BY <1>3 DEF Finished
<1>12. ASSUME NEW n \in DOMAIN e, e[n].is = "finish"
       PROVE  /\ SaidEnd(a, i)
              /\ \A l \in n .. Len(e) : e[l].is = "finish"
              /\ (\A l \in 1 .. n - 1 : e[l].is # "finish") =>
                   \E l \in 1 .. i : \E j \in DOMAIN a[l] : a[l][j].is = "end" /\ e[n].why = WhyTold(k, a[l][j].why)
  <2>1. CASE n \in 1 .. z
    <3>1. e[n] = hs[n] /\ hs[n].is = "finish"
      BY <1>5, <1>12, <2>1
    <3>2. SaidEnd(a, h)
      BY <1>8, <2>1, <3>1
    <3>3. ASSUME NEW l \in n .. Len(e) PROVE e[l].is = "finish"
      <4>1. l \in DOMAIN e
        BY <1>5, <2>1
      <4>2. CASE l \in 1 .. z
        <5>1. l \in n .. z
          BY <2>1, <4>2
        <5> QED BY <1>5, <1>8, <2>1, <3>1, <4>2, <5>1
      <4>3. CASE \E q \in 1 .. x : l = z + q
        BY <1>5, <1>9, <3>2, <4>3
      <4> QED BY <1>5, <4>1, <4>2, <4>3
    <3>4. ASSUME \A l \in 1 .. n - 1 : e[l].is # "finish"
          PROVE  \E l \in 1 .. i : \E j \in DOMAIN a[l] : a[l][j].is = "end" /\ e[n].why = WhyTold(k, a[l][j].why)
      <4>1. \A l \in 1 .. n - 1 : l \in 1 .. z
        BY <2>1
      <4>2. \A l \in 1 .. n - 1 : hs[l].is # "finish"
        BY <1>5, <3>4, <4>1
      <4>3. PICK l \in 1 .. h : \E j \in DOMAIN a[l] : a[l][j].is = "end" /\ hs[n].why = WhyTold(k, a[l][j].why)
        BY <1>8, <2>1, <3>1, <4>2
      <4>4. l \in 1 .. i
        BY <1>1
      <4> QED BY <3>1, <4>3, <4>4
    <3> QED BY <1>6, <3>2, <3>3, <3>4
  <2>2. CASE \E q \in 1 .. x : n = z + q
    <3>1. PICK q \in 1 .. x : n = z + q
      BY <2>2
    <3>2. e[n] = c[q] /\ c[q].is = "finish"
      BY <1>5, <1>12, <3>1
    <3>3. SaidEnd(a, i)
      BY <1>6, <1>7, <1>10, <3>2
    <3>4. ASSUME NEW l \in n .. Len(e) PROVE e[l].is = "finish"
      <4>1. PICK r : r = l - z
        OBVIOUS
      <4>2. r \in q .. x /\ r \in 1 .. x /\ l = z + r
        BY <1>5, <3>1, <4>1
      <4>3. e[l] = c[r]
        BY <1>5, <4>2
      <4>4. c[r].is = "finish"
        BY <1>10, <3>2, <4>2
      <4> QED BY <4>3, <4>4
    <3>5. ASSUME \A l \in 1 .. n - 1 : e[l].is # "finish"
          PROVE  \E l \in 1 .. i : \E j \in DOMAIN a[l] : a[l][j].is = "end" /\ e[n].why = WhyTold(k, a[l][j].why)
      <4>1. ~SaidEnd(a, h)
        <5> SUFFICES ASSUME SaidEnd(a, h) PROVE FALSE
          OBVIOUS
        <5>1. PICK l \in 1 .. z : hs[l].is = "finish"
          BY <1>11
        <5>2. l \in 1 .. n - 1 /\ e[l] = hs[l]
          BY <1>5, <3>1
        <5> QED BY <3>5, <5>1, <5>2
      <4>2. Has(m, "end")
        BY <1>7, <1>10, <3>2, <4>1
      <4>3. PICK j \in DOMAIN m : m[j].is = "end" /\ c[q].why = WhyTold(k, m[j].why)
        BY <1>10, <3>2, <4>2
      <4>4. i \in 1 .. i /\ a[i] = m
        BY <1>1
      <4> QED BY <3>2, <4>3, <4>4
    <3> QED BY <3>3, <3>4, <3>5
  <2> QED BY <1>5, <2>1, <2>2
<1>13. ASSUME SaidEnd(a, i) PROVE \E n \in DOMAIN e : e[n].is = "finish"
  <2>1. CASE SaidEnd(a, h)
    <3>1. PICK n \in 1 .. z : hs[n].is = "finish"
      BY <1>11, <2>1
    <3>2. n \in DOMAIN e /\ e[n] = hs[n]
      BY <1>5
    <3> QED BY <3>1, <3>2
  <2>2. CASE Has(m, "end")
    <3>1. PICK q \in 1 .. x : c[q].is = "finish"
      BY <1>1, <1>4, <2>2 DEF Ending
    <3>2. z + q \in DOMAIN e /\ e[z + q] = c[q]
      BY <1>5
    <3> QED BY <3>1, <3>2
  <2> QED BY <1>6, <1>13, <2>1, <2>2
<1>14. ASSUME NEW n \in DOMAIN e, NEW l \in DOMAIN e, Pays(e[n]), Pays(e[l]) PROVE n = l
  <2>1. ASSUME NEW u \in 1 .. z, Pays(hs[u]), NEW q \in 1 .. x, Pays(c[q]) PROVE FALSE
    <3>1. SaidEnd(a, h)
      BY <1>8, <2>1 DEF Pays
    <3> QED BY <1>9, <2>1, <3>1 DEF Pays
  <2>2. ASSUME NEW u \in 1 .. z, NEW v \in 1 .. z, Pays(hs[u]), Pays(hs[v]) PROVE u = v
    BY <1>3, <2>2 DEF Finished
  <2>3. ASSUME NEW u \in 1 .. x, NEW v \in 1 .. x, Pays(c[u]), Pays(c[v]) PROVE u = v
    BY <1>1, <1>4, <2>3 DEF Ending, Pays
  <2>4. CASE n \in 1 .. z /\ l \in 1 .. z
    BY <1>5, <1>14, <2>2, <2>4
  <2>5. ASSUME NEW q \in 1 .. x, n = z + q, l \in 1 .. z PROVE FALSE
    BY <1>5, <1>14, <2>1, <2>5
  <2>6. ASSUME NEW q \in 1 .. x, l = z + q, n \in 1 .. z PROVE FALSE
    BY <1>5, <1>14, <2>1, <2>6
  <2>7. ASSUME NEW u \in 1 .. x, NEW v \in 1 .. x, n = z + u, l = z + v PROVE n = l
    BY <1>5, <1>14, <2>3, <2>7
  <2> QED BY <1>5, <2>4, <2>5, <2>6, <2>7
<1>15. ASSUME NEW n \in DOMAIN e, Pays(e[n]) PROVE \E l \in 1 .. i : Has(a[l], "end") /\ Paid(k, a[l])
  <2>1. CASE n \in 1 .. z
    <3>1. Pays(hs[n])
      BY <1>5, <1>15, <2>1
    <3>2. PICK l \in 1 .. h : Has(a[l], "end") /\ Paid(k, a[l])
      BY <1>3, <2>1, <3>1 DEF Finished
    <3>3. l \in 1 .. i
      BY <1>1
    <3> QED BY <3>2, <3>3
  <2>2. CASE \E q \in 1 .. x : n = z + q
    <3>1. PICK q \in 1 .. x : n = z + q
      BY <2>2
    <3>2. c[q].is = "finish" /\ c[q].usage
      BY <1>5, <1>15, <3>1 DEF Pays
    <3>3. Has(m, "end") /\ c[q].usage = Paid(k, m)
      BY <1>10, <3>2
    <3>4. i \in 1 .. i /\ a[i] = m
      BY <1>1
    <3> QED BY <3>2, <3>3, <3>4
  <2> QED BY <1>5, <2>1, <2>2
<1>16. ASSUME NEW l \in 1 .. i, Has(a[l], "end"), Paid(k, a[l]) PROVE \E n \in DOMAIN e : Pays(e[n])
  <2>1. CASE l \in 1 .. h
    <3>1. PICK n \in 1 .. z : Pays(hs[n])
      BY <1>3, <1>16, <2>1 DEF Finished
    <3>2. n \in DOMAIN e /\ e[n] = hs[n]
      BY <1>5
    <3> QED BY <3>1, <3>2
  <2>2. CASE l = i
    <3>1. Has(m, "end") /\ Paid(k, m)
      BY <1>1, <1>16, <2>2
    <3>2. PICK q \in 1 .. x : c[q].is = "finish"
      BY <1>1, <1>4, <3>1 DEF Ending
    <3>3. c[q].usage
      BY <1>10, <3>1, <3>2
    <3>4. z + q \in DOMAIN e /\ e[z + q] = c[q]
      BY <1>5
    <3> QED BY <3>2, <3>3, <3>4 DEF Pays
  <2> QED BY <1>1, <2>1, <2>2
<1>17. Finished(k, a, i, e)
  BY <1>12, <1>13, <1>14, <1>15, <1>16 DEF Finished
<1> QED BY <1>1, <1>17

(* All of it: a message of a lawful answer, handled, keeps what was heard  *)
(* in step with the answer.                                                *)
LEMMA MessageFollows ==
  ASSUME NEW k \in Kind, NEW a, Lawful(k, a), NEW h \in Nat, h + 1 =< Len(a), Follows(k, a, h, calls, heard)
  PROVE  Follows(k, a, h + 1, CallsAfter(k, a[h + 1]), heard \o Chunks(k, a[h + 1], h + 1))
<1>1. PICK c : c = Chunks(k, a[h + 1], h + 1)
  OBVIOUS
<1>2. /\ heard \in Seq(Chunk) /\ Located(k, a, h, heard) /\ Started(a, h, calls, heard)
      /\ Keeping(k, a, h, calls) /\ Finished(k, a, h, heard)
  BY DEF Follows
<1>3. Sound(k, a[h + 1]) /\ (SaidEnd(a, h) => Trailer(a[h + 1]) /\ ~Has(a[h + 1], "end"))
  BY <1>2, NextIsSound
<1>4. h + 1 \in Nat
  OBVIOUS
<1>5. Faithful(k, a[h + 1], h + 1, c)
  BY <1>1, <1>3, <1>4, ChunksFaithful
<1>6. c \in Seq(Chunk) /\ ToldInPlace(k, a[h + 1], h + 1, c) /\ Begun(k, a[h + 1], h + 1, c) /\ Ending(k, a[h + 1], c)
  BY <1>5 DEF Faithful
<1>7. a \in Answers
  BY DEF Lawful
<1>8. Located(k, a, h + 1, heard \o c)
  BY <1>2, <1>6, <1>7, LocatedNext
<1>9. Started(a, h + 1, CallsAfter(k, a[h + 1]), heard \o c)
  BY <1>2, <1>6, StartedNext
<1>10. Keeping(k, a, h + 1, CallsAfter(k, a[h + 1]))
  BY <1>2, KeepingNext
<1>11. Finished(k, a, h + 1, heard \o c)
  BY <1>2, <1>3, <1>6, FinishedNext
<1>12. heard \o c \in Seq(Chunk)
  BY <1>2, <1>6
<1>13. Follows(k, a, h + 1, CallsAfter(k, a[h + 1]), heard \o c)
  BY <1>8, <1>9, <1>10, <1>11, <1>12 DEF Follows
<1> QED BY <1>1, <1>13

-----------------------------------------------------------------------------
(* Bytes cut into lines: half-lines from 2 * q + 1 on.                     *)

Halves(q, n) == [j \in 1 .. n |-> 2 * q + j]
EvenHalf(q, j) == IF (2 * q + j) % 2 = 0 THEN <<2 * q + j>> ELSE <<>>
Waiting(h, p) == [j \in 1 .. p |-> h + j]
Newlines(q, p) == [i \in 1 .. p |-> 2 * q + 2 * i]

(* The even half-lines, in their order, are the newlines. *)
LEMMA EvensFlat ==
  ASSUME NEW q \in Nat
  PROVE  \A n \in Nat : \A p \in Nat :
           n = 2 * p \/ n = 2 * p + 1 => FlattenSeq([j \in 1 .. n |-> EvenHalf(q, j)]) = Newlines(q, p)
<1> DEFINE HalfPieces(n) == [j \in 1 .. n |-> EvenHalf(q, j)]
           Upto == {n \in Nat : \A p \in Nat : n = 2 * p \/ n = 2 * p + 1 => FlattenSeq(HalfPieces(n)) = Newlines(q, p)}
<1>1. ASSUME NEW j \in Nat PROVE EvenHalf(q, j) \in Seq(Nat)
  BY DEF EvenHalf
<1>2. ASSUME NEW p \in Nat PROVE Newlines(q, p) \in Seq(Nat) /\ Len(Newlines(q, p)) = p
  BY DEF Newlines
<1>3. 0 \in Upto
  <2>1. HalfPieces(0) = <<>>
    OBVIOUS
  <2>2. ASSUME NEW p \in Nat, 0 = 2 * p \/ 0 = 2 * p + 1 PROVE Newlines(q, p) = <<>>
    <3>1. p = 0
      BY <2>2
    <3> QED BY <3>1 DEF Newlines
  <2> QED BY <2>1, <2>2, FlatNothing
<1>4. ASSUME NEW n \in Nat, n \in Upto PROVE n + 1 \in Upto
  <2>1. PICK g : g = HalfPieces(n)
    OBVIOUS
  <2>2. PICK f : f = HalfPieces(n + 1)
    OBVIOUS
  <2>3. g \in [1 .. n -> Seq(Nat)]
    <3>1. \A j \in 1 .. n : EvenHalf(q, j) \in Seq(Nat)
      BY <1>1
    <3> QED BY <2>1, <3>1
  <2>4. f \in [1 .. n + 1 -> Seq(Nat)]
    <3>1. \A j \in 1 .. n + 1 : EvenHalf(q, j) \in Seq(Nat)
      BY <1>1
    <3> QED BY <2>2, <3>1
  <2>5. f[n + 1] = EvenHalf(q, n + 1) /\ \A j \in 1 .. n : f[j] = g[j]
    BY <2>1, <2>2
  <2>6. FlattenSeq(f) = FlattenSeq(g) \o EvenHalf(q, n + 1)
    BY <2>3, <2>4, <2>5, FlatLonger
  <2>7. ASSUME NEW p \in Nat, n + 1 = 2 * p \/ n + 1 = 2 * p + 1 PROVE FlattenSeq(f) = Newlines(q, p)
    <3>1. CASE n + 1 = 2 * p + 1
      <4>1. n = 2 * p
        BY <3>1
      <4>2. FlattenSeq(g) = Newlines(q, p)
        BY <1>4, <2>1, <4>1
      <4>3. (2 * q + (n + 1)) % 2 # 0
        BY <4>1
      <4>4. EvenHalf(q, n + 1) = <<>>
        BY <4>3 DEF EvenHalf
      <4> QED BY <1>2, <2>6, <4>2, <4>4, ConcatEmptySeq
    <3>2. CASE n + 1 = 2 * p
      <4>1. PICK o \in Nat : p = o + 1 /\ n = 2 * o + 1
        <5>1. p - 1 \in Nat /\ p = (p - 1) + 1 /\ n = 2 * (p - 1) + 1
          BY <3>2
        <5> QED BY <5>1
      <4>2. FlattenSeq(g) = Newlines(q, o)
        BY <1>4, <2>1, <4>1
      <4>3. (2 * q + (n + 1)) % 2 = 0 /\ 2 * q + (n + 1) = 2 * q + 2 * p
        BY <3>2
      <4>4. PICK x \in Nat : x = 2 * q + 2 * p
        OBVIOUS
      <4>5. EvenHalf(q, n + 1) = <<x>>
        BY <4>3, <4>4 DEF EvenHalf
      <4>6. PICK s \in Seq(Nat) : s = Newlines(q, o) /\ Len(s) = o
        BY <1>2
      <4>7. PICK u \in Seq(Nat) : u = Newlines(q, p) /\ Len(u) = o + 1
        BY <1>2, <4>1
      <4>8. s \o <<x>> \in Seq(Nat) /\ Len(s \o <<x>>) = o + 1
        BY <4>6
      <4>9. ASSUME NEW i \in 1 .. o + 1 PROVE (s \o <<x>>)[i] = u[i]
        <5>1. u[i] = 2 * q + 2 * i
          BY <4>1, <4>7 DEF Newlines
        <5>2. CASE i = o + 1
          <6>1. (s \o <<x>>)[o + 1] = x
            <7>1. Append(s, x) = s \o <<x>>
              BY AppendIsConcat
            <7>2. Append(s, x)[o + 1] = x
              BY <4>6
            <7> QED BY <7>1, <7>2
          <6>2. u[i] = x
            BY <4>1, <4>4, <5>1, <5>2
          <6> QED BY <5>2, <6>1, <6>2
        <5>3. CASE i \in 1 .. o
          <6>1. (s \o <<x>>)[i] = s[i]
            BY <4>6, <5>3
          <6>2. s[i] = 2 * q + 2 * i
            BY <4>6, <5>3 DEF Newlines
          <6> QED BY <5>1, <6>1, <6>2
        <5>4. i = o + 1 \/ i \in 1 .. o
          OBVIOUS
        <5> QED BY <5>2, <5>3, <5>4
      <4>10. s \o <<x>> = u
        BY <4>7, <4>8, <4>9, SeqEqual
      <4> QED BY <2>6, <4>2, <4>5, <4>6, <4>7, <4>10
    <3> QED BY <2>7, <3>1, <3>2
  <2> HIDE DEF HalfPieces
  <2> QED BY <2>2, <2>7
<1>5. \A n \in Nat : n \in Upto
  <2> HIDE DEF Upto
  <2> QED BY <1>3, <1>4, Induction
<1> QED BY <1>5

(* Consecutive half-lines, cut: the messages they complete, and the half   *)
(* that is left.                                                           *)
LEMMA Cutting ==
  ASSUME NEW q \in Nat, NEW p \in Nat, NEW n, n = 2 * p \/ n = 2 * p + 1
  PROVE  /\ LinesOf(Halves(q, n)) = Waiting(q, p)
         /\ n = 2 * p => Remainder(Halves(q, n)) = <<>>
         /\ n = 2 * p + 1 => Remainder(Halves(q, n)) = <<2 * q + n>>
<1>1. n \in Nat
  OBVIOUS
<1>2. PICK s : s = Halves(q, n)
  OBVIOUS
<1>3. s \in Seq(Nat) /\ Len(s) = n /\ DOMAIN s = 1 .. n /\ \A j \in 1 .. n : s[j] = 2 * q + j
  BY <1>1, <1>2 DEF Halves
<1>4. Those(s, {j \in DOMAIN s : s[j] % 2 = 0}) = Newlines(q, p)
  <2>1. PICK F : F = [j \in DOMAIN s |-> IF j \in {i \in DOMAIN s : s[i] % 2 = 0} THEN <<s[j]>> ELSE <<>>]
    OBVIOUS
  <2>2. PICK G : G = [j \in 1 .. n |-> EvenHalf(q, j)]
    OBVIOUS
  <2>3. F = G
    <3>1. \A j \in 1 .. n : F[j] = G[j]
      BY <1>3, <2>1, <2>2 DEF EvenHalf
    <3> QED BY <1>3, <2>1, <2>2, <3>1
  <2>4. Those(s, {j \in DOMAIN s : s[j] % 2 = 0}) = FlattenSeq(F)
    BY <2>1 DEF Those
  <2>5. FlattenSeq(G) = Newlines(q, p)
    BY <1>1, <2>2, EvensFlat
  <2> QED BY <2>3, <2>4, <2>5
<1>5. ASSUME NEW j \in 1 .. p PROVE Contains(s, Newlines(q, p)[j] - 1) /\ Newlines(q, p)[j] \div 2 = q + j
  <2>1. Newlines(q, p)[j] = 2 * q + 2 * j
    BY DEF Newlines
  <2>2. 2 * j - 1 \in 1 .. n
    OBVIOUS
  <2>3. s[2 * j - 1] = (2 * q + 2 * j) - 1
    BY <1>3, <2>2
  <2>4. Contains(s, (2 * q + 2 * j) - 1)
    BY <1>3, <2>2, <2>3 DEF Contains
  <2>5. (2 * q + 2 * j) \div 2 = q + j
    OBVIOUS
  <2> QED BY <2>1, <2>4, <2>5
<1>6. LinesOf(s) = Waiting(q, p)
  <2>1. PICK e : e = Newlines(q, p)
    OBVIOUS
  <2>2. LinesOf(s) = [j \in DOMAIN e |-> IF Contains(s, e[j] - 1) THEN e[j] \div 2 ELSE 0]
    BY <1>4, <2>1 DEF LinesOf
  <2>3. DOMAIN e = 1 .. p
    BY <2>1 DEF Newlines
  <2>4. \A j \in 1 .. p : (IF Contains(s, e[j] - 1) THEN e[j] \div 2 ELSE 0) = q + j
    BY <1>5, <2>1
  <2> QED BY <2>2, <2>3, <2>4 DEF Waiting
<1>7. /\ n = 2 * p => Remainder(s) = <<>>
      /\ n = 2 * p + 1 => Remainder(s) = <<2 * q + n>>
  <2>1. CASE n = 0
    <3>1. s = <<>>
      BY <1>3, <2>1, EmptySeq
    <3>2. n = 2 * p
      BY <2>1
    <3> QED BY <3>1, <3>2 DEF Remainder
  <2>2. CASE n # 0
    <3>1. s # <<>>
      BY <1>3, <2>2
    <3>2. Last(s) = 2 * q + n
      BY <1>1, <1>3, <2>2 DEF Last
    <3>3. n = 2 * p => (2 * q + n) % 2 # 1
      OBVIOUS
    <3>4. n = 2 * p + 1 => (2 * q + n) % 2 = 1 /\ n # 2 * p
      OBVIOUS
    <3> QED BY <3>1, <3>2, <3>3, <3>4 DEF Remainder
  <2> QED BY <2>1, <2>2
<1> QED BY <1>2, <1>6, <1>7

-----------------------------------------------------------------------------
(* The invariant: r half-lines or messages of answer a have come, b of     *)
(* them buffered; h messages are handled, p more are waiting in ls.        *)

Here(k, r) == IF Framed(k) THEN r \div 2 ELSE r
Half(k, r) == IF Framed(k) /\ r % 2 = 1 THEN <<r>> ELSE <<>>
Arriving(k, a, r, b, ls, h, p) ==
  /\ r \in Nat /\ h \in Nat /\ p \in Nat
  /\ r =< (IF Framed(k) THEN 2 * Len(a) ELSE Len(a))
  /\ b = Half(k, r)
  /\ Here(k, r) = h + p
  /\ ls = Waiting(h, p)
Streamed(k, a, r, b, ls, cs, hs) ==
  /\ Lawful(k, a)
  /\ \E h \in Nat : \E p \in Nat : Arriving(k, a, r, b, ls, h, p) /\ Follows(k, a, h, cs, hs)

Streaming == phase \in {"open", "done"} /\ call.stream
Counted == TypeOK /\ (phase = "backoff" => attempt < MaxAttempt)
AnswerInv ==
  /\ Counted
  /\ Streaming => Streamed(Provider, answer, read, buffer, lines, calls, heard)

(* Nothing has come yet. *)
LEMMA StreamBegins ==
  ASSUME NEW k \in Kind, NEW a, Lawful(k, a)
  PROVE  Streamed(k, a, 0, <<>>, <<>>, {}, <<>>)
<1>1. a \in Seq(Seq(Items))
  BY DEF Lawful, Answers
<1>2. Arriving(k, a, 0, <<>>, <<>>, 0, 0)
  <2>1. Len(a) \in Nat
    BY <1>1
  <2>2. Here(k, 0) = 0 /\ Half(k, 0) = <<>> /\ Waiting(0, 0) = <<>>
    BY DEF Here, Half, Waiting
  <2> QED BY <2>1, <2>2 DEF Arriving
<1>3. Located(k, a, 0, <<>>)
  <2>1. \A what : [i \in 1 .. 0 |-> PlacesIn(what, a[i], i)] = <<>>
    OBVIOUS
  <2>2. \A what : PlacesOf(what, a, 0) = <<>>
    BY <2>1, FlatNothing DEF PlacesOf
  <2> QED BY <2>2, ToldLittle DEF Located
<1>4. Started(a, 0, {}, <<>>)
  BY DEF Started
<1>5. Keeping(k, a, 0, {})
  <2>1. Block(a, 0 + 1) = {}
    BY DEF Block
  <2> QED BY <2>1 DEF Keeping
<1>6. Finished(k, a, 0, <<>>)
  <2>1. DOMAIN <<>> = {} /\ ~SaidEnd(a, 0)
    BY DEF SaidEnd
  <2> QED BY <2>1 DEF Finished
<1>7. <<>> \in Seq(Chunk)
  OBVIOUS
<1>8. Follows(k, a, 0, {}, <<>>)
  BY <1>3, <1>4, <1>5, <1>6, <1>7 DEF Follows
<1> QED BY <1>2, <1>8 DEF Streamed

(* A number before others. *)
LEMMA OneBefore ==
  ASSUME NEW x \in Nat, NEW s \in Seq(Nat)
  PROVE  /\ <<x>> \o s \in Seq(Nat)
         /\ Len(<<x>> \o s) = Len(s) + 1
         /\ (<<x>> \o s)[1] = x
         /\ \A i \in 1 .. Len(s) : (<<x>> \o s)[1 + i] = s[i]
<1>0. PICK u : u = <<x>>
  OBVIOUS
<1>1. u \in Seq(Nat) /\ u = <<x>> /\ Len(u) = 1 /\ u[1] = x
  BY <1>0
<1>2. /\ u \o s \in Seq(Nat)
      /\ Len(u \o s) = Len(u) + Len(s)
      /\ \A i \in 1 .. Len(u) + Len(s) : (u \o s)[i] = IF i =< Len(u) THEN u[i] ELSE s[i - Len(u)]
  BY <1>1, ConcatProperties
<1>3. PICK n \in Nat : n = Len(s)
  OBVIOUS
<1>4. (u \o s)[1] = x
  BY <1>1, <1>2, <1>3
<1>5. ASSUME NEW i \in 1 .. n PROVE (u \o s)[1 + i] = s[i]
  <2>1. PICK j \in Nat : j = 1 + i
    OBVIOUS
  <2>2. j \in 1 .. 1 + n /\ ~(j =< 1) /\ j - 1 = i
    BY <2>1
  <2>3. (u \o s)[j] = s[j - 1]
    BY <1>1, <1>2, <1>3, <2>2
  <2> QED BY <2>1, <2>2, <2>3
<1> QED BY <1>1, <1>2, <1>3, <1>4, <1>5

(* However much comes, it completes the messages that follow. *)
LEMMA MoreArrives ==
  ASSUME NEW k \in Kind, NEW a \in Answers, NEW r, NEW b, NEW h, Arriving(k, a, r, b, <<>>, h, 0),
         NEW n \in Nat, r + n =< (IF Framed(k) THEN 2 * Len(a) ELSE Len(a)),
         NEW bytes, bytes = b \o [j \in 1 .. n |-> r + j],
         NEW ls, NEW c,
         Framed(k) => ls = LinesOf(bytes) /\ c = Remainder(bytes),
         ~Framed(k) => n = 1 /\ ls = bytes /\ c = b
  PROVE  \E p \in Nat : Arriving(k, a, r + n, c, ls, h, p)
<1>1. r \in Nat /\ h \in Nat /\ b = Half(k, r) /\ Here(k, r) = h
  BY DEF Arriving
<1>2. PICK new : new = [j \in 1 .. n |-> r + j]
  OBVIOUS
<1>3. new \in Seq(Nat) /\ Len(new) = n /\ \A j \in 1 .. n : new[j] = r + j
  BY <1>1, <1>2
<1>4. CASE ~Framed(k)
  <2>1. b = <<>> /\ r = h
    BY <1>1, <1>4 DEF Half, Here
  <2>2. ls = new
    BY <1>2, <1>3, <1>4, <2>1, ConcatEmptySeq
  <2>3. ls = Waiting(h, 1)
    BY <1>2, <1>4, <2>1, <2>2 DEF Waiting
  <2>4. Here(k, r + n) = h + 1 /\ c = Half(k, r + n)
    BY <1>4, <2>1 DEF Here, Half
  <2>5. r + n \in Nat
    BY <1>1
  <2> QED BY <1>1, <2>3, <2>4, <2>5 DEF Arriving
<1>5. CASE Framed(k)
  <2>1. r = 2 * h \/ r = 2 * h + 1
    BY <1>1, <1>5 DEF Here
  <2>2. PICK N \in Nat : N = r + n - 2 * h
    BY <1>1, <2>1
  <2>3. bytes = Halves(h, N)
    <3>1. Halves(h, N) \in Seq(Nat) /\ Len(Halves(h, N)) = N /\ \A j \in 1 .. N : Halves(h, N)[j] = 2 * h + j
      BY <1>1 DEF Halves
    <3>2. CASE r = 2 * h
      <4>1. b = <<>>
        BY <1>1, <3>2 DEF Half
      <4>2. bytes = new
        BY <1>2, <1>3, <4>1, ConcatEmptySeq
      <4>3. N = n
        BY <1>1, <2>2, <3>2
      <4> QED BY <1>2, <3>2, <4>2, <4>3 DEF Halves
    <3>3. CASE r = 2 * h + 1
      <4>1. b = <<r>>
        BY <1>1, <1>5, <3>3 DEF Half
      <4>2. N = n + 1
        BY <1>1, <2>2, <3>3
      <4>4. bytes = <<r>> \o new
        BY <1>2, <4>1
      <4>5. bytes \in Seq(Nat) /\ Len(bytes) = n + 1 /\ bytes[1] = r /\ \A i \in 1 .. n : bytes[1 + i] = new[i]
        <5>1. /\ <<r>> \o new \in Seq(Nat)
              /\ Len(<<r>> \o new) = Len(new) + 1
              /\ (<<r>> \o new)[1] = r
              /\ \A i \in 1 .. Len(new) : (<<r>> \o new)[1 + i] = new[i]
          BY <1>1, <1>3, OneBefore
        <5> QED BY <1>3, <4>4, <5>1, Zenon
      <4>6. ASSUME NEW j \in 1 .. n + 1 PROVE bytes[j] = 2 * h + j
        <5>1. CASE j = 1
          BY <3>3, <4>5, <5>1
        <5>2. CASE j # 1
          <6>1. PICK i \in Nat : i = j - 1
            BY <5>2
          <6>2. i \in 1 .. n /\ j = 1 + i
            BY <5>2, <6>1
          <6>3. bytes[j] = r + i
            BY <1>3, <4>5, <6>2
          <6>4. r + i = 2 * h + j
            BY <1>1, <3>3, <6>2
          <6> QED BY <6>3, <6>4
        <5> QED BY <5>1, <5>2
      <4>7. PICK u \in Seq(Nat) : u = Halves(h, N) /\ Len(u) = n + 1 /\ \A j \in 1 .. n + 1 : u[j] = 2 * h + j
        BY <3>1, <4>2
      <4>8. bytes = u
        <5>1. bytes \in Seq(Nat) /\ Len(bytes) = Len(u)
          BY <4>5, <4>7
        <5>2. \A j \in 1 .. Len(bytes) : bytes[j] = u[j]
          <6>1. \A j \in 1 .. n + 1 : bytes[j] = u[j]
            BY <4>6, <4>7
          <6> QED BY <4>5, <6>1
        <5> QED BY <5>1, <5>2, SeqEqual
      <4> QED BY <4>7, <4>8
    <3> QED BY <2>1, <3>2, <3>3
  <2>4. PICK p \in Nat : N = 2 * p \/ N = 2 * p + 1
    <3>1. N \div 2 \in Nat /\ (N = 2 * (N \div 2) \/ N = 2 * (N \div 2) + 1)
      OBVIOUS
    <3> QED BY <3>1
  <2>5. /\ LinesOf(Halves(h, N)) = Waiting(h, p)
        /\ N = 2 * p => Remainder(Halves(h, N)) = <<>>
        /\ N = 2 * p + 1 => Remainder(Halves(h, N)) = <<2 * h + N>>
    BY ZenonT(90), <1>1, <2>4, Cutting
  <2>6. ls = Waiting(h, p)
    BY <1>5, <2>3, <2>5
  <2>7. r + n = 2 * h + N /\ r + n \in Nat
    BY <1>1, <2>2
  <2>8. Here(k, r + n) = h + p
    BY <1>1, <1>5, <2>4, <2>7 DEF Here
  <2>9. c = Half(k, r + n)
    <3>1. (N = 2 * p => c = <<>>) /\ (N = 2 * p + 1 => c = <<r + n>>)
      BY <1>5, <2>3, <2>5, <2>7
    <3>2. PICK x, w \in Nat : x = r + n /\ w = h + p
      BY <1>1, <2>7
    <3>3. CASE N = 2 * p
      <4>1. x = 2 * w
        BY <1>1, <2>7, <3>2, <3>3
      <4>2. x % 2 # 1
        BY <4>1
      <4> QED BY <3>1, <3>2, <3>3, <4>2 DEF Half
    <3>4. CASE N = 2 * p + 1
      <4>1. x = 2 * w + 1
        BY <1>1, <2>7, <3>2, <3>4
      <4>2. x % 2 = 1
        BY <4>1
      <4> QED BY <1>5, <3>1, <3>2, <3>4, <4>2 DEF Half
    <3> QED BY <2>4, <3>3, <3>4
  <2> QED BY <1>1, <2>6, <2>7, <2>8, <2>9 DEF Arriving
<1> QED BY <1>4, <1>5

(* A message that waits is the next of the answer. *)
LEMMA FirstWaiting ==
  ASSUME NEW k \in Kind, NEW a \in Answers, NEW r, NEW b, NEW ls, NEW h, NEW p,
         Arriving(k, a, r, b, ls, h, p), ls # <<>>
  PROVE  /\ Head(ls) = h + 1 /\ h \in Nat
         /\ h + 1 =< Len(a)
         /\ \E q \in Nat : Arriving(k, a, r, b, Tail(ls), h + 1, q)
<1>1. r \in Nat /\ h \in Nat /\ p \in Nat /\ Here(k, r) = h + p /\ ls = Waiting(h, p)
  BY DEF Arriving
<1>2. ls \in Seq(Nat) /\ Len(ls) = p /\ \A j \in 1 .. p : ls[j] = h + j
  BY <1>1 DEF Waiting
<1>3. p # 0
  BY <1>2, EmptySeq
<1>4. PICK q \in Nat : p = q + 1
  <2>1. p - 1 \in Nat /\ p = (p - 1) + 1
    BY <1>1, <1>3
  <2> QED BY <2>1
<1>5. Head(ls) = h + 1
  BY <1>2, <1>4
<1>6. Tail(ls) = Waiting(h + 1, q)
  <2>1. Tail(ls) \in Seq(Nat) /\ Len(Tail(ls)) = q /\ \A j \in 1 .. q : Tail(ls)[j] = ls[j + 1]
    BY <1>2, <1>4
  <2>2. Waiting(h + 1, q) \in Seq(Nat) /\ Len(Waiting(h + 1, q)) = q
    BY <1>1 DEF Waiting
  <2>3. ASSUME NEW j \in 1 .. q PROVE Tail(ls)[j] = Waiting(h + 1, q)[j]
    <3>1. ls[j + 1] = h + (j + 1)
      BY <1>2, <1>4
    <3>2. Waiting(h + 1, q)[j] = (h + 1) + j
      BY DEF Waiting
    <3> QED BY <1>1, <2>1, <3>1, <3>2
  <2> QED BY <2>1, <2>2, <2>3, SeqEqual
<1>7. Here(k, r) = (h + 1) + q /\ h + 1 \in Nat
  BY <1>1, <1>4
<1>8. h + 1 =< Len(a)
  <2>1. Len(a) \in Nat /\ r =< (IF Framed(k) THEN 2 * Len(a) ELSE Len(a))
    BY DEF Arriving, Answers
  <2>2. CASE Framed(k)
    <3>1. r \div 2 = (h + 1) + q /\ r =< 2 * Len(a)
      BY <1>7, <2>1, <2>2 DEF Here
    <3> QED BY <1>1, <2>1, <3>1
  <2>3. CASE ~Framed(k)
    <3>1. r = (h + 1) + q /\ r =< Len(a)
      BY <1>7, <2>1, <2>3 DEF Here
    <3> QED BY <1>1, <2>1, <3>1
  <2> QED BY <2>2, <2>3
<1>9. Arriving(k, a, r, b, Tail(ls), h + 1, q)
  BY <1>6, <1>7 DEF Arriving
<1> QED BY <1>1, <1>5, <1>8, <1>9

-----------------------------------------------------------------------------
(* Steps.                                                                  *)

(* The parts of a call that do not change with it. *)
LEMMA CallTyped ==
  ASSUME NEW n \in DOMAIN Calls
  PROVE  /\ Calls[n].way \in {"retry", "fallback"}
         /\ Calls[n].chain \in Seq(Kind) /\ Len(Calls[n].chain) >= 1
         /\ Calls[n].way = "retry" => Len(Calls[n].chain) = 1
         /\ MaxRetries \in Nat
<1>1. /\ Calls[n].way \in {"retry", "fallback"}
      /\ Calls[n].chain \in Seq(Kind) /\ Calls[n].chain # <<>>
      /\ Calls[n].way = "retry" => Len(Calls[n].chain) = 1
      /\ MaxRetries \in Nat
  BY PipelineAssumption
<1>2. PICK x : x = Len(Calls[n].chain)
  OBVIOUS
<1>3. x \in Nat /\ x # 0
  BY <1>1, <1>2, EmptySeq
<1> QED BY <1>1, <1>2, <1>3

(* The provider of an attempt is one of the four. *)
LEMMA ProviderIsKind ==
  ASSUME TypeOK
  PROVE  Provider \in Kind
<1>1. PICK c : c = call.chain
  OBVIOUS
<1>2. /\ call.way \in {"retry", "fallback"} /\ c \in Seq(Kind) /\ Len(c) \in Nat /\ Len(c) >= 1
      /\ attempt \in 0 .. MaxAttempt
  BY <1>1, CallTyped DEF TypeOK, call
<1>3. CASE call.way = "retry"
  BY <1>1, <1>2, <1>3 DEF Provider
<1>4. CASE call.way # "retry"
  <2>1. attempt \in 0 .. Len(c) - 1
    BY <1>1, <1>2, <1>4 DEF MaxAttempt
  <2>2. attempt + 1 \in 1 .. Len(c)
    BY <1>2, <2>1
  <2> QED BY <1>1, <1>2, <1>4, <2>2 DEF Provider
<1> QED BY <1>3, <1>4

(* The loop of attempts has a bound. *)
LEMMA LoopIsBounded ==
  ASSUME id \in DOMAIN Calls
  PROVE  MaxAttempt \in Nat
<1>1. Len(call.chain) \in Nat /\ Len(call.chain) >= 1 /\ MaxRetries \in Nat
  BY CallTyped DEF call
<1> QED BY <1>1 DEF MaxAttempt

(* A failed attempt leaves the loop within its bound. *)
LEMMA FailStays ==
  ASSUME TypeOK, NEW error, Fail(error), UNCHANGED <<id, checked, early, aborted>>
  PROVE  Counted' /\ ~Streaming'
<1>1. MaxAttempt \in Nat
  BY LoopIsBounded DEF TypeOK
<1>2. MaxAttempt' = MaxAttempt
  BY DEF MaxAttempt, call
<1>3. attempt' \in 0 .. MaxAttempt
  BY <1>1 DEF Fail, TypeOK
<1>4. phase' \in {"ready", "backoff", "failed"}
  BY DEF Fail
<1>5. phase' = "backoff" => attempt' < MaxAttempt
  BY <1>1 DEF Fail, TypeOK
<1> QED BY <1>2, <1>3, <1>4, <1>5 DEF Counted, TypeOK, Streaming, Phase, Ended

(* A vendor answers by its protocol. *)
LEMMA AskStreams ==
  ASSUME AnswerInv, Ask
  PROVE  AnswerInv'
<1>1. PICK k : k = Provider
  OBVIOUS
<1>2. k \in Kind
  BY <1>1, ProviderIsKind DEF Counted, AnswerInv
<1>3. answer' \in Answer[call.vendor][k]
  BY <1>1 DEF Ask, OpenStream
<1>4. Lawful(k, answer')
  BY <1>2, <1>3, AnswerAssumption DEF Counted, AnswerInv, TypeOK, call
<1>5. Streamed(k, answer', 0, <<>>, <<>>, {}, <<>>)
  BY <1>2, <1>4, StreamBegins
<1>6. Provider' = k
  BY <1>1 DEF Ask, Provider, call, pipeVars
<1>7. Counted'
  BY DEF Counted, AnswerInv, Ask, TypeOK, MaxAttempt, call, pipeVars, Phase, Ended
<1>8. read' = 0 /\ buffer' = <<>> /\ lines' = <<>> /\ calls' = {} /\ heard' = <<>>
  BY DEF Ask, OpenStream
<1> QED BY <1>5, <1>6, <1>7, <1>8 DEF Counted, AnswerInv

(* What does not touch the attempt keeps it, ... *)
LEMMA OthersKeepAnswer ==
  ASSUME AnswerInv, Counted', UNCHANGED <<id, attempt, adapterVars>>, Streaming' => Streaming
  PROVE  AnswerInv'
<1>1. Provider' = Provider
  BY DEF Provider, call
<1>2. /\ answer' = answer /\ read' = read /\ buffer' = buffer
      /\ lines' = lines /\ calls' = calls /\ heard' = heard
  BY DEF adapterVars
<1> QED BY <1>1, <1>2 DEF Counted, AnswerInv

(* ... what arrives only adds messages that wait, ... *)
LEMMA ArriveKeeps ==
  ASSUME AnswerInv, NEW n \in Nat, Arrive(n)
  PROVE  AnswerInv'
<1>1. PICK k : k = Provider
  OBVIOUS
<1>2. k \in Kind
  BY <1>1, ProviderIsKind DEF Counted, AnswerInv
<1>3. /\ phase = "open" /\ call.stream /\ Receive(k, n)
      /\ UNCHANGED <<id, checked, phase, attempt, early, aborted>>
  BY <1>1 DEF Arrive, pipeVars
<1>4. Streamed(k, answer, read, buffer, lines, calls, heard)
  BY <1>1, <1>3 DEF Counted, AnswerInv, Streaming
<1>5. lines = <<>> /\ read' = read + n /\ UNCHANGED <<answer, calls, heard>>
  BY <1>3 DEF Receive
<1>6. PICK h \in Nat, p \in Nat : Arriving(k, answer, read, buffer, lines, h, p) /\ Follows(k, answer, h, calls, heard)
  BY <1>4 DEF Streamed
<1>7. p = 0
  <2>1. Waiting(h, p) \in Seq(Nat) /\ Len(Waiting(h, p)) = p
    BY DEF Waiting
  <2> QED BY <1>5, <1>6, <2>1 DEF Arriving
<1>8. PICK a : a = answer
  OBVIOUS
<1>9. a \in Answers /\ Lawful(k, a)
  BY <1>4, <1>8 DEF Streamed, Lawful
<1>10. PICK r, b : r = read /\ b = buffer
  OBVIOUS
<1>11. PICK bytes : bytes = b \o [j \in 1 .. n |-> r + j]
  OBVIOUS
<1>12. PICK ls, c : ls = lines' /\ c = buffer'
  OBVIOUS
<1>13. /\ r + n =< (IF Framed(k) THEN 2 * Len(a) ELSE Len(a))
       /\ Framed(k) => ls = LinesOf(bytes) /\ c = Remainder(bytes)
       /\ ~Framed(k) => n = 1 /\ ls = bytes /\ c = b
  BY <1>3, <1>8, <1>10, <1>11, <1>12 DEF Receive, Extent
<1>14. Arriving(k, a, r, b, <<>>, h, 0)
  BY <1>5, <1>6, <1>7, <1>8, <1>10
<1>15. PICK o \in Nat : Arriving(k, a, r + n, c, ls, h, o)
  BY <1>2, <1>9, <1>11, <1>13, <1>14, MoreArrives
<1>16. Streamed(k, a, r + n, c, ls, calls', heard')
  BY <1>5, <1>6, <1>8, <1>9, <1>15 DEF Streamed
<1>17. Provider' = k
  BY <1>1, <1>3 DEF Provider, call
<1>18. Counted'
  BY <1>3 DEF Counted, AnswerInv, TypeOK, MaxAttempt, call
<1> QED BY <1>5, <1>8, <1>10, <1>12, <1>16, <1>17, <1>18 DEF Counted, AnswerInv

(* ... and a message handled is heard. *)
LEMMA YieldFollows ==
  ASSUME AnswerInv, Yield
  PROVE  AnswerInv'
<1>1. PICK k : k = Provider
  OBVIOUS
<1>2. k \in Kind
  BY <1>1, ProviderIsKind DEF Counted, AnswerInv
<1>3. /\ phase = "open" /\ Handle(k)
      /\ UNCHANGED <<id, checked, phase, attempt, early, aborted>>
  BY <1>1 DEF Yield, pipeVars
<1>4. Provider' = k /\ call' = call
  BY <1>1, <1>3 DEF Provider, call
<1>5. Counted'
  BY <1>3 DEF Counted, AnswerInv, TypeOK, MaxAttempt, call
<1>6. CASE ~call.stream
  BY <1>4, <1>5, <1>6 DEF Counted, AnswerInv, Streaming
<1>7. CASE call.stream
  <2>1. Streamed(k, answer, read, buffer, lines, calls, heard)
    BY <1>1, <1>3, <1>7 DEF Counted, AnswerInv, Streaming
  <2>2. PICK h \in Nat, p \in Nat : Arriving(k, answer, read, buffer, lines, h, p) /\ Follows(k, answer, h, calls, heard)
    BY <2>1 DEF Streamed
  <2>3. PICK a, r, b, ls : a = answer /\ r = read /\ b = buffer /\ ls = lines
    OBVIOUS
  <2>4. Lawful(k, a) /\ a \in Answers
    BY <2>1, <2>3 DEF Streamed, Lawful
  <2>5. ls # <<>>
    BY <1>3, <2>3 DEF Handle
  <2>6. /\ Head(ls) = h + 1 /\ h + 1 =< Len(a)
        /\ \E q \in Nat : Arriving(k, a, r, b, Tail(ls), h + 1, q)
    BY <1>2, <2>2, <2>3, <2>4, <2>5, FirstWaiting
  <2>7. Message = a[h + 1]
    BY <2>3, <2>6 DEF Message
  <2>8. Follows(k, a, h + 1, CallsAfter(k, a[h + 1]), heard \o Chunks(k, a[h + 1], h + 1))
    BY <1>2, <2>2, <2>3, <2>4, <2>6, MessageFollows
  <2>9. /\ heard' = heard \o Chunks(k, a[h + 1], h + 1)
        /\ calls' = CallsAfter(k, a[h + 1])
        /\ lines' = Tail(ls) /\ answer' = a /\ read' = r /\ buffer' = b
    BY <1>3, <2>3, <2>6, <2>7 DEF Handle
  <2>10. Follows(k, a, h + 1, calls', heard')
    BY <2>8, <2>9
  <2>11. Streamed(k, a, r, b, Tail(ls), calls', heard')
    BY <2>4, <2>6, <2>10 DEF Streamed
  <2> QED BY <1>4, <1>5, <2>9, <2>11 DEF Counted, AnswerInv
<1> QED BY <1>6, <1>7

(* Every step keeps what was heard in step with the answer. *)
LEMMA AnswerStep ==
  ASSUME AnswerInv, [Next]_vars
  PROVE  AnswerInv'
<1> USE DEF pipeVars
<1>1. TypeOK
  BY DEF Counted, AnswerInv
<1>2. ASSUME NEW error, Fail(error), UNCHANGED <<id, checked, early, aborted>> PROVE AnswerInv'
  BY <1>1, <1>2, FailStays DEF Counted, AnswerInv
<1>3. ASSUME NEW v \in Verdict, RunCheck(v) PROVE AnswerInv'
  <2>1. phase' \in {"blocked", "checking"} /\ checked' \in Nat
    BY <1>1, <1>3 DEF RunCheck, TypeOK
  <2>2. Counted' /\ ~Streaming'
    BY <1>1, <1>3, <2>1 DEF Counted, RunCheck, TypeOK, MaxAttempt, call, Phase, Ended, Streaming
  <2> QED BY <2>2 DEF Counted, AnswerInv
<1>4. ASSUME Passed PROVE AnswerInv'
  BY <1>1, <1>4 DEF Passed, TypeOK, MaxAttempt, call, Phase, Ended, Streaming, Counted, AnswerInv
<1>5. ASSUME Refuse PROVE AnswerInv'
  BY <1>2, <1>5 DEF Refuse
<1>6. ASSUME Fault PROVE AnswerInv'
  BY <1>2, <1>6 DEF Fault
<1>7. ASSUME Cancel PROVE AnswerInv'
  BY <1>2, <1>7 DEF Cancel
<1>8. ASSUME NEW m, Break(m) PROVE AnswerInv'
  BY <1>2, <1>8 DEF Break
<1>9. ASSUME WakeUp PROVE AnswerInv'
  <2>1. attempt \in 0 .. MaxAttempt /\ attempt < MaxAttempt
    BY <1>9 DEF WakeUp, AnswerInv, Counted, TypeOK
  <2>2. attempt' \in 0 .. MaxAttempt
    <3>1. PICK n \in Nat : n = MaxAttempt
      BY <1>1, LoopIsBounded DEF TypeOK
    <3> QED BY <1>9, <2>1, <3>1 DEF WakeUp
  <2> QED BY <1>1, <1>9, <2>2 DEF WakeUp, AnswerInv, Counted, TypeOK, MaxAttempt, call, Phase, Ended, Streaming
<1>10. ASSUME Finish PROVE AnswerInv'
  <2>1. CASE Fail("EMPTY")
    BY <1>2, <1>10, <2>1 DEF Finish
  <2>2. CASE phase' = "done" /\ UNCHANGED <<attempt, adapterVars>>
    <3>1. Streaming /\ UNCHANGED <<id, checked, early, aborted>>
      BY <1>10 DEF Finish, Streaming
    <3>2. Counted'
      BY <1>1, <2>2, <3>1 DEF Counted, TypeOK, MaxAttempt, call, Phase, Ended
    <3> QED BY <2>2, <3>1, <3>2, OthersKeepAnswer
  <2> QED BY <1>10, <2>1, <2>2 DEF Finish
<1>11. ASSUME Complete PROVE AnswerInv'
  <2>1. CASE Fail("PROVIDER_ERROR")
    BY <1>2, <1>11, <2>1 DEF Complete
  <2>2. CASE phase' = "done" /\ UNCHANGED attempt
    BY <1>1, <1>11, <2>2 DEF Complete, TypeOK, MaxAttempt, call, Phase, Ended, Streaming, Counted, AnswerInv
  <2> QED BY <1>11, <2>1, <2>2 DEF Complete
<1>12. ASSUME Abort PROVE AnswerInv'
  <2>1. Counted'
    BY <1>1, <1>12 DEF AnswerInv, Counted, Abort, TypeOK, MaxAttempt, call, Phase, Ended
  <2>2. Streaming' => Streaming
    BY <1>12 DEF Abort, Streaming, call
  <2> QED BY <1>12, <2>1, <2>2, OthersKeepAnswer DEF Abort
<1>13. ASSUME UNCHANGED vars PROVE AnswerInv'
  <2>1. Counted' /\ (Streaming' => Streaming) /\ UNCHANGED <<id, attempt, adapterVars>>
    BY <1>1, <1>13 DEF AnswerInv, Counted, vars, TypeOK, MaxAttempt, call, Streaming
  <2> QED BY <2>1, OthersKeepAnswer
<1>14. ASSUME NEW n \in 1 .. Extent(Provider), Arrive(n) PROVE AnswerInv'
  <2>1. n \in Nat
    OBVIOUS
  <2> QED BY <1>14, <2>1, ArriveKeeps
<1>15. ASSUME AbortEarly PROVE AnswerInv'
  <2>1. Counted' /\ (Streaming' => Streaming)
    BY <1>1, <1>15 DEF AbortEarly, AnswerInv, Counted, TypeOK, MaxAttempt, call, Streaming
  <2> QED BY <1>15, <2>1, OthersKeepAnswer DEF AbortEarly
<1>16. ASSUME MakeSignal PROVE AnswerInv'
  <2>1. Counted' /\ ~Streaming'
    BY <1>1, <1>16 DEF MakeSignal, Counted, TypeOK, MaxAttempt, call, Phase, Ended, Streaming
  <2> QED BY <1>16, <2>1, OthersKeepAnswer DEF MakeSignal
<1> QED BY <1>3, <1>4, <1>5, <1>6, <1>7, <1>8, <1>9, <1>10, <1>11, <1>12, <1>13, <1>14, <1>15, <1>16,
           AskStreams, YieldFollows DEF Next, Own, Moderator, Vendor

(* Nothing is open when a call begins. *)
LEMMA AnswerInit == Init => AnswerInv
<1> SUFFICES ASSUME Init PROVE AnswerInv
  OBVIOUS
<1>1. 0 \in 0 .. MaxAttempt
  BY LoopIsBounded DEF Init
<1> QED BY <1>1 DEF Init, AnswerInv, Counted, TypeOK, Phase, Ended, Streaming

-----------------------------------------------------------------------------
(* What follows.                                                           *)

(* A vendor says the end once. *)
LEMMA OneEnd ==
  ASSUME NEW a \in Answers, EndsOnce(a),
         NEW i \in DOMAIN a, NEW j \in DOMAIN a[i], a[i][j].is = "end",
         NEW n \in DOMAIN a, NEW l \in DOMAIN a[n], a[n][l].is = "end"
  PROVE  i = n /\ j = l
<1>1. /\ i \in Nat /\ n \in Nat /\ Len(a) \in Nat /\ i =< Len(a) /\ n =< Len(a)
      /\ a[i] \in Seq(Items) /\ a[n] \in Seq(Items)
  BY DEF Answers
<1>2. "end" \notin Trailing
  BY DEF Trailing
<1>3. ~(i < n)
  <2>1. i < n => n \in i + 1 .. Len(a)
    BY <1>1
  <2> QED BY <1>2, <2>1 DEF EndsOnce
<1>4. ~(n < i)
  <2>1. n < i => i \in n + 1 .. Len(a)
    BY <1>1
  <2> QED BY <1>2, <2>1 DEF EndsOnce
<1>5. i = n
  BY <1>1, <1>3, <1>4
<1>6. /\ j \in Nat /\ l \in Nat /\ Len(a[i]) \in Nat /\ j =< Len(a[i]) /\ l =< Len(a[i])
  BY <1>1, <1>5
<1>7. ~(j < l)
  <2>1. j < l => l \in j + 1 .. Len(a[i])
    BY <1>6
  <2> QED BY <1>2, <1>5, <2>1 DEF EndsOnce
<1>8. ~(l < j)
  <2>1. l < j => j \in l + 1 .. Len(a[i])
    BY <1>6
  <2> QED BY <1>2, <1>5, <2>1 DEF EndsOnce
<1> QED BY <1>5, <1>6, <1>7, <1>8

(* Which is the reason of the answer. *)
LEMMA TheReason ==
  ASSUME answer \in Answers, EndsOnce(answer),
         NEW i \in DOMAIN answer, NEW j \in DOMAIN answer[i], answer[i][j].is = "end"
  PROVE  Reason = answer[i][j].why
<1>1. Has(answer[i], "end")
  BY DEF Has
<1>2. PICK n : n = CHOOSE x \in DOMAIN answer : Has(answer[x], "end")
  OBVIOUS
<1>3. n \in DOMAIN answer /\ Has(answer[n], "end")
  BY <1>1, <1>2
<1>4. PICK l : l = CHOOSE y \in DOMAIN answer[n] : answer[n][y].is = "end"
  OBVIOUS
<1>5. l \in DOMAIN answer[n] /\ answer[n][l].is = "end"
  BY <1>3, <1>4 DEF Has
<1>6. Reason = answer[n][l].why
  BY <1>1, <1>2, <1>4 DEF Reason
<1>7. i = n /\ j = l
  BY <1>3, <1>5, OneEnd
<1> QED BY <1>6, <1>7

(* A set without two different members has at most one. *)
LEMMA AtMostOne ==
  ASSUME NEW S, \A x \in S : \A y \in S : x = y
  PROVE  Cardinality(S) =< 1
<1>1. CASE S = {}
  BY <1>1, FS_EmptySet
<1>2. CASE S # {}
  <2>1. PICK x : x \in S
    BY <1>2
  <2>2. S = {x}
    BY <2>1
  <2>3. Cardinality({x}) = 1
    BY FS_Singleton
  <2> QED BY <2>2, <2>3
<1> QED BY <1>1, <1>2

(* What was handled is of the answer. *)
LEMMA HandledExist ==
  ASSUME NEW k, NEW a \in Answers, NEW r, NEW b, NEW ls, NEW h, NEW p, Arriving(k, a, r, b, ls, h, p)
  PROVE  h =< Len(a)
<1>1. Len(a) \in Nat /\ r \in Nat /\ h \in Nat /\ p \in Nat
  BY DEF Arriving, Answers
<1>2. CASE Framed(k)
  <2>1. r \div 2 = h + p /\ r =< 2 * Len(a)
    BY <1>2 DEF Arriving, Here
  <2> QED BY <1>1, <2>1
<1>3. CASE ~Framed(k)
  <2>1. r = h + p /\ r =< Len(a)
    BY <1>3 DEF Arriving, Here
  <2> QED BY <1>1, <2>1
<1> QED BY <1>2, <1>3

(* What was heard by then is as claimed. *)
LEMMA StreamSays ==
  ASSUME AnswerInv, Streaming
  PROVE  SaidAsArrived /\ EndAsArrived
<1>1. PICK k : k = Provider
  OBVIOUS
<1>2. k \in Kind
  BY <1>1, ProviderIsKind DEF AnswerInv, Counted
<1>3. Streamed(k, answer, read, buffer, lines, calls, heard)
  BY <1>1 DEF AnswerInv
<1>4. PICK h \in Nat, p \in Nat : Arriving(k, answer, read, buffer, lines, h, p) /\ Follows(k, answer, h, calls, heard)
  BY <1>3 DEF Streamed
<1>5. Arrived - Len(lines) = h
  <2>1. Waiting(h, p) \in Seq(Nat) /\ Len(Waiting(h, p)) = p
    BY DEF Waiting
  <2>2. Len(lines) = p /\ Here(k, read) = h + p
    BY <1>4, <2>1 DEF Arriving
  <2>3. Arrived = Here(k, read)
    BY <1>1 DEF Arrived, Here
  <2> QED BY <2>2, <2>3
<1>6. answer \in Answers /\ EndsOnce(answer)
  BY <1>3 DEF Streamed, Lawful
<1>7. /\ heard \in Seq(Chunk)
      /\ Located(k, answer, h, heard) /\ Started(answer, h, calls, heard) /\ Finished(k, answer, h, heard)
  BY <1>4 DEF Follows
<1>8. SaidAsArrived
  <2>1. \A what : Places(what, Arrived - Len(lines)) = PlacesOf(what, answer, h)
    BY <1>5 DEF Places, PlacesOf
  <2>2. /\ PlacesTold("text", heard) = Places("text", Arrived - Len(lines))
        /\ Provider \in {"openai", "anthropic"} => PlacesTold("delta", heard) = Places("args", Arrived - Len(lines))
    BY <1>1, <1>7, <2>1 DEF Located
  <2>3. ASSUME NEW j \in DOMAIN heard, heard[j].is = "delta"
        PROVE  /\ \E l \in 1 .. j - 1 : heard[l] = StartChunk(heard[j].tool)
               /\ \E l \in DOMAIN answer[heard[j].at] :
                    answer[heard[j].at][l].is = "args" /\ answer[heard[j].at][l].tool = heard[j].tool
    BY <1>7, <2>3 DEF Started
  <2> QED BY <2>2, <2>3 DEF SaidAsArrived
<1>9. Cardinality(Completions) =< 1
  <2>1. \A x \in Completions : \A y \in Completions : x = y
    BY <1>7 DEF Completions, Finished, Pays
  <2> QED BY <2>1, AtMostOne
<1>10. Completions # {} <=> \E i \in Handled : Billable(i)
  <2>1. Completions # {} <=> \E n \in DOMAIN heard : Pays(heard[n])
    BY DEF Completions, Pays
  <2>2. Handled = 1 .. h
    BY <1>5 DEF Handled
  <2>3. \A i : Billable(i) <=> Has(answer[i], "end") /\ Paid(k, answer[i])
    BY <1>1 DEF Billable, Paid
  <2> QED BY <1>7, <2>1, <2>2, <2>3 DEF Finished
<1>11. ASSUME NEW j \in DOMAIN heard, heard[j].is = "finish"
       PROVE  /\ \A l \in j .. Len(heard) : heard[l].is = "finish"
              /\ (\A l \in 1 .. j - 1 : heard[l].is # "finish") /\ Provider # "ollama" /\ Reason = "length"
                   => heard[j].why = "length"
  <2>1. \A l \in j .. Len(heard) : heard[l].is = "finish"
    BY <1>7, <1>11 DEF Finished
  <2>2. ASSUME \A l \in 1 .. j - 1 : heard[l].is # "finish", Provider # "ollama", Reason = "length"
        PROVE  heard[j].why = "length"
    <3>1. SaidEnd(answer, h) /\
          \E l \in 1 .. h : \E i \in DOMAIN answer[l] : answer[l][i].is = "end" /\ heard[j].why = WhyTold(k, answer[l][i].why)
      BY <1>7, <1>11, <2>2 DEF Finished
    <3>2. PICK l \in 1 .. h : \E i \in DOMAIN answer[l] : answer[l][i].is = "end" /\ heard[j].why = WhyTold(k, answer[l][i].why)
      BY <3>1
    <3>3. PICK i \in DOMAIN answer[l] : answer[l][i].is = "end" /\ heard[j].why = WhyTold(k, answer[l][i].why)
      BY <3>2
    <3>4. l \in DOMAIN answer
      <4>1. h =< Len(answer)
        BY <1>4, <1>6, HandledExist
      <4>2. Len(answer) \in Nat /\ DOMAIN answer = 1 .. Len(answer)
        BY <1>6 DEF Answers
      <4> QED BY <4>1, <4>2
    <3>5. answer[l][i].why = "length"
      BY <1>6, <2>2, <3>3, <3>4, TheReason
    <3>6. k \in {"openai", "anthropic", "minimax"}
      BY <1>1, <1>2, <2>2 DEF Kind
    <3>7. WhyTold(k, "length") = "length"
      BY <3>6 DEF WhyTold, OpenAITold, AnthropicTold, MiniMaxTold
    <3> QED BY <3>3, <3>5, <3>7
  <2> QED BY <2>1, <2>2
<1>12. EndAsArrived
  BY <1>9, <1>10, <1>11 DEF EndAsArrived
<1> QED BY <1>8, <1>12

(* A call, its phase and its attempt are what they should be: no call      *)
(* tries more often than maxRetries or the chain allows.                   *)
THEOREM PipelineTyped == Spec => []TypeOK
<1>1. AnswerInv /\ [Next]_vars => AnswerInv'
  BY AnswerStep
<1>2. AnswerInv => TypeOK
  BY DEF AnswerInv, Counted
<1> QED BY <1>1, <1>2, AnswerInit, PTL DEF Spec

(* For any answers of any length that keep to the vendors' protocols,      *)
(* however the network cuts them and whichever attempt of whichever        *)
(* provider reads them, the caller hears in each attempt all the text and  *)
(* all later fragments of arguments that attempt has read, in order, and   *)
(* the vendor's end once.                                                  *)
THEOREM AnswersAreFaithful == Spec => []AnswerIsFaithful
<1>1. AnswerInv /\ [Next]_vars => AnswerInv'
  BY AnswerStep
<1>2. AnswerInv => AnswerIsFaithful
  BY StreamSays DEF AnswerIsFaithful, Streaming
<1> QED BY <1>1, <1>2, AnswerInit, PTL DEF Spec
=============================================================================
