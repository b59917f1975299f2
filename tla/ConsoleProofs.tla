---------------------------- MODULE ConsoleProofs ----------------------------
(***************************************************************************)
(* Nobody waits in vain at the web console.  The invariant Inv says of     *)
(* every component who waits for which answer, and of everything that is   *)
(* waited for that it is on its way; every step of every screen keeps it,  *)
(* and with no request in flight it leaves nobody waiting.                 *)
(*                                                                         *)
(* A step is looked at from two sides.  Turns says what it does to what is *)
(* in flight, whatever the screen: requests end, lose components that wait *)
(* for them, are superseded or are sent; what stays on its way follows     *)
(* from that alone (ComingOn and its like).  What it does to the screen is *)
(* then compared with what is still, or newly, on its way (InStep, and     *)
(* LibraryGoOn, ListGoOn, DetailGoOn of the single screens).               *)
(*                                                                         *)
(* The sections after the theorems are of steps too, and for ShownProofs:  *)
(* how patches change a listing, what a step does to the server's tables   *)
(* and to the ids that templates still get, whatever the screen shows      *)
(* (Base), and which steps lead to another screen.                         *)
(***************************************************************************)
EXTENDS WebConsole, FiniteSetTheorems, SequenceTheorems, WellFoundedInduction, TLAPS

-----------------------------------------------------------------------------
(* Listings.                                                               *)

(* A set with 0 and the successors of its members has every number. *)
LEMMA Induction ==
  ASSUME NEW S, 0 \in S, \A n \in Nat : n \in S => n + 1 \in S
  PROVE  \A n \in Nat : n \in S
<1> DEFINE X == {n \in Nat : n \notin S}
<1>1. SUFFICES ASSUME X # {} PROVE FALSE
  OBVIOUS
<1>2. PICK x \in X : \A y \in X : ~ (<<y, x>> \in OpToRel(<, Nat))
  BY <1>1, NatLessThanWellFounded, WFMin, Zenon
<1>3. x \in Nat /\ x # 0 /\ x - 1 \in Nat
  OBVIOUS
<1>4. <<x - 1, x>> \in OpToRel(<, Nat)
  BY <1>3 DEF OpToRel
<1>5. x - 1 \notin X
  BY <1>2, <1>4, Zenon
<1> QED BY <1>3, <1>5

(* Each element of a sequence is kept or not, one after the other. *)
Kept(F, s, m, these, S) ==
  /\ F \in [0 .. m -> Seq(S)]
  /\ F[0] = <<>>
  /\ \A n \in 1 .. m : F[n] = IF s[n] \in these THEN Append(F[n - 1], s[n]) ELSE F[n - 1]

(* So it can be done for as many as there are. *)
LEMMA KeptOnes ==
  ASSUME NEW S, NEW s \in Seq(S), NEW these
  PROVE  \E F : Kept(F, s, Len(s), these, S)
<1> DEFINE Upto == {m \in Nat : m =< Len(s) => \E F : Kept(F, s, m, these, S)}
<1>1. 0 \in Upto
  <2>1. [n \in 0 .. 0 |-> <<>>] \in [0 .. 0 -> Seq(S)] /\ [n \in 0 .. 0 |-> <<>>][0] = <<>> /\ 1 .. 0 = {}
    OBVIOUS
  <2>2. Kept([n \in 0 .. 0 |-> <<>>], s, 0, these, S)
    BY <2>1 DEF Kept
  <2> QED BY <2>2
<1>2. ASSUME NEW m \in Nat, m \in Upto PROVE m + 1 \in Upto
  <2>1. SUFFICES ASSUME m + 1 =< Len(s) PROVE \E F : Kept(F, s, m + 1, these, S)
    OBVIOUS
  <2>2. PICK F : Kept(F, s, m, these, S)
    BY <1>2, <2>1
  <2> DEFINE last == IF s[m + 1] \in these THEN Append(F[m], s[m + 1]) ELSE F[m]
             G == [n \in 0 .. m + 1 |-> IF n = m + 1 THEN last ELSE F[n]]
  <2>3. s[m + 1] \in S /\ F[m] \in Seq(S)
    BY <2>1, <2>2 DEF Kept
  <2>4. last \in Seq(S)
    BY <2>3
  <2> HIDE DEF last
  <2>5. G \in [0 .. m + 1 -> Seq(S)]
    BY <2>2, <2>4 DEF Kept
  <2>6. G[0] = <<>>
    BY <2>2 DEF Kept
  <2>7. ASSUME NEW n \in 1 .. m + 1
        PROVE  G[n] = IF s[n] \in these THEN Append(G[n - 1], s[n]) ELSE G[n - 1]
    <3>1. n - 1 \in 0 .. m /\ n - 1 # m + 1 /\ G[n - 1] = F[n - 1]
      OBVIOUS
    <3>2. CASE n = m + 1
      <4>1. G[n] = last /\ n - 1 = m
        BY <3>2
      <4> QED BY <3>1, <3>2, <4>1 DEF last
    <3>3. CASE n # m + 1
      <4>1. n \in 1 .. m /\ G[n] = F[n]
        BY <3>3
      <4>2. F[n] = IF s[n] \in these THEN Append(F[n - 1], s[n]) ELSE F[n - 1]
        BY <2>2, <4>1 DEF Kept
      <4> HIDE DEF G
      <4> QED BY <3>1, <4>1, <4>2
    <3> QED BY <3>2, <3>3
  <2> HIDE DEF G
  <2>8. Kept(G, s, m + 1, these, S)
    BY <2>5, <2>6, <2>7 DEF Kept
  <2> QED BY <2>8
<1>3. Len(s) \in Upto
  <2> HIDE DEF Upto
  <2> QED BY <1>1, <1>2, Induction, LenProperties
<1> QED BY <1>3, LenProperties

(* What is kept is what comes of it. *)
LEMMA KeepIsKept ==
  ASSUME NEW S, NEW s \in Seq(S), NEW these
  PROVE  \E F : Kept(F, s, Len(s), these, S) /\ Keep(s, these) = F[Len(s)]
<1> DEFINE n == Len(s)
           At(g, i) == IF i = 0 THEN <<>> ELSE IF s[i] \in these THEN Append(g[i - 1], s[i]) ELSE g[i - 1]
           upto == CHOOSE g : g = [i \in 0 .. n |-> At(g, i)]
<1>1. PICK F : Kept(F, s, n, these, S)
  BY KeptOnes
<1>2. n \in Nat
  BY LenProperties
<1> HIDE DEF n
<1>3. F = [i \in 0 .. n |-> At(F, i)]
  <2>1. ASSUME NEW i \in 0 .. n PROVE F[i] = At(F, i)
    <3>1. i # 0 => i \in 1 .. n
      BY <1>2
    <3> QED BY <1>1, <3>1 DEF Kept
  <2>2. F = [i \in 0 .. n |-> F[i]]
    BY <1>1 DEF Kept
  <2> HIDE DEF At
  <2> QED BY <2>1, <2>2
<1>4. upto = [i \in 0 .. n |-> At(upto, i)]
  <2> HIDE DEF At
  <2> QED BY <1>3
<1>5. Keep(s, these) = upto[n]
  BY DEF Keep, n
<1> HIDE DEF upto
<1>6. \A i \in 0 .. n : upto[i] = F[i]
  <2> DEFINE Same == {i \in Nat : i =< n => upto[i] = F[i]}
  <2>1. 0 \in Same
    <3>1. upto[0] = At(upto, 0) /\ F[0] = At(F, 0)
      <4>1. 0 \in 0 .. n
        BY <1>2
      <4> HIDE DEF At
      <4> QED BY <1>3, <1>4, <4>1
    <3> QED BY <3>1
  <2>2. ASSUME NEW i \in Nat, i \in Same PROVE i + 1 \in Same
    <3>1. SUFFICES ASSUME i + 1 =< n PROVE upto[i + 1] = F[i + 1]
      OBVIOUS
    <3>2. i + 1 \in 0 .. n /\ (i + 1) - 1 = i /\ upto[i] = F[i] /\ i + 1 # 0
      BY <1>2, <2>2, <3>1
    <3>3. upto[i + 1] = At(upto, i + 1) /\ F[i + 1] = At(F, i + 1)
      <4> HIDE DEF At
      <4> QED BY <1>3, <1>4, <3>2
    <3> QED BY <3>2, <3>3
  <2>3. \A i \in Nat : i \in Same
    <3> HIDE DEF Same
    <3> QED BY <2>1, <2>2, Induction
  <2> QED BY <1>2, <2>3
<1> QED BY <1>1, <1>2, <1>5, <1>6 DEF n
(* What is kept of a sequence: its elements that are to be, none twice if  *)
(* none was there twice, whatever it is told apart by.                     *)
LEMMA KeepKeeps ==
  ASSUME NEW S, NEW s \in Seq(S), NEW these, NEW Key
  PROVE  /\ Keep(s, these) \in Seq(S)
         /\ ToSet(Keep(s, these)) = ToSet(s) \cap these
         /\ (\A i, j \in DOMAIN s : Key[s[i]] = Key[s[j]] => i = j) =>
              \A i, j \in DOMAIN Keep(s, these) : Key[Keep(s, these)[i]] = Key[Keep(s, these)[j]] => i = j
<1> DEFINE n == Len(s)
           Single(q) == \A i, j \in DOMAIN q : Key[q[i]] = Key[q[j]] => i = j
<1>1. PICK F : Kept(F, s, n, these, S) /\ Keep(s, these) = F[n]
  BY KeepIsKept
<1>2. n \in Nat /\ DOMAIN s = 1 .. n /\ \A i \in 1 .. n : s[i] \in S
  OBVIOUS
<1>3. F[n] \in Seq(S) /\ \A m \in 0 .. n : F[m] \in Seq(S)
  BY <1>1, <1>2 DEF Kept
<1> HIDE DEF n
<1> DEFINE Good == {m \in Nat : m =< n =>
                      /\ ToSet(F[m]) = {s[i] : i \in 1 .. m} \cap these
                      /\ Single(s) => Single(F[m])}
<1>4. 0 \in Good
  <2>1. F[0] = <<>>
    BY <1>1 DEF Kept
  <2>2. DOMAIN <<>> = {} /\ ToSet(<<>>) = {} /\ 1 .. 0 = {}
    BY DEF ToSet
  <2> QED BY <2>1, <2>2
<1>5. ASSUME NEW m \in Nat, m \in Good PROVE m + 1 \in Good
  <2>1. SUFFICES ASSUME m + 1 =< n
                 PROVE  /\ ToSet(F[m + 1]) = {s[i] : i \in 1 .. m + 1} \cap these
                        /\ Single(s) => Single(F[m + 1])
    OBVIOUS
  <2>2. m + 1 \in 1 .. n /\ (m + 1) - 1 = m /\ m \in 0 .. n /\ m =< n
    BY <1>2, <2>1
  <2>3. F[m + 1] = IF s[m + 1] \in these THEN Append(F[m], s[m + 1]) ELSE F[m]
    BY <1>1, <2>2 DEF Kept
  <2>4. ToSet(F[m]) = {s[i] : i \in 1 .. m} \cap these /\ (Single(s) => Single(F[m]))
    BY <1>5, <2>2
  <2>5. {s[i] : i \in 1 .. m + 1} = {s[i] : i \in 1 .. m} \cup {s[m + 1]}
    <3>1. 1 .. m + 1 = (1 .. m) \cup {m + 1}
      OBVIOUS
    <3> QED BY <3>1
  <2>6. CASE s[m + 1] \notin these
    BY <2>3, <2>4, <2>5, <2>6
  <2>7. CASE s[m + 1] \in these
    <3> DEFINE q == F[m]
               l == Len(q)
    <3>1. F[m + 1] = Append(q, s[m + 1]) /\ q \in Seq(S) /\ l \in Nat /\ DOMAIN q = 1 .. l
      BY <1>3, <2>2, <2>3, <2>7
    <3>2. DOMAIN F[m + 1] = 1 .. l + 1 /\ F[m + 1][l + 1] = s[m + 1]
          /\ \A i \in 1 .. l : F[m + 1][i] = q[i]
      BY <1>2, <2>2, <3>1
    <3>3. ToSet(F[m + 1]) = ToSet(q) \cup {s[m + 1]}
      <4>1. 1 .. l + 1 = (1 .. l) \cup {l + 1}
        BY <3>1
      <4> HIDE DEF q, l
      <4> QED BY <3>1, <3>2, <4>1 DEF ToSet
    <3>4. ASSUME Single(s) PROVE Single(F[m + 1])
      <4>1. \A i \in 1 .. l : Key[q[i]] # Key[s[m + 1]]
        <5> TAKE i \in 1 .. l
        <5>1. q[i] \in ToSet(q)
          BY <3>1 DEF ToSet
        <5>2. PICK k \in 1 .. m : q[i] = s[k]
          BY <2>4, <5>1
        <5> QED BY <1>2, <2>2, <3>4, <5>2
      <4>2. Single(q)
        BY <2>4, <3>4
      <4>3. ASSUME NEW i \in 1 .. l + 1, NEW j \in 1 .. l + 1, Key[F[m + 1][i]] = Key[F[m + 1][j]]
            PROVE  i = j
        <5> HIDE DEF q, l
        <5>1. i = l + 1 \/ i \in 1 .. l
          BY <3>1
        <5>2. j = l + 1 \/ j \in 1 .. l
          BY <3>1
        <5> QED BY <3>1, <3>2, <4>1, <4>2, <4>3, <5>1, <5>2
      <4> QED BY <3>2, <4>3
    <3> QED BY <2>4, <2>5, <2>7, <3>3, <3>4
  <2> QED BY <2>6, <2>7
<1>6. n \in Good
  <2> HIDE DEF Good
  <2> QED BY <1>2, <1>4, <1>5, Induction
<1>7. ToSet(F[n]) = ToSet(s) \cap these /\ (Single(s) => Single(F[n]))
  <2>1. n =< n
    BY <1>2
  <2>2. ToSet(s) = {s[i] : i \in 1 .. n}
    BY <1>2 DEF ToSet
  <2> QED BY <1>6, <2>1, <2>2
<1> QED BY <1>1, <1>3, <1>7

(* Rows have ids, and each has one of its own. *)
Row == (Nat \ {0}) \X Nat
Apart(rows) == \A m, n \in DOMAIN rows : rows[m][1] = rows[n][1] => m = n

(* What a listing says of a row. *)
Agrees(rows, content, x) == \A c \in Nat : <<x, c>> \in ToSet(rows) <=> c # 0 /\ content[x] = c

(* A listing of a table. *)
Fits(rows, content) ==
  /\ rows \in Seq(Row) /\ Apart(rows)
  /\ RowsOf(rows) \subseteq DOMAIN content
  /\ \A x \in DOMAIN content : Agrees(rows, content, x)

(* The server's listings are. *)
LEMMA RowsFit ==
  ASSUME NEW n \in Nat, NEW content \in [1 .. n -> Nat]
  PROVE  Fits(Rows(content), content)
<1> DEFINE ids == [r \in DOMAIN content |-> r]
           these == {r \in DOMAIN content : content[r] # 0}
           there == Keep(ids, these)
           rows == [k \in DOMAIN there |-> <<there[k], content[there[k]]>>]
<1>1. ids \in Seq(1 .. n) /\ DOMAIN ids = 1 .. n /\ ToSet(ids) = 1 .. n
  BY DEF ToSet
<1>2. Rows(content) = rows
  BY DEF Rows
<1>3. /\ there \in Seq(1 .. n)
      /\ ToSet(there) = ToSet(ids) \cap these
      /\ \A i, j \in DOMAIN there : there[i] = there[j] => i = j
  <2> DEFINE Key == [r \in 1 .. n |-> r]
  <2>1. \A i, j \in DOMAIN ids : Key[ids[i]] = Key[ids[j]] => i = j
    BY <1>1
  <2> HIDE DEF ids, these
  <2>2. /\ there \in Seq(1 .. n) /\ ToSet(there) = ToSet(ids) \cap these
        /\ \A i, j \in DOMAIN there : Key[there[i]] = Key[there[j]] => i = j
    <3> HIDE DEF Key
    <3> QED BY <1>1, <2>1, KeepKeeps
  <2> HIDE DEF there
  <2>3. \A i \in DOMAIN there : there[i] \in 1 .. n
    BY <2>2
  <2> QED BY <2>2, <2>3
<1>4. ToSet(there) = these
  BY <1>1, <1>3
<1> HIDE DEF there
<1>5. \A k \in DOMAIN there : there[k] \in 1 .. n /\ there[k] # 0 /\ content[there[k]] \in Nat
  BY <1>3
<1>6. rows \in Seq(Row)
  <2>1. DOMAIN there = 1 .. Len(there) /\ Len(there) \in Nat
    BY <1>3
  <2> QED BY <1>5, <2>1 DEF Row
<1>7. Apart(rows)
  BY <1>3 DEF Apart
<1>8. RowsOf(rows) \subseteq DOMAIN content
  BY <1>5 DEF RowsOf
<1>9. ASSUME NEW x \in DOMAIN content, NEW c \in Nat
      PROVE  <<x, c>> \in ToSet(rows) <=> c # 0 /\ content[x] = c
  <2>1. <<x, c>> \in ToSet(rows) <=> \E k \in DOMAIN there : there[k] = x /\ content[there[k]] = c
    BY DEF ToSet
  <2>2. x \in ToSet(there) <=> \E k \in DOMAIN there : there[k] = x
    BY DEF ToSet
  <2>3. x \in these <=> content[x] # 0
    OBVIOUS
  <2> HIDE DEF rows, these
  <2> QED BY <1>4, <2>1, <2>2, <2>3
<1> HIDE DEF rows
<1> QED BY <1>2, <1>6, <1>7, <1>8, <1>9 DEF Fits, Agrees

(* Two listings of one table have the same rows. *)
LEMMA SameFit ==
  ASSUME NEW content, NEW a, NEW b, Fits(a, content), Fits(b, content)
  PROVE  SameRows(a, b)
<1>1. ToSet(a) = ToSet(b)
  <2>1. ASSUME NEW p, NEW q, Fits(p, content), Fits(q, content), NEW r \in ToSet(p) PROVE r \in ToSet(q)
    <3>1. PICK k \in DOMAIN p : r = p[k]
      BY DEF ToSet
    <3>2. r \in Row /\ r[1] \in RowsOf(p)
      BY <2>1, <3>1 DEF Fits, RowsOf
    <3>3. r[2] \in Nat /\ r = <<r[1], r[2]>> /\ r[1] \in DOMAIN content
      BY <2>1, <3>2 DEF Row, Fits
    <3> QED BY <2>1, <3>3 DEF Fits, Agrees
  <2>2. ToSet(a) \subseteq ToSet(b) /\ ToSet(b) \subseteq ToSet(a)
    BY <2>1
  <2> QED BY <2>2
<1>2. ASSUME NEW p, Fits(p, content) PROVE IsFiniteSet(ToSet(p)) /\ Cardinality(ToSet(p)) = Len(p)
  <2> DEFINE n == Len(p)
  <2>1. n \in Nat /\ DOMAIN p = 1 .. n /\ p \in [1 .. n -> Row]
    BY <1>2 DEF Fits
  <2>2. \A i, j \in 1 .. n : p[i] = p[j] => i = j
    BY <1>2, <2>1 DEF Fits, Apart
  <2>3. p \in [1 .. n -> ToSet(p)] /\ \A r \in ToSet(p) : \E i \in 1 .. n : p[i] = r
    BY <2>1 DEF ToSet
  <2> HIDE DEF n
  <2>4. p \in Bijection(1 .. n, ToSet(p))
    BY <2>2, <2>3 DEF Bijection, Injection, Surjection, IsInjective
  <2>5. ExistsBijection(1 .. n, ToSet(p))
    BY <2>4 DEF ExistsBijection
  <2>6. IsFiniteSet(1 .. n) /\ Cardinality(1 .. n) = n
    BY <2>1, FS_Interval
  <2>7. IsFiniteSet(ToSet(p)) /\ Cardinality(ToSet(p)) = Cardinality(1 .. n)
    BY <2>5, <2>6, FS_Bijection
  <2> QED BY <2>6, <2>7 DEF n
<1>3. Len(a) = Cardinality(ToSet(a)) /\ Len(b) = Cardinality(ToSet(b))
  BY <1>2
<1> QED BY <1>1, <1>3 DEF SameRows

-----------------------------------------------------------------------------
(* Slots and the requests in them.                                         *)

Slots == 1 .. MaxFlight
Fields == {"fn", "table", "row", "value", "owner", "memo", "latest", "token", "reply"}
IsReply(x) == x \in {Pending, Error, NotFound, Lost, Unauthorized} \/ x = OK(x[2])
IsRequest(r) ==
  /\ DOMAIN r = Fields
  /\ r.fn \in DOMAIN Verb
  /\ r.table \in Table \cup {T("users", 0)}
  /\ r.row \in Nat /\ r.value \in Nat
  /\ r.owner \subseteq Parts
  /\ r.latest \in BOOLEAN
  /\ r.token \in Nat
  /\ IsReply(r.reply)
Flights(f) == DOMAIN f = Slots /\ \A i \in Slots : f[i] = Idle \/ IsRequest(f[i])

(* No request is a free slot. *)
LEMMA IdleIsNone == Idle.fn = "none" /\ "none" \notin DOMAIN Verb /\ \A r : IsRequest(r) => r # Idle
BY DEF Idle, Verb, IsRequest

(* A free slot is found. *)
LEMMA Sent ==
  ASSUME NEW f, Flights(f), FreeSlots(f) # {}, NEW r
  PROVE  \E k \in Slots : f[k] = Idle /\ Send(f, r) = [f EXCEPT ![k] = r]
<1> DEFINE free == FreeSlots(f)
           Less == {ss \in Nat \X Nat : ss[1] < ss[2]}
<1>1. free \in SUBSET Nat
  BY ConsoleAssumption DEF FreeSlots, Flights, Slots
<1>2. IsWellFoundedOn(Less, Nat)
  BY NatLessThanWellFounded DEF OpToRel
<1>3. PICK x \in free : \A y \in free : ~ (<<y, x>> \in Less)
  <2> HIDE DEF Less
  <2> QED BY <1>1, <1>2, WFMin
<1>4. \E k \in free : \A j \in free : k <= j
  <2>1. \A j \in free : x <= j
    <3> TAKE j \in free
    <3>1. x \in Nat /\ j \in Nat /\ ~ (j < x)
      BY <1>1, <1>3
    <3> QED BY <3>1
  <2> QED BY <2>1
<1> DEFINE k == CHOOSE k \in FreeSlots(f) : \A j \in FreeSlots(f) : k <= j
<1>5. k \in FreeSlots(f)
  BY <1>4
<1>6. Send(f, r) = [f EXCEPT ![k] = r]
  BY DEF Send
<1> HIDE DEF k
<1>7. k \in Slots /\ f[k] = Idle
  BY <1>5 DEF FreeSlots, Flights
<1> QED BY <1>6, <1>7

(* Loads that are none, one and two. *)
LEMMA SentNone ==
  ASSUME NEW f
  PROVE  SendAll(f, <<>>) = f
<1> DEFINE At(g, s) == IF s = {} THEN f ELSE LET x == Max(s) IN Send(g[s \ {x}], <<>>[x])
           iter == CHOOSE g : g = [s \in SUBSET {} |-> At(g, s)]
<1>1. SendAll(f, <<>>) = iter[{}]
  <2>1. DOMAIN <<>> = {}
    OBVIOUS
  <2> QED BY <2>1 DEF SendAll, FoldLeft, MapThenFoldSet
<1>2. iter = [s \in SUBSET {} |-> At(iter, s)]
  <2> DEFINE G == [s \in SUBSET {} |-> f]
  <2>1. G = [s \in SUBSET {} |-> At(G, s)]
    <3>1. \A s \in SUBSET {} : s = {}
      OBVIOUS
    <3>2. \A s \in SUBSET {} : At(G, s) = f
      BY <3>1
    <3> HIDE DEF At
    <3> QED BY <3>2
  <2> HIDE DEF At, G
  <2> QED BY <2>1
<1>3. {} \in SUBSET {}
  OBVIOUS
<1>4. iter[{}] = At(iter, {})
  <2> HIDE DEF iter, At
  <2> QED BY <1>2, <1>3
<1> QED BY <1>1, <1>4

(* Sending a list of one request is sending it. *)
LEMMA SentOne ==
  ASSUME NEW f, NEW r
  PROVE  SendAll(f, <<r>>) = Send(f, r)
<1> DEFINE At(g, s) == IF s = {} THEN f ELSE LET x == Max(s) IN Send(g[s \ {x}], <<r>>[x])
           iter == CHOOSE g : g = [s \in SUBSET {1} |-> At(g, s)]
<1>1. SendAll(f, <<r>>) = iter[{1}]
  <2>1. DOMAIN <<r>> = {1}
    OBVIOUS
  <2> QED BY <2>1 DEF SendAll, FoldLeft, MapThenFoldSet
<1>2. Max({1}) = 1 /\ <<r>>[1] = r /\ {1} \ {1} = {} /\ {1} # {}
  BY DEF Max
<1>3. \A s \in SUBSET {1} : s = {} \/ s = {1}
  OBVIOUS
<1>4. iter = [s \in SUBSET {1} |-> At(iter, s)]
  <2> DEFINE G == [s \in SUBSET {1} |-> IF s = {} THEN f ELSE Send(f, r)]
  <2>1. G[{}] = f /\ G[{1}] = Send(f, r)
    BY <1>2
  <2>2. At(G, {}) = f /\ At(G, {1}) = Send(f, r)
    <3> HIDE DEF G
    <3> QED BY <1>2, <2>1
  <2>3. ASSUME NEW s \in SUBSET {1} PROVE G[s] = At(G, s)
    <3> HIDE DEF G, At
    <3> QED BY <1>3, <2>1, <2>2
  <2>4. G = [s \in SUBSET {1} |-> G[s]]
    OBVIOUS
  <2> HIDE DEF At, G
  <2>5. G = [s \in SUBSET {1} |-> At(G, s)]
    BY <2>3, <2>4
  <2> QED BY <2>5
<1>5. iter[{1}] = At(iter, {1}) /\ iter[{}] = At(iter, {})
  <2> HIDE DEF iter, At
  <2> QED BY <1>4
<1> HIDE DEF iter
<1> QED BY <1>1, <1>2, <1>5

(* Sending a list of two requests is sending the one, then the other. *)
LEMMA SentTwo ==
  ASSUME NEW f, NEW q, NEW r
  PROVE  SendAll(f, <<q, r>>) = Send(Send(f, q), r)
<1> DEFINE At(g, s) == IF s = {} THEN f ELSE LET x == Max(s) IN Send(g[s \ {x}], <<q, r>>[x])
           iter == CHOOSE g : g = [s \in SUBSET {1, 2} |-> At(g, s)]
<1>1. SendAll(f, <<q, r>>) = iter[{1, 2}]
  <2>1. DOMAIN <<q, r>> = {1, 2}
    OBVIOUS
  <2> QED BY <2>1 DEF SendAll, FoldLeft, MapThenFoldSet
<1>2. /\ Max({1}) = 1 /\ Max({2}) = 2 /\ Max({1, 2}) = 2
      /\ <<q, r>>[1] = q /\ <<q, r>>[2] = r
      /\ {1} \ {1} = {} /\ {2} \ {2} = {} /\ {1, 2} \ {2} = {1}
      /\ {1} # {} /\ {2} # {} /\ {1, 2} # {} /\ {1} # {2} /\ {1} # {1, 2} /\ {2} # {1, 2}
  BY DEF Max
<1>3. \A s \in SUBSET {1, 2} : s = {} \/ s = {1} \/ s = {2} \/ s = {1, 2}
  OBVIOUS
<1>4. iter = [s \in SUBSET {1, 2} |-> At(iter, s)]
  <2> DEFINE G == [s \in SUBSET {1, 2} |-> IF s = {} THEN f ELSE IF s = {1} THEN Send(f, q)
                                             ELSE IF s = {2} THEN Send(f, r) ELSE Send(Send(f, q), r)]
  <2>1. G[{}] = f /\ G[{1}] = Send(f, q) /\ G[{2}] = Send(f, r) /\ G[{1, 2}] = Send(Send(f, q), r)
    BY <1>2
  <2>2. /\ At(G, {}) = f /\ At(G, {1}) = Send(f, q) /\ At(G, {2}) = Send(f, r)
        /\ At(G, {1, 2}) = Send(Send(f, q), r)
    <3> HIDE DEF G
    <3> QED BY <1>2, <2>1
  <2>3. ASSUME NEW s \in SUBSET {1, 2} PROVE G[s] = At(G, s)
    <3> HIDE DEF G, At
    <3> QED BY <1>3, <2>1, <2>2
  <2>4. G = [s \in SUBSET {1, 2} |-> G[s]]
    OBVIOUS
  <2> HIDE DEF At, G
  <2>5. G = [s \in SUBSET {1, 2} |-> At(G, s)]
    BY <2>3, <2>4
  <2> QED BY <2>5
<1>5. \A s \in SUBSET {1, 2} : iter[s] = At(iter, s)
  <2> HIDE DEF iter, At
  <2> QED BY <1>4
<1>6. iter[{}] = f
  BY <1>5, <1>3 DEF At
<1>7. iter[{1}] = At(iter, {1}) /\ iter[{1, 2}] = At(iter, {1, 2})
  <2> HIDE DEF iter, At
  <2> QED BY <1>5
<1> HIDE DEF iter
<1> QED BY <1>1, <1>2, <1>6, <1>7

(* The requests R have been sent on top of those of f. *)
Sends(f, g, R) ==
  /\ Flights(g)
  /\ \A i \in Slots : f[i] # Idle => g[i] = f[i]
  /\ \A i \in Slots : f[i] = Idle => g[i] = Idle \/ g[i] \in R
  /\ \A r \in R : \E i \in Slots : f[i] = Idle /\ g[i] = r

(* A request put into a free slot is sent, and nothing else has changed. *)
LEMMA FlightsSent ==
  ASSUME NEW f, Flights(f), NEW k \in Slots, f[k] = Idle, NEW r, IsRequest(r)
  PROVE  Sends(f, [f EXCEPT ![k] = r], {r})
BY IdleIsNone DEF Sends, Flights

(* Send puts its request into a free slot. *)
LEMMA SendSends ==
  ASSUME NEW f, Flights(f), FreeSlots(f) # {}, NEW r, IsRequest(r)
  PROVE  Sends(f, Send(f, r), {r})
<1>1. PICK k \in Slots : f[k] = Idle /\ Send(f, r) = [f EXCEPT ![k] = r]
  BY Sent
<1> QED BY <1>1, FlightsSent

(* As many slots are free as are asked for. *)
LEMMA FreeFinite ==
  ASSUME NEW f, Flights(f)
  PROVE  IsFiniteSet(FreeSlots(f)) /\ Cardinality(FreeSlots(f)) \in Nat
<1>1. FreeSlots(f) \subseteq Slots
  BY DEF FreeSlots, Flights
<1>2. MaxFlight \in Nat
  BY ConsoleAssumption
<1>3. IsFiniteSet(Slots)
  BY <1>2, FS_Interval DEF Slots
<1>4. IsFiniteSet(FreeSlots(f))
  BY <1>1, <1>3, FS_Subset
<1> QED BY <1>4, FS_CardinalityType

(* Where a slot is free there is one to name. *)
LEMMA OneFree ==
  ASSUME NEW f, Flights(f), Cardinality(FreeSlots(f)) >= 1
  PROVE  FreeSlots(f) # {}
BY FS_EmptySet, FreeFinite

(* The numbers of requests a screen sends at once. *)
LEMMA UpToTwo ==
  ASSUME NEW n \in Nat, n =< 2
  PROVE  n \in {0, 1, 2}
OBVIOUS

(* SendAll sends every request of a list of up to two. *)
LEMMA LoadsSent ==
  ASSUME NEW f, Flights(f), NEW S, \A r \in S : IsRequest(r), NEW rs \in Seq(S), Len(rs) =< 2,
         Cardinality(FreeSlots(f)) >= Len(rs)
  PROVE  Sends(f, SendAll(f, rs), ToSet(rs))
<1>1. Len(rs) \in {0, 1, 2}
  <2>1. Len(rs) \in Nat
    BY LenProperties
  <2> QED BY <2>1, UpToTwo
<1>2. CASE Len(rs) = 0
  <2>1. rs = <<>> /\ ToSet(rs) = {}
    BY <1>2 DEF ToSet
  <2> QED BY <2>1, SentNone DEF Sends
<1>3. CASE Len(rs) = 1
  <2>1. rs = <<rs[1]>> /\ ToSet(rs) = {rs[1]} /\ IsRequest(rs[1])
    BY <1>3 DEF ToSet
  <2>2. SendAll(f, rs) = Send(f, rs[1])
    BY <2>1, SentOne
  <2>3. FreeSlots(f) # {}
    BY <1>3, OneFree
  <2> QED BY <2>1, <2>2, <2>3, SendSends
<1>4. CASE Len(rs) = 2
  <2>1. rs = <<rs[1], rs[2]>> /\ ToSet(rs) = {rs[1], rs[2]} /\ IsRequest(rs[1]) /\ IsRequest(rs[2])
    BY <1>4 DEF ToSet
  <2> DEFINE q == rs[1]
             r == rs[2]
             g == Send(f, q)
  <2>2. SendAll(f, rs) = Send(g, r)
    BY <2>1, SentTwo
  <2>3. FreeSlots(f) # {} /\ IsFiniteSet(FreeSlots(f)) /\ Cardinality(FreeSlots(f)) >= 2 /\ Cardinality(FreeSlots(f)) \in Nat
    BY <1>4, OneFree, FreeFinite
  <2>4. PICK k \in Slots : f[k] = Idle /\ g = [f EXCEPT ![k] = q]
    <3>1. FreeSlots(f) # {}
      BY <2>3
    <3> HIDE DEF q
    <3> QED BY <3>1, Sent
  <2>5. Sends(f, g, {q})
    <3>1. IsRequest(q)
      BY <2>1
    <3> HIDE DEF q, g
    <3>2. Sends(f, [f EXCEPT ![k] = q], {q})
      BY <2>4, <3>1, FlightsSent
    <3> QED BY <2>4, <3>2
  <2>6. FreeSlots(g) = FreeSlots(f) \ {k} /\ k \in FreeSlots(f)
    BY <2>1, <2>4, IdleIsNone DEF FreeSlots, Flights
  <2>7. Cardinality(FreeSlots(f) \ {k}) = Cardinality(FreeSlots(f)) - 1
    BY <2>3, <2>6, FS_RemoveElement
  <2>8. Flights(g) /\ FreeSlots(g) # {}
    <3>1. Flights(g)
      BY <2>5 DEF Sends
    <3>2. Cardinality(FreeSlots(g)) >= 1
      BY <2>3, <2>6, <2>7
    <3> QED BY <3>1, <3>2, OneFree
  <2> HIDE DEF g
  <2>9. Sends(g, Send(g, r), {r})
    BY <2>1, <2>8, SendSends
  <2>10. Sends(f, Send(g, r), {q, r})
    <3>1. \A i \in Slots : f[i] # Idle => Send(g, r)[i] = f[i]
      BY <2>5, <2>9 DEF Sends
    <3>2. \A i \in Slots : g[i] = Idle => f[i] = Idle
      BY <2>5 DEF Sends
    <3>3. \A i \in Slots : f[i] = Idle => Send(g, r)[i] = Idle \/ Send(g, r)[i] \in {q, r}
      BY <2>5, <2>9 DEF Sends
    <3>4. \E i \in Slots : f[i] = Idle /\ Send(g, r)[i] = q
      <4>1. g[k] = q /\ g[k] # Idle
        BY <2>1, <2>4, IdleIsNone DEF Flights
      <4> QED BY <2>4, <2>9, <4>1 DEF Sends
    <3>5. \E i \in Slots : f[i] = Idle /\ Send(g, r)[i] = r
      BY <2>9, <3>2 DEF Sends
    <3>6. Flights(Send(g, r))
      BY <2>9 DEF Sends
    <3> QED BY <3>1, <3>3, <3>4, <3>5, <3>6 DEF Sends
  <2> QED BY <2>1, <2>2, <2>10
<1> QED BY <1>1, <1>2, <1>3, <1>4

-----------------------------------------------------------------------------
(* What becomes of a request.                                              *)

(* A request, and what is left of it: fewer wait, or a later one is sent.  *)
Same(r, s) ==
  /\ IsRequest(s)
  /\ s.fn = r.fn /\ s.table = r.table /\ s.row = r.row /\ s.value = r.value
  /\ s.memo = r.memo /\ s.token = r.token /\ s.reply = r.reply

(* A request whose component unmounts loses that owner and nothing else. *)
LEMMA Disowned ==
  ASSUME NEW r, IsRequest(r), NEW parts
  PROVE  LET s == [r EXCEPT !.owner = Without(r, parts)]
         IN Same(r, s) /\ s.latest = r.latest /\ s.owner = r.owner \ parts
BY DEF IsRequest, Same, Without, Fields

(* A superseded request is no longer the latest, and nothing else of it changes. *)
LEMMA Outdated ==
  ASSUME NEW r, IsRequest(r)
  PROVE  LET s == [r EXCEPT !.latest = FALSE]
         IN Same(r, s) /\ s.latest = FALSE /\ s.owner = r.owner
BY DEF IsRequest, Same, Fields

(* A request the server answers has its reply and is otherwise as it was sent. *)
LEMMA Replied ==
  ASSUME NEW r, IsRequest(r), NEW reply, IsReply(reply)
  PROVE  LET s == [r EXCEPT !.reply = reply]
         IN /\ IsRequest(s)
            /\ s.fn = r.fn /\ s.table = r.table /\ s.row = r.row /\ s.value = r.value
            /\ s.memo = r.memo /\ s.token = r.token /\ s.latest = r.latest /\ s.owner = r.owner
            /\ s.reply = reply
BY DEF IsRequest, Fields

(* Whether a request writes does not depend on who waits for it. *)
LEMMA SameWrites ==
  ASSUME NEW r, NEW s, Same(r, s)
  PROVE  Writing(s) <=> Writing(r)
BY DEF Same, Writing

(* Components go. *)
LEMMA Unmounted ==
  ASSUME NEW f, Flights(f), NEW parts
  PROVE  /\ Flights(Unmount(f, parts))
         /\ \A i \in Slots : f[i] = Idle => Unmount(f, parts)[i] = Idle
         /\ \A i \in Slots : f[i] # Idle /\ (f[i].owner \ parts # {} \/ Writing(f[i])) =>
              Unmount(f, parts)[i] # Idle
         /\ \A i \in Slots : Unmount(f, parts)[i] # Idle =>
              /\ f[i] # Idle
              /\ Same(f[i], Unmount(f, parts)[i])
              /\ Unmount(f, parts)[i].latest = f[i].latest
              /\ Unmount(f, parts)[i].owner = f[i].owner \ parts
              /\ Unmount(f, parts)[i].owner = {} => Writing(f[i])
<1> DEFINE U == Unmount(f, parts)
           Gone1(i) == f[i] = Idle \/ (Without(f[i], parts) = {} /\ ~Writing(f[i]))
<1>1. DOMAIN U = Slots /\ \A i \in Slots : U[i] = IF Gone1(i) THEN Idle ELSE [f[i] EXCEPT !.owner = Without(f[i], parts)]
  BY DEF Unmount, Dropped, Flights
<1>2. \A i \in Slots : Without(f[i], parts) = f[i].owner \ parts
  BY DEF Without
<1>3. ASSUME NEW i \in Slots, ~Gone1(i)
      PROVE  /\ Same(f[i], U[i]) /\ U[i].latest = f[i].latest /\ U[i].owner = f[i].owner \ parts
             /\ U[i] # Idle /\ f[i] # Idle
  <2>1. IsRequest(f[i]) /\ U[i] = [f[i] EXCEPT !.owner = Without(f[i], parts)]
    BY <1>1, <1>3 DEF Flights
  <2> HIDE DEF U
  <2>2. Same(f[i], U[i]) /\ U[i].latest = f[i].latest /\ U[i].owner = f[i].owner \ parts
    BY <2>1, Disowned
  <2> QED BY <1>3, <2>2, IdleIsNone DEF Same
<1>4. \A i \in Slots : Gone1(i) => U[i] = Idle
  BY <1>1
<1> HIDE DEF U
<1>5. Flights(U)
  BY <1>1, <1>3, <1>4 DEF Flights, Same
<1> QED BY <1>2, <1>3, <1>4, <1>5 DEF U

(* A later load is sent. *)
LEMMA Superseded ==
  ASSUME NEW f, Flights(f), NEW fns
  PROVE  /\ Flights(Supersede(f, fns))
         /\ \A i \in Slots : f[i] = Idle <=> Supersede(f, fns)[i] = Idle
         /\ \A i \in Slots : f[i] # Idle =>
              /\ Same(f[i], Supersede(f, fns)[i])
              /\ Supersede(f, fns)[i].owner = f[i].owner
              /\ Supersede(f, fns)[i].latest <=> f[i].latest /\ f[i].fn \notin fns
<1> DEFINE U == Supersede(f, fns)
<1>1. DOMAIN U = Slots
      /\ \A i \in Slots : U[i] = IF f[i] # Idle /\ f[i].fn \in fns THEN [f[i] EXCEPT !.latest = FALSE] ELSE f[i]
  BY DEF Supersede, Flights
<1>2. ASSUME NEW i \in Slots, f[i] # Idle
      PROVE  /\ Same(f[i], U[i]) /\ U[i].owner = f[i].owner
             /\ U[i].latest <=> f[i].latest /\ f[i].fn \notin fns
             /\ U[i] # Idle
  <2>1. IsRequest(f[i]) /\ f[i].latest \in BOOLEAN
    BY <1>2 DEF Flights, IsRequest
  <2>2. CASE f[i].fn \in fns
    <3>1. U[i] = [f[i] EXCEPT !.latest = FALSE]
      BY <1>1, <1>2, <2>2
    <3> HIDE DEF U
    <3>2. Same(f[i], U[i]) /\ U[i].latest = FALSE /\ U[i].owner = f[i].owner
      BY <2>1, <3>1, Outdated
    <3> QED BY <2>2, <3>2, IdleIsNone DEF Same
  <2>3. CASE f[i].fn \notin fns
    <3>1. U[i] = f[i]
      BY <1>1, <1>2, <2>3
    <3> HIDE DEF U
    <3> QED BY <1>2, <2>1, <2>3, <3>1 DEF Same
  <2> QED BY <2>2, <2>3
<1>3. \A i \in Slots : f[i] = Idle => U[i] = Idle
  BY <1>1
<1> HIDE DEF U
<1>4. Flights(U)
  BY <1>1, <1>2, <1>3 DEF Flights, Same
<1> QED BY <1>2, <1>3, <1>4 DEF U

(* An answer has been read. *)
LEMMA WasDone ==
  ASSUME Flights(flight), NEW i \in Slots
  PROVE  /\ Flights(Done(i)) /\ Done(i)[i] = Idle
         /\ \A j \in Slots : j # i => Done(i)[j] = flight[j]
         /\ FreeSlots(Done(i)) # {}
BY DEF Done, Flights, FreeSlots

(* From f to g: of the requests all those of the slots "gone" have ended,  *)
(* the components "parts" wait for none any more, loads by fns are not the *)
(* latest, and the requests "new" have been sent.                          *)
Stays(r, s, parts, fns) ==
  /\ Same(r, s)
  /\ s.owner = r.owner \ parts
  /\ s.latest <=> r.latest /\ r.fn \notin fns
Turns(f, g, gone, parts, fns, new) ==
  /\ Flights(g)
  /\ \A i \in Slots : g[i] # Idle =>
       \/ g[i] \in new
       \/ /\ f[i] # Idle /\ i \notin gone /\ Stays(f[i], g[i], parts, fns)
          /\ f[i].owner = {} \/ f[i].owner \ parts # {} \/ Writing(f[i])
  /\ \A i \in Slots \ gone : f[i] # Idle /\ (f[i].owner \ parts # {} \/ Writing(f[i])) =>
       g[i] # Idle /\ Stays(f[i], g[i], parts, fns)
  /\ \A r \in new : \E i \in Slots : g[i] = r

(* Nothing has become of a request. *)
LEMMA StaysAsIs ==
  ASSUME NEW r, IsRequest(r)
  PROVE  Stays(r, r, {}, {})
BY DEF Stays, Same, IsRequest

(* One thing has become of a request after the other. *)
LEMMA StaysOn ==
  ASSUME NEW r, NEW s, NEW t, NEW p, NEW q, NEW fns, NEW fms, Stays(r, s, p, fns), Stays(s, t, q, fms)
  PROVE  Stays(r, t, p \cup q, fns \cup fms)
BY DEF Stays, Same

(* The same of all requests. *)
LEMMA TurnsOn ==
  ASSUME NEW f, NEW g, NEW h, NEW gone, NEW p, NEW q, NEW fns, NEW fms, NEW new,
         Turns(f, g, gone, p, fns, {}), Turns(g, h, {}, q, fms, new)
  PROVE  Turns(f, h, gone, p \cup q, fns \cup fms, new)
<1>1. ASSUME NEW i \in Slots, h[i] # Idle, h[i] \notin new
      PROVE  /\ f[i] # Idle /\ i \notin gone /\ Stays(f[i], h[i], p \cup q, fns \cup fms)
             /\ f[i].owner = {} \/ f[i].owner \ (p \cup q) # {} \/ Writing(f[i])
  <2>1. /\ g[i] # Idle /\ Stays(g[i], h[i], q, fms)
        /\ g[i].owner = {} \/ g[i].owner \ q # {} \/ Writing(g[i])
    BY <1>1 DEF Turns
  <2>2. /\ f[i] # Idle /\ i \notin gone /\ Stays(f[i], g[i], p, fns)
        /\ f[i].owner = {} \/ f[i].owner \ p # {} \/ Writing(f[i])
    BY <2>1 DEF Turns
  <2>3. Writing(g[i]) <=> Writing(f[i])
    BY <2>2, SameWrites DEF Stays
  <2>4. g[i].owner = f[i].owner \ p /\ f[i].owner \ (p \cup q) = (f[i].owner \ p) \ q
    BY <2>2 DEF Stays
  <2>5. f[i].owner = {} \/ f[i].owner \ (p \cup q) # {} \/ Writing(f[i])
    <3>1. CASE g[i].owner = {}
      BY <2>2, <2>4, <3>1
    <3>2. CASE g[i].owner \ q # {}
      BY <2>4, <3>2
    <3>3. CASE Writing(g[i])
      BY <2>3, <3>3
    <3> QED BY <2>1, <3>1, <3>2, <3>3
  <2>6. Stays(f[i], h[i], p \cup q, fns \cup fms)
    BY <2>1, <2>2, StaysOn
  <2> QED BY <2>2, <2>5, <2>6
<1>2. ASSUME NEW i \in Slots \ gone, f[i] # Idle, f[i].owner \ (p \cup q) # {} \/ Writing(f[i])
      PROVE  h[i] # Idle /\ Stays(f[i], h[i], p \cup q, fns \cup fms)
  <2>1. g[i] # Idle /\ Stays(f[i], g[i], p, fns)
    BY <1>2 DEF Turns
  <2>2. Writing(g[i]) <=> Writing(f[i])
    BY <2>1, SameWrites DEF Stays
  <2>3. h[i] # Idle /\ Stays(g[i], h[i], q, fms)
    <3>1. g[i].owner \ q # {} \/ Writing(g[i])
      BY <1>2, <2>1, <2>2 DEF Stays
    <3> QED BY <2>1, <3>1 DEF Turns
  <2> QED BY <2>1, <2>3, StaysOn
<1> QED BY <1>1, <1>2 DEF Turns

(* Nothing has become of them. *)
LEMMA TurnsAsIs ==
  ASSUME NEW f, Flights(f)
  PROVE  Turns(f, f, {}, {}, {}, {})
BY StaysAsIs DEF Turns, Flights

(* Requests are sent. *)
LEMMA SendsTurn ==
  ASSUME NEW f, NEW g, NEW new, Flights(f), Sends(f, g, new)
  PROVE  Turns(f, g, {}, {}, {}, new)
BY StaysAsIs DEF Sends, Turns, Flights

(* Components go. *)
LEMMA UnmountTurns ==
  ASSUME NEW f, Flights(f), NEW parts
  PROVE  Turns(f, Unmount(f, parts), {}, parts, {}, {})
<1> DEFINE g == Unmount(f, parts)
<1>1. Flights(g)
  BY Unmounted
<1>2. ASSUME NEW i \in Slots, g[i] # Idle
      PROVE  f[i] # Idle /\ Stays(f[i], g[i], parts, {}) /\ (f[i].owner \ parts # {} \/ Writing(f[i]))
  <2>1. /\ f[i] # Idle /\ Same(f[i], g[i]) /\ g[i].latest = f[i].latest /\ g[i].owner = f[i].owner \ parts
        /\ g[i].owner = {} => Writing(f[i])
    BY <1>2, Unmounted
  <2>2. f[i].latest \in BOOLEAN /\ g[i].latest \in BOOLEAN
    BY <1>1, <1>2, <2>1 DEF Flights, IsRequest
  <2> HIDE DEF g
  <2> QED BY <2>1, <2>2 DEF Stays
<1>3. \A i \in Slots : f[i] # Idle /\ (f[i].owner \ parts # {} \/ Writing(f[i])) => g[i] # Idle
  BY Unmounted
<1> HIDE DEF g
<1> QED BY <1>1, <1>2, <1>3 DEF Turns, g

(* A later load is sent. *)
LEMMA SupersedeTurns ==
  ASSUME NEW f, Flights(f), NEW fns
  PROVE  Turns(f, Supersede(f, fns), {}, {}, fns, {})
<1> DEFINE g == Supersede(f, fns)
<1>1. Flights(g) /\ \A i \in Slots : f[i] = Idle <=> g[i] = Idle
  BY Superseded
<1>2. ASSUME NEW i \in Slots, f[i] # Idle PROVE Stays(f[i], g[i], {}, fns)
  <2>1. Same(f[i], g[i]) /\ g[i].owner = f[i].owner /\ (g[i].latest <=> f[i].latest /\ f[i].fn \notin fns)
    BY <1>2, Superseded
  <2> HIDE DEF g
  <2> QED BY <2>1 DEF Stays
<1> HIDE DEF g
<1> QED BY <1>1, <1>2 DEF Turns, g

(* An answer is read. *)
LEMMA DoneTurns ==
  ASSUME Flights(flight), NEW i \in Slots
  PROVE  Turns(flight, Done(i), {i}, {}, {}, {})
<1> DEFINE g == Done(i)
<1>1. Flights(g) /\ g[i] = Idle /\ \A j \in Slots : j # i => g[j] = flight[j]
  BY WasDone
<1> HIDE DEF g
<1>2. ASSUME NEW j \in Slots, j # i, flight[j] # Idle
      PROVE  g[j] # Idle /\ Stays(flight[j], g[j], {}, {})
  BY <1>1, <1>2, StaysAsIs DEF Flights
<1>3. \A j \in Slots : flight[j].owner = {} \/ flight[j].owner \ {} # {}
  OBVIOUS
<1>4. \A j \in Slots : g[j] # Idle => j # i
  BY <1>1
<1>5. \A j \in Slots : g[j] # Idle => flight[j] # Idle
  BY <1>1
<1>6. \A j \in Slots : g[j] # Idle =>
        /\ flight[j] # Idle /\ j \notin {i} /\ Stays(flight[j], g[j], {}, {})
        /\ flight[j].owner = {} \/ flight[j].owner \ {} # {} \/ Writing(flight[j])
  BY <1>2, <1>3, <1>4, <1>5
<1>7. \A j \in Slots \ {i} : flight[j] # Idle => g[j] # Idle /\ Stays(flight[j], g[j], {}, {})
  BY <1>2
<1>8. Turns(flight, g, {i}, {}, {}, {})
  BY <1>1, <1>6, <1>7 DEF Turns
<1> QED BY <1>8 DEF g

-----------------------------------------------------------------------------
(* The invariant.                                                          *)

(* Of a switch only on and off are kept. *)
Switches == {1, 2}
DbTyped ==
  /\ DOMAIN db = Table
  /\ \A t \in Table : db[t] \in [RowOf(t) -> Nat]
  /\ \A t \in Table : t[1] = "switches" => \A r \in RowOf(t) : db[t][r] \in {0} \cup Switches

(* What is asked, and what is answered to it. *)
WorkspaceIds == AtFirst["workspaces"]
AskedOf ==
  [listMembers |-> "members", listMemberCandidates |-> "members", replaceMemberRoles |-> "members",
   addMember |-> "members", listAttachedTemplates |-> "templates", attachTemplate |-> "templates",
   detachTemplate |-> "templates", listWorkspaceProviders |-> "switches", setProviderEnabled |-> "switches",
   getGuardrailPolicy |-> "policy", saveGuardrailPolicy |-> "policy"]
TableOf(r) ==
  /\ r.fn \in DOMAIN BusyOf \cup {"listProviders", "checkProviderConnection"} => r.table = Providers
  /\ r.fn \in LibraryWrites \cup {"listTemplateLibrary"} => r.table = Library
  /\ r.fn \in {"listWorkspaces", "createWorkspace", "getWorkspace", "updateWorkspace", "deleteWorkspace"} =>
       r.table = Workspaces
  /\ r.fn \in DOMAIN AskedOf => \E w \in WorkspaceIds : r.table = T(AskedOf[r.fn], w)
ListFns == {"listProviders", "listMembers", "listMemberCandidates", "listTemplateLibrary"} \cup PanelFns
AreSwitches(rows) == \A n \in DOMAIN rows : rows[n][2] \in Switches
Asked(r) ==
  /\ TableOf(r)
  /\ r.fn \in {"getWorkspace", "updateWorkspace"} => r.row \in WorkspaceIds
  /\ r.fn \in {"replaceMemberRoles", "addMember"} => r.memo \in WorkspaceIds
  /\ r.fn = "createWorkspace" => r.memo.total \in Nat
  /\ r.fn = "attachTemplate" => r.memo \in Row
  /\ r.fn = "detachTemplate" => r.memo \in Seq(Row)
  /\ r.fn = "setProviderEnabled" => r.row # 0 /\ r.memo \in Row /\ r.memo[2] \in Switches /\ r.value \in Switches
  /\ r.fn = "saveGuardrailPolicy" => r.row = 1
Replies(r) ==
  r.reply[1] = "ok" =>
    /\ r.fn \in ListFns => r.reply[2] \in Seq(Row)
    /\ r.fn = "listWorkspaceProviders" => AreSwitches(r.reply[2])
    /\ r.fn = "listWorkspaces" => r.reply[2].total \in Nat
    /\ r.fn = "getWorkspace" => r.reply[2] = <<<<r.row, r.reply[2][1][2]>>>> /\ r.reply[2][1][2] \in Nat
    /\ r.fn \in {"updateWorkspace", "saveGuardrailPolicy"} => r.reply[2] = <<r.row, r.value>>

CallsTyped ==
  /\ DbTyped
  /\ Flights(flight)
  /\ \A i \in Slots : flight[i] # Idle => Asked(flight[i]) /\ Replies(flight[i])
  /\ {expired, token, sessions, writes} \subseteq Nat
  /\ strays \subseteq Nat /\ refused \subseteq Nat

(* A session is younger than those that have come to an end. *)
LoggingIn == \E i \in Slots : flight[i].fn = "login"
Given == {token} \cup strays \cup refused \cup {flight[i].token : i \in InFlight}
SessionsOk ==
  /\ ui.at = "login" <=> token = 0
  /\ ui.at = "login" => (ui.busy # {} <=> LoggingIn)
  /\ \A i, j \in Slots : flight[i].fn = "login" /\ flight[j].fn = "login" => i = j
  /\ \A i \in Slots : flight[i].fn = "login" => flight[i].reply # Unauthorized
  /\ \A t \in Given : t <= sessions + 1 /\ (LoggingIn => t <= sessions)
  /\ token # 0 => token \notin refused

Calls == CallsTyped /\ SessionsOk

IsDialog(d, kinds) ==
  /\ d = Dialog(d.kind, d.row)
  /\ d.kind \in kinds \cup {"closed"} /\ d.row \in Nat
  /\ d.kind = "closed" => d.row = 0

ProvidersTyped(u) ==
  /\ DOMAIN u = DOMAIN ProvidersScreen
  /\ u.loading \in BOOLEAN /\ u.failed \in BOOLEAN /\ u.checking \in BOOLEAN
  /\ IsDialog(u.dialog, {"create", "edit", "delete"})
  /\ u.busy \subseteq {"create", "edit", "delete"}
LibraryTyped(u) ==
  /\ DOMAIN u = DOMAIN LibraryScreen
  /\ u.loading \in BOOLEAN /\ u.failed \in BOOLEAN
  /\ IsDialog(u.dialog, {"create", "edit", "delete"})
  /\ u.busy \subseteq {"save", "delete"}
ListTyped(u) ==
  /\ DOMAIN u = DOMAIN ListScreen
  /\ u.loading \in BOOLEAN /\ u.failed \in BOOLEAN
  /\ u.page \in Nat /\ u.total \in Nat
  /\ IsDialog(u.dialog, {"create"})
  /\ u.busy \subseteq {"create"}
IsSettled(u) == u.at = "detail" /\ ~u.loading /\ ~u.failed /\ ~u.gone
DialogTab == [roles |-> "members", addTemplate |-> "templates", deleteWorkspace |-> "settings"]
DetailTyped(u) ==
  /\ DOMAIN u = DOMAIN DetailScreen(0)
  /\ u.loading \in BOOLEAN /\ u.failed \in BOOLEAN /\ u.gone \in BOOLEAN
  /\ u.rosterFailed \in BOOLEAN /\ u.panelFailed \in BOOLEAN
  /\ IsDialog(u.dialog, Dialogs \cup {"deleteWorkspace"})
  /\ u.busy \subseteq {"roles", "addMember", "policy", "rename", "delete"}
  /\ u.tab \in Tabs
  /\ u.id \in WorkspaceIds
  /\ u.panel = NoList \/ u.panel \in Seq(Row)
  /\ u.panel # NoList /\ u.tab = "providers" => AreSwitches(u.panel)
  /\ u.pool = NoList \/ u.pool \in Seq(Row)
  /\ u.dialog.kind = "addTemplate" => u.panel # NoList
  /\ IsSettled(u) => u.rows[1][1] \in WorkspaceIds
  /\ ~IsSettled(u) => u.busy = {} /\ u.busyId = 0
  /\ u.dialog.kind \in DOMAIN DialogTab => IsSettled(u) /\ u.tab = DialogTab[u.dialog.kind]
ScreenTyped(u) ==
  /\ u.at \in {"login", "home", "providers", "library", "list", "detail"}
  /\ u.at = "home" => DOMAIN u = {"at"}
  /\ u.at = "login" => DOMAIN u = {"at", "busy"} /\ u.busy \in {{}, {"login"}}
  /\ u.at = "providers" => ProvidersTyped(u)
  /\ u.at = "library" => LibraryTyped(u)
  /\ u.at = "list" => ListTyped(u)
  /\ u.at = "detail" => DetailTyped(u)

(* Who waits for an answer is there to wait for it. *)
TabWaiter(u, r) ==
  \/ u.tab = "members" /\ r.fn = "replaceMemberRoles"
  \/ u.tab = "templates" /\ r.fn \in {"listAttachedTemplates", "attachTemplate", "detachTemplate"}
  \/ u.tab = "providers" /\ r.fn \in {"listWorkspaceProviders", "setProviderEnabled"}
  \/ u.tab = "guardrails" /\ r.fn \in {"getGuardrailPolicy", "saveGuardrailPolicy"}
  \/ u.tab = "settings" /\ r.fn \in {"updateWorkspace", "deleteWorkspace"}
DialogWaiter(u, r) ==
  \/ u.dialog.kind = "roles" /\ r.fn = "replaceMemberRoles"
  \/ u.dialog.kind = "addMember" /\ r.fn \in {"listMemberCandidates", "addMember"}
  \/ u.dialog.kind = "addTemplate" /\ r.fn \in {"listTemplateLibrary", "attachTemplate"}
Waiter(u, r) ==
  /\ r.owner = {} => Writing(r)
  /\ u.at = "home" => r.owner = {}
  /\ u.at = "login" => r.owner = {} \/ r.fn = "login"
  /\ u.at = "providers" =>
       /\ "tab" \notin r.owner
       /\ "screen" \in r.owner => r.fn \in {"listProviders"} \cup DOMAIN BusyOf
       /\ "dialog" \in r.owner => r.fn = "checkProviderConnection"
  /\ u.at = "library" =>
       /\ "tab" \notin r.owner
       /\ "screen" \in r.owner => r.fn \in {"listTemplateLibrary"} \cup LibraryWrites
       /\ "dialog" \in r.owner => r.fn \in {"createTemplate", "updateTemplate"}
  /\ u.at = "list" =>
       /\ "tab" \notin r.owner /\ "dialog" \notin r.owner
       /\ "screen" \in r.owner => r.fn \in {"listWorkspaces", "createWorkspace"}
  /\ u.at = "detail" =>
       /\ "screen" \in r.owner =>
            r.fn \in {"getWorkspace", "listMembers", "replaceMemberRoles", "addMember", "updateWorkspace",
                      "deleteWorkspace"}
       /\ "tab" \in r.owner => r.fn = "listMembers" \/ (IsSettled(u) /\ TabWaiter(u, r))
       /\ "dialog" \in r.owner => IsSettled(u) /\ DialogWaiter(u, r)
Waiters(u, f) == \A i \in Slots : f[i] # Idle => Waiter(u, f[i])

(* Whoever waits, what is waited for is on its way. *)
Coming(f, fns, part) == \E i \in Slots : f[i] # Idle /\ f[i].fn \in fns /\ part \in f[i].owner
ComingLast(f, fn) == \E i \in Slots : f[i] # Idle /\ f[i].fn = fn /\ "screen" \in f[i].owner /\ f[i].latest
ComingFor(f, fns, parts) == \E i \in Slots : f[i] # Idle /\ f[i].fn \in fns /\ parts \subseteq f[i].owner
ProvidersWait(u, f) ==
  u.at = "providers" =>
    /\ u.loading => Coming(f, {"listProviders"}, "screen")
    /\ \A b \in u.busy : Coming(f, {fn \in DOMAIN BusyOf : BusyOf[fn] = b}, "screen")
    /\ u.checking => Coming(f, {"checkProviderConnection"}, "dialog")
LibraryWait(u, f) ==
  u.at = "library" =>
    /\ u.loading => ComingLast(f, "listTemplateLibrary")
    /\ "save" \in u.busy => ComingFor(f, {"createTemplate", "updateTemplate"}, {"screen", "dialog"})
    /\ "delete" \in u.busy => Coming(f, {"deleteTemplate"}, "screen")
ListWait(u, f) ==
  u.at = "list" =>
    /\ u.loading => ComingLast(f, "listWorkspaces")
    /\ u.busy # {} => Coming(f, {"createWorkspace"}, "screen")
RolesComing(f) ==
  \E i \in Slots :
    /\ f[i] # Idle
    /\ \/ f[i].fn = "replaceMemberRoles" /\ {"screen", "tab", "dialog"} \subseteq f[i].owner
       \/ f[i].fn = "listMembers" /\ {"screen", "tab"} \subseteq f[i].owner /\ f[i].memo = "roles"
AddComing(f) == ComingFor(f, {"addMember"}, {"screen", "dialog"})
AttachComing(f) == ComingFor(f, {"attachTemplate"}, {"tab", "dialog"})
OneDelete(f) ==
  \A i, j \in Slots :
    f[i].fn = "deleteWorkspace" /\ "tab" \in f[i].owner /\ f[j].fn = "deleteWorkspace" /\ "tab" \in f[j].owner => i = j
RosterWait(u, f) == u.roster = NoList /\ ~u.rosterFailed => ComingLast(f, "listMembers")
BusyWait(u, f) ==
  /\ "roles" \in u.busy => RolesComing(f) /\ u.dialog.kind = "roles"
  /\ "addMember" \in u.busy => AddComing(f) /\ u.dialog.kind = "addMember"
  /\ "policy" \in u.busy => Coming(f, {"saveGuardrailPolicy"}, "tab")
  /\ "rename" \in u.busy => Coming(f, {"updateWorkspace"}, "tab")
  /\ "delete" \in u.busy => Coming(f, {"deleteWorkspace"}, "tab")
  /\ u.busyId # 0 => AttachComing(f) \/ Coming(f, {"setProviderEnabled"}, "tab")
PanelWait(u, f) ==
  /\ IsSettled(u) /\ u.tab \in DOMAIN PanelTable /\ u.panel = NoList /\ ~u.panelFailed => Coming(f, PanelFns, "tab")
  /\ u.tab = "templates" /\ u.panel = NoList => ~Coming(f, TabWrites, "tab")
PoolWait(u, f) ==
  /\ IsSettled(u) /\ u.dialog.kind \in {"addMember", "addTemplate"} /\ u.pool = NoList =>
       Coming(f, {"listMemberCandidates", "listTemplateLibrary"}, "dialog")
  /\ Coming(f, {"deleteWorkspace"}, "tab") => u.dialog.kind = "deleteWorkspace" /\ "delete" \in u.busy
  /\ OneDelete(f)
DetailWait(u, f) ==
  u.at = "detail" =>
    /\ u.loading => ComingLast(f, "getWorkspace")
    /\ RosterWait(u, f) /\ BusyWait(u, f) /\ PanelWait(u, f) /\ PoolWait(u, f)

Waits(u, f) == ProvidersWait(u, f) /\ LibraryWait(u, f) /\ ListWait(u, f) /\ DetailWait(u, f)
Screen(u, f) == ScreenTyped(u) /\ Waiters(u, f) /\ Waits(u, f)
Inv == Calls /\ Screen(ui, flight)

-----------------------------------------------------------------------------
(* Steps and what is in flight.                                            *)

(* A listing of rows is never NoList, what stands for none. *)
LEMMA NoListIsNone == \A rows \in Seq(Row) : rows # NoList
BY DEF NoList, Row

(* What is in flight is in a slot. *)
LEMMA InSlots ==
  ASSUME Flights(flight)
  PROVE  InFlight = {i \in Slots : flight[i] # Idle} /\ DOMAIN flight = Slots
BY DEF InFlight, Flights

(* A step with which the session stays leaves the calls in order. *)
LEMMA CallsGoOn ==
  ASSUME Calls, Waiters(ui, flight), NEW gone, NEW parts, NEW fns, NEW new,
         Turns(flight, flight', gone, parts, fns, new),
         \A r \in new : r.fn # "login" /\ r.token = token /\ r.reply = Pending /\ Asked(r),
         ui'.at = "login" <=> ui.at = "login",
         ui.at = "login" => ui' = ui /\ parts = {} /\ \A j \in gone : flight[j].fn # "login",
         UNCHANGED <<db, expired, token, refused, sessions>>, writes' \in Nat, strays' \subseteq Given
  PROVE  Calls'
<1>1. Flights(flight) /\ Flights(flight')
  BY DEF Calls, CallsTyped, Turns
<1>2. \A i \in Slots : flight'[i] # Idle =>
        \/ flight'[i] \in new
        \/ i \notin gone /\ flight[i] # Idle /\ Same(flight[i], flight'[i])
  BY DEF Turns, Stays
<1>3. \A i \in Slots : flight'[i].fn = "login" => flight[i] # Idle /\ Same(flight[i], flight'[i])
  BY <1>2, IdleIsNone
<1>4. ASSUME ui.at = "login", NEW i \in Slots, flight[i].fn = "login" PROVE flight'[i].fn = "login"
  <2>1. flight[i] # Idle /\ i \notin gone /\ flight[i].owner # {}
    BY <1>4, IdleIsNone DEF Waiters, Waiter, Writing, Verb
  <2>2. flight[i].owner \ parts # {}
    BY <1>4, <2>1
  <2> QED BY <1>4, <2>1, <2>2 DEF Turns, Stays, Same
<1>5. \A t \in Given' : t \in Given
  <2> SUFFICES ASSUME NEW t \in Given' PROVE t \in Given
    OBVIOUS
  <2>1. CASE t \in {token'} \cup strays' \cup refused'
    BY <2>1 DEF Given
  <2>2. CASE \E i \in Slots : flight'[i] # Idle /\ t = flight'[i].token
    <3>1. PICK i \in Slots : flight'[i] # Idle /\ t = flight'[i].token
      BY <2>2
    <3>2. CASE flight'[i] \in new
      BY <3>1, <3>2 DEF Given
    <3>3. CASE flight[i] # Idle /\ Same(flight[i], flight'[i])
      <4>1. i \in InFlight /\ t = flight[i].token
        BY <1>1, <3>1, <3>3, InSlots DEF Same
      <4> QED BY <4>1 DEF Given
    <3> QED BY <1>2, <3>1, <3>2, <3>3
  <2>3. t \in {token'} \cup strays' \cup refused' \/ \E i \in Slots : flight'[i] # Idle /\ t = flight'[i].token
    BY <1>1 DEF Given, InFlight, Flights
  <2> QED BY <2>1, <2>2, <2>3
<1>6. CallsTyped'
  <2>1. \A i \in Slots : flight'[i] # Idle => Asked(flight'[i]) /\ Replies(flight'[i])
    <3> SUFFICES ASSUME NEW i \in Slots, flight'[i] # Idle PROVE Asked(flight'[i]) /\ Replies(flight'[i])
      OBVIOUS
    <3>1. CASE flight'[i] \in new
      BY <3>1 DEF Replies, Pending
    <3>2. CASE flight[i] # Idle /\ Same(flight[i], flight'[i])
      <4>1. Asked(flight[i]) /\ Replies(flight[i])
        BY <3>2 DEF Calls, CallsTyped
      <4>2. Asked(flight'[i])
        BY <3>2, <4>1 DEF Same, Asked, TableOf
      <4>3. Replies(flight'[i])
        BY <3>2, <4>1 DEF Same, Replies
      <4> QED BY <4>2, <4>3
    <3> QED BY <1>2, <3>1, <3>2
  <2>2. \A t \in Given : t \in Nat
    BY <1>1, IdleIsNone DEF Given, Calls, CallsTyped, Flights, IsRequest, InFlight
  <2>3. DbTyped'
    BY DEF Calls, CallsTyped, DbTyped
  <2>4. {expired', token', sessions', writes'} \subseteq Nat /\ strays' \subseteq Nat /\ refused' \subseteq Nat
    BY <2>2 DEF Calls, CallsTyped
  <2> QED BY <1>1, <2>1, <2>3, <2>4 DEF CallsTyped
<1>7. LoggingIn' => LoggingIn
  BY <1>3 DEF LoggingIn, Same
<1>8. ui.at = "login" => (LoggingIn => LoggingIn')
  BY <1>4 DEF LoggingIn
<1>9. SessionsOk'
  <2>1. \A i, j \in Slots : flight'[i].fn = "login" /\ flight'[j].fn = "login" => i = j
    BY <1>3 DEF Calls, SessionsOk, Same
  <2>2. \A i \in Slots : flight'[i].fn = "login" => flight'[i].reply # Unauthorized
    BY <1>3 DEF Calls, SessionsOk, Same
  <2>3. \A t \in Given' : t <= sessions' + 1 /\ (LoggingIn' => t <= sessions')
    BY <1>5, <1>7 DEF Calls, SessionsOk
  <2>4. ui'.at = "login" <=> token' = 0
    BY DEF Calls, SessionsOk
  <2>5. ui'.at = "login" => (ui'.busy # {} <=> LoggingIn')
    BY <1>7, <1>8 DEF Calls, SessionsOk
  <2>6. token' # 0 => token' \notin refused'
    BY DEF Calls, SessionsOk
  <2> QED BY <2>1, <2>2, <2>3, <2>4, <2>5, <2>6 DEF SessionsOk
<1> QED BY <1>6, <1>9 DEF Calls

(* Who still waits is still there. *)
LEMMA WaitersGoOn ==
  ASSUME NEW u, NEW v, NEW f, NEW g, NEW gone, NEW parts, NEW fns, NEW new,
         Waiters(u, f), Turns(f, g, gone, parts, fns, new),
         \A r \in new : Waiter(v, r),
         \/ Parts \subseteq parts
         \/ /\ v.at = u.at
            /\ u.at = "detail" =>
                 /\ "tab" \in parts \/ (IsSettled(u) => IsSettled(v) /\ v.tab = u.tab)
                 /\ \/ "dialog" \in parts \/ u.dialog.kind = "closed"
                    \/ IsSettled(u) => IsSettled(v) /\ v.dialog.kind = u.dialog.kind
  PROVE  Waiters(v, g)
<1> SUFFICES ASSUME NEW i \in Slots, g[i] # Idle, g[i] \notin new PROVE Waiter(v, g[i])
  BY DEF Waiters
<1> DEFINE r == f[i]
           s == g[i]
<1>1. /\ r # Idle /\ Stays(r, s, parts, fns) /\ Waiter(u, r)
      /\ r.owner = {} \/ r.owner \ parts # {} \/ Writing(r)
  BY DEF Turns, Waiters
<1>2. s.fn = r.fn /\ s.owner = r.owner \ parts /\ (Writing(s) <=> Writing(r)) /\ IsRequest(s)
  BY <1>1, SameWrites DEF Stays, Same
<1> HIDE DEF r, s
<1>3. s.owner = {} => Writing(s)
  BY <1>1, <1>2 DEF Waiter
<1>4. CASE Parts \subseteq parts
  <2>1. s.owner \subseteq Parts
    BY <1>2 DEF IsRequest
  <2>2. s.owner = {}
    BY <1>2, <1>4, <2>1
  <2> QED BY <1>3, <2>2 DEF Waiter, s
<1>5. CASE v.at = u.at /\ u.at # "detail"
  <2>1. Waiter(v, s)
    BY <1>1, <1>2, <1>3, <1>5 DEF Waiter
  <2> QED BY <2>1 DEF s
<1>6. CASE /\ v.at = u.at /\ u.at = "detail"
           /\ "tab" \in parts \/ (IsSettled(u) => IsSettled(v) /\ v.tab = u.tab)
           /\ \/ "dialog" \in parts \/ u.dialog.kind = "closed"
              \/ IsSettled(u) => IsSettled(v) /\ v.dialog.kind = u.dialog.kind
  <2>1. "screen" \in s.owner =>
          s.fn \in {"getWorkspace", "listMembers", "replaceMemberRoles", "addMember", "updateWorkspace", "deleteWorkspace"}
    BY <1>1, <1>2, <1>6 DEF Waiter
  <2>2. "tab" \in s.owner => s.fn = "listMembers" \/ (IsSettled(v) /\ TabWaiter(v, s))
    BY <1>1, <1>2, <1>6 DEF Waiter, TabWaiter
  <2>3. "dialog" \in s.owner => IsSettled(v) /\ DialogWaiter(v, s)
    BY <1>1, <1>2, <1>6 DEF Waiter, DialogWaiter
  <2>4. Waiter(v, s)
    BY <1>3, <1>6, <2>1, <2>2, <2>3 DEF Waiter
  <2> QED BY <2>4 DEF s
<1> QED BY <1>4, <1>5, <1>6

(* What is on its way stays on it. *)
LEMMA ComingOn ==
  ASSUME NEW f, NEW g, NEW gone, NEW parts, NEW fns, NEW new, Turns(f, g, gone, parts, fns, new),
         NEW S, NEW part, part \notin parts, \A i \in gone : ~(f[i].fn \in S /\ part \in f[i].owner),
         Coming(f, S, part)
  PROVE  Coming(g, S, part)
<1>1. PICK i \in Slots : f[i] # Idle /\ f[i].fn \in S /\ part \in f[i].owner
  BY DEF Coming
<1>2. i \notin gone /\ f[i].owner \ parts # {}
  BY <1>1
<1>3. g[i] # Idle /\ g[i].fn = f[i].fn /\ g[i].owner = f[i].owner \ parts
  BY <1>1, <1>2 DEF Turns, Stays, Same
<1> QED BY <1>1, <1>3 DEF Coming

(* So does the latest load. *)
LEMMA ComingLastOn ==
  ASSUME NEW f, NEW g, NEW gone, NEW parts, NEW fns, NEW new, Turns(f, g, gone, parts, fns, new),
         NEW fn, fn \notin fns, "screen" \notin parts, \A i \in gone : ~(f[i].fn = fn /\ f[i].latest),
         ComingLast(f, fn)
  PROVE  ComingLast(g, fn)
<1>1. PICK i \in Slots : f[i] # Idle /\ f[i].fn = fn /\ "screen" \in f[i].owner /\ f[i].latest
  BY DEF ComingLast
<1>2. i \notin gone /\ f[i].owner \ parts # {}
  BY <1>1
<1>3. g[i] # Idle /\ g[i].fn = f[i].fn /\ g[i].owner = f[i].owner \ parts /\ g[i].latest
  BY <1>1, <1>2 DEF Turns, Stays, Same
<1> QED BY <1>1, <1>3 DEF ComingLast

(* And what several components wait for. *)
LEMMA RolesOn ==
  ASSUME NEW f, NEW g, NEW gone, NEW parts, NEW fns, NEW new, Turns(f, g, gone, parts, fns, new),
         parts = {}, RolesComing(f),
         \A i \in gone :
           /\ f[i].fn = "replaceMemberRoles" => ~({"screen", "tab", "dialog"} \subseteq f[i].owner)
           /\ f[i].fn = "listMembers" => ~({"screen", "tab"} \subseteq f[i].owner /\ f[i].memo = "roles")
  PROVE  RolesComing(g)
<1>1. PICK i \in Slots :
        /\ f[i] # Idle
        /\ \/ f[i].fn = "replaceMemberRoles" /\ {"screen", "tab", "dialog"} \subseteq f[i].owner
           \/ f[i].fn = "listMembers" /\ {"screen", "tab"} \subseteq f[i].owner /\ f[i].memo = "roles"
  BY DEF RolesComing
<1>2. i \notin gone /\ f[i].owner \ parts # {}
  BY <1>1
<1>3. g[i] # Idle /\ g[i].fn = f[i].fn /\ g[i].owner = f[i].owner \ parts /\ g[i].memo = f[i].memo
  BY <1>1, <1>2 DEF Turns, Stays, Same
<1> QED BY <1>1, <1>3 DEF RolesComing

(* What all of some components wait for stays on its way through a step that leaves these mounted. *)
LEMMA ComingForOn ==
  ASSUME NEW f, NEW g, NEW gone, NEW parts, NEW fns, NEW new, Turns(f, g, gone, parts, fns, new),
         NEW S, NEW all, all # {}, parts \cap all = {}, \A i \in gone : ~(f[i].fn \in S /\ all \subseteq f[i].owner),
         ComingFor(f, S, all)
  PROVE  ComingFor(g, S, all)
<1>1. PICK i \in Slots : f[i] # Idle /\ f[i].fn \in S /\ all \subseteq f[i].owner
  BY DEF ComingFor
<1>2. i \notin gone /\ f[i].owner \ parts # {}
  BY <1>1
<1>3. g[i] # Idle /\ g[i].fn = f[i].fn /\ g[i].owner = f[i].owner \ parts
  BY <1>1, <1>2 DEF Turns, Stays, Same
<1> QED BY <1>1, <1>3 DEF ComingFor

(* A workspace is not deleted twice. *)
LEMMA OneDeleteOn ==
  ASSUME NEW f, NEW g, NEW gone, NEW parts, NEW fns, NEW new, Turns(f, g, gone, parts, fns, new), OneDelete(f),
         \A r \in new : ~(r.fn = "deleteWorkspace" /\ "tab" \in r.owner)
  PROVE  OneDelete(g)
<1>1. ASSUME NEW i \in Slots, g[i].fn = "deleteWorkspace", "tab" \in g[i].owner
      PROVE  f[i].fn = "deleteWorkspace" /\ "tab" \in f[i].owner
  <2>1. g[i] # Idle
    BY <1>1, IdleIsNone
  <2>2. g[i].fn = f[i].fn /\ g[i].owner = f[i].owner \ parts
    BY <1>1, <2>1 DEF Turns, Stays, Same
  <2> QED BY <1>1, <2>2
<1> QED BY <1>1 DEF OneDelete

(* Nothing else comes but what is sent. *)
LEMMA ComingBefore ==
  ASSUME NEW f, NEW g, NEW gone, NEW parts, NEW fns, NEW new, Turns(f, g, gone, parts, fns, new),
         NEW S, NEW part, Coming(g, S, part), \A r \in new : ~(r.fn \in S /\ part \in r.owner)
  PROVE  part \notin parts /\ Coming(f, S, part)
<1>1. PICK i \in Slots : g[i] # Idle /\ g[i].fn \in S /\ part \in g[i].owner
  BY DEF Coming
<1>2. f[i] # Idle /\ f[i].fn = g[i].fn /\ g[i].owner = f[i].owner \ parts
  BY <1>1 DEF Turns, Stays, Same
<1> QED BY <1>1, <1>2 DEF Coming

(* What is sent comes. *)
LEMMA NewComes ==
  ASSUME NEW f, NEW g, NEW gone, NEW parts, NEW fns, NEW new, Turns(f, g, gone, parts, fns, new),
         NEW r \in new, IsRequest(r)
  PROVE  /\ \A S, part : r.fn \in S /\ part \in r.owner => Coming(g, S, part)
         /\ \A S, all : r.fn \in S /\ all \subseteq r.owner => ComingFor(g, S, all)
         /\ "screen" \in r.owner /\ r.latest => ComingLast(g, r.fn)
BY IdleIsNone DEF Turns, Coming, ComingFor, ComingLast

-----------------------------------------------------------------------------
(* The server.                                                             *)

(* The ids of a table are the numbers up to one. *)
LEMMA RowsOfTable ==
  ASSUME NEW t \in Table
  PROVE  \E n \in Nat : RowOf(t) = 1 .. n
<1>1. t[1] \in Kinds
  BY DEF Table, Kinds, Providers, Library, Workspaces, T
<1>2. IsFiniteSet(Id[t[1]]) /\ Id[t[1]] = 1 .. Cardinality(Id[t[1]])
  BY <1>1, ConsoleAssumption
<1>3. Cardinality(Id[t[1]]) \in Nat
  BY <1>2, FS_CardinalityType
<1> QED BY <1>2, <1>3 DEF RowOf

(* What is joined to a table is content too. *)
LEMMA ContentTyped ==
  ASSUME DbTyped, NEW t \in Table
  PROVE  /\ Content(t) \in [RowOf(t) -> Nat]
         /\ t[1] = "switches" => \A r \in RowOf(t) : Content(t)[r] \in {0} \cup Switches
<1>1. Providers \in Table /\ Library \in Table
  BY DEF Table
<1>2. CASE t[1] = "switches"
  <2>1. Content(t) = [r \in RowOf(t) |-> IF db[Providers][r] = 0 THEN 0 ELSE IF db[t][r] = 0 THEN 2 ELSE db[t][r]]
    BY <1>2 DEF Content
  <2>2. \A r \in RowOf(t) : db[t][r] \in {0} \cup Switches
    BY <1>2 DEF DbTyped
  <2> QED BY <2>1, <2>2 DEF Switches
<1>3. CASE t[1] = "templates"
  <2>1. Content(t) = [r \in RowOf(t) |-> IF db[t][r] = 0 THEN 0 ELSE db[Library][r]]
    BY <1>3 DEF Content
  <2>2. RowOf(t) = RowOf(Library)
    BY <1>3, ConsoleAssumption DEF RowOf, Library, T
  <2>3. \A r \in RowOf(t) : db[Library][r] \in Nat
    BY <1>1, <2>2 DEF DbTyped
  <2> QED BY <1>3, <2>1, <2>3
<1>4. CASE t[1] \notin {"switches", "templates"}
  <2>1. Content(t) = db[t]
    BY <1>4 DEF Content
  <2> QED BY <1>4, <2>1 DEF DbTyped
<1> QED BY <1>2, <1>3, <1>4

(* A listing fits what is there. *)
LEMMA ListingFits ==
  ASSUME DbTyped, NEW t \in Table
  PROVE  Fits(Listing(t), Content(t))
<1>1. PICK n \in Nat : RowOf(t) = 1 .. n
  BY RowsOfTable
<1>2. Content(t) \in [1 .. n -> Nat]
  BY <1>1, ContentTyped
<1>3. Fits(Rows(Content(t)), Content(t))
  BY <1>2, RowsFit
<1> QED BY <1>3 DEF Listing

(* That of the switches has switches. *)
LEMMA SwitchesListed ==
  ASSUME DbTyped, NEW t \in Table, t[1] = "switches"
  PROVE  AreSwitches(Listing(t))
<1>1. Fits(Listing(t), Content(t))
  BY ListingFits
<1>2. DOMAIN Content(t) = RowOf(t) /\ \A r \in RowOf(t) : Content(t)[r] \in {0} \cup Switches
  BY ContentTyped
<1> DEFINE rows == Listing(t)
<1>3. SUFFICES ASSUME NEW n \in DOMAIN rows PROVE rows[n][2] \in Switches
  BY DEF AreSwitches
<1> HIDE DEF rows
<1>4. rows \in Seq(Row) /\ rows[n] \in Row
  BY <1>1 DEF Fits, rows
<1>5. PICK x \in Nat, c \in Nat : rows[n] = <<x, c>>
  BY <1>4 DEF Row
<1>6. x \in DOMAIN Content(t)
  BY <1>1, <1>5 DEF Fits, RowsOf, rows
<1>7. Agrees(rows, Content(t), x) /\ <<x, c>> \in ToSet(rows)
  BY <1>1, <1>5, <1>6 DEF Fits, rows, ToSet
<1>8. c # 0 /\ Content(t)[x] = c
  BY <1>7 DEF Agrees
<1> QED BY <1>2, <1>5, <1>6, <1>8

(* So does the list of who can be added. *)
LEMMA CandidatesFit ==
  ASSUME DbTyped, NEW t \in Table
  PROVE  Candidates(t) \in Seq(Row)
<1>1. PICK n \in Nat : RowOf(t) = 1 .. n
  BY RowsOfTable
<1>2. [r \in RowOf(t) |-> IF db[t][r] = 0 THEN 1 ELSE 0] \in [1 .. n -> Nat]
  BY <1>1
<1>3. Fits(Candidates(t), [r \in RowOf(t) |-> IF db[t][r] = 0 THEN 1 ELSE 0])
  BY <1>2, RowsFit DEF Candidates
<1> QED BY <1>3 DEF Fits

(* Requests are for tables that there are. *)
LEMMA AskedTable ==
  ASSUME NEW r, IsRequest(r), Asked(r), r.fn # "login"
  PROVE  /\ r.table \in Table
         /\ r.table[1] = "switches" <=> r.fn \in {"listWorkspaceProviders", "setProviderEnabled"}
BY DEF IsRequest, Asked, TableOf, Table, AskedOf, T, Providers, Library, Workspaces, BusyOf, LibraryWrites, Verb

(* What is answered is what such a request expects. *)
LEMMA BodyExpected ==
  ASSUME DbTyped, NEW r, IsRequest(r), Asked(r), NEW s, s.fn = r.fn, s.row = r.row, s.value = r.value, s.reply = OK(Body(r))
  PROVE  Replies(s)
<1> DEFINE b == Body(r)
<1>1. s.reply[2] = b
  BY DEF OK
<1>2. ASSUME r.fn \in ListFns PROVE b \in Seq(Row) /\ (r.fn = "listWorkspaceProviders" => AreSwitches(b))
  <2>1. r.table \in Table /\ (r.table[1] = "switches" <=> r.fn = "listWorkspaceProviders")
    BY <1>2, AskedTable DEF ListFns, PanelFns
  <2>2. CASE r.fn = "listMemberCandidates"
    <3>1. b = Candidates(r.table)
      BY <2>2 DEF Body
    <3> QED BY <2>1, <2>2, <3>1, CandidatesFit
  <2>3. CASE r.fn # "listMemberCandidates"
    <3>1. b = Listing(r.table)
      BY <1>2, <2>3 DEF Body, ListFns, PanelFns, Verb
    <3>2. b \in Seq(Row)
      BY <2>1, <3>1, ListingFits DEF Fits
    <3> QED BY <2>1, <3>1, <3>2, SwitchesListed
  <2> QED BY <2>2, <2>3
<1>3. ASSUME r.fn = "listWorkspaces" PROVE b.total \in Nat
  <2>1. Workspaces \in Table
    BY DEF Table
  <2>2. Listing(Workspaces) \in Seq(Row)
    BY <2>1, ListingFits DEF Fits
  <2>3. b.total = Len(Listing(Workspaces))
    BY <1>3 DEF Body, PageOf
  <2> QED BY <2>2, <2>3
<1>4. ASSUME r.fn = "getWorkspace" PROVE b = <<<<r.row, b[1][2]>>>> /\ b[1][2] \in Nat
  <2>1. b = <<<<r.row, db[Workspaces][r.row]>>>>
    BY <1>4 DEF Body
  <2>2. r.row \in RowOf(Workspaces) /\ Workspaces \in Table
    BY <1>4, ConsoleAssumption DEF Asked, WorkspaceIds, RowOf, Workspaces, T, Table, Kinds
  <2>3. db[Workspaces][r.row] \in Nat
    BY <2>2 DEF DbTyped
  <2> QED BY <2>1, <2>3
<1>5. ASSUME r.fn \in {"updateWorkspace", "saveGuardrailPolicy"} PROVE b = <<r.row, r.value>>
  BY <1>5 DEF Body, Target, Verb
<1> HIDE DEF b
<1>6. s.fn \in ListFns => s.reply[2] \in Seq(Row)
  BY <1>1, <1>2
<1>7. s.fn = "listWorkspaceProviders" => AreSwitches(s.reply[2])
  BY <1>1, <1>2 DEF ListFns, PanelFns
<1>8. s.fn = "listWorkspaces" => s.reply[2].total \in Nat
  BY <1>1, <1>3
<1>9. s.fn = "getWorkspace" => s.reply[2] = <<<<s.row, s.reply[2][1][2]>>>> /\ s.reply[2][1][2] \in Nat
  BY <1>1, <1>4
<1>10. s.fn \in {"updateWorkspace", "saveGuardrailPolicy"} => s.reply[2] = <<s.row, s.value>>
  BY <1>1, <1>5
<1> QED BY <1>6, <1>7, <1>8, <1>9, <1>10 DEF Replies

(* Other answers have no body. *)
LEMMA NoBody ==
  ASSUME NEW s, s.reply \in {Error, NotFound, Lost, Unauthorized}
  PROVE  Replies(s)
BY DEF Replies, Error, NotFound, Lost, Unauthorized

(* What a write leaves in the tables. *)
LEMMA AfterTyped ==
  ASSUME DbTyped, NEW r, IsRequest(r), Asked(r), r.fn # "login", db' = After(r)
  PROVE  DbTyped'
<1>1. CASE ~Writing(r)
  BY <1>1 DEF After, DbTyped
<1>2. CASE Writing(r)
  <2> DEFINE t == r.table
             x == Target(r)
             c == IF Verb[r.fn] = "delete" THEN 0 ELSE r.value
  <2>1. t \in Table /\ (t[1] = "switches" => r.fn = "setProviderEnabled")
    BY <1>2, AskedTable DEF Writing, Verb
  <2>2. db' = [db EXCEPT ![t][x] = c]
    BY <1>2 DEF After
  <2>3. c \in Nat /\ (t[1] = "switches" => c \in {0} \cup Switches)
    BY <2>1 DEF IsRequest, Asked
  <2> HIDE DEF t, x, c
  <2>4. DOMAIN db' = Table /\ \A k \in Table : k # t => db'[k] = db[k]
    BY <2>2 DEF DbTyped
  <2>5. db'[t] = [db[t] EXCEPT ![x] = c]
    BY <2>1, <2>2 DEF DbTyped
  <2>6. db'[t] \in [RowOf(t) -> Nat]
    BY <2>1, <2>3, <2>5 DEF DbTyped
  <2>7. t[1] = "switches" => \A k \in RowOf(t) : db'[t][k] \in {0} \cup Switches
    <3> SUFFICES ASSUME t[1] = "switches", NEW k \in RowOf(t) PROVE db'[t][k] \in {0} \cup Switches
      OBVIOUS
    <3>1. db[t] \in [RowOf(t) -> Nat] /\ db[t][k] \in {0} \cup Switches
      BY <2>1 DEF DbTyped
    <3>2. db'[t][k] = c \/ db'[t][k] = db[t][k]
      BY <2>5, <3>1
    <3> QED BY <2>3, <3>1, <3>2
  <2> QED BY <2>1, <2>4, <2>6, <2>7 DEF DbTyped
<1> QED BY <1>1, <1>2

(* The same requests, however they are answered, are waited for alike. *)
Alike(f, g) ==
  \A i \in Slots :
    /\ f[i] = Idle <=> g[i] = Idle
    /\ f[i] # Idle =>
         g[i].fn = f[i].fn /\ g[i].owner = f[i].owner /\ g[i].latest = f[i].latest /\ g[i].memo = f[i].memo

(* A screen is as it should be whatever the replies of the requests in flight. *)
LEMMA ScreenAlike ==
  ASSUME NEW u, NEW f, NEW g, Screen(u, f), Alike(f, g)
  PROVE  Screen(u, g)
<1>1. \A S, part : Coming(f, S, part) <=> Coming(g, S, part)
  BY DEF Alike, Coming
<1>2. \A fn : ComingLast(f, fn) => ComingLast(g, fn)
  BY DEF Alike, ComingLast
<1>3. (RolesComing(f) => RolesComing(g)) /\ \A S, all : ComingFor(f, S, all) => ComingFor(g, S, all)
  BY DEF Alike, RolesComing, ComingFor
<1>4. ASSUME NEW i \in Slots, g[i] # Idle PROVE Waiter(u, g[i])
  <2>1. Waiter(u, f[i]) /\ f[i] # Idle /\ g[i].fn = f[i].fn /\ g[i].owner = f[i].owner
    BY <1>4 DEF Alike, Screen, Waiters
  <2>2. Writing(f[i]) <=> Writing(g[i])
    BY <2>1 DEF Writing
  <2> QED BY <2>1, <2>2 DEF Waiter, TabWaiter, DialogWaiter
<1>5. ProvidersWait(u, f) => ProvidersWait(u, g)
  BY <1>1 DEF ProvidersWait
<1>6. LibraryWait(u, f) => LibraryWait(u, g)
  BY <1>1, <1>2, <1>3 DEF LibraryWait
<1>7. ListWait(u, f) => ListWait(u, g)
  BY <1>1, <1>2 DEF ListWait
<1>8. DetailWait(u, f) => DetailWait(u, g)
  <2>1. OneDelete(f) => OneDelete(g)
    BY IdleIsNone DEF Alike, OneDelete
  <2> QED BY <1>1, <1>2, <1>3, <2>1 DEF DetailWait, AddComing, AttachComing, RosterWait, BusyWait, PanelWait, PoolWait
<1> QED BY <1>4, <1>5, <1>6, <1>7, <1>8 DEF Screen, Waiters, Waits

(* Nobody waits for the answer to a write whose component has gone.       *)
LEMMA ScreenAlone ==
  ASSUME NEW u, NEW f, NEW g, NEW i, NEW new, Screen(u, f), Turns(f, g, {i}, {}, {}, new),
         f[i].owner = {}, \A r \in new : r.owner = {} /\ Writing(r)
  PROVE  Screen(u, g)
<1>1. \A S, part : Coming(f, S, part) => Coming(g, S, part)
  BY ComingOn
<1>2. \A fn : ComingLast(f, fn) => ComingLast(g, fn)
  <2> TAKE fn
  <2> HAVE ComingLast(f, fn)
  <2>1. PICK k \in Slots : f[k] # Idle /\ f[k].fn = fn /\ "screen" \in f[k].owner /\ f[k].latest
    BY DEF ComingLast
  <2>2. k \notin {i} /\ f[k].owner \ {} # {}
    BY <2>1
  <2>3. g[k] # Idle /\ g[k].fn = fn /\ "screen" \in g[k].owner /\ g[k].latest
    BY <2>1, <2>2 DEF Turns, Stays, Same
  <2> QED BY <2>3 DEF ComingLast
<1>3. RolesComing(f) => RolesComing(g)
  BY RolesOn
<1>4. ASSUME NEW S, NEW all, all # {} PROVE ComingFor(f, S, all) => ComingFor(g, S, all)
  BY <1>4, ComingForOn
<1>5. (AddComing(f) => AddComing(g)) /\ (AttachComing(f) => AttachComing(g))
  BY <1>4 DEF AddComing, AttachComing
<1>6. \A S, part : Coming(g, S, part) => Coming(f, S, part)
  BY ComingBefore
<1>7. Waiters(u, g)
  <2>1. \A r \in new : Waiter(u, r)
    BY DEF Waiter
  <2> QED BY <2>1, WaitersGoOn DEF Screen
<1>8. ProvidersWait(u, g)
  BY <1>1 DEF ProvidersWait, Screen, Waits
<1>9. LibraryWait(u, g)
  BY <1>1, <1>2, <1>4 DEF LibraryWait, Screen, Waits
<1>10. ListWait(u, g)
  BY <1>1, <1>2 DEF ListWait, Screen, Waits
<1>11. DetailWait(u, g)
  <2>1. OneDelete(f) => OneDelete(g)
    BY OneDeleteOn
  <2> QED BY <1>1, <1>2, <1>3, <1>5, <1>6, <2>1 DEF DetailWait, RosterWait, BusyWait, PanelWait, PoolWait, Screen, Waits
<1> QED BY <1>7, <1>8, <1>9, <1>10, <1>11 DEF Screen, Waits

(* A request is handled by the server. *)
LEMMA ServeInv ==
  ASSUME Inv, NEW i \in Slots, Serve(i)
  PROVE  Inv'
<1> DEFINE r == flight[i]
<1>1. /\ r # Idle /\ IsRequest(r) /\ Asked(r) /\ r.reply = Pending /\ Flights(flight) /\ DbTyped
      /\ UNCHANGED <<expired, token, strays, ui, refused, writes, moves, sessions>>
  BY DEF Serve, Inv, Calls, CallsTyped, Flights
<1>2. PICK reply :
        /\ flight' = [flight EXCEPT ![i].reply = reply]
        /\ \/ reply \in {Error, NotFound} /\ db' = db
           \/ reply = Unauthorized /\ r.fn # "login" /\ db' = db
           \/ reply = OK(Body(r)) /\ db' = After(r)
           \/ reply = Lost /\ Writing(r) /\ db' = After(r)
  BY DEF Serve, Answer
<1>3. IsReply(reply)
  BY <1>2 DEF IsReply, OK
<1> DEFINE s == [r EXCEPT !.reply = reply]
<1>4. flight' = [flight EXCEPT ![i] = s]
  BY <1>2
<1>5. /\ IsRequest(s)
      /\ s.fn = r.fn /\ s.table = r.table /\ s.row = r.row /\ s.value = r.value
      /\ s.memo = r.memo /\ s.token = r.token /\ s.latest = r.latest /\ s.owner = r.owner
      /\ s.reply = reply
  <2>1. IsRequest(r)
    BY <1>1
  <2> HIDE DEF r
  <2> QED BY <1>3, <2>1, Replied
<1> HIDE DEF s
<1>6. flight'[i] = s /\ DOMAIN flight' = Slots /\ \A j \in Slots : j # i => flight'[j] = flight[j]
  BY <1>1, <1>4 DEF Flights
<1>7. Flights(flight')
  BY <1>1, <1>5, <1>6 DEF Flights
<1>8. Alike(flight, flight')
  BY <1>1, <1>5, <1>6, IdleIsNone DEF Alike
<1>9. DbTyped'
  <2>1. CASE r.fn = "login"
    <3>1. db' = db
      BY <1>2, <2>1 DEF After, Writing, Verb
    <3> QED BY <1>1, <3>1 DEF DbTyped
  <2>2. CASE r.fn # "login"
    BY <1>1, <1>2, <2>2, AfterTyped DEF DbTyped
  <2> QED BY <2>1, <2>2
<1>10. Asked(s) /\ Replies(s)
  <2>1. Asked(s)
    BY <1>1, <1>5 DEF Asked, TableOf
  <2>2. Replies(s)
    <3>1. CASE reply = OK(Body(r))
      BY <1>1, <1>5, <3>1, BodyExpected
    <3>2. CASE reply \in {Error, NotFound, Lost, Unauthorized}
      BY <1>5, <3>2, NoBody
    <3> QED BY <1>2, <3>1, <3>2
  <2> QED BY <2>1, <2>2
<1>11. CallsTyped'
  <2>1. \A j \in Slots : flight'[j] # Idle => Asked(flight'[j]) /\ Replies(flight'[j])
    BY <1>6, <1>10 DEF Inv, Calls, CallsTyped
  <2> QED BY <1>1, <1>7, <1>9, <2>1 DEF Inv, Calls, CallsTyped
<1>12. SessionsOk'
  <2>1. \A j \in Slots : (flight'[j] = Idle <=> flight[j] = Idle) /\ flight'[j].fn = flight[j].fn
                         /\ (flight'[j] # Idle => flight'[j].token = flight[j].token)
    BY <1>1, <1>5, <1>6, IdleIsNone
  <2>2. Given' = Given
    <3>1. InFlight' = InFlight /\ \A j \in InFlight : flight'[j].token = flight[j].token
      BY <1>1, <1>6, <2>1 DEF InFlight, Flights
    <3>2. {flight'[j].token : j \in InFlight'} = {flight[j].token : j \in InFlight}
      BY <3>1
    <3> QED BY <1>1, <3>2 DEF Given
  <2>3. LoggingIn' <=> LoggingIn
    BY <2>1 DEF LoggingIn
  <2>4. \A j \in Slots : flight'[j].fn = "login" => flight'[j].reply # Unauthorized
    <3> TAKE j \in Slots
    <3>1. CASE j = i
      BY <1>2, <1>5, <1>6, <3>1 DEF Unauthorized, OK, Error, NotFound, Lost
    <3>2. CASE j # i
      BY <1>6, <3>2 DEF Inv, Calls, SessionsOk
    <3> QED BY <3>1, <3>2
  <2> QED BY <1>1, <2>1, <2>2, <2>3, <2>4 DEF Inv, Calls, SessionsOk
<1>13. Screen(ui', flight')
  BY <1>1, <1>8, ScreenAlike DEF Inv
<1> QED BY <1>11, <1>12, <1>13 DEF Inv, Calls

(* A session expires. *)
LEMMA ExpireInv ==
  ASSUME Inv, Expire
  PROVE  Inv'
<1>1. UNCHANGED <<db, token, flight, strays, ui, refused, writes, sessions>> /\ expired' = token
  BY DEF Expire
<1>2. CallsTyped'
  BY <1>1 DEF Inv, Calls, CallsTyped, DbTyped
<1>3. SessionsOk'
  BY <1>1 DEF Inv, Calls, SessionsOk, Given, InFlight, LoggingIn
<1>4. Screen(ui', flight')
  BY <1>1 DEF Inv
<1> QED BY <1>2, <1>3, <1>4 DEF Inv, Calls

-----------------------------------------------------------------------------
(* How the steps of the client turn what is in flight.                     *)

(* A request is sent. *)
LEMMA SendTurns ==
  ASSUME NEW f, Flights(f), FreeSlots(f) # {}, NEW r, IsRequest(r)
  PROVE  Turns(f, Send(f, r), {}, {}, {}, {r})
BY SendSends, SendsTurn

(* Loads are sent. *)
LEMMA LoadsTurn ==
  ASSUME NEW f, Flights(f), NEW S, \A r \in S : IsRequest(r), NEW rs \in Seq(S), Len(rs) =< 2,
         Cardinality(FreeSlots(f)) >= Len(rs)
  PROVE  Turns(f, SendAll(f, rs), {}, {}, {}, ToSet(rs))
BY LoadsSent, SendsTurn

(* A load is sent, which makes those before it old. *)
LEMMA ReloadTurns ==
  ASSUME NEW f, Flights(f), FreeSlots(f) # {}, NEW fns, NEW r, IsRequest(r)
  PROVE  Turns(f, Send(Supersede(f, fns), r), {}, {}, fns, {r})
<1> DEFINE g == Supersede(f, fns)
<1>1. Turns(f, g, {}, {}, fns, {}) /\ Flights(g) /\ \A i \in Slots : f[i] = Idle <=> g[i] = Idle
  BY SupersedeTurns, Superseded
<1> HIDE DEF g
<1>2. FreeSlots(g) # {}
  BY <1>1 DEF FreeSlots, Flights
<1>3. Turns(g, Send(g, r), {}, {}, {}, {r})
  BY <1>1, <1>2, SendTurns
<1>4. Turns(f, Send(g, r), {}, {} \cup {}, fns \cup {}, {r})
  BY <1>1, <1>3, TurnsOn
<1>5. {} \cup {} = {} /\ fns \cup {} = fns
  OBVIOUS
<1> QED BY <1>4, <1>5 DEF g

(* Components go after what has come before. *)
LEMMA PartsTurn ==
  ASSUME NEW f, NEW g, NEW gone, Turns(f, g, gone, {}, {}, {}), NEW parts
  PROVE  Turns(f, Unmount(g, parts), gone, parts, {}, {})
<1>1. Flights(g)
  BY DEF Turns
<1>2. Turns(g, Unmount(g, parts), {}, parts, {}, {})
  BY <1>1, UnmountTurns
<1>3. Turns(f, Unmount(g, parts), gone, {} \cup parts, {} \cup {}, {})
  BY <1>2, TurnsOn
<1>4. {} \cup parts = parts /\ {} \cup {} = {}
  OBVIOUS
<1> QED BY <1>3, <1>4

(* Then requests are sent. *)
LEMMA ThenTurns ==
  ASSUME NEW f, NEW g, NEW h, NEW gone, NEW parts, NEW fns, NEW new,
         Turns(f, g, gone, parts, {}, {}), Turns(g, h, {}, {}, fns, new)
  PROVE  Turns(f, h, gone, parts, fns, new)
<1>1. Turns(f, h, gone, parts \cup {}, {} \cup fns, new)
  BY TurnsOn
<1>2. parts \cup {} = parts /\ {} \cup fns = fns
  OBVIOUS
<1> QED BY <1>1, <1>2

(* A slot that is free stays free while components go. *)
LEMMA StillFree ==
  ASSUME NEW f, Flights(f), NEW parts, FreeSlots(f) # {}
  PROVE  FreeSlots(Unmount(f, parts)) # {}
BY Unmounted DEF FreeSlots, Flights

(* A slot is free. *)
LEMMA RoomIsFree ==
  ASSUME Flights(flight), Room(1)
  PROVE  FreeSlots(flight) # {}
BY OneFree DEF Room

(* The session of whoever is forgotten was given. *)
LEMMA StrayedGiven ==
  ASSUME Flights(flight), NEW f, NEW gone, NEW p, NEW fns, Turns(flight, f, gone, p, fns, {}), NEW parts
  PROVE  Strayed(f, parts) \subseteq Given
<1>1. SUFFICES ASSUME NEW t \in Strayed(f, parts) PROVE t \in Given
  OBVIOUS
<1>2. PICK i \in Dropped(f, parts) : t = f[i].token
  BY DEF Strayed, Straying
<1>3. i \in Slots /\ f[i] # Idle
  BY DEF Dropped, Turns, Flights
<1>4. flight[i] # Idle /\ flight[i].token = f[i].token
  BY <1>3 DEF Turns, Stays, Same
<1> QED BY <1>2, <1>3, <1>4 DEF Given, InFlight, Flights

(* A screen makes way for another one. *)
LEMMA MountTurns ==
  ASSUME Flights(flight), NEW f, NEW gone, Turns(flight, f, gone, {}, {}, {}),
         NEW S, \A r \in S : IsRequest(r), NEW loads \in Seq(S), Len(loads) =< 2,
         NEW v, Mount(v, f, loads)
  PROVE  /\ Turns(flight, flight', gone, Parts, {}, ToSet(loads))
         /\ strays' \subseteq strays \cup Given
         /\ ui' = v
<1> DEFINE g == Unmount(f, Parts)
<1>1. Turns(flight, g, gone, Parts, {}, {})
  BY PartsTurn
<1> HIDE DEF g
<1>2. Flights(g)
  BY <1>1 DEF Turns
<1>3. Cardinality(FreeSlots(g)) >= Len(loads) /\ flight' = SendAll(g, loads)
  BY DEF Mount, g
<1>4. Turns(g, SendAll(g, loads), {}, {}, {}, ToSet(loads))
  BY <1>2, <1>3, LoadsTurn
<1>5. Turns(flight, flight', gone, Parts, {}, ToSet(loads))
  BY <1>1, <1>3, <1>4, ThenTurns
<1>6. Strayed(f, Parts) \subseteq Given
  BY StrayedGiven
<1> QED BY <1>5, <1>6 DEF Mount

(* Its successor has all it waits for, and nobody else waits. *)
LEMMA Afterwards ==
  ASSUME NEW f, NEW g, NEW gone, NEW fns, NEW new, Turns(f, g, gone, Parts, fns, new),
         \A r \in new : r.fn \notin TabWrites \cup {"deleteWorkspace"}
  PROVE  ~Coming(g, TabWrites, "tab") /\ ~Coming(g, {"deleteWorkspace"}, "tab")
<1>1. "tab" \in Parts
  BY DEF Parts
<1> QED BY <1>1, ComingBefore

-----------------------------------------------------------------------------
(* Sessions.                                                               *)

(* The screens without waiting. *)
LEMMA QuietScreens ==
  ASSUME NEW f, \A i \in Slots : f[i] # Idle => Waiter(HomeScreen, f[i])
  PROVE  Screen(HomeScreen, f) /\ Screen(LoginScreen, f)
<1>1. ScreenTyped(HomeScreen) /\ ScreenTyped(LoginScreen)
  BY DEF ScreenTyped, HomeScreen, LoginScreen
<1>2. Waits(HomeScreen, f) /\ Waits(LoginScreen, f)
  BY DEF Waits, ProvidersWait, LibraryWait, ListWait, DetailWait, HomeScreen, LoginScreen
<1>3. Waiters(HomeScreen, f)
  BY DEF Waiters
<1>4. Waiters(LoginScreen, f)
  BY DEF Waiters, Waiter, HomeScreen, LoginScreen
<1> QED BY <1>1, <1>2, <1>3, <1>4 DEF Screen

(* Everybody goes. *)
LEMMA AllGo ==
  ASSUME Calls, Screen(ui, flight), NEW f, NEW gone, Turns(flight, f, gone, Parts, {}, {})
  PROVE  /\ \A i \in Slots : f[i] # Idle => Waiter(HomeScreen, f[i])
         /\ \A i \in Slots : f[i].fn # "login"
<1>1. ASSUME NEW i \in Slots, f[i] # Idle
      PROVE  IsRequest(f[i]) /\ f[i].owner = {} /\ Writing(f[i])
  <2>1. /\ Stays(flight[i], f[i], Parts, {}) /\ flight[i] # Idle /\ IsRequest(f[i])
        /\ flight[i].owner = {} \/ flight[i].owner \ Parts # {} \/ Writing(flight[i])
    BY <1>1 DEF Turns, Stays, Same
  <2>2. flight[i].owner \ Parts = {}
    BY <2>1 DEF Calls, CallsTyped, Flights, IsRequest
  <2>3. Writing(flight[i])
    BY <2>1, <2>2 DEF Screen, Waiters, Waiter
  <2> QED BY <2>1, <2>2, <2>3, SameWrites DEF Stays
<1>2. \A i \in Slots : f[i] # Idle => Waiter(HomeScreen, f[i])
  BY <1>1 DEF Waiter, HomeScreen
<1>3. ASSUME NEW i \in Slots PROVE f[i].fn # "login"
  <2>1. CASE f[i] = Idle
    BY <2>1 DEF Idle
  <2>2. CASE f[i] # Idle
    BY <1>1, <2>2 DEF Writing, Verb
  <2> QED BY <2>1, <2>2
<1> QED BY <1>2, <1>3

(* What is left of the calls is in order, with a session or none. *)
LEMMA CallsLeft ==
  ASSUME Calls, NEW gone, NEW parts, Turns(flight, flight', gone, parts, {}, {}),
         UNCHANGED <<db, expired, sessions, writes>>, refused' \subseteq refused \cup Given, strays' \subseteq Given,
         token' = 0 \/ token' = token \/ token' = sessions + 1
  PROVE  /\ CallsTyped'
         /\ \A t \in Given' : t \in Given \cup {token'}
         /\ \A i \in Slots : flight'[i].fn = "login" => flight[i].fn = "login" /\ flight'[i].reply = flight[i].reply
<1>1. Flights(flight) /\ Flights(flight')
  BY DEF Calls, CallsTyped, Turns
<1>2. \A i \in Slots : flight'[i] # Idle => flight[i] # Idle /\ Same(flight[i], flight'[i])
  BY DEF Turns, Stays
<1>3. \A t \in Given' : t \in Given \cup {token'}
  <2>1. \A i \in InFlight' : i \in InFlight /\ flight'[i].token = flight[i].token
    BY <1>1, <1>2 DEF InFlight, Flights, Same
  <2> QED BY <2>1 DEF Given
<1>4. CallsTyped'
  <2>1. \A i \in Slots : flight'[i] # Idle => Asked(flight'[i]) /\ Replies(flight'[i])
    <3> SUFFICES ASSUME NEW i \in Slots, flight'[i] # Idle PROVE Asked(flight'[i]) /\ Replies(flight'[i])
      OBVIOUS
    <3>1. Asked(flight[i]) /\ Replies(flight[i]) /\ Same(flight[i], flight'[i])
      BY <1>2 DEF Calls, CallsTyped
    <3>2. Asked(flight'[i])
      BY <3>1 DEF Same, Asked, TableOf
    <3>3. Replies(flight'[i])
      BY <3>1 DEF Same, Replies
    <3> QED BY <3>2, <3>3
  <2>2. \A t \in Given : t \in Nat
    BY <1>1, IdleIsNone DEF Given, Calls, CallsTyped, Flights, IsRequest, InFlight
  <2>3. DbTyped'
    BY DEF Calls, CallsTyped, DbTyped
  <2>4. {expired', token', sessions', writes'} \subseteq Nat /\ strays' \subseteq Nat /\ refused' \subseteq Nat
    BY <2>2 DEF Calls, CallsTyped
  <2> QED BY <1>1, <2>1, <2>3, <2>4 DEF CallsTyped
<1>5. \A i \in Slots : flight'[i].fn = "login" => flight[i].fn = "login" /\ flight'[i].reply = flight[i].reply
  BY <1>2, IdleIsNone DEF Same
<1> QED BY <1>3, <1>4, <1>5

(* A 401 is read, and the user signed out. *)
LEMMA SignedOut ==
  ASSUME Inv, NEW gone, Turns(flight, flight', gone, Parts, {}, {}), ui' = LoginScreen, token' = 0,
         UNCHANGED <<db, expired, sessions, writes>>, refused' \subseteq refused \cup Given, strays' \subseteq Given
  PROVE  Inv'
<1>1. /\ CallsTyped'
      /\ \A t \in Given' : t \in Given \cup {token'}
  BY CallsLeft DEF Inv
<1>2. /\ \A i \in Slots : flight'[i] # Idle => Waiter(HomeScreen, flight'[i])
      /\ \A i \in Slots : flight'[i].fn # "login"
  BY AllGo DEF Inv
<1>3. Screen(ui', flight')
  BY <1>2, QuietScreens
<1>4. sessions \in Nat
  BY DEF Inv, Calls, CallsTyped
<1>5. SessionsOk'
  BY <1>1, <1>2, <1>4 DEF SessionsOk, LoggingIn, Inv, Calls, LoginScreen
<1> QED BY <1>1, <1>3, <1>5 DEF Inv, Calls

(* Unauthorised (the 401 of any request): the token is dropped and the login page waits for nothing. *)
LEMMA UnauthorisedInv ==
  ASSUME Inv, NEW i \in Slots, Unauthorised(i)
  PROVE  Inv'
<1>1. Flights(flight) /\ flight[i] # Idle /\ flight[i].token \in Given /\ flight[i].reply = Unauthorized
  BY DEF Inv, Calls, CallsTyped, Unauthorised, Given, InFlight, Flights
<1>2. UNCHANGED <<db, expired, sessions, writes>> /\ refused' = refused \cup {flight[i].token}
  BY DEF Unauthorised, serverVars, countVars
<1>3. Turns(flight, Done(i), {i}, {}, {}, {})
  BY <1>1, DoneTurns
<1>4. CASE ui.at = "login"
  <2>1. flight' = Done(i) /\ UNCHANGED <<ui, token, strays>>
    BY <1>4 DEF Unauthorised, SignOut
  <2>2. /\ CallsTyped'
        /\ \A t \in Given' : t \in Given \cup {token'}
        /\ \A j \in Slots : flight'[j].fn = "login" => flight[j].fn = "login" /\ flight'[j].reply = flight[j].reply
    <3>1. strays' \subseteq Given /\ refused' \subseteq refused \cup Given
      BY <1>1, <1>2, <2>1 DEF Given
    <3> QED BY <1>2, <1>3, <2>1, <3>1, CallsLeft DEF Inv
  <2>3. flight[i].fn # "login"
    BY <1>1 DEF Inv, Calls, SessionsOk
  <2>4. flight[i].owner = {}
    BY <1>1, <1>4, <2>3 DEF Inv, Screen, Waiters, Waiter
  <2>5. Screen(ui', flight')
    BY <1>3, <2>1, <2>4, ScreenAlone DEF Inv
  <2>6. LoggingIn' <=> LoggingIn
    <3>1. \A j \in Slots : flight[j].fn = "login" => flight'[j] = flight[j]
      BY <1>1, <2>1, <2>3, WasDone
    <3> QED BY <2>2, <3>1 DEF LoggingIn
  <2>7. token = 0 /\ token \in Given
    BY <1>4 DEF Inv, Calls, SessionsOk, Given
  <2>8. SessionsOk'
    BY <1>2, <2>1, <2>2, <2>6, <2>7 DEF Inv, Calls, SessionsOk
  <2> QED BY <2>2, <2>5, <2>8 DEF Inv, Calls
<1>5. CASE ui.at # "login"
  <2>1. token' = 0 /\ Mount(LoginScreen, Done(i), <<>>)
    BY <1>5 DEF Unauthorised, SignOut
  <2>2. /\ Turns(flight, flight', {i}, Parts, {}, ToSet(<<>>))
        /\ strays' \subseteq strays \cup Given
        /\ ui' = LoginScreen
    <3>1. <<>> \in Seq({}) /\ Len(<<>>) =< 2 /\ \A r \in {} : IsRequest(r)
      OBVIOUS
    <3> QED BY <1>1, <1>3, <2>1, <3>1, MountTurns
  <2>3. ToSet(<<>>) = {}
    BY DEF ToSet
  <2>4. strays' \subseteq Given /\ refused' \subseteq refused \cup Given
    BY <1>1, <1>2, <2>2 DEF Given
  <2> QED BY <1>2, <2>1, <2>2, <2>3, <2>4, SignedOut
<1> QED BY <1>4, <1>5

(* So for one that nobody waits for. *)
LEMMA StrayUnauthorisedInv ==
  ASSUME Inv, NEW session \in strays, StrayUnauthorised(session)
  PROVE  Inv'
<1>1. Flights(flight) /\ session \in Given
  BY DEF Inv, Calls, CallsTyped, Given
<1>2. UNCHANGED <<db, expired, sessions, writes>> /\ refused' = refused \cup {session}
  BY DEF StrayUnauthorised, serverVars, countVars
<1>3. CASE ui.at = "login"
  <2>1. strays' \subseteq strays /\ UNCHANGED <<ui, token, flight>>
    BY <1>3 DEF StrayUnauthorised
  <2>2. Turns(flight, flight', {}, {}, {}, {})
    BY <1>1, <2>1, TurnsAsIs
  <2>3. /\ CallsTyped'
        /\ \A t \in Given' : t \in Given \cup {token'}
    <3>1. strays' \subseteq Given /\ refused' \subseteq refused \cup Given
      BY <1>1, <1>2, <2>1 DEF Given
    <3> QED BY <1>2, <2>1, <2>2, <3>1, CallsLeft DEF Inv
  <2>4. token = 0 /\ token \in Given
    BY <1>3 DEF Inv, Calls, SessionsOk, Given
  <2>5. SessionsOk'
    BY <1>2, <2>1, <2>3, <2>4 DEF Inv, Calls, SessionsOk, LoggingIn
  <2>6. Screen(ui', flight')
    BY <2>1 DEF Inv
  <2> QED BY <2>3, <2>5, <2>6 DEF Inv, Calls
<1>4. CASE ui.at # "login"
  <2>1. /\ token' = 0 /\ ui' = LoginScreen /\ flight' = Unmount(flight, Parts)
        /\ strays' \subseteq strays \cup Strayed(flight, Parts)
    BY <1>4 DEF StrayUnauthorised
  <2>2. Turns(flight, flight', {}, Parts, {}, {})
    BY <1>1, <2>1, UnmountTurns
  <2>3. Strayed(flight, Parts) \subseteq Given
    BY <1>1, TurnsAsIs, StrayedGiven
  <2>4. strays' \subseteq Given /\ refused' \subseteq refused \cup Given
    BY <1>1, <1>2, <2>1, <2>3 DEF Given
  <2> QED BY <1>2, <2>1, <2>2, <2>4, SignedOut
<1> QED BY <1>3, <1>4

(* The user logs in. *)
LEMMA SubmitLoginInv ==
  ASSUME Inv, SubmitLogin
  PROVE  Inv'
<1> DEFINE r == Load("login", T("users", 0), {"screen"})
<1>1. /\ ui.at = "login" /\ ui.busy = {} /\ Room(1) /\ sessions' = sessions + 1
      /\ ui' = [ui EXCEPT !.busy = {"login"}]
      /\ flight' = Send(flight, r)
      /\ UNCHANGED <<db, expired, token, strays, refused, writes>>
  BY DEF SubmitLogin, serverVars
<1>2. Flights(flight) /\ FreeSlots(flight) # {} /\ token \in Nat
  BY <1>1, RoomIsFree DEF Inv, Calls, CallsTyped
<1>3. /\ IsRequest(r) /\ Asked(r) /\ Replies(r) /\ r.token = token
      /\ r.owner = {"screen"} /\ r.fn = "login" /\ r.reply = Pending
  BY <1>2 DEF IsRequest, Fields, Load, Call, Verb, T, Parts, IsReply, Asked, TableOf, Replies, Pending, BusyOf, LibraryWrites, AskedOf
<1>4. PICK k \in Slots : flight[k] = Idle /\ Send(flight, r) = [flight EXCEPT ![k] = r]
  <2> HIDE DEF r
  <2> QED BY <1>2, Sent
<1>5. Turns(flight, flight', {}, {}, {}, {r})
  <2> HIDE DEF r
  <2> QED BY <1>1, <1>2, <1>3, SendTurns
<1> HIDE DEF r
<1>6. ui' = [at |-> "login", busy |-> {"login"}]
  BY <1>1 DEF Inv, Screen, ScreenTyped
<1>7. Flights(flight') /\ flight'[k] = r /\ \A j \in Slots : j # k => flight'[j] = flight[j]
  BY <1>1, <1>2, <1>4, <1>5 DEF Turns, Flights
<1>8. CallsTyped'
  <2>1. \A i \in Slots : flight'[i] # Idle => Asked(flight'[i]) /\ Replies(flight'[i])
    BY <1>3, <1>7 DEF Inv, Calls, CallsTyped
  <2>2. DbTyped'
    BY <1>1 DEF Inv, Calls, CallsTyped, DbTyped
  <2>3. {expired', token', sessions', writes'} \subseteq Nat /\ strays' \subseteq Nat /\ refused' \subseteq Nat
    BY <1>1 DEF Inv, Calls, CallsTyped
  <2> QED BY <1>7, <2>1, <2>2, <2>3 DEF CallsTyped
<1>9. SessionsOk'
  <2>1. ~LoggingIn
    BY <1>1 DEF Inv, Calls, SessionsOk
  <2>2. \A j \in Slots : flight'[j].fn = "login" => j = k
    BY <1>7, <2>1 DEF LoggingIn
  <2>3. Given' \subseteq Given
    <3>1. \A j \in InFlight' : flight'[j].token = token \/ (j \in InFlight /\ flight'[j] = flight[j])
      BY <1>2, <1>3, <1>7 DEF InFlight, Flights
    <3> QED BY <1>1, <3>1 DEF Given
  <2>4. \A t \in Given' : t <= sessions'
    BY <1>1, <2>3 DEF Inv, Calls, SessionsOk
  <2>5. \A t \in Given' : t \in Nat
    <3>1. \A t \in Given : t \in Nat
      BY <1>2, IdleIsNone DEF Given, Inv, Calls, CallsTyped, Flights, IsRequest, InFlight
    <3> QED BY <2>3, <3>1
  <2>6. sessions' \in Nat
    BY <1>8 DEF CallsTyped
  <2>7. \A t \in Given' : t <= sessions' + 1 /\ t <= sessions'
    BY <2>4, <2>5, <2>6
  <2>8. LoggingIn'
    BY <1>3, <1>7 DEF LoggingIn
  <2>9. \A j \in Slots : flight'[j].fn = "login" => flight'[j].reply # Unauthorized
    BY <1>3, <1>7, <2>2 DEF Pending, Unauthorized
  <2>10. token' = 0
    BY <1>1 DEF Inv, Calls, SessionsOk
  <2> QED BY <1>6, <2>2, <2>7, <2>8, <2>9, <2>10 DEF SessionsOk
<1>10. Screen(ui', flight')
  <2>1. Waiter(ui', r)
    BY <1>3, <1>6 DEF Waiter
  <2>2. Waiters(ui', flight')
    <3>1. ui'.at = ui.at /\ ui.at # "detail" /\ Waiters(ui, flight)
      BY <1>1, <1>6 DEF Inv, Screen
    <3>2. \A q \in {r} : Waiter(ui', q)
      BY <2>1
    <3> QED BY <1>5, <3>1, <3>2, WaitersGoOn
  <2>3. ScreenTyped(ui')
    BY <1>6 DEF ScreenTyped
  <2>4. Waits(ui', flight')
    BY <1>6 DEF Waits, ProvidersWait, LibraryWait, ListWait, DetailWait
  <2> QED BY <2>2, <2>3, <2>4 DEF Screen
<1> QED BY <1>8, <1>9, <1>10 DEF Inv, Calls

(* And is logged in, or not. *)
LEMMA LoggedInInv ==
  ASSUME Inv, NEW i \in Slots, LoggedIn(i)
  PROVE  Inv'
<1>1. Flights(flight) /\ flight[i] # Idle /\ flight[i].fn = "login" /\ LoggingIn
  BY DEF Inv, Calls, CallsTyped, LoggedIn, Answered, LoggingIn
<1>2. UNCHANGED <<db, expired, refused, sessions, writes>>
  BY DEF LoggedIn, serverVars, countVars
<1>3. Turns(flight, Done(i), {i}, {}, {}, {})
  BY <1>1, DoneTurns
<1>4. ui.at = "login" /\ token = 0
  <2>1. flight[i].owner # {} /\ Waiter(ui, flight[i]) /\ IsRequest(flight[i])
    BY <1>1 DEF Inv, Screen, Waiters, Waiter, Writing, Verb, Flights
  <2>2. \/ "screen" \in flight[i].owner \/ "tab" \in flight[i].owner \/ "dialog" \in flight[i].owner
    BY <2>1 DEF IsRequest, Parts
  <2>3. ui.at = "login"
    BY <1>1, <2>1, <2>2 DEF Waiter, BusyOf, LibraryWrites, TabWaiter, DialogWaiter, Inv, Screen, ScreenTyped
  <2> QED BY <2>3 DEF Inv, Calls, SessionsOk
<1>5. sessions \in Nat
  BY DEF Inv, Calls, CallsTyped
<1>6. CASE Got(i)
  <2>1. token' = sessions + 1 /\ Mount(HomeScreen, Done(i), <<>>)
    BY <1>6 DEF LoggedIn
  <2>2. /\ Turns(flight, flight', {i}, Parts, {}, ToSet(<<>>))
        /\ strays' \subseteq strays \cup Given
        /\ ui' = HomeScreen
    <3>1. <<>> \in Seq({}) /\ Len(<<>>) =< 2 /\ \A r \in {} : IsRequest(r)
      OBVIOUS
    <3> QED BY <1>1, <1>3, <2>1, <3>1, MountTurns
  <2>3. ToSet(<<>>) = {}
    BY DEF ToSet
  <2>4. strays' \subseteq Given
    BY <2>2 DEF Given
  <2>5. /\ CallsTyped'
        /\ \A t \in Given' : t \in Given \cup {token'}
    BY <1>2, <2>1, <2>2, <2>3, <2>4, CallsLeft DEF Inv
  <2>6. /\ \A j \in Slots : flight'[j] # Idle => Waiter(HomeScreen, flight'[j])
        /\ \A j \in Slots : flight'[j].fn # "login"
    BY <2>2, <2>3, AllGo DEF Inv
  <2>7. Screen(ui', flight')
    BY <2>2, <2>6, QuietScreens
  <2>8. \A t \in Given : t <= sessions
    BY <1>1 DEF Inv, Calls, SessionsOk
  <2>9. \A t \in Given : t \in Nat
    BY <1>1, IdleIsNone DEF Given, Inv, Calls, CallsTyped, Flights, IsRequest, InFlight
  <2>10. \A t \in Given' : t <= sessions' + 1
    BY <1>2, <1>5, <2>1, <2>5, <2>8, <2>9
  <2>11. token' \notin refused' /\ token' # 0
    <3>1. refused \subseteq Given
      BY DEF Given
    <3> QED BY <1>2, <1>5, <2>1, <2>8, <3>1
  <2>12. SessionsOk'
    BY <2>2, <2>6, <2>10, <2>11 DEF SessionsOk, LoggingIn, HomeScreen
  <2> QED BY <2>5, <2>7, <2>12 DEF Inv, Calls
<1>7. CASE ~Got(i)
  <2>1. ui' = [ui EXCEPT !.busy = {}] /\ flight' = Done(i) /\ UNCHANGED <<token, strays>>
    BY <1>7 DEF LoggedIn
  <2>2. /\ CallsTyped'
        /\ \A t \in Given' : t \in Given \cup {token'}
        /\ \A j \in Slots : flight'[j].fn = "login" => flight[j].fn = "login" /\ flight'[j].reply = flight[j].reply
    <3>1. strays' \subseteq Given /\ refused' \subseteq refused \cup Given
      BY <1>2, <2>1 DEF Given
    <3> QED BY <1>2, <1>3, <2>1, <3>1, CallsLeft DEF Inv
  <2>3. ui' = LoginScreen
    BY <1>4, <2>1 DEF Inv, Screen, ScreenTyped, LoginScreen
  <2>4. \A j \in Slots : flight'[j].fn # "login"
    <3>1. flight'[i] = Idle
      BY <1>1, <2>1, WasDone
    <3> QED BY <1>1, <2>2, <3>1 DEF Inv, Calls, SessionsOk, Idle
  <2>5. \A t \in Given' : t \in Given
    BY <2>1, <2>2 DEF Given
  <2>6. SessionsOk'
    BY <1>2, <1>4, <2>1, <2>3, <2>4, <2>5 DEF Inv, Calls, SessionsOk, LoggingIn, LoginScreen
  <2>7. \A j \in Slots : flight'[j] # Idle => Waiter(HomeScreen, flight'[j])
    <3> SUFFICES ASSUME NEW j \in Slots, flight'[j] # Idle PROVE Waiter(HomeScreen, flight'[j])
      OBVIOUS
    <3>1. flight[j] # Idle /\ Stays(flight[j], flight'[j], {}, {})
      BY <1>3, <2>1 DEF Turns
    <3>2. Waiter(ui, flight[j]) /\ flight'[j].owner = flight[j].owner /\ flight'[j].fn = flight[j].fn
      BY <3>1 DEF Stays, Same, Inv, Screen, Waiters
    <3> QED BY <1>4, <2>4, <3>2 DEF Waiter, HomeScreen, Writing
  <2>8. Screen(ui', flight')
    BY <2>3, <2>7, QuietScreens
  <2> QED BY <2>2, <2>6, <2>8 DEF Inv, Calls
<1> QED BY <1>6, <1>7

-----------------------------------------------------------------------------
(* Steps of one screen.                                                    *)

(* The fields of a request. *)
LEMMA CallIs ==
  ASSUME NEW fn \in DOMAIN Verb, NEW table \in Table, NEW row \in Nat, NEW value \in Nat, NEW owner \in SUBSET Parts,
         NEW memo, token \in Nat, NEW r, r = Call(fn, table, row, value, owner, memo)
  PROVE  /\ IsRequest(r)
         /\ r.fn = fn /\ r.table = table /\ r.row = row /\ r.value = value /\ r.owner = owner /\ r.memo = memo
         /\ r.token = token /\ r.reply = Pending
BY DEF Call, IsRequest, Fields, IsReply

(* The request Load builds. *)
LEMMA LoadIs ==
  ASSUME NEW fn \in DOMAIN Verb, NEW table \in Table, NEW owner \in SUBSET Parts, token \in Nat,
         NEW r, r = Load(fn, table, owner)
  PROVE  /\ IsRequest(r)
         /\ r.fn = fn /\ r.table = table /\ r.row = 0 /\ r.value = 0 /\ r.owner = owner
         /\ r.token = token /\ r.reply = Pending
BY DEF Load, Call, IsRequest, Fields, IsReply

(* A request is the latest of its kind when it is sent. *)
LEMMA CallIsLatest ==
  ASSUME NEW fn, NEW table, NEW row, NEW value, NEW owner, NEW memo
  PROVE  Call(fn, table, row, value, owner, memo).latest
BY DEF Call

(* A request of this session that has just been made, and one that leaves  *)
(* the session as it is.                                                   *)
New(r) == IsRequest(r) /\ Asked(r) /\ r.fn # "login" /\ r.token = token /\ r.reply = Pending
Within ==
  UNCHANGED <<db, expired, token, refused, sessions>> /\ writes' \in Nat /\ strays' \subseteq Given

(* Client changes the screen and the requests, as it says. *)
LEMMA ClientWithin ==
  ASSUME Inv, NEW v, NEW f, Client(v, f)
  PROVE  Within /\ ui' = v /\ flight' = f
BY DEF Client, Within, serverVars, countVars, Inv, Calls, CallsTyped, Given

(* Click changes the screen and sends one request. *)
LEMMA ClickWithin ==
  ASSUME Inv, NEW v, NEW r, IsRequest(r), Click(v, r)
  PROVE  Within /\ ui' = v /\ Turns(flight, flight', {}, {}, {}, {r})
<1>1. Within /\ ui' = v /\ Room(1) /\ flight' = Send(flight, r) /\ Flights(flight)
  BY DEF Click, Within, serverVars, Inv, Calls, CallsTyped, Given
<1>2. FreeSlots(flight) # {}
  BY <1>1, RoomIsFree
<1>3. Turns(flight, Send(flight, r), {}, {}, {}, {r})
  BY <1>1, <1>2, SendTurns
<1> QED BY <1>1, <1>3

(* A step within one screen keeps Inv when that screen is left typed and waiting for what is on its way. *)
LEMMA InStep ==
  ASSUME Inv, Within, ui.at # "login", NEW gone, NEW parts, NEW fns, NEW new,
         Turns(flight, flight', gone, parts, fns, new), \A r \in new : New(r) /\ Waiter(ui', r), ui'.at = ui.at,
         ui.at = "detail" =>
           /\ "tab" \in parts \/ (IsSettled(ui) => IsSettled(ui') /\ ui'.tab = ui.tab)
           /\ \/ "dialog" \in parts \/ ui.dialog.kind = "closed"
              \/ IsSettled(ui) => IsSettled(ui') /\ ui'.dialog.kind = ui.dialog.kind,
         ScreenTyped(ui'), Waits(ui', flight')
  PROVE  Inv'
<1>1. Calls'
  <2>1. \A r \in new : r.fn # "login" /\ r.token = token /\ r.reply = Pending /\ Asked(r)
    BY DEF New
  <2> QED BY <2>1, CallsGoOn DEF Inv, Screen, Within
<1>2. Waiters(ui', flight')
  BY WaitersGoOn DEF Inv, Screen
<1> QED BY <1>1, <1>2 DEF Inv, Screen

(* Nobody waits for the answer to a write whose component has gone. *)
LEMMA AloneInv ==
  ASSUME Inv, Within, ui' = ui, NEW i \in Slots, flight[i] # Idle, flight[i].owner = {}, NEW new,
         Turns(flight, flight', {i}, {}, {}, new), \A r \in new : New(r) /\ r.owner = {} /\ Writing(r)
  PROVE  Inv'
<1>1. Writing(flight[i])
  BY DEF Inv, Screen, Waiters, Waiter
<1>2. flight[i].fn # "login"
  BY <1>1 DEF Writing, Verb
<1>3. Calls'
  <2>1. \A r \in new : r.fn # "login" /\ r.token = token /\ r.reply = Pending /\ Asked(r)
    BY DEF New
  <2> QED BY <1>2, <2>1, CallsGoOn DEF Inv, Screen, Within
<1>4. Screen(ui', flight')
  BY ScreenAlone DEF Inv
<1> QED BY <1>3, <1>4 DEF Inv

(* A link leads to another screen. *)
LEMMA NavigateInv ==
  ASSUME Inv, NEW v, NEW S, NEW loads \in Seq(S), Len(loads) =< 2, ToSet(loads) = S,
         \A r \in S : New(r) /\ Waiter(v, r), Navigate(v, loads), v.at # "login"
  PROVE  /\ Calls' /\ ui' = v /\ Waiters(v, flight')
         /\ Turns(flight, flight', {}, Parts, {}, S)
<1>1. Flights(flight) /\ Turns(flight, flight, {}, {}, {}, {})
  BY TurnsAsIs DEF Inv, Calls, CallsTyped
<1>2. Turns(flight, flight', {}, Parts, {}, S) /\ strays' \subseteq strays \cup Given /\ ui' = v
  <2>1. Mount(v, flight, loads) /\ \A r \in S : IsRequest(r)
    BY DEF Navigate, New
  <2> QED BY <1>1, <2>1, MountTurns
<1>3. token # 0 /\ ui.at # "login"
  BY DEF Navigate, Inv, Calls, SessionsOk
<1>4. UNCHANGED <<db, expired, token, refused, sessions>> /\ writes' \in Nat /\ strays' \subseteq Given
  BY <1>2 DEF Navigate, serverVars, Inv, Calls, CallsTyped, Given
<1>5. Calls'
  <2>1. \A r \in S : r.fn # "login" /\ r.token = token /\ r.reply = Pending /\ Asked(r)
    BY DEF New
  <2> QED BY <1>2, <1>3, <1>4, <2>1, CallsGoOn DEF Inv, Screen
<1>6. Waiters(v, flight')
  BY <1>2, WaitersGoOn DEF Inv, Screen
<1> QED BY <1>2, <1>5, <1>6

(* Where somebody waits for what. *)
LEMMA WhereItIs ==
  ASSUME Inv, NEW i \in Slots, flight[i] # Idle, flight[i].owner # {}
  PROVE  /\ flight[i].fn \in {"listProviders", "checkProviderConnection"} \cup DOMAIN BusyOf => ui.at = "providers"
         /\ flight[i].fn \in LibraryWrites => ui.at = "library"
         /\ flight[i].fn \in {"listWorkspaces", "createWorkspace"} => ui.at = "list"
         /\ flight[i].fn \in DOMAIN AskedOf \cup {"getWorkspace", "updateWorkspace", "deleteWorkspace"} => ui.at = "detail"
         /\ flight[i].fn = "listTemplateLibrary" => ui.at \in {"library", "detail"}
<1>1. Waiter(ui, flight[i]) /\ IsRequest(flight[i]) /\ ScreenTyped(ui)
  BY DEF Inv, Screen, Waiters, Calls, CallsTyped, Flights
<1>2. \/ "screen" \in flight[i].owner \/ "tab" \in flight[i].owner \/ "dialog" \in flight[i].owner
  BY <1>1 DEF IsRequest, Parts
<1>3. ui.at \in {"login", "home", "providers", "library", "list", "detail"}
  BY <1>1 DEF ScreenTyped
<1> QED BY <1>1, <1>2, <1>3 DEF Waiter, BusyOf, LibraryWrites, TabWaiter, DialogWaiter, AskedOf

(* Somebody waits for what only reads. *)
LEMMA ReadsAreHeeded ==
  ASSUME Inv, NEW i \in Slots, flight[i] # Idle, Verb[flight[i].fn] \in {"load", "check"}
  PROVE  flight[i].owner # {}
BY DEF Inv, Screen, Waiters, Waiter, Writing

-----------------------------------------------------------------------------
(* The screen of the providers.                                            *)

(* A step within the screen of the providers keeps Inv when it leaves that screen typed and in wait. *)
LEMMA ProvidersGoOn ==
  ASSUME Inv, Within, ui.at = "providers", NEW gone, NEW parts, NEW fns, NEW new,
         Turns(flight, flight', gone, parts, fns, new), \A r \in new : New(r) /\ Waiter(ui', r), ui'.at = "providers",
         ProvidersTyped(ui'), ProvidersWait(ui', flight')
  PROVE  Inv'
<1>1. ScreenTyped(ui') /\ Waits(ui', flight')
  BY DEF ScreenTyped, Waits, LibraryWait, ListWait, DetailWait
<1> QED BY <1>1, InStep

(* What Inv says of the screen of the providers. *)
LEMMA AtProviders ==
  ASSUME Inv, ui.at = "providers"
  PROVE  /\ ProvidersTyped(ui) /\ ProvidersWait(ui, flight) /\ Flights(flight) /\ token \in Nat
         /\ DOMAIN ui = {"at", "loading", "failed", "rows", "dialog", "busy", "checking"}
BY DEF Inv, Screen, ScreenTyped, Waits, Calls, CallsTyped, ProvidersTyped, ProvidersScreen

(* The request for the listing of the providers. *)
LEMMA ListProvidersIs ==
  ASSUME token \in Nat
  PROVE  New(ListProviders) /\ ListProviders.fn = "listProviders" /\ ListProviders.owner = {"screen"}
<1> DEFINE r == ListProviders
<1>1. "listProviders" \in DOMAIN Verb /\ Providers \in Table /\ {"screen"} \in SUBSET Parts
  BY DEF Verb, Table, Parts
<1>2. r = Load("listProviders", Providers, {"screen"})
  BY DEF ListProviders
<1> HIDE DEF r
<1>3. IsRequest(r) /\ r.fn = "listProviders" /\ r.table = Providers /\ r.owner = {"screen"} /\ r.token = token /\ r.reply = Pending
  BY <1>1, <1>2, LoadIs
<1>4. New(r)
  <2>1. TableOf(r)
    BY <1>3 DEF TableOf, LibraryWrites, AskedOf
  <2> QED BY <1>3, <2>1 DEF New, Asked
<1> QED BY <1>3, <1>4 DEF r

(* OpenProviders: the screen mounts and waits for the listing it asks for. *)
LEMMA OpenProvidersInv ==
  ASSUME Inv, OpenProviders
  PROVE  Inv'
<1> DEFINE r == ListProviders
           v == ProvidersScreen
<1>1. New(r) /\ r.fn = "listProviders" /\ r.owner = {"screen"}
  BY ListProvidersIs DEF Inv, Calls, CallsTyped
<1>2. Waiter(v, r) /\ v.at = "providers"
  BY <1>1 DEF Waiter, ProvidersScreen
<1> HIDE DEF r, v
<1>3. <<r>> \in Seq({r}) /\ Len(<<r>>) =< 2 /\ ToSet(<<r>>) = {r} /\ \A q \in {r} : New(q) /\ Waiter(v, q)
  BY <1>1, <1>2 DEF ToSet
<1>4. Navigate(v, <<r>>)
  BY DEF OpenProviders, r, v
<1>5. /\ Calls' /\ ui' = v /\ Waiters(v, flight')
      /\ Turns(flight, flight', {}, Parts, {}, {r})
  <2>1. v.at # "login"
    BY <1>2
  <2> QED BY <1>3, <1>4, <2>1, NavigateInv
<1>6. Coming(flight', {"listProviders"}, "screen")
  BY <1>1, <1>5, NewComes DEF New
<1>7. ScreenTyped(v) /\ Waits(v, flight')
  BY <1>6 DEF v, ProvidersScreen, Closed, Dialog, IsDialog, ScreenTyped, ProvidersTyped, Waits, ProvidersWait, LibraryWait, ListWait, DetailWait
<1> QED BY <1>5, <1>7 DEF Inv, Screen

(* Refetched: the listing comes, or fails, and nobody waits for it any more. *)
LEMMA RefetchedInv ==
  ASSUME Inv, NEW i \in Slots, Refetched(i)
  PROVE  Inv'
<1>1. flight[i] # Idle /\ flight[i].fn = "listProviders" /\ flight[i].owner # {}
  BY ReadsAreHeeded DEF Refetched, Answered, Verb
<1>2. ui.at = "providers"
  BY <1>1, WhereItIs
<1>3. /\ ProvidersTyped(ui) /\ ProvidersWait(ui, flight) /\ Flights(flight)
      /\ DOMAIN ui = {"at", "loading", "failed", "rows", "dialog", "busy", "checking"}
  BY <1>2, AtProviders
<1>4. /\ Within /\ flight' = Done(i)
      /\ ui' = IF Got(i) THEN [ui EXCEPT !.rows = Result(i), !.failed = FALSE, !.loading = FALSE]
                         ELSE [ui EXCEPT !.failed = TRUE, !.loading = FALSE]
  BY ClientWithin DEF Refetched
<1>5. Turns(flight, flight', {i}, {}, {}, {})
  BY <1>3, <1>4, DoneTurns
<1>6. /\ DOMAIN ui' = DOMAIN ui /\ ui'.at = "providers" /\ ui'.loading = FALSE /\ ui'.failed \in BOOLEAN
      /\ ui'.dialog = ui.dialog /\ ui'.busy = ui.busy /\ ui'.checking = ui.checking
  BY <1>2, <1>3, <1>4
<1>7. ProvidersTyped(ui')
  BY <1>3, <1>6 DEF ProvidersTyped
<1>8. ProvidersWait(ui', flight')
  <2>1. \A b : Coming(flight, {fn \in DOMAIN BusyOf : BusyOf[fn] = b}, "screen") =>
                 Coming(flight', {fn \in DOMAIN BusyOf : BusyOf[fn] = b}, "screen")
    BY <1>1, <1>5, ComingOn DEF BusyOf
  <2>2. Coming(flight, {"checkProviderConnection"}, "dialog") => Coming(flight', {"checkProviderConnection"}, "dialog")
    BY <1>1, <1>5, ComingOn
  <2> QED BY <1>3, <1>2, <1>6, <2>1, <2>2 DEF ProvidersWait
<1> QED BY <1>2, <1>4, <1>5, <1>6, <1>7, <1>8, ProvidersGoOn

(* RetryProviders: the listing is asked for anew. *)
LEMMA RetryProvidersInv ==
  ASSUME Inv, RetryProviders
  PROVE  Inv'
<1> DEFINE r == ListProviders
<1>1. ui.at = "providers" /\ Room(1) /\ Within /\ flight' = Send(flight, r) /\ ui' = [ui EXCEPT !.loading = TRUE]
  BY ClientWithin DEF RetryProviders
<1>2. /\ ProvidersTyped(ui) /\ ProvidersWait(ui, flight) /\ Flights(flight) /\ token \in Nat
      /\ DOMAIN ui = {"at", "loading", "failed", "rows", "dialog", "busy", "checking"}
  BY <1>1, AtProviders
<1>3. New(r) /\ r.fn = "listProviders" /\ r.owner = {"screen"}
  BY <1>2, ListProvidersIs
<1> HIDE DEF r
<1>4. Turns(flight, flight', {}, {}, {}, {r})
  BY <1>1, <1>2, <1>3, RoomIsFree, SendTurns DEF New
<1>5. /\ DOMAIN ui' = DOMAIN ui /\ ui'.at = "providers" /\ ui'.loading = TRUE /\ ui'.failed = ui.failed
      /\ ui'.dialog = ui.dialog /\ ui'.busy = ui.busy /\ ui'.checking = ui.checking
  BY <1>1, <1>2
<1>6. ProvidersTyped(ui')
  BY <1>2, <1>5 DEF ProvidersTyped
<1>7. ProvidersWait(ui', flight')
  <2>1. \A S, part : Coming(flight, S, part) => Coming(flight', S, part)
    BY <1>4, ComingOn
  <2>2. Coming(flight', {"listProviders"}, "screen")
    BY <1>3, <1>4, NewComes DEF New
  <2> QED BY <1>1, <1>2, <1>5, <2>1, <2>2 DEF ProvidersWait
<1>8. \A q \in {r} : New(q) /\ Waiter(ui', q)
  BY <1>3, <1>5 DEF Waiter
<1> QED BY <1>1, <1>4, <1>5, <1>6, <1>7, <1>8, ProvidersGoOn

(* Dialogs open and close: a check is not waited for any more. *)
LEMMA ProviderDialogInv ==
  ASSUME Inv, ui.at = "providers", NEW d, IsDialog(d, {"create", "edit", "delete"}),
         Client([ui EXCEPT !.dialog = d, !.checking = FALSE], Unmount(flight, {"dialog"}))
  PROVE  Inv'
<1>1. /\ Within /\ flight' = Unmount(flight, {"dialog"}) /\ ui' = [ui EXCEPT !.dialog = d, !.checking = FALSE]
  BY ClientWithin
<1>2. /\ ProvidersTyped(ui) /\ ProvidersWait(ui, flight) /\ Flights(flight) /\ token \in Nat
      /\ DOMAIN ui = {"at", "loading", "failed", "rows", "dialog", "busy", "checking"}
  BY AtProviders
<1>3. Turns(flight, flight', {}, {"dialog"}, {}, {})
  BY <1>1, <1>2, UnmountTurns
<1>4. /\ DOMAIN ui' = DOMAIN ui /\ ui'.at = "providers" /\ ui'.loading = ui.loading /\ ui'.failed = ui.failed
      /\ ui'.dialog = d /\ ui'.busy = ui.busy /\ ui'.checking = FALSE
  BY <1>1, <1>2
<1>5. ProvidersTyped(ui')
  BY <1>2, <1>4 DEF ProvidersTyped
<1>6. ProvidersWait(ui', flight')
  <2>1. \A S : Coming(flight, S, "screen") => Coming(flight', S, "screen")
    BY <1>3, ComingOn
  <2> QED BY <1>2, <1>4, <2>1 DEF ProvidersWait
<1> QED BY <1>1, <1>3, <1>4, <1>5, <1>6, ProvidersGoOn

(* OpenProviderDialog: the dialog that mounts waits for nothing yet. *)
LEMMA OpenProviderDialogInv ==
  ASSUME Inv, NEW kind \in {"create", "edit", "delete"}, NEW row \in RowOf(Providers) \cup {0}, OpenProviderDialog(kind, row)
  PROVE  Inv'
<1>1. ui.at = "providers" /\ Client([ui EXCEPT !.dialog = Dialog(kind, row), !.checking = FALSE], Unmount(flight, {"dialog"}))
  BY DEF OpenProviderDialog
<1>2. row \in Nat
  BY RowsOfTable DEF Table
<1>3. IsDialog(Dialog(kind, row), {"create", "edit", "delete"})
  BY <1>2 DEF IsDialog, Dialog
<1> QED BY <1>1, <1>3, ProviderDialogInv

(* CloseProviderDialog: what the dialog waited for has nobody waiting for it. *)
LEMMA CloseProviderDialogInv ==
  ASSUME Inv, CloseProviderDialog
  PROVE  Inv'
<1>1. ui.at = "providers" /\ Client([ui EXCEPT !.dialog = Closed, !.checking = FALSE], Unmount(flight, {"dialog"}))
  BY DEF CloseProviderDialog, Close
<1>2. IsDialog(Closed, {"create", "edit", "delete"})
  BY DEF IsDialog, Dialog, Closed
<1> QED BY <1>1, <1>2, ProviderDialogInv

(* The buttons. *)
LEMMA ProviderClickInv ==
  ASSUME Inv, ui.at = "providers", NEW b \in {"create", "edit", "delete"}, NEW r, New(r),
         r.fn \in DOMAIN BusyOf, BusyOf[r.fn] = b, r.owner = {"screen"},
         Click([ui EXCEPT !.busy = @ \cup {b}], r)
  PROVE  Inv'
<1>1. Within /\ ui' = [ui EXCEPT !.busy = @ \cup {b}] /\ Turns(flight, flight', {}, {}, {}, {r})
  BY ClickWithin DEF New
<1>2. /\ ProvidersTyped(ui) /\ ProvidersWait(ui, flight) /\ Flights(flight) /\ token \in Nat
      /\ DOMAIN ui = {"at", "loading", "failed", "rows", "dialog", "busy", "checking"}
  BY AtProviders
<1>3. /\ DOMAIN ui' = DOMAIN ui /\ ui'.at = "providers" /\ ui'.loading = ui.loading /\ ui'.failed = ui.failed
      /\ ui'.dialog = ui.dialog /\ ui'.busy = ui.busy \cup {b} /\ ui'.checking = ui.checking
  BY <1>1, <1>2
<1>4. ProvidersTyped(ui')
  BY <1>2, <1>3 DEF ProvidersTyped
<1>5. ProvidersWait(ui', flight')
  <2>1. \A S, part : Coming(flight, S, part) => Coming(flight', S, part)
    BY <1>1, ComingOn
  <2>2. Coming(flight', {fn \in DOMAIN BusyOf : BusyOf[fn] = b}, "screen")
    BY <1>1, NewComes DEF New
  <2> QED BY <1>2, <1>3, <2>1, <2>2 DEF ProvidersWait
<1>6. \A q \in {r} : New(q) /\ Waiter(ui', q)
  BY <1>3 DEF Waiter
<1> QED BY <1>1, <1>3, <1>4, <1>5, <1>6, ProvidersGoOn

(* The request of a click of a dialog of the providers. *)
LEMMA ProviderWrites ==
  ASSUME token \in Nat, NEW fn \in DOMAIN BusyOf, NEW row \in Nat, NEW value \in Nat, NEW owner \in SUBSET Parts, NEW memo,
         NEW r, r = Call(fn, Providers, row, value, owner, memo)
  PROVE  New(r) /\ r.fn = fn /\ r.owner = owner /\ Writing(r)
<1>1. fn \in DOMAIN Verb /\ Providers \in Table
  BY DEF Verb, BusyOf, Table
<1>2. IsRequest(r) /\ r.fn = fn /\ r.table = Providers /\ r.owner = owner /\ r.token = token /\ r.reply = Pending
  BY <1>1, CallIs
<1>3. TableOf(r)
  BY <1>2 DEF TableOf, LibraryWrites, AskedOf, BusyOf
<1>4. Asked(r)
  BY <1>2, <1>3 DEF Asked, BusyOf
<1> QED BY <1>2, <1>4 DEF New, Writing, Verb, BusyOf

(* A click of a dialog of the providers: its button is busy, and its request on its way. *)
LEMMA ProviderClicks ==
  ASSUME Inv, CreateProvider \/ (\E newKey \in BOOLEAN : EditProvider(newKey)) \/ DeleteProvider
  PROVE  Inv'
<1>1. ui.at = "providers"
  BY DEF CreateProvider, EditProvider, DeleteProvider
<1>2. /\ token \in Nat /\ Fresh \in Nat /\ ui.dialog.row \in Nat /\ {"screen"} \in SUBSET Parts
      /\ "createProvider" \in DOMAIN BusyOf /\ "updateProvider" \in DOMAIN BusyOf /\ "deleteProvider" \in DOMAIN BusyOf
      /\ BusyOf["createProvider"] = "create" /\ BusyOf["updateProvider"] = "edit" /\ BusyOf["deleteProvider"] = "delete"
  BY <1>1, AtProviders DEF Inv, Calls, CallsTyped, Fresh, ProvidersTyped, IsDialog, Parts, BusyOf
<1>3. CASE CreateProvider
  <2> DEFINE r == Call("createProvider", Providers, 0, Fresh, {"screen"}, 0)
  <2>1. New(r) /\ r.fn = "createProvider" /\ r.owner = {"screen"}
    BY <1>2, ProviderWrites
  <2>2. Click([ui EXCEPT !.busy = @ \cup {"create"}], r)
    BY <1>3 DEF CreateProvider
  <2> HIDE DEF r
  <2> QED BY <1>1, <1>2, <2>1, <2>2, ProviderClickInv
<1>4. ASSUME NEW newKey \in BOOLEAN, EditProvider(newKey) PROVE Inv'
  <2> DEFINE r == Call("updateProvider", Providers, ui.dialog.row, Fresh, {"screen"}, newKey)
  <2>1. New(r) /\ r.fn = "updateProvider" /\ r.owner = {"screen"}
    BY <1>2, ProviderWrites
  <2>2. Click([ui EXCEPT !.busy = @ \cup {"edit"}], r)
    BY <1>4 DEF EditProvider
  <2> HIDE DEF r
  <2> QED BY <1>1, <1>2, <2>1, <2>2, ProviderClickInv
<1>5. CASE DeleteProvider
  <2> DEFINE r == Call("deleteProvider", Providers, ui.dialog.row, 0, {"screen"}, 0)
  <2>1. New(r) /\ r.fn = "deleteProvider" /\ r.owner = {"screen"}
    BY <1>2, ProviderWrites
  <2>2. Click([ui EXCEPT !.busy = @ \cup {"delete"}], r)
    BY <1>5 DEF DeleteProvider
  <2> HIDE DEF r
  <2> QED BY <1>1, <1>2, <2>1, <2>2, ProviderClickInv
<1> QED BY <1>3, <1>4, <1>5

(* A write is answered. *)
LEMMA ProviderSavedInv ==
  ASSUME Inv, NEW i \in Slots, ProviderSaved(i)
  PROVE  Inv'
<1> DEFINE r == ListProviders
           b == BusyOf[flight[i].fn]
<1>1. flight[i] # Idle /\ flight[i].fn \in DOMAIN BusyOf /\ Flights(flight) /\ token \in Nat
  BY DEF ProviderSaved, Answered, Inv, Calls, CallsTyped
<1>2. Turns(flight, Done(i), {i}, {}, {}, {})
  BY <1>1, DoneTurns
<1>3. CASE ~Awaits(i, "screen")
  <2>1. Within /\ ui' = ui /\ flight' = Done(i)
    <3>1. Unheeded(i)
      BY <1>3 DEF ProviderSaved
    <3>2. Straying({token}) \subseteq {token}
      BY DEF Straying
    <3> QED BY <3>1, <3>2 DEF Unheeded, Within, serverVars, countVars, Inv, Calls, CallsTyped, Given
  <2>2. flight[i].owner = {}
    <3>1. Waiter(ui, flight[i]) /\ flight[i].owner \subseteq Parts
      BY <1>1 DEF Inv, Screen, Waiters, Flights, IsRequest
    <3>2. flight[i].owner # {} => ui.at = "providers"
      BY <1>1, WhereItIs
    <3>3. "screen" \notin flight[i].owner
      BY <1>3 DEF Awaits
    <3>4. flight[i].fn # "checkProviderConnection"
      BY <1>1 DEF BusyOf
    <3> QED BY <3>1, <3>2, <3>3, <3>4 DEF Waiter, Parts
  <2> QED BY <1>1, <1>2, <2>1, <2>2, AloneInv
<1>4. ASSUME Awaits(i, "screen")
      PROVE  /\ ui.at = "providers"
             /\ ProvidersTyped(ui) /\ ProvidersWait(ui, flight)
             /\ DOMAIN ui = {"at", "loading", "failed", "rows", "dialog", "busy", "checking"}
  <2>1. flight[i].owner # {}
    BY <1>4 DEF Awaits
  <2>2. ui.at = "providers"
    BY <1>1, <2>1, WhereItIs
  <2> QED BY <2>2, AtProviders
<1>5. ASSUME NEW c, c # b
      PROVE  \A j \in {i} : ~(flight[j].fn \in {fn \in DOMAIN BusyOf : BusyOf[fn] = c} /\ "screen" \in flight[j].owner)
  BY <1>5
<1>6. CASE Awaits(i, "screen") /\ ~Got(i)
  <2>1. Within /\ ui' = [ui EXCEPT !.busy = @ \ {b}] /\ flight' = Done(i)
    <3>1. Client([ui EXCEPT !.busy = @ \ {b}], Done(i))
      BY <1>6 DEF ProviderSaved
    <3> QED BY <3>1, ClientWithin
  <2> HIDE DEF b
  <2>2. /\ DOMAIN ui' = DOMAIN ui /\ ui'.at = "providers" /\ ui'.loading = ui.loading /\ ui'.failed = ui.failed
        /\ ui'.dialog = ui.dialog /\ ui'.busy = ui.busy \ {b} /\ ui'.checking = ui.checking
    BY <1>4, <1>6, <2>1
  <2>3. ProvidersTyped(ui')
    BY <1>4, <1>6, <2>2 DEF ProvidersTyped
  <2>4. ProvidersWait(ui', flight')
    <3>1. \A c : c # b /\ Coming(flight, {fn \in DOMAIN BusyOf : BusyOf[fn] = c}, "screen") =>
                   Coming(flight', {fn \in DOMAIN BusyOf : BusyOf[fn] = c}, "screen")
      BY <1>2, <1>5, <2>1, ComingOn
    <3>2. /\ Coming(flight, {"checkProviderConnection"}, "dialog") => Coming(flight', {"checkProviderConnection"}, "dialog")
          /\ Coming(flight, {"listProviders"}, "screen") => Coming(flight', {"listProviders"}, "screen")
      BY <1>1, <1>2, <2>1, ComingOn DEF BusyOf
    <3> QED BY <1>4, <1>6, <2>2, <3>1, <3>2 DEF ProvidersWait
  <2> QED BY <1>2, <1>4, <1>6, <2>1, <2>2, <2>3, <2>4, ProvidersGoOn
<1>7. CASE Awaits(i, "screen") /\ Got(i)
  <2> DEFINE g == Unmount(Done(i), {"dialog"})
  <2>1. /\ Within /\ flight' = Send(g, r)
        /\ ui' = [[ui EXCEPT !.busy = @ \ {b}] EXCEPT !.dialog = Closed, !.checking = FALSE]
    <3>1. Client(Close([ui EXCEPT !.busy = @ \ {b}]), Send(g, r))
      BY <1>7 DEF ProviderSaved
    <3> QED BY <3>1, ClientWithin DEF Close
  <2>2. Turns(flight, g, {i}, {"dialog"}, {}, {}) /\ FreeSlots(g) # {}
    <3>1. FreeSlots(Done(i)) # {} /\ Flights(Done(i))
      BY <1>1, WasDone
    <3> QED BY <1>2, <3>1, PartsTurn, StillFree
  <2>3. New(r) /\ r.fn = "listProviders" /\ r.owner = {"screen"}
    BY <1>1, ListProvidersIs
  <2> HIDE DEF b, g, r
  <2>4. Turns(flight, flight', {i}, {"dialog"}, {}, {r})
    <3>1. Flights(g) /\ IsRequest(r)
      BY <2>2, <2>3 DEF Turns, New
    <3>2. Turns(g, Send(g, r), {}, {}, {}, {r})
      BY <2>2, <3>1, SendTurns
    <3> QED BY <2>1, <2>2, <3>2, ThenTurns
  <2>5. /\ DOMAIN ui' = DOMAIN ui /\ ui'.at = "providers" /\ ui'.loading = ui.loading /\ ui'.failed = ui.failed
        /\ ui'.dialog = Closed /\ ui'.busy = ui.busy \ {b} /\ ui'.checking = FALSE
    BY <1>4, <1>7, <2>1
  <2>6. ProvidersTyped(ui')
    <3>1. IsDialog(Closed, {"create", "edit", "delete"})
      BY DEF IsDialog, Closed, Dialog
    <3> QED BY <1>4, <1>7, <2>5, <3>1 DEF ProvidersTyped
  <2>7. ProvidersWait(ui', flight')
    <3>1. \A c : c # b /\ Coming(flight, {fn \in DOMAIN BusyOf : BusyOf[fn] = c}, "screen") =>
                   Coming(flight', {fn \in DOMAIN BusyOf : BusyOf[fn] = c}, "screen")
      BY <1>5, <2>4, ComingOn
    <3>2. Coming(flight', {"listProviders"}, "screen")
      BY <2>3, <2>4, NewComes DEF New
    <3> QED BY <1>4, <1>7, <2>5, <3>1, <3>2 DEF ProvidersWait
  <2>8. \A q \in {r} : New(q) /\ Waiter(ui', q)
    BY <2>3, <2>5 DEF Waiter
  <2> QED BY <1>4, <1>7, <2>1, <2>4, <2>5, <2>6, <2>7, <2>8, ProvidersGoOn
<1> QED BY <1>3, <1>6, <1>7

(* After a PATCH the new key is sent. *)
LEMMA RotateKeyInv ==
  ASSUME Inv, NEW i \in Slots, RotateKey(i)
  PROVE  Inv'
<1> DEFINE r == Call("rotateProviderKey", Providers, flight[i].row, flight[i].value + MaxWrites, flight[i].owner, 0)
<1>1. /\ flight[i] # Idle /\ flight[i].fn = "updateProvider" /\ Flights(flight) /\ token \in Nat
      /\ IsRequest(flight[i]) /\ flight[i].row \in Nat /\ flight[i].value + MaxWrites \in Nat
      /\ flight[i].owner \in SUBSET Parts
  BY ConsoleAssumption DEF RotateKey, Answered, Inv, Calls, CallsTyped, Flights, IsRequest
<1>2. Within /\ ui' = ui /\ flight' = [flight EXCEPT ![i] = r]
  BY ClientWithin DEF RotateKey
<1>3. New(r) /\ r.fn = "rotateProviderKey" /\ r.owner = flight[i].owner /\ Writing(r)
  <2>1. "rotateProviderKey" \in DOMAIN BusyOf
    BY DEF BusyOf
  <2> QED BY <1>1, <2>1, ProviderWrites
<1> HIDE DEF r
<1>4. Turns(flight, flight', {i}, {}, {}, {r})
  <2>1. flight'[i] = r /\ DOMAIN flight' = Slots /\ \A j \in Slots : j # i => flight'[j] = flight[j]
    BY <1>1, <1>2 DEF Flights
  <2>2. IsRequest(r) /\ r # Idle
    BY <1>3, IdleIsNone DEF New
  <2>3. Flights(flight')
    BY <1>1, <2>1, <2>2 DEF Flights
  <2>4. ASSUME NEW j \in Slots, j # i, flight[j] # Idle PROVE Stays(flight[j], flight'[j], {}, {})
    BY <1>1, <2>1, <2>4, StaysAsIs DEF Flights
  <2>5. \A j \in Slots : flight[j].owner = {} \/ flight[j].owner \ {} # {}
    OBVIOUS
  <2>6. \A j \in Slots : flight'[j] # Idle =>
          \/ flight'[j] \in {r}
          \/ /\ flight[j] # Idle /\ j \notin {i} /\ Stays(flight[j], flight'[j], {}, {})
             /\ flight[j].owner = {} \/ flight[j].owner \ {} # {} \/ Writing(flight[j])
    BY <2>1, <2>4, <2>5
  <2>7. \A j \in Slots \ {i} : flight[j] # Idle => flight'[j] # Idle /\ Stays(flight[j], flight'[j], {}, {})
    BY <2>1, <2>4
  <2> QED BY <2>1, <2>3, <2>6, <2>7 DEF Turns
<1>5. CASE flight[i].owner = {}
  <2>1. \A q \in {r} : New(q) /\ q.owner = {} /\ Writing(q)
    BY <1>3, <1>5
  <2> QED BY <1>1, <1>2, <1>4, <1>5, <2>1, AloneInv
<1>6. CASE flight[i].owner # {}
  <2>1. ui.at = "providers" /\ Waiter(ui, flight[i])
    BY <1>1, <1>6, WhereItIs DEF BusyOf, Inv, Screen, Waiters
  <2>2. ProvidersTyped(ui) /\ ProvidersWait(ui, flight)
    BY <2>1, AtProviders
  <2>3. "screen" \in flight[i].owner
    BY <1>1, <1>6, <2>1 DEF Waiter, Parts
  <2>4. \A q \in {r} : New(q) /\ Waiter(ui', q)
    BY <1>1, <1>2, <1>3, <2>1 DEF Waiter, BusyOf
  <2>5. ProvidersWait(ui', flight')
    <3>1. \A c : c # "edit" /\ Coming(flight, {fn \in DOMAIN BusyOf : BusyOf[fn] = c}, "screen") =>
                   Coming(flight', {fn \in DOMAIN BusyOf : BusyOf[fn] = c}, "screen")
      BY <1>1, <1>4, ComingOn DEF BusyOf
    <3>2. Coming(flight', {fn \in DOMAIN BusyOf : BusyOf[fn] = "edit"}, "screen")
      BY <1>3, <1>4, <2>3, NewComes DEF New, BusyOf
    <3>3. /\ Coming(flight, {"checkProviderConnection"}, "dialog") => Coming(flight', {"checkProviderConnection"}, "dialog")
          /\ Coming(flight, {"listProviders"}, "screen") => Coming(flight', {"listProviders"}, "screen")
      BY <1>1, <1>4, ComingOn
    <3> QED BY <1>2, <2>1, <2>2, <3>1, <3>2, <3>3 DEF ProvidersWait
  <2> QED BY <1>2, <1>4, <2>1, <2>2, <2>4, <2>5, ProvidersGoOn
<1> QED BY <1>5, <1>6

(* A connection is tested. *)
LEMMA RunCheckInv ==
  ASSUME Inv, RunCheck
  PROVE  Inv'
<1> DEFINE r == Load("checkProviderConnection", Providers, {"dialog"})
<1>1. ui.at = "providers" /\ Room(1) /\ Within /\ flight' = Send(flight, r) /\ ui' = [ui EXCEPT !.checking = TRUE]
  BY ClientWithin DEF RunCheck
<1>2. /\ ProvidersTyped(ui) /\ ProvidersWait(ui, flight) /\ Flights(flight) /\ token \in Nat
      /\ DOMAIN ui = {"at", "loading", "failed", "rows", "dialog", "busy", "checking"}
  BY <1>1, AtProviders
<1>3. IsRequest(r) /\ r.fn = "checkProviderConnection" /\ r.table = Providers /\ r.owner = {"dialog"} /\ r.token = token /\ r.reply = Pending
  <2>1. "checkProviderConnection" \in DOMAIN Verb /\ Providers \in Table /\ {"dialog"} \in SUBSET Parts
    BY DEF Verb, Table, Parts
  <2> QED BY <1>2, <2>1, LoadIs
<1> HIDE DEF r
<1>4. New(r)
  <2>1. TableOf(r)
    BY <1>3 DEF TableOf, LibraryWrites, AskedOf
  <2> QED BY <1>3, <2>1 DEF New, Asked
<1>5. Turns(flight, flight', {}, {}, {}, {r})
  BY <1>1, <1>2, <1>3, RoomIsFree, SendTurns
<1>6. /\ DOMAIN ui' = DOMAIN ui /\ ui'.at = "providers" /\ ui'.loading = ui.loading /\ ui'.failed = ui.failed
      /\ ui'.dialog = ui.dialog /\ ui'.busy = ui.busy /\ ui'.checking = TRUE
  BY <1>1, <1>2
<1>7. ProvidersTyped(ui')
  BY <1>2, <1>6 DEF ProvidersTyped
<1>8. ProvidersWait(ui', flight')
  <2>1. \A S, part : Coming(flight, S, part) => Coming(flight', S, part)
    BY <1>5, ComingOn
  <2>2. Coming(flight', {"checkProviderConnection"}, "dialog")
    BY <1>3, <1>5, NewComes
  <2> QED BY <1>1, <1>2, <1>6, <2>1, <2>2 DEF ProvidersWait
<1>9. \A q \in {r} : New(q) /\ Waiter(ui', q)
  BY <1>3, <1>4, <1>6 DEF Waiter
<1> QED BY <1>1, <1>5, <1>6, <1>7, <1>8, <1>9, ProvidersGoOn

(* PickKind: the check of the connection is forgotten with the kind it was for. *)
LEMMA PickKindInv ==
  ASSUME Inv, PickKind
  PROVE  Inv'
<1>1. ui.at = "providers" /\ Within /\ flight' = flight /\ ui' = [ui EXCEPT !.checking = FALSE]
  BY ClientWithin DEF PickKind
<1>2. /\ ProvidersTyped(ui) /\ ProvidersWait(ui, flight) /\ Flights(flight)
      /\ DOMAIN ui = {"at", "loading", "failed", "rows", "dialog", "busy", "checking"}
  BY <1>1, AtProviders
<1>3. Turns(flight, flight', {}, {}, {}, {})
  BY <1>1, <1>2, TurnsAsIs
<1>4. /\ DOMAIN ui' = DOMAIN ui /\ ui'.at = "providers" /\ ui'.loading = ui.loading /\ ui'.failed = ui.failed
      /\ ui'.dialog = ui.dialog /\ ui'.busy = ui.busy /\ ui'.checking = FALSE
  BY <1>1, <1>2
<1>5. ProvidersTyped(ui') /\ ProvidersWait(ui', flight')
  BY <1>1, <1>2, <1>4 DEF ProvidersTyped, ProvidersWait
<1>6. \A q \in {} : New(q) /\ Waiter(ui', q)
  OBVIOUS
<1>7. Within /\ ui.at = "providers" /\ ui'.at = "providers"
  BY <1>1, <1>4
<1> QED BY <1>3, <1>5, <1>6, <1>7, ProvidersGoOn

(* Checked: the button of the check is free again. *)
LEMMA CheckedInv ==
  ASSUME Inv, NEW i \in Slots, Checked(i)
  PROVE  Inv'
<1>1. flight[i] # Idle /\ flight[i].fn = "checkProviderConnection" /\ flight[i].owner # {}
  BY ReadsAreHeeded DEF Checked, Answered, Verb
<1>2. ui.at = "providers"
  BY <1>1, WhereItIs
<1>3. /\ ProvidersTyped(ui) /\ ProvidersWait(ui, flight) /\ Flights(flight)
      /\ DOMAIN ui = {"at", "loading", "failed", "rows", "dialog", "busy", "checking"}
  BY <1>2, AtProviders
<1>4. Within /\ flight' = Done(i) /\ ui' = [ui EXCEPT !.checking = FALSE]
  BY ClientWithin DEF Checked
<1>5. Turns(flight, flight', {i}, {}, {}, {})
  BY <1>3, <1>4, DoneTurns
<1>6. /\ DOMAIN ui' = DOMAIN ui /\ ui'.at = "providers" /\ ui'.loading = ui.loading /\ ui'.failed = ui.failed
      /\ ui'.dialog = ui.dialog /\ ui'.busy = ui.busy /\ ui'.checking = FALSE
  BY <1>2, <1>3, <1>4
<1>7. ProvidersTyped(ui')
  BY <1>3, <1>6 DEF ProvidersTyped
<1>8. ProvidersWait(ui', flight')
  <2>1. \A b : Coming(flight, {fn \in DOMAIN BusyOf : BusyOf[fn] = b}, "screen") =>
                 Coming(flight', {fn \in DOMAIN BusyOf : BusyOf[fn] = b}, "screen")
    BY <1>1, <1>5, ComingOn DEF BusyOf
  <2>2. Coming(flight, {"listProviders"}, "screen") => Coming(flight', {"listProviders"}, "screen")
    BY <1>1, <1>5, ComingOn
  <2> QED BY <1>3, <1>2, <1>6, <2>1, <2>2 DEF ProvidersWait
<1>9. \A q \in {} : New(q) /\ Waiter(ui', q)
  OBVIOUS
<1>10. Within /\ ui.at = "providers" /\ ui'.at = "providers"
  BY <1>2, <1>4, <1>6
<1> QED BY <1>5, <1>7, <1>8, <1>9, <1>10, ProvidersGoOn

(* Every step of the screen of the providers keeps Inv. *)
LEMMA ProvidersStepInv ==
  ASSUME Inv, ProvidersStep
  PROVE  Inv'
<1>1. DOMAIN flight = Slots
  BY DEF Inv, Calls, CallsTyped, Flights
<1> QED BY <1>1, OpenProvidersInv, RetryProvidersInv, OpenProviderDialogInv, CloseProviderDialogInv, ProviderClicks,
           RunCheckInv, PickKindInv, RefetchedInv, ProviderSavedInv, RotateKeyInv, CheckedInv DEF ProvidersStep

-----------------------------------------------------------------------------
(* The screen of the templates.                                            *)

(* A step of this screen keeps the invariant if it keeps the screen's part. *)
LEMMA LibraryGoOn ==
  ASSUME Inv, Within, ui.at = "library", NEW gone, NEW parts, NEW fns, NEW new,
         Turns(flight, flight', gone, parts, fns, new), \A r \in new : New(r) /\ Waiter(ui', r), ui'.at = "library",
         LibraryTyped(ui'), LibraryWait(ui', flight')
  PROVE  Inv'
<1>1. ScreenTyped(ui') /\ Waits(ui', flight')
  BY DEF ScreenTyped, Waits, ProvidersWait, ListWait, DetailWait
<1> QED BY <1>1, InStep

(* What there is on this screen. *)
LEMMA AtLibrary ==
  ASSUME Inv, ui.at = "library"
  PROVE  /\ LibraryTyped(ui) /\ LibraryWait(ui, flight) /\ Flights(flight) /\ token \in Nat
         /\ DOMAIN ui = {"at", "loading", "failed", "rows", "dialog", "busy"}
BY DEF Inv, Screen, ScreenTyped, Waits, Calls, CallsTyped, LibraryTyped, LibraryScreen

(* Its load. *)
LEMMA ListTemplatesIs ==
  ASSUME token \in Nat
  PROVE  New(ListTemplates) /\ ListTemplates.fn = "listTemplateLibrary" /\ ListTemplates.owner = {"screen"}
<1> DEFINE r == ListTemplates
<1>1. "listTemplateLibrary" \in DOMAIN Verb /\ Library \in Table /\ {"screen"} \in SUBSET Parts
  BY DEF Verb, Table, Parts
<1>2. r = Load("listTemplateLibrary", Library, {"screen"})
  BY DEF ListTemplates
<1> HIDE DEF r
<1>3. IsRequest(r) /\ r.fn = "listTemplateLibrary" /\ r.table = Library /\ r.owner = {"screen"} /\ r.token = token /\ r.reply = Pending
  BY <1>1, <1>2, LoadIs
<1>4. New(r)
  <2>1. TableOf(r)
    BY <1>3 DEF TableOf, LibraryWrites, AskedOf, BusyOf
  <2> QED BY <1>3, <2>1 DEF New, Asked
<1> QED BY <1>3, <1>4 DEF r

(* No load is newer than one that has just been made. *)
LEMMA ListTemplatesIsLatest == ListTemplates.latest
BY CallIsLatest DEF ListTemplates, Load

(* OpenLibrary: the screen mounts and waits for the listing it asks for. *)
LEMMA OpenLibraryInv ==
  ASSUME Inv, OpenLibrary
  PROVE  Inv'
<1> DEFINE r == ListTemplates
           v == LibraryScreen
<1>1. New(r) /\ r.fn = "listTemplateLibrary" /\ r.owner = {"screen"}
  BY ListTemplatesIs DEF Inv, Calls, CallsTyped
<1>2. Waiter(v, r) /\ v.at = "library"
  BY <1>1 DEF Waiter, LibraryScreen
<1>3. r.latest
  BY ListTemplatesIsLatest
<1> HIDE DEF r, v
<1>4. <<r>> \in Seq({r}) /\ Len(<<r>>) =< 2 /\ ToSet(<<r>>) = {r} /\ \A q \in {r} : New(q) /\ Waiter(v, q)
  BY <1>1, <1>2 DEF ToSet
<1>5. Navigate(v, <<r>>)
  BY DEF OpenLibrary, r, v
<1>6. /\ Calls' /\ ui' = v /\ Waiters(v, flight')
      /\ Turns(flight, flight', {}, Parts, {}, {r})
  <2>1. v.at # "login"
    BY <1>2
  <2> QED BY <1>4, <1>5, <2>1, NavigateInv
<1>7. ComingLast(flight', "listTemplateLibrary")
  BY <1>1, <1>3, <1>6, NewComes DEF New
<1>8. ScreenTyped(v) /\ Waits(v, flight')
  BY <1>7 DEF v, LibraryScreen, Closed, Dialog, IsDialog, ScreenTyped, LibraryTyped, Waits, ProvidersWait, LibraryWait, ListWait, DetailWait
<1> QED BY <1>6, <1>8 DEF Inv, Screen

(* LibraryLoaded: the listing comes, or fails, and nobody waits for it any more. *)
LEMMA LibraryLoadedInv ==
  ASSUME Inv, NEW i \in Slots, LibraryLoaded(i)
  PROVE  Inv'
<1>1. flight[i] # Idle /\ flight[i].fn = "listTemplateLibrary" /\ flight[i].owner # {} /\ "screen" \in flight[i].owner
  BY DEF LibraryLoaded, Answered, Awaits
<1>2. ui.at = "library"
  <2>1. Waiter(ui, flight[i])
    BY <1>1 DEF Inv, Screen, Waiters
  <2> QED BY <1>1, <2>1, WhereItIs DEF Waiter
<1>3. /\ LibraryTyped(ui) /\ LibraryWait(ui, flight) /\ Flights(flight)
      /\ DOMAIN ui = {"at", "loading", "failed", "rows", "dialog", "busy"}
  BY <1>2, AtLibrary
<1>4. /\ Within /\ flight' = Done(i)
      /\ \/ ~flight[i].latest /\ ui' = ui
         \/ ui' = [ui EXCEPT !.rows = Result(i), !.loading = FALSE]
         \/ ui' = [ui EXCEPT !.loading = FALSE, !.failed = TRUE]
  <2> DEFINE v == CASE ~flight[i].latest -> ui
                    [] flight[i].latest /\ Got(i) -> [ui EXCEPT !.rows = Result(i), !.loading = FALSE]
                    [] OTHER -> [ui EXCEPT !.loading = FALSE, !.failed = TRUE]
  <2>1. Client(v, Done(i))
    BY DEF LibraryLoaded
  <2>2. \/ ~flight[i].latest /\ v = ui
        \/ v = [ui EXCEPT !.rows = Result(i), !.loading = FALSE]
        \/ v = [ui EXCEPT !.loading = FALSE, !.failed = TRUE]
    OBVIOUS
  <2> HIDE DEF v
  <2>3. Within /\ ui' = v /\ flight' = Done(i)
    BY <2>1, ClientWithin
  <2> QED BY <2>2, <2>3
<1>5. Turns(flight, flight', {i}, {}, {}, {})
  BY <1>3, <1>4, DoneTurns
<1>6. /\ DOMAIN ui' = DOMAIN ui /\ ui'.at = "library" /\ ui'.loading \in BOOLEAN /\ ui'.failed \in BOOLEAN
      /\ ui'.dialog = ui.dialog /\ ui'.busy = ui.busy
      /\ ui'.loading => ui.loading /\ ~flight[i].latest
  BY <1>2, <1>3, <1>4 DEF LibraryTyped
<1>7. LibraryTyped(ui')
  BY <1>3, <1>6 DEF LibraryTyped
<1>8. LibraryWait(ui', flight')
  <2>1. ~flight[i].latest /\ ComingLast(flight, "listTemplateLibrary") => ComingLast(flight', "listTemplateLibrary")
    BY <1>1, <1>5, ComingLastOn
  <2>2. Coming(flight, {"deleteTemplate"}, "screen") => Coming(flight', {"deleteTemplate"}, "screen")
    BY <1>1, <1>5, ComingOn
  <2>3. ComingFor(flight, {"createTemplate", "updateTemplate"}, {"screen", "dialog"}) =>
          ComingFor(flight', {"createTemplate", "updateTemplate"}, {"screen", "dialog"})
    BY <1>1, <1>5, ComingForOn
  <2> QED BY <1>2, <1>3, <1>6, <2>1, <2>2, <2>3 DEF LibraryWait
<1>9. \A q \in {} : New(q) /\ Waiter(ui', q)
  OBVIOUS
<1>10. Within /\ ui.at = "library" /\ ui'.at = "library"
  BY <1>2, <1>4, <1>6
<1> QED BY <1>5, <1>7, <1>8, <1>9, <1>10, LibraryGoOn

(* RetryLibrary: the listing is asked for anew. *)
LEMMA RetryLibraryInv ==
  ASSUME Inv, RetryLibrary
  PROVE  Inv'
<1> DEFINE r == ListTemplates
<1>1. /\ ui.at = "library" /\ Room(1) /\ Within /\ flight' = Send(Supersede(flight, {"listTemplateLibrary"}), r)
      /\ ui' = [ui EXCEPT !.loading = TRUE, !.failed = FALSE]
  BY ClientWithin DEF RetryLibrary
<1>2. /\ LibraryTyped(ui) /\ LibraryWait(ui, flight) /\ Flights(flight) /\ token \in Nat
      /\ DOMAIN ui = {"at", "loading", "failed", "rows", "dialog", "busy"}
  BY <1>1, AtLibrary
<1>3. New(r) /\ r.fn = "listTemplateLibrary" /\ r.owner = {"screen"}
  BY <1>2, ListTemplatesIs
<1>4. r.latest
  BY ListTemplatesIsLatest
<1> HIDE DEF r
<1>5. Turns(flight, flight', {}, {}, {"listTemplateLibrary"}, {r})
  BY <1>1, <1>2, <1>3, RoomIsFree, ReloadTurns DEF New
<1>6. /\ DOMAIN ui' = DOMAIN ui /\ ui'.at = "library" /\ ui'.loading = TRUE /\ ui'.failed = FALSE
      /\ ui'.dialog = ui.dialog /\ ui'.busy = ui.busy
  BY <1>1, <1>2
<1>7. LibraryTyped(ui')
  BY <1>2, <1>6 DEF LibraryTyped
<1>8. LibraryWait(ui', flight')
  <2>1. ComingLast(flight', "listTemplateLibrary")
    BY <1>3, <1>4, <1>5, NewComes DEF New
  <2>2. Coming(flight, {"deleteTemplate"}, "screen") => Coming(flight', {"deleteTemplate"}, "screen")
    BY <1>5, ComingOn
  <2>3. ComingFor(flight, {"createTemplate", "updateTemplate"}, {"screen", "dialog"}) =>
          ComingFor(flight', {"createTemplate", "updateTemplate"}, {"screen", "dialog"})
    BY <1>5, ComingForOn
  <2> QED BY <1>1, <1>2, <1>6, <2>1, <2>2, <2>3 DEF LibraryWait
<1>9. \A q \in {r} : New(q) /\ Waiter(ui', q)
  BY <1>3, <1>6 DEF Waiter
<1>10. Within /\ ui.at = "library" /\ ui'.at = "library"
  BY <1>1, <1>6
<1> QED BY <1>5, <1>7, <1>8, <1>9, <1>10, LibraryGoOn

(* Dialogs open and close: nothing is busy any more. *)
LEMMA TemplateDialogInv ==
  ASSUME Inv, ui.at = "library", NEW d, IsDialog(d, {"create", "edit", "delete"}), Within,
         ui' = [ui EXCEPT !.dialog = d, !.busy = {}], NEW parts, "screen" \notin parts,
         Turns(flight, flight', {}, parts, {}, {})
  PROVE  Inv'
<1>1. /\ LibraryTyped(ui) /\ LibraryWait(ui, flight) /\ Flights(flight) /\ token \in Nat
      /\ DOMAIN ui = {"at", "loading", "failed", "rows", "dialog", "busy"}
  BY AtLibrary
<1>2. /\ DOMAIN ui' = DOMAIN ui /\ ui'.at = "library" /\ ui'.loading = ui.loading /\ ui'.failed = ui.failed
      /\ ui'.dialog = d /\ ui'.busy = {}
  BY <1>1
<1>3. LibraryTyped(ui')
  BY <1>1, <1>2 DEF LibraryTyped
<1>4. LibraryWait(ui', flight')
  <2>1. ComingLast(flight, "listTemplateLibrary") => ComingLast(flight', "listTemplateLibrary")
    BY ComingLastOn
  <2> QED BY <1>1, <1>2, <2>1 DEF LibraryWait
<1>5. \A q \in {} : New(q) /\ Waiter(ui', q)
  OBVIOUS
<1> QED BY <1>2, <1>3, <1>4, <1>5, LibraryGoOn

(* OpenTemplateDialog: the dialog that mounts waits for nothing yet. *)
LEMMA OpenTemplateDialogInv ==
  ASSUME Inv, NEW kind \in {"create", "edit", "delete"}, NEW row \in RowOf(Library) \cup {0}, OpenTemplateDialog(kind, row)
  PROVE  Inv'
<1>1. ui.at = "library" /\ Within /\ ui' = [ui EXCEPT !.dialog = Dialog(kind, row), !.busy = {}] /\ flight' = flight
  BY ClientWithin DEF OpenTemplateDialog
<1>2. row \in Nat
  BY RowsOfTable DEF Table
<1>3. IsDialog(Dialog(kind, row), {"create", "edit", "delete"})
  BY <1>1, <1>2 DEF IsDialog, Dialog
<1>4. Turns(flight, flight', {}, {}, {}, {})
  BY <1>1, TurnsAsIs DEF Inv, Calls, CallsTyped
<1> QED BY <1>1, <1>3, <1>4, TemplateDialogInv

(* CloseTemplateDialog: what the dialog waited for has nobody waiting for it. *)
LEMMA CloseTemplateDialogInv ==
  ASSUME Inv, CloseTemplateDialog
  PROVE  Inv'
<1>1. ui.at = "library" /\ Within /\ ui' = [ui EXCEPT !.dialog = Closed, !.busy = {}] /\ flight' = Unmount(flight, {"dialog"})
  BY ClientWithin DEF CloseTemplateDialog, Shut
<1>2. IsDialog(Closed, {"create", "edit", "delete"})
  BY DEF IsDialog, Dialog, Closed
<1>3. Turns(flight, flight', {}, {"dialog"}, {}, {})
  BY <1>1, UnmountTurns DEF Inv, Calls, CallsTyped
<1>4. "screen" \notin {"dialog"}
  OBVIOUS
<1> QED BY <1>1, <1>2, <1>3, <1>4, TemplateDialogInv

(* Writes of templates. *)
LEMMA TemplateWrites ==
  ASSUME token \in Nat, NEW fn \in LibraryWrites, NEW row \in Nat, NEW value \in Nat, NEW owner \in SUBSET Parts, NEW memo,
         NEW r, r = Call(fn, Library, row, value, owner, memo)
  PROVE  New(r) /\ r.fn = fn /\ r.owner = owner /\ Writing(r)
<1>1. fn \in DOMAIN Verb /\ Library \in Table
  BY DEF Verb, LibraryWrites, Table
<1>2. IsRequest(r) /\ r.fn = fn /\ r.table = Library /\ r.owner = owner /\ r.token = token /\ r.reply = Pending
  BY <1>1, CallIs
<1>3. TableOf(r)
  BY <1>2 DEF TableOf, LibraryWrites, AskedOf, BusyOf
<1>4. Asked(r)
  BY <1>2, <1>3 DEF Asked, LibraryWrites
<1> QED BY <1>2, <1>4 DEF New, Writing, Verb, LibraryWrites

(* The buttons. *)
LEMMA TemplateClickInv ==
  ASSUME Inv, ui.at = "library", NEW b \in {"save", "delete"}, NEW r, New(r),
         b = "save" => r.fn \in {"createTemplate", "updateTemplate"} /\ r.owner = {"screen", "dialog"},
         b = "delete" => r.fn = "deleteTemplate" /\ r.owner = {"screen"},
         Click([ui EXCEPT !.busy = {b}], r)
  PROVE  Inv'
<1>1. Within /\ ui' = [ui EXCEPT !.busy = {b}] /\ Turns(flight, flight', {}, {}, {}, {r})
  BY ClickWithin DEF New
<1>2. /\ LibraryTyped(ui) /\ LibraryWait(ui, flight) /\ Flights(flight) /\ token \in Nat
      /\ DOMAIN ui = {"at", "loading", "failed", "rows", "dialog", "busy"}
  BY AtLibrary
<1>3. /\ DOMAIN ui' = DOMAIN ui /\ ui'.at = "library" /\ ui'.loading = ui.loading /\ ui'.failed = ui.failed
      /\ ui'.dialog = ui.dialog /\ ui'.busy = {b}
  BY <1>1, <1>2
<1>4. LibraryTyped(ui')
  BY <1>2, <1>3 DEF LibraryTyped
<1>5. LibraryWait(ui', flight')
  <2>1. ComingLast(flight, "listTemplateLibrary") => ComingLast(flight', "listTemplateLibrary")
    BY <1>1, ComingLastOn
  <2>2. b = "delete" => Coming(flight', {"deleteTemplate"}, "screen")
    BY <1>1, NewComes DEF New
  <2>3. b = "save" => ComingFor(flight', {"createTemplate", "updateTemplate"}, {"screen", "dialog"})
    BY <1>1, NewComes DEF New
  <2> QED BY <1>2, <1>3, <2>1, <2>2, <2>3 DEF LibraryWait
<1>6. \A q \in {r} : New(q) /\ Waiter(ui', q)
  BY <1>3 DEF Waiter, LibraryWrites
<1> QED BY <1>1, <1>3, <1>4, <1>5, <1>6, LibraryGoOn

(* A click of a dialog of the library: its button is busy, and its request on its way. *)
LEMMA TemplateClicks ==
  ASSUME Inv, SaveTemplate \/ DeleteTemplate
  PROVE  Inv'
<1>1. ui.at = "library"
  BY DEF SaveTemplate, DeleteTemplate
<1>2. /\ token \in Nat /\ Fresh \in Nat /\ 0 \in Nat /\ ui.dialog.row \in Nat
      /\ {"screen"} \in SUBSET Parts /\ {"screen", "dialog"} \in SUBSET Parts
  BY <1>1, AtLibrary DEF Inv, Calls, CallsTyped, Fresh, LibraryTyped, IsDialog, Parts
<1>3. CASE SaveTemplate
  <2> DEFINE fn == IF ui.dialog.kind = "create" THEN "createTemplate" ELSE "updateTemplate"
             r == Call(fn, Library, ui.dialog.row, Fresh, {"screen", "dialog"}, ui.dialog.kind)
  <2>1. fn \in {"createTemplate", "updateTemplate"} /\ fn \in LibraryWrites
    BY DEF LibraryWrites
  <2>2. Click([ui EXCEPT !.busy = {"save"}], r)
    BY <1>3 DEF SaveTemplate
  <2> HIDE DEF fn
  <2>3. New(r) /\ r.fn = fn /\ r.owner = {"screen", "dialog"}
    BY <1>2, <2>1, TemplateWrites
  <2> HIDE DEF r
  <2> QED BY <1>1, <2>1, <2>2, <2>3, TemplateClickInv
<1>4. CASE DeleteTemplate
  <2> DEFINE r == Call("deleteTemplate", Library, ui.dialog.row, 0, {"screen"}, 0)
  <2>1. "deleteTemplate" \in LibraryWrites
    BY DEF LibraryWrites
  <2>2. Click([ui EXCEPT !.busy = {"delete"}], r)
    BY <1>4 DEF DeleteTemplate
  <2>3. New(r) /\ r.fn = "deleteTemplate" /\ r.owner = {"screen"}
    BY <1>2, <2>1, TemplateWrites
  <2> HIDE DEF r
  <2> QED BY <1>1, <2>2, <2>3, TemplateClickInv
<1> QED BY <1>3, <1>4

(* A template has been written. *)
LEMMA TemplateSavedInv ==
  ASSUME Inv, NEW i \in Slots, TemplateSaved(i)
  PROVE  Inv'
<1>1. flight[i] # Idle /\ flight[i].fn \in LibraryWrites /\ Flights(flight)
  BY DEF TemplateSaved, Answered, Inv, Calls, CallsTyped
<1>2. Turns(flight, Done(i), {i}, {}, {}, {})
  BY <1>1, DoneTurns
<1>3. CASE flight[i].owner = {}
  <2>1. Client(ui, Done(i))
    BY <1>3 DEF TemplateSaved, Awaits
  <2>2. Within /\ ui' = ui /\ flight' = Done(i)
    BY <2>1, ClientWithin
  <2>3. \A r \in {} : New(r) /\ r.owner = {} /\ Writing(r)
    OBVIOUS
  <2> QED BY <1>1, <1>2, <1>3, <2>2, <2>3, AloneInv
<1>4. CASE flight[i].owner # {}
  <2>1. ui.at = "library"
    BY <1>1, <1>4, WhereItIs
  <2>2. /\ LibraryTyped(ui) /\ LibraryWait(ui, flight)
        /\ DOMAIN ui = {"at", "loading", "failed", "rows", "dialog", "busy"}
    BY <2>1, AtLibrary
  <2>3. PICK parts \in {{}, {"dialog"}} :
          /\ Within /\ Turns(flight, flight', {i}, parts, {}, {})
          /\ \/ ui' = ui /\ "screen" \notin flight[i].owner /\ parts = {}
             \/ /\ DOMAIN ui' = DOMAIN ui /\ ui'.at = "library" /\ ui'.loading = ui.loading /\ ui'.failed = ui.failed
                /\ ui'.dialog = Closed /\ ui'.busy = {}
             \/ /\ ui' = [ui EXCEPT !.busy = @ \ {"delete"}] /\ flight[i].fn = "deleteTemplate" /\ parts = {}
             \/ /\ ui' = [ui EXCEPT !.busy = {}] /\ parts = {}
             \/ /\ ui' = ui /\ flight[i].fn # "deleteTemplate" /\ "dialog" \notin flight[i].owner /\ parts = {}
    <3>2. CASE "screen" \notin flight[i].owner
      <4>1. Client(ui, Done(i))
        BY <3>2 DEF TemplateSaved, Awaits
      <4> QED BY <1>2, <3>2, <4>1, ClientWithin
    <3>3. CASE "screen" \in flight[i].owner /\ Got(i)
      <4> DEFINE v == IF Ready THEN [ui EXCEPT !.rows = Patched(@, i)] ELSE ui
      <4>1. Client([v EXCEPT !.dialog = Closed, !.busy = {}], Unmount(Done(i), {"dialog"}))
        BY <3>3 DEF TemplateSaved, Awaits, Shut
      <4>2. DOMAIN v = DOMAIN ui /\ v.at = "library" /\ v.loading = ui.loading /\ v.failed = ui.failed
        BY <2>1, <2>2
      <4> HIDE DEF v
      <4>3. Within /\ ui' = [v EXCEPT !.dialog = Closed, !.busy = {}] /\ flight' = Unmount(Done(i), {"dialog"})
        BY <4>1, ClientWithin
      <4>4. DOMAIN ui' = DOMAIN ui /\ ui'.at = "library" /\ ui'.loading = ui.loading /\ ui'.failed = ui.failed
            /\ ui'.dialog = Closed /\ ui'.busy = {}
        BY <2>2, <4>2, <4>3
      <4> QED BY <1>2, <4>3, <4>4, PartsTurn
    <3>4. CASE "screen" \in flight[i].owner /\ ~Got(i)
      <4>1. CASE flight[i].fn = "deleteTemplate"
        <5>1. Client([ui EXCEPT !.busy = @ \ {"delete"}], Done(i))
          BY <3>4, <4>1 DEF TemplateSaved, Awaits
        <5> QED BY <1>2, <4>1, <5>1, ClientWithin
      <4>2. CASE flight[i].fn # "deleteTemplate" /\ "dialog" \in flight[i].owner
        <5>1. Client([ui EXCEPT !.busy = {}], Done(i))
          BY <3>4, <4>2 DEF TemplateSaved, Awaits
        <5> QED BY <1>2, <5>1, ClientWithin
      <4>3. CASE flight[i].fn # "deleteTemplate" /\ "dialog" \notin flight[i].owner
        <5>1. Client(ui, Done(i))
          BY <3>4, <4>3 DEF TemplateSaved, Awaits
        <5> QED BY <1>2, <4>3, <5>1, ClientWithin
      <4> QED BY <4>1, <4>2, <4>3
    <3> QED BY <3>2, <3>3, <3>4
  <2>4. Turns(flight, flight', {i}, parts, {}, {})
    BY <2>3
  <2>5. /\ DOMAIN ui' = DOMAIN ui /\ ui'.at = "library" /\ ui'.loading = ui.loading /\ ui'.failed = ui.failed
        /\ ui'.dialog \in {ui.dialog, Closed} /\ ui'.busy \subseteq ui.busy
        /\ ui'.busy # {} => parts = {}
        /\ "delete" \in ui'.busy => ~(flight[i].fn = "deleteTemplate" /\ "screen" \in flight[i].owner)
        /\ "save" \in ui'.busy => ~(flight[i].fn # "deleteTemplate" /\ {"screen", "dialog"} \subseteq flight[i].owner)
    BY <2>1, <2>2, <2>3
  <2>6. LibraryTyped(ui')
    <3>1. IsDialog(Closed, {"create", "edit", "delete"})
      BY DEF IsDialog, Closed, Dialog
    <3> QED BY <2>2, <2>5, <3>1 DEF LibraryTyped
  <2>7. LibraryWait(ui', flight')
    <3>1. ComingLast(flight, "listTemplateLibrary") => ComingLast(flight', "listTemplateLibrary")
      BY <1>1, <2>3, <2>4, ComingLastOn DEF LibraryWrites
    <3>2. "delete" \in ui'.busy /\ Coming(flight, {"deleteTemplate"}, "screen") => Coming(flight', {"deleteTemplate"}, "screen")
      BY <2>4, <2>5, ComingOn
    <3>3. "save" \in ui'.busy /\ ComingFor(flight, {"createTemplate", "updateTemplate"}, {"screen", "dialog"}) =>
            ComingFor(flight', {"createTemplate", "updateTemplate"}, {"screen", "dialog"})
      BY <2>4, <2>5, ComingForOn
    <3> QED BY <2>1, <2>2, <2>5, <3>1, <3>2, <3>3 DEF LibraryWait
  <2>8. \A q \in {} : New(q) /\ Waiter(ui', q)
    OBVIOUS
  <2>9. Within /\ ui.at = "library" /\ ui'.at = "library"
    BY <2>1, <2>3, <2>5
  <2> QED BY <2>4, <2>6, <2>7, <2>8, <2>9, LibraryGoOn
<1> QED BY <1>3, <1>4

(* So does every step of the templates' screen. *)
LEMMA LibraryStepInv ==
  ASSUME Inv, LibraryStep
  PROVE  Inv'
<1>1. DOMAIN flight = Slots
  BY DEF Inv, Calls, CallsTyped, Flights
<1> QED BY <1>1, OpenLibraryInv, RetryLibraryInv, OpenTemplateDialogInv, CloseTemplateDialogInv, TemplateClicks,
           LibraryLoadedInv, TemplateSavedInv DEF LibraryStep

-----------------------------------------------------------------------------
(* The list of workspaces.                                                 *)

(* A step of this screen keeps the invariant if it keeps the screen's part. *)
LEMMA ListGoOn ==
  ASSUME Inv, Within, ui.at = "list", NEW gone, NEW parts, NEW fns, NEW new,
         Turns(flight, flight', gone, parts, fns, new), \A r \in new : New(r) /\ Waiter(ui', r), ui'.at = "list",
         ListTyped(ui'), ListWait(ui', flight')
  PROVE  Inv'
<1>1. ScreenTyped(ui') /\ Waits(ui', flight')
  BY DEF ScreenTyped, Waits, ProvidersWait, LibraryWait, DetailWait
<1> QED BY <1>1, InStep

(* What there is on this screen. *)
LEMMA AtList ==
  ASSUME Inv, ui.at = "list"
  PROVE  /\ ListTyped(ui) /\ ListWait(ui, flight) /\ Flights(flight) /\ token \in Nat
         /\ DOMAIN ui = {"at", "loading", "failed", "rows", "total", "page", "dialog", "busy"}
BY DEF Inv, Screen, ScreenTyped, Waits, Calls, CallsTyped, ListTyped, ListScreen

(* The load of a page. *)
LEMMA ListWorkspacesIs ==
  ASSUME token \in Nat, NEW p \in Nat
  PROVE  /\ New(ListWorkspaces(p)) /\ ListWorkspaces(p).fn = "listWorkspaces" /\ ListWorkspaces(p).owner = {"screen"}
         /\ ListWorkspaces(p).row = p
<1> DEFINE r == ListWorkspaces(p)
<1>1. "listWorkspaces" \in DOMAIN Verb /\ Workspaces \in Table /\ {"screen"} \in SUBSET Parts /\ 0 \in Nat
  BY DEF Verb, Table, Parts
<1>2. r = Call("listWorkspaces", Workspaces, p, 0, {"screen"}, 0)
  BY DEF ListWorkspaces
<1> HIDE DEF r
<1>3. /\ IsRequest(r) /\ r.fn = "listWorkspaces" /\ r.table = Workspaces /\ r.owner = {"screen"} /\ r.token = token
      /\ r.reply = Pending /\ r.row = p
  BY <1>1, <1>2, CallIs
<1>4. New(r)
  <2>1. TableOf(r)
    BY <1>3 DEF TableOf, LibraryWrites, AskedOf, BusyOf
  <2> QED BY <1>3, <2>1 DEF New, Asked
<1> QED BY <1>3, <1>4 DEF r

(* No load is newer than one that has just been made. *)
LEMMA ListWorkspacesIsLatest ==
  ASSUME NEW p
  PROVE  ListWorkspaces(p).latest
BY CallIsLatest DEF ListWorkspaces

(* There is a last page. *)
LEMMA PagesTyped ==
  ASSUME NEW total \in Nat
  PROVE  Pages(total) \in Nat
<1>1. PageSize \in Nat /\ PageSize > 0
  BY ConsoleAssumption
<1>2. CASE total = 0
  BY <1>2 DEF Pages
<1>3. CASE total # 0
  <2>1. total + PageSize - 1 \in Nat
    BY <1>1, <1>3
  <2>2. (total + PageSize - 1) \div PageSize \in Nat
    BY <1>1, <2>1, Z3
  <2> QED BY <1>3, <2>2 DEF Pages
<1> QED BY <1>2, <1>3

(* The list as it is mounted waits for its load. *)
LEMMA ListMounted ==
  ASSUME NEW f, ComingLast(f, "listWorkspaces")
  PROVE  ScreenTyped(ListScreen) /\ Waits(ListScreen, f)
BY DEF ListScreen, Closed, Dialog, IsDialog, ScreenTyped, ListTyped, Waits, ProvidersWait, LibraryWait, ListWait, DetailWait

(* OpenList: the screen mounts and waits for the page it asks for. *)
LEMMA OpenListInv ==
  ASSUME Inv, OpenList
  PROVE  Inv'
<1> DEFINE r == ListWorkspaces(1)
           v == ListScreen
<1>1. New(r) /\ r.fn = "listWorkspaces" /\ r.owner = {"screen"}
  BY ListWorkspacesIs DEF Inv, Calls, CallsTyped
<1>2. Waiter(v, r) /\ v.at = "list"
  BY <1>1 DEF Waiter, ListScreen
<1>3. r.latest
  BY ListWorkspacesIsLatest
<1> HIDE DEF r, v
<1>4. <<r>> \in Seq({r}) /\ Len(<<r>>) =< 2 /\ ToSet(<<r>>) = {r} /\ \A q \in {r} : New(q) /\ Waiter(v, q)
  BY <1>1, <1>2 DEF ToSet
<1>5. Navigate(v, <<r>>)
  BY DEF OpenList, r, v
<1>6. /\ Calls' /\ ui' = v /\ Waiters(v, flight')
      /\ Turns(flight, flight', {}, Parts, {}, {r})
  <2>1. v.at # "login"
    BY <1>2
  <2> QED BY <1>4, <1>5, <2>1, NavigateInv
<1>7. ComingLast(flight', "listWorkspaces")
  BY <1>1, <1>3, <1>6, NewComes DEF New
<1>8. ScreenTyped(v) /\ Waits(v, flight')
  BY <1>7, ListMounted DEF v
<1> QED BY <1>6, <1>8 DEF Inv, Screen

(* A page is loaded. *)
LEMMA LoadPageInv ==
  ASSUME Inv, ui.at = "list", NEW v, ListTyped(v), v.at = "list", NEW p \in Nat,
         NEW f, NEW gone, Turns(flight, f, gone, {}, {}, {}), FreeSlots(f) # {},
         LoadPage(v, f, p) \/ SnapBack(v, f, p)
  PROVE  Inv'
<1> DEFINE r == ListWorkspaces(p)
<1>1. /\ Within /\ flight' = Send(Supersede(f, {"listWorkspaces"}), r)
      /\ ui' = [v EXCEPT !.loading = TRUE, !.failed = FALSE, !.rows = <<>>, !.total = 0, !.busy = {}]
  <2>1. CASE LoadPage(v, f, p)
    BY <2>1, ClientWithin DEF LoadPage, Reloading, LoadLatest
  <2>2. CASE SnapBack(v, f, p)
    <3>1. Straying({token}) \subseteq {token}
      BY DEF Straying
    <3>2. Within
      BY <2>2, <3>1 DEF SnapBack, Within, serverVars, countVars, Inv, Calls, CallsTyped, Given
    <3> QED BY <2>2, <3>2 DEF SnapBack, Reloading, LoadLatest
  <2> QED BY <2>1, <2>2
<1>2. New(r) /\ r.fn = "listWorkspaces" /\ r.owner = {"screen"}
  BY ListWorkspacesIs DEF Inv, Calls, CallsTyped
<1>3. r.latest
  BY ListWorkspacesIsLatest
<1> HIDE DEF r
<1>4. Turns(flight, flight', gone, {}, {"listWorkspaces"}, {r})
  <2>1. Turns(f, flight', {}, {}, {"listWorkspaces"}, {r})
    BY <1>1, <1>2, ReloadTurns DEF New, Turns
  <2> QED BY <2>1, ThenTurns
<1>5. DOMAIN v = {"at", "loading", "failed", "rows", "total", "page", "dialog", "busy"}
  BY DEF ListTyped, ListScreen
<1>6. /\ DOMAIN ui' = DOMAIN v /\ ui'.at = "list" /\ ui'.loading \in BOOLEAN /\ ui'.failed \in BOOLEAN
      /\ ui'.total \in Nat /\ ui'.page = v.page /\ ui'.dialog = v.dialog /\ ui'.busy = {}
  BY <1>1, <1>5
<1>7. ListTyped(ui')
  <2>1. IsDialog(v.dialog, {"create"}) /\ v.page \in Nat /\ DOMAIN v = DOMAIN ListScreen
    BY DEF ListTyped
  <2> QED BY <1>6, <2>1 DEF ListTyped
<1>8. ListWait(ui', flight')
  <2>1. ComingLast(flight', "listWorkspaces")
    BY <1>2, <1>3, <1>4, NewComes DEF New
  <2> QED BY <1>6, <2>1 DEF ListWait
<1>9. \A q \in {r} : New(q) /\ Waiter(ui', q)
  BY <1>2, <1>6 DEF Waiter
<1>10. Within /\ ui'.at = "list"
  BY <1>1, <1>6
<1> QED BY <1>4, <1>7, <1>8, <1>9, <1>10, ListGoOn

(* A change of this screen without a load. *)
LEMMA ListStayInv ==
  ASSUME Inv, ui.at = "list", Within, NEW gone, NEW new, Turns(flight, flight', gone, {}, {}, new),
         DOMAIN ui' = DOMAIN ui, ui'.at = "list", ui'.failed \in BOOLEAN, ui'.total \in Nat, ui'.page = ui.page,
         ui'.loading \in BOOLEAN, ui'.loading => ui.loading, IsDialog(ui'.dialog, {"create"}),
         ui'.busy = {} \/ (ui'.busy = ui.busy /\ \A i \in gone : flight[i].fn # "createWorkspace")
                       \/ (ui'.busy = {"create"} /\ \E r \in new : r.fn = "createWorkspace" /\ "screen" \in r.owner),
         \A i \in gone : ui'.loading => ~(flight[i].fn = "listWorkspaces" /\ flight[i].latest),
         \A r \in new : New(r) /\ r.fn = "createWorkspace" /\ r.owner = {"screen"}
  PROVE  Inv'
<1>1. ListTyped(ui) /\ ListWait(ui, flight)
  BY AtList
<1>2. ListTyped(ui')
  BY <1>1 DEF ListTyped
<1>3. ListWait(ui', flight')
  <2>1. ui'.loading /\ ComingLast(flight, "listWorkspaces") => ComingLast(flight', "listWorkspaces")
    BY ComingLastOn
  <2>2. (\A i \in gone : flight[i].fn # "createWorkspace") /\ Coming(flight, {"createWorkspace"}, "screen") =>
          Coming(flight', {"createWorkspace"}, "screen")
    BY ComingOn
  <2>3. ASSUME NEW r \in new, r.fn = "createWorkspace" /\ "screen" \in r.owner
        PROVE  Coming(flight', {"createWorkspace"}, "screen")
    BY <2>3, NewComes DEF New
  <2> QED BY <1>1, <2>1, <2>2, <2>3 DEF ListWait
<1>4. \A q \in new : New(q) /\ Waiter(ui', q)
  BY DEF Waiter
<1> QED BY <1>2, <1>3, <1>4, ListGoOn

(* PageLoaded: the page comes, or fails; the page of an earlier effect is dropped. *)
LEMMA PageLoadedInv ==
  ASSUME Inv, NEW i \in Slots, PageLoaded(i)
  PROVE  Inv'
<1>1. flight[i] # Idle /\ flight[i].fn = "listWorkspaces" /\ flight[i].owner # {}
  BY DEF PageLoaded, Answered, Awaits
<1>2. ui.at = "list"
  BY <1>1, WhereItIs
<1>3. /\ ListTyped(ui) /\ Flights(flight)
      /\ DOMAIN ui = {"at", "loading", "failed", "rows", "total", "page", "dialog", "busy"}
  BY <1>2, AtList
<1>4. Turns(flight, Done(i), {i}, {}, {}, {}) /\ FreeSlots(Done(i)) # {}
  BY <1>3, DoneTurns, WasDone
<1>5. IsDialog(ui.dialog, {"create"}) /\ ui.page \in Nat /\ ui.total \in Nat /\ ui.loading \in BOOLEAN /\ ui.failed \in BOOLEAN
  BY <1>3 DEF ListTyped
<1>6. ASSUME Within, flight' = Done(i), DOMAIN ui' = DOMAIN ui, ui'.at = "list", ui'.failed \in BOOLEAN, ui'.total \in Nat,
             ui'.page = ui.page, ui'.dialog = ui.dialog, ui'.busy \in {{}, ui.busy}, ui'.loading \in BOOLEAN,
             ui'.loading => ui.loading /\ ~flight[i].latest
      PROVE  Inv'
  BY <1>1, <1>2, <1>4, <1>5, <1>6, ListStayInv
<1>7. CASE ~flight[i].latest
  <2>1. Client(ui, Done(i))
    BY <1>7 DEF PageLoaded
  <2>2. Within /\ flight' = Done(i) /\ ui' = ui
    BY <2>1, ClientWithin
  <2> QED BY <1>2, <1>5, <1>6, <1>7, <2>2
<1>8. CASE flight[i].latest /\ Got(i)
  <2> DEFINE last == Pages(Result(i).total)
  <2>1. Result(i).total \in Nat
    BY <1>1, <1>8 DEF Inv, Calls, CallsTyped, Replies, Got, Result
  <2>2. last \in Nat
    BY <2>1, PagesTyped
  <2>3. CASE ui.page > last
    <3> DEFINE v == [ui EXCEPT !.page = last]
    <3>1. LoadPage(v, Done(i), last)
      BY <1>8, <2>3 DEF PageLoaded
    <3> HIDE DEF last
    <3>2. /\ DOMAIN v = DOMAIN ui /\ v.at = "list" /\ v.loading = ui.loading /\ v.failed = ui.failed /\ v.total = ui.total
          /\ v.page = last /\ v.dialog = ui.dialog /\ v.busy = ui.busy
      BY <1>2, <1>3
    <3> HIDE DEF v
    <3>3. ListTyped(v)
      BY <1>3, <2>2, <3>2 DEF ListTyped
    <3> QED BY <1>2, <1>4, <2>2, <3>1, <3>2, <3>3, LoadPageInv
  <2>4. CASE ~(ui.page > last)
    <3> DEFINE v == [ui EXCEPT !.rows = Result(i).rows, !.total = Result(i).total, !.loading = FALSE, !.busy = {}]
    <3>1. Client(v, Done(i))
      BY <1>8, <2>4 DEF PageLoaded
    <3>2. Within /\ flight' = Done(i) /\ ui' = v
      BY <3>1, ClientWithin
    <3>3. /\ DOMAIN ui' = DOMAIN ui /\ ui'.at = "list" /\ ui'.failed \in BOOLEAN /\ ui'.total \in Nat
          /\ ui'.page = ui.page /\ ui'.dialog = ui.dialog /\ ui'.busy = {} /\ ~ui'.loading /\ ui'.loading \in BOOLEAN
      BY <1>2, <1>3, <1>5, <2>1, <3>2
    <3> QED BY <1>6, <3>2, <3>3
  <2> QED BY <2>3, <2>4
<1>9. CASE flight[i].latest /\ ~Got(i)
  <2> DEFINE v == [ui EXCEPT !.loading = FALSE, !.failed = TRUE, !.busy = {}]
  <2>1. Client(v, Done(i))
    BY <1>9 DEF PageLoaded
  <2>2. Within /\ flight' = Done(i) /\ ui' = v
    BY <2>1, ClientWithin
  <2>3. /\ DOMAIN ui' = DOMAIN ui /\ ui'.at = "list" /\ ui'.failed \in BOOLEAN /\ ui'.total \in Nat
        /\ ui'.page = ui.page /\ ui'.dialog = ui.dialog /\ ui'.busy = {} /\ ~ui'.loading /\ ui'.loading \in BOOLEAN
    BY <1>2, <1>3, <1>5, <2>2
  <2> QED BY <1>6, <2>2, <2>3
<1>10. flight[i].latest \in BOOLEAN
  BY <1>1, <1>3 DEF Flights, IsRequest
<1> QED BY <1>7, <1>8, <1>9, <1>10

(* PickPage: the effect of the new page supersedes that of the old one. *)
LEMMA PickPageInv ==
  ASSUME Inv, NEW p, PickPage(p)
  PROVE  Inv'
<1> DEFINE v == [ui EXCEPT !.page = p]
<1>1. ui.at = "list" /\ Room(1) /\ LoadPage(v, flight, p) /\ p \in 1 .. Pages(ui.total)
  BY DEF PickPage
<1>2. /\ ListTyped(ui) /\ Flights(flight)
      /\ DOMAIN ui = {"at", "loading", "failed", "rows", "total", "page", "dialog", "busy"}
  BY <1>1, AtList
<1>3. p \in Nat
  BY <1>1, <1>2, PagesTyped DEF ListTyped
<1>4. Turns(flight, flight, {}, {}, {}, {}) /\ FreeSlots(flight) # {}
  BY <1>1, <1>2, TurnsAsIs, RoomIsFree
<1>5. /\ DOMAIN v = DOMAIN ui /\ v.at = "list" /\ v.loading = ui.loading /\ v.failed = ui.failed /\ v.total = ui.total
      /\ v.page = p /\ v.dialog = ui.dialog /\ v.busy = ui.busy
  BY <1>1, <1>2
<1> HIDE DEF v
<1>6. ListTyped(v)
  BY <1>2, <1>3, <1>5 DEF ListTyped
<1> QED BY <1>1, <1>3, <1>4, <1>5, <1>6, LoadPageInv

(* RetryList: the page is asked for anew. *)
LEMMA RetryListInv ==
  ASSUME Inv, RetryList
  PROVE  Inv'
<1>1. ui.at = "list" /\ Room(1) /\ LoadPage(ui, flight, ui.page)
  BY DEF RetryList
<1>2. ListTyped(ui) /\ Flights(flight)
  BY <1>1, AtList
<1>3. Turns(flight, flight, {}, {}, {}, {}) /\ FreeSlots(flight) # {}
  BY <1>1, <1>2, TurnsAsIs, RoomIsFree
<1>4. ui.page \in Nat
  BY <1>2 DEF ListTyped
<1> QED BY <1>1, <1>2, <1>3, <1>4, LoadPageInv

(* ToggleCreate: the row of the new workspace opens, or goes while its request may be under way. *)
LEMMA ToggleCreateInv ==
  ASSUME Inv, ToggleCreate
  PROVE  Inv'
<1> DEFINE d == IF ui.dialog = Closed THEN Dialog("create", 0) ELSE Closed
<1>1. ui.at = "list" /\ Within /\ flight' = flight /\ ui' = [ui EXCEPT !.dialog = d, !.busy = {}]
  BY ClientWithin DEF ToggleCreate
<1>2. IsDialog(d, {"create"})
  BY DEF IsDialog, Closed, Dialog
<1> HIDE DEF d
<1>3. /\ ListTyped(ui) /\ Flights(flight)
      /\ DOMAIN ui = {"at", "loading", "failed", "rows", "total", "page", "dialog", "busy"}
  BY <1>1, AtList
<1>4. /\ DOMAIN ui' = DOMAIN ui /\ ui'.at = "list" /\ ui'.failed = ui.failed /\ ui'.total = ui.total
      /\ ui'.page = ui.page /\ ui'.dialog = d /\ ui'.busy = {} /\ ui'.loading = ui.loading
  BY <1>1, <1>3
<1>5. Turns(flight, flight', {}, {}, {}, {})
  BY <1>1, <1>3, TurnsAsIs
<1>6. ui.at = "list" /\ Within
  BY <1>1
<1> QED BY <1>2, <1>3, <1>4, <1>5, <1>6, ListStayInv DEF ListTyped

(* CreateWorkspace: the button is busy, and the request on its way. *)
LEMMA CreateWorkspaceInv ==
  ASSUME Inv, CreateWorkspace
  PROVE  Inv'
<1> DEFINE m == [page |-> ui.page, total |-> ui.total]
           r == Call("createWorkspace", Workspaces, 0, Fresh, {"screen"}, m)
           v == [ui EXCEPT !.busy = {"create"}]
<1>1. ui.at = "list" /\ Click(v, r)
  BY DEF CreateWorkspace
<1>2. /\ ListTyped(ui) /\ Flights(flight) /\ token \in Nat
      /\ DOMAIN ui = {"at", "loading", "failed", "rows", "total", "page", "dialog", "busy"}
  BY <1>1, AtList
<1>3. m.total \in Nat
  BY <1>2 DEF ListTyped
<1> HIDE DEF m
<1>4. /\ IsRequest(r) /\ r.fn = "createWorkspace" /\ r.table = Workspaces /\ r.owner = {"screen"} /\ r.token = token
      /\ r.reply = Pending /\ r.memo = m
  <2>1. "createWorkspace" \in DOMAIN Verb /\ Workspaces \in Table /\ {"screen"} \in SUBSET Parts /\ Fresh \in Nat
    BY DEF Verb, Table, Parts, Fresh, Inv, Calls, CallsTyped
  <2> QED BY <1>2, <2>1, CallIs
<1> HIDE DEF r
<1>5. New(r)
  <2>1. TableOf(r)
    BY <1>4 DEF TableOf, LibraryWrites, AskedOf, BusyOf
  <2> QED BY <1>3, <1>4, <2>1 DEF New, Asked
<1>6. Within /\ ui' = v /\ Turns(flight, flight', {}, {}, {}, {r})
  BY <1>1, <1>4, ClickWithin
<1>7. /\ DOMAIN ui' = DOMAIN ui /\ ui'.at = "list" /\ ui'.failed = ui.failed /\ ui'.total = ui.total
      /\ ui'.page = ui.page /\ ui'.dialog = ui.dialog /\ ui'.busy = {"create"} /\ ui'.loading = ui.loading
  BY <1>1, <1>2, <1>6
<1>8. ui.at = "list" /\ Within /\ Turns(flight, flight', {}, {}, {}, {r})
  BY <1>1, <1>6
<1>9. \A q \in {r} : New(q) /\ q.fn = "createWorkspace" /\ q.owner = {"screen"}
  BY <1>4, <1>5
<1>10. \E q \in {r} : q.fn = "createWorkspace" /\ "screen" \in q.owner
  BY <1>4
<1>11. /\ ui'.failed \in BOOLEAN /\ ui'.total \in Nat /\ ui'.loading \in BOOLEAN
       /\ ui'.loading => ui.loading
       /\ IsDialog(ui'.dialog, {"create"})
  BY <1>2, <1>7 DEF ListTyped
<1> QED BY <1>7, <1>8, <1>9, <1>10, <1>11, ListStayInv

(* WorkspaceCreated: the button is free again, and the page is asked for anew if it was created. *)
LEMMA WorkspaceCreatedInv ==
  ASSUME Inv, NEW i \in Slots, WorkspaceCreated(i)
  PROVE  Inv'
<1> DEFINE m == flight[i].memo
           last == Pages(m.total + 1)
           screen == [ui EXCEPT !.dialog = Closed, !.busy = {}]
<1>1. flight[i] # Idle /\ flight[i].fn = "createWorkspace" /\ Flights(flight) /\ m.total \in Nat /\ IsRequest(flight[i])
  BY DEF WorkspaceCreated, Answered, Inv, Calls, CallsTyped, Asked, Flights
<1>2. Turns(flight, Done(i), {i}, {}, {}, {}) /\ FreeSlots(Done(i)) # {}
  BY <1>1, DoneTurns, WasDone
<1>3. CASE ~Awaits(i, "screen")
  <2>1. Within /\ ui' = ui /\ flight' = Done(i)
    <3>1. Client(ui, Done(i))
      BY <1>3 DEF WorkspaceCreated
    <3> QED BY <3>1, ClientWithin
  <2>2. flight[i].owner = {}
    <3>1. Waiter(ui, flight[i]) /\ flight[i].owner \subseteq Parts
      BY <1>1 DEF Inv, Screen, Waiters, IsRequest
    <3>2. flight[i].owner # {} => ui.at = "list"
      BY <1>1, WhereItIs
    <3> QED BY <1>3, <3>1, <3>2 DEF Waiter, Parts, Awaits
  <2>3. \A q \in {} : New(q) /\ q.owner = {} /\ Writing(q)
    OBVIOUS
  <2> QED BY <1>1, <1>2, <2>1, <2>2, <2>3, AloneInv
<1>4. ASSUME Awaits(i, "screen")
      PROVE  /\ ui.at = "list" /\ ListTyped(ui)
             /\ DOMAIN ui = {"at", "loading", "failed", "rows", "total", "page", "dialog", "busy"}
  <2>1. flight[i].owner # {}
    BY <1>4 DEF Awaits
  <2>2. ui.at = "list"
    BY <1>1, <2>1, WhereItIs
  <2> QED BY <2>2, AtList
<1>5. last \in Nat
  <2>1. m.total + 1 \in Nat
    BY <1>1
  <2> QED BY <2>1, PagesTyped
<1>6. ASSUME Awaits(i, "screen"), Within, flight' = Done(i), DOMAIN ui' = DOMAIN ui, ui'.at = "list", ui'.failed = ui.failed,
             ui'.total = ui.total, ui'.page = ui.page, ui'.loading = ui.loading, ui'.busy = {}, ui'.dialog \in {ui.dialog, Closed}
      PROVE  Inv'
  <2>1. IsDialog(ui'.dialog, {"create"})
    <3>1. IsDialog(Closed, {"create"})
      BY DEF IsDialog, Closed, Dialog
    <3>2. IsDialog(ui.dialog, {"create"})
      BY <1>4, <1>6 DEF ListTyped
    <3> QED BY <1>6, <3>1, <3>2
  <2>2. ui.failed \in BOOLEAN /\ ui.total \in Nat /\ ui.loading \in BOOLEAN /\ ui.at = "list"
    BY <1>4, <1>6 DEF ListTyped
  <2>3. Turns(flight, flight', {i}, {}, {}, {})
    BY <1>2, <1>6
  <2> QED BY <1>1, <1>6, <2>1, <2>2, <2>3, ListStayInv
<1>7. CASE Awaits(i, "screen") /\ ~Got(i)
  <2>1. Client([ui EXCEPT !.busy = {}], Done(i))
    BY <1>7 DEF WorkspaceCreated
  <2>2. Within /\ ui' = [ui EXCEPT !.busy = {}] /\ flight' = Done(i)
    BY <2>1, ClientWithin
  <2>3. /\ DOMAIN ui' = DOMAIN ui /\ ui'.at = "list" /\ ui'.failed = ui.failed /\ ui'.total = ui.total /\ ui'.page = ui.page
        /\ ui'.loading = ui.loading /\ ui'.busy = {} /\ ui'.dialog = ui.dialog
    BY <1>4, <1>7, <2>2
  <2> QED BY <1>6, <1>7, <2>2, <2>3
<1>8. CASE Awaits(i, "screen") /\ Got(i)
  <2>1. /\ DOMAIN screen = DOMAIN ui /\ screen.at = "list" /\ screen.failed = ui.failed /\ screen.total = ui.total
        /\ screen.page = ui.page /\ screen.loading = ui.loading /\ screen.busy = {} /\ screen.dialog = Closed
    BY <1>4, <1>8
  <2>2. ListTyped(screen)
    <3>1. IsDialog(Closed, {"create"})
      BY DEF IsDialog, Closed, Dialog
    <3> HIDE DEF screen
    <3> QED BY <1>4, <1>8, <2>1, <3>1 DEF ListTyped
  <2>3. CASE last = m.page
    <3>1. LoadPage(screen, Done(i), m.page)
      BY <1>8, <2>3 DEF WorkspaceCreated
    <3> HIDE DEF screen, last
    <3> QED BY <1>2, <1>4, <1>5, <1>8, <2>1, <2>2, <2>3, <3>1, LoadPageInv
  <2>4. CASE last # m.page /\ last = ui.page
    <3>1. Client(screen, Done(i))
      BY <1>8, <2>4 DEF WorkspaceCreated
    <3> HIDE DEF screen, last
    <3>2. Within /\ ui' = screen /\ flight' = Done(i)
      BY <3>1, ClientWithin
    <3> QED BY <1>6, <1>8, <2>1, <3>2
  <2>5. CASE last # m.page /\ last # ui.page
    <3> DEFINE v(p) == [screen EXCEPT !.page = p]
               back == Pages(ui.total)
    <3>1. LoadPage(v(last), Done(i), last) \/ SnapBack(v(back), Done(i), back)
      BY <1>8, <2>5 DEF WorkspaceCreated
    <3>2. back \in Nat
      BY <1>4, <1>8, PagesTyped DEF ListTyped
    <3> HIDE DEF screen, last, back
    <3>3. PICK p \in {last, back} : LoadPage(v(p), Done(i), p) \/ SnapBack(v(p), Done(i), p)
      BY <3>1
    <3>4. /\ DOMAIN v(p) = DOMAIN screen /\ v(p).at = "list" /\ v(p).failed = screen.failed /\ v(p).total = screen.total
          /\ v(p).page = p /\ v(p).loading = screen.loading /\ v(p).busy = screen.busy /\ v(p).dialog = screen.dialog
      BY <1>4, <1>8, <2>1
    <3>5. p \in Nat
      BY <1>5, <3>2
    <3>6. PICK x : x = v(p)
      OBVIOUS
    <3> HIDE DEF v
    <3>7. ListTyped(x)
      BY <2>2, <3>4, <3>5, <3>6 DEF ListTyped
    <3> QED BY <1>2, <1>4, <1>8, <3>3, <3>4, <3>5, <3>6, <3>7, LoadPageInv
  <2> QED BY <2>3, <2>4, <2>5
<1> QED BY <1>3, <1>7, <1>8

(* So does every step of the list. *)
LEMMA ListStepInv ==
  ASSUME Inv, ListStep
  PROVE  Inv'
<1>1. DOMAIN flight = Slots
  BY DEF Inv, Calls, CallsTyped, Flights
<1> QED BY <1>1, OpenListInv, RetryListInv, ToggleCreateInv, CreateWorkspaceInv, PickPageInv, PageLoadedInv,
           WorkspaceCreatedInv DEF ListStep

-----------------------------------------------------------------------------
(* The screen of one workspace.                                            *)

(* What there is on this screen. *)
LEMMA AtDetail ==
  ASSUME Inv, ui.at = "detail"
  PROVE  /\ DetailTyped(ui) /\ DetailWait(ui, flight) /\ Flights(flight) /\ token \in Nat
         /\ DOMAIN ui = {"at", "id", "loading", "failed", "gone", "rows", "roster", "rosterFailed", "tab", "panel",
                         "panelFailed", "dialog", "pool", "busy", "busyId"}
         /\ \A i \in Slots : flight[i] # Idle => Waiter(ui, flight[i]) /\ IsRequest(flight[i])
BY DEF Inv, Screen, ScreenTyped, Waits, Waiters, Calls, CallsTyped, DetailTyped, DetailScreen, Flights

(* A step of this screen keeps the invariant if it keeps the screen's part. *)
LEMMA DetailGoOn ==
  ASSUME Inv, Within, ui.at = "detail", NEW gone, NEW parts, NEW fns, NEW new,
         Turns(flight, flight', gone, parts, fns, new), \A r \in new : New(r) /\ Waiter(ui', r), ui'.at = "detail",
         "tab" \in parts \/ (IsSettled(ui) => IsSettled(ui') /\ ui'.tab = ui.tab),
         \/ "dialog" \in parts \/ ui.dialog.kind = "closed"
         \/ IsSettled(ui) => IsSettled(ui') /\ ui'.dialog.kind = ui.dialog.kind,
         DetailTyped(ui'), DetailWait(ui', flight')
  PROVE  Inv'
<1>1. ScreenTyped(ui') /\ Waits(ui', flight')
  BY DEF ScreenTyped, Waits, ProvidersWait, LibraryWait, ListWait
<1> QED BY <1>1, InStep

(* No latest load is answered or superseded. *)
Spared(fn, gone, fns) == fn \notin fns /\ \A i \in gone : flight[i].fn = fn => ~flight[i].latest

(* The loads of the screen stay on their way. *)
LEMMA LoadsGoOn ==
  ASSUME Inv, ui.at = "detail", NEW gone, NEW parts, NEW fns, NEW new,
         Turns(flight, flight', gone, parts, fns, new), "screen" \notin parts
  PROVE  /\ Spared("getWorkspace", gone, fns) /\ ui.loading => ComingLast(flight', "getWorkspace")
         /\ Spared("listMembers", gone, fns) /\ ui.roster = NoList /\ ~ui.rosterFailed => ComingLast(flight', "listMembers")
<1>1. DetailWait(ui, flight)
  BY AtDetail
<1>2. \A fn : Spared(fn, gone, fns) /\ ComingLast(flight, fn) => ComingLast(flight', fn)
  BY ComingLastOn DEF Spared
<1> QED BY <1>1, <1>2 DEF DetailWait, RosterWait

(* What the buttons wait for stays on its way. *)
LEMMA BusyGoesOn ==
  ASSUME Inv, ui.at = "detail", NEW gone, NEW parts, NEW fns, NEW new,
         Turns(flight, flight', gone, parts, fns, new), "screen" \notin parts, ui'.busy \subseteq ui.busy,
         "roles" \in ui'.busy =>
           ui'.dialog.kind = "roles" /\ (RolesComing(flight') \/
             (parts = {} /\ \A i \in gone : flight[i].fn \notin {"replaceMemberRoles", "listMembers"})),
         "addMember" \in ui'.busy =>
           ui'.dialog.kind = "addMember" /\ "dialog" \notin parts /\
             (AddComing(flight') \/ \A i \in gone : flight[i].fn # "addMember"),
         ui'.busy # {} => "tab" \notin parts \/ ui'.busy \subseteq {"addMember"},
         \A i \in gone :
           /\ flight[i].fn = "saveGuardrailPolicy" => "policy" \notin ui'.busy \/ "tab" \notin flight[i].owner
           /\ flight[i].fn = "updateWorkspace" => "rename" \notin ui'.busy \/ "tab" \notin flight[i].owner
           /\ flight[i].fn = "deleteWorkspace" => "delete" \notin ui'.busy \/ "tab" \notin flight[i].owner,
         ui'.busyId # 0 =>
           \/ AttachComing(flight') \/ Coming(flight', {"setProviderEnabled"}, "tab")
           \/ ui.busyId # 0 /\ parts = {} /\ \A i \in gone : flight[i].fn \notin {"attachTemplate", "setProviderEnabled"}
  PROVE  BusyWait(ui', flight')
<1>1. BusyWait(ui, flight)
  BY AtDetail DEF DetailWait
<1>2. "roles" \in ui'.busy => RolesComing(flight') /\ ui'.dialog.kind = "roles"
  BY <1>1, RolesOn DEF BusyWait
<1>3. "addMember" \in ui'.busy => AddComing(flight') /\ ui'.dialog.kind = "addMember"
  BY <1>1, ComingForOn DEF BusyWait, AddComing
<1>4. "policy" \in ui'.busy => Coming(flight', {"saveGuardrailPolicy"}, "tab")
  BY <1>1, ComingOn DEF BusyWait
<1>5. "rename" \in ui'.busy => Coming(flight', {"updateWorkspace"}, "tab")
  BY <1>1, ComingOn DEF BusyWait
<1>6. "delete" \in ui'.busy => Coming(flight', {"deleteWorkspace"}, "tab")
  BY <1>1, ComingOn DEF BusyWait
<1>7. ui'.busyId # 0 => AttachComing(flight') \/ Coming(flight', {"setProviderEnabled"}, "tab")
  <2>1. ASSUME ui.busyId # 0, parts = {}, \A i \in gone : flight[i].fn \notin {"attachTemplate", "setProviderEnabled"}
        PROVE  AttachComing(flight') \/ Coming(flight', {"setProviderEnabled"}, "tab")
    <3>1. CASE AttachComing(flight)
      BY <2>1, <3>1, ComingForOn DEF AttachComing
    <3>2. CASE Coming(flight, {"setProviderEnabled"}, "tab")
      BY <2>1, <3>2, ComingOn
    <3> QED BY <1>1, <2>1, <3>1, <3>2 DEF BusyWait
  <2> QED BY <2>1
<1> QED BY <1>2, <1>3, <1>4, <1>5, <1>6, <1>7 DEF BusyWait

(* What a tab shows stays, or stays on its way. *)
LEMMA PanelGoesOn ==
  ASSUME Inv, ui.at = "detail", NEW gone, NEW parts, NEW fns, NEW new,
         Turns(flight, flight', gone, parts, fns, new),
         \/ ~IsSettled(ui') \/ ui'.tab \notin DOMAIN PanelTable \/ ui'.panel # NoList \/ ui'.panelFailed
         \/ Coming(flight', PanelFns, "tab")
         \/ /\ IsSettled(ui) /\ ui.panel = NoList /\ ui'.tab = ui.tab /\ ~ui.panelFailed /\ "tab" \notin parts
            /\ \A i \in gone : flight[i].fn \notin PanelFns,
         ui'.tab = "templates" /\ ui'.panel = NoList =>
           /\ \A r \in new : r.fn \notin TabWrites
           /\ "tab" \in parts \/ (ui.tab = "templates" /\ ui.panel = NoList) \/ ~IsSettled(ui)
  PROVE  PanelWait(ui', flight')
<1>1. PanelWait(ui, flight)
  BY AtDetail DEF DetailWait
<1>2. \/ ~IsSettled(ui') \/ ui'.tab \notin DOMAIN PanelTable \/ ui'.panel # NoList \/ ui'.panelFailed
      \/ Coming(flight', PanelFns, "tab")
  BY <1>1, ComingOn DEF PanelWait
<1>3. ASSUME ui'.tab = "templates", ui'.panel = NoList, Coming(flight', TabWrites, "tab") PROVE FALSE
  <2>1. "tab" \notin parts /\ Coming(flight, TabWrites, "tab")
    BY <1>3, ComingBefore
  <2>2. ~IsSettled(ui)
    BY <1>1, <1>3, <2>1 DEF PanelWait
  <2>3. PICK i \in Slots : flight[i] # Idle /\ flight[i].fn \in TabWrites /\ "tab" \in flight[i].owner
    BY <2>1 DEF Coming
  <2> QED BY <2>2, <2>3, AtDetail DEF Waiter, TabWrites
<1> QED BY <1>2, <1>3 DEF PanelWait

(* So does what a dialog offers, or what it does. *)
LEMMA PoolGoesOn ==
  ASSUME Inv, ui.at = "detail", NEW gone, NEW parts, NEW fns, NEW new,
         Turns(flight, flight', gone, parts, fns, new),
         \/ ~IsSettled(ui') \/ ui'.dialog.kind \notin {"addMember", "addTemplate"} \/ ui'.pool # NoList
         \/ Coming(flight', {"listMemberCandidates", "listTemplateLibrary"}, "dialog")
         \/ /\ IsSettled(ui) /\ ui.pool = NoList /\ ui.dialog.kind = ui'.dialog.kind /\ "dialog" \notin parts
            /\ \A i \in gone : flight[i].fn \notin {"listMemberCandidates", "listTemplateLibrary"},
         \A r \in new : r.fn # "deleteWorkspace",
         \/ "tab" \in parts
         \/ /\ ui'.dialog = ui.dialog \/ ui.dialog.kind # "deleteWorkspace"
            /\ "delete" \in ui.busy => "delete" \in ui'.busy
         \/ \E i \in gone : i \in Slots /\ flight[i].fn = "deleteWorkspace" /\ "tab" \in flight[i].owner
         \/ ~IsSettled(ui)
  PROVE  PoolWait(ui', flight')
<1>1. PoolWait(ui, flight)
  BY AtDetail DEF DetailWait
<1>2. \/ ~IsSettled(ui') \/ ui'.dialog.kind \notin {"addMember", "addTemplate"} \/ ui'.pool # NoList
      \/ Coming(flight', {"listMemberCandidates", "listTemplateLibrary"}, "dialog")
  BY <1>1, ComingOn DEF PoolWait
<1>3. OneDelete(flight')
  BY <1>1, OneDeleteOn DEF PoolWait
<1>4. ASSUME Coming(flight', {"deleteWorkspace"}, "tab")
      PROVE  ui'.dialog.kind = "deleteWorkspace" /\ "delete" \in ui'.busy
  <2>1. PICK k \in Slots : flight'[k] # Idle /\ flight'[k].fn = "deleteWorkspace" /\ "tab" \in flight'[k].owner
    BY <1>4 DEF Coming
  <2>2. /\ flight[k] # Idle /\ flight[k].fn = "deleteWorkspace" /\ "tab" \in flight[k].owner /\ "tab" \notin parts
        /\ k \notin gone
    BY <2>1 DEF Turns, Stays, Same
  <2>3. ui.dialog.kind = "deleteWorkspace" /\ "delete" \in ui.busy
    BY <1>1, <2>2 DEF PoolWait, Coming
  <2>4. \A i \in gone : ~(i \in Slots /\ flight[i].fn = "deleteWorkspace" /\ "tab" \in flight[i].owner)
    BY <1>1, <2>2 DEF PoolWait, OneDelete
  <2>5. IsSettled(ui)
    BY <2>2, AtDetail DEF Waiter
  <2> QED BY <2>2, <2>3, <2>4, <2>5
<1> QED BY <1>2, <1>3, <1>4 DEF PoolWait

(* Rows have numbers. *)
LEMMA IdsTyped ==
  ASSUME NEW k \in Kinds
  PROVE  Id[k] \subseteq Nat \ {0}
<1>1. IsFiniteSet(Id[k]) /\ Id[k] = 1 .. Cardinality(Id[k])
  BY ConsoleAssumption
<1>2. Cardinality(Id[k]) \in Nat
  BY <1>1, FS_CardinalityType
<1> QED BY <1>1, <1>2

(* Workspaces have numbers. *)
LEMMA WorkspaceIdsTyped == WorkspaceIds \subseteq Nat \ {0}
<1>1. "workspaces" \in Kinds
  BY DEF Kinds
<1>2. Id["workspaces"] \subseteq Nat \ {0}
  BY <1>1, IdsTyped
<1> QED BY <1>1, <1>2, ConsoleAssumption DEF WorkspaceIds

(* The loads of the screen. *)
LEMMA GetWorkspaceIs ==
  ASSUME token \in Nat, NEW w \in WorkspaceIds
  PROVE  /\ New(GetWorkspace(w)) /\ GetWorkspace(w).fn = "getWorkspace" /\ GetWorkspace(w).owner = {"screen"}
         /\ GetWorkspace(w).row = w
<1> DEFINE r == GetWorkspace(w)
<1>1. "getWorkspace" \in DOMAIN Verb /\ Workspaces \in Table /\ {"screen"} \in SUBSET Parts /\ 0 \in Nat /\ w \in Nat
  BY ConsoleAssumption, WorkspaceIdsTyped DEF Verb, Table, Parts
<1>2. r = Call("getWorkspace", Workspaces, w, 0, {"screen"}, 0)
  BY DEF GetWorkspace
<1> HIDE DEF r
<1>3. /\ IsRequest(r) /\ r.fn = "getWorkspace" /\ r.table = Workspaces /\ r.owner = {"screen"} /\ r.token = token
      /\ r.reply = Pending /\ r.row = w
  BY <1>1, <1>2, CallIs
<1>4. New(r)
  <2>1. TableOf(r)
    BY <1>3 DEF TableOf, LibraryWrites, AskedOf, BusyOf
  <2> QED BY <1>3, <2>1 DEF New, Asked
<1> QED BY <1>3, <1>4 DEF r

(* The request for the roster of a workspace. *)
LEMMA ListMembersIs ==
  ASSUME token \in Nat, NEW w \in WorkspaceIds, NEW memo
  PROVE  /\ New(ListMembers(w, memo)) /\ ListMembers(w, memo).fn = "listMembers"
         /\ ListMembers(w, memo).owner = {"screen", "tab"} /\ ListMembers(w, memo).memo = memo
         /\ ListMembers(w, memo).table = T("members", w)
<1> DEFINE r == ListMembers(w, memo)
<1>1. "listMembers" \in DOMAIN Verb /\ T("members", w) \in Table /\ {"screen", "tab"} \in SUBSET Parts /\ 0 \in Nat
  BY DEF Verb, Table, Parts, T, WorkspaceIds
<1>2. r = Call("listMembers", T("members", w), 0, 0, {"screen", "tab"}, memo)
  BY DEF ListMembers
<1> HIDE DEF r
<1>3. /\ IsRequest(r) /\ r.fn = "listMembers" /\ r.table = T("members", w) /\ r.owner = {"screen", "tab"} /\ r.token = token
      /\ r.reply = Pending /\ r.memo = memo
  BY <1>1, <1>2, CallIs
<1>4. New(r)
  <2>1. TableOf(r)
    BY <1>3 DEF TableOf, LibraryWrites, AskedOf, BusyOf
  <2> QED BY <1>3, <2>1 DEF New, Asked
<1> QED BY <1>3, <1>4 DEF r

(* No load is newer than one that has just been made. *)
LEMMA DetailLoadsAreLatest ==
  ASSUME NEW w, NEW memo
  PROVE  GetWorkspace(w).latest /\ ListMembers(w, memo).latest
BY CallIsLatest DEF GetWorkspace, ListMembers

(* Writes of one workspace's tabs and dialogs. *)
LEMMA DetailWrites ==
  ASSUME token \in Nat, NEW w \in WorkspaceIds,
         NEW fn \in {"replaceMemberRoles", "addMember", "attachTemplate", "detachTemplate", "setProviderEnabled",
                     "saveGuardrailPolicy"},
         NEW row \in Nat, NEW value \in Nat, NEW owner \in SUBSET Parts, NEW memo,
         fn \in {"replaceMemberRoles", "addMember"} => memo \in WorkspaceIds,
         fn = "attachTemplate" => memo \in Row,
         fn = "detachTemplate" => memo \in Seq(Row),
         fn = "setProviderEnabled" => row # 0 /\ memo \in Row /\ memo[2] \in Switches /\ value \in Switches,
         fn = "saveGuardrailPolicy" => row = 1,
         NEW r, r = Call(fn, T(AskedOf[fn], w), row, value, owner, memo)
  PROVE  New(r) /\ r.fn = fn /\ r.owner = owner /\ Writing(r) /\ r.table = T(AskedOf[fn], w)
<1> DEFINE t == T(AskedOf[fn], w)
<1>0. r = Call(fn, t, row, value, owner, memo)
  OBVIOUS
<1>1. fn \in DOMAIN Verb /\ t \in Table
  BY DEF Verb, AskedOf, Table, T, WorkspaceIds
<1> HIDE DEF t
<1>2. /\ IsRequest(r) /\ r.fn = fn /\ r.table = t /\ r.owner = owner /\ r.token = token /\ r.reply = Pending
      /\ r.memo = memo /\ r.row = row /\ r.value = value
  BY <1>0, <1>1, CallIs
<1>3. TableOf(r)
  <2>1. fn \in DOMAIN AskedOf /\ fn \notin DOMAIN BusyOf /\ fn \notin LibraryWrites
    BY DEF AskedOf, BusyOf, LibraryWrites
  <2> QED BY <1>2, <2>1 DEF TableOf, t
<1>4. Asked(r)
  BY <1>2, <1>3 DEF Asked
<1> QED BY <1>2, <1>4 DEF New, Writing, Verb, t

(* A click that writes. *)
LEMMA DetailClickInv ==
  ASSUME Inv, IsSettled(ui), NEW v, NEW r, New(r), Click(v, r), Waiter(v, r),
         DOMAIN v = DOMAIN ui, v.at = "detail", v.id = ui.id, v.loading = ui.loading, v.failed = ui.failed, v.gone = ui.gone,
         v.rows = ui.rows, v.roster = ui.roster, v.rosterFailed = ui.rosterFailed, v.tab = ui.tab,
         v.panelFailed = ui.panelFailed, v.dialog = ui.dialog, v.pool = ui.pool,
         \/ v.panel = ui.panel
         \/ v.panel \in Seq(Row) /\ (ui.tab = "providers" => AreSwitches(v.panel)),
         v.busy \subseteq {"roles", "addMember", "policy", "rename", "delete"}, ui.busy \subseteq v.busy,
         "roles" \in v.busy =>
           "roles" \in ui.busy \/ (r.fn = "replaceMemberRoles" /\ r.owner = {"screen", "tab", "dialog"} /\ ui.dialog.kind = "roles"),
         "addMember" \in v.busy =>
           "addMember" \in ui.busy \/ (r.fn = "addMember" /\ r.owner = {"screen", "dialog"} /\ ui.dialog.kind = "addMember"),
         "policy" \in v.busy => "policy" \in ui.busy \/ (r.fn = "saveGuardrailPolicy" /\ "tab" \in r.owner),
         "rename" \in v.busy => "rename" \in ui.busy \/ (r.fn = "updateWorkspace" /\ "tab" \in r.owner),
         "delete" \in v.busy => "delete" \in ui.busy \/ (r.fn = "deleteWorkspace" /\ "tab" \in r.owner),
         v.busyId # 0 =>
           \/ ui.busyId # 0
           \/ r.fn = "attachTemplate" /\ r.owner = {"tab", "dialog"}
           \/ r.fn = "setProviderEnabled" /\ "tab" \in r.owner,
         ui.tab = "templates" /\ v.panel = NoList => r.fn \notin TabWrites,
         r.fn = "deleteWorkspace" => ui.dialog.kind = "deleteWorkspace" /\ "delete" \in v.busy /\ "delete" \notin ui.busy
  PROVE  Inv'
<1>1. Within /\ ui' = v /\ Turns(flight, flight', {}, {}, {}, {r})
  BY ClickWithin DEF New
<1>2. ui.at = "detail" /\ DetailTyped(ui) /\ DetailWait(ui, flight)
  BY AtDetail DEF IsSettled
<1>3. IsSettled(v)
  BY <1>2 DEF IsSettled
<1>4. DetailTyped(v)
  <2>1. \A s \in Seq(Row) : s # NoList
    BY NoListIsNone
  <2> QED BY <1>2, <1>3, <2>1 DEF DetailTyped
<1>5. IsRequest(r) /\ r \in {r}
  BY DEF New
<1>6. v.loading => ComingLast(flight', "getWorkspace")
  BY <1>3 DEF IsSettled
<1>7. RosterWait(v, flight')
  BY <1>1, <1>2, LoadsGoOn DEF Spared, RosterWait
<1>8. BusyWait(v, flight')
  <2>1. BusyWait(ui, flight)
    BY <1>2 DEF DetailWait
  <2>2. RolesComing(flight) => RolesComing(flight')
    BY <1>1, RolesOn
  <2>3. \A S, all : all # {} /\ ComingFor(flight, S, all) => ComingFor(flight', S, all)
    BY <1>1, ComingForOn
  <2>4. \A S, part : Coming(flight, S, part) => Coming(flight', S, part)
    BY <1>1, ComingOn
  <2>5. /\ \A S, part : r.fn \in S /\ part \in r.owner => Coming(flight', S, part)
        /\ \A S, all : r.fn \in S /\ all \subseteq r.owner => ComingFor(flight', S, all)
    BY <1>1, <1>5, NewComes
  <2>6. r.fn = "replaceMemberRoles" /\ r.owner = {"screen", "tab", "dialog"} => RolesComing(flight')
    BY <1>1, <1>5, IdleIsNone DEF RolesComing, Turns
  <2>7. "roles" \in v.busy => RolesComing(flight') /\ v.dialog.kind = "roles"
    BY <2>1, <2>2, <2>6 DEF BusyWait
  <2>8. "addMember" \in v.busy => AddComing(flight') /\ v.dialog.kind = "addMember"
    BY <2>1, <2>3, <2>5 DEF BusyWait, AddComing
  <2>9. /\ "policy" \in v.busy => Coming(flight', {"saveGuardrailPolicy"}, "tab")
        /\ "rename" \in v.busy => Coming(flight', {"updateWorkspace"}, "tab")
        /\ "delete" \in v.busy => Coming(flight', {"deleteWorkspace"}, "tab")
    BY <2>1, <2>4, <2>5 DEF BusyWait
  <2>10. v.busyId # 0 => AttachComing(flight') \/ Coming(flight', {"setProviderEnabled"}, "tab")
    BY <2>1, <2>3, <2>4, <2>5 DEF BusyWait, AttachComing
  <2> QED BY <2>7, <2>8, <2>9, <2>10 DEF BusyWait
<1>9. PanelWait(v, flight')
  <2>1. v.panel = NoList => ui.panel = NoList
    BY NoListIsNone
  <2>2. v.tab = "templates" /\ v.panel = NoList => \A q \in {r} : q.fn \notin TabWrites
    OBVIOUS
  <2> QED BY <1>1, <1>2, <1>3, <2>1, <2>2, PanelGoesOn
<1>10. PoolWait(v, flight')
  <2>1. CASE r.fn # "deleteWorkspace"
    <3>1. \A q \in {r} : q.fn # "deleteWorkspace"
      BY <2>1
    <3>2. ui'.dialog = ui.dialog /\ ui'.pool = ui.pool /\ IsSettled(ui') /\ ("delete" \in ui.busy => "delete" \in ui'.busy)
      BY <1>1, <1>3
    <3> QED BY <1>1, <1>2, <3>1, <3>2, PoolGoesOn
  <2>2. CASE r.fn = "deleteWorkspace"
    <3>1. PoolWait(ui, flight)
      BY <1>2 DEF DetailWait
    <3>2. ~Coming(flight, {"deleteWorkspace"}, "tab")
      BY <2>2, <3>1 DEF PoolWait
    <3>3. OneDelete(flight')
      <4> SUFFICES ASSUME NEW i \in Slots, NEW j \in Slots, flight'[i].fn = "deleteWorkspace", "tab" \in flight'[i].owner,
                          flight'[j].fn = "deleteWorkspace", "tab" \in flight'[j].owner
                   PROVE  i = j
        BY DEF OneDelete
      <4>1. \A k \in Slots : flight'[k].fn = "deleteWorkspace" /\ "tab" \in flight'[k].owner => flight'[k] = r /\ flight[k] = Idle
        <5> SUFFICES ASSUME NEW k \in Slots, flight'[k].fn = "deleteWorkspace", "tab" \in flight'[k].owner
                     PROVE  flight'[k] = r /\ flight[k] = Idle
          OBVIOUS
        <5>1. flight'[k] # Idle
          BY IdleIsNone
        <5>2. ~(flight[k] # Idle /\ flight[k].fn = "deleteWorkspace" /\ "tab" \in flight[k].owner)
          BY <3>2 DEF Coming
        <5>3. flight'[k] = r
          BY <1>1, <5>1, <5>2 DEF Turns, Stays, Same
        <5>4. flight[k] = Idle
          <6> SUFFICES ASSUME flight[k] # Idle PROVE FALSE
            OBVIOUS
          <6>1. flight[k].owner # {} \/ Writing(flight[k])
            BY <1>2, AtDetail DEF Waiter
          <6>2. flight[k].owner \ {} # {} \/ Writing(flight[k])
            BY <6>1
          <6>3. Stays(flight[k], flight'[k], {}, {})
            BY <1>1, <6>2 DEF Turns
          <6> QED BY <5>2, <6>3 DEF Stays, Same
        <5> QED BY <5>3, <5>4
      <4>2. PICK k \in Slots : flight' = [flight EXCEPT ![k] = r] /\ flight[k] = Idle
        <5>1. Flights(flight) /\ FreeSlots(flight) # {} /\ flight' = Send(flight, r)
          BY <1>2, AtDetail, RoomIsFree DEF Click
        <5> QED BY <5>1, Sent
      <4>3. \A j2 \in Slots : j2 # k => flight'[j2] = flight[j2]
        BY <4>2
      <4>4. i = k /\ j = k
        BY <4>1, <4>3, IdleIsNone
      <4> QED BY <4>4
    <3>4. \/ v.dialog.kind \notin {"addMember", "addTemplate"}
      BY <2>2
    <3> QED BY <2>2, <3>3, <3>4 DEF PoolWait
  <2> QED BY <2>1, <2>2
<1>11. DetailWait(v, flight')
  BY <1>6, <1>7, <1>8, <1>9, <1>10 DEF DetailWait
<1>12. \A q \in {r} : New(q) /\ Waiter(v, q)
  OBVIOUS
<1> QED BY <1>1, <1>2, <1>3, <1>4, <1>11, <1>12, DetailGoOn

(* What is there once the workspace is shown. *)
LEMMA WhenSettled ==
  ASSUME Inv, Settled
  PROVE  /\ IsSettled(ui) /\ ui.at = "detail" /\ DetailTyped(ui) /\ DetailWait(ui, flight) /\ Flights(flight)
         /\ token \in Nat /\ Fresh \in Nat /\ 0 \in Nat
         /\ Shown \in WorkspaceIds /\ Shown \in Nat /\ ui.id \in WorkspaceIds /\ ui.dialog.row \in Nat
         /\ DOMAIN ui = {"at", "id", "loading", "failed", "gone", "rows", "roster", "rosterFailed", "tab", "panel",
                         "panelFailed", "dialog", "pool", "busy", "busyId"}
         /\ ui.dialog.kind \in DOMAIN DialogTab => ui.tab = DialogTab[ui.dialog.kind]
<1>1. IsSettled(ui)
  BY DEF IsSettled, Settled
<1>2. Fresh \in Nat
  BY DEF Fresh, Inv, Calls, CallsTyped
<1>3. ui.at = "detail"
  BY <1>1 DEF IsSettled
<1> QED BY <1>1, <1>2, <1>3, AtDetail, WorkspaceIdsTyped DEF Shown, DetailTyped, IsDialog

(* Writes of a workspace itself. *)
LEMMA WorkspaceWrites ==
  ASSUME token \in Nat, NEW w \in WorkspaceIds, NEW fn \in {"updateWorkspace", "deleteWorkspace"}, NEW value \in Nat,
         NEW r, r = Call(fn, Workspaces, w, value, {"screen", "tab"}, 0)
  PROVE  New(r) /\ r.fn = fn /\ r.owner = {"screen", "tab"} /\ Writing(r)
<1>1. fn \in DOMAIN Verb /\ Workspaces \in Table /\ {"screen", "tab"} \in SUBSET Parts /\ w \in Nat
  BY WorkspaceIdsTyped DEF Verb, Table, Parts
<1>2. /\ IsRequest(r) /\ r.fn = fn /\ r.table = Workspaces /\ r.owner = {"screen", "tab"} /\ r.token = token
      /\ r.reply = Pending /\ r.row = w
  BY <1>1, CallIs
<1>3. TableOf(r)
  BY <1>2 DEF TableOf, LibraryWrites, AskedOf, BusyOf
<1>4. Asked(r)
  BY <1>2, <1>3 DEF Asked
<1> QED BY <1>2, <1>4 DEF New, Writing, Verb

(* Rows are dropped from a list and changed in it. *)
LEMMA DropTyped ==
  ASSUME NEW rows \in Seq(Row), NEW row
  PROVE  Drop(rows, row) \in Seq(Row)
BY KeepKeeps DEF Drop

(* Switching one row of a listing of switches leaves a listing of switches. *)
LEMMA SwitchTyped ==
  ASSUME NEW rows, rows = NoList \/ rows \in Seq(Row), rows # NoList => AreSwitches(rows), NEW row \in Nat \ {0}, NEW value \in Switches
  PROVE  /\ rows # NoList => Switch(rows, row, value) \in Seq(Row) /\ AreSwitches(Switch(rows, row, value))
         /\ rows = NoList => Switch(rows, row, value) = NoList
<1>1. ASSUME rows \in Seq(Row), AreSwitches(rows)
      PROVE  Switch(rows, row, value) \in Seq(Row) /\ AreSwitches(Switch(rows, row, value))
  <2>1. <<row, value>> \in Row /\ <<row, value>>[2] \in Switches
    BY DEF Row, Switches
  <2>2. \A n \in DOMAIN rows : rows[n] \in Row /\ rows[n][2] \in Switches
    BY <1>1 DEF AreSwitches
  <2>3. DOMAIN rows = 1 .. Len(rows) /\ Len(rows) \in Nat
    BY <1>1
  <2> DEFINE s == [n \in DOMAIN rows |-> IF rows[n][1] = row THEN <<row, value>> ELSE rows[n]]
  <2>4. \A n \in 1 .. Len(rows) : s[n] \in Row /\ s[n][2] \in Switches
    BY <2>1, <2>2, <2>3
  <2>5. s \in Seq(Row)
    BY <2>3, <2>4
  <2>6. DOMAIN s = DOMAIN rows
    OBVIOUS
  <2> QED BY <2>3, <2>4, <2>5, <2>6 DEF Switch, AreSwitches
<1>2. ASSUME rows = NoList PROVE Switch(rows, row, value) = NoList
  <2>1. DOMAIN rows = {1} /\ rows[1] = <<0, 0>>
    BY <1>2 DEF NoList
  <2>2. Switch(rows, row, value) = [n \in {1} |-> <<0, 0>>]
    BY <2>1 DEF Switch
  <2>3. NoList = [n \in {1} |-> <<0, 0>>]
    BY DEF NoList
  <2> QED BY <2>2, <2>3
<1> QED BY <1>1, <1>2

(* The buttons. *)
LEMMA SaveRolesInv ==
  ASSUME Inv, SaveRoles
  PROVE  Inv'
<1> DEFINE v == [ui EXCEPT !.busy = @ \cup {"roles"}]
           r == Call("replaceMemberRoles", T("members", Shown), ui.dialog.row, Fresh, {"screen", "tab", "dialog"}, ui.id)
<1>1. Settled /\ Click(v, r) /\ ui.dialog.kind = "roles"
  BY DEF SaveRoles
<1>2. /\ IsSettled(ui) /\ ui.at = "detail" /\ DetailTyped(ui) /\ token \in Nat /\ Fresh \in Nat /\ 0 \in Nat
      /\ Shown \in WorkspaceIds /\ Shown \in Nat /\ ui.id \in WorkspaceIds /\ ui.dialog.row \in Nat
      /\ DOMAIN ui = {"at", "id", "loading", "failed", "gone", "rows", "roster", "rosterFailed", "tab", "panel",
                      "panelFailed", "dialog", "pool", "busy", "busyId"}
      /\ ui.dialog.kind \in DOMAIN DialogTab => ui.tab = DialogTab[ui.dialog.kind]
  BY <1>1, WhenSettled
<1>4. ui.tab = "members"
  BY <1>1, <1>2 DEF DialogTab
<1>5. /\ DOMAIN v = DOMAIN ui /\ v.at = "detail" /\ v.id = ui.id /\ v.loading = ui.loading /\ v.failed = ui.failed /\ v.gone = ui.gone /\ v.rows = ui.rows
      /\ v.roster = ui.roster /\ v.rosterFailed = ui.rosterFailed /\ v.tab = ui.tab /\ v.panelFailed = ui.panelFailed /\ v.dialog = ui.dialog /\ v.pool = ui.pool
      /\ v.panel = ui.panel /\ v.busy = ui.busy \cup {"roles"} /\ v.busyId = ui.busyId
  BY <1>2
<1>6. New(r) /\ r.fn = "replaceMemberRoles" /\ r.owner = {"screen", "tab", "dialog"}
  <2>1. T("members", Shown) = T(AskedOf["replaceMemberRoles"], Shown) /\ {"screen", "tab", "dialog"} \in SUBSET Parts
    BY DEF AskedOf, Parts
  <2> QED BY <1>2, <2>1, DetailWrites
<1> HIDE DEF v, r
<1>7. Waiter(v, r)
  <2>1. IsSettled(v)
    BY <1>2, <1>5 DEF IsSettled
  <2> QED BY <1>1, <1>4, <1>5, <1>6, <2>1 DEF Waiter, TabWaiter, DialogWaiter
<1>9. v.busy \subseteq {"roles", "addMember", "policy", "rename", "delete"} /\ ui.busy \subseteq v.busy
  BY <1>1, <1>2, <1>5 DEF DetailTyped
<1>10. ui.tab = "templates" /\ v.panel = NoList => r.fn \notin TabWrites
  BY <1>1, <1>4, <1>5, <1>6 DEF TabWrites
<1> QED BY <1>1, <1>2, <1>5, <1>6, <1>7, <1>9, <1>10, DetailClickInv

(* AddMember: the button of the row is busy, and its request on its way. *)
LEMMA AddMemberInv ==
  ASSUME Inv, NEW row \in Id["members"], AddMember(row)
  PROVE  Inv'
<1> DEFINE v == [ui EXCEPT !.busy = @ \cup {"addMember"}]
           r == Call("addMember", T("members", Shown), row, Fresh, {"screen", "dialog"}, ui.id)
<1>1. Settled /\ Click(v, r) /\ ui.dialog.kind = "addMember"
  BY DEF AddMember
<1>2. /\ IsSettled(ui) /\ ui.at = "detail" /\ DetailTyped(ui) /\ token \in Nat /\ Fresh \in Nat /\ 0 \in Nat
      /\ Shown \in WorkspaceIds /\ Shown \in Nat /\ ui.id \in WorkspaceIds /\ ui.dialog.row \in Nat
      /\ DOMAIN ui = {"at", "id", "loading", "failed", "gone", "rows", "roster", "rosterFailed", "tab", "panel",
                      "panelFailed", "dialog", "pool", "busy", "busyId"}
      /\ ui.dialog.kind \in DOMAIN DialogTab => ui.tab = DialogTab[ui.dialog.kind]
  BY <1>1, WhenSettled
<1>3. row \in Nat
  <2>1. "members" \in Kinds
    BY DEF Kinds
  <2> QED BY <2>1, IdsTyped
<1>5. /\ DOMAIN v = DOMAIN ui /\ v.at = "detail" /\ v.id = ui.id /\ v.loading = ui.loading /\ v.failed = ui.failed /\ v.gone = ui.gone /\ v.rows = ui.rows
      /\ v.roster = ui.roster /\ v.rosterFailed = ui.rosterFailed /\ v.tab = ui.tab /\ v.panelFailed = ui.panelFailed /\ v.dialog = ui.dialog /\ v.pool = ui.pool
      /\ v.panel = ui.panel /\ v.busy = ui.busy \cup {"addMember"} /\ v.busyId = ui.busyId
  BY <1>2
<1>6. New(r) /\ r.fn = "addMember" /\ r.owner = {"screen", "dialog"}
  <2> DEFINE owner == {"screen", "dialog"}
             w == Shown
             memo == ui.id
             value == Fresh
  <2>1. T("members", w) = T(AskedOf["addMember"], w) /\ owner \in SUBSET Parts
    BY DEF AskedOf, Parts
  <2>2. r = Call("addMember", T(AskedOf["addMember"], w), row, value, owner, memo)
    BY <2>1
  <2>3. w \in WorkspaceIds /\ memo \in WorkspaceIds /\ value \in Nat
    BY <1>2
  <2> HIDE DEF r, owner, w, memo, value
  <2>4. New(r) /\ r.fn = "addMember" /\ r.owner = owner
    BY <1>2, <1>3, <2>1, <2>2, <2>3, DetailWrites
  <2> QED BY <2>4 DEF owner
<1> HIDE DEF v, r
<1>7. Waiter(v, r)
  <2>1. IsSettled(v)
    BY <1>2, <1>5 DEF IsSettled
  <2> QED BY <1>1, <1>5, <1>6, <2>1 DEF Waiter, TabWaiter, DialogWaiter
<1>9. v.busy \subseteq {"roles", "addMember", "policy", "rename", "delete"} /\ ui.busy \subseteq v.busy
  BY <1>1, <1>2, <1>5 DEF DetailTyped
<1>10. ui.tab = "templates" /\ v.panel = NoList => r.fn \notin TabWrites
  BY <1>1, <1>5, <1>6 DEF TabWrites
<1> QED BY <1>1, <1>2, <1>5, <1>6, <1>7, <1>9, <1>10, DetailClickInv

(* AttachTemplate: the button of the row is busy, and its request on its way. *)
LEMMA AttachTemplateInv ==
  ASSUME Inv, NEW x \in ToSet(ui.pool), ui.pool # NoList, AttachTemplate(x)
  PROVE  Inv'
<1> DEFINE v == [ui EXCEPT !.busyId = x[1]]
           r == Call("attachTemplate", T("templates", Shown), x[1], 1, {"tab", "dialog"}, x)
<1>1. Settled /\ Click(v, r) /\ ui.dialog.kind = "addTemplate"
  BY DEF AttachTemplate
<1>2. /\ IsSettled(ui) /\ ui.at = "detail" /\ DetailTyped(ui) /\ token \in Nat /\ Fresh \in Nat /\ 0 \in Nat
      /\ Shown \in WorkspaceIds /\ Shown \in Nat /\ ui.id \in WorkspaceIds /\ ui.dialog.row \in Nat
      /\ DOMAIN ui = {"at", "id", "loading", "failed", "gone", "rows", "roster", "rosterFailed", "tab", "panel",
                      "panelFailed", "dialog", "pool", "busy", "busyId"}
      /\ ui.dialog.kind \in DOMAIN DialogTab => ui.tab = DialogTab[ui.dialog.kind]
  BY <1>1, WhenSettled
<1>3. x \in Row /\ x[1] \in Nat /\ 1 \in Nat
  BY <1>2 DEF DetailTyped, Row, ToSet
<1>4. ui.tab = "templates"
  BY <1>1, <1>2 DEF DialogTab
<1>5. /\ DOMAIN v = DOMAIN ui /\ v.at = "detail" /\ v.id = ui.id /\ v.loading = ui.loading /\ v.failed = ui.failed /\ v.gone = ui.gone /\ v.rows = ui.rows
      /\ v.roster = ui.roster /\ v.rosterFailed = ui.rosterFailed /\ v.tab = ui.tab /\ v.panelFailed = ui.panelFailed /\ v.dialog = ui.dialog /\ v.pool = ui.pool
      /\ v.panel = ui.panel /\ v.busy = ui.busy /\ v.busyId = x[1]
  BY <1>2
<1>6. New(r) /\ r.fn = "attachTemplate" /\ r.owner = {"tab", "dialog"}
  <2>1. T("templates", Shown) = T(AskedOf["attachTemplate"], Shown) /\ {"tab", "dialog"} \in SUBSET Parts
    BY DEF AskedOf, Parts
  <2> QED BY <1>2, <1>3, <2>1, DetailWrites
<1> HIDE DEF v, r
<1>7. Waiter(v, r)
  <2>1. IsSettled(v)
    BY <1>2, <1>5 DEF IsSettled
  <2> QED BY <1>1, <1>4, <1>5, <1>6, <2>1 DEF Waiter, TabWaiter, DialogWaiter
<1>8. ui.panel # NoList
  BY <1>1, <1>2, <1>5 DEF DetailTyped
<1>9. v.busy \subseteq {"roles", "addMember", "policy", "rename", "delete"} /\ ui.busy \subseteq v.busy
  BY <1>1, <1>2, <1>5 DEF DetailTyped
<1>10. ui.tab = "templates" /\ v.panel = NoList => r.fn \notin TabWrites
  BY <1>1, <1>4, <1>5, <1>6, <1>8 DEF TabWrites
<1> QED BY <1>1, <1>2, <1>5, <1>6, <1>7, <1>8, <1>9, <1>10, DetailClickInv

(* DetachTemplate: the row is gone before the answer, whose failure puts it back. *)
LEMMA DetachTemplateInv ==
  ASSUME Inv, NEW row \in Id["templates"], DetachTemplate(row)
  PROVE  Inv'
<1> DEFINE v == [ui EXCEPT !.panel = Drop(@, row)]
           r == Call("detachTemplate", T("templates", Shown), row, 0, {"tab"}, ui.panel)
<1>1. Settled /\ Click(v, r) /\ ui.tab = "templates" /\ ui.panel # NoList
  BY DEF DetachTemplate
<1>2. /\ IsSettled(ui) /\ ui.at = "detail" /\ DetailTyped(ui) /\ token \in Nat /\ Fresh \in Nat /\ 0 \in Nat
      /\ Shown \in WorkspaceIds /\ Shown \in Nat /\ ui.id \in WorkspaceIds /\ ui.dialog.row \in Nat
      /\ DOMAIN ui = {"at", "id", "loading", "failed", "gone", "rows", "roster", "rosterFailed", "tab", "panel",
                      "panelFailed", "dialog", "pool", "busy", "busyId"}
      /\ ui.dialog.kind \in DOMAIN DialogTab => ui.tab = DialogTab[ui.dialog.kind]
  BY <1>1, WhenSettled
<1>3. row \in Nat /\ ui.panel \in Seq(Row)
  <2>1. "templates" \in Kinds
    BY DEF Kinds
  <2> QED BY <1>1, <1>2, <2>1, IdsTyped DEF DetailTyped
<1>5. /\ DOMAIN v = DOMAIN ui /\ v.at = "detail" /\ v.id = ui.id /\ v.loading = ui.loading /\ v.failed = ui.failed /\ v.gone = ui.gone /\ v.rows = ui.rows
      /\ v.roster = ui.roster /\ v.rosterFailed = ui.rosterFailed /\ v.tab = ui.tab /\ v.panelFailed = ui.panelFailed /\ v.dialog = ui.dialog /\ v.pool = ui.pool
      /\ v.panel = Drop(ui.panel, row) /\ v.busy = ui.busy /\ v.busyId = ui.busyId
  BY <1>2
<1>6. New(r) /\ r.fn = "detachTemplate" /\ r.owner = {"tab"}
  <2>1. T("templates", Shown) = T(AskedOf["detachTemplate"], Shown) /\ {"tab"} \in SUBSET Parts
    BY DEF AskedOf, Parts
  <2> QED BY <1>2, <1>3, <2>1, DetailWrites
<1> HIDE DEF v, r
<1>7. Waiter(v, r)
  <2>1. IsSettled(v)
    BY <1>2, <1>5 DEF IsSettled
  <2> QED BY <1>1, <1>5, <1>6, <2>1 DEF Waiter, TabWaiter, DialogWaiter
<1>8. v.panel \in Seq(Row) /\ (ui.tab = "providers" => AreSwitches(v.panel)) /\ v.panel # NoList
  BY <1>1, <1>3, <1>5, DropTyped, NoListIsNone
<1>9. v.busy \subseteq {"roles", "addMember", "policy", "rename", "delete"} /\ ui.busy \subseteq v.busy
  BY <1>1, <1>2, <1>5 DEF DetailTyped
<1>10. ui.tab = "templates" /\ v.panel = NoList => r.fn \notin TabWrites
  BY <1>1, <1>5, <1>6, <1>8 DEF TabWrites
<1> QED BY <1>1, <1>2, <1>5, <1>6, <1>7, <1>8, <1>9, <1>10, DetailClickInv

(* Toggle: the switch is thrown before the answer, whose failure throws it back. *)
LEMMA ToggleInv ==
  ASSUME Inv, NEW x \in ToSet(ui.panel), ui.panel # NoList, Toggle(x)
  PROVE  Inv'
<1> DEFINE v == [ui EXCEPT !.panel = Switch(@, x[1], 3 - x[2]), !.busyId = x[1]]
           r == Call("setProviderEnabled", T("switches", Shown), x[1], 3 - x[2], {"tab"}, x)
<1>1. Settled /\ Click(v, r) /\ ui.tab = "providers"
  BY DEF Toggle
<1>2. /\ IsSettled(ui) /\ ui.at = "detail" /\ DetailTyped(ui) /\ token \in Nat /\ Fresh \in Nat /\ 0 \in Nat
      /\ Shown \in WorkspaceIds /\ Shown \in Nat /\ ui.id \in WorkspaceIds /\ ui.dialog.row \in Nat
      /\ DOMAIN ui = {"at", "id", "loading", "failed", "gone", "rows", "roster", "rosterFailed", "tab", "panel",
                      "panelFailed", "dialog", "pool", "busy", "busyId"}
      /\ ui.dialog.kind \in DOMAIN DialogTab => ui.tab = DialogTab[ui.dialog.kind]
  BY <1>1, WhenSettled
<1>3. x \in Row /\ x[1] \in Nat \ {0} /\ x[2] \in Switches /\ 3 - x[2] \in Switches /\ 3 - x[2] \in Nat
  BY <1>1, <1>2 DEF DetailTyped, Row, ToSet, AreSwitches, Switches
<1>5. /\ DOMAIN v = DOMAIN ui /\ v.at = "detail" /\ v.id = ui.id /\ v.loading = ui.loading /\ v.failed = ui.failed /\ v.gone = ui.gone /\ v.rows = ui.rows
      /\ v.roster = ui.roster /\ v.rosterFailed = ui.rosterFailed /\ v.tab = ui.tab /\ v.panelFailed = ui.panelFailed /\ v.dialog = ui.dialog /\ v.pool = ui.pool
      /\ v.panel = Switch(ui.panel, x[1], 3 - x[2]) /\ v.busy = ui.busy /\ v.busyId = x[1]
  BY <1>2
<1>6. New(r) /\ r.fn = "setProviderEnabled" /\ r.owner = {"tab"}
  <2>1. T("switches", Shown) = T(AskedOf["setProviderEnabled"], Shown) /\ {"tab"} \in SUBSET Parts
    BY DEF AskedOf, Parts
  <2> QED BY <1>2, <1>3, <2>1, DetailWrites
<1> HIDE DEF v, r
<1>7. Waiter(v, r)
  <2>1. IsSettled(v)
    BY <1>2, <1>5 DEF IsSettled
  <2> QED BY <1>1, <1>5, <1>6, <2>1 DEF Waiter, TabWaiter, DialogWaiter
<1>8. v.panel \in Seq(Row) /\ (ui.tab = "providers" => AreSwitches(v.panel)) /\ v.panel # NoList
  <2>1. ui.panel \in Seq(Row) /\ AreSwitches(ui.panel)
    BY <1>1, <1>2 DEF DetailTyped
  <2> DEFINE value == 3 - x[2]
  <2>2. value \in Switches /\ x[1] \in Nat \ {0}
    BY <1>3
  <2>3. v.panel = Switch(ui.panel, x[1], value)
    BY <1>5
  <2> HIDE DEF value
  <2>4. v.panel \in Seq(Row) /\ AreSwitches(v.panel)
    BY <2>1, <2>2, <2>3, SwitchTyped
  <2> QED BY <2>4, NoListIsNone
<1>9. v.busy \subseteq {"roles", "addMember", "policy", "rename", "delete"} /\ ui.busy \subseteq v.busy
  BY <1>1, <1>2, <1>5 DEF DetailTyped
<1>10. ui.tab = "templates" /\ v.panel = NoList => r.fn \notin TabWrites
  BY <1>1, <1>5, <1>6, <1>8 DEF TabWrites
<1> QED BY <1>1, <1>2, <1>5, <1>6, <1>7, <1>8, <1>9, <1>10, DetailClickInv

(* SavePolicy: the button is busy, and the request on its way. *)
LEMMA SavePolicyInv ==
  ASSUME Inv, SavePolicy
  PROVE  Inv'
<1> DEFINE v == [ui EXCEPT !.busy = {"policy"}]
           r == Call("saveGuardrailPolicy", T("policy", Shown), 1, Fresh, {"tab"}, 0)
<1>1. Settled /\ Click(v, r) /\ ui.tab = "guardrails" /\ ui.busy = {}
  BY DEF SavePolicy
<1>2. /\ IsSettled(ui) /\ ui.at = "detail" /\ DetailTyped(ui) /\ token \in Nat /\ Fresh \in Nat /\ 0 \in Nat
      /\ Shown \in WorkspaceIds /\ Shown \in Nat /\ ui.id \in WorkspaceIds /\ ui.dialog.row \in Nat
      /\ DOMAIN ui = {"at", "id", "loading", "failed", "gone", "rows", "roster", "rosterFailed", "tab", "panel",
                      "panelFailed", "dialog", "pool", "busy", "busyId"}
      /\ ui.dialog.kind \in DOMAIN DialogTab => ui.tab = DialogTab[ui.dialog.kind]
  BY <1>1, WhenSettled
<1>3. 1 \in Nat
  OBVIOUS
<1>5. /\ DOMAIN v = DOMAIN ui /\ v.at = "detail" /\ v.id = ui.id /\ v.loading = ui.loading /\ v.failed = ui.failed /\ v.gone = ui.gone /\ v.rows = ui.rows
      /\ v.roster = ui.roster /\ v.rosterFailed = ui.rosterFailed /\ v.tab = ui.tab /\ v.panelFailed = ui.panelFailed /\ v.dialog = ui.dialog /\ v.pool = ui.pool
      /\ v.panel = ui.panel /\ v.busy = {"policy"} /\ v.busyId = ui.busyId
  BY <1>2
<1>6. New(r) /\ r.fn = "saveGuardrailPolicy" /\ r.owner = {"tab"}
  <2>1. T("policy", Shown) = T(AskedOf["saveGuardrailPolicy"], Shown) /\ {"tab"} \in SUBSET Parts
    BY DEF AskedOf, Parts
  <2> DEFINE row == 1
  <2>2. r = Call("saveGuardrailPolicy", T("policy", Shown), row, Fresh, {"tab"}, 0) /\ row = 1 /\ row \in Nat
    OBVIOUS
  <2> HIDE DEF row, r
  <2> QED BY <1>2, <1>3, <2>1, <2>2, DetailWrites
<1> HIDE DEF v, r
<1>7. Waiter(v, r)
  <2>1. IsSettled(v)
    BY <1>2, <1>5 DEF IsSettled
  <2> QED BY <1>1, <1>5, <1>6, <2>1 DEF Waiter, TabWaiter, DialogWaiter
<1>9. v.busy \subseteq {"roles", "addMember", "policy", "rename", "delete"} /\ ui.busy \subseteq v.busy
  BY <1>1, <1>2, <1>5 DEF DetailTyped
<1>10. ui.tab = "templates" /\ v.panel = NoList => r.fn \notin TabWrites
  BY <1>1, <1>5, <1>6 DEF TabWrites
<1> QED BY <1>1, <1>2, <1>5, <1>6, <1>7, <1>9, <1>10, DetailClickInv

(* Rename: the button is busy, and the request on its way. *)
LEMMA RenameInv ==
  ASSUME Inv, Rename
  PROVE  Inv'
<1> DEFINE v == [ui EXCEPT !.busy = @ \cup {"rename"}]
           r == Call("updateWorkspace", Workspaces, Shown, Fresh, {"screen", "tab"}, 0)
<1>1. Settled /\ Click(v, r) /\ ui.tab = "settings"
  BY DEF Rename
<1>2. /\ IsSettled(ui) /\ ui.at = "detail" /\ DetailTyped(ui) /\ token \in Nat /\ Fresh \in Nat /\ 0 \in Nat
      /\ Shown \in WorkspaceIds /\ Shown \in Nat /\ ui.id \in WorkspaceIds /\ ui.dialog.row \in Nat
      /\ DOMAIN ui = {"at", "id", "loading", "failed", "gone", "rows", "roster", "rosterFailed", "tab", "panel",
                      "panelFailed", "dialog", "pool", "busy", "busyId"}
      /\ ui.dialog.kind \in DOMAIN DialogTab => ui.tab = DialogTab[ui.dialog.kind]
  BY <1>1, WhenSettled
<1>5. /\ DOMAIN v = DOMAIN ui /\ v.at = "detail" /\ v.id = ui.id /\ v.loading = ui.loading /\ v.failed = ui.failed /\ v.gone = ui.gone /\ v.rows = ui.rows
      /\ v.roster = ui.roster /\ v.rosterFailed = ui.rosterFailed /\ v.tab = ui.tab /\ v.panelFailed = ui.panelFailed /\ v.dialog = ui.dialog /\ v.pool = ui.pool
      /\ v.panel = ui.panel /\ v.busy = ui.busy \cup {"rename"} /\ v.busyId = ui.busyId
  BY <1>2
<1>6. New(r) /\ r.fn = "updateWorkspace" /\ r.owner = {"screen", "tab"}
  BY <1>2, WorkspaceWrites
<1> HIDE DEF v, r
<1>7. Waiter(v, r)
  <2>1. IsSettled(v)
    BY <1>2, <1>5 DEF IsSettled
  <2> QED BY <1>1, <1>5, <1>6, <2>1 DEF Waiter, TabWaiter, DialogWaiter
<1>9. v.busy \subseteq {"roles", "addMember", "policy", "rename", "delete"} /\ ui.busy \subseteq v.busy
  BY <1>1, <1>2, <1>5 DEF DetailTyped
<1>10. ui.tab = "templates" /\ v.panel = NoList => r.fn \notin TabWrites
  BY <1>1, <1>5, <1>6 DEF TabWrites
<1> QED BY <1>1, <1>2, <1>5, <1>6, <1>7, <1>9, <1>10, DetailClickInv

(* DeleteWorkspace: the button is busy, and the request on its way. *)
LEMMA DeleteWorkspaceInv ==
  ASSUME Inv, DeleteWorkspace
  PROVE  Inv'
<1> DEFINE v == [ui EXCEPT !.busy = @ \cup {"delete"}]
           r == Call("deleteWorkspace", Workspaces, Shown, 0, {"screen", "tab"}, 0)
<1>1. Settled /\ Click(v, r) /\ ui.dialog.kind = "deleteWorkspace" /\ "delete" \notin ui.busy
  BY DEF DeleteWorkspace
<1>2. /\ IsSettled(ui) /\ ui.at = "detail" /\ DetailTyped(ui) /\ token \in Nat /\ Fresh \in Nat /\ 0 \in Nat
      /\ Shown \in WorkspaceIds /\ Shown \in Nat /\ ui.id \in WorkspaceIds /\ ui.dialog.row \in Nat
      /\ DOMAIN ui = {"at", "id", "loading", "failed", "gone", "rows", "roster", "rosterFailed", "tab", "panel",
                      "panelFailed", "dialog", "pool", "busy", "busyId"}
      /\ ui.dialog.kind \in DOMAIN DialogTab => ui.tab = DialogTab[ui.dialog.kind]
  BY <1>1, WhenSettled
<1>4. ui.tab = "settings"
  BY <1>1, <1>2 DEF DialogTab
<1>5. /\ DOMAIN v = DOMAIN ui /\ v.at = "detail" /\ v.id = ui.id /\ v.loading = ui.loading /\ v.failed = ui.failed /\ v.gone = ui.gone /\ v.rows = ui.rows
      /\ v.roster = ui.roster /\ v.rosterFailed = ui.rosterFailed /\ v.tab = ui.tab /\ v.panelFailed = ui.panelFailed /\ v.dialog = ui.dialog /\ v.pool = ui.pool
      /\ v.panel = ui.panel /\ v.busy = ui.busy \cup {"delete"} /\ v.busyId = ui.busyId
  BY <1>2
<1>6. New(r) /\ r.fn = "deleteWorkspace" /\ r.owner = {"screen", "tab"}
  BY <1>2, WorkspaceWrites
<1> HIDE DEF v, r
<1>7. Waiter(v, r)
  <2>1. IsSettled(v)
    BY <1>2, <1>5 DEF IsSettled
  <2> QED BY <1>1, <1>4, <1>5, <1>6, <2>1 DEF Waiter, TabWaiter, DialogWaiter
<1>9. v.busy \subseteq {"roles", "addMember", "policy", "rename", "delete"} /\ ui.busy \subseteq v.busy
  BY <1>1, <1>2, <1>5 DEF DetailTyped
<1>10. ui.tab = "templates" /\ v.panel = NoList => r.fn \notin TabWrites
  BY <1>1, <1>4, <1>5, <1>6 DEF TabWrites
<1> QED BY <1>1, <1>2, <1>5, <1>6, <1>7, <1>9, <1>10, DetailClickInv

(* What a tab loads. *)
LEMMA PanelLoadsAre ==
  ASSUME token \in Nat, NEW tab \in Tabs, NEW w \in WorkspaceIds, NEW rs, rs = PanelLoads(tab, w)
  PROVE  /\ rs \in Seq(ToSet(rs)) /\ Len(rs) \in {0, 1}
         /\ \A r \in ToSet(rs) :
              /\ New(r) /\ r.owner = {"tab"} /\ r.fn \in PanelFns
              /\ tab = "templates" => r.fn = "listAttachedTemplates"
              /\ tab = "providers" => r.fn = "listWorkspaceProviders"
              /\ tab = "guardrails" => r.fn = "getGuardrailPolicy"
              /\ tab \in DOMAIN PanelTable
         /\ tab \in DOMAIN PanelTable => ToSet(rs) # {}
<1>1. ASSUME NEW fn \in PanelFns, NEW kind \in {"templates", "switches", "policy"}, AskedOf[fn] = kind,
             NEW r, r = Load(fn, T(kind, w), {"tab"})
      PROVE  New(r) /\ r.owner = {"tab"} /\ r.fn = fn
  <2> DEFINE t == T(kind, w)
  <2>1. fn \in DOMAIN Verb /\ t \in Table /\ {"tab"} \in SUBSET Parts
    BY DEF Verb, PanelFns, Table, T, WorkspaceIds, Parts
  <2>2. r = Load(fn, t, {"tab"})
    BY <1>1
  <2> HIDE DEF t
  <2>3. IsRequest(r) /\ r.fn = fn /\ r.table = t /\ r.owner = {"tab"} /\ r.token = token /\ r.reply = Pending
    BY <2>1, <2>2, LoadIs
  <2>4. TableOf(r)
    <3>1. fn \in DOMAIN AskedOf /\ fn \notin DOMAIN BusyOf /\ fn \notin LibraryWrites /\ fn \notin {"listTemplateLibrary"}
      BY DEF AskedOf, BusyOf, LibraryWrites, PanelFns
    <3> QED BY <1>1, <2>3, <3>1 DEF TableOf, t, PanelFns
  <2>5. Asked(r)
    BY <2>3, <2>4 DEF Asked, PanelFns
  <2> QED BY <2>3, <2>5 DEF New, PanelFns
<1>2. ASSUME NEW r, rs = <<r>> PROVE ToSet(rs) = {r} /\ rs \in Seq(ToSet(rs)) /\ Len(rs) \in {0, 1}
  BY <1>2 DEF ToSet
<1>3. CASE tab = "templates"
  <2> DEFINE r == Load("listAttachedTemplates", T("templates", w), {"tab"})
  <2>1. rs = <<r>>
    BY <1>3 DEF PanelLoads
  <2>2. New(r) /\ r.owner = {"tab"} /\ r.fn = "listAttachedTemplates"
    BY <1>1 DEF PanelFns, AskedOf
  <2> HIDE DEF r
  <2> QED BY <1>2, <1>3, <2>1, <2>2 DEF PanelFns, PanelTable
<1>4. CASE tab = "providers"
  <2> DEFINE r == Load("listWorkspaceProviders", T("switches", w), {"tab"})
  <2>1. rs = <<r>>
    BY <1>4 DEF PanelLoads
  <2>2. New(r) /\ r.owner = {"tab"} /\ r.fn = "listWorkspaceProviders"
    BY <1>1 DEF PanelFns, AskedOf
  <2> HIDE DEF r
  <2> QED BY <1>2, <1>4, <2>1, <2>2 DEF PanelFns, PanelTable
<1>5. CASE tab = "guardrails"
  <2> DEFINE r == Load("getGuardrailPolicy", T("policy", w), {"tab"})
  <2>1. rs = <<r>>
    BY <1>5 DEF PanelLoads
  <2>2. New(r) /\ r.owner = {"tab"} /\ r.fn = "getGuardrailPolicy"
    BY <1>1 DEF PanelFns, AskedOf
  <2> HIDE DEF r
  <2> QED BY <1>2, <1>5, <2>1, <2>2 DEF PanelFns, PanelTable
<1>6. CASE tab \notin {"templates", "providers", "guardrails"}
  <2>1. rs = <<>>
    BY <1>6 DEF PanelLoads
  <2> QED BY <1>6, <2>1 DEF ToSet, PanelTable
<1> QED BY <1>3, <1>4, <1>5, <1>6

(* What a dialog loads. *)
LEMMA PoolLoadsAre ==
  ASSUME token \in Nat, NEW d, NEW w \in WorkspaceIds, NEW rs, rs = PoolLoads(d, w)
  PROVE  /\ rs \in Seq(ToSet(rs)) /\ Len(rs) \in {0, 1}
         /\ \A r \in ToSet(rs) :
              /\ New(r) /\ r.owner = {"dialog"}
              /\ \/ d.kind = "addMember" /\ r.fn = "listMemberCandidates"
                 \/ d.kind = "addTemplate" /\ r.fn = "listTemplateLibrary"
         /\ d.kind \in {"addMember", "addTemplate"} => ToSet(rs) # {}
<1>1. ASSUME NEW r, r = Load("listMemberCandidates", T("members", w), {"dialog"})
      PROVE  New(r) /\ r.owner = {"dialog"} /\ r.fn = "listMemberCandidates"
  <2> DEFINE t == T("members", w)
  <2>1. "listMemberCandidates" \in DOMAIN Verb /\ t \in Table /\ {"dialog"} \in SUBSET Parts
    BY DEF Verb, Table, T, WorkspaceIds, Parts
  <2>2. r = Load("listMemberCandidates", t, {"dialog"})
    BY <1>1
  <2> HIDE DEF t
  <2>3. IsRequest(r) /\ r.fn = "listMemberCandidates" /\ r.table = t /\ r.owner = {"dialog"} /\ r.token = token /\ r.reply = Pending
    BY <2>1, <2>2, LoadIs
  <2>4. TableOf(r)
    BY <2>3 DEF TableOf, t, LibraryWrites, AskedOf, BusyOf
  <2> QED BY <2>3, <2>4 DEF Asked, New
<1>2. ASSUME NEW r, r = Load("listTemplateLibrary", Library, {"dialog"})
      PROVE  New(r) /\ r.owner = {"dialog"} /\ r.fn = "listTemplateLibrary"
  <2>1. "listTemplateLibrary" \in DOMAIN Verb /\ Library \in Table /\ {"dialog"} \in SUBSET Parts
    BY DEF Verb, Table, Parts
  <2>2. IsRequest(r) /\ r.fn = "listTemplateLibrary" /\ r.table = Library /\ r.owner = {"dialog"} /\ r.token = token /\ r.reply = Pending
    BY <1>2, <2>1, LoadIs
  <2>3. TableOf(r)
    BY <2>2 DEF TableOf, LibraryWrites, AskedOf, BusyOf
  <2> QED BY <2>2, <2>3 DEF Asked, New
<1>3. ASSUME NEW r, rs = <<r>> PROVE ToSet(rs) = {r} /\ rs \in Seq(ToSet(rs)) /\ Len(rs) \in {0, 1}
  BY <1>3 DEF ToSet
<1>4. CASE d.kind = "addMember"
  <2> DEFINE r == Load("listMemberCandidates", T("members", w), {"dialog"})
  <2>1. rs = <<r>>
    BY <1>4 DEF PoolLoads
  <2>2. New(r) /\ r.owner = {"dialog"} /\ r.fn = "listMemberCandidates"
    BY <1>1
  <2> HIDE DEF r
  <2> QED BY <1>3, <1>4, <2>1, <2>2
<1>5. CASE d.kind = "addTemplate"
  <2> DEFINE r == Load("listTemplateLibrary", Library, {"dialog"})
  <2>1. rs = <<r>>
    BY <1>5 DEF PoolLoads
  <2>2. New(r) /\ r.owner = {"dialog"} /\ r.fn = "listTemplateLibrary"
    BY <1>2
  <2> HIDE DEF r
  <2> QED BY <1>3, <1>5, <2>1, <2>2
<1>6. CASE d.kind \notin {"addMember", "addTemplate"}
  <2>1. rs = <<>>
    BY <1>6 DEF PoolLoads
  <2> QED BY <1>6, <2>1 DEF ToSet
<1> QED BY <1>4, <1>5, <1>6

(* Two lists of loads, one after the other. *)
LEMMA BothLoads ==
  ASSUME NEW ps, NEW qs, ps \in Seq(ToSet(ps)), qs \in Seq(ToSet(qs)), Len(ps) \in {0, 1}, Len(qs) \in {0, 1}
  PROVE  /\ ps \o qs \in Seq(ToSet(ps \o qs)) /\ Len(ps \o qs) =< 2
         /\ ToSet(ps \o qs) = ToSet(ps) \cup ToSet(qs)
<1> DEFINE S == ToSet(ps) \cup ToSet(qs)
<1>1. ps \in Seq(S) /\ qs \in Seq(S)
  <2>1. \A n \in 1 .. Len(ps) : ps[n] \in S
    BY DEF ToSet
  <2>2. \A n \in 1 .. Len(qs) : qs[n] \in S
    BY DEF ToSet
  <2> QED BY <2>1, <2>2
<1>2. ps \o qs \in Seq(S) /\ Len(ps \o qs) = Len(ps) + Len(qs)
  BY <1>1
<1>3. \A n \in 1 .. Len(ps) + Len(qs) : (ps \o qs)[n] = IF n <= Len(ps) THEN ps[n] ELSE qs[n - Len(ps)]
  BY <1>1
<1>4. ToSet(ps \o qs) = S
  <2>1. ASSUME NEW x \in S PROVE x \in ToSet(ps \o qs)
    <3>1. CASE x \in ToSet(ps)
      <4>1. PICK n \in 1 .. Len(ps) : ps[n] = x
        BY <3>1 DEF ToSet
      <4>2. n \in 1 .. Len(ps) + Len(qs) /\ (ps \o qs)[n] = x
        BY <1>3, <4>1
      <4> QED BY <1>2, <4>2 DEF ToSet
    <3>2. CASE x \in ToSet(qs)
      <4>1. PICK n \in 1 .. Len(qs) : qs[n] = x
        BY <3>2 DEF ToSet
      <4>2. n + Len(ps) \in 1 .. Len(ps) + Len(qs) /\ ~(n + Len(ps) <= Len(ps)) /\ n + Len(ps) - Len(ps) = n
        BY <4>1
      <4>3. (ps \o qs)[n + Len(ps)] = x
        BY <1>3, <4>1, <4>2
      <4> QED BY <1>2, <4>2, <4>3 DEF ToSet
    <3> QED BY <3>1, <3>2
  <2>2. ToSet(ps \o qs) \subseteq S
    BY <1>2 DEF ToSet
  <2> QED BY <2>1, <2>2
<1>5. Len(ps \o qs) =< 2
  <2>1. PICK m \in {0, 1}, n \in {0, 1} : m = Len(ps) /\ n = Len(qs)
    OBVIOUS
  <2>2. m + n =< 2
    OBVIOUS
  <2> QED BY <1>2, <2>1, <2>2
<1>6. ps \o qs \in Seq(ToSet(ps \o qs))
  BY <1>2, <1>4
<1> QED BY <1>4, <1>5, <1>6

(* The fields of the screen of a workspace. *)
DetailFields ==
  {"at", "id", "loading", "failed", "gone", "rows", "roster", "rosterFailed", "tab", "panel",
   "panelFailed", "dialog", "pool", "busy", "busyId"}

(* The screen of a workspace as it is when it is opened. *)
AtFirstIs(v, w, tab, dialog) ==
  /\ DOMAIN v = DOMAIN DetailScreen(0) /\ v.at = "detail" /\ v.id = w
  /\ v.loading = TRUE /\ v.failed = FALSE /\ v.gone = FALSE /\ v.rosterFailed = FALSE /\ v.panelFailed = FALSE
  /\ v.tab = tab /\ v.panel = NoList /\ v.dialog = dialog /\ v.pool = NoList /\ v.busy = {} /\ v.busyId = 0

(* A detail screen that has just mounted is typed and not settled. *)
LEMMA DetailAtFirst ==
  ASSUME NEW w \in WorkspaceIds, NEW tab \in Tabs, NEW dialog, IsDialog(dialog, {"addMember"}), NEW v,
         AtFirstIs(v, w, tab, dialog)
  PROVE  /\ DetailTyped(v) /\ ~IsSettled(v) /\ v.at = "detail" /\ v.busy = {} /\ v.busyId = 0 /\ v.tab = tab
         /\ v.dialog = dialog
<1>1. /\ v.loading \in BOOLEAN /\ v.failed \in BOOLEAN /\ v.gone \in BOOLEAN /\ v.rosterFailed \in BOOLEAN
      /\ v.panelFailed \in BOOLEAN
  BY DEF AtFirstIs
<1>2. ~IsSettled(v)
  BY DEF IsSettled, AtFirstIs
<1>3. IsDialog(dialog, Dialogs \cup {"deleteWorkspace"}) /\ dialog.kind # "addTemplate" /\ dialog.kind \notin DOMAIN DialogTab
  BY DEF IsDialog, Dialogs, DialogTab
<1>4. /\ DOMAIN v = DOMAIN DetailScreen(0) /\ v.at = "detail" /\ v.id = w
      /\ v.tab = tab /\ v.panel = NoList /\ v.dialog = dialog /\ v.pool = NoList /\ v.busy = {} /\ v.busyId = 0
  BY DEF AtFirstIs
<1>5. DetailTyped(v)
  BY <1>1, <1>2, <1>3, <1>4 DEF DetailTyped
<1> QED BY <1>2, <1>4, <1>5

(* The screen of a workspace is opened. *)
LEMMA OpenWorkspaceInv ==
  ASSUME Inv, NEW w \in WorkspaceIds, OpenWorkspace(w)
  PROVE  Inv'
<1> DEFINE v == DetailScreen(w)
           q == GetWorkspace(w)
           r == ListMembers(w, "load")
<1>0. token \in Nat
  BY DEF Inv, Calls, CallsTyped
<1>1. New(q) /\ q.fn = "getWorkspace" /\ q.owner = {"screen"} /\ q.latest
  BY <1>0, GetWorkspaceIs, DetailLoadsAreLatest
<1>2. New(r) /\ r.fn = "listMembers" /\ r.owner = {"screen", "tab"} /\ r.latest
  BY <1>0, ListMembersIs, DetailLoadsAreLatest
<1>3. Navigate(v, <<q, r>>)
  BY DEF OpenWorkspace
<1>4. /\ DetailTyped(v) /\ ~IsSettled(v) /\ v.at = "detail" /\ v.busy = {} /\ v.busyId = 0 /\ v.tab = "members"
      /\ v.dialog = Closed
  <2>1. AtFirstIs(v, w, "members", Closed)
    BY DEF DetailScreen, AtFirstIs
  <2>2. IsDialog(Closed, {"addMember"}) /\ "members" \in Tabs
    BY DEF IsDialog, Closed, Dialog, Tabs
  <2> HIDE DEF v
  <2> QED BY <2>1, <2>2, DetailAtFirst
<1> HIDE DEF v, q, r
<1>5. \A s \in {q, r} : New(s) /\ Waiter(v, s)
  BY <1>1, <1>2, <1>4 DEF Waiter
<1>6. <<q, r>> \in Seq({q, r}) /\ Len(<<q, r>>) =< 2 /\ ToSet(<<q, r>>) = {q, r}
  BY DEF ToSet
<1>7. Calls' /\ ui' = v /\ Waiters(v, flight') /\ Turns(flight, flight', {}, Parts, {}, {q, r})
  BY <1>3, <1>4, <1>5, <1>6, NavigateInv
<1>8. ~Coming(flight', TabWrites, "tab") /\ ~Coming(flight', {"deleteWorkspace"}, "tab")
  <2>1. \A s \in {q, r} : s.fn \notin TabWrites \cup {"deleteWorkspace"}
    BY <1>1, <1>2 DEF TabWrites
  <2> QED BY <1>7, <2>1, Afterwards
<1>9. ComingLast(flight', "getWorkspace") /\ ComingLast(flight', "listMembers")
  <2>1. q \in {q, r} /\ r \in {q, r} /\ IsRequest(q) /\ IsRequest(r)
    BY <1>1, <1>2 DEF New
  <2>2. ComingLast(flight', q.fn)
    BY <1>1, <1>7, <2>1, NewComes
  <2>3. ComingLast(flight', r.fn)
    BY <1>2, <1>7, <2>1, NewComes
  <2> QED BY <1>1, <1>2, <2>2, <2>3
<1>10. OneDelete(flight')
  BY <1>8, IdleIsNone DEF OneDelete, Coming
<1>11. DetailWait(v, flight')
  BY <1>4, <1>8, <1>9, <1>10 DEF DetailWait, RosterWait, BusyWait, PanelWait, PoolWait
<1>12. ScreenTyped(v) /\ Waits(v, flight')
  BY <1>4, <1>11 DEF ScreenTyped, Waits, ProvidersWait, LibraryWait, ListWait
<1> QED BY <1>7, <1>12 DEF Inv, Screen

(* Both loads of another workspace. *)
LEMMA JumpTurns ==
  ASSUME NEW f, Flights(f), Cardinality(FreeSlots(f)) >= 2, NEW q, IsRequest(q), NEW r, IsRequest(r),
         q.fn # "listMembers"
  PROVE  Turns(f, Send(Supersede(Send(Supersede(f, {"getWorkspace"}), q), {"listMembers"}), r),
               {}, {}, {"getWorkspace", "listMembers"}, {q, r})
<1> DEFINE a == Supersede(f, {"getWorkspace"})
           b == Send(a, q)
           c == Supersede(b, {"listMembers"})
           d == Send(c, r)
<1>1. /\ Flights(a) /\ \A i \in Slots : f[i] = Idle <=> a[i] = Idle
      /\ \A i \in Slots : f[i] # Idle =>
           /\ Same(f[i], a[i]) /\ a[i].owner = f[i].owner
           /\ a[i].latest <=> f[i].latest /\ f[i].fn \notin {"getWorkspace"}
  BY Superseded
<1>2. IsFiniteSet(FreeSlots(f)) /\ Cardinality(FreeSlots(f)) \in Nat /\ FreeSlots(f) # {}
  BY FreeFinite, FS_EmptySet
<1>3. FreeSlots(a) = FreeSlots(f) /\ FreeSlots(f) = {i \in Slots : f[i] = Idle}
  BY <1>1 DEF FreeSlots, Flights
<1>4. PICK k \in Slots : a[k] = Idle /\ b = [a EXCEPT ![k] = q]
  BY <1>1, <1>2, <1>3, Sent
<1>5. Flights(b)
  BY <1>1, <1>4, FlightsSent DEF Sends
<1>6. b[k] = q /\ \A i \in Slots : i # k => b[i] = a[i]
  BY <1>1, <1>4 DEF Flights
<1>7. PICK l \in Slots : l # k /\ f[l] = Idle
  <2> SUFFICES ASSUME \A l \in Slots : f[l] = Idle => l = k PROVE FALSE
    OBVIOUS
  <2>1. FreeSlots(f) \subseteq {k}
    BY <1>3
  <2>2. Cardinality({k}) = 1 /\ IsFiniteSet({k})
    BY FS_Singleton
  <2>3. Cardinality(FreeSlots(f)) =< 1
    BY <2>1, <2>2, FS_Subset
  <2> QED BY <1>2, <2>3
<1>8. l \in FreeSlots(c)
  <2>1. b[l] = Idle
    BY <1>1, <1>6, <1>7
  <2>2. c[l] = Idle /\ Flights(c)
    BY <1>5, <2>1, Superseded
  <2> QED BY <2>2 DEF FreeSlots, Flights
<1>9. /\ Flights(c) /\ \A i \in Slots : b[i] = Idle <=> c[i] = Idle
      /\ \A i \in Slots : b[i] # Idle =>
           /\ Same(b[i], c[i]) /\ c[i].owner = b[i].owner
           /\ c[i].latest <=> b[i].latest /\ b[i].fn \notin {"listMembers"}
  BY <1>5, Superseded
<1>10. c[k] = q
  <2>1. k \in DOMAIN b
    BY <1>5 DEF Flights
  <2> QED BY <1>6, <2>1 DEF Supersede
<1>11. PICK m \in Slots : c[m] = Idle /\ d = [c EXCEPT ![m] = r]
  BY <1>8, <1>9, Sent
<1>12. m # k
  BY <1>10, <1>11, IdleIsNone
<1>13. Flights(d)
  BY <1>9, <1>11, FlightsSent DEF Sends
<1>14. d[m] = r /\ d[k] = q /\ \A i \in Slots \ {m, k} : d[i] = c[i]
  BY <1>9, <1>10, <1>11, <1>12 DEF Flights
<1>15. f[m] = Idle /\ f[k] = Idle
  <2>1. b[m] = Idle
    BY <1>9, <1>11
  <2> QED BY <1>1, <1>4, <1>6, <1>12, <2>1
<1>16. \A i \in Slots \ {m, k} : (f[i] = Idle => d[i] = Idle) /\ (f[i] # Idle => d[i] # Idle)
  BY <1>1, <1>6, <1>9, <1>14
<1>17. ASSUME NEW i \in Slots, f[i] # Idle
       PROVE  d[i] # Idle /\ Stays(f[i], d[i], {}, {"getWorkspace", "listMembers"})
  <2>1. i \notin {m, k}
    BY <1>15, <1>17
  <2>2. b[i] = a[i] /\ d[i] = c[i] /\ a[i] # Idle /\ d[i] # Idle
    BY <1>1, <1>6, <1>14, <1>16, <1>17, <2>1
  <2>3. Stays(f[i], a[i], {}, {"getWorkspace"})
    BY <1>1, <1>17 DEF Stays
  <2>4. Stays(b[i], c[i], {}, {"listMembers"})
    BY <1>9, <2>2 DEF Stays
  <2>5. Stays(f[i], d[i], {} \cup {}, {"getWorkspace"} \cup {"listMembers"})
    BY <2>2, <2>3, <2>4, StaysOn
  <2>6. {"getWorkspace"} \cup {"listMembers"} = {"getWorkspace", "listMembers"} /\ {} \cup {} = {}
    OBVIOUS
  <2> QED BY <2>2, <2>5, <2>6
<1> HIDE DEF a, b, c, d
<1>18. \A i \in Slots : f[i].owner = {} \/ f[i].owner \ {} # {}
  OBVIOUS
<1>19. \A i \in Slots : f[i] = Idle => d[i] = Idle \/ d[i] \in {q, r}
  BY <1>14, <1>16
<1>20. \A s \in {q, r} : \E i \in Slots : d[i] = s
  BY <1>14
<1>21. Turns(f, d, {}, {}, {"getWorkspace", "listMembers"}, {q, r})
  BY <1>13, <1>17, <1>18, <1>19, <1>20 DEF Turns
<1> QED BY <1>21 DEF a, b, c, d

(* The next workspace without leaving the screen. *)
LEMMA JumpInv ==
  ASSUME Inv, NEW w \in WorkspaceIds, Jump(w)
  PROVE  Inv'
<1> DEFINE f == Unmount(flight, {"tab", "dialog"})
           q == GetWorkspace(w)
           r == ListMembers(w, "load")
<1>1. /\ ui.at = "detail" /\ Cardinality(FreeSlots(f)) >= 2
      /\ ui' = [DetailScreen(w) EXCEPT !.tab = ui.tab, !.dialog = Left(ui.dialog)]
      /\ flight' = Send(Supersede(Send(Supersede(f, {"getWorkspace"}), q), {"listMembers"}), r)
      /\ strays' = strays \cup Strayed(flight, {"tab", "dialog"})
      /\ UNCHANGED <<db, expired, token, refused, writes, faults, sessions>>
  BY DEF Jump, LoadMembers, LoadWorkspace, serverVars
<1>2. DetailTyped(ui) /\ Flights(flight) /\ token \in Nat
  BY <1>1, AtDetail
<1>3. New(q) /\ q.fn = "getWorkspace" /\ q.owner = {"screen"} /\ q.latest
  BY <1>2, GetWorkspaceIs, DetailLoadsAreLatest
<1>4. New(r) /\ r.fn = "listMembers" /\ r.owner = {"screen", "tab"} /\ r.latest
  BY <1>2, ListMembersIs, DetailLoadsAreLatest
<1>5. /\ DetailTyped(ui') /\ ~IsSettled(ui') /\ ui'.at = "detail" /\ ui'.busy = {} /\ ui'.busyId = 0
      /\ ui'.dialog = Left(ui.dialog)
  <2>1. IsDialog(Left(ui.dialog), {"addMember"})
    BY <1>2 DEF DetailTyped, IsDialog, Left, Closed, Dialog
  <2>2. ui.tab \in Tabs
    BY <1>2 DEF DetailTyped
  <2>3. AtFirstIs(ui', w, ui.tab, Left(ui.dialog))
    BY <1>1 DEF DetailScreen, AtFirstIs
  <2> QED BY <2>1, <2>2, <2>3, DetailAtFirst
<1>6. Within
  <2>1. Turns(flight, flight, {}, {}, {}, {})
    BY <1>2, TurnsAsIs
  <2>2. Strayed(flight, {"tab", "dialog"}) \subseteq Given
    BY <1>2, <2>1, StrayedGiven
  <2> QED BY <1>1, <2>2 DEF Within, Given, Inv, Calls, CallsTyped
<1> HIDE DEF q, r
<1>7. Turns(flight, flight', {}, {"tab", "dialog"}, {"getWorkspace", "listMembers"}, {q, r})
  <2>1. Turns(flight, f, {}, {"tab", "dialog"}, {}, {}) /\ Flights(f)
    BY <1>2, UnmountTurns, Unmounted
  <2> HIDE DEF f
  <2>2. Turns(f, flight', {}, {}, {"getWorkspace", "listMembers"}, {q, r})
    BY <1>1, <1>3, <1>4, <2>1, JumpTurns DEF New
  <2> QED BY <2>1, <2>2, ThenTurns
<1> HIDE DEF f
<1>8. \A s \in {q, r} : New(s) /\ Waiter(ui', s) /\ s.fn \notin TabWrites /\ s.fn # "deleteWorkspace"
  BY <1>3, <1>4, <1>5 DEF Waiter, TabWrites
<1>9. ComingLast(flight', "getWorkspace") /\ ComingLast(flight', "listMembers")
  <2>1. q \in {q, r} /\ r \in {q, r} /\ IsRequest(q) /\ IsRequest(r)
    BY <1>3, <1>4 DEF New
  <2>2. ComingLast(flight', q.fn)
    BY <1>3, <1>7, <2>1, NewComes
  <2>3. ComingLast(flight', r.fn)
    BY <1>4, <1>7, <2>1, NewComes
  <2> QED BY <1>3, <1>4, <2>2, <2>3
<1>10. PanelWait(ui', flight')
  BY <1>1, <1>5, <1>7, <1>8, PanelGoesOn
<1>11. PoolWait(ui', flight')
  BY <1>1, <1>5, <1>7, <1>8, PoolGoesOn
<1>12. DetailWait(ui', flight')
  BY <1>5, <1>9, <1>10, <1>11 DEF DetailWait, RosterWait, BusyWait
<1> QED BY <1>1, <1>5, <1>6, <1>7, <1>8, <1>12, DetailGoOn

(* One slot is enough for at most one load. *)
LEMMA AtMostOne ==
  ASSUME NEW n \in {0, 1}
  PROVE  n =< 2 /\ \A m \in Nat : m >= 1 => m >= n
OBVIOUS

(* The workspace is loaded again. *)
LEMMA RetryWorkspaceInv ==
  ASSUME Inv, RetryWorkspace
  PROVE  Inv'
<1> DEFINE q == GetWorkspace(ui.id)
           v == [ui EXCEPT !.loading = TRUE, !.failed = FALSE, !.gone = FALSE]
<1>1. ui.at = "detail" /\ ui.failed /\ Room(1) /\ Client(v, Send(Supersede(flight, {"getWorkspace"}), q))
  BY DEF RetryWorkspace, LoadWorkspace
<1>2. DetailTyped(ui) /\ Flights(flight) /\ token \in Nat /\ DOMAIN ui = DetailFields /\ ui.id \in WorkspaceIds
  BY <1>1, AtDetail DEF DetailFields, DetailTyped
<1>3. New(q) /\ q.fn = "getWorkspace" /\ q.owner = {"screen"} /\ q.latest
  BY <1>2, GetWorkspaceIs, DetailLoadsAreLatest
<1>4. Within /\ ui' = v /\ flight' = Send(Supersede(flight, {"getWorkspace"}), q)
  BY <1>1, ClientWithin
<1> HIDE DEF q
<1>5. Turns(flight, flight', {}, {}, {"getWorkspace"}, {q})
  <2>1. FreeSlots(flight) # {}
    BY <1>1, <1>2, RoomIsFree
  <2> QED BY <1>2, <1>3, <1>4, <2>1, ReloadTurns DEF New
<1>6. /\ DOMAIN ui' = DOMAIN ui /\ ui'.at = "detail" /\ ui'.id = ui.id /\ ui'.loading = TRUE /\ ui'.failed = FALSE
      /\ ui'.gone = FALSE /\ ui'.rows = ui.rows /\ ui'.roster = ui.roster /\ ui'.rosterFailed = ui.rosterFailed
      /\ ui'.tab = ui.tab /\ ui'.panel = ui.panel /\ ui'.panelFailed = ui.panelFailed /\ ui'.dialog = ui.dialog
      /\ ui'.pool = ui.pool /\ ui'.busy = ui.busy /\ ui'.busyId = ui.busyId
  BY <1>1, <1>2, <1>4 DEF DetailFields
<1> HIDE DEF v
<1>7. ~IsSettled(ui) /\ ~IsSettled(ui')
  BY <1>1, <1>6 DEF IsSettled
<1>8. DetailTyped(ui')
  <2>1. ui'.loading \in BOOLEAN /\ ui'.failed \in BOOLEAN /\ ui'.gone \in BOOLEAN
    BY <1>6
  <2> QED BY <1>2, <1>6, <1>7, <2>1 DEF DetailTyped
<1>9. \A s \in {q} : New(s) /\ Waiter(ui', s) /\ s.fn \notin TabWrites /\ s.fn # "deleteWorkspace"
  BY <1>3, <1>6 DEF Waiter, TabWrites
<1>10. ComingLast(flight', "getWorkspace")
  BY <1>3, <1>5, NewComes DEF New
<1>11. RosterWait(ui', flight')
  <2>1. Spared("listMembers", {}, {"getWorkspace"})
    BY DEF Spared
  <2> QED BY <1>1, <1>5, <1>6, <2>1, LoadsGoOn DEF RosterWait
<1>12. BusyWait(ui', flight')
  BY <1>2, <1>6, <1>7 DEF BusyWait, DetailTyped
<1>13. PanelWait(ui', flight')
  BY <1>1, <1>5, <1>7, <1>9, PanelGoesOn
<1>14. PoolWait(ui', flight')
  BY <1>1, <1>5, <1>7, <1>9, PoolGoesOn
<1>15. DetailWait(ui', flight')
  BY <1>10, <1>11, <1>12, <1>13, <1>14 DEF DetailWait
<1>16. Within /\ ui.at = "detail" /\ ui'.at = "detail" /\ ui'.dialog.kind = ui.dialog.kind
  BY <1>1, <1>4, <1>6
<1> QED BY <1>5, <1>7, <1>8, <1>9, <1>15, <1>16, DetailGoOn

(* The members are. *)
LEMMA RetryMembersInv ==
  ASSUME Inv, RetryMembers
  PROVE  Inv'
<1> DEFINE q == ListMembers(ui.id, "load")
           v == [ui EXCEPT !.rosterFailed = FALSE]
<1>1. Settled /\ Room(1) /\ Client(v, Send(Supersede(flight, {"listMembers"}), q))
  BY DEF RetryMembers, LoadMembers
<1>2. /\ IsSettled(ui) /\ ui.at = "detail" /\ DetailTyped(ui) /\ Flights(flight) /\ token \in Nat
      /\ DOMAIN ui = DetailFields /\ ui.id \in WorkspaceIds /\ DetailWait(ui, flight)
  BY <1>1, WhenSettled DEF DetailFields
<1>3. New(q) /\ q.fn = "listMembers" /\ q.owner = {"screen", "tab"} /\ q.latest
  BY <1>2, ListMembersIs, DetailLoadsAreLatest
<1>4. Within /\ ui' = v /\ flight' = Send(Supersede(flight, {"listMembers"}), q)
  BY <1>1, ClientWithin
<1> HIDE DEF q
<1>5. Turns(flight, flight', {}, {}, {"listMembers"}, {q})
  <2>1. FreeSlots(flight) # {}
    BY <1>1, <1>2, RoomIsFree
  <2> QED BY <1>2, <1>3, <1>4, <2>1, ReloadTurns DEF New
<1>6. /\ DOMAIN ui' = DOMAIN ui /\ ui'.at = "detail" /\ ui'.id = ui.id /\ ui'.loading = ui.loading /\ ui'.failed = ui.failed
      /\ ui'.gone = ui.gone /\ ui'.rows = ui.rows /\ ui'.roster = ui.roster /\ ui'.rosterFailed = FALSE
      /\ ui'.tab = ui.tab /\ ui'.panel = ui.panel /\ ui'.panelFailed = ui.panelFailed /\ ui'.dialog = ui.dialog
      /\ ui'.pool = ui.pool /\ ui'.busy = ui.busy /\ ui'.busyId = ui.busyId
  BY <1>1, <1>2, <1>4 DEF DetailFields
<1> HIDE DEF v
<1>7. IsSettled(ui')
  BY <1>2, <1>6 DEF IsSettled
<1>8. DetailTyped(ui')
  <2>1. ui'.rosterFailed \in BOOLEAN
    BY <1>6
  <2> QED BY <1>2, <1>6, <1>7, <2>1 DEF DetailTyped
<1>9. \A s \in {q} : New(s) /\ Waiter(ui', s) /\ s.fn \notin TabWrites /\ s.fn # "deleteWorkspace"
  BY <1>3, <1>6 DEF Waiter, TabWrites
<1>10. ComingLast(flight', "listMembers")
  BY <1>3, <1>5, NewComes DEF New
<1>11. ui'.loading => ComingLast(flight', "getWorkspace")
  BY <1>7 DEF IsSettled
<1>12. BusyWait(ui', flight')
  <2>1. "roles" \in ui.busy => RolesComing(flight') /\ ui.dialog.kind = "roles"
    BY <1>2, <1>5, RolesOn DEF DetailWait, BusyWait
  <2>2. "addMember" \in ui.busy => ui.dialog.kind = "addMember"
    BY <1>2 DEF DetailWait, BusyWait
  <2> QED BY <1>2, <1>5, <1>6, <2>1, <2>2, BusyGoesOn
<1>13. PanelWait(ui', flight')
  BY <1>2, <1>5, <1>6, <1>9, PanelGoesOn
<1>14. PoolWait(ui', flight')
  BY <1>2, <1>5, <1>6, <1>9, PoolGoesOn
<1>15. DetailWait(ui', flight')
  BY <1>10, <1>11, <1>12, <1>13, <1>14 DEF DetailWait, RosterWait
<1>16. Within /\ ui.at = "detail" /\ ui'.at = "detail" /\ ui'.dialog.kind = ui.dialog.kind /\ ui'.tab = ui.tab
  BY <1>2, <1>4, <1>6
<1> QED BY <1>5, <1>7, <1>8, <1>9, <1>15, <1>16, DetailGoOn

(* What the tab shows is. *)
LEMMA RetryPanelInv ==
  ASSUME Inv, RetryPanel
  PROVE  Inv'
<1> DEFINE rs == PanelLoads(ui.tab, Shown)
           S == ToSet(rs)
           v == [ui EXCEPT !.panelFailed = FALSE, !.panel = IF ui.tab = "guardrails" THEN NoList ELSE @]
<1>1. Settled /\ Room(1) /\ Client(v, SendAll(flight, rs))
  BY DEF RetryPanel
<1>2. /\ IsSettled(ui) /\ ui.at = "detail" /\ DetailTyped(ui) /\ Flights(flight) /\ token \in Nat
      /\ DOMAIN ui = DetailFields /\ Shown \in WorkspaceIds /\ DetailWait(ui, flight) /\ ui.tab \in Tabs
  BY <1>1, WhenSettled DEF DetailFields, DetailTyped
<1>3. /\ rs \in Seq(S) /\ Len(rs) \in {0, 1}
      /\ \A r \in S :
           /\ New(r) /\ r.owner = {"tab"} /\ r.fn \in PanelFns
           /\ ui.tab = "templates" => r.fn = "listAttachedTemplates"
           /\ ui.tab = "providers" => r.fn = "listWorkspaceProviders"
           /\ ui.tab = "guardrails" => r.fn = "getGuardrailPolicy"
           /\ ui.tab \in DOMAIN PanelTable
      /\ ui.tab \in DOMAIN PanelTable => S # {}
  BY <1>2, PanelLoadsAre
<1>4. Within /\ ui' = v /\ flight' = SendAll(flight, rs)
  BY <1>1, ClientWithin
<1> HIDE DEF rs, S
<1>5. Turns(flight, flight', {}, {}, {}, S)
  <2>1. Cardinality(FreeSlots(flight)) >= 1 /\ Cardinality(FreeSlots(flight)) \in Nat
    BY <1>1, <1>2, FreeFinite DEF Room
  <2>2. Cardinality(FreeSlots(flight)) >= Len(rs) /\ Len(rs) =< 2
    BY <1>3, <2>1, AtMostOne
  <2>3. \A r \in S : IsRequest(r)
    BY <1>3 DEF New
  <2>4. ToSet(rs) = S
    BY DEF S
  <2> QED BY <1>2, <1>3, <1>4, <2>2, <2>3, <2>4, LoadsTurn
<1>6. /\ DOMAIN ui' = DOMAIN ui /\ ui'.at = "detail" /\ ui'.id = ui.id /\ ui'.loading = ui.loading /\ ui'.failed = ui.failed
      /\ ui'.gone = ui.gone /\ ui'.rows = ui.rows /\ ui'.roster = ui.roster /\ ui'.rosterFailed = ui.rosterFailed
      /\ ui'.tab = ui.tab /\ ui'.panel \in {ui.panel, NoList} /\ ui'.panelFailed = FALSE /\ ui'.dialog = ui.dialog
      /\ ui'.pool = ui.pool /\ ui'.busy = ui.busy /\ ui'.busyId = ui.busyId
      /\ ui'.panel = ui.panel \/ ui.tab = "guardrails"
  BY <1>1, <1>2, <1>4 DEF DetailFields
<1> HIDE DEF v
<1>7. IsSettled(ui')
  BY <1>2, <1>6 DEF IsSettled
<1>8. DetailTyped(ui')
  <2>1. ui'.panelFailed \in BOOLEAN
    BY <1>6
  <2>2. ui'.dialog.kind = "addTemplate" => ui'.panel # NoList
    <3>1. ui.dialog.kind = "addTemplate" => ui.panel # NoList /\ ui.tab = "templates"
      BY <1>2 DEF DetailTyped, DialogTab
    <3> QED BY <1>6, <3>1
  <2> QED BY <1>2, <1>6, <1>7, <2>1, <2>2 DEF DetailTyped
<1>9. \A r \in S : New(r) /\ Waiter(ui', r) /\ r.fn \notin TabWrites /\ r.fn # "deleteWorkspace"
  <2>1. \A r \in S : TabWaiter(ui', r)
    BY <1>3, <1>6 DEF TabWaiter, PanelTable
  <2>2. PanelFns \cap TabWrites = {} /\ "deleteWorkspace" \notin PanelFns
    BY DEF PanelFns, TabWrites
  <2>3. ui'.at = "detail"
    BY <1>6
  <2>4. \A r \in S : "tab" \in r.owner /\ "screen" \notin r.owner /\ "dialog" \notin r.owner /\ r.owner # {} /\ New(r)
                     /\ r.fn \in PanelFns
    BY <1>3
  <2> QED BY <1>7, <2>1, <2>2, <2>3, <2>4 DEF Waiter
<1>10. \A r \in S : Coming(flight', PanelFns, "tab")
  BY <1>3, <1>5, NewComes DEF New
<1>11. /\ ui'.loading => ComingLast(flight', "getWorkspace")
       /\ RosterWait(ui', flight')
  <2>1. Spared("listMembers", {}, {}) /\ Spared("getWorkspace", {}, {})
    BY DEF Spared
  <2>2. ui.loading => ComingLast(flight', "getWorkspace")
    BY <1>2, <1>5, <2>1, LoadsGoOn
  <2>3. ui.roster = NoList /\ ~ui.rosterFailed => ComingLast(flight', "listMembers")
    BY <1>2, <1>5, <2>1, LoadsGoOn
  <2> QED BY <1>6, <2>2, <2>3 DEF RosterWait
<1>12. BusyWait(ui', flight')
  <2>1. "roles" \in ui.busy => RolesComing(flight') /\ ui.dialog.kind = "roles"
    BY <1>2, <1>5, RolesOn DEF DetailWait, BusyWait
  <2>2. "addMember" \in ui.busy => ui.dialog.kind = "addMember"
    BY <1>2 DEF DetailWait, BusyWait
  <2> QED BY <1>2, <1>5, <1>6, <2>1, <2>2, BusyGoesOn
<1>13. PanelWait(ui', flight')
  <2>1. ui'.tab \notin DOMAIN PanelTable \/ Coming(flight', PanelFns, "tab")
    BY <1>3, <1>6, <1>10
  <2>2. ui'.tab = "templates" /\ ui'.panel = NoList => ui.tab = "templates" /\ ui.panel = NoList
    BY <1>6
  <2> QED BY <1>2, <1>5, <1>9, <2>1, <2>2, PanelGoesOn
<1>14. PoolWait(ui', flight')
  BY <1>2, <1>5, <1>6, <1>9, PoolGoesOn
<1>15. DetailWait(ui', flight')
  BY <1>11, <1>12, <1>13, <1>14 DEF DetailWait
<1>16. Within /\ ui.at = "detail" /\ ui'.at = "detail" /\ ui'.dialog.kind = ui.dialog.kind /\ ui'.tab = ui.tab
  BY <1>2, <1>4, <1>6
<1> QED BY <1>5, <1>7, <1>8, <1>9, <1>15, <1>16, DetailGoOn

(* Another tab. *)
LEMMA PickTabInv ==
  ASSUME Inv, NEW tab \in Tabs, PickTab(tab)
  PROVE  Inv'
<1> DEFINE rs == PanelLoads(tab, Shown)
           S == ToSet(rs)
           f == Unmount(flight, {"tab"})
<1>1. /\ Settled /\ ui.dialog = Closed /\ Cardinality(FreeSlots(f)) >= Len(rs)
      /\ ui' = [ui EXCEPT !.tab = tab, !.panel = NoList, !.panelFailed = FALSE, !.busy = {}, !.busyId = 0]
      /\ flight' = SendAll(f, rs)
      /\ strays' = strays \cup Strayed(flight, {"tab"})
      /\ UNCHANGED <<db, expired, token, refused, writes, sessions>>
  BY DEF PickTab, serverVars, countVars
<1>2. /\ IsSettled(ui) /\ ui.at = "detail" /\ DetailTyped(ui) /\ Flights(flight) /\ token \in Nat
      /\ DOMAIN ui = DetailFields /\ Shown \in WorkspaceIds /\ ui.dialog.kind = "closed"
  BY <1>1, WhenSettled DEF DetailFields, Closed
<1>3. /\ rs \in Seq(S) /\ Len(rs) \in {0, 1}
      /\ \A r \in S :
           /\ New(r) /\ r.owner = {"tab"} /\ r.fn \in PanelFns
           /\ tab = "templates" => r.fn = "listAttachedTemplates"
           /\ tab = "providers" => r.fn = "listWorkspaceProviders"
           /\ tab = "guardrails" => r.fn = "getGuardrailPolicy"
           /\ tab \in DOMAIN PanelTable
      /\ tab \in DOMAIN PanelTable => S # {}
  BY <1>2, PanelLoadsAre
<1> HIDE DEF rs, S
<1>4. Within
  <2>1. Turns(flight, flight, {}, {}, {}, {})
    BY <1>2, TurnsAsIs
  <2>2. Strayed(flight, {"tab"}) \subseteq Given
    BY <1>2, <2>1, StrayedGiven
  <2> QED BY <1>1, <2>2 DEF Within, Given, Inv, Calls, CallsTyped
<1>5. Turns(flight, flight', {}, {"tab"}, {}, S)
  <2>1. Turns(flight, f, {}, {"tab"}, {}, {}) /\ Flights(f)
    BY <1>2, UnmountTurns, Unmounted
  <2> HIDE DEF f
  <2>2. Len(rs) =< 2
    BY <1>3, AtMostOne
  <2>3. \A r \in S : IsRequest(r)
    BY <1>3 DEF New
  <2>4. ToSet(rs) = S
    BY DEF S
  <2>5. Turns(f, flight', {}, {}, {}, S)
    BY <1>1, <1>3, <2>1, <2>2, <2>3, <2>4, LoadsTurn
  <2> QED BY <2>1, <2>5, ThenTurns
<1> HIDE DEF f
<1>6. /\ DOMAIN ui' = DOMAIN ui /\ ui'.at = "detail" /\ ui'.id = ui.id /\ ui'.loading = ui.loading /\ ui'.failed = ui.failed
      /\ ui'.gone = ui.gone /\ ui'.rows = ui.rows /\ ui'.roster = ui.roster /\ ui'.rosterFailed = ui.rosterFailed
      /\ ui'.tab = tab /\ ui'.panel = NoList /\ ui'.panelFailed = FALSE /\ ui'.dialog = ui.dialog
      /\ ui'.pool = ui.pool /\ ui'.busy = {} /\ ui'.busyId = 0
  BY <1>1, <1>2 DEF DetailFields
<1>7. IsSettled(ui')
  BY <1>2, <1>6 DEF IsSettled
<1>8. DetailTyped(ui')
  <2>1. ui'.panelFailed \in BOOLEAN
    BY <1>6
  <2>2. ui'.dialog.kind \notin DOMAIN DialogTab /\ ui'.dialog.kind # "addTemplate"
    BY <1>2, <1>6 DEF DialogTab
  <2> QED BY <1>2, <1>6, <1>7, <2>1, <2>2 DEF DetailTyped
<1>9. \A r \in S : New(r) /\ Waiter(ui', r) /\ r.fn \notin TabWrites /\ r.fn # "deleteWorkspace"
  <2>1. \A r \in S : TabWaiter(ui', r)
    BY <1>3, <1>6 DEF TabWaiter, PanelTable
  <2>2. PanelFns \cap TabWrites = {} /\ "deleteWorkspace" \notin PanelFns
    BY DEF PanelFns, TabWrites
  <2> QED BY <1>3, <1>6, <1>7, <2>1, <2>2 DEF Waiter
<1>10. \A r \in S : Coming(flight', PanelFns, "tab")
  BY <1>3, <1>5, NewComes DEF New
<1>11. /\ ui'.loading => ComingLast(flight', "getWorkspace")
       /\ RosterWait(ui', flight')
  <2>1. Spared("listMembers", {}, {}) /\ Spared("getWorkspace", {}, {})
    BY DEF Spared
  <2>2. ui.loading => ComingLast(flight', "getWorkspace")
    BY <1>2, <1>5, <2>1, LoadsGoOn
  <2>3. ui.roster = NoList /\ ~ui.rosterFailed => ComingLast(flight', "listMembers")
    BY <1>2, <1>5, <2>1, LoadsGoOn
  <2> QED BY <1>6, <2>2, <2>3 DEF RosterWait
<1>12. BusyWait(ui', flight')
  BY <1>6 DEF BusyWait
<1>13. PanelWait(ui', flight')
  <2>1. ui'.tab \notin DOMAIN PanelTable \/ Coming(flight', PanelFns, "tab")
    BY <1>3, <1>6, <1>10
  <2> QED BY <1>2, <1>5, <1>9, <2>1, PanelGoesOn
<1>14. PoolWait(ui', flight')
  <2>1. ui'.dialog.kind \notin {"addMember", "addTemplate"}
    BY <1>2, <1>6
  <2> QED BY <1>2, <1>5, <1>9, <2>1, PoolGoesOn
<1>15. DetailWait(ui', flight')
  BY <1>11, <1>12, <1>13, <1>14 DEF DetailWait
<1>16. Within /\ ui.at = "detail" /\ ui'.at = "detail"
  BY <1>2, <1>4, <1>6
<1> QED BY <1>2, <1>5, <1>7, <1>8, <1>9, <1>15, <1>16, DetailGoOn

(* A dialog is opened over the tab. *)
LEMMA OpenDetailDialogInv ==
  ASSUME Inv, NEW kind \in Dialogs \cup {"deleteWorkspace"}, NEW row \in Id["members"] \cup {0}, OpenDetailDialog(kind, row)
  PROVE  Inv'
<1> DEFINE d == Dialog(kind, row)
           rs == PoolLoads(d, Shown)
           S == ToSet(rs)
           v == [ui EXCEPT !.dialog = d, !.pool = NoList]
<1>1. Settled /\ ui.dialog = Closed /\ Room(Len(rs)) /\ Client(v, SendAll(flight, rs))
  BY DEF OpenDetailDialog
<1>2. /\ IsSettled(ui) /\ ui.at = "detail" /\ DetailTyped(ui) /\ Flights(flight) /\ token \in Nat
      /\ DOMAIN ui = DetailFields /\ Shown \in WorkspaceIds /\ DetailWait(ui, flight) /\ ui.dialog.kind = "closed"
  BY <1>1, WhenSettled DEF DetailFields, Closed
<1>3. d.kind = kind /\ IsDialog(d, Dialogs \cup {"deleteWorkspace"})
  <2>1. row \in Nat
    BY IdsTyped DEF Kinds
  <2> QED BY <2>1 DEF Dialog, IsDialog, Dialogs
<1>4. /\ rs \in Seq(S) /\ Len(rs) \in {0, 1}
      /\ \A r \in S :
           /\ New(r) /\ r.owner = {"dialog"}
           /\ \/ d.kind = "addMember" /\ r.fn = "listMemberCandidates"
              \/ d.kind = "addTemplate" /\ r.fn = "listTemplateLibrary"
      /\ d.kind \in {"addMember", "addTemplate"} => S # {}
  BY <1>2, PoolLoadsAre
<1>5. /\ kind \in DOMAIN DialogTab => ui.tab = DialogTab[kind]
      /\ kind = "addTemplate" => ui.panel # NoList
  BY DEF OpenDetailDialog, DialogTab, Dialogs
<1>6. Within /\ ui' = v /\ flight' = SendAll(flight, rs)
  BY <1>1, ClientWithin
<1> HIDE DEF rs, S, d
<1>7. Turns(flight, flight', {}, {}, {}, S)
  <2>1. Cardinality(FreeSlots(flight)) >= Len(rs) /\ Len(rs) =< 2
    BY <1>1, <1>4, AtMostOne DEF Room
  <2>2. \A r \in S : IsRequest(r)
    BY <1>4 DEF New
  <2>3. ToSet(rs) = S
    BY DEF S
  <2> QED BY <1>2, <1>4, <1>6, <2>1, <2>2, <2>3, LoadsTurn
<1>8. /\ DOMAIN ui' = DOMAIN ui /\ ui'.at = "detail" /\ ui'.id = ui.id /\ ui'.loading = ui.loading /\ ui'.failed = ui.failed
      /\ ui'.gone = ui.gone /\ ui'.rows = ui.rows /\ ui'.roster = ui.roster /\ ui'.rosterFailed = ui.rosterFailed
      /\ ui'.tab = ui.tab /\ ui'.panel = ui.panel /\ ui'.panelFailed = ui.panelFailed /\ ui'.dialog = d
      /\ ui'.pool = NoList /\ ui'.busy = ui.busy /\ ui'.busyId = ui.busyId
  BY <1>1, <1>2, <1>6 DEF DetailFields
<1> HIDE DEF v
<1>9. IsSettled(ui')
  BY <1>2, <1>8 DEF IsSettled
<1>10. DetailTyped(ui')
  BY <1>2, <1>3, <1>5, <1>8, <1>9 DEF DetailTyped
<1>11. \A r \in S : New(r) /\ Waiter(ui', r) /\ r.fn \notin TabWrites /\ r.fn # "deleteWorkspace"
  <2>1. \A r \in S : DialogWaiter(ui', r) /\ r.fn \notin TabWrites /\ r.fn # "deleteWorkspace"
    BY <1>4, <1>8 DEF DialogWaiter, TabWrites
  <2>2. ui'.at = "detail"
    BY <1>8
  <2>3. \A r \in S : "tab" \notin r.owner /\ "screen" \notin r.owner /\ r.owner # {} /\ New(r)
    BY <1>4
  <2> QED BY <1>9, <2>1, <2>2, <2>3 DEF Waiter
<1>12. \A r \in S : Coming(flight', {"listMemberCandidates", "listTemplateLibrary"}, "dialog")
  BY <1>4, <1>7, NewComes DEF New
<1>13. /\ ui'.loading => ComingLast(flight', "getWorkspace")
       /\ RosterWait(ui', flight')
  <2>1. Spared("listMembers", {}, {}) /\ Spared("getWorkspace", {}, {})
    BY DEF Spared
  <2>2. ui.loading => ComingLast(flight', "getWorkspace")
    BY <1>2, <1>7, <2>1, LoadsGoOn
  <2>3. ui.roster = NoList /\ ~ui.rosterFailed => ComingLast(flight', "listMembers")
    BY <1>2, <1>7, <2>1, LoadsGoOn
  <2> QED BY <1>8, <2>2, <2>3 DEF RosterWait
<1>14. BusyWait(ui', flight')
  <2>1. "roles" \notin ui.busy /\ "addMember" \notin ui.busy
    BY <1>2 DEF DetailWait, BusyWait
  <2> QED BY <1>2, <1>7, <1>8, <2>1, BusyGoesOn
<1>15. PanelWait(ui', flight')
  BY <1>2, <1>7, <1>8, <1>11, PanelGoesOn
<1>16. PoolWait(ui', flight')
  <2>1. ui'.dialog.kind \notin {"addMember", "addTemplate"} \/ Coming(flight', {"listMemberCandidates", "listTemplateLibrary"}, "dialog")
    BY <1>4, <1>8, <1>12
  <2> QED BY <1>2, <1>7, <1>8, <1>11, <2>1, PoolGoesOn
<1>17. DetailWait(ui', flight')
  BY <1>13, <1>14, <1>15, <1>16 DEF DetailWait
<1>18. Within /\ ui.at = "detail" /\ ui'.at = "detail" /\ ui'.tab = ui.tab
  BY <1>2, <1>6, <1>8
<1> QED BY <1>2, <1>7, <1>9, <1>10, <1>11, <1>17, <1>18, DetailGoOn

(* And closed. *)
LEMMA CloseDetailDialogInv ==
  ASSUME Inv, CloseDetailDialog
  PROVE  Inv'
<1>1. /\ Settled /\ "delete" \notin ui.busy
      /\ ui' = [ui EXCEPT !.dialog = Closed, !.pool = NoList, !.busy = @ \ Dialogs,
                          !.busyId = IF ui.dialog.kind = "addTemplate" THEN 0 ELSE @]
      /\ flight' = Unmount(flight, {"dialog"})
      /\ strays' = strays \cup Strayed(flight, {"dialog"})
      /\ UNCHANGED <<db, expired, token, refused, writes, sessions>>
  BY DEF CloseDetailDialog, serverVars, countVars
<1>2. /\ IsSettled(ui) /\ ui.at = "detail" /\ DetailTyped(ui) /\ Flights(flight) /\ token \in Nat
      /\ DOMAIN ui = DetailFields /\ DetailWait(ui, flight)
  BY <1>1, WhenSettled DEF DetailFields
<1>3. Within
  <2>1. Turns(flight, flight, {}, {}, {}, {})
    BY <1>2, TurnsAsIs
  <2>2. Strayed(flight, {"dialog"}) \subseteq Given
    BY <1>2, <2>1, StrayedGiven
  <2> QED BY <1>1, <2>2 DEF Within, Given, Inv, Calls, CallsTyped
<1>4. Turns(flight, flight', {}, {"dialog"}, {}, {})
  BY <1>1, <1>2, UnmountTurns
<1>5. /\ DOMAIN ui' = DOMAIN ui /\ ui'.at = "detail" /\ ui'.id = ui.id /\ ui'.loading = ui.loading /\ ui'.failed = ui.failed
      /\ ui'.gone = ui.gone /\ ui'.rows = ui.rows /\ ui'.roster = ui.roster /\ ui'.rosterFailed = ui.rosterFailed
      /\ ui'.tab = ui.tab /\ ui'.panel = ui.panel /\ ui'.panelFailed = ui.panelFailed /\ ui'.dialog = Closed
      /\ ui'.pool = NoList /\ ui'.busy = ui.busy \ Dialogs
      /\ ui'.busyId = IF ui.dialog.kind = "addTemplate" THEN 0 ELSE ui.busyId
  BY <1>1, <1>2 DEF DetailFields
<1>6. IsSettled(ui')
  BY <1>2, <1>5 DEF IsSettled
<1>7. Closed.kind = "closed" /\ IsDialog(Closed, Dialogs \cup {"deleteWorkspace"})
  BY DEF Closed, IsDialog, Dialog
<1>8. DetailTyped(ui')
  <2>1. Closed.kind \notin DOMAIN DialogTab /\ Closed.kind # "addTemplate"
    BY <1>7 DEF DialogTab
  <2>2. ui'.busy \subseteq ui.busy
    BY <1>5
  <2> QED BY <1>2, <1>5, <1>6, <1>7, <2>1, <2>2 DEF DetailTyped
<1>9. /\ ui'.loading => ComingLast(flight', "getWorkspace")
      /\ RosterWait(ui', flight')
  <2>1. Spared("listMembers", {}, {}) /\ Spared("getWorkspace", {}, {})
    BY DEF Spared
  <2>2. ui.loading => ComingLast(flight', "getWorkspace")
    BY <1>2, <1>4, <2>1, LoadsGoOn
  <2>3. ui.roster = NoList /\ ~ui.rosterFailed => ComingLast(flight', "listMembers")
    BY <1>2, <1>4, <2>1, LoadsGoOn
  <2> QED BY <1>5, <2>2, <2>3 DEF RosterWait
<1>10. BusyWait(ui', flight')
  <2>1. "roles" \notin ui'.busy /\ "addMember" \notin ui'.busy /\ ui'.busy \subseteq ui.busy
    BY <1>5 DEF Dialogs
  <2>2. ui'.busyId # 0 => Coming(flight', {"setProviderEnabled"}, "tab")
    <3>1. AttachComing(flight) => ui.dialog.kind = "addTemplate"
      <4>1. ASSUME NEW i \in Slots, flight[i] # Idle, flight[i].fn = "attachTemplate", "dialog" \in flight[i].owner
            PROVE  ui.dialog.kind = "addTemplate"
        <5>1. Waiter(ui, flight[i])
          BY <1>2, <4>1, AtDetail
        <5> QED BY <1>2, <4>1, <5>1 DEF Waiter, DialogWaiter
      <4> QED BY <4>1 DEF AttachComing, ComingFor
    <3>2. ui'.busyId # 0 => Coming(flight, {"setProviderEnabled"}, "tab")
      BY <1>2, <1>5, <3>1 DEF DetailWait, BusyWait
    <3> QED BY <1>4, <3>2, ComingOn
  <2> QED BY <1>2, <1>4, <2>1, <2>2, BusyGoesOn
<1>11. PanelWait(ui', flight')
  BY <1>2, <1>4, <1>5, PanelGoesOn
<1>12. PoolWait(ui', flight')
  <2>1. PoolWait(ui, flight)
    BY <1>2 DEF DetailWait
  <2>2. ~Coming(flight', {"deleteWorkspace"}, "tab")
    BY <1>1, <1>4, <2>1, ComingBefore DEF PoolWait
  <2>3. OneDelete(flight')
    BY <1>4, <2>1, OneDeleteOn DEF PoolWait
  <2> QED BY <1>5, <1>7, <2>2, <2>3 DEF PoolWait
<1>13. DetailWait(ui', flight')
  BY <1>9, <1>10, <1>11, <1>12 DEF DetailWait
<1>14. Within /\ ui.at = "detail" /\ ui'.at = "detail" /\ ui'.tab = ui.tab
  BY <1>2, <1>3, <1>5
<1>15. \A q \in {} : New(q) /\ Waiter(ui', q)
  OBVIOUS
<1> QED BY <1>4, <1>6, <1>8, <1>13, <1>14, <1>15, DetailGoOn

(* What several components wait for comes after another answer. *)
LEMMA ComingForAnother ==
  ASSUME NEW f, NEW g, NEW i, NEW new, NEW fns, Turns(f, g, {i}, {}, fns, new), NEW S, NEW all, all # {},
         ~(f[i].fn \in S /\ all \subseteq f[i].owner), ComingFor(f, S, all)
  PROVE  ComingFor(g, S, all)
<1>1. PICK k \in Slots : f[k] # Idle /\ f[k].fn \in S /\ all \subseteq f[k].owner
  BY DEF ComingFor
<1>2. k # i
  BY <1>1
<1>3. f[k].owner \ {} # {} /\ f[k].owner \ {} = f[k].owner
  BY <1>1
<1>4. g[k] # Idle /\ Stays(f[k], g[k], {}, fns)
  BY <1>1, <1>2, <1>3 DEF Turns
<1>5. g[k].fn \in S /\ all \subseteq g[k].owner
  BY <1>1, <1>3, <1>4 DEF Stays, Same
<1> QED BY <1>4, <1>5 DEF ComingFor

(* An answer is read that neither loads nor closes anything: who it is for *)
(* waits no more, and everybody else still does.                           *)
LEMMA DetailAnswerInv ==
  ASSUME Inv, Within, ui.at = "detail", NEW i \in Slots, flight[i] # Idle, Turns(flight, flight', {i}, {}, {}, {}),
         NEW v, ui' = v, DOMAIN v = DOMAIN ui, v.at = "detail", v.id = ui.id, v.loading = ui.loading, v.failed = ui.failed,
         v.gone = ui.gone, v.rows = ui.rows \/ v.rows[1][1] \in WorkspaceIds, v.tab = ui.tab, v.dialog = ui.dialog,
         v.rosterFailed \in BOOLEAN, v.panelFailed \in BOOLEAN,
         \/ v.panel = ui.panel
         \/ v.panel \in Seq(Row) /\ (ui.tab = "providers" => AreSwitches(v.panel)),
         v.pool = ui.pool \/ v.pool \in Seq(Row),
         v.busy \subseteq ui.busy, v.busyId \in {0, ui.busyId},
         ui.loading => ~(flight[i].fn = "getWorkspace" /\ flight[i].latest),
         v.roster = NoList /\ ~v.rosterFailed =>
           ui.roster = NoList /\ ~ui.rosterFailed /\ ~(flight[i].fn = "listMembers" /\ flight[i].latest),
         "roles" \in v.busy =>
           /\ flight[i].fn = "replaceMemberRoles" => ~({"screen", "tab", "dialog"} \subseteq flight[i].owner)
           /\ flight[i].fn = "listMembers" => ~({"screen", "tab"} \subseteq flight[i].owner /\ flight[i].memo = "roles"),
         "addMember" \in v.busy => ~(flight[i].fn = "addMember" /\ {"screen", "dialog"} \subseteq flight[i].owner),
         flight[i].fn = "saveGuardrailPolicy" => "policy" \notin v.busy \/ "tab" \notin flight[i].owner,
         flight[i].fn = "updateWorkspace" => "rename" \notin v.busy \/ "tab" \notin flight[i].owner,
         flight[i].fn = "deleteWorkspace" => "tab" \notin flight[i].owner,
         "delete" \in ui.busy => "delete" \in v.busy,
         v.busyId # 0 =>
           /\ ~(flight[i].fn = "attachTemplate" /\ {"tab", "dialog"} \subseteq flight[i].owner)
           /\ ~(flight[i].fn = "setProviderEnabled" /\ "tab" \in flight[i].owner),
         flight[i].fn \in PanelFns => v.panel # NoList \/ v.panelFailed,
         ui.panelFailed => v.panelFailed,
         flight[i].fn \in {"listMemberCandidates", "listTemplateLibrary"} => v.pool # NoList \/ ~IsSettled(ui)
  PROVE  Inv'
<1>1. DetailTyped(ui) /\ DetailWait(ui, flight) /\ Flights(flight)
  BY AtDetail
<1>2. IsSettled(v) <=> IsSettled(ui)
  BY DEF IsSettled
<1>3. \A rows \in Seq(Row) : rows # NoList
  BY NoListIsNone
<1>4. DetailTyped(v)
  <2>1. v.panel = NoList \/ v.panel \in Seq(Row)
    BY <1>1 DEF DetailTyped
  <2>2. v.panel # NoList /\ v.tab = "providers" => AreSwitches(v.panel)
    BY <1>1 DEF DetailTyped
  <2>3. v.dialog.kind = "addTemplate" => v.panel # NoList
    BY <1>1, <1>3 DEF DetailTyped
  <2>4. v.pool = NoList \/ v.pool \in Seq(Row)
    BY <1>1 DEF DetailTyped
  <2>5. ~IsSettled(v) => v.busy = {} /\ v.busyId = 0
    BY <1>1, <1>2 DEF DetailTyped
  <2>6. v.busy \subseteq {"roles", "addMember", "policy", "rename", "delete"}
    BY <1>1 DEF DetailTyped
  <2> QED BY <1>1, <1>2, <2>1, <2>2, <2>3, <2>4, <2>5, <2>6 DEF DetailTyped
<1>5. v.loading => ComingLast(flight', "getWorkspace")
  BY <1>1, ComingLastOn DEF DetailWait
<1>6. RosterWait(v, flight')
  BY <1>1, ComingLastOn DEF DetailWait, RosterWait
<1>7. BusyWait(v, flight')
  <2>1. BusyWait(ui, flight)
    BY <1>1 DEF DetailWait
  <2>2. "roles" \in v.busy => RolesComing(flight') /\ v.dialog.kind = "roles"
    BY <2>1, RolesOn DEF BusyWait
  <2>3. "addMember" \in v.busy => AddComing(flight') /\ v.dialog.kind = "addMember"
    <3>1. {"screen", "dialog"} # {}
      OBVIOUS
    <3>2. ASSUME "addMember" \in v.busy PROVE ~(flight[i].fn \in {"addMember"} /\ {"screen", "dialog"} \subseteq flight[i].owner)
      BY <3>2
    <3>3. ASSUME "addMember" \in v.busy PROVE AddComing(flight')
      <4>1. ComingFor(flight, {"addMember"}, {"screen", "dialog"})
        BY <2>1, <3>3 DEF BusyWait, AddComing
      <4> QED BY <3>1, <3>2, <3>3, <4>1, ComingForAnother DEF AddComing
    <3> QED BY <2>1, <3>3 DEF BusyWait
  <2>4. "policy" \in v.busy => Coming(flight', {"saveGuardrailPolicy"}, "tab")
    BY <2>1, ComingOn DEF BusyWait
  <2>5. "rename" \in v.busy => Coming(flight', {"updateWorkspace"}, "tab")
    BY <2>1, ComingOn DEF BusyWait
  <2>6. "delete" \in v.busy => Coming(flight', {"deleteWorkspace"}, "tab")
    BY <2>1, ComingOn DEF BusyWait
  <2>7. ASSUME v.busyId # 0 PROVE AttachComing(flight') \/ Coming(flight', {"setProviderEnabled"}, "tab")
    <3>1. CASE AttachComing(flight)
      <4>1. {"tab", "dialog"} # {}
        OBVIOUS
      <4>2. ~(flight[i].fn \in {"attachTemplate"} /\ {"tab", "dialog"} \subseteq flight[i].owner)
        BY <2>7
      <4>3. ComingFor(flight, {"attachTemplate"}, {"tab", "dialog"})
        BY <3>1 DEF AttachComing
      <4> QED BY <4>1, <4>2, <4>3, ComingForAnother DEF AttachComing
    <3>2. CASE Coming(flight, {"setProviderEnabled"}, "tab")
      BY <2>7, <3>2, ComingOn
    <3> QED BY <2>1, <2>7, <3>1, <3>2 DEF BusyWait
  <2> QED BY <2>2, <2>3, <2>4, <2>5, <2>6, <2>7 DEF BusyWait
<1>8. PanelWait(v, flight')
  <2>1. v.panel = NoList => ui.panel = NoList
    BY <1>3
  <2>2. \/ ~IsSettled(ui') \/ ui'.tab \notin DOMAIN PanelTable \/ ui'.panel # NoList \/ ui'.panelFailed
        \/ /\ IsSettled(ui) /\ ui.panel = NoList /\ ui'.tab = ui.tab /\ ~ui.panelFailed
           /\ flight[i].fn \notin PanelFns
    BY <1>2, <2>1
  <2>3. ui'.tab = "templates" /\ ui'.panel = NoList => ui.tab = "templates" /\ ui.panel = NoList
    BY <2>1
  <2> QED BY <1>2, <2>2, <2>3, PanelGoesOn
<1>9. PoolWait(v, flight')
  <2>1. v.pool = NoList => ui.pool = NoList
    BY <1>3
  <2> QED BY <1>2, <2>1, PoolGoesOn
<1>10. DetailWait(v, flight')
  BY <1>5, <1>6, <1>7, <1>8, <1>9 DEF DetailWait
<1>11. \A q \in {} : New(q) /\ Waiter(ui', q)
  OBVIOUS
<1> QED BY <1>2, <1>4, <1>10, <1>11, DetailGoOn

(* An answer that changes nothing. *)
LEMMA DetailSameInv ==
  ASSUME Inv, Within, ui.at = "detail", NEW i \in Slots, flight[i] # Idle, Turns(flight, flight', {i}, {}, {}, {}), ui' = ui,
         flight[i].fn \notin PanelFns \cup {"listMemberCandidates", "listTemplateLibrary", "saveGuardrailPolicy",
                                         "setProviderEnabled", "attachTemplate", "updateWorkspace"},
         ui.loading => ~(flight[i].fn = "getWorkspace" /\ flight[i].latest),
         flight[i].fn = "listMembers" => ~flight[i].latest /\ ~({"screen", "tab"} \subseteq flight[i].owner /\ flight[i].memo = "roles"),
         flight[i].fn \in {"replaceMemberRoles", "addMember"} => "screen" \notin flight[i].owner \/ "dialog" \notin flight[i].owner,
         flight[i].fn = "deleteWorkspace" => "tab" \notin flight[i].owner
  PROVE  Inv'
<1>1. ui.rosterFailed \in BOOLEAN /\ ui.panelFailed \in BOOLEAN
  BY AtDetail DEF DetailTyped
<1> DEFINE v == ui
<1>2. /\ ui' = v /\ DOMAIN v = DOMAIN ui /\ v.at = "detail" /\ v.id = ui.id /\ v.loading = ui.loading /\ v.failed = ui.failed
      /\ v.gone = ui.gone /\ v.rows = ui.rows /\ v.tab = ui.tab /\ v.dialog = ui.dialog /\ v.roster = ui.roster
      /\ v.rosterFailed = ui.rosterFailed /\ v.panelFailed = ui.panelFailed /\ v.panel = ui.panel /\ v.pool = ui.pool
      /\ v.busy = ui.busy /\ v.busyId = ui.busyId
  OBVIOUS
<1> HIDE DEF v
<1> QED BY <1>1, <1>2, DetailAnswerInv

(* What the tab shows has been loaded. *)
LEMMA PanelLoadedInv ==
  ASSUME Inv, NEW i \in Slots, PanelLoaded(i)
  PROVE  Inv'
<1> DEFINE v == IF Got(i) THEN [ui EXCEPT !.panel = Result(i)] ELSE [ui EXCEPT !.panelFailed = TRUE]
<1>1. flight[i] # Idle /\ flight[i].fn \in PanelFns /\ Client(v, Done(i))
  BY DEF PanelLoaded, Answered
<1>2. flight[i].owner # {}
  <2>1. Verb[flight[i].fn] = "load"
    BY <1>1 DEF PanelFns, Verb
  <2> QED BY <1>1, <2>1, ReadsAreHeeded
<1>3. ui.at = "detail"
  BY <1>1, <1>2, WhereItIs DEF PanelFns, AskedOf
<1>4. DetailTyped(ui) /\ Flights(flight) /\ DOMAIN ui = DetailFields /\ Waiter(ui, flight[i]) /\ IsRequest(flight[i])
  BY <1>1, <1>3, AtDetail DEF DetailFields
<1>5. IsSettled(ui) /\ TabWaiter(ui, flight[i])
  <2>1. "screen" \notin flight[i].owner
    BY <1>1, <1>3, <1>4 DEF Waiter, PanelFns
  <2>2. "dialog" \notin flight[i].owner
    BY <1>1, <1>3, <1>4 DEF Waiter, DialogWaiter, PanelFns
  <2>3. "tab" \in flight[i].owner
    BY <1>2, <1>4, <2>1, <2>2 DEF IsRequest, Parts
  <2> QED BY <1>1, <1>3, <1>4, <2>3 DEF Waiter, PanelFns
<1>6. Within /\ ui' = v /\ flight' = Done(i)
  BY <1>1, ClientWithin
<1>7. Turns(flight, flight', {i}, {}, {}, {})
  BY <1>4, <1>6, DoneTurns
<1>8. Got(i) => Result(i) \in Seq(Row) /\ (ui.tab = "providers" => AreSwitches(Result(i)))
  <2>1. Replies(flight[i])
    BY <1>1 DEF Inv, Calls, CallsTyped
  <2>2. ui.tab = "providers" => flight[i].fn = "listWorkspaceProviders"
    BY <1>1, <1>5 DEF TabWaiter, PanelFns
  <2> QED BY <1>1, <2>1, <2>2 DEF Replies, Got, Result, ListFns
<1>9. /\ DOMAIN v = DOMAIN ui /\ v.at = "detail" /\ v.id = ui.id /\ v.loading = ui.loading /\ v.failed = ui.failed
      /\ v.gone = ui.gone /\ v.rows = ui.rows /\ v.tab = ui.tab /\ v.dialog = ui.dialog /\ v.roster = ui.roster
      /\ v.rosterFailed = ui.rosterFailed /\ v.pool = ui.pool /\ v.busy = ui.busy /\ v.busyId = ui.busyId
  <2>1. CASE Got(i)
    BY <1>3, <1>4, <2>1 DEF DetailFields
  <2>2. CASE ~Got(i)
    BY <1>3, <1>4, <2>2 DEF DetailFields
  <2> QED BY <2>1, <2>2
<1>10. \/ Got(i) /\ v.panel = Result(i) /\ v.panelFailed = ui.panelFailed
       \/ v.panel = ui.panel /\ v.panelFailed = TRUE
  <2>1. CASE Got(i)
    BY <1>3, <1>4, <2>1 DEF DetailFields
  <2>2. CASE ~Got(i)
    BY <1>3, <1>4, <2>2 DEF DetailFields
  <2> QED BY <2>1, <2>2
<1> HIDE DEF v
<1>11. /\ v.panel = ui.panel \/ (v.panel \in Seq(Row) /\ (ui.tab = "providers" => AreSwitches(v.panel)))
       /\ v.panelFailed \in BOOLEAN /\ (ui.panelFailed => v.panelFailed)
       /\ v.panel # NoList \/ v.panelFailed
       /\ v.rosterFailed \in BOOLEAN
  <2>1. CASE Got(i) /\ v.panel = Result(i) /\ v.panelFailed = ui.panelFailed
    BY <1>4, <1>8, <1>9, <2>1, NoListIsNone DEF DetailTyped
  <2>2. CASE v.panel = ui.panel /\ v.panelFailed = TRUE
    BY <1>4, <1>9, <2>2 DEF DetailTyped
  <2> QED BY <1>10, <2>1, <2>2
<1>12. flight[i].fn \notin {"getWorkspace", "listMembers", "replaceMemberRoles", "addMember", "saveGuardrailPolicy",
                            "updateWorkspace", "deleteWorkspace", "attachTemplate", "setProviderEnabled",
                            "listMemberCandidates", "listTemplateLibrary"}
  BY <1>1 DEF PanelFns
<1>13. flight[i] # Idle /\ Within /\ ui' = v
  BY <1>1, <1>6
<1> QED BY <1>3, <1>7, <1>9, <1>11, <1>12, <1>13, DetailAnswerInv

(* What the dialog offers has been. *)
LEMMA PoolLoadedInv ==
  ASSUME Inv, NEW i \in Slots, PoolLoaded(i)
  PROVE  Inv'
<1> DEFINE v == [ui EXCEPT !.pool = IF Got(i) THEN Result(i) ELSE <<>>]
<1>1. /\ flight[i] # Idle /\ flight[i].fn \in {"listMemberCandidates", "listTemplateLibrary"} /\ Client(v, Done(i))
      /\ "dialog" \in flight[i].owner
  BY DEF PoolLoaded, Answered, Awaits
<1>2. Waiter(ui, flight[i])
  BY <1>1 DEF Inv, Screen, Waiters
<1>3. ui.at = "detail"
  <2>1. ui.at \in {"detail", "library"}
    BY <1>1, WhereItIs DEF AskedOf
  <2> QED BY <1>1, <1>2, <2>1 DEF Waiter
<1>4. DetailTyped(ui) /\ Flights(flight) /\ DOMAIN ui = DetailFields
  BY <1>1, <1>3, AtDetail DEF DetailFields
<1>5. Within /\ ui' = v /\ flight' = Done(i)
  BY <1>1, ClientWithin
<1>6. Turns(flight, flight', {i}, {}, {}, {})
  BY <1>4, <1>5, DoneTurns
<1>7. v.pool \in Seq(Row) /\ v.pool # NoList
  <2>1. Replies(flight[i])
    BY <1>1 DEF Inv, Calls, CallsTyped
  <2>2. Got(i) => Result(i) \in Seq(Row)
    BY <1>1, <2>1 DEF Replies, Got, Result, ListFns
  <2>3. <<>> \in Seq(Row)
    OBVIOUS
  <2>4. v.pool = IF Got(i) THEN Result(i) ELSE <<>>
    BY <1>4 DEF DetailFields
  <2> QED BY <2>2, <2>3, <2>4, NoListIsNone
<1>8. /\ DOMAIN v = DOMAIN ui /\ v.at = "detail" /\ v.id = ui.id /\ v.loading = ui.loading /\ v.failed = ui.failed
      /\ v.gone = ui.gone /\ v.rows = ui.rows /\ v.tab = ui.tab /\ v.dialog = ui.dialog /\ v.roster = ui.roster
      /\ v.rosterFailed = ui.rosterFailed /\ v.panel = ui.panel /\ v.panelFailed = ui.panelFailed
      /\ v.busy = ui.busy /\ v.busyId = ui.busyId
  BY <1>3, <1>4 DEF DetailFields
<1> HIDE DEF v
<1>9. v.rosterFailed \in BOOLEAN /\ v.panelFailed \in BOOLEAN
  BY <1>4, <1>8 DEF DetailTyped
<1>10. flight[i].fn \notin PanelFns \cup {"getWorkspace", "listMembers", "replaceMemberRoles", "addMember", "saveGuardrailPolicy",
                            "updateWorkspace", "deleteWorkspace", "attachTemplate", "setProviderEnabled"}
  BY <1>1 DEF PanelFns
<1>11. flight[i] # Idle /\ Within /\ ui' = v
  BY <1>1, <1>5
<1> QED BY <1>3, <1>6, <1>7, <1>8, <1>9, <1>10, <1>11, DetailAnswerInv

(* The answer to a write whose component has gone. *)
LEMMA UnheededInv ==
  ASSUME Inv, Within, ui' = ui, NEW i \in Slots, flight[i] # Idle, flight[i].owner = {}, flight' = Done(i)
  PROVE  Inv'
<1>1. Turns(flight, flight', {i}, {}, {}, {})
  BY DoneTurns DEF Inv, Calls, CallsTyped
<1>2. \A q \in {} : New(q) /\ q.owner = {} /\ Writing(q)
  OBVIOUS
<1> QED BY <1>1, <1>2, AloneInv

(* Where the answer to a write of a tab is read. *)
LEMMA TabAnswered ==
  ASSUME Inv, NEW i \in Slots, flight[i] # Idle, flight[i].owner # {},
         flight[i].fn \in TabWrites \cup {"updateWorkspace", "deleteWorkspace"}
  PROVE  /\ ui.at = "detail" /\ DetailTyped(ui) /\ Flights(flight) /\ DOMAIN ui = DetailFields /\ IsRequest(flight[i])
         /\ "tab" \in flight[i].owner => IsSettled(ui) /\ TabWaiter(ui, flight[i])
         /\ Turns(flight, Done(i), {i}, {}, {}, {})
         /\ Asked(flight[i]) /\ Replies(flight[i])
         /\ ui.rosterFailed \in BOOLEAN /\ ui.panelFailed \in BOOLEAN
<1>1. ui.at = "detail"
  BY WhereItIs DEF TabWrites, AskedOf
<1>2. DetailTyped(ui) /\ Flights(flight) /\ DOMAIN ui = DetailFields /\ Waiter(ui, flight[i]) /\ IsRequest(flight[i])
  BY <1>1, AtDetail DEF DetailFields
<1>3. "tab" \in flight[i].owner => IsSettled(ui) /\ TabWaiter(ui, flight[i])
  BY <1>1, <1>2 DEF Waiter, TabWrites
<1>4. Turns(flight, Done(i), {i}, {}, {}, {})
  BY <1>2, DoneTurns
<1>5. Asked(flight[i]) /\ Replies(flight[i])
  BY DEF Inv, Calls, CallsTyped
<1>6. ui.rosterFailed \in BOOLEAN /\ ui.panelFailed \in BOOLEAN
  BY <1>2 DEF DetailTyped
<1> QED BY <1>1, <1>2, <1>3, <1>4, <1>5, <1>6

(* A template has been attached or detached, or has not. *)
LEMMA TemplateMovedInv ==
  ASSUME Inv, NEW i \in Slots, TemplateMoved(i)
  PROVE  Inv'
<1> DEFINE attached == flight[i].fn = "attachTemplate"
           screen == CASE Awaits(i, "tab") /\ attached /\ Got(i) -> [ui EXCEPT !.panel = Append(@, flight[i].memo)]
                       [] Awaits(i, "tab") /\ ~attached /\ ~Got(i) -> [ui EXCEPT !.panel = flight[i].memo]
                       [] OTHER -> ui
           v == IF attached /\ Awaits(i, "dialog") THEN [screen EXCEPT !.busyId = 0] ELSE screen
<1>1. flight[i] # Idle /\ flight[i].fn \in {"attachTemplate", "detachTemplate"} /\ Client(v, Done(i))
  BY DEF TemplateMoved, Answered
<1>2. Within /\ ui' = v /\ flight' = Done(i)
  BY <1>1, ClientWithin
<1>3. CASE flight[i].owner = {}
  <2>1. ~Awaits(i, "tab") /\ ~Awaits(i, "dialog")
    BY <1>3 DEF Awaits
  <2>2. v = ui
    BY <2>1
  <2> HIDE DEF v
  <2> QED BY <1>1, <1>2, <1>3, <2>2, UnheededInv
<1>4. CASE flight[i].owner # {}
  <2>1. /\ ui.at = "detail" /\ DetailTyped(ui) /\ DOMAIN ui = DetailFields
        /\ "tab" \in flight[i].owner => IsSettled(ui) /\ TabWaiter(ui, flight[i])
        /\ Turns(flight, Done(i), {i}, {}, {}, {})
        /\ Asked(flight[i])
        /\ ui.rosterFailed \in BOOLEAN /\ ui.panelFailed \in BOOLEAN
    BY <1>1, <1>4, TabAnswered DEF TabWrites
  <2>2. ASSUME Awaits(i, "tab") PROVE ui.tab = "templates" /\ ui.panel \in Seq(Row)
    <3>1. ui.tab = "templates"
      BY <1>1, <2>1, <2>2 DEF TabWaiter, Awaits
    <3>2. Coming(flight, TabWrites, "tab")
      BY <1>1, <2>2 DEF Coming, TabWrites, Awaits
    <3>3. PanelWait(ui, flight)
      BY <2>1, AtDetail DEF DetailWait
    <3> QED BY <2>1, <3>1, <3>2, <3>3 DEF PanelWait, DetailTyped
  <2>3. /\ DOMAIN screen = DetailFields /\ screen.at = "detail" /\ screen.id = ui.id /\ screen.loading = ui.loading
        /\ screen.failed = ui.failed /\ screen.gone = ui.gone /\ screen.rows = ui.rows /\ screen.tab = ui.tab
        /\ screen.dialog = ui.dialog /\ screen.roster = ui.roster /\ screen.rosterFailed = ui.rosterFailed
        /\ screen.panelFailed = ui.panelFailed /\ screen.pool = ui.pool /\ screen.busy = ui.busy /\ screen.busyId = ui.busyId
        /\ \/ screen.panel = ui.panel
           \/ screen.panel \in Seq(Row) /\ ui.tab # "providers"
    <3>1. CASE Awaits(i, "tab") /\ attached /\ Got(i)
      <4>1. screen = [ui EXCEPT !.panel = Append(@, flight[i].memo)]
        BY <3>1
      <4>2. flight[i].memo \in Row
        BY <2>1, <3>1 DEF Asked
      <4>3. Append(ui.panel, flight[i].memo) \in Seq(Row) /\ ui.tab # "providers"
        BY <2>2, <3>1, <4>2
      <4> HIDE DEF screen
      <4> QED BY <2>1, <4>1, <4>3 DEF DetailFields
    <3>2. CASE Awaits(i, "tab") /\ ~attached /\ ~Got(i)
      <4>1. screen = [ui EXCEPT !.panel = flight[i].memo]
        BY <3>2
      <4>2. flight[i].memo \in Seq(Row) /\ ui.tab # "providers"
        BY <1>1, <2>1, <2>2, <3>2 DEF Asked
      <4> HIDE DEF screen
      <4> QED BY <2>1, <4>1, <4>2 DEF DetailFields
    <3>3. CASE ~(Awaits(i, "tab") /\ attached /\ Got(i)) /\ ~(Awaits(i, "tab") /\ ~attached /\ ~Got(i))
      <4>1. screen = ui
        BY <3>3
      <4> HIDE DEF screen
      <4> QED BY <2>1, <4>1
    <3> HIDE DEF screen
    <3> QED BY <3>1, <3>2, <3>3
  <2> HIDE DEF screen
  <2>4. /\ DOMAIN v = DetailFields /\ v.at = "detail" /\ v.id = ui.id /\ v.loading = ui.loading
        /\ v.failed = ui.failed /\ v.gone = ui.gone /\ v.rows = ui.rows /\ v.tab = ui.tab
        /\ v.dialog = ui.dialog /\ v.roster = ui.roster /\ v.rosterFailed = ui.rosterFailed
        /\ v.panelFailed = ui.panelFailed /\ v.pool = ui.pool /\ v.busy = ui.busy
        /\ v.panel = screen.panel
        /\ v.busyId = IF attached /\ Awaits(i, "dialog") THEN 0 ELSE ui.busyId
    <3>1. CASE attached /\ Awaits(i, "dialog")
      BY <2>3, <3>1 DEF DetailFields
    <3>2. CASE ~(attached /\ Awaits(i, "dialog"))
      BY <2>3, <3>2
    <3> QED BY <3>1, <3>2
  <2> HIDE DEF v
  <2>5. v.panel = ui.panel \/ (v.panel \in Seq(Row) /\ (ui.tab = "providers" => AreSwitches(v.panel)))
    BY <2>3, <2>4
  <2>6. v.busyId # 0 => ~(flight[i].fn = "attachTemplate" /\ {"tab", "dialog"} \subseteq flight[i].owner)
    BY <2>4 DEF Awaits
  <2>7. v.busyId \in {0, ui.busyId}
    BY <2>4
  <2>8. flight[i].fn \notin PanelFns \cup {"getWorkspace", "listMembers", "replaceMemberRoles", "addMember", "saveGuardrailPolicy",
                            "updateWorkspace", "deleteWorkspace", "setProviderEnabled", "listMemberCandidates", "listTemplateLibrary"}
    BY <1>1 DEF PanelFns
  <2>9. Within /\ ui' = v /\ Turns(flight, flight', {i}, {}, {}, {}) /\ flight[i] # Idle
    BY <1>1, <1>2, <2>1
  <2>10. v.rosterFailed \in BOOLEAN /\ v.panelFailed \in BOOLEAN
    BY <2>1, <2>4
  <2> QED BY <2>1, <2>4, <2>5, <2>6, <2>7, <2>8, <2>9, <2>10, DetailAnswerInv
<1> QED BY <1>3, <1>4

(* A switch has been thrown, or is thrown back. *)
LEMMA ToggledInv ==
  ASSUME Inv, NEW i \in Slots, Toggled(i)
  PROVE  Inv'
<1> DEFINE v == CASE ~Awaits(i, "tab") -> ui
                  [] Awaits(i, "tab") /\ Got(i) -> [ui EXCEPT !.busyId = 0]
                  [] OTHER -> [ui EXCEPT !.panel = Switch(@, flight[i].row, flight[i].memo[2]), !.busyId = 0]
<1>1. flight[i] # Idle /\ flight[i].fn = "setProviderEnabled" /\ Client(v, Done(i))
  BY DEF Toggled, Answered
<1>2. Within /\ ui' = v /\ flight' = Done(i)
  BY <1>1, ClientWithin
<1>3. CASE flight[i].owner = {}
  <2>1. ~Awaits(i, "tab")
    BY <1>3 DEF Awaits
  <2>2. v = ui
    BY <2>1
  <2> HIDE DEF v
  <2> QED BY <1>1, <1>2, <1>3, <2>2, UnheededInv
<1>4. CASE flight[i].owner # {}
  <2>1. /\ ui.at = "detail" /\ DetailTyped(ui) /\ DOMAIN ui = DetailFields /\ IsRequest(flight[i])
        /\ "tab" \in flight[i].owner => IsSettled(ui) /\ TabWaiter(ui, flight[i])
        /\ Turns(flight, Done(i), {i}, {}, {}, {})
        /\ Asked(flight[i])
        /\ ui.rosterFailed \in BOOLEAN /\ ui.panelFailed \in BOOLEAN
    BY <1>1, <1>4, TabAnswered DEF TabWrites
  <2>2. /\ DOMAIN v = DetailFields /\ v.at = "detail" /\ v.id = ui.id /\ v.loading = ui.loading
        /\ v.failed = ui.failed /\ v.gone = ui.gone /\ v.rows = ui.rows /\ v.tab = ui.tab
        /\ v.dialog = ui.dialog /\ v.roster = ui.roster /\ v.rosterFailed = ui.rosterFailed
        /\ v.panelFailed = ui.panelFailed /\ v.pool = ui.pool /\ v.busy = ui.busy
        /\ v.panel = ui.panel \/ (v.panel \in Seq(Row) /\ (ui.tab = "providers" => AreSwitches(v.panel)))
        /\ v.busyId \in {0, ui.busyId}
        /\ v.busyId # 0 => "tab" \notin flight[i].owner
    <3>1. CASE ~Awaits(i, "tab")
      <4>1. v = ui
        BY <3>1
      <4> HIDE DEF v
      <4> QED BY <2>1, <3>1, <4>1 DEF Awaits
    <3>2. CASE Awaits(i, "tab") /\ Got(i)
      <4>1. v = [ui EXCEPT !.busyId = 0]
        BY <3>2
      <4> HIDE DEF v
      <4> QED BY <2>1, <4>1 DEF DetailFields
    <3>3. CASE Awaits(i, "tab") /\ ~Got(i)
      <4> DEFINE value == flight[i].memo[2]
                 row == flight[i].row
      <4>1. v = [ui EXCEPT !.panel = Switch(@, row, value), !.busyId = 0]
        BY <3>3
      <4>2. value \in Switches /\ row \in Nat \ {0}
        BY <1>1, <2>1 DEF Asked, IsRequest
      <4>3. ui.tab = "providers"
        BY <1>1, <2>1, <3>3 DEF TabWaiter, Awaits
      <4> HIDE DEF v, value, row
      <4>4. ui.panel = NoList \/ ui.panel \in Seq(Row)
        BY <2>1 DEF DetailTyped
      <4>5. ui.panel # NoList => AreSwitches(ui.panel)
        BY <2>1, <4>3 DEF DetailTyped
      <4>6. /\ ui.panel # NoList => Switch(ui.panel, row, value) \in Seq(Row) /\ AreSwitches(Switch(ui.panel, row, value))
            /\ ui.panel = NoList => Switch(ui.panel, row, value) = NoList
        BY <4>2, <4>4, <4>5, SwitchTyped
      <4>7. v.panel = Switch(ui.panel, row, value) /\ v.busyId = 0
        BY <2>1, <4>1 DEF DetailFields
      <4>8. v.panel = ui.panel \/ (v.panel \in Seq(Row) /\ (ui.tab = "providers" => AreSwitches(v.panel)))
        BY <4>6, <4>7
      <4> QED BY <2>1, <4>1, <4>7, <4>8 DEF DetailFields
    <3> HIDE DEF v
    <3> QED BY <3>1, <3>2, <3>3
  <2> HIDE DEF v
  <2>3. flight[i].fn \notin PanelFns
    BY <1>1 DEF PanelFns
  <2>4. Within /\ ui' = v /\ Turns(flight, flight', {i}, {}, {}, {}) /\ flight[i] # Idle
    BY <1>1, <1>2, <2>1
  <2>5. v.rosterFailed \in BOOLEAN /\ v.panelFailed \in BOOLEAN
    BY <2>1, <2>2
  <2> QED BY <1>1, <2>1, <2>2, <2>3, <2>4, <2>5, DetailAnswerInv
<1> QED BY <1>3, <1>4

(* The policy has been saved, or has not. *)
LEMMA PolicySavedInv ==
  ASSUME Inv, NEW i \in Slots, PolicySaved(i)
  PROVE  Inv'
<1> DEFINE v == CASE ~Awaits(i, "tab") -> ui
                  [] Awaits(i, "tab") /\ Got(i) -> [ui EXCEPT !.panel = <<Result(i)>>, !.busy = @ \ {"policy"}]
                  [] OTHER -> [ui EXCEPT !.panelFailed = TRUE, !.busy = @ \ {"policy"}]
<1>1. flight[i] # Idle /\ flight[i].fn = "saveGuardrailPolicy" /\ Client(v, Done(i))
  BY DEF PolicySaved, Answered
<1>2. Within /\ ui' = v /\ flight' = Done(i)
  BY <1>1, ClientWithin
<1>3. CASE flight[i].owner = {}
  <2>1. ~Awaits(i, "tab")
    BY <1>3 DEF Awaits
  <2>2. v = ui
    BY <2>1
  <2> HIDE DEF v
  <2> QED BY <1>1, <1>2, <1>3, <2>2, UnheededInv
<1>4. CASE flight[i].owner # {}
  <2>1. /\ ui.at = "detail" /\ DetailTyped(ui) /\ DOMAIN ui = DetailFields /\ IsRequest(flight[i])
        /\ "tab" \in flight[i].owner => IsSettled(ui) /\ TabWaiter(ui, flight[i])
        /\ Turns(flight, Done(i), {i}, {}, {}, {})
        /\ Asked(flight[i]) /\ Replies(flight[i])
        /\ ui.rosterFailed \in BOOLEAN /\ ui.panelFailed \in BOOLEAN
    BY <1>1, <1>4, TabAnswered DEF TabWrites
  <2>2. /\ DOMAIN v = DetailFields /\ v.at = "detail" /\ v.id = ui.id /\ v.loading = ui.loading
        /\ v.failed = ui.failed /\ v.gone = ui.gone /\ v.rows = ui.rows /\ v.tab = ui.tab
        /\ v.dialog = ui.dialog /\ v.roster = ui.roster /\ v.rosterFailed = ui.rosterFailed
        /\ v.pool = ui.pool /\ v.busyId = ui.busyId
        /\ v.panel = ui.panel \/ (v.panel \in Seq(Row) /\ (ui.tab = "providers" => AreSwitches(v.panel)))
        /\ v.panelFailed \in BOOLEAN /\ (ui.panelFailed => v.panelFailed)
        /\ v.busy \subseteq ui.busy
        /\ v.busy = ui.busy \/ v.busy = ui.busy \ {"policy"}
        /\ "policy" \notin v.busy \/ "tab" \notin flight[i].owner
    <3>1. CASE ~Awaits(i, "tab")
      <4>1. v = ui
        BY <3>1
      <4> HIDE DEF v
      <4> QED BY <2>1, <3>1, <4>1 DEF Awaits
    <3>2. CASE Awaits(i, "tab") /\ Got(i)
      <4>1. v = [ui EXCEPT !.panel = <<Result(i)>>, !.busy = @ \ {"policy"}]
        BY <3>2
      <4> HIDE DEF v
      <4>2. ui.tab = "guardrails"
        BY <1>1, <2>1, <3>2 DEF TabWaiter, Awaits
      <4>3. Result(i) \in Row
        <5>1. Result(i) = <<flight[i].row, flight[i].value>>
          BY <1>1, <2>1, <3>2 DEF Replies, Got, Result
        <5>2. flight[i].row = 1 /\ flight[i].value \in Nat
          BY <1>1, <2>1 DEF Asked, IsRequest
        <5> QED BY <5>1, <5>2 DEF Row
      <4>4. <<Result(i)>> \in Seq(Row)
        BY <4>3
      <4>5. v.panel = <<Result(i)>> /\ v.busy = ui.busy \ {"policy"} /\ v.panelFailed = ui.panelFailed
        BY <2>1, <4>1 DEF DetailFields
      <4> QED BY <2>1, <4>1, <4>2, <4>4, <4>5 DEF DetailFields
    <3>3. CASE Awaits(i, "tab") /\ ~Got(i)
      <4>1. v = [ui EXCEPT !.panelFailed = TRUE, !.busy = @ \ {"policy"}]
        BY <3>3
      <4> HIDE DEF v
      <4>2. v.panelFailed = TRUE /\ v.busy = ui.busy \ {"policy"} /\ v.panel = ui.panel
        BY <2>1, <4>1 DEF DetailFields
      <4>3. v.panelFailed \in BOOLEAN /\ v.panelFailed
        BY <4>2
      <4> QED BY <2>1, <4>1, <4>2, <4>3 DEF DetailFields
    <3> HIDE DEF v
    <3> QED BY <3>1, <3>2, <3>3
  <2> HIDE DEF v
  <2>3. flight[i].fn \notin PanelFns
    BY <1>1 DEF PanelFns
  <2>4. Within /\ ui' = v /\ Turns(flight, flight', {i}, {}, {}, {}) /\ flight[i] # Idle
    BY <1>1, <1>2, <2>1
  <2>5. v.rosterFailed \in BOOLEAN
    BY <2>1, <2>2
  <2>6. "delete" \in ui.busy => "delete" \in v.busy
    BY <2>2
  <2> QED BY <1>1, <2>1, <2>2, <2>3, <2>4, <2>5, <2>6, DetailAnswerInv
<1> QED BY <1>3, <1>4

(* An answer closes a dialog, and the members may be loaded again. *)
LEMMA DialogClosesInv ==
  ASSUME Inv, Within, ui.at = "detail", NEW i \in Slots, flight[i] # Idle, NEW fns, fns \subseteq {"listMembers"}, NEW new,
         Turns(flight, flight', {i}, {"dialog"}, fns, new),
         \A r \in new : New(r) /\ r.fn = "listMembers" /\ r.owner = {"screen", "tab"},
         flight[i].fn \in {"listMembers", "addMember", "deleteWorkspace"},
         ui.dialog.kind \in {"roles", "addMember", "deleteWorkspace"},
         ui.dialog.kind = "deleteWorkspace" => flight[i].fn = "deleteWorkspace" /\ "tab" \in flight[i].owner,
         NEW v, ui' = v, DOMAIN v = DOMAIN ui, v.at = "detail", v.id = ui.id, v.loading = ui.loading, v.failed = ui.failed,
         v.gone = ui.gone, v.rows = ui.rows, v.tab = ui.tab, v.dialog = Closed, v.rosterFailed \in BOOLEAN,
         v.panel = ui.panel, v.panelFailed = ui.panelFailed, v.pool \in {ui.pool, NoList}, v.busyId = ui.busyId,
         v.busy = ui.busy \ {IF ui.dialog.kind = "deleteWorkspace" THEN "delete" ELSE ui.dialog.kind},
         v.roster = NoList /\ ~v.rosterFailed =>
           \/ ComingLast(flight', "listMembers")
           \/ /\ ui.roster = NoList /\ ~ui.rosterFailed /\ fns = {}
              /\ flight[i].fn = "listMembers" => ~flight[i].latest
  PROVE  Inv'
<1>1. DetailTyped(ui) /\ DetailWait(ui, flight) /\ Flights(flight)
  BY AtDetail
<1>2. IsSettled(v) <=> IsSettled(ui)
  BY DEF IsSettled
<1>3. Closed.kind = "closed" /\ IsDialog(Closed, Dialogs \cup {"deleteWorkspace"})
  BY DEF Closed, IsDialog, Dialog
<1>4. "roles" \notin v.busy /\ "addMember" \notin v.busy /\ v.busy \subseteq ui.busy
      /\ (flight[i].fn = "deleteWorkspace" /\ "tab" \in flight[i].owner => "delete" \notin v.busy)
  <2>1. /\ "roles" \in ui.busy => ui.dialog.kind = "roles"
        /\ "addMember" \in ui.busy => ui.dialog.kind = "addMember"
        /\ Coming(flight, {"deleteWorkspace"}, "tab") => ui.dialog.kind = "deleteWorkspace"
    BY <1>1 DEF DetailWait, BusyWait, PoolWait
  <2>2. flight[i].fn = "deleteWorkspace" /\ "tab" \in flight[i].owner => Coming(flight, {"deleteWorkspace"}, "tab")
    BY DEF Coming
  <2> QED BY <2>1, <2>2
<1>5. DetailTyped(v)
  <2>1. Closed.kind \notin DOMAIN DialogTab /\ Closed.kind # "addTemplate"
    BY <1>3 DEF DialogTab
  <2>2. v.panelFailed \in BOOLEAN
    BY <1>1 DEF DetailTyped
  <2>3. v.pool = NoList \/ v.pool \in Seq(Row)
    BY <1>1 DEF DetailTyped
  <2>4. ~IsSettled(v) => v.busy = {} /\ v.busyId = 0
    BY <1>1, <1>2, <1>4 DEF DetailTyped
  <2> QED BY <1>1, <1>2, <1>3, <1>4, <2>1, <2>2, <2>3, <2>4 DEF DetailTyped
<1>6. v.loading => ComingLast(flight', "getWorkspace")
  <2>1. Spared("getWorkspace", {i}, fns)
    BY DEF Spared
  <2> QED BY <2>1, LoadsGoOn
<1>7. RosterWait(v, flight')
  <2>1. ASSUME ui.roster = NoList, ~ui.rosterFailed, fns = {}, flight[i].fn = "listMembers" => ~flight[i].latest
        PROVE  ComingLast(flight', "listMembers")
    <3>1. Spared("listMembers", {i}, fns)
      BY <2>1 DEF Spared
    <3> QED BY <2>1, <3>1, LoadsGoOn
  <2> QED BY <2>1 DEF RosterWait
<1>8. BusyWait(v, flight')
  <2>1. ui.busyId # 0 => Coming(flight', {"setProviderEnabled"}, "tab")
    <3>1. ~AttachComing(flight)
      <4>1. ASSUME NEW j \in Slots, flight[j] # Idle, flight[j].fn = "attachTemplate", "dialog" \in flight[j].owner
            PROVE  FALSE
        <5>1. Waiter(ui, flight[j])
          BY <4>1, AtDetail
        <5> QED BY <4>1, <5>1 DEF Waiter, DialogWaiter
      <4> QED BY <4>1 DEF AttachComing, ComingFor
    <3>2. ui.busyId # 0 => Coming(flight, {"setProviderEnabled"}, "tab")
      BY <1>1, <3>1 DEF DetailWait, BusyWait
    <3> QED BY <3>2, ComingOn
  <2>2. \A j \in {i} :
          /\ flight[j].fn = "saveGuardrailPolicy" => "policy" \notin v.busy \/ "tab" \notin flight[j].owner
          /\ flight[j].fn = "updateWorkspace" => "rename" \notin v.busy \/ "tab" \notin flight[j].owner
          /\ flight[j].fn = "deleteWorkspace" => "delete" \notin v.busy \/ "tab" \notin flight[j].owner
    BY <1>4
  <2> QED BY <1>4, <2>1, <2>2, BusyGoesOn
<1>9. PanelWait(v, flight')
  <2>1. \A r \in new : r.fn \notin TabWrites
    BY DEF TabWrites
  <2>2. flight[i].fn \notin PanelFns
    BY DEF PanelFns
  <2>3. \/ ~IsSettled(ui') \/ ui'.tab \notin DOMAIN PanelTable \/ ui'.panel # NoList \/ ui'.panelFailed
        \/ IsSettled(ui) /\ ui.panel = NoList /\ ui'.tab = ui.tab /\ ~ui.panelFailed
    BY <1>2
  <2>4. ui'.tab = "templates" /\ ui'.panel = NoList => ui.tab = "templates" /\ ui.panel = NoList
    OBVIOUS
  <2> QED BY <2>1, <2>2, <2>3, <2>4, PanelGoesOn
<1>10. PoolWait(v, flight')
  <2>1. \A r \in new : r.fn # "deleteWorkspace"
    OBVIOUS
  <2>2. \/ ui.dialog.kind # "deleteWorkspace" /\ ("delete" \in ui.busy => "delete" \in v.busy)
        \/ \E j \in {i} : j \in Slots /\ flight[j].fn = "deleteWorkspace" /\ "tab" \in flight[j].owner
    OBVIOUS
  <2> QED BY <1>3, <2>1, <2>2, PoolGoesOn
<1>11. DetailWait(v, flight')
  BY <1>6, <1>7, <1>8, <1>9, <1>10 DEF DetailWait
<1>12. \A r \in new : New(r) /\ Waiter(v, r)
  BY DEF Waiter
<1> QED BY <1>2, <1>5, <1>11, <1>12, DetailGoOn

(* The members have been loaded, or have not. *)
LEMMA MembersLoadedInv ==
  ASSUME Inv, NEW i \in Slots, MembersLoaded(i)
  PROVE  Inv'
<1> DEFINE screen == CASE ~flight[i].latest -> ui
                       [] flight[i].latest /\ Got(i) -> [ui EXCEPT !.roster = Result(i)]
                       [] OTHER -> [ui EXCEPT !.rosterFailed = TRUE]
           closes == flight[i].memo = "roles" /\ Awaits(i, "tab") /\ ui.dialog.kind = "roles"
           v == IF closes THEN [screen EXCEPT !.dialog = Closed, !.busy = @ \ {"roles"}] ELSE screen
           parts == IF closes THEN {"dialog"} ELSE {}
<1>1. /\ flight[i] # Idle /\ flight[i].fn = "listMembers" /\ "screen" \in flight[i].owner
      /\ Client(v, Unmount(Done(i), parts))
  BY DEF MembersLoaded, Answered, Awaits
<1>2. ui.at = "detail"
  <2>1. flight[i].owner # {}
    BY <1>1
  <2> QED BY <1>1, <2>1, WhereItIs DEF AskedOf
<1>3. DetailTyped(ui) /\ DetailWait(ui, flight) /\ Flights(flight) /\ DOMAIN ui = DetailFields /\ IsRequest(flight[i])
  BY <1>1, <1>2, AtDetail DEF DetailFields
<1>4. Within /\ ui' = v /\ flight' = Unmount(Done(i), parts)
  BY <1>1, ClientWithin
<1>5. Turns(flight, flight', {i}, parts, {}, {})
  BY <1>3, <1>4, DoneTurns, PartsTurn
<1>6. /\ DOMAIN screen = DetailFields /\ screen.at = "detail" /\ screen.id = ui.id /\ screen.loading = ui.loading
      /\ screen.failed = ui.failed /\ screen.gone = ui.gone /\ screen.rows = ui.rows /\ screen.tab = ui.tab
      /\ screen.dialog = ui.dialog /\ screen.panel = ui.panel /\ screen.panelFailed = ui.panelFailed
      /\ screen.pool = ui.pool /\ screen.busy = ui.busy /\ screen.busyId = ui.busyId
      /\ screen.rosterFailed \in BOOLEAN
      /\ screen.roster = NoList /\ ~screen.rosterFailed => ui.roster = NoList /\ ~ui.rosterFailed /\ ~flight[i].latest
  <2>1. CASE ~flight[i].latest
    <3>1. screen = ui
      BY <2>1
    <3> HIDE DEF screen
    <3> QED BY <1>2, <1>3, <2>1, <3>1 DEF DetailTyped
  <2>2. CASE flight[i].latest /\ Got(i)
    <3>1. screen = [ui EXCEPT !.roster = Result(i)]
      BY <2>2
    <3>2. Result(i) # NoList
      <4>1. Replies(flight[i])
        BY <1>1 DEF Inv, Calls, CallsTyped
      <4>2. Result(i) \in Seq(Row)
        BY <1>1, <2>2, <4>1 DEF Replies, Got, Result, ListFns
      <4> QED BY <4>2, NoListIsNone
    <3> HIDE DEF screen
    <3>3. screen.roster = Result(i) /\ screen.rosterFailed = ui.rosterFailed
      BY <1>3, <3>1 DEF DetailFields
    <3> QED BY <1>2, <1>3, <3>1, <3>2, <3>3 DEF DetailTyped, DetailFields
  <2>3. CASE flight[i].latest /\ ~Got(i)
    <3>1. screen = [ui EXCEPT !.rosterFailed = TRUE]
      BY <2>3
    <3> HIDE DEF screen
    <3>2. screen.rosterFailed = TRUE
      BY <1>3, <3>1 DEF DetailFields
    <3>3. screen.rosterFailed \in BOOLEAN /\ screen.rosterFailed
      BY <3>2
    <3> QED BY <1>2, <1>3, <3>1, <3>3 DEF DetailFields
  <2> HIDE DEF screen
  <2>4. flight[i].latest \in BOOLEAN
    BY <1>3 DEF IsRequest
  <2> QED BY <2>1, <2>2, <2>3, <2>4
<1> HIDE DEF screen
<1>7. CASE closes
  <2>1. /\ DOMAIN v = DetailFields /\ v.at = "detail" /\ v.id = ui.id /\ v.loading = ui.loading
        /\ v.failed = ui.failed /\ v.gone = ui.gone /\ v.rows = ui.rows /\ v.tab = ui.tab
        /\ v.dialog = Closed /\ v.panel = ui.panel /\ v.panelFailed = ui.panelFailed
        /\ v.pool = ui.pool /\ v.busy = ui.busy \ {"roles"} /\ v.busyId = ui.busyId
        /\ v.rosterFailed = screen.rosterFailed /\ v.roster = screen.roster
    <3>1. v = [screen EXCEPT !.dialog = Closed, !.busy = @ \ {"roles"}]
      BY <1>7
    <3> HIDE DEF v
    <3> QED BY <1>6, <3>1 DEF DetailFields
  <2>2. parts = {"dialog"}
    BY <1>7
  <2>3. ui.dialog.kind = "roles"
    BY <1>7
  <2> HIDE DEF v, parts, closes
  <2>4. v.busy = ui.busy \ {IF ui.dialog.kind = "deleteWorkspace" THEN "delete" ELSE ui.dialog.kind}
    BY <2>1, <2>3
  <2>5. Turns(flight, flight', {i}, {"dialog"}, {}, {})
    BY <1>5, <2>2
  <2>6. \A r \in {} : New(r) /\ r.fn = "listMembers" /\ r.owner = {"screen", "tab"}
    OBVIOUS
  <2>7. v.rosterFailed \in BOOLEAN
    BY <1>6, <2>1
  <2>8. v.roster = NoList /\ ~v.rosterFailed =>
           \/ ComingLast(flight', "listMembers")
           \/ /\ ui.roster = NoList /\ ~ui.rosterFailed /\ {} = {}
              /\ flight[i].fn = "listMembers" => ~flight[i].latest
    BY <1>6, <2>1
  <2>9. flight[i] # Idle /\ flight[i].fn \in {"listMembers", "addMember", "deleteWorkspace"}
        /\ ui.dialog.kind \in {"roles", "addMember", "deleteWorkspace"} /\ ui.dialog.kind # "deleteWorkspace"
    BY <1>1, <2>3
  <2>10. ui' = v /\ Within /\ DOMAIN v = DOMAIN ui /\ v.pool \in {ui.pool, NoList}
    BY <1>3, <1>4, <2>1
  <2>11. {} \subseteq {"listMembers"}
    OBVIOUS
  <2> QED BY <1>2, <2>1, <2>4, <2>5, <2>6, <2>7, <2>8, <2>9, <2>10, <2>11, DialogClosesInv
<1>8. CASE ~closes
  <2>1. v = screen /\ parts = {}
    BY <1>8
  <2>2. "roles" \in ui.busy => ui.dialog.kind = "roles"
    BY <1>2, <1>3 DEF DetailWait, BusyWait
  <2>3. "roles" \in ui.busy => ~({"screen", "tab"} \subseteq flight[i].owner /\ flight[i].memo = "roles")
    BY <1>8, <2>2 DEF Awaits
  <2> HIDE DEF v, parts, closes
  <2>4. Turns(flight, flight', {i}, {}, {}, {}) /\ ui' = screen
    BY <1>4, <1>5, <2>1
  <2>5. screen.panelFailed \in BOOLEAN
    BY <1>3, <1>6 DEF DetailTyped
  <2>6. flight[i].fn \notin PanelFns
    BY <1>1 DEF PanelFns
  <2> QED BY <1>1, <1>2, <1>3, <1>4, <1>6, <2>3, <2>4, <2>5, <2>6, DetailAnswerInv
<1> QED BY <1>7, <1>8

(* Roles have been saved, or a member added, and nothing closes yet. *)
LEMMA MembersAgainInv ==
  ASSUME Inv, Within, ui.at = "detail", NEW i \in Slots, flight[i] # Idle, flight[i].fn \in {"replaceMemberRoles", "addMember"},
         NEW q, New(q), q.fn = "listMembers", q.owner = {"screen", "tab"}, q.latest,
         Turns(flight, flight', {i}, {}, {"listMembers"}, {q}),
         flight[i].fn = "addMember" => ui.dialog.kind # "addMember",
         flight[i].fn = "replaceMemberRoles" /\ "tab" \in flight[i].owner => q.memo = "roles",
         NEW v, ui' = v, DOMAIN v = DOMAIN ui, v.at = "detail", v.id = ui.id, v.loading = ui.loading, v.failed = ui.failed,
         v.gone = ui.gone, v.rows = ui.rows, v.tab = ui.tab, v.dialog = ui.dialog, v.rosterFailed \in BOOLEAN,
         v.panel = ui.panel, v.panelFailed = ui.panelFailed, v.pool = ui.pool, v.busyId = ui.busyId, v.busy = ui.busy
  PROVE  Inv'
<1>1. DetailTyped(ui) /\ DetailWait(ui, flight) /\ Flights(flight)
  BY AtDetail
<1>2. IsSettled(v) <=> IsSettled(ui)
  BY DEF IsSettled
<1>3. DetailTyped(v)
  BY <1>1, <1>2 DEF DetailTyped
<1>4. IsRequest(q) /\ q \in {q}
  BY DEF New
<1>5. v.loading => ComingLast(flight', "getWorkspace")
  <2>1. Spared("getWorkspace", {i}, {"listMembers"})
    BY DEF Spared
  <2> QED BY <2>1, LoadsGoOn
<1>6. ComingLast(flight', "listMembers")
  BY <1>4, NewComes
<1>7. BusyWait(v, flight')
  <2>1. BusyWait(ui, flight)
    BY <1>1 DEF DetailWait
  <2>2. ASSUME "roles" \in ui.busy PROVE RolesComing(flight')
    <3>1. CASE {"screen", "tab", "dialog"} \subseteq flight[i].owner /\ flight[i].fn = "replaceMemberRoles"
      <4>1. q.memo = "roles"
        BY <3>1
      <4>2. PICK k \in Slots : flight'[k] = q
        BY DEF Turns
      <4> QED BY <1>4, <4>1, <4>2, IdleIsNone DEF RolesComing
    <3>2. CASE ~({"screen", "tab", "dialog"} \subseteq flight[i].owner /\ flight[i].fn = "replaceMemberRoles")
      <4>1. \A j \in {i} :
              /\ flight[j].fn = "replaceMemberRoles" => ~({"screen", "tab", "dialog"} \subseteq flight[j].owner)
              /\ flight[j].fn = "listMembers" => ~({"screen", "tab"} \subseteq flight[j].owner /\ flight[j].memo = "roles")
        BY <3>2
      <4>2. RolesComing(flight)
        BY <2>1, <2>2 DEF BusyWait
      <4> QED BY <4>1, <4>2, RolesOn
    <3> QED BY <3>1, <3>2
  <2>3. /\ "roles" \in ui.busy => ui.dialog.kind = "roles"
        /\ "addMember" \in ui.busy => ui.dialog.kind = "addMember"
    BY <2>1 DEF BusyWait
  <2>4. \A j \in {i} : flight[j].fn \notin {"attachTemplate", "setProviderEnabled", "saveGuardrailPolicy", "updateWorkspace", "deleteWorkspace"}
    OBVIOUS
  <2> QED BY <2>2, <2>3, <2>4, BusyGoesOn
<1>8. PanelWait(v, flight')
  <2>1. \A r \in {q} : r.fn \notin TabWrites
    BY DEF TabWrites
  <2>2. flight[i].fn \notin PanelFns
    BY DEF PanelFns
  <2>3. \/ ~IsSettled(ui') \/ ui'.tab \notin DOMAIN PanelTable \/ ui'.panel # NoList \/ ui'.panelFailed
        \/ IsSettled(ui) /\ ui.panel = NoList /\ ui'.tab = ui.tab /\ ~ui.panelFailed
    BY <1>2
  <2>4. ui'.tab = "templates" /\ ui'.panel = NoList => ui.tab = "templates" /\ ui.panel = NoList
    OBVIOUS
  <2> QED BY <2>1, <2>2, <2>3, <2>4, PanelGoesOn
<1>9. PoolWait(v, flight')
  <2>1. \A r \in {q} : r.fn # "deleteWorkspace"
    OBVIOUS
  <2>2. \A j \in {i} : flight[j].fn \notin {"listMemberCandidates", "listTemplateLibrary"}
    OBVIOUS
  <2> QED BY <1>2, <2>1, <2>2, PoolGoesOn
<1>10. DetailWait(v, flight')
  BY <1>5, <1>6, <1>7, <1>8, <1>9 DEF DetailWait, RosterWait
<1>11. \A r \in {q} : New(r) /\ Waiter(v, r)
  BY DEF Waiter
<1> QED BY <1>2, <1>3, <1>10, <1>11, DetailGoOn

(* Roles have been saved, or a member added, or neither. *)
LEMMA MemberSavedInv ==
  ASSUME Inv, NEW i \in Slots, MemberSaved(i)
  PROVE  Inv'
<1> DEFINE label == IF flight[i].fn = "addMember" THEN "addMember" ELSE "roles"
           added == flight[i].fn = "addMember" /\ ui.dialog.kind = "addMember"
<1>1. flight[i] # Idle /\ flight[i].fn \in {"replaceMemberRoles", "addMember"}
  BY DEF MemberSaved, Answered
<1>2. /\ Flights(flight) /\ Asked(flight[i]) /\ IsRequest(flight[i]) /\ token \in Nat /\ Turns(flight, Done(i), {i}, {}, {}, {})
      /\ Flights(Done(i)) /\ FreeSlots(Done(i)) # {}
  <2>1. Flights(flight)
    BY DEF Inv, Calls, CallsTyped
  <2> QED BY <1>1, <2>1, DoneTurns, WasDone DEF Inv, Calls, CallsTyped, Flights
<1>3. ASSUME flight[i].owner # {}
      PROVE  ui.at = "detail" /\ DetailTyped(ui) /\ DOMAIN ui = DetailFields
  <2>1. ui.at = "detail"
    BY <1>1, <1>3, WhereItIs DEF AskedOf
  <2> QED BY <2>1, AtDetail DEF DetailFields
<1>4. CASE ~Awaits(i, "screen")
  <2>1. Within /\ ui' = ui /\ flight' = Done(i)
    <3>1. Unheeded(i)
      BY <1>4 DEF MemberSaved
    <3>2. Straying({token}) \subseteq {token}
      BY DEF Straying
    <3> QED BY <3>1, <3>2 DEF Unheeded, Within, serverVars, countVars, Inv, Calls, CallsTyped, Given
  <2>2. CASE flight[i].owner = {}
    BY <1>1, <2>1, <2>2, UnheededInv
  <2>3. CASE flight[i].owner # {}
    <3>1. flight[i].fn \notin PanelFns
      BY <1>1 DEF PanelFns
    <3>2. Turns(flight, flight', {i}, {}, {}, {})
      BY <1>2, <2>1
    <3>3. "screen" \notin flight[i].owner
      BY <1>4 DEF Awaits
    <3> QED BY <1>1, <1>3, <2>1, <2>3, <3>1, <3>2, <3>3, DetailSameInv
  <2> QED BY <2>2, <2>3
<1>5. CASE Awaits(i, "screen") /\ ~Got(i)
  <2> DEFINE v == IF Awaits(i, "dialog") THEN [ui EXCEPT !.busy = @ \ {label}] ELSE ui
  <2>1. Client(v, Done(i))
    BY <1>5 DEF MemberSaved
  <2>2. Within /\ ui' = v /\ flight' = Done(i)
    BY <2>1, ClientWithin
  <2>3. ui.at = "detail" /\ DetailTyped(ui) /\ DOMAIN ui = DetailFields
    BY <1>3, <1>5 DEF Awaits
  <2> HIDE DEF label
  <2>4. /\ DOMAIN v = DetailFields /\ v.at = "detail" /\ v.id = ui.id /\ v.loading = ui.loading
        /\ v.failed = ui.failed /\ v.gone = ui.gone /\ v.rows = ui.rows /\ v.tab = ui.tab /\ v.roster = ui.roster
        /\ v.dialog = ui.dialog /\ v.panel = ui.panel /\ v.panelFailed = ui.panelFailed /\ v.rosterFailed = ui.rosterFailed
        /\ v.pool = ui.pool /\ v.busyId = ui.busyId
        /\ v.busy = IF Awaits(i, "dialog") THEN ui.busy \ {label} ELSE ui.busy
    <3>1. CASE Awaits(i, "dialog")
      BY <2>3, <3>1 DEF DetailFields
    <3>2. CASE ~Awaits(i, "dialog")
      BY <2>3, <3>2
    <3> QED BY <3>1, <3>2
  <2> HIDE DEF v
  <2>5. /\ v.busy \subseteq ui.busy /\ ("delete" \in ui.busy => "delete" \in v.busy)
        /\ "roles" \in v.busy => ~(flight[i].fn = "replaceMemberRoles" /\ "dialog" \in flight[i].owner)
        /\ "addMember" \in v.busy => ~(flight[i].fn = "addMember" /\ "dialog" \in flight[i].owner)
    BY <1>1, <2>4 DEF label, Awaits
  <2>6. v.rosterFailed \in BOOLEAN /\ v.panelFailed \in BOOLEAN
    BY <2>3, <2>4 DEF DetailTyped
  <2>7. Turns(flight, flight', {i}, {}, {}, {}) /\ ui' = v /\ Within
    BY <1>2, <2>2
  <2>8. flight[i].fn \notin PanelFns
    BY <1>1 DEF PanelFns
  <2> QED BY <1>1, <2>3, <2>4, <2>5, <2>6, <2>7, <2>8, DetailAnswerInv
<1>6. CASE Awaits(i, "screen") /\ Got(i)
  <2> DEFINE v == [ui EXCEPT !.rosterFailed = FALSE,
                     !.dialog = IF added THEN Closed ELSE @, !.pool = IF added THEN NoList ELSE @,
                     !.busy = IF added THEN @ \ {label} ELSE @]
             parts == IF added THEN {"dialog"} ELSE {}
             f == Unmount(Done(i), parts)
             m == IF label = "roles" /\ Awaits(i, "tab") THEN "roles" ELSE "load"
             q == ListMembers(flight[i].memo, m)
  <2>1. Client(v, Send(Supersede(f, {"listMembers"}), q))
    BY <1>6 DEF MemberSaved, LoadMembers
  <2>2. Within /\ ui' = v /\ flight' = Send(Supersede(f, {"listMembers"}), q)
    BY <2>1, ClientWithin
  <2>3. ui.at = "detail" /\ DetailTyped(ui) /\ DOMAIN ui = DetailFields
    BY <1>3, <1>6 DEF Awaits
  <2>4. New(q) /\ q.fn = "listMembers" /\ q.owner = {"screen", "tab"} /\ q.memo = m /\ q.latest
    <3>1. flight[i].memo \in WorkspaceIds
      BY <1>1, <1>2 DEF Asked
    <3> HIDE DEF m
    <3> QED BY <1>2, <3>1, ListMembersIs, DetailLoadsAreLatest
  <2> HIDE DEF q
  <2>5. Turns(flight, flight', {i}, parts, {"listMembers"}, {q})
    <3>1. Turns(flight, f, {i}, parts, {}, {})
      BY <1>2, PartsTurn
    <3>2. Flights(f) /\ FreeSlots(f) # {}
      BY <1>2, StillFree, Unmounted
    <3> HIDE DEF f
    <3>3. Turns(f, flight', {}, {}, {"listMembers"}, {q})
      BY <2>2, <2>4, <3>2, ReloadTurns DEF New
    <3> QED BY <3>1, <3>3, ThenTurns
  <2> HIDE DEF f
  <2>6. /\ DOMAIN v = DetailFields /\ v.at = "detail" /\ v.id = ui.id /\ v.loading = ui.loading
        /\ v.failed = ui.failed /\ v.gone = ui.gone /\ v.rows = ui.rows /\ v.tab = ui.tab /\ v.roster = ui.roster
        /\ v.panel = ui.panel /\ v.panelFailed = ui.panelFailed /\ v.rosterFailed = FALSE
        /\ v.busyId = ui.busyId
        /\ v.dialog = (IF added THEN Closed ELSE ui.dialog)
        /\ v.pool = (IF added THEN NoList ELSE ui.pool)
        /\ v.busy = (IF added THEN ui.busy \ {label} ELSE ui.busy)
    <3> HIDE DEF added, label
    <3> QED BY <2>3 DEF DetailFields
  <2> HIDE DEF v
  <2>7. v.rosterFailed \in BOOLEAN
    BY <2>6
  <2>8. ComingLast(flight', "listMembers")
    BY <2>4, <2>5, NewComes DEF New
  <2>9. CASE added
    <3>1. label = "addMember" /\ parts = {"dialog"} /\ ui.dialog.kind = "addMember" /\ flight[i].fn = "addMember"
      BY <2>9
    <3>2. /\ v.dialog = Closed /\ v.pool = NoList /\ v.busy = ui.busy \ {"addMember"}
      BY <2>6, <2>9, <3>1
    <3>3. Turns(flight, flight', {i}, {"dialog"}, {"listMembers"}, {q})
      BY <2>5, <3>1
    <3>4. \A r \in {q} : New(r) /\ r.fn = "listMembers" /\ r.owner = {"screen", "tab"}
      BY <2>4
    <3> HIDE DEF added, label, parts, m
    <3>5. v.busy = ui.busy \ {IF ui.dialog.kind = "deleteWorkspace" THEN "delete" ELSE ui.dialog.kind}
      BY <3>1, <3>2
    <3>6. ui' = v /\ Within /\ DOMAIN v = DOMAIN ui /\ v.pool \in {ui.pool, NoList} /\ flight[i] # Idle
      BY <1>1, <2>2, <2>3, <2>6, <3>2
    <3>7. flight[i].fn \in {"listMembers", "addMember", "deleteWorkspace"}
          /\ ui.dialog.kind \in {"roles", "addMember", "deleteWorkspace"} /\ ui.dialog.kind # "deleteWorkspace"
      BY <3>1
    <3>8. {"listMembers"} \subseteq {"listMembers"}
      OBVIOUS
    <3> QED BY <2>3, <2>6, <2>7, <2>8, <3>2, <3>3, <3>4, <3>5, <3>6, <3>7, <3>8, DialogClosesInv
  <2>10. CASE ~added
    <3>1. v.dialog = ui.dialog /\ v.pool = ui.pool /\ v.busy = ui.busy /\ parts = {}
      BY <2>6, <2>10
    <3>2. flight[i].fn = "addMember" => ui.dialog.kind # "addMember"
      BY <2>10
    <3>3. flight[i].fn = "replaceMemberRoles" /\ "tab" \in flight[i].owner => q.memo = "roles"
      BY <2>4 DEF Awaits
    <3> HIDE DEF added, label, parts, m
    <3>4. Turns(flight, flight', {i}, {}, {"listMembers"}, {q}) /\ ui' = v /\ Within /\ flight[i] # Idle /\ DOMAIN v = DOMAIN ui
      BY <1>1, <2>2, <2>3, <2>5, <2>6, <3>1
    <3> QED BY <1>1, <2>3, <2>4, <2>6, <2>7, <3>1, <3>2, <3>3, <3>4, MembersAgainInv
  <2> QED BY <2>9, <2>10
<1> QED BY <1>4, <1>5, <1>6

(* An answer is read, and the loads of some slots are answered to nobody.  *)
LEMMA OldOnesEnd ==
  ASSUME Flights(flight), NEW i \in Slots, NEW old, NEW g,
         g = [j \in DOMAIN Done(i) |-> IF j \in old THEN Idle ELSE Done(i)[j]]
  PROVE  Turns(flight, g, {i} \cup old, {}, {}, {})
<1>1. Flights(Done(i)) /\ Done(i)[i] = Idle /\ \A j \in Slots : j # i => Done(i)[j] = flight[j]
  BY WasDone
<1> DEFINE f == Done(i)
<1>2. DOMAIN f = Slots
  BY <1>1 DEF Flights
<1>3. DOMAIN g = Slots /\ \A j \in Slots : g[j] = IF j \in old THEN Idle ELSE f[j]
  BY <1>2
<1> HIDE DEF f
<1>4. Flights(g)
  <2>1. Flights(f) /\ g = [j \in Slots |-> IF j \in old THEN Idle ELSE f[j]]
    BY <1>1, <1>2 DEF f
  <2> QED BY <2>1 DEF Flights
<1>5. \A j \in Slots : j \in {i} \cup old => g[j] = Idle
  BY <1>1, <1>3 DEF f
<1>6. \A j \in Slots \ ({i} \cup old) : g[j] = flight[j]
  BY <1>1, <1>3 DEF f
<1>7. \A j \in Slots : flight[j] # Idle => Stays(flight[j], flight[j], {}, {})
  BY StaysAsIs DEF Flights
<1>8. \A j \in Slots : flight[j].owner = {} \/ flight[j].owner \ {} # {}
  OBVIOUS
<1>9. \A j \in Slots : g[j] # Idle =>
        /\ flight[j] # Idle /\ j \notin {i} \cup old /\ Stays(flight[j], g[j], {}, {})
        /\ flight[j].owner = {} \/ flight[j].owner \ {} # {} \/ Writing(flight[j])
  BY <1>5, <1>6, <1>7, <1>8
<1>10. \A j \in Slots \ ({i} \cup old) : flight[j] # Idle => g[j] # Idle /\ Stays(flight[j], g[j], {}, {})
  BY <1>6, <1>7
<1> QED BY <1>4, <1>9, <1>10 DEF Turns

(* A workspace is shown: the one that already is, or another one, with     *)
(* which the tab and the dialog load again.                                *)
LEMMA ShowWorkspaceInv ==
  ASSUME Inv, ui.at = "detail", NEW i \in Slots, flight[i] # Idle, flight[i].fn \in {"getWorkspace", "updateWorkspace"},
         NEW screen, DOMAIN screen = DetailFields, screen.at = "detail", screen.id = ui.id, screen.loading = ui.loading,
         screen.failed = ui.failed, screen.gone = ui.gone, screen.rows = ui.rows, screen.roster = ui.roster,
         screen.rosterFailed = ui.rosterFailed, screen.tab = ui.tab, screen.panel = ui.panel,
         screen.panelFailed = ui.panelFailed, screen.dialog = ui.dialog, screen.pool = ui.pool, screen.busyId = ui.busyId,
         screen.busy \subseteq ui.busy, "delete" \in ui.busy => "delete" \in screen.busy,
         flight[i].fn = "updateWorkspace" => "rename" \notin screen.busy \/ "tab" \notin flight[i].owner,
         NEW x, x[1] \in WorkspaceIds, ShowWorkspace(screen, x, Done(i))
  PROVE  Inv'
<1>1. DetailTyped(ui) /\ DetailWait(ui, flight) /\ Flights(flight) /\ DOMAIN ui = DetailFields /\ token \in Nat
  BY AtDetail DEF DetailFields
<1>2. Turns(flight, Done(i), {i}, {}, {}, {})
  BY <1>1, DoneTurns
<1>3. CASE Settled /\ Shown = x[1]
  <2> DEFINE v == [screen EXCEPT !.rows = <<x>>]
  <2>1. Client(v, Done(i))
    BY <1>3 DEF ShowWorkspace
  <2>2. Within /\ ui' = v /\ Turns(flight, flight', {i}, {}, {}, {})
    BY <1>2, <2>1, ClientWithin
  <2>3. /\ DOMAIN v = DetailFields /\ v.at = "detail" /\ v.id = ui.id /\ v.loading = ui.loading
        /\ v.failed = ui.failed /\ v.gone = ui.gone /\ v.rows[1][1] \in WorkspaceIds /\ v.tab = ui.tab
        /\ v.dialog = ui.dialog /\ v.roster = ui.roster /\ v.rosterFailed = ui.rosterFailed
        /\ v.panel = ui.panel /\ v.panelFailed = ui.panelFailed /\ v.pool = ui.pool
        /\ v.busy = screen.busy /\ v.busyId = ui.busyId
    <3>1. v.rows = <<x>>
      BY DEF DetailFields
    <3>2. <<x>>[1] = x
      OBVIOUS
    <3> QED BY <3>1, <3>2 DEF DetailFields
  <2> HIDE DEF v
  <2>4. ~ui.loading
    BY <1>3 DEF Settled
  <2>5. flight[i].fn \notin PanelFns
    BY DEF PanelFns
  <2>6. v.rosterFailed \in BOOLEAN /\ v.panelFailed \in BOOLEAN
    BY <1>1, <2>3 DEF DetailTyped
  <2> QED BY <1>1, <2>2, <2>3, <2>4, <2>5, <2>6, DetailAnswerInv
<1>4. CASE ~(Settled /\ Shown = x[1])
  <2> DEFINE f == Done(i)
             old == {j \in DOMAIN f : f[j].fn \in PanelFns \cup {"listMemberCandidates"}}
             g == [j \in DOMAIN f |-> IF j \in old THEN Idle ELSE f[j]]
             ps == PanelLoads(ui.tab, x[1])
             qs == PoolLoads(ui.dialog, x[1])
             S == ToSet(ps \o qs)
             v == [screen EXCEPT !.rows = <<x>>, !.loading = FALSE, !.failed = FALSE, !.gone = FALSE,
                        !.panelFailed = FALSE, !.pool = IF Settled THEN @ ELSE NoList,
                        !.panel = IF Settled /\ ui.tab # "guardrails" THEN @ ELSE NoList]
  <2>1. /\ Cardinality(FreeSlots(g)) >= Len(ps \o qs)
        /\ ui' = v /\ flight' = SendAll(g, ps \o qs)
        /\ strays' = strays \cup Straying({f[j].token : j \in old})
        /\ UNCHANGED <<db, expired, token, refused, writes, sessions>>
    BY <1>4 DEF ShowWorkspace, serverVars, countVars
  <2>2. ui.tab \in Tabs
    BY <1>1 DEF DetailTyped
  <2>3. /\ ps \in Seq(ToSet(ps)) /\ Len(ps) \in {0, 1}
        /\ \A r \in ToSet(ps) :
             /\ New(r) /\ r.owner = {"tab"} /\ r.fn \in PanelFns
             /\ ui.tab = "templates" => r.fn = "listAttachedTemplates"
             /\ ui.tab = "providers" => r.fn = "listWorkspaceProviders"
             /\ ui.tab = "guardrails" => r.fn = "getGuardrailPolicy"
             /\ ui.tab \in DOMAIN PanelTable
        /\ ui.tab \in DOMAIN PanelTable => ToSet(ps) # {}
    BY <1>1, <2>2, PanelLoadsAre
  <2>4. /\ qs \in Seq(ToSet(qs)) /\ Len(qs) \in {0, 1}
        /\ \A r \in ToSet(qs) :
             /\ New(r) /\ r.owner = {"dialog"}
             /\ \/ ui.dialog.kind = "addMember" /\ r.fn = "listMemberCandidates"
                \/ ui.dialog.kind = "addTemplate" /\ r.fn = "listTemplateLibrary"
        /\ ui.dialog.kind \in {"addMember", "addTemplate"} => ToSet(qs) # {}
    BY <1>1, PoolLoadsAre
  <2> HIDE DEF ps, qs
  <2>5. ps \o qs \in Seq(S) /\ Len(ps \o qs) =< 2 /\ S = ToSet(ps) \cup ToSet(qs)
    BY <2>3, <2>4, BothLoads
  <2> HIDE DEF S
  <2>6. Within
    <3>1. \A j \in old : j \in Slots /\ flight[j] # Idle /\ f[j].token = flight[j].token
      <4>1. Flights(f) /\ f[i] = Idle /\ \A j \in Slots : j # i => f[j] = flight[j]
        BY <1>1, WasDone
      <4>2. "none" \notin PanelFns \cup {"listMemberCandidates"} /\ DOMAIN f = Slots
        BY <4>1 DEF PanelFns, Flights
      <4> HIDE DEF f
      <4> QED BY <4>1, <4>2, IdleIsNone
    <3>2. Straying({f[j].token : j \in old}) \subseteq Given
      <4>1. Straying({f[j].token : j \in old}) \subseteq {f[j].token : j \in old}
        BY DEF Straying
      <4>2. \A j \in old : f[j].token \in Given
        BY <1>1, <3>1, InSlots DEF Given
      <4> HIDE DEF old, f
      <4> QED BY <4>1, <4>2
    <3> HIDE DEF old, f
    <3> QED BY <2>1, <3>2 DEF Within, Given, Inv, Calls, CallsTyped
  <2>7. Turns(flight, flight', {i} \cup old, {}, {}, S)
    <3>1. Turns(flight, g, {i} \cup old, {}, {}, {})
      BY <1>1, OldOnesEnd
    <3>2. Flights(g)
      BY <3>1 DEF Turns
    <3>3. \A r \in S : IsRequest(r)
      BY <2>3, <2>4, <2>5 DEF New
    <3>4. ToSet(ps \o qs) = S
      BY DEF S
    <3> HIDE DEF g
    <3>5. Turns(g, flight', {}, {}, {}, S)
      BY <2>1, <2>5, <3>2, <3>3, <3>4, LoadsTurn
    <3> QED BY <3>1, <3>5, ThenTurns
  <2>8. \A j \in {i} \cup old :
          flight[j].fn \in {"getWorkspace", "updateWorkspace", "listMemberCandidates"} \cup PanelFns
          /\ (j = i \/ flight[j].fn \in {"listMemberCandidates"} \cup PanelFns)
    <3>1. Flights(f) /\ f[i] = Idle /\ \A j \in Slots : j # i => f[j] = flight[j]
      BY <1>1, WasDone
    <3>2. DOMAIN f = Slots
      BY <3>1 DEF Flights
    <3> HIDE DEF f
    <3> QED BY <3>1, <3>2
  <2>9. /\ DOMAIN v = DetailFields /\ v.at = "detail" /\ v.id = ui.id /\ v.loading = FALSE
        /\ v.failed = FALSE /\ v.gone = FALSE /\ v.rows[1][1] \in WorkspaceIds /\ v.tab = ui.tab
        /\ v.dialog = ui.dialog /\ v.roster = ui.roster /\ v.rosterFailed = ui.rosterFailed
        /\ v.panelFailed = FALSE /\ v.busy = screen.busy /\ v.busyId = ui.busyId
        /\ Settled => v.pool = ui.pool
        /\ Settled /\ ui.tab # "guardrails" => v.panel = ui.panel
        /\ v.pool \in {ui.pool, NoList} /\ v.panel \in {ui.panel, NoList}
    <3>1. v.rows = <<x>>
      BY DEF DetailFields
    <3>2. <<x>>[1] = x
      OBVIOUS
    <3>3. v.pool = (IF Settled THEN ui.pool ELSE NoList)
      BY DEF DetailFields
    <3>4. v.panel = (IF Settled /\ ui.tab # "guardrails" THEN ui.panel ELSE NoList)
      BY DEF DetailFields
    <3>5. /\ DOMAIN v = DetailFields /\ v.at = "detail" /\ v.id = ui.id /\ v.loading = FALSE
          /\ v.failed = FALSE /\ v.gone = FALSE /\ v.tab = ui.tab
          /\ v.dialog = ui.dialog /\ v.roster = ui.roster /\ v.rosterFailed = ui.rosterFailed
          /\ v.panelFailed = FALSE /\ v.busy = screen.busy /\ v.busyId = ui.busyId
      BY DEF DetailFields
    <3> HIDE DEF v
    <3> QED BY <3>1, <3>2, <3>3, <3>4, <3>5
  <2> HIDE DEF v, g, old, f
  <2>10. Settled <=> IsSettled(ui)
    BY DEF Settled, IsSettled
  <2>11. IsSettled(v)
    BY <2>9 DEF IsSettled
  <2>12. DetailTyped(v)
    <3>1. v.loading \in BOOLEAN /\ v.failed \in BOOLEAN /\ v.gone \in BOOLEAN /\ v.panelFailed \in BOOLEAN
      BY <2>9
    <3>2. v.dialog.kind = "addTemplate" => v.panel # NoList
      <4>1. ui.dialog.kind = "addTemplate" => ui.panel # NoList /\ IsSettled(ui) /\ ui.tab = "templates"
        BY <1>1 DEF DetailTyped, DialogTab
      <4> QED BY <2>9, <2>10, <4>1
    <3>3. v.pool = NoList \/ v.pool \in Seq(Row)
      BY <1>1, <2>9 DEF DetailTyped
    <3>4. v.panel = NoList \/ v.panel \in Seq(Row)
      BY <1>1, <2>9 DEF DetailTyped
    <3>5. v.panel # NoList /\ v.tab = "providers" => AreSwitches(v.panel)
      BY <1>1, <2>9 DEF DetailTyped
    <3>6. v.dialog.kind \in DOMAIN DialogTab => v.tab = DialogTab[v.dialog.kind]
      BY <1>1, <2>9 DEF DetailTyped
    <3> QED BY <1>1, <2>9, <2>11, <3>1, <3>2, <3>3, <3>4, <3>5, <3>6 DEF DetailTyped, DetailFields
  <2>13. \A r \in S : New(r) /\ Waiter(v, r) /\ r.fn \notin TabWrites /\ r.fn # "deleteWorkspace"
    <3>1. v.at = "detail" /\ v.tab = ui.tab /\ v.dialog.kind = ui.dialog.kind
      BY <2>9
    <3>2. ASSUME NEW r \in ToSet(ps) PROVE New(r) /\ Waiter(v, r) /\ r.fn \notin TabWrites /\ r.fn # "deleteWorkspace"
      <4>1. TabWaiter(v, r)
        BY <2>3, <3>1 DEF TabWaiter, PanelTable
      <4>2. PanelFns \cap TabWrites = {} /\ "deleteWorkspace" \notin PanelFns
        BY DEF PanelFns, TabWrites
      <4>3. New(r) /\ r.owner = {"tab"} /\ r.fn \in PanelFns
        BY <2>3
      <4>4. Waiter(v, r)
        BY <2>11, <3>1, <4>1, <4>3 DEF Waiter
      <4> QED BY <4>2, <4>3, <4>4
    <3>3. ASSUME NEW r \in ToSet(qs) PROVE New(r) /\ Waiter(v, r) /\ r.fn \notin TabWrites /\ r.fn # "deleteWorkspace"
      <4>1. DialogWaiter(v, r)
        BY <2>4, <3>1 DEF DialogWaiter
      <4>2. New(r) /\ r.owner = {"dialog"} /\ r.fn \in {"listMemberCandidates", "listTemplateLibrary"}
        BY <2>4
      <4> QED BY <2>11, <3>1, <4>1, <4>2 DEF Waiter, TabWrites
    <3> QED BY <2>5, <3>2, <3>3
  <2>14. RosterWait(v, flight')
    <3>1. Spared("listMembers", {i} \cup old, {})
      BY <2>8 DEF Spared, PanelFns
    <3>2. ui.roster = NoList /\ ~ui.rosterFailed => ComingLast(flight', "listMembers")
      BY <2>7, <3>1, LoadsGoOn
    <3> QED BY <2>9, <3>2 DEF RosterWait
  <2>15. BusyWait(v, flight')
    <3>1. BusyWait(ui, flight)
      BY <1>1 DEF DetailWait
    <3>2. /\ "roles" \in ui.busy => ui.dialog.kind = "roles"
          /\ "addMember" \in ui.busy => ui.dialog.kind = "addMember"
      BY <3>1 DEF BusyWait
    <3>3. \A j \in {i} \cup old :
            flight[j].fn \notin {"replaceMemberRoles", "listMembers", "addMember", "saveGuardrailPolicy", "deleteWorkspace",
                                 "attachTemplate", "setProviderEnabled"}
      BY <2>8 DEF PanelFns
    <3>4. \A j \in {i} \cup old : flight[j].fn = "updateWorkspace" => "rename" \notin v.busy \/ "tab" \notin flight[j].owner
      BY <2>8, <2>9 DEF PanelFns
    <3>5. v.busy \subseteq ui.busy /\ v.dialog = ui.dialog /\ v.busyId = ui.busyId /\ ui' = v
      BY <2>1, <2>9
    <3> QED BY <2>7, <3>2, <3>3, <3>4, <3>5, BusyGoesOn
  <2>16. PanelWait(v, flight')
    <3>1. ASSUME ui.tab \in DOMAIN PanelTable PROVE Coming(flight', PanelFns, "tab")
      <4>1. PICK r \in S : New(r) /\ r.owner = {"tab"} /\ r.fn \in PanelFns
        BY <2>3, <2>5, <3>1
      <4> QED BY <2>7, <4>1, NewComes DEF New
    <3>2. v.tab \notin DOMAIN PanelTable \/ Coming(flight', PanelFns, "tab")
      BY <2>9, <3>1
    <3>3. v.tab = "templates" /\ v.panel = NoList => (ui.tab = "templates" /\ ui.panel = NoList) \/ ~IsSettled(ui)
      BY <2>9, <2>10
    <3>4. ui' = v
      BY <2>1
    <3>5. \A r \in S : r.fn \notin TabWrites
      BY <2>13
    <3> QED BY <2>7, <3>2, <3>3, <3>4, <3>5, PanelGoesOn
  <2>17. PoolWait(v, flight')
    <3>1. ASSUME ui.dialog.kind \in {"addMember", "addTemplate"}
          PROVE  Coming(flight', {"listMemberCandidates", "listTemplateLibrary"}, "dialog")
      <4>1. PICK r \in S : New(r) /\ r.owner = {"dialog"} /\ r.fn \in {"listMemberCandidates", "listTemplateLibrary"}
        BY <2>4, <2>5, <3>1
      <4> QED BY <2>7, <4>1, NewComes DEF New
    <3>2. v.dialog.kind \notin {"addMember", "addTemplate"}
            \/ Coming(flight', {"listMemberCandidates", "listTemplateLibrary"}, "dialog")
      BY <2>9, <3>1
    <3>3. ui' = v /\ v.dialog = ui.dialog /\ ("delete" \in ui.busy => "delete" \in v.busy)
      BY <2>1, <2>9
    <3>4. \A r \in S : r.fn # "deleteWorkspace"
      BY <2>13
    <3> QED BY <2>7, <3>2, <3>3, <3>4, PoolGoesOn
  <2>18. DetailWait(v, flight')
    <3>1. ~v.loading
      BY <2>9
    <3> QED BY <2>14, <2>15, <2>16, <2>17, <3>1 DEF DetailWait
  <2>19. /\ ui' = v /\ ui'.at = "detail" /\ IsSettled(ui') /\ ui'.tab = ui.tab /\ ui'.dialog.kind = ui.dialog.kind
         /\ \A r \in S : New(r) /\ Waiter(ui', r)
    BY <2>1, <2>9, <2>11, <2>13
  <2> QED BY <2>6, <2>7, <2>12, <2>18, <2>19, DetailGoOn
<1> QED BY <1>3, <1>4

(* The workspace has been loaded, or there is none, or it has not.         *)
LEMMA GotWorkspaceInv ==
  ASSUME Inv, NEW i \in Slots, GotWorkspace(i)
  PROVE  Inv'
<1>1. flight[i] # Idle /\ flight[i].fn = "getWorkspace" /\ "screen" \in flight[i].owner
  BY DEF GotWorkspace, Answered, Awaits
<1>2. ui.at = "detail"
  <2>1. flight[i].owner # {}
    BY <1>1
  <2> QED BY <1>1, <2>1, WhereItIs DEF AskedOf
<1>3. /\ DetailTyped(ui) /\ DetailWait(ui, flight) /\ Flights(flight) /\ DOMAIN ui = DetailFields /\ IsRequest(flight[i])
      /\ Asked(flight[i]) /\ Replies(flight[i])
  BY <1>1, <1>2, AtDetail DEF DetailFields, Inv, Calls, CallsTyped
<1>4. flight[i].latest \in BOOLEAN
  BY <1>3 DEF IsRequest
<1>5. CASE ~flight[i].latest
  <2>1. Client(ui, Done(i))
    BY <1>5 DEF GotWorkspace
  <2>2. Within /\ ui' = ui /\ flight' = Done(i)
    BY <2>1, ClientWithin
  <2>3. Turns(flight, flight', {i}, {}, {}, {})
    BY <1>3, <2>2, DoneTurns
  <2>4. flight[i].fn \notin PanelFns \cup {"listMemberCandidates", "listTemplateLibrary", "saveGuardrailPolicy",
                                         "setProviderEnabled", "attachTemplate", "updateWorkspace"}
    BY <1>1 DEF PanelFns
  <2>5. flight[i].fn \notin {"listMembers", "replaceMemberRoles", "addMember", "deleteWorkspace"}
    BY <1>1
  <2> QED BY <1>1, <1>2, <1>5, <2>2, <2>3, <2>4, <2>5, DetailSameInv
<1>6. CASE flight[i].latest /\ Got(i)
  <2> DEFINE x == Result(i)[1]
  <2>1. ShowWorkspace(ui, x, Done(i))
    BY <1>6 DEF GotWorkspace
  <2>2. x[1] \in WorkspaceIds
    <3>1. flight[i].row \in WorkspaceIds
      BY <1>1, <1>3 DEF Asked
    <3>2. Result(i) = <<<<flight[i].row, Result(i)[1][2]>>>>
      BY <1>1, <1>3, <1>6 DEF Replies, Got, Result
    <3>3. \A a, b, c : c = <<<<a, b>>>> => c[1][1] = a
      OBVIOUS
    <3>4. x[1] = flight[i].row
      BY <3>2, <3>3
    <3> QED BY <3>1, <3>4
  <2>3. ui.busy \subseteq ui.busy /\ flight[i].fn \in {"getWorkspace", "updateWorkspace"} /\ flight[i].fn # "updateWorkspace"
    BY <1>1
  <2> HIDE DEF x
  <2> QED BY <1>1, <1>2, <1>3, <2>1, <2>2, <2>3, ShowWorkspaceInv
<1>7. CASE flight[i].latest /\ ~Got(i)
  <2> DEFINE isNot == flight[i].reply = NotFound
             v == [Emptied EXCEPT !.loading = FALSE, !.gone = isNot, !.failed = flight[i].reply # NotFound]
             parts == {"tab", "dialog"}
  <2>1. /\ ui' = v /\ flight' = Unmount(Done(i), parts)
        /\ strays' = strays \cup Strayed(Done(i), parts)
        /\ UNCHANGED <<db, expired, token, refused, writes, sessions>>
    BY <1>7 DEF GotWorkspace, serverVars, countVars
  <2>2. Turns(flight, Done(i), {i}, {}, {}, {})
    BY <1>3, DoneTurns
  <2>3. Turns(flight, flight', {i}, parts, {}, {})
    BY <2>1, <2>2, PartsTurn
  <2>4. Within
    <3>1. Strayed(Done(i), parts) \subseteq Given
      BY <1>3, <2>2, StrayedGiven
    <3> QED BY <2>1, <3>1 DEF Within, Given, Inv, Calls, CallsTyped
  <2>5. /\ DOMAIN v = DetailFields /\ v.at = "detail" /\ v.id = ui.id /\ v.loading = FALSE
        /\ v.failed = ~v.gone /\ v.gone \in BOOLEAN /\ v.rows = ui.rows /\ v.roster = ui.roster
        /\ v.rosterFailed = ui.rosterFailed /\ v.tab = ui.tab /\ v.panel = NoList /\ v.panelFailed = FALSE
        /\ v.dialog = Left(ui.dialog) /\ v.pool = NoList /\ v.busy = {} /\ v.busyId = 0
    <3> DEFINE e == Emptied
    <3>1. e = [ui EXCEPT !.panel = NoList, !.panelFailed = FALSE, !.dialog = Left(@), !.pool = NoList,
                         !.busy = {}, !.busyId = 0]
      BY DEF Emptied
    <3>2. /\ DOMAIN e = DetailFields /\ e.at = "detail" /\ e.id = ui.id /\ e.rows = ui.rows /\ e.roster = ui.roster
          /\ e.rosterFailed = ui.rosterFailed /\ e.tab = ui.tab /\ e.panel = NoList /\ e.panelFailed = FALSE
          /\ e.dialog = Left(ui.dialog) /\ e.pool = NoList /\ e.busy = {} /\ e.busyId = 0
      BY <1>2, <1>3, <3>1 DEF DetailFields
    <3> HIDE DEF e
    <3>3. v = [e EXCEPT !.loading = FALSE, !.gone = isNot, !.failed = flight[i].reply # NotFound]
      BY DEF e
    <3>4. v.gone = isNot /\ v.failed = (flight[i].reply # NotFound)
      BY <3>2, <3>3 DEF DetailFields
    <3>5. isNot \in BOOLEAN /\ (flight[i].reply # NotFound) = ~isNot
      OBVIOUS
    <3> HIDE DEF v, isNot
    <3>6. v.failed = ~v.gone /\ v.gone \in BOOLEAN
      BY <3>4, <3>5
    <3> QED BY <3>2, <3>3, <3>6 DEF DetailFields
  <2> HIDE DEF v, isNot
  <2>6. ~IsSettled(v)
    BY <2>5 DEF IsSettled
  <2>7. DetailTyped(v)
    <3>1. v.loading \in BOOLEAN /\ v.failed \in BOOLEAN /\ v.gone \in BOOLEAN /\ v.panelFailed \in BOOLEAN
      BY <2>5
    <3>2. v.dialog = Left(ui.dialog)
      BY <2>5
    <3>3. IsDialog(v.dialog, Dialogs \cup {"deleteWorkspace"}) /\ v.dialog.kind \notin DOMAIN DialogTab
          /\ v.dialog.kind # "addTemplate"
      <4>1. IsDialog(ui.dialog, Dialogs \cup {"deleteWorkspace"})
        BY <1>3 DEF DetailTyped
      <4>2. Closed.kind = "closed" /\ IsDialog(Closed, Dialogs \cup {"deleteWorkspace"})
        BY DEF Closed, IsDialog, Dialog
      <4> QED BY <3>2, <4>1, <4>2 DEF Left, DialogTab
    <3>4. v.busy \subseteq {"roles", "addMember", "policy", "rename", "delete"}
      BY <2>5
    <3> QED BY <1>3, <2>5, <2>6, <3>1, <3>3, <3>4 DEF DetailTyped, DetailFields
  <2>8. RosterWait(v, flight')
    <3>1. Spared("listMembers", {i}, {})
      BY <1>1 DEF Spared
    <3>2. "screen" \notin parts
      OBVIOUS
    <3>3. ui.roster = NoList /\ ~ui.rosterFailed => ComingLast(flight', "listMembers")
      BY <1>2, <2>3, <3>1, <3>2, LoadsGoOn
    <3> QED BY <2>5, <3>3 DEF RosterWait
  <2>9. BusyWait(v, flight')
    BY <2>5 DEF BusyWait
  <2>10. ui' = v /\ "tab" \in parts /\ "dialog" \in parts /\ \A r \in {} : r.fn \notin TabWrites /\ r.fn # "deleteWorkspace"
    BY <2>1
  <2>11. PanelWait(v, flight')
    BY <1>2, <2>3, <2>6, <2>10, PanelGoesOn
  <2>12. PoolWait(v, flight')
    BY <1>2, <2>3, <2>6, <2>10, PoolGoesOn
  <2>13. DetailWait(v, flight')
    <3>1. ~v.loading
      BY <2>5
    <3> QED BY <2>8, <2>9, <2>11, <2>12, <3>1 DEF DetailWait
  <2>14. \A r \in {} : New(r) /\ Waiter(ui', r)
    OBVIOUS
  <2>15. ui'.at = "detail"
    BY <2>1, <2>5
  <2> HIDE DEF parts
  <2> QED BY <1>2, <2>3, <2>4, <2>7, <2>10, <2>13, <2>14, <2>15, DetailGoOn
<1> QED BY <1>4, <1>5, <1>6, <1>7

(* A workspace has been renamed, or has not. *)
LEMMA RenamedInv ==
  ASSUME Inv, NEW i \in Slots, Renamed(i)
  PROVE  Inv'
<1> DEFINE screen == IF Awaits(i, "tab") THEN [ui EXCEPT !.busy = @ \ {"rename"}] ELSE ui
<1>1. flight[i] # Idle /\ flight[i].fn = "updateWorkspace"
      /\ IF Awaits(i, "screen") /\ Got(i) THEN ShowWorkspace(screen, Result(i), Done(i)) ELSE Client(screen, Done(i))
  BY DEF Renamed, Answered
<1>2. CASE flight[i].owner = {}
  <2>1. ~Awaits(i, "tab") /\ ~Awaits(i, "screen")
    BY <1>2 DEF Awaits
  <2>2. screen = ui
    BY <2>1
  <2> HIDE DEF screen
  <2>3. Within /\ ui' = ui /\ flight' = Done(i)
    BY <1>1, <2>1, <2>2, ClientWithin
  <2> QED BY <1>1, <1>2, <2>3, UnheededInv
<1>3. CASE flight[i].owner # {}
  <2>1. /\ ui.at = "detail" /\ DetailTyped(ui) /\ DOMAIN ui = DetailFields
        /\ Turns(flight, Done(i), {i}, {}, {}, {})
        /\ Asked(flight[i]) /\ Replies(flight[i])
        /\ ui.rosterFailed \in BOOLEAN /\ ui.panelFailed \in BOOLEAN
    BY <1>1, <1>3, TabAnswered DEF TabWrites
  <2>2. /\ DOMAIN screen = DetailFields /\ screen.at = "detail" /\ screen.id = ui.id /\ screen.loading = ui.loading
        /\ screen.failed = ui.failed /\ screen.gone = ui.gone /\ screen.rows = ui.rows /\ screen.roster = ui.roster
        /\ screen.rosterFailed = ui.rosterFailed /\ screen.tab = ui.tab /\ screen.panel = ui.panel
        /\ screen.panelFailed = ui.panelFailed /\ screen.dialog = ui.dialog /\ screen.pool = ui.pool
        /\ screen.busyId = ui.busyId
        /\ screen.busy \subseteq ui.busy /\ ("delete" \in ui.busy => "delete" \in screen.busy)
        /\ "rename" \notin screen.busy \/ "tab" \notin flight[i].owner
    <3>1. CASE Awaits(i, "tab")
      <4>1. screen = [ui EXCEPT !.busy = @ \ {"rename"}]
        BY <3>1
      <4> HIDE DEF screen
      <4>2. screen.busy = ui.busy \ {"rename"}
        BY <2>1, <4>1 DEF DetailFields
      <4> QED BY <2>1, <4>1, <4>2 DEF DetailFields
    <3>2. CASE ~Awaits(i, "tab")
      <4>1. screen = ui
        BY <3>2
      <4> HIDE DEF screen
      <4> QED BY <2>1, <3>2, <4>1 DEF Awaits
    <3> HIDE DEF screen
    <3> QED BY <3>1, <3>2
  <2> HIDE DEF screen
  <2>3. CASE Awaits(i, "screen") /\ Got(i)
    <3> DEFINE x == Result(i)
    <3>1. ShowWorkspace(screen, x, Done(i))
      BY <1>1, <2>3
    <3>2. x[1] \in WorkspaceIds
      <4>1. x = <<flight[i].row, flight[i].value>> /\ flight[i].row \in WorkspaceIds
        BY <1>1, <2>1, <2>3 DEF Asked, Replies, Got, Result
      <4> HIDE DEF x
      <4> QED BY <4>1
    <3> HIDE DEF x
    <3> QED BY <1>1, <2>1, <2>2, <3>1, <3>2, ShowWorkspaceInv
  <2>4. CASE ~(Awaits(i, "screen") /\ Got(i))
    <3>1. Within /\ ui' = screen /\ flight' = Done(i)
      BY <1>1, <2>4, ClientWithin
    <3>2. Turns(flight, flight', {i}, {}, {}, {})
      BY <2>1, <3>1
    <3>3. flight[i].fn \notin PanelFns
      BY <1>1 DEF PanelFns
    <3>4. screen.rosterFailed \in BOOLEAN /\ screen.panelFailed \in BOOLEAN
      BY <2>1, <2>2
    <3> QED BY <1>1, <2>1, <2>2, <3>1, <3>2, <3>3, <3>4, DetailAnswerInv
  <2> QED BY <2>3, <2>4
<1> QED BY <1>2, <1>3

(* The answer leads to the list from wherever the user is. *)
LEMMA AwayInv ==
  ASSUME Inv, ui.at # "login", NEW i \in Slots, Mount(ListScreen, Done(i), <<ListWorkspaces(1)>>),
         UNCHANGED <<serverVars, token, refused, countVars>>
  PROVE  Inv'
<1> DEFINE r == ListWorkspaces(1)
           v == ListScreen
           f == Done(i)
<1>1. New(r) /\ r.fn = "listWorkspaces" /\ r.owner = {"screen"} /\ Flights(flight)
  BY ListWorkspacesIs DEF Inv, Calls, CallsTyped
<1>2. Waiter(v, r) /\ v.at = "list"
  BY <1>1 DEF Waiter, ListScreen
<1>3. r.latest
  BY ListWorkspacesIsLatest
<1>4. Turns(flight, f, {i}, {}, {}, {})
  BY <1>1, DoneTurns
<1>5. Mount(v, f, <<r>>)
  OBVIOUS
<1> HIDE DEF r, v, f
<1>6. <<r>> \in Seq({r}) /\ Len(<<r>>) =< 2 /\ ToSet(<<r>>) = {r}
  BY DEF ToSet
<1>7. Turns(flight, flight', {i}, Parts, {}, {r}) /\ strays' \subseteq strays \cup Given /\ ui' = v
  <2>1. \A q \in {r} : IsRequest(q)
    BY <1>1 DEF New
  <2> DEFINE ls == <<r>>
  <2>2. ls \in Seq({r}) /\ Len(ls) =< 2 /\ ToSet(ls) = {r} /\ Mount(v, f, ls)
    BY <1>5, <1>6
  <2> HIDE DEF ls
  <2>3. Turns(flight, flight', {i}, Parts, {}, ToSet(ls)) /\ strays' \subseteq strays \cup Given /\ ui' = v
    BY <1>1, <1>4, <2>1, <2>2, MountTurns
  <2> QED BY <2>2, <2>3
<1>8. Within
  BY <1>7 DEF Within, serverVars, countVars, Inv, Calls, CallsTyped, Given
<1>9. Calls'
  <2>1. \A q \in {r} : q.fn # "login" /\ q.token = token /\ q.reply = Pending /\ Asked(q)
    BY <1>1 DEF New
  <2>2. ui'.at # "login"
    BY <1>2, <1>7
  <2> QED BY <1>7, <1>8, <2>1, <2>2, CallsGoOn DEF Inv, Screen, Within
<1>10. Waiters(v, flight')
  <2>1. \A q \in {r} : Waiter(v, q)
    BY <1>2
  <2>2. Parts \subseteq Parts
    OBVIOUS
  <2> QED BY <1>7, <2>1, <2>2, WaitersGoOn DEF Inv, Screen
<1>11. ComingLast(flight', "listWorkspaces")
  BY <1>1, <1>3, <1>7, NewComes DEF New
<1>12. ScreenTyped(v) /\ Waits(v, flight')
  BY <1>11, ListMounted DEF v
<1> QED BY <1>7, <1>9, <1>10, <1>12 DEF Inv, Screen

(* A workspace has been deleted, or has not. *)
LEMMA WorkspaceDeletedInv ==
  ASSUME Inv, NEW i \in Slots, WorkspaceDeleted(i)
  PROVE  Inv'
<1>1. flight[i] # Idle /\ flight[i].fn = "deleteWorkspace" /\ (ui.at = "login" <=> token = 0)
  BY DEF WorkspaceDeleted, Answered, Inv, Calls, SessionsOk
<1>2. CASE Got(i) /\ token # 0 /\ ui.at # "list"
  <2>1. Mount(ListScreen, Done(i), <<ListWorkspaces(1)>>) /\ UNCHANGED <<serverVars, token, refused, countVars>>
    BY <1>2 DEF WorkspaceDeleted
  <2> QED BY <1>1, <1>2, <2>1, AwayInv
<1>3. CASE ~(Got(i) /\ token # 0 /\ ui.at # "list")
  <2> DEFINE v == IF Awaits(i, "tab") /\ ~Got(i) THEN [ui EXCEPT !.dialog = Closed, !.busy = @ \ {"delete"}] ELSE ui
  <2>1. Within /\ ui' = v /\ flight' = Done(i)
    <3>1. Client(v, Done(i))
      BY <1>3 DEF WorkspaceDeleted
    <3> QED BY <3>1, ClientWithin
  <2>2. CASE flight[i].owner = {}
    <3>1. v = ui
      BY <2>2 DEF Awaits
    <3> HIDE DEF v
    <3> QED BY <1>1, <2>1, <2>2, <3>1, UnheededInv
  <2>3. CASE flight[i].owner # {}
    <3>1. /\ ui.at = "detail" /\ DetailTyped(ui) /\ DOMAIN ui = DetailFields /\ Flights(flight)
          /\ "tab" \in flight[i].owner => IsSettled(ui) /\ TabWaiter(ui, flight[i])
          /\ Turns(flight, Done(i), {i}, {}, {}, {})
          /\ ui.rosterFailed \in BOOLEAN /\ ui.panelFailed \in BOOLEAN
      BY <1>1, <2>3, TabAnswered DEF TabWrites
    <3>2. ~Got(i)
      BY <1>1, <1>3, <3>1
    <3>3. CASE Awaits(i, "tab")
      <4>1. v = [ui EXCEPT !.dialog = Closed, !.busy = @ \ {"delete"}]
        BY <3>2, <3>3
      <4> HIDE DEF v
      <4>2. ui.dialog.kind = "deleteWorkspace"
        <5>1. Coming(flight, {"deleteWorkspace"}, "tab")
          BY <1>1, <3>3 DEF Coming, Awaits
        <5>2. PoolWait(ui, flight)
          BY <3>1, AtDetail DEF DetailWait
        <5> QED BY <5>1, <5>2 DEF PoolWait
      <4>3. /\ DOMAIN v = DetailFields /\ v.at = "detail" /\ v.id = ui.id /\ v.loading = ui.loading
            /\ v.failed = ui.failed /\ v.gone = ui.gone /\ v.rows = ui.rows /\ v.roster = ui.roster
            /\ v.rosterFailed = ui.rosterFailed /\ v.tab = ui.tab /\ v.panel = ui.panel
            /\ v.panelFailed = ui.panelFailed /\ v.dialog = Closed /\ v.pool = ui.pool
            /\ v.busyId = ui.busyId /\ v.busy = ui.busy \ {"delete"}
        BY <3>1, <4>1 DEF DetailFields
      <4>4. Turns(flight, flight', {i}, {"dialog"}, {}, {})
        <5>1. \A j \in Slots : flight[j] # Idle => "dialog" \notin flight[j].owner
          <6>1. \A j \in Slots : flight[j] # Idle => Waiter(ui, flight[j])
            BY <3>1, AtDetail
          <6> QED BY <3>1, <4>2, <6>1 DEF Waiter, DialogWaiter
        <5>2. \A j \in Slots : flight[j] # Idle =>
                flight[j].owner \ {"dialog"} = flight[j].owner /\ flight[j].owner \ {} = flight[j].owner
          BY <5>1
        <5>3. Turns(flight, flight', {i}, {}, {}, {})
          BY <2>1, <3>1
        <5>4. \A j \in Slots : \A s : flight[j] # Idle /\ Stays(flight[j], s, {}, {}) => Stays(flight[j], s, {"dialog"}, {})
          BY <5>2 DEF Stays
        <5>5. \A j \in Slots : flight'[j] # Idle =>
                /\ flight[j] # Idle /\ j \notin {i} /\ Stays(flight[j], flight'[j], {"dialog"}, {})
                /\ flight[j].owner = {} \/ flight[j].owner \ {"dialog"} # {} \/ Writing(flight[j])
          <6>1. \A j \in Slots : flight'[j] # Idle =>
                  /\ flight[j] # Idle /\ j \notin {i} /\ Stays(flight[j], flight'[j], {}, {})
                  /\ flight[j].owner = {} \/ flight[j].owner \ {} # {} \/ Writing(flight[j])
            BY <5>3 DEF Turns
          <6> QED BY <5>2, <5>4, <6>1
        <5>6. \A j \in Slots \ {i} : flight[j] # Idle /\ (flight[j].owner \ {"dialog"} # {} \/ Writing(flight[j])) =>
                flight'[j] # Idle /\ Stays(flight[j], flight'[j], {"dialog"}, {})
          <6>1. \A j \in Slots \ {i} : flight[j] # Idle /\ (flight[j].owner \ {} # {} \/ Writing(flight[j])) =>
                  flight'[j] # Idle /\ Stays(flight[j], flight'[j], {}, {})
            BY <5>3 DEF Turns
          <6> QED BY <5>2, <5>4, <6>1
        <5>7. Flights(flight')
          BY <5>3 DEF Turns
        <5> QED BY <5>5, <5>6, <5>7 DEF Turns
      <4>5. v.busy = ui.busy \ {IF ui.dialog.kind = "deleteWorkspace" THEN "delete" ELSE ui.dialog.kind}
        BY <4>2, <4>3
      <4>6. \A r \in {} : New(r) /\ r.fn = "listMembers" /\ r.owner = {"screen", "tab"}
        OBVIOUS
      <4>7. v.rosterFailed \in BOOLEAN
        BY <3>1, <4>3
      <4>8. v.roster = NoList /\ ~v.rosterFailed =>
               \/ ComingLast(flight', "listMembers")
               \/ /\ ui.roster = NoList /\ ~ui.rosterFailed /\ {} = {}
                  /\ flight[i].fn = "listMembers" => ~flight[i].latest
        BY <1>1, <4>3
      <4>9. flight[i] # Idle /\ flight[i].fn \in {"listMembers", "addMember", "deleteWorkspace"}
            /\ ui.dialog.kind \in {"roles", "addMember", "deleteWorkspace"}
            /\ flight[i].fn = "deleteWorkspace" /\ "tab" \in flight[i].owner
        BY <1>1, <3>3, <4>2 DEF Awaits
      <4>10. ui' = v /\ Within /\ DOMAIN v = DOMAIN ui /\ v.pool \in {ui.pool, NoList}
        BY <2>1, <3>1, <4>3
      <4>11. {} \subseteq {"listMembers"}
        OBVIOUS
      <4> QED BY <3>1, <4>3, <4>4, <4>5, <4>6, <4>7, <4>8, <4>9, <4>10, <4>11, DialogClosesInv
    <3>4. CASE ~Awaits(i, "tab")
      <4>1. v = ui
        BY <3>4
      <4> HIDE DEF v
      <4>2. Turns(flight, flight', {i}, {}, {}, {}) /\ ui' = ui
        BY <2>1, <3>1, <4>1
      <4>3. flight[i].fn \notin PanelFns \cup {"listMemberCandidates", "listTemplateLibrary", "saveGuardrailPolicy",
                                             "setProviderEnabled", "attachTemplate", "updateWorkspace"}
        BY <1>1 DEF PanelFns
      <4>4. flight[i].fn \notin {"listMembers", "replaceMemberRoles", "addMember", "getWorkspace"}
        BY <1>1
      <4>5. "tab" \notin flight[i].owner
        BY <3>4 DEF Awaits
      <4> QED BY <1>1, <2>1, <3>1, <4>2, <4>3, <4>4, <4>5, DetailSameInv
    <3> QED BY <3>3, <3>4
  <2> QED BY <2>2, <2>3
<1> QED BY <1>2, <1>3

(* So does every step of the screen of a workspace. *)
LEMMA DetailStepInv ==
  ASSUME Inv, DetailStep
  PROVE  Inv'
<1>1. DOMAIN flight = Slots
  BY DEF Inv, Calls, CallsTyped, Flights
<1>2. CASE \E w \in AtFirst["workspaces"] : OpenWorkspace(w) \/ Jump(w)
  BY <1>2, OpenWorkspaceInv, JumpInv DEF WorkspaceIds
<1>3. CASE RetryWorkspace \/ RetryMembers \/ RetryPanel \/ CloseDetailDialog
  BY <1>3, RetryWorkspaceInv, RetryMembersInv, RetryPanelInv, CloseDetailDialogInv
<1>4. CASE \E tab \in Tabs : PickTab(tab)
  BY <1>4, PickTabInv
<1>5. CASE \E kind \in Dialogs \cup {"deleteWorkspace"}, row \in Id["members"] \cup {0} : OpenDetailDialog(kind, row)
  BY <1>5, OpenDetailDialogInv
<1>6. CASE SaveRoles \/ SavePolicy \/ Rename \/ DeleteWorkspace
  BY <1>6, SaveRolesInv, SavePolicyInv, RenameInv, DeleteWorkspaceInv
<1>7. CASE \E row \in Id["members"] : AddMember(row)
  BY <1>7, AddMemberInv
<1>8. CASE \E row \in Id["templates"] : DetachTemplate(row)
  BY <1>8, DetachTemplateInv
<1>9. CASE Settled /\ ui.pool # NoList /\ \E x \in ToSet(ui.pool) : AttachTemplate(x)
  BY <1>9, AttachTemplateInv
<1>10. CASE Settled /\ ui.panel # NoList /\ \E x \in ToSet(ui.panel) : Toggle(x)
  BY <1>10, ToggleInv
<1>11. ASSUME NEW i \in Slots,
              \/ GotWorkspace(i) \/ MembersLoaded(i) \/ PanelLoaded(i) \/ PoolLoaded(i) \/ MemberSaved(i)
              \/ TemplateMoved(i) \/ Toggled(i) \/ PolicySaved(i) \/ Renamed(i) \/ WorkspaceDeleted(i)
       PROVE  Inv'
  BY <1>11, GotWorkspaceInv, MembersLoadedInv, PanelLoadedInv, PoolLoadedInv, MemberSavedInv, TemplateMovedInv,
     ToggledInv, PolicySavedInv, RenamedInv, WorkspaceDeletedInv
<1> QED BY <1>1, <1>2, <1>3, <1>4, <1>5, <1>6, <1>7, <1>8, <1>9, <1>10, <1>11 DEF DetailStep

-----------------------------------------------------------------------------
(* The console.                                                            *)

(* The invariant holds when the page has been loaded. *)
LEMMA InvInit == Init => Inv
<1> SUFFICES ASSUME Init PROVE Inv
  OBVIOUS
<1>1. /\ db = [t \in Table |-> [r \in RowOf(t) |-> IF r \in AtFirst[t[1]] THEN 1 ELSE 0]]
      /\ expired = 0 /\ token = 1 /\ flight = [i \in Slots |-> Idle] /\ strays = {} /\ ui = HomeScreen
      /\ refused = {} /\ sessions = 0
  BY DEF Init, CallsInit, Slots
<1>2. \A i \in Slots : flight[i] = Idle /\ flight[i].fn # "login"
  BY <1>1, IdleIsNone DEF Verb
<1>3. DbTyped
  BY <1>1 DEF DbTyped, Switches
<1>4. Flights(flight)
  BY <1>1 DEF Flights
<1>5. writes \in Nat
  <2>1. PICK s \in Spent : writes = s[1]
    BY DEF Init, CallsInit
  <2>2. s \in Nat \X Nat \X Nat
    BY ConsoleAssumption
  <2> QED BY <2>1, <2>2
<1>6. CallsTyped
  BY <1>1, <1>2, <1>3, <1>4, <1>5 DEF CallsTyped
<1>7. SessionsOk
  <2>1. ~LoggingIn
    BY <1>2 DEF LoggingIn
  <2>2. Given = {1}
    BY <1>1, <1>2, <1>4, InSlots DEF Given
  <2>3. ui.at # "login" /\ token # 0 /\ token \notin refused
    BY <1>1 DEF HomeScreen
  <2>4. \A t \in Given : t <= sessions + 1 /\ (LoggingIn => t <= sessions)
    BY <1>1, <2>1, <2>2
  <2> QED BY <1>2, <2>3, <2>4 DEF SessionsOk
<1>8. Screen(ui, flight)
  BY <1>1, <1>2, QuietScreens
<1> QED BY <1>6, <1>7, <1>8 DEF Inv, Calls

(* Every step keeps it. *)
LEMMA InvNext == Inv /\ [Next]_vars => Inv'
<1> SUFFICES ASSUME Inv, [Next]_vars PROVE Inv'
  OBVIOUS
<1>1. DOMAIN flight = Slots
  BY DEF Inv, Calls, CallsTyped, Flights
<1>2. CASE \E i \in DOMAIN flight : Serve(i) \/ Unauthorised(i) \/ LoggedIn(i)
  BY <1>1, <1>2, ServeInv, UnauthorisedInv, LoggedInInv
<1>3. CASE \E s \in strays : StrayUnauthorised(s)
  BY <1>3, StrayUnauthorisedInv
<1>4. CASE Expire \/ SubmitLogin
  BY <1>4, ExpireInv, SubmitLoginInv
<1>5. CASE ProvidersStep
  BY <1>5, ProvidersStepInv
<1>6. CASE LibraryStep
  BY <1>6, LibraryStepInv
<1>7. CASE ListStep
  BY <1>7, ListStepInv
<1>8. CASE DetailStep
  BY <1>8, DetailStepInv
<1>9. CASE UNCHANGED vars
  <2>1. UNCHANGED <<db, expired, token, flight, strays, ui, refused, writes, moves, faults, sessions>>
    BY <1>9 DEF vars, serverVars, countVars
  <2>2. Calls'
    <3>1. CallsTyped'
      BY <2>1 DEF Inv, Calls, CallsTyped, DbTyped
    <3>2. SessionsOk'
      BY <2>1 DEF Inv, Calls, SessionsOk, LoggingIn, Given, InFlight
    <3> QED BY <3>1, <3>2 DEF Calls
  <2>3. Screen(ui', flight')
    BY <2>1 DEF Inv
  <2> QED BY <2>2, <2>3 DEF Inv
<1> QED BY <1>2, <1>3, <1>4, <1>5, <1>6, <1>7, <1>8, <1>9 DEF Next, Step

(* With no request in flight nothing is waited for. *)
LEMMA InvNothingHangs == Inv => NothingHangs
<1> SUFFICES ASSUME Inv PROVE NothingHangs
  OBVIOUS
<1>1. token # 0 => token \notin refused
  BY DEF Inv, Calls, SessionsOk
<1>2. ASSUME Quiet PROVE ~Waiting
  <2>1. \A i \in Slots : flight[i] = Idle
    BY <1>2, InSlots DEF Quiet, Inv, Calls, CallsTyped
  <2>2. /\ \A fns, part : ~Coming(flight, fns, part)
        /\ \A fn : ~ComingLast(flight, fn)
        /\ \A fns, parts : ~ComingFor(flight, fns, parts)
        /\ ~RolesComing(flight) /\ ~AddComing(flight) /\ ~AttachComing(flight)
    BY <2>1 DEF Coming, ComingLast, ComingFor, RolesComing, AddComing, AttachComing
  <2>3. ScreenTyped(ui) /\ ProvidersWait(ui, flight) /\ LibraryWait(ui, flight) /\ ListWait(ui, flight) /\ DetailWait(ui, flight)
    BY DEF Inv, Screen, Waits
  <2>4. CASE ui.at = "providers"
    <3>1. ~ui.loading /\ ui.busy = {} /\ ~ui.checking
      BY <2>2, <2>3, <2>4 DEF ProvidersWait
    <3> QED BY <2>4, <3>1 DEF Waiting
  <2>5. CASE ui.at = "library"
    <3>1. ~ui.loading /\ "save" \notin ui.busy /\ "delete" \notin ui.busy
      BY <2>2, <2>3, <2>5 DEF LibraryWait
    <3>2. ui.busy = {}
      BY <2>3, <2>5, <3>1 DEF ScreenTyped, LibraryTyped
    <3> QED BY <2>5, <3>1, <3>2 DEF Waiting
  <2>6. CASE ui.at = "list"
    <3>1. ~ui.loading /\ ui.busy = {}
      BY <2>2, <2>3, <2>6 DEF ListWait
    <3> QED BY <2>6, <3>1 DEF Waiting
  <2>7. CASE ui.at = "detail"
    <3>1. DetailTyped(ui) /\ RosterWait(ui, flight) /\ BusyWait(ui, flight) /\ PanelWait(ui, flight) /\ PoolWait(ui, flight)
          /\ ~ui.loading
      BY <2>2, <2>3, <2>7 DEF ScreenTyped, DetailWait
    <3>2. /\ "roles" \notin ui.busy /\ "addMember" \notin ui.busy /\ "policy" \notin ui.busy /\ "rename" \notin ui.busy
          /\ "delete" \notin ui.busy /\ ui.busyId = 0
      BY <2>2, <3>1 DEF BusyWait
    <3>3. ui.busy = {}
      BY <3>1, <3>2 DEF DetailTyped
    <3>4. ~(ui.roster = NoList /\ ~ui.rosterFailed)
      BY <2>2, <3>1 DEF RosterWait
    <3>5. Settled => ~(ui.tab \in DOMAIN PanelTable /\ ui.panel = NoList /\ ~ui.panelFailed)
      BY <2>2, <3>1 DEF PanelWait, Settled, IsSettled
    <3>6. Settled => ~(ui.dialog.kind \in {"addMember", "addTemplate"} /\ ui.pool = NoList)
      BY <2>2, <3>1 DEF PoolWait, Settled, IsSettled
    <3>7. ui.dialog.kind \notin {"addMember", "addTemplate"} => PoolLoads(ui.dialog, Shown) = <<>>
      BY DEF PoolLoads
    <3> QED BY <2>7, <3>1, <3>2, <3>3, <3>4, <3>5, <3>6, <3>7 DEF Waiting
  <2>8. CASE ui.at = "login"
    <3>1. ui.busy = {}
      BY <2>1, <2>8, IdleIsNone DEF Inv, Calls, SessionsOk, LoggingIn, Verb
    <3> QED BY <2>8, <3>1 DEF Waiting
  <2>9. CASE ui.at = "home"
    BY <2>9 DEF Waiting
  <2> QED BY <2>3, <2>4, <2>5, <2>6, <2>7, <2>8, <2>9 DEF ScreenTyped
<1> QED BY <1>1, <1>2 DEF NothingHangs

(* In every behaviour what is waited for is on its way: the invariant of   *)
(* the console.                                                            *)
THEOREM ConsoleInvariant == Spec => []Inv
<1>1. Init => Inv
  BY InvInit
<1>2. Inv /\ [Next]_vars => Inv'
  BY InvNext
<1> QED BY <1>1, <1>2, PTL DEF Spec

(* Every request, every answer and the screen that is mounted are what     *)
(* their readers expect.                                                   *)
THEOREM ConsoleTyped == Spec => [](CallsTyped /\ ScreenTyped(ui))
<1>1. Inv => CallsTyped /\ ScreenTyped(ui)
  BY DEF Inv, Calls, Screen
<1> QED BY <1>1, ConsoleInvariant, PTL

(* No screen waits for an answer that nobody will give, and no session     *)
(* stays in use of which a 401 has been read (http-client.ts:73).          *)
THEOREM ConsoleNeverHangs == Spec => []NothingHangs
<1>1. Inv => NothingHangs
  BY InvNothingHangs
<1> QED BY <1>1, ConsoleInvariant, PTL

-----------------------------------------------------------------------------
(* What becomes of the requests, once more.                                *)

(* What is in flight was sent or has been before. *)
LEMMA SentOrStayed ==
  ASSUME NEW f, NEW g, NEW gone, NEW parts, NEW fns, NEW new, Turns(f, g, gone, parts, fns, new),
         NEW i \in Slots, g[i].fn # "none", g[i] \notin new
  PROVE  /\ f[i] # Idle /\ i \notin gone
         /\ f[i].fn = g[i].fn /\ f[i].table = g[i].table /\ f[i].row = g[i].row /\ f[i].value = g[i].value
         /\ f[i].memo = g[i].memo /\ f[i].reply = g[i].reply /\ g[i].owner = f[i].owner \ parts
         /\ g[i].latest <=> f[i].latest /\ f[i].fn \notin fns
BY DEF Turns, Stays, Same, Idle

(* A write stays until its answer is read. *)
LEMMA WritesStay ==
  ASSUME NEW f, NEW g, NEW gone, NEW parts, NEW fns, NEW new, Turns(f, g, gone, parts, fns, new),
         NEW i \in Slots, f[i] # Idle, Writing(f[i]), i \notin gone
  PROVE  /\ g[i] # Idle
         /\ f[i].fn = g[i].fn /\ f[i].table = g[i].table /\ f[i].row = g[i].row /\ f[i].value = g[i].value
         /\ f[i].memo = g[i].memo /\ f[i].reply = g[i].reply
BY DEF Turns, Stays, Same

(* Writes that took effect and of which the screen has not heard. *)
Took(f, fns) == \E i \in Slots : f[i].fn \in fns /\ f[i].reply[1] = "ok"
WriteFns == {fn \in DOMAIN Verb : Verb[fn] \notin {"load", "check", "login"}}

(* What the server took stays taken until its answer is read. *)
LEMMA TookOn ==
  ASSUME NEW f, NEW g, NEW gone, NEW parts, NEW fns, NEW new, Turns(f, g, gone, parts, fns, new),
         NEW S, S \subseteq WriteFns, Took(f, S), \A i \in gone : f[i].fn \in S => f[i].reply[1] # "ok"
  PROVE  Took(g, S)
<1>1. PICK i \in Slots : f[i].fn \in S /\ f[i].reply[1] = "ok"
  BY DEF Took
<1>2. f[i] # Idle /\ Writing(f[i]) /\ i \notin gone
  BY <1>1, IdleIsNone DEF WriteFns, Writing
<1>3. g[i].fn = f[i].fn /\ g[i].reply = f[i].reply
  BY <1>2, WritesStay
<1> QED BY <1>1, <1>3 DEF Took

(* What a write is. *)
LEMMA Writers ==
  /\ DOMAIN BusyOf \subseteq WriteFns /\ LibraryWrites \subseteq WriteFns /\ TabWrites \subseteq WriteFns
  /\ {"createWorkspace", "updateWorkspace", "deleteWorkspace", "replaceMemberRoles", "addMember"} \subseteq WriteFns
  /\ "none" \notin WriteFns
  /\ \A r : r.fn \in WriteFns <=> r.fn \in DOMAIN Verb /\ Writing(r)
BY DEF WriteFns, BusyOf, LibraryWrites, TabWrites, Verb, Writing

-----------------------------------------------------------------------------
(* Listings and their patches.                                             *)

(* A listing of some rows of a table, none twice. *)
Near(rows, content) == rows \in Seq(Row) /\ Apart(rows) /\ RowsOf(rows) \subseteq DOMAIN content

(* What is near and agrees about every row fits. *)
LEMMA FitsIsNear ==
  ASSUME NEW rows, NEW content
  PROVE  Fits(rows, content) <=> Near(rows, content) /\ \A x \in DOMAIN content : Agrees(rows, content, x)
BY DEF Fits, Near

(* The ids shown are those of the pairs shown. *)
LEMMA RowsOfSet ==
  ASSUME NEW rows
  PROVE  RowsOf(rows) = {y[1] : y \in ToSet(rows)}
BY DEF RowsOf, ToSet

(* What agrees of a listing depends on the rows of that id alone. *)
LEMMA AgreesAlike ==
  ASSUME NEW a, NEW b, NEW c, NEW d, NEW x, c[x] = d[x], \A k \in Nat : <<x, k>> \in ToSet(a) <=> <<x, k>> \in ToSet(b)
  PROVE  Agrees(a, c, x) <=> Agrees(b, d, x)
BY DEF Agrees

(* A row is taken out. *)
LEMMA DropNear ==
  ASSUME NEW content, NEW rows, Near(rows, content), NEW row
  PROVE  /\ Near(Drop(rows, row), content)
         /\ ToSet(Drop(rows, row)) = {y \in ToSet(rows) : y[1] # row}
<1> DEFINE these == {y \in ToSet(rows) : y[1] # row}
           Key == [y \in Row |-> y[1]]
           d == Drop(rows, row)
<1>1. d = Keep(rows, these)
  BY DEF Drop
<1>2. rows \in Seq(Row) /\ Apart(rows) /\ RowsOf(rows) \subseteq DOMAIN content
  BY DEF Near
<1>3. \A i, j \in DOMAIN rows : Key[rows[i]] = Key[rows[j]] => i = j
  <2>1. \A i \in DOMAIN rows : rows[i] \in Row
    BY <1>2
  <2> QED BY <1>2, <2>1 DEF Apart
<1> HIDE DEF these, Key, d
<1>4. /\ d \in Seq(Row) /\ ToSet(d) = ToSet(rows) \cap these
      /\ \A i, j \in DOMAIN d : Key[d[i]] = Key[d[j]] => i = j
  BY <1>1, <1>2, <1>3, KeepKeeps
<1>5. Apart(d)
  <2>1. \A i \in DOMAIN d : d[i] \in Row
    BY <1>4
  <2> QED BY <1>4, <2>1 DEF Apart, Key
<1>6. ToSet(d) = these
  BY <1>4 DEF these
<1>7. RowsOf(d) \subseteq DOMAIN content
  BY <1>2, <1>6, RowsOfSet DEF these
<1> QED BY <1>4, <1>5, <1>6, <1>7 DEF Near, these, d

(* The rows are those of before but one, which has the value given. *)
Replaced(new, rows, row, value) ==
  \A y : y \in ToSet(new) <=> \/ y \in ToSet(rows) /\ y[1] # row
                              \/ row \in RowsOf(rows) /\ y = <<row, value>>

(* A row is replaced. *)
LEMMA ReplaceNear ==
  ASSUME NEW content, NEW rows, Near(rows, content), NEW row \in Nat \ {0}, NEW value \in Nat,
         NEW new, new = Switch(rows, row, value)
  PROVE  Near(new, content) /\ RowsOf(new) = RowsOf(rows) /\ Replaced(new, rows, row, value)
<1>1. rows \in Seq(Row) /\ Apart(rows) /\ RowsOf(rows) \subseteq DOMAIN content
  BY DEF Near
<1>2. new = [n \in DOMAIN rows |-> IF rows[n][1] = row THEN <<row, value>> ELSE rows[n]]
  BY DEF Switch
<1>3. <<row, value>> \in Row /\ \A n \in DOMAIN rows : rows[n] \in Row
  BY <1>1 DEF Row
<1>4. PICK m \in Nat : DOMAIN rows = 1 .. m
  BY <1>1
<1>5. DOMAIN new = DOMAIN rows /\ \A n \in DOMAIN rows : new[n] \in Row /\ new[n][1] = rows[n][1]
  BY <1>2, <1>3
<1>6. new \in Seq(Row)
  <2>1. new = [n \in 1 .. m |-> IF rows[n][1] = row THEN <<row, value>> ELSE rows[n]]
    BY <1>2, <1>4
  <2>2. new \in [1 .. m -> Row]
    BY <1>3, <1>4, <2>1
  <2> QED BY <1>4, <2>2
<1>7. Apart(new) /\ RowsOf(new) = RowsOf(rows)
  BY <1>1, <1>5 DEF Apart, RowsOf
<1>8. ASSUME NEW y PROVE y \in ToSet(new) <=> \/ y \in ToSet(rows) /\ y[1] # row
                                              \/ row \in RowsOf(rows) /\ y = <<row, value>>
  BY <1>2, <1>5 DEF ToSet, RowsOf
<1>9. Replaced(new, rows, row, value)
  BY <1>8 DEF Replaced
<1> QED BY <1>1, <1>6, <1>7, <1>9 DEF Near

(* A row is added, at either end. *)
LEMMA AddNear ==
  ASSUME NEW content, NEW rows, Near(rows, content), NEW row \in DOMAIN content, row \in Nat \ {0}, row \notin RowsOf(rows),
         NEW value \in Nat, NEW new, new = Append(rows, <<row, value>>) \/ new = <<<<row, value>>>> \o rows
  PROVE  /\ Near(new, content) /\ RowsOf(new) = RowsOf(rows) \cup {row}
         /\ ToSet(new) = ToSet(rows) \cup {<<row, value>>}
<1> DEFINE y == <<row, value>>
<1>1. rows \in Seq(Row) /\ Apart(rows) /\ RowsOf(rows) \subseteq DOMAIN content
  BY DEF Near
<1>2. y \in Row /\ y[1] = row
  BY DEF Row
<1>3. PICK m \in Nat : Len(rows) = m /\ DOMAIN rows = 1 .. m
  BY <1>1
<1> HIDE DEF y
<1>4. new = Append(rows, y) \/ new = <<y>> \o rows
  BY DEF y
<1>5. new \in Seq(Row) /\ Len(new) = m + 1
  <2>1. CASE new = Append(rows, y)
    BY <1>1, <1>2, <1>3, <2>1, AppendProperties
  <2>2. CASE new = <<y>> \o rows
    <3>1. <<y>> \in Seq(Row) /\ Len(<<y>>) = 1
      BY <1>2
    <3> QED BY <1>1, <1>3, <2>2, <3>1, ConcatProperties
  <2> QED BY <1>4, <2>1, <2>2
<1>6. DOMAIN new = 1 .. m + 1
  BY <1>5
<1>7. \E p \in 1 .. m + 1, s \in {0, 1} :
        /\ new[p] = y
        /\ \A n \in 1 .. m + 1 : n # p => n - s \in 1 .. m /\ new[n] = rows[n - s]
        /\ \A n \in 1 .. m : n + s \in 1 .. m + 1 /\ n + s # p /\ new[n + s] = rows[n]
  <2>1. CASE new = Append(rows, y)
    <3>1. new[m + 1] = y /\ \A n \in 1 .. m : new[n] = rows[n]
      BY <1>1, <1>2, <1>3, <2>1, AppendProperties
    <3>2. /\ \A n \in 1 .. m + 1 : n # m + 1 => n - 0 \in 1 .. m /\ new[n] = rows[n - 0]
          /\ \A n \in 1 .. m : n + 0 \in 1 .. m + 1 /\ n + 0 # m + 1 /\ new[n + 0] = rows[n]
      BY <3>1
    <3>3. m + 1 \in 1 .. m + 1
      OBVIOUS
    <3> WITNESS m + 1 \in 1 .. m + 1, 0 \in {0, 1}
    <3> QED BY <3>1, <3>2
  <2>2. CASE new = <<y>> \o rows
    <3>1. <<y>> \in Seq(Row) /\ Len(<<y>>) = 1 /\ <<y>>[1] = y
      BY <1>2
    <3>2. \A n \in 1 .. m + 1 : new[n] = IF n <= 1 THEN <<y>>[n] ELSE rows[n - 1]
      BY <1>1, <1>3, <2>2, <3>1, ConcatProperties
    <3>3. new[1] = y
      BY <3>1, <3>2
    <3>4. /\ \A n \in 1 .. m + 1 : n # 1 => n - 1 \in 1 .. m /\ new[n] = rows[n - 1]
          /\ \A n \in 1 .. m : n + 1 \in 1 .. m + 1 /\ n + 1 # 1 /\ new[n + 1] = rows[n]
      BY <3>2
    <3>5. 1 \in 1 .. m + 1
      OBVIOUS
    <3> WITNESS 1 \in 1 .. m + 1, 1 \in {0, 1}
    <3> QED BY <3>3, <3>4
  <2> QED BY <1>4, <2>1, <2>2
<1>8. PICK p \in 1 .. m + 1, s \in {0, 1} :
        /\ new[p] = y
        /\ \A n \in 1 .. m + 1 : n # p => n - s \in 1 .. m /\ new[n] = rows[n - s]
        /\ \A n \in 1 .. m : n + s \in 1 .. m + 1 /\ n + s # p /\ new[n + s] = rows[n]
  BY <1>7
<1>9. ToSet(new) = ToSet(rows) \cup {y}
  <2>1. ASSUME NEW z \in ToSet(new) PROVE z \in ToSet(rows) \cup {y}
    <3>1. PICK n \in 1 .. m + 1 : z = new[n]
      BY <1>6 DEF ToSet
    <3> QED BY <1>3, <1>8, <3>1 DEF ToSet
  <2>2. ASSUME NEW z \in ToSet(rows) PROVE z \in ToSet(new)
    <3>1. PICK n \in 1 .. m : z = rows[n]
      BY <1>3 DEF ToSet
    <3>2. n + s \in DOMAIN new /\ new[n + s] = z
      BY <1>6, <1>8, <3>1
    <3> QED BY <3>2 DEF ToSet
  <2>3. y \in ToSet(new)
    BY <1>6, <1>8 DEF ToSet
  <2> QED BY <2>1, <2>2, <2>3
<1>10. Apart(new)
  <2> SUFFICES ASSUME NEW i \in 1 .. m + 1, NEW j \in 1 .. m + 1, new[i][1] = new[j][1] PROVE i = j
    BY <1>6 DEF Apart
  <2>1. \A n \in 1 .. m : rows[n][1] # row
    BY <1>3 DEF RowsOf
  <2>2. ASSUME NEW n \in 1 .. m + 1, n # p PROVE new[n][1] # row
    <3>1. n - s \in 1 .. m /\ new[n] = rows[n - s]
      BY <1>8, <2>2
    <3> QED BY <2>1, <3>1
  <2>3. CASE i = p \/ j = p
    BY <1>2, <1>8, <2>2, <2>3
  <2>4. CASE i # p /\ j # p
    <3>1. i - s \in 1 .. m /\ j - s \in 1 .. m /\ rows[i - s][1] = rows[j - s][1]
      BY <1>8, <2>4
    <3>2. i - s = j - s
      BY <1>1, <1>3, <3>1 DEF Apart
    <3> QED BY <3>2
  <2> QED BY <2>3, <2>4
<1>11. RowsOf(new) = RowsOf(rows) \cup {row}
  BY <1>2, <1>9, RowsOfSet
<1> QED BY <1>1, <1>5, <1>9, <1>10, <1>11 DEF Near, y

-----------------------------------------------------------------------------
(* The server's tables, and the ids that templates still get.              *)

(* What a write changes. *)
LEMMA WriteIs ==
  ASSUME NEW r, Writing(r), db' = After(r), DbTyped
  PROVE  /\ DOMAIN db' = Table
         /\ \A t \in Table : t # r.table => db'[t] = db[t]
         /\ r.table \in Table =>
              /\ DOMAIN db'[r.table] = DOMAIN db[r.table]
              /\ \A x \in DOMAIN db[r.table] : x # Target(r) => db'[r.table][x] = db[r.table][x]
              /\ Target(r) \in DOMAIN db[r.table] =>
                   db'[r.table][Target(r)] = IF Verb[r.fn] = "delete" THEN 0 ELSE r.value
<1> DEFINE t == r.table
           x == Target(r)
           v == IF Verb[r.fn] = "delete" THEN 0 ELSE r.value
<1>1. db' = [db EXCEPT ![t][x] = v] /\ DOMAIN db = Table
  BY DEF After, DbTyped
<1> HIDE DEF t, x, v
<1>2. db' = [db EXCEPT ![t] = [db[t] EXCEPT ![x] = v]]
  BY <1>1
<1>3. /\ DOMAIN db' = Table /\ \A q \in Table : q # t => db'[q] = db[q]
      /\ t \in Table => db'[t] = [db[t] EXCEPT ![x] = v]
  BY <1>1, <1>2
<1>4. t \in Table => /\ DOMAIN db'[t] = DOMAIN db[t]
                     /\ \A q \in DOMAIN db[t] : q # x => db'[t][q] = db[t][q]
                     /\ x \in DOMAIN db[t] => db'[t][x] = v
  <2>1. SUFFICES ASSUME t \in Table PROVE db'[t] = [db[t] EXCEPT ![x] = v]
                         => /\ DOMAIN db'[t] = DOMAIN db[t]
                            /\ \A q \in DOMAIN db[t] : q # x => db'[t][q] = db[t][q]
                            /\ x \in DOMAIN db[t] => db'[t][x] = v
    BY <1>3
  <2>2. PICK n : db[t] \in [n -> Nat]
    BY <2>1 DEF DbTyped
  <2> QED BY <2>2
<1> QED BY <1>3, <1>4 DEF t, x, v

(* What is read leaves the tables as they are. *)
LEMMA ReadIs ==
  ASSUME NEW r, ~Writing(r)
  PROVE  After(r) = db
BY DEF After

(* The ids of templates that are still to be made. *)
Ahead == writes + 3 .. MaxWrites + 2

(* The ids that are still to be given: no row has one, and no write is of one. *)
Numbered ==
  /\ \A x \in Ahead : db[Library][x] = 0
  /\ \A i \in Slots : flight[i].fn = "createTemplate" => Target(flight[i]) \notin Ahead

(* Of a request: only of a workspace it is said that there is none, and a  *)
(* template that is being made has one of the ids already given.           *)
SoundRequest(r, w) ==
  /\ DOMAIN r = Fields
  /\ r.reply = NotFound => r.fn = "getWorkspace"
  /\ r.fn = "createTemplate" => r.value =< w + 1
Sound(f, w) == DOMAIN f = Slots /\ \A i \in Slots : f[i] = Idle \/ SoundRequest(f[i], w)
Base == (\A x \in Ahead : db[Library][x] = 0) /\ Sound(flight, writes)

(* A step that writes nothing on the server.                               *)
Tame == db' = db /\ writes' \in {writes, writes + 1} /\ Sound(flight', writes')

(* More ids are given later.                                               *)
LEMMA KeptOn ==
  ASSUME NEW w \in Nat, NEW f, Sound(f, w), \A i \in Slots : f[i] # Idle => f[i].value \in Nat
  PROVE  Sound(f, w + 1)
<1>1. ASSUME NEW i \in Slots, f[i] # Idle PROVE SoundRequest(f[i], w + 1)
  <2>1. SoundRequest(f[i], w) /\ f[i].value \in Nat
    BY <1>1 DEF Sound
  <2>2. \A n \in Nat : n =< w + 1 => n =< (w + 1) + 1
    OBVIOUS
  <2> QED BY <2>1, <2>2 DEF SoundRequest
<1> QED BY <1>1 DEF Sound

(* What the client does to the requests in flight.                         *)
LEMMA SoundSend ==
  ASSUME NEW f, NEW w, Sound(f, w), NEW r, SoundRequest(r, w)
  PROVE  Sound(Send(f, r), w)
<1> DEFINE k == CHOOSE i \in FreeSlots(f) : \A j \in FreeSlots(f) : i <= j
<1>1. Send(f, r) = [f EXCEPT ![k] = r]
  BY DEF Send
<1> HIDE DEF k
<1>2. DOMAIN Send(f, r) = Slots /\ \A i \in Slots : Send(f, r)[i] \in {f[i], r}
  BY <1>1 DEF Sound
<1> QED BY <1>2 DEF Sound

(* Components go. *)
LEMMA SoundUnmount ==
  ASSUME NEW f, NEW w, Sound(f, w), NEW parts
  PROVE  Sound(Unmount(f, parts), w)
<1> DEFINE U == Unmount(f, parts)
<1>1. DOMAIN U = Slots
  BY DEF Unmount, Sound
<1>2. ASSUME NEW i \in Slots, U[i] # Idle PROVE SoundRequest(U[i], w)
  <2>1. U[i] = [f[i] EXCEPT !.owner = Without(f[i], parts)] /\ f[i] # Idle
    BY <1>2 DEF Unmount, Sound
  <2> HIDE DEF U
  <2>2. SoundRequest(f[i], w)
    BY <2>1 DEF Sound
  <2>3. DOMAIN U[i] = Fields /\ U[i].reply = f[i].reply /\ U[i].fn = f[i].fn /\ U[i].value = f[i].value
    BY <2>1, <2>2 DEF SoundRequest, Fields
  <2> QED BY <2>2, <2>3 DEF SoundRequest
<1> HIDE DEF U
<1>3. Sound(U, w)
  BY <1>1, <1>2 DEF Sound
<1> QED BY <1>3 DEF U

(* Earlier loads are not the latest. *)
LEMMA SoundSupersede ==
  ASSUME NEW f, NEW w, Sound(f, w), NEW fns
  PROVE  Sound(Supersede(f, fns), w)
<1> DEFINE U == Supersede(f, fns)
<1>1. DOMAIN U = Slots
  BY DEF Supersede, Sound
<1>2. ASSUME NEW i \in Slots, U[i] # Idle PROVE SoundRequest(U[i], w)
  <2>1. U[i] = [f[i] EXCEPT !.latest = FALSE] \/ U[i] = f[i]
    BY <1>2 DEF Supersede, Sound
  <2>2. f[i] # Idle
    BY <1>2 DEF Supersede, Sound
  <2> HIDE DEF U
  <2>3. SoundRequest(f[i], w)
    BY <2>2 DEF Sound
  <2>4. DOMAIN U[i] = Fields /\ U[i].reply = f[i].reply /\ U[i].fn = f[i].fn /\ U[i].value = f[i].value
    BY <2>1, <2>3 DEF SoundRequest, Fields
  <2> QED BY <2>3, <2>4 DEF SoundRequest
<1> HIDE DEF U
<1>3. Sound(U, w)
  BY <1>1, <1>2 DEF Sound
<1> QED BY <1>3 DEF U

(* A request is answered. *)
LEMMA SoundDone ==
  ASSUME NEW w, Sound(flight, w), NEW i
  PROVE  Sound(Done(i), w)
<1>1. DOMAIN Done(i) = Slots /\ \A j \in Slots : Done(i)[j] \in {flight[j], Idle}
  BY DEF Done, Sound
<1> QED BY <1>1 DEF Sound

(* Loads that are sent together.                                           *)
Loading(rs, w) ==
  \/ rs = <<>>
  \/ \E r : SoundRequest(r, w) /\ rs = <<r>>
  \/ \E q, r : SoundRequest(q, w) /\ SoundRequest(r, w) /\ rs = <<q, r>>

(* Up to two loads are sent together. *)
LEMMA SoundSendAll ==
  ASSUME NEW f, NEW w, Sound(f, w), NEW rs, Loading(rs, w)
  PROVE  Sound(SendAll(f, rs), w)
<1>1. CASE rs = <<>>
  BY <1>1, SentNone
<1>2. ASSUME NEW r, SoundRequest(r, w), rs = <<r>> PROVE Sound(SendAll(f, rs), w)
  BY <1>2, SentOne, SoundSend
<1>3. ASSUME NEW q, NEW r, SoundRequest(q, w), SoundRequest(r, w), rs = <<q, r>> PROVE Sound(SendAll(f, rs), w)
  <2>1. Sound(Send(f, q), w)
    BY <1>3, SoundSend
  <2>2. Sound(Send(Send(f, q), r), w)
    BY <1>3, <2>1, SoundSend
  <2> QED BY <1>3, <2>2, SentTwo
<1> QED BY <1>1, <1>2, <1>3 DEF Loading

(* Requests that the screens make.                                         *)
LEMMA CallKept ==
  ASSUME NEW fn, NEW table, NEW row, NEW value, NEW owner, NEW memo, NEW w, fn # "createTemplate" \/ value =< w + 1
  PROVE  SoundRequest(Call(fn, table, row, value, owner, memo), w)
<1>1. Pending # NotFound
  BY DEF Pending, NotFound
<1> QED BY <1>1 DEF SoundRequest, Call, Fields

(* The loads of the screens. *)
LEMMA LoadsKept ==
  ASSUME NEW w
  PROVE  /\ SoundRequest(ListProviders, w) /\ SoundRequest(ListTemplates, w)
         /\ \A p : SoundRequest(ListWorkspaces(p), w)
         /\ \A x : SoundRequest(GetWorkspace(x), w)
         /\ \A x, memo : SoundRequest(ListMembers(x, memo), w)
         /\ \A fn, table, owner : fn # "createTemplate" => SoundRequest(Load(fn, table, owner), w)
BY CallKept DEF ListProviders, ListTemplates, ListWorkspaces, GetWorkspace, ListMembers, Load

(* The loads of a tab and of the dialog over it. *)
LEMMA TabLoadsKept ==
  ASSUME NEW w, NEW tab, NEW dialog, NEW x
  PROVE  /\ Loading(PanelLoads(tab, x), w)
         /\ Loading(PoolLoads(dialog, x), w)
         /\ Loading(PanelLoads(tab, x) \o PoolLoads(dialog, x), w)
<1> DEFINE ps == PanelLoads(tab, x)
           qs == PoolLoads(dialog, x)
<1>1. ps = <<>> \/ \E r : SoundRequest(r, w) /\ ps = <<r>>
  <2>1. CASE tab = "templates"
    <3>1. ps = <<Load("listAttachedTemplates", T("templates", x), {"tab"})>>
      BY <2>1 DEF PanelLoads
    <3> QED BY <3>1, LoadsKept
  <2>2. CASE tab = "providers"
    <3>1. ps = <<Load("listWorkspaceProviders", T("switches", x), {"tab"})>>
      BY <2>2 DEF PanelLoads
    <3> QED BY <3>1, LoadsKept
  <2>3. CASE tab = "guardrails"
    <3>1. ps = <<Load("getGuardrailPolicy", T("policy", x), {"tab"})>>
      BY <2>3 DEF PanelLoads
    <3> QED BY <3>1, LoadsKept
  <2>4. CASE tab \notin {"templates", "providers", "guardrails"}
    BY <2>4 DEF PanelLoads
  <2> QED BY <2>1, <2>2, <2>3, <2>4
<1>2. qs = <<>> \/ \E r : SoundRequest(r, w) /\ qs = <<r>>
  <2>1. CASE dialog.kind = "addMember"
    <3>1. qs = <<Load("listMemberCandidates", T("members", x), {"dialog"})>>
      BY <2>1 DEF PoolLoads
    <3> QED BY <3>1, LoadsKept
  <2>2. CASE dialog.kind = "addTemplate"
    <3>1. qs = <<Load("listTemplateLibrary", Library, {"dialog"})>>
      BY <2>2 DEF PoolLoads
    <3> QED BY <3>1, LoadsKept
  <2>3. CASE dialog.kind \notin {"addMember", "addTemplate"}
    BY <2>3 DEF PoolLoads
  <2> QED BY <2>1, <2>2, <2>3
<1> HIDE DEF ps, qs
<1>3. Loading(ps, w) /\ Loading(qs, w)
  BY <1>1, <1>2 DEF Loading
<1>4. Loading(ps \o qs, w)
  <2>1. CASE ps = <<>> /\ qs = <<>>
    <3>1. ps \o qs = <<>>
      BY <2>1
    <3> QED BY <3>1 DEF Loading
  <2>2. ASSUME NEW r, SoundRequest(r, w), (ps = <<>> /\ qs = <<r>>) \/ (ps = <<r>> /\ qs = <<>>) PROVE Loading(ps \o qs, w)
    <3>1. <<>> \o <<r>> = <<r>> /\ <<r>> \o <<>> = <<r>>
      OBVIOUS
    <3>2. ps \o qs = <<r>>
      BY <2>2, <3>1
    <3> QED BY <2>2, <3>2 DEF Loading
  <2>3. ASSUME NEW q, NEW r, SoundRequest(q, w), SoundRequest(r, w), ps = <<q>>, qs = <<r>> PROVE Loading(ps \o qs, w)
    <3>1. <<q>> \in Seq({q, r}) /\ <<r>> \in Seq({q, r}) /\ Len(<<q>>) = 1 /\ Len(<<r>>) = 1 /\ <<q, r>> \in Seq({q, r})
      OBVIOUS
    <3> DEFINE s == <<q>> \o <<r>>
    <3>3. s \in Seq({q, r}) /\ Len(s) = 2 /\ s[1] = q /\ s[2] = r
      BY <3>1, ConcatProperties
    <3>4. \A t : t \in Seq({q, r}) /\ Len(t) = 2 /\ t[1] = q /\ t[2] = r => t = <<q, r>>
      OBVIOUS
    <3>2. ps \o qs = <<q, r>>
      BY <2>3, <3>3, <3>4, Zenon
    <3> QED BY <2>3, <3>2 DEF Loading
  <2> QED BY <1>1, <1>2, <2>1, <2>2, <2>3
<1> QED BY <1>3, <1>4 DEF ps, qs

(* Clicks.                                                                 *)
LEMMA ClickTame ==
  ASSUME Inv, Base, NEW v, NEW r, SoundRequest(r, writes + 1), Click(v, r)
  PROVE  Tame
<1>1. writes \in Nat /\ Flights(flight)
  BY DEF Inv, Calls, CallsTyped
<1>2. \A i \in Slots : flight[i] # Idle => flight[i].value \in Nat
  BY <1>1 DEF Flights, IsRequest
<1>3. Sound(flight, writes + 1)
  BY <1>1, <1>2, KeptOn DEF Base
<1>4. Sound(Send(flight, r), writes + 1)
  BY <1>3, SoundSend
<1> QED BY <1>4 DEF Click, Tame, serverVars

(* Steps of one screen that wait for nothing, and new screens.             *)
LEMMA ClientTame ==
  ASSUME NEW v, NEW f, Client(v, f), Sound(f, writes)
  PROVE  Tame
BY DEF Client, Tame, serverVars, countVars

(* A link to another screen. *)
LEMMA NavigateTame ==
  ASSUME Base, NEW v, NEW loads, Loading(loads, writes), Navigate(v, loads)
  PROVE  Tame
<1>1. flight' = SendAll(Unmount(flight, Parts), loads) /\ db' = db /\ writes' = writes
  BY DEF Navigate, Mount, serverVars
<1>2. Sound(Unmount(flight, Parts), writes)
  BY SoundUnmount DEF Base
<1>3. Sound(flight', writes)
  BY <1>1, <1>2, SoundSendAll
<1> QED BY <1>1, <1>3 DEF Tame

(* Requests that are sent after others are superseded, or have gone. *)
LEMMA SoundMount ==
  ASSUME NEW f, NEW w, Sound(f, w), NEW parts, NEW loads, Loading(loads, w)
  PROVE  Sound(SendAll(Unmount(f, parts), loads), w)
<1>1. Sound(Unmount(f, parts), w)
  BY SoundUnmount
<1> QED BY <1>1, SoundSendAll

(* A load takes the place of earlier ones. *)
LEMMA SoundReload ==
  ASSUME NEW f, NEW w, Sound(f, w), NEW fns, NEW r, SoundRequest(r, w)
  PROVE  Sound(Send(Supersede(f, fns), r), w)
<1>1. Sound(Supersede(f, fns), w)
  BY SoundSupersede
<1> QED BY <1>1, SoundSend

(* Sessions begin and end. *)
LEMMA SessionTame ==
  ASSUME Base, \/ \E i \in Slots : Unauthorised(i) \/ LoggedIn(i)
               \/ \E s \in strays : StrayUnauthorised(s)
               \/ SubmitLogin \/ Expire
  PROVE  Tame
<1>1. Sound(flight, writes) /\ \A i : Sound(Done(i), writes)
  BY SoundDone DEF Base
<1>2. \A f : Sound(f, writes) => Sound(SendAll(Unmount(f, Parts), <<>>), writes)
  BY SoundMount DEF Loading
<1>3. ASSUME NEW i \in Slots, Unauthorised(i) PROVE Tame
  <2>1. db' = db /\ writes' = writes /\ flight' \in {Done(i), SendAll(Unmount(Done(i), Parts), <<>>)}
    BY <1>3 DEF Unauthorised, SignOut, Mount, serverVars, countVars
  <2> QED BY <2>1, <1>1, <1>2 DEF Tame
<1>4. ASSUME NEW i \in Slots, LoggedIn(i) PROVE Tame
  <2>1. db' = db /\ writes' = writes /\ flight' \in {Done(i), SendAll(Unmount(Done(i), Parts), <<>>)}
    BY <1>4 DEF LoggedIn, Mount, serverVars, countVars
  <2> QED BY <2>1, <1>1, <1>2 DEF Tame
<1>5. ASSUME NEW s \in strays, StrayUnauthorised(s) PROVE Tame
  <2>1. db' = db /\ writes' = writes /\ flight' \in {flight, Unmount(flight, Parts)}
    BY <1>5 DEF StrayUnauthorised, serverVars, countVars
  <2>2. Sound(Unmount(flight, Parts), writes)
    BY <1>1, SoundUnmount
  <2> QED BY <2>1, <2>2, <1>1 DEF Tame
<1>6. CASE SubmitLogin
  <2> DEFINE r == Load("login", T("users", 0), {"screen"})
  <2>1. SoundRequest(r, writes)
    BY LoadsKept
  <2>2. db' = db /\ writes' = writes /\ flight' = Send(flight, r)
    BY <1>6 DEF SubmitLogin, serverVars
  <2> HIDE DEF r
  <2>3. Sound(Send(flight, r), writes)
    BY <2>1, <1>1, SoundSend
  <2> QED BY <2>2, <2>3 DEF Tame
<1>7. CASE Expire
  BY <1>7, <1>1 DEF Expire, Tame
<1> QED BY <1>3, <1>4, <1>5, <1>6, <1>7

(* The providers. *)
LEMMA ProvidersTame ==
  ASSUME Inv, Base, ProvidersStep
  PROVE  Tame
<1>1. Sound(flight, writes) /\ \A i : Sound(Done(i), writes)
  BY SoundDone DEF Base
<1>2. SoundRequest(ListProviders, writes)
  BY LoadsKept
<1>3. CASE OpenProviders
  <2>1. Loading(<<ListProviders>>, writes)
    BY <1>2 DEF Loading
  <2> QED BY <1>3, <2>1, NavigateTame DEF OpenProviders
<1>4. CASE RetryProviders
  <2>1. Sound(Send(flight, ListProviders), writes)
    BY <1>1, <1>2, SoundSend
  <2> QED BY <1>4, <2>1, ClientTame DEF RetryProviders
<1>5. ASSUME NEW kind \in {"create", "edit", "delete"}, NEW row \in RowOf(Providers) \cup {0}, OpenProviderDialog(kind, row)
      PROVE  Tame
  <2>1. Sound(Unmount(flight, {"dialog"}), writes)
    BY <1>1, SoundUnmount
  <2> QED BY <1>5, <2>1, ClientTame DEF OpenProviderDialog
<1>6. CASE CloseProviderDialog
  <2>1. Sound(Unmount(flight, {"dialog"}), writes)
    BY <1>1, SoundUnmount
  <2> QED BY <1>6, <2>1, ClientTame DEF CloseProviderDialog
<1>7. CASE CreateProvider
  <2> DEFINE r == Call("createProvider", Providers, 0, Fresh, {"screen"}, 0)
  <2>1. SoundRequest(r, writes + 1)
    BY CallKept
  <2>2. PICK v : Click(v, r)
    BY <1>7 DEF CreateProvider
  <2> QED BY <2>1, <2>2, ClickTame
<1>8. ASSUME NEW newKey \in BOOLEAN, EditProvider(newKey) PROVE Tame
  <2> DEFINE r == Call("updateProvider", Providers, ui.dialog.row, Fresh, {"screen"}, newKey)
  <2>1. SoundRequest(r, writes + 1)
    BY CallKept
  <2>2. PICK v : Click(v, r)
    BY <1>8 DEF EditProvider
  <2> QED BY <2>1, <2>2, ClickTame
<1>9. CASE DeleteProvider
  <2> DEFINE r == Call("deleteProvider", Providers, ui.dialog.row, 0, {"screen"}, 0)
  <2>1. SoundRequest(r, writes + 1)
    BY CallKept
  <2>2. PICK v : Click(v, r)
    BY <1>9 DEF DeleteProvider
  <2> QED BY <2>1, <2>2, ClickTame
<1>10. CASE RunCheck
  <2> DEFINE r == Load("checkProviderConnection", Providers, {"dialog"})
  <2>1. SoundRequest(r, writes)
    BY LoadsKept
  <2>2. PICK v : Client(v, Send(flight, r))
    BY <1>10 DEF RunCheck
  <2> HIDE DEF r
  <2>3. Sound(Send(flight, r), writes)
    BY <2>1, <1>1, SoundSend
  <2> QED BY <2>2, <2>3, ClientTame
<1>11. CASE PickKind
  BY <1>11, <1>1, ClientTame DEF PickKind
<1>12. ASSUME NEW i \in Slots, Refetched(i) \/ Checked(i) PROVE Tame
  <2>1. \E v : Client(v, Done(i))
    BY <1>12 DEF Refetched, Checked
  <2> QED BY <2>1, <1>1, ClientTame
<1>13. ASSUME NEW i \in Slots, ProviderSaved(i) PROVE Tame
  <2> DEFINE f == Unmount(Done(i), {"dialog"})
  <2>1. Sound(f, writes)
    BY <1>1, SoundUnmount
  <2>2. Sound(Send(f, ListProviders), writes)
    BY <2>1, <1>2, SoundSend
  <2>3. \/ Unheeded(i) \/ (\E v : Client(v, Done(i))) \/ \E v : Client(v, Send(f, ListProviders))
    BY <1>13 DEF ProviderSaved
  <2>4. CASE Unheeded(i)
    BY <2>4, <1>1 DEF Unheeded, Tame, serverVars, countVars
  <2> QED BY <2>2, <2>3, <2>4, <1>1, ClientTame
<1>14. ASSUME NEW i \in Slots, RotateKey(i) PROVE Tame
  <2> DEFINE r == Call("rotateProviderKey", Providers, flight[i].row, flight[i].value + MaxWrites, flight[i].owner, 0)
             f == [flight EXCEPT ![i] = r]
  <2>1. SoundRequest(r, writes)
    BY CallKept
  <2>2. Client(ui, f)
    BY <1>14 DEF RotateKey
  <2> HIDE DEF r
  <2>3. Sound(f, writes)
    BY <2>1, <1>1 DEF Sound
  <2> QED BY <2>2, <2>3, ClientTame
<1>15. DOMAIN flight = Slots
  BY <1>1 DEF Sound
<1> QED BY <1>3, <1>4, <1>5, <1>6, <1>7, <1>8, <1>9, <1>10, <1>11, <1>12, <1>13, <1>14, <1>15 DEF ProvidersStep

(* The templates: the one made gets the next id. *)
LEMMA LibraryTame ==
  ASSUME Inv, Base, LibraryStep
  PROVE  Tame
<1>1. Sound(flight, writes) /\ \A i : Sound(Done(i), writes)
  BY SoundDone DEF Base
<1>2. SoundRequest(ListTemplates, writes)
  BY LoadsKept
<1>3. CASE OpenLibrary
  <2>1. Loading(<<ListTemplates>>, writes)
    BY <1>2 DEF Loading
  <2> QED BY <1>3, <2>1, NavigateTame DEF OpenLibrary
<1>4. CASE RetryLibrary
  <2> DEFINE f == Send(Supersede(flight, {"listTemplateLibrary"}), ListTemplates)
  <2>1. Sound(f, writes)
    BY <1>1, <1>2, SoundReload
  <2> QED BY <1>4, <2>1, ClientTame DEF RetryLibrary
<1>5. ASSUME NEW kind \in {"create", "edit", "delete"}, NEW row \in RowOf(Library) \cup {0}, OpenTemplateDialog(kind, row)
      PROVE  Tame
  BY <1>5, <1>1, ClientTame DEF OpenTemplateDialog
<1>6. CASE CloseTemplateDialog
  <2>1. Sound(Unmount(flight, {"dialog"}), writes)
    BY <1>1, SoundUnmount
  <2> QED BY <1>6, <2>1, ClientTame DEF CloseTemplateDialog
<1>7. CASE SaveTemplate
  <2> DEFINE fn == IF ui.dialog.kind = "create" THEN "createTemplate" ELSE "updateTemplate"
             r == Call(fn, Library, ui.dialog.row, Fresh, {"screen", "dialog"}, ui.dialog.kind)
  <2>1. writes \in Nat
    BY DEF Inv, Calls, CallsTyped
  <2>2. Fresh =< (writes + 1) + 1
    BY <2>1 DEF Fresh
  <2>3. SoundRequest(r, writes + 1)
    BY <2>2, CallKept
  <2>4. PICK v : Click(v, r)
    BY <1>7 DEF SaveTemplate
  <2> HIDE DEF r
  <2> QED BY <2>3, <2>4, ClickTame
<1>8. CASE DeleteTemplate
  <2> DEFINE r == Call("deleteTemplate", Library, ui.dialog.row, 0, {"screen"}, 0)
  <2>1. SoundRequest(r, writes + 1)
    BY CallKept
  <2>2. PICK v : Click(v, r)
    BY <1>8 DEF DeleteTemplate
  <2> QED BY <2>1, <2>2, ClickTame
<1>9. ASSUME NEW i \in Slots, LibraryLoaded(i) PROVE Tame
  <2>1. \E v : Client(v, Done(i))
    BY <1>9 DEF LibraryLoaded
  <2> QED BY <2>1, <1>1, ClientTame
<1>10. ASSUME NEW i \in Slots, TemplateSaved(i) PROVE Tame
  <2>1. (\E v : Client(v, Done(i))) \/ \E v : Client(v, Unmount(Done(i), {"dialog"}))
    BY <1>10 DEF TemplateSaved
  <2>2. Sound(Unmount(Done(i), {"dialog"}), writes)
    BY <1>1, SoundUnmount
  <2> QED BY <2>1, <2>2, <1>1, ClientTame
<1>11. DOMAIN flight = Slots
  BY <1>1 DEF Sound
<1> QED BY <1>3, <1>4, <1>5, <1>6, <1>7, <1>8, <1>9, <1>10, <1>11 DEF LibraryStep

(* The list of workspaces. *)
LEMMA ListTame ==
  ASSUME Inv, Base, ListStep
  PROVE  Tame
<1>1. Sound(flight, writes) /\ \A i : Sound(Done(i), writes)
  BY SoundDone DEF Base
<1>2. \A p : SoundRequest(ListWorkspaces(p), writes)
  BY LoadsKept
<1>3. ASSUME NEW v, NEW f, Sound(f, writes), NEW p, LoadPage(v, f, p) \/ SnapBack(v, f, p) PROVE Tame
  <2> DEFINE g == LoadLatest(f, p)
  <2>1. Sound(g, writes)
    BY <1>2, <1>3, SoundReload DEF LoadLatest
  <2>2. CASE LoadPage(v, f, p)
    BY <2>1, <2>2, ClientTame DEF LoadPage
  <2>3. CASE SnapBack(v, f, p)
    BY <2>1, <2>3 DEF SnapBack, Tame, serverVars, countVars
  <2> QED BY <1>3, <2>2, <2>3
<1>4. CASE OpenList
  <2>1. Loading(<<ListWorkspaces(1)>>, writes)
    BY <1>2 DEF Loading
  <2> QED BY <1>4, <2>1, NavigateTame DEF OpenList
<1>5. CASE RetryList
  BY <1>5, <1>1, <1>3 DEF RetryList
<1>6. CASE ToggleCreate
  BY <1>6, <1>1, ClientTame DEF ToggleCreate
<1>7. CASE CreateWorkspace
  <2> DEFINE r == Call("createWorkspace", Workspaces, 0, Fresh, {"screen"}, [page |-> ui.page, total |-> ui.total])
  <2>1. SoundRequest(r, writes + 1)
    BY CallKept
  <2>2. PICK v : Click(v, r)
    BY <1>7 DEF CreateWorkspace
  <2> QED BY <2>1, <2>2, ClickTame
<1>8. ASSUME NEW p, PickPage(p) PROVE Tame
  BY <1>8, <1>1, <1>3 DEF PickPage
<1>9. ASSUME NEW i \in Slots, PageLoaded(i) PROVE Tame
  <2>1. (\E v : Client(v, Done(i))) \/ \E v, p : LoadPage(v, Done(i), p)
    BY <1>9 DEF PageLoaded
  <2> QED BY <2>1, <1>1, <1>3, ClientTame
<1>10. ASSUME NEW i \in Slots, WorkspaceCreated(i) PROVE Tame
  <2>1. (\E v : Client(v, Done(i))) \/ \E v, p : LoadPage(v, Done(i), p) \/ SnapBack(v, Done(i), p)
    BY <1>10 DEF WorkspaceCreated
  <2> QED BY <2>1, <1>1, <1>3, ClientTame
<1>11. DOMAIN flight = Slots
  BY <1>1 DEF Sound
<1> QED BY <1>4, <1>5, <1>6, <1>7, <1>8, <1>9, <1>10, <1>11 DEF ListStep

(* A workspace is shown, and its tab loads. *)
LEMMA ShowTame ==
  ASSUME Base, NEW screen, NEW x, NEW f, Sound(f, writes), ShowWorkspace(screen, x, f)
  PROVE  Tame
<1>1. CASE Settled /\ Shown = x[1]
  BY <1>1, ClientTame DEF ShowWorkspace
<1>2. CASE ~(Settled /\ Shown = x[1])
  <2> DEFINE old == {i \in DOMAIN f : f[i].fn \in PanelFns \cup {"listMemberCandidates"}}
             g == [i \in DOMAIN f |-> IF i \in old THEN Idle ELSE f[i]]
             loads == PanelLoads(ui.tab, x[1]) \o PoolLoads(ui.dialog, x[1])
  <2>1. db' = db /\ writes' = writes /\ flight' = SendAll(g, loads)
    BY <1>2 DEF ShowWorkspace, serverVars, countVars
  <2>2. Sound(g, writes)
    BY DEF Sound
  <2>3. Loading(loads, writes)
    BY TabLoadsKept
  <2> HIDE DEF g, loads
  <2>4. Sound(flight', writes)
    BY <2>1, <2>2, <2>3, SoundSendAll
  <2> QED BY <2>1, <2>4 DEF Tame
<1> QED BY <1>1, <1>2

(* The loads of one workspace, and what its tabs ask for. *)
LEMMA DetailLoadsTame ==
  ASSUME Inv, Base,
         \/ \E w \in WorkspaceIds : OpenWorkspace(w) \/ Jump(w)
         \/ RetryWorkspace \/ RetryMembers \/ RetryPanel \/ CloseDetailDialog
         \/ \E tab \in Tabs : PickTab(tab)
         \/ \E kind, row : OpenDetailDialog(kind, row)
  PROVE  Tame
<1>1. Sound(flight, writes)
  BY DEF Base
<1>2. \A x : SoundRequest(GetWorkspace(x), writes) /\ \A memo : SoundRequest(ListMembers(x, memo), writes)
  BY LoadsKept
<1>3. ASSUME NEW w, OpenWorkspace(w) PROVE Tame
  <2> DEFINE loads == <<GetWorkspace(w), ListMembers(w, "load")>>
  <2>1. Loading(loads, writes)
    BY <1>2 DEF Loading
  <2>2. Navigate(DetailScreen(w), loads)
    BY <1>3 DEF OpenWorkspace
  <2> HIDE DEF loads
  <2> QED BY <2>1, <2>2, NavigateTame
<1>4. ASSUME NEW w, Jump(w) PROVE Tame
  <2> DEFINE f == Unmount(flight, {"tab", "dialog"})
             g == LoadWorkspace(f, w)
  <2>1. Sound(f, writes)
    BY <1>1, SoundUnmount
  <2>2. db' = db /\ writes' = writes /\ flight' = LoadMembers(g, w, "load")
    BY <1>4 DEF Jump, serverVars
  <2> HIDE DEF f
  <2>3. Sound(g, writes)
    BY <2>1, <1>2, SoundReload DEF LoadWorkspace
  <2> HIDE DEF g
  <2>4. Sound(flight', writes)
    BY <2>2, <2>3, <1>2, SoundReload DEF LoadMembers
  <2> QED BY <2>2, <2>4 DEF Tame
<1>5. CASE RetryWorkspace
  <2> DEFINE g == LoadWorkspace(flight, ui.id)
  <2>1. Sound(g, writes)
    BY <1>1, <1>2, SoundReload DEF LoadWorkspace
  <2>2. \E v : Client(v, g)
    BY <1>5 DEF RetryWorkspace
  <2> HIDE DEF g
  <2> QED BY <2>1, <2>2, ClientTame
<1>6. CASE RetryMembers
  <2> DEFINE g == LoadMembers(flight, ui.id, "load")
  <2>1. Sound(g, writes)
    BY <1>1, <1>2, SoundReload DEF LoadMembers
  <2>2. \E v : Client(v, g)
    BY <1>6 DEF RetryMembers
  <2> HIDE DEF g
  <2> QED BY <2>1, <2>2, ClientTame
<1>7. CASE RetryPanel
  <2> DEFINE loads == PanelLoads(ui.tab, Shown)
             g == SendAll(flight, loads)
  <2>1. Loading(loads, writes)
    BY TabLoadsKept
  <2>2. \E v : Client(v, g)
    BY <1>7 DEF RetryPanel
  <2> HIDE DEF loads
  <2>3. Sound(g, writes)
    BY <2>1, <1>1, SoundSendAll
  <2> HIDE DEF g
  <2> QED BY <2>2, <2>3, ClientTame
<1>8. CASE CloseDetailDialog
  <2>1. db' = db /\ writes' = writes /\ flight' = Unmount(flight, {"dialog"})
    BY <1>8 DEF CloseDetailDialog, serverVars, countVars
  <2>2. Sound(Unmount(flight, {"dialog"}), writes)
    BY <1>1, SoundUnmount
  <2> QED BY <2>1, <2>2 DEF Tame
<1>9. ASSUME NEW tab \in Tabs, PickTab(tab) PROVE Tame
  <2> DEFINE loads == PanelLoads(tab, Shown)
  <2>1. db' = db /\ writes' = writes /\ flight' = SendAll(Unmount(flight, {"tab"}), loads)
    BY <1>9 DEF PickTab, serverVars, countVars
  <2>2. Loading(loads, writes)
    BY TabLoadsKept
  <2> HIDE DEF loads
  <2>3. Sound(flight', writes)
    BY <2>1, <2>2, <1>1, SoundMount
  <2> QED BY <2>1, <2>3 DEF Tame
<1>10. ASSUME NEW kind, NEW row, OpenDetailDialog(kind, row) PROVE Tame
  <2> DEFINE loads == PoolLoads(Dialog(kind, row), Shown)
             g == SendAll(flight, loads)
  <2>1. Loading(loads, writes)
    BY TabLoadsKept
  <2>2. \E v : Client(v, g)
    BY <1>10 DEF OpenDetailDialog
  <2> HIDE DEF loads
  <2>3. Sound(g, writes)
    BY <2>1, <1>1, SoundSendAll
  <2> HIDE DEF g
  <2> QED BY <2>2, <2>3, ClientTame
<1> QED BY <1>3, <1>4, <1>5, <1>6, <1>7, <1>8, <1>9, <1>10

(* Its clicks. *)
LEMMA DetailClicksTame ==
  ASSUME Inv, Base,
         \/ SaveRoles \/ SavePolicy \/ Rename \/ DeleteWorkspace
         \/ \E row : AddMember(row) \/ DetachTemplate(row)
         \/ \E x : AttachTemplate(x) \/ Toggle(x)
  PROVE  Tame
<1>1. ASSUME NEW fn, fn # "createTemplate", NEW v, NEW table, NEW row, NEW value, NEW owner, NEW memo,
             Click(v, Call(fn, table, row, value, owner, memo))
      PROVE  Tame
  <2>1. SoundRequest(Call(fn, table, row, value, owner, memo), writes + 1)
    BY <1>1, CallKept
  <2> QED BY <1>1, <2>1, ClickTame
<1>2. CASE SaveRoles
  BY <1>2, <1>1 DEF SaveRoles
<1>3. CASE SavePolicy
  BY <1>3, <1>1 DEF SavePolicy
<1>4. CASE Rename
  BY <1>4, <1>1 DEF Rename
<1>5. CASE DeleteWorkspace
  BY <1>5, <1>1 DEF DeleteWorkspace
<1>6. ASSUME NEW row, AddMember(row) PROVE Tame
  BY <1>6, <1>1 DEF AddMember
<1>7. ASSUME NEW row, DetachTemplate(row) PROVE Tame
  BY <1>7, <1>1 DEF DetachTemplate
<1>8. ASSUME NEW x, AttachTemplate(x) PROVE Tame
  BY <1>8, <1>1 DEF AttachTemplate
<1>9. ASSUME NEW x, Toggle(x) PROVE Tame
  BY <1>9, <1>1 DEF Toggle
<1> QED BY <1>2, <1>3, <1>4, <1>5, <1>6, <1>7, <1>8, <1>9

(* And its answers. *)
LEMMA DetailAnswersTame ==
  ASSUME Inv, Base, NEW i \in Slots,
         \/ GotWorkspace(i) \/ MembersLoaded(i) \/ PanelLoaded(i) \/ PoolLoaded(i) \/ MemberSaved(i)
         \/ TemplateMoved(i) \/ Toggled(i) \/ PolicySaved(i) \/ Renamed(i) \/ WorkspaceDeleted(i)
  PROVE  Tame
<1>1. Sound(Done(i), writes) /\ \A parts : Sound(Unmount(Done(i), parts), writes)
  BY SoundDone, SoundUnmount DEF Base
<1>2. CASE GotWorkspace(i)
  <2>1. \/ \E v : Client(v, Done(i))
        \/ ShowWorkspace(ui, Result(i)[1], Done(i))
        \/ db' = db /\ writes' = writes /\ flight' = Unmount(Done(i), {"tab", "dialog"})
    BY <1>2 DEF GotWorkspace, serverVars, countVars
  <2> QED BY <2>1, <1>1, ClientTame, ShowTame DEF Tame
<1>3. CASE MembersLoaded(i)
  <2>1. \E v, parts : Client(v, Unmount(Done(i), parts))
    BY <1>3 DEF MembersLoaded
  <2> QED BY <2>1, <1>1, ClientTame
<1>4. CASE PanelLoaded(i) \/ PoolLoaded(i) \/ TemplateMoved(i) \/ Toggled(i) \/ PolicySaved(i)
  <2>1. \E v : Client(v, Done(i))
    BY <1>4 DEF PanelLoaded, PoolLoaded, TemplateMoved, Toggled, PolicySaved
  <2> QED BY <2>1, <1>1, ClientTame
<1>5. CASE MemberSaved(i)
  <2>1. \/ Unheeded(i) \/ (\E v : Client(v, Done(i)))
        \/ \E v, parts, x, memo : Client(v, LoadMembers(Unmount(Done(i), parts), x, memo))
    BY <1>5 DEF MemberSaved
  <2>2. \A parts, x, memo : Sound(LoadMembers(Unmount(Done(i), parts), x, memo), writes)
    BY <1>1, LoadsKept, SoundReload DEF LoadMembers
  <2>3. CASE Unheeded(i)
    BY <2>3, <1>1 DEF Unheeded, Tame, serverVars, countVars
  <2> QED BY <2>1, <2>2, <2>3, <1>1, ClientTame
<1>6. CASE Renamed(i)
  <2>1. \/ \E v : Client(v, Done(i))
        \/ \E v, x : ShowWorkspace(v, x, Done(i))
    BY <1>6 DEF Renamed
  <2> QED BY <2>1, <1>1, ClientTame, ShowTame
<1>7. CASE WorkspaceDeleted(i)
  <2> DEFINE loads == <<ListWorkspaces(1)>>
  <2>1. \/ \E v : Client(v, Done(i))
        \/ db' = db /\ writes' = writes /\ flight' = SendAll(Unmount(Done(i), Parts), loads)
    BY <1>7 DEF WorkspaceDeleted, Mount, serverVars, countVars
  <2>2. Loading(loads, writes)
    BY LoadsKept DEF Loading
  <2> HIDE DEF loads
  <2>3. Sound(SendAll(Unmount(Done(i), Parts), loads), writes)
    BY <2>2, <1>1, SoundSendAll
  <2> QED BY <2>1, <2>3, <1>1, ClientTame DEF Tame
<1> QED BY <1>2, <1>3, <1>4, <1>5, <1>6, <1>7

(* The screen of one workspace. *)
LEMMA DetailTame ==
  ASSUME Inv, Base, DetailStep
  PROVE  Tame
<1>1. DOMAIN flight = Slots
  BY DEF Base, Sound
<1>2. \/ \E w \in WorkspaceIds : OpenWorkspace(w) \/ Jump(w)
      \/ RetryWorkspace \/ RetryMembers \/ RetryPanel \/ CloseDetailDialog
      \/ \E tab \in Tabs : PickTab(tab)
      \/ \E kind, row : OpenDetailDialog(kind, row)
      \/ SaveRoles \/ SavePolicy \/ Rename \/ DeleteWorkspace
      \/ \E row : AddMember(row) \/ DetachTemplate(row)
      \/ \E x : AttachTemplate(x) \/ Toggle(x)
      \/ \E i \in Slots :
           \/ GotWorkspace(i) \/ MembersLoaded(i) \/ PanelLoaded(i) \/ PoolLoaded(i) \/ MemberSaved(i)
           \/ TemplateMoved(i) \/ Toggled(i) \/ PolicySaved(i) \/ Renamed(i) \/ WorkspaceDeleted(i)
  BY <1>1 DEF DetailStep, WorkspaceIds
<1> QED BY <1>2, DetailLoadsTame, DetailClicksTame, DetailAnswersTame

(* The ids still to come are ids of the library. *)
LEMMA AheadIs ==
  ASSUME Inv
  PROVE  writes \in Nat /\ MaxWrites \in Nat /\ Ahead \subseteq Id["library"] \ AtFirst["library"] /\ Ahead \subseteq Nat
<1>1. writes \in Nat /\ MaxWrites \in Nat
  BY ConsoleAssumption DEF Inv, Calls, CallsTyped
<1>2. Ahead \subseteq 3 .. MaxWrites + 2
  BY <1>1 DEF Ahead
<1>3. 3 .. MaxWrites + 2 \subseteq Id["library"] \ AtFirst["library"]
  BY ConsoleAssumption
<1> QED BY <1>1, <1>2, <1>3

(* The server gives no id again. *)
LEMMA ServeBase ==
  ASSUME Inv, Base, NEW i \in Slots, Serve(i)
  PROVE  Base'
<1> DEFINE r == flight[i]
<1>1. r # Idle /\ IsRequest(r) /\ Asked(r) /\ DbTyped /\ writes' = writes
  BY DEF Serve, Inv, Calls, CallsTyped, Flights
<1>2. PICK reply :
        /\ flight' = [flight EXCEPT ![i].reply = reply]
        /\ reply = NotFound => r.fn = "getWorkspace"
  BY DEF Serve, Answer, Error, NotFound, Lost, OK, Unauthorized
<1>3. db' = db \/ (Writing(r) /\ ~Rejects(r) /\ db' = After(r))
  <2>1. db' = db \/ (db' = After(r) /\ (r.fn = "login" \/ ~Rejects(r)))
    BY DEF Serve
  <2>2. r.fn = "login" => ~Writing(r)
    BY DEF Writing, Verb
  <2> HIDE DEF r
  <2> QED BY <2>1, <2>2, ReadIs
<1>4. Sound(flight', writes')
  <2>1. Sound(flight, writes) /\ DOMAIN flight = Slots
    BY DEF Base, Sound
  <2> DEFINE s == [r EXCEPT !.reply = reply]
  <2>2. flight' = [flight EXCEPT ![i] = s]
    BY <1>2
  <2>3. SoundRequest(r, writes)
    BY <1>1, <2>1 DEF Sound
  <2>4. DOMAIN s = Fields /\ s.reply = reply /\ s.fn = r.fn /\ s.value = r.value
    BY <2>3 DEF SoundRequest, Fields
  <2>5. SoundRequest(s, writes)
    BY <1>2, <2>3, <2>4 DEF SoundRequest
  <2> HIDE DEF s, r
  <2>6. Sound(flight', writes)
    BY <2>1, <2>2, <2>5 DEF Sound
  <2> QED BY <2>6, <1>1
<1>5. Ahead' = Ahead
  BY <1>1 DEF Ahead
<1>6. ASSUME NEW x \in Ahead PROVE db'[Library][x] = 0
  <2>1. db[Library][x] = 0 /\ x \in Id["library"] /\ x \in Nat
    BY AheadIs DEF Base
  <2>2. CASE db' = db
    BY <2>1, <2>2
  <2>3. CASE Writing(r) /\ ~Rejects(r) /\ db' = After(r)
    <3>1. /\ Library \in Table
          /\ r.table # Library => db'[Library] = db[Library]
          /\ r.table = Library =>
               /\ \A y \in DOMAIN db[Library] : y # Target(r) => db'[Library][y] = db[Library][y]
               /\ Target(r) \in DOMAIN db[Library] =>
                    db'[Library][Target(r)] = IF Verb[r.fn] = "delete" THEN 0 ELSE r.value
      <4>1. Library \in Table
        BY DEF Table
      <4> HIDE DEF r
      <4> QED BY <4>1, <2>3, <1>1, WriteIs
    <3>2. DOMAIN db[Library] = Id["library"]
      BY <3>1, <1>1 DEF DbTyped, RowOf, Library, T
    <3>3. CASE r.table # Library
      BY <3>1, <3>3, <2>1
    <3>4. CASE r.table = Library /\ x # Target(r)
      BY <3>1, <3>2, <3>4, <2>1
    <3>5. CASE r.table = Library /\ x = Target(r) /\ Verb[r.fn] = "delete"
      BY <3>1, <3>2, <3>5, <2>1
    <3>6. CASE r.table = Library /\ x = Target(r) /\ r.fn = "createTemplate"
      <4>1. x = r.value + 1 /\ r.value =< writes + 1 /\ r.value \in Nat
        <5>1. SoundRequest(r, writes)
          BY <1>1 DEF Base, Sound
        <5> QED BY <5>1, <3>6, <1>1 DEF SoundRequest, Target, Verb, IsRequest
      <4>2. \A w, n, m \in Nat : n =< w + 1 => n + 1 \notin w + 3 .. m + 2
        OBVIOUS
      <4>3. r.value + 1 \notin writes + 3 .. MaxWrites + 2
        BY <4>1, <4>2, AheadIs
      <4> QED BY <4>1, <4>3 DEF Ahead
    <3>7. CASE r.table = Library /\ x = Target(r) /\ Verb[r.fn] # "delete" /\ r.fn # "createTemplate"
      <4>1. r.fn = "updateTemplate"
        <5>1. \A w : Library # T("members", w) /\ Library # T("templates", w) /\ Library # T("switches", w) /\ Library # T("policy", w)
          BY DEF Library, T
        <5>2. Library # Providers /\ Library # Workspaces
          BY DEF Library, Providers, Workspaces, T
        <5>3. r.fn \notin DOMAIN AskedOf
          BY <3>7, <5>1, <1>1 DEF Asked, TableOf, AskedOf
        <5>4. r.fn \notin DOMAIN BusyOf \cup {"listProviders", "checkProviderConnection"}
          BY <3>7, <5>2, <1>1 DEF Asked, TableOf
        <5>5. r.fn \notin {"listWorkspaces", "createWorkspace", "getWorkspace", "updateWorkspace", "deleteWorkspace"}
          BY <3>7, <5>2, <1>1 DEF Asked, TableOf
        <5>6. r.fn \in DOMAIN Verb /\ Verb[r.fn] \notin {"load", "check", "login"}
          BY <1>1, <2>3 DEF IsRequest, Writing
        <5> HIDE DEF r
        <5>7. \A fn \in DOMAIN Verb : Verb[fn] \notin {"load", "check", "login", "delete"} /\ fn \notin DOMAIN AskedOf
                /\ fn \notin DOMAIN BusyOf /\ fn \notin {"createWorkspace", "updateWorkspace", "createTemplate"} => fn = "updateTemplate"
          BY DEF Verb, AskedOf, BusyOf
        <5> QED BY <5>3, <5>4, <5>5, <5>6, <5>7, <3>7
      <4>2. x = r.row /\ db[Library][r.row] # 0
        BY <4>1, <3>7, <2>3 DEF Rejects, Target, Verb
      <4> QED BY <4>2, <2>1
    <3> QED BY <3>3, <3>4, <3>5, <3>6, <3>7
  <2> QED BY <1>3, <2>2, <2>3
<1> QED BY <1>4, <1>5, <1>6 DEF Base

(* Steps that write nothing keep it. *)
LEMMA TameBase ==
  ASSUME Inv, Base, Tame
  PROVE  Base'
<1>1. writes \in Nat /\ MaxWrites \in Nat /\ db' = db /\ writes' \in {writes, writes + 1} /\ Sound(flight', writes')
  BY AheadIs DEF Tame
<1>2. \A w, m \in Nat : (w + 1) + 3 .. m + 2 \subseteq w + 3 .. m + 2
  OBVIOUS
<1>3. Ahead' \subseteq Ahead
  BY <1>1, <1>2 DEF Ahead
<1> QED BY <1>1, <1>3 DEF Base

(* At first no id has been given. *)
LEMMA BaseInit == Init => Base
<1> SUFFICES ASSUME Init PROVE Base
  OBVIOUS
<1>1. /\ db = [t \in Table |-> [r \in RowOf(t) |-> IF r \in AtFirst[t[1]] THEN 1 ELSE 0]]
      /\ flight = [i \in Slots |-> Idle]
  BY DEF Init, CallsInit, Slots
<1>2. Sound(flight, writes)
  BY <1>1 DEF Sound
<1>3. Library \in Table /\ RowOf(Library) = Id["library"] /\ Library[1] = "library"
  BY DEF Library, T, RowOf, Table
<1>4. Inv
  BY InvInit
<1> QED BY <1>1, <1>2, <1>3, <1>4, AheadIs DEF Base

(* And none is given twice. *)
LEMMA BaseNext == Inv /\ Base /\ [Next]_vars => Base'
<1> SUFFICES ASSUME Inv, Base, [Next]_vars PROVE Base'
  OBVIOUS
<1>1. DOMAIN flight = Slots
  BY DEF Base, Sound
<1>2. CASE \E i \in DOMAIN flight : Serve(i)
  BY <1>1, <1>2, ServeBase
<1>3. CASE \/ \E i \in DOMAIN flight : Unauthorised(i) \/ LoggedIn(i)
           \/ \E s \in strays : StrayUnauthorised(s)
           \/ SubmitLogin \/ Expire
  <2>1. Tame
    BY <1>1, <1>3, SessionTame
  <2> QED BY <2>1, TameBase
<1>4. CASE ProvidersStep
  BY <1>4, ProvidersTame, TameBase
<1>5. CASE LibraryStep
  BY <1>5, LibraryTame, TameBase
<1>6. CASE ListStep
  BY <1>6, ListTame, TameBase
<1>7. CASE DetailStep
  BY <1>7, DetailTame, TameBase
<1>8. CASE UNCHANGED vars
  BY <1>8 DEF vars, serverVars, countVars, Base, Ahead
<1> QED BY <1>2, <1>3, <1>4, <1>5, <1>6, <1>7, <1>8 DEF Next, Step

(* What the screens go by. *)
LEMMA BaseGives ==
  ASSUME Inv, Base
  PROVE  /\ Numbered
         /\ \A i \in Slots : flight[i] # Idle /\ flight[i].reply = NotFound => flight[i].fn = "getWorkspace"
<1>1. ASSUME NEW i \in Slots, flight[i].fn = "createTemplate" PROVE Target(flight[i]) \notin Ahead
  <2>1. flight[i] # Idle
    BY <1>1, IdleIsNone
  <2>2. SoundRequest(flight[i], writes) /\ flight[i].value \in Nat
    BY <2>1 DEF Base, Sound, Inv, Calls, CallsTyped, Flights, IsRequest
  <2>3. Target(flight[i]) = flight[i].value + 1 /\ flight[i].value =< writes + 1
    BY <1>1, <2>2 DEF Target, Verb, SoundRequest
  <2>4. \A w, n, m \in Nat : n =< w + 1 => n + 1 \notin w + 3 .. m + 2
    OBVIOUS
  <2> DEFINE n == flight[i].value
  <2>5. n \in Nat /\ n =< writes + 1 /\ writes \in Nat /\ MaxWrites \in Nat
    BY <2>2, <2>3, AheadIs
  <2> HIDE DEF n
  <2>6. n + 1 \notin writes + 3 .. MaxWrites + 2
    BY <2>4, <2>5
  <2> QED BY <2>3, <2>6 DEF Ahead, n
<1>2. \A i \in Slots : flight[i] # Idle /\ flight[i].reply = NotFound => flight[i].fn = "getWorkspace"
  BY DEF Base, Sound, SoundRequest
<1>3. \A x \in Ahead : db[Library][x] = 0
  BY DEF Base
<1> QED BY <1>1, <1>2, <1>3 DEF Numbered

-----------------------------------------------------------------------------
(* Which steps lead to another screen.                                     *)

Here(v) == "at" \in DOMAIN v /\ v.at = ui.at

(* Every screen has a place. *)
LEMMA HereAtFirst ==
  ASSUME Inv
  PROVE  Here(ui)
BY DEF Here, Inv, Screen, ScreenTyped, ProvidersTyped, ProvidersScreen, LibraryTyped, LibraryScreen, ListTyped, ListScreen,
       DetailTyped, DetailScreen

(* A step of the client leaves or shows the screen that it says. *)
LEMMA ClientHere ==
  ASSUME NEW v, NEW f, Client(v, f), Here(v)
  PROVE  ui'.at = ui.at
BY DEF Client, Here

(* And so does a click. *)
LEMMA ClickHere ==
  ASSUME NEW v, NEW r, Click(v, r), Here(v)
  PROVE  ui'.at = ui.at
BY DEF Click, Here

(* Of the providers only the link to them leads to another screen. *)
LEMMA ProvidersAt ==
  ASSUME Inv, ProvidersStep
  PROVE  OpenProviders \/ ui'.at = ui.at
<1>1. Here(ui)
  BY HereAtFirst
<1>2. \A v : Here(v) => Here(Close(v))
  BY DEF Here, Close
<1>3. CASE RetryProviders
  <2> DEFINE v == [ui EXCEPT !.loading = TRUE]
  <2>1. Here(v)
    BY <1>1 DEF Here
  <2> QED BY <1>3, <2>1, ClientHere DEF RetryProviders
<1>4. ASSUME NEW kind, NEW row, OpenProviderDialog(kind, row) PROVE ui'.at = ui.at
  <2> DEFINE v == [ui EXCEPT !.dialog = Dialog(kind, row), !.checking = FALSE]
  <2>1. Here(v)
    BY <1>1 DEF Here
  <2> QED BY <1>4, <2>1, ClientHere DEF OpenProviderDialog
<1>5. CASE CloseProviderDialog
  BY <1>5, <1>1, <1>2, ClientHere DEF CloseProviderDialog
<1>6. CASE CreateProvider \/ DeleteProvider \/ \E newKey \in BOOLEAN : EditProvider(newKey)
  <2>1. \A b : Here([ui EXCEPT !.busy = @ \cup {b}])
    BY <1>1 DEF Here
  <2> QED BY <1>6, <2>1, ClickHere DEF CreateProvider, DeleteProvider, EditProvider
<1>7. CASE RunCheck \/ PickKind
  <2>1. \A b : Here([ui EXCEPT !.checking = b])
    BY <1>1 DEF Here
  <2> QED BY <1>7, <2>1, ClientHere DEF RunCheck, PickKind
<1>8. ASSUME NEW i, Refetched(i) PROVE ui'.at = ui.at
  <2> DEFINE v == [ui EXCEPT !.rows = Result(i), !.failed = FALSE, !.loading = FALSE]
             w == [ui EXCEPT !.failed = TRUE, !.loading = FALSE]
  <2>1. Here(v) /\ Here(w)
    BY <1>1 DEF Here
  <2>2. \E f : Client(v, f) \/ Client(w, f)
    BY <1>8 DEF Refetched
  <2> HIDE DEF v, w
  <2> QED BY <2>1, <2>2, ClientHere
<1>9. ASSUME NEW i, ProviderSaved(i) PROVE ui'.at = ui.at
  <2> DEFINE v == [ui EXCEPT !.busy = @ \ {BusyOf[flight[i].fn]}]
  <2>1. Here(v)
    BY <1>1 DEF Here
  <2>2. Unheeded(i) \/ \E f : Client(v, f) \/ Client(Close(v), f)
    BY <1>9 DEF ProviderSaved
  <2> HIDE DEF v
  <2>3. CASE Unheeded(i)
    BY <2>3 DEF Unheeded
  <2> QED BY <2>1, <2>2, <2>3, <1>2, ClientHere
<1>10. ASSUME NEW i, RotateKey(i) \/ Checked(i) PROVE ui'.at = ui.at
  <2>1. Here([ui EXCEPT !.checking = FALSE])
    BY <1>1 DEF Here
  <2> QED BY <1>1, <1>10, <2>1, ClientHere DEF RotateKey, Checked
<1> QED BY <1>3, <1>4, <1>5, <1>6, <1>7, <1>8, <1>9, <1>10 DEF ProvidersStep

(* So does of the library only the link to it. *)
LEMMA LibraryAt ==
  ASSUME Inv, LibraryStep
  PROVE  OpenLibrary \/ ui'.at = ui.at
<1>1. Here(ui)
  BY HereAtFirst
<1>2. \A v : Here(v) => Here(Shut(v))
  BY DEF Here, Shut
<1>3. CASE RetryLibrary
  <2> DEFINE v == [ui EXCEPT !.loading = TRUE, !.failed = FALSE]
  <2>1. Here(v)
    BY <1>1 DEF Here
  <2> QED BY <1>3, <2>1, ClientHere DEF RetryLibrary
<1>4. ASSUME NEW kind, NEW row, OpenTemplateDialog(kind, row) PROVE ui'.at = ui.at
  <2> DEFINE v == [ui EXCEPT !.dialog = Dialog(kind, row), !.busy = {}]
  <2>1. Here(v)
    BY <1>1 DEF Here
  <2> QED BY <1>4, <2>1, ClientHere DEF OpenTemplateDialog
<1>5. CASE CloseTemplateDialog
  BY <1>5, <1>1, <1>2, ClientHere DEF CloseTemplateDialog
<1>6. CASE SaveTemplate \/ DeleteTemplate
  <2>1. \A b : Here([ui EXCEPT !.busy = b])
    BY <1>1 DEF Here
  <2> QED BY <1>6, <2>1, ClickHere DEF SaveTemplate, DeleteTemplate
<1>7. ASSUME NEW i, LibraryLoaded(i) PROVE ui'.at = ui.at
  <2> DEFINE v == [ui EXCEPT !.rows = Result(i), !.loading = FALSE]
             w == [ui EXCEPT !.loading = FALSE, !.failed = TRUE]
  <2>1. Here(v) /\ Here(w)
    BY <1>1 DEF Here
  <2>2. \E f : Client(v, f) \/ Client(w, f) \/ Client(ui, f)
    BY <1>7 DEF LibraryLoaded
  <2> HIDE DEF v, w
  <2> QED BY <1>1, <2>1, <2>2, ClientHere
<1>8. ASSUME NEW i, TemplateSaved(i) PROVE ui'.at = ui.at
  <2> DEFINE v == [ui EXCEPT !.rows = Patched(@, i)]
             w == [ui EXCEPT !.busy = @ \ {"delete"}]
             x == [ui EXCEPT !.busy = {}]
  <2>1. Here(v) /\ Here(w) /\ Here(x)
    BY <1>1 DEF Here
  <2>2. \E f : Client(Shut(v), f) \/ Client(Shut(ui), f) \/ Client(w, f) \/ Client(x, f) \/ Client(ui, f)
    BY <1>8 DEF TemplateSaved
  <2> HIDE DEF v, w, x
  <2> QED BY <1>1, <1>2, <2>1, <2>2, ClientHere
<1> QED BY <1>3, <1>4, <1>5, <1>6, <1>7, <1>8 DEF LibraryStep

(* And of the list of workspaces. *)
LEMMA ListAt ==
  ASSUME Inv, ListStep
  PROVE  OpenList \/ ui'.at = ui.at
<1>1. Here(ui)
  BY HereAtFirst
<1>2. ASSUME NEW v, NEW f, NEW p, LoadPage(v, f, p) \/ SnapBack(v, f, p), Here(v) PROVE ui'.at = ui.at
  <2>1. Here(Reloading(v))
    BY <1>2 DEF Here, Reloading
  <2>2. CASE LoadPage(v, f, p)
    BY <2>1, <2>2, ClientHere DEF LoadPage
  <2>3. CASE SnapBack(v, f, p)
    BY <2>1, <2>3 DEF SnapBack, Here
  <2> QED BY <1>2, <2>2, <2>3
<1>3. \A p : Here([ui EXCEPT !.page = p])
  BY <1>1 DEF Here
<1>4. CASE RetryList
  BY <1>4, <1>1, <1>2 DEF RetryList
<1>5. CASE ToggleCreate
  <2>1. \A d : Here([ui EXCEPT !.dialog = d, !.busy = {}])
    BY <1>1 DEF Here
  <2>2. \E d, f : Client([ui EXCEPT !.dialog = d, !.busy = {}], f)
    BY <1>5 DEF ToggleCreate
  <2> QED BY <2>1, <2>2, ClientHere
<1>6. CASE CreateWorkspace
  <2>1. Here([ui EXCEPT !.busy = {"create"}])
    BY <1>1 DEF Here
  <2> QED BY <1>6, <2>1, ClickHere DEF CreateWorkspace
<1>7. ASSUME NEW p, PickPage(p) PROVE ui'.at = ui.at
  BY <1>7, <1>2, <1>3 DEF PickPage
<1>8. ASSUME NEW i, PageLoaded(i) PROVE ui'.at = ui.at
  <2> DEFINE v == [ui EXCEPT !.rows = Result(i).rows, !.total = Result(i).total, !.loading = FALSE, !.busy = {}]
             w == [ui EXCEPT !.loading = FALSE, !.failed = TRUE, !.busy = {}]
  <2>1. Here(v) /\ Here(w)
    BY <1>1 DEF Here
  <2>2. (\E f : Client(v, f) \/ Client(w, f) \/ Client(ui, f)) \/ \E p, f : LoadPage([ui EXCEPT !.page = p], f, p)
    BY <1>8 DEF PageLoaded
  <2> HIDE DEF v, w
  <2> QED BY <1>1, <1>2, <1>3, <2>1, <2>2, ClientHere
<1>9. ASSUME NEW i, WorkspaceCreated(i) PROVE ui'.at = ui.at
  <2> DEFINE v == [ui EXCEPT !.dialog = Closed, !.busy = {}]
             w == [ui EXCEPT !.busy = {}]
  <2>1. Here(v) /\ Here(w)
    BY <1>1 DEF Here
  <2>2. \/ \E f : Client(v, f) \/ Client(w, f) \/ Client(ui, f)
        \/ \E p, f : LoadPage(v, f, p) \/ LoadPage([v EXCEPT !.page = p], f, p) \/ SnapBack([v EXCEPT !.page = p], f, p)
    BY <1>9 DEF WorkspaceCreated
  <2> HIDE DEF v, w
  <2>3. \A p : Here([v EXCEPT !.page = p])
    BY <2>1 DEF Here
  <2> QED BY <1>1, <1>2, <2>1, <2>2, <2>3, ClientHere
<1> QED BY <1>4, <1>5, <1>6, <1>7, <1>8, <1>9 DEF ListStep

(* A session that begins or ends leads to a screen without data. *)
LEMMA SessionAt ==
  ASSUME Inv, \/ \E i \in Slots : Unauthorised(i) \/ LoggedIn(i)
              \/ \E s \in strays : StrayUnauthorised(s)
              \/ SubmitLogin
  PROVE  ui'.at = ui.at \/ ui'.at \in {"login", "home"}
<1>1. Here(ui)
  BY HereAtFirst
<1>2. \A b : Here([ui EXCEPT !.busy = b])
  BY <1>1 DEF Here
<1>3. ui' \in {ui, LoginScreen, HomeScreen} \/ \E b : ui' = [ui EXCEPT !.busy = b]
  BY DEF Unauthorised, SignOut, LoggedIn, StrayUnauthorised, SubmitLogin, Mount
<1>4. LoginScreen.at = "login" /\ HomeScreen.at = "home"
  BY DEF LoginScreen, HomeScreen
<1> QED BY <1>2, <1>3, <1>4 DEF Here

(* The workspace that is got is shown where it was asked for. *)
LEMMA ShowAt ==
  ASSUME NEW screen, NEW x, NEW f, ShowWorkspace(screen, x, f), Here(screen)
  PROVE  ui'.at = ui.at
<1>1. Here([screen EXCEPT !.rows = <<x>>])
  BY DEF Here
<1>2. CASE Settled /\ Shown = x[1]
  BY <1>1, <1>2, ClientHere DEF ShowWorkspace
<1>3. CASE ~(Settled /\ Shown = x[1])
  <2>1. \A a, b : Here([screen EXCEPT !.rows = <<x>>, !.loading = FALSE, !.failed = FALSE, !.gone = FALSE,
                          !.panelFailed = FALSE, !.pool = a, !.panel = b])
    BY DEF Here
  <2>2. \E a, b : ui' = [screen EXCEPT !.rows = <<x>>, !.loading = FALSE, !.failed = FALSE, !.gone = FALSE,
                           !.panelFailed = FALSE, !.pool = a, !.panel = b]
    <3> DEFINE a == IF Settled THEN screen.pool ELSE NoList
               b == IF Settled /\ ui.tab # "guardrails" THEN screen.panel ELSE NoList
    <3>1. ui' = [screen EXCEPT !.rows = <<x>>, !.loading = FALSE, !.failed = FALSE, !.gone = FALSE,
                           !.panelFailed = FALSE, !.pool = a, !.panel = b]
      BY <1>3 DEF ShowWorkspace
    <3> QED BY <3>1
  <2> QED BY <2>1, <2>2 DEF Here
<1> QED BY <1>2, <1>3

(* The loads of one workspace do not leave it. *)
LEMMA DetailLoadsAt ==
  ASSUME Inv,
         \/ \E w \in WorkspaceIds : Jump(w)
         \/ RetryWorkspace \/ RetryMembers \/ RetryPanel \/ CloseDetailDialog
         \/ \E tab \in Tabs : PickTab(tab)
         \/ \E kind, row : OpenDetailDialog(kind, row)
  PROVE  ui'.at = ui.at
<1>1. Here(ui)
  BY HereAtFirst
<1>2. ASSUME NEW w, Jump(w) PROVE ui'.at = ui.at
  <2>1. \A w1, t, d : [DetailScreen(w1) EXCEPT !.tab = t, !.dialog = d].at = "detail"
    BY DEF DetailScreen
  <2> QED BY <1>2, <2>1 DEF Jump
<1>3. CASE RetryWorkspace
  <2> DEFINE v == [ui EXCEPT !.loading = TRUE, !.failed = FALSE, !.gone = FALSE]
  <2>1. Here(v)
    BY <1>1 DEF Here
  <2> QED BY <1>3, <2>1, ClientHere DEF RetryWorkspace
<1>4. CASE RetryMembers
  <2> DEFINE v == [ui EXCEPT !.rosterFailed = FALSE]
  <2>1. Here(v)
    BY <1>1 DEF Here
  <2> QED BY <1>4, <2>1, ClientHere DEF RetryMembers
<1>5. CASE RetryPanel
  <2>1. \A a : Here([ui EXCEPT !.panelFailed = FALSE, !.panel = a])
    BY <1>1 DEF Here
  <2>2. \E a, f : Client([ui EXCEPT !.panelFailed = FALSE, !.panel = a], f)
    <3> DEFINE a == IF ui.tab = "guardrails" THEN NoList ELSE ui.panel
    <3>1. \E f : Client([ui EXCEPT !.panelFailed = FALSE, !.panel = a], f)
      BY <1>5 DEF RetryPanel
    <3> QED BY <3>1
  <2> QED BY <2>1, <2>2, ClientHere
<1>6. CASE CloseDetailDialog
  <2>1. \A b, c : Here([ui EXCEPT !.dialog = Closed, !.pool = NoList, !.busy = b, !.busyId = c])
    BY <1>1 DEF Here
  <2>2. \E b, c : ui' = [ui EXCEPT !.dialog = Closed, !.pool = NoList, !.busy = b, !.busyId = c]
    <3> DEFINE c == IF ui.dialog.kind = "addTemplate" THEN 0 ELSE ui.busyId
               b == ui.busy \ Dialogs
    <3>1. ui' = [ui EXCEPT !.dialog = Closed, !.pool = NoList, !.busy = b, !.busyId = c]
      BY <1>6 DEF CloseDetailDialog
    <3> QED BY <3>1
  <2> QED BY <2>1, <2>2 DEF Here
<1>7. ASSUME NEW tab, PickTab(tab) PROVE ui'.at = ui.at
  <2> DEFINE v == [ui EXCEPT !.tab = tab, !.panel = NoList, !.panelFailed = FALSE, !.busy = {}, !.busyId = 0]
  <2>1. Here(v)
    BY <1>1 DEF Here
  <2> QED BY <1>7, <2>1 DEF PickTab, Here
<1>8. ASSUME NEW kind, NEW row, OpenDetailDialog(kind, row) PROVE ui'.at = ui.at
  <2> DEFINE v == [ui EXCEPT !.dialog = Dialog(kind, row), !.pool = NoList]
  <2>1. Here(v)
    BY <1>1 DEF Here
  <2>2. \E f : Client(v, f)
    BY <1>8 DEF OpenDetailDialog
  <2> QED BY <2>1, <2>2, ClientHere
<1> QED BY <1>2, <1>3, <1>4, <1>5, <1>6, <1>7, <1>8

(* Nor do the writes. *)
LEMMA DetailClicksAt ==
  ASSUME Inv,
         \/ SaveRoles \/ SavePolicy \/ Rename \/ DeleteWorkspace
         \/ \E row : AddMember(row) \/ DetachTemplate(row)
         \/ \E x : AttachTemplate(x) \/ Toggle(x)
  PROVE  ui'.at = ui.at
<1>1. Here(ui)
  BY HereAtFirst
<1>2. \A b : Here([ui EXCEPT !.busy = b]) /\ Here([ui EXCEPT !.busyId = b])
  BY <1>1 DEF Here
<1>3. CASE SaveRoles \/ Rename \/ DeleteWorkspace \/ SavePolicy
  <2>1. \A b : Here([ui EXCEPT !.busy = @ \cup {b}])
    BY <1>1 DEF Here
  <2> QED BY <1>2, <1>3, <2>1, ClickHere DEF SaveRoles, Rename, DeleteWorkspace, SavePolicy
<1>4. ASSUME NEW row, AddMember(row) PROVE ui'.at = ui.at
  <2>1. Here([ui EXCEPT !.busy = @ \cup {"addMember"}])
    BY <1>1 DEF Here
  <2> QED BY <1>4, <2>1, ClickHere DEF AddMember
<1>5. ASSUME NEW row, DetachTemplate(row) PROVE ui'.at = ui.at
  <2>1. Here([ui EXCEPT !.panel = Drop(@, row)])
    BY <1>1 DEF Here
  <2> QED BY <1>5, <2>1, ClickHere DEF DetachTemplate
<1>6. ASSUME NEW x, AttachTemplate(x) PROVE ui'.at = ui.at
  BY <1>6, <1>2, ClickHere DEF AttachTemplate
<1>7. ASSUME NEW x, Toggle(x) PROVE ui'.at = ui.at
  <2> DEFINE v == [ui EXCEPT !.panel = Switch(@, x[1], 3 - x[2]), !.busyId = x[1]]
  <2>1. Here(v)
    BY <1>1 DEF Here
  <2>2. \E r : Click(v, r)
    BY <1>7 DEF Toggle
  <2> QED BY <2>1, <2>2, ClickHere
<1> QED BY <1>3, <1>4, <1>5, <1>6, <1>7

(* Nor do the answers, but for that to its deletion. *)
LEMMA DetailAnswersAt ==
  ASSUME Inv, NEW i \in Slots,
         \/ GotWorkspace(i) \/ MembersLoaded(i) \/ PanelLoaded(i) \/ PoolLoaded(i) \/ MemberSaved(i)
         \/ TemplateMoved(i) \/ Toggled(i) \/ PolicySaved(i) \/ Renamed(i)
  PROVE  ui'.at = ui.at
<1>1. Here(ui)
  BY HereAtFirst
<1>2. CASE GotWorkspace(i)
  <2> DEFINE v == Emptied
             r == flight[i].reply
             w == [v EXCEPT !.loading = FALSE, !.gone = r = NotFound, !.failed = r # NotFound]
  <2>1. Here(v)
    BY <1>1 DEF Here, Emptied
  <2>2. Here(w)
    <3> HIDE DEF v
    <3> QED BY <2>1 DEF Here
  <2>3. (\E f : Client(ui, f)) \/ ShowWorkspace(ui, Result(i)[1], Done(i)) \/ ui' = w
    BY <1>2 DEF GotWorkspace
  <2> HIDE DEF w
  <2> QED BY <1>1, <2>2, <2>3, ClientHere, ShowAt DEF Here
<1>3. CASE MembersLoaded(i)
  <2> DEFINE v == [ui EXCEPT !.roster = Result(i)]
             w == [ui EXCEPT !.rosterFailed = TRUE]
             screen == CASE ~flight[i].latest -> ui
                         [] flight[i].latest /\ Got(i) -> v
                         [] OTHER -> w
             x == [screen EXCEPT !.dialog = Closed, !.busy = @ \ {"roles"}]
  <2>1. Here(v) /\ Here(w)
    BY <1>1 DEF Here
  <2>2. (\E f : Client(screen, f)) \/ \E f : Client(x, f)
    BY <1>3 DEF MembersLoaded
  <2>3. Here(screen)
    <3> HIDE DEF v, w
    <3> QED BY <1>1, <2>1
  <2> HIDE DEF screen
  <2>4. Here(x)
    BY <2>3 DEF Here
  <2> HIDE DEF x
  <2> QED BY <2>2, <2>3, <2>4, ClientHere
<1>4. CASE PanelLoaded(i)
  <2> DEFINE v == [ui EXCEPT !.panel = Result(i)]
             w == [ui EXCEPT !.panelFailed = TRUE]
  <2>1. Here(v) /\ Here(w)
    BY <1>1 DEF Here
  <2>2. \E f : Client(v, f) \/ Client(w, f)
    BY <1>4 DEF PanelLoaded
  <2> HIDE DEF v, w
  <2> QED BY <2>1, <2>2, ClientHere
<1>5. CASE PoolLoaded(i)
  <2>1. \A p : Here([ui EXCEPT !.pool = p])
    BY <1>1 DEF Here
  <2>2. \E p : Client([ui EXCEPT !.pool = p], Done(i))
    <3> DEFINE p == IF Got(i) THEN Result(i) ELSE <<>>
    <3>1. Client([ui EXCEPT !.pool = p], Done(i))
      BY <1>5 DEF PoolLoaded
    <3> QED BY <3>1
  <2> QED BY <2>1, <2>2, ClientHere
<1>6. CASE MemberSaved(i)
  <2> DEFINE label == IF flight[i].fn = "addMember" THEN "addMember" ELSE "roles"
             added == flight[i].fn = "addMember" /\ ui.dialog.kind = "addMember"
             v == [ui EXCEPT !.busy = @ \ {label}]
             d == IF added THEN Closed ELSE ui.dialog
             p == IF added THEN NoList ELSE ui.pool
             b == IF added THEN ui.busy \ {label} ELSE ui.busy
             w == [ui EXCEPT !.rosterFailed = FALSE, !.dialog = d, !.pool = p, !.busy = b]
  <2>1. Unheeded(i) \/ (\E f : Client(v, f)) \/ (\E f : Client(ui, f)) \/ \E f : Client(w, f)
    BY <1>6 DEF MemberSaved
  <2> HIDE DEF label, d, p, b
  <2>2. Here(v) /\ Here(w)
    BY <1>1 DEF Here
  <2> HIDE DEF v, w
  <2>3. CASE Unheeded(i)
    BY <2>3 DEF Unheeded
  <2> QED BY <1>1, <2>1, <2>2, <2>3, ClientHere
<1>7. CASE TemplateMoved(i)
  <2> DEFINE attached == flight[i].fn = "attachTemplate"
             v == [ui EXCEPT !.panel = Append(@, flight[i].memo)]
             w == [ui EXCEPT !.panel = flight[i].memo]
             screen == CASE Awaits(i, "tab") /\ attached /\ Got(i) -> v
                         [] Awaits(i, "tab") /\ ~attached /\ ~Got(i) -> w
                         [] OTHER -> ui
             x == [screen EXCEPT !.busyId = 0]
  <2>1. Here(v) /\ Here(w)
    BY <1>1 DEF Here
  <2>2. (\E f : Client(screen, f)) \/ \E f : Client(x, f)
    BY <1>7 DEF TemplateMoved
  <2>3. Here(screen)
    <3> HIDE DEF v, w
    <3> QED BY <1>1, <2>1
  <2> HIDE DEF screen
  <2>4. Here(x)
    BY <2>3 DEF Here
  <2> HIDE DEF x
  <2> QED BY <2>2, <2>3, <2>4, ClientHere
<1>8. CASE Toggled(i)
  <2> DEFINE v == [ui EXCEPT !.busyId = 0]
             w == [ui EXCEPT !.panel = Switch(@, flight[i].row, flight[i].memo[2]), !.busyId = 0]
  <2>1. Here(v) /\ Here(w)
    BY <1>1 DEF Here
  <2>2. \E f : Client(v, f) \/ Client(w, f) \/ Client(ui, f)
    BY <1>8 DEF Toggled
  <2> HIDE DEF v, w
  <2> QED BY <1>1, <2>1, <2>2, ClientHere
<1>9. CASE PolicySaved(i)
  <2> DEFINE v == [ui EXCEPT !.panel = <<Result(i)>>, !.busy = @ \ {"policy"}]
             w == [ui EXCEPT !.panelFailed = TRUE, !.busy = @ \ {"policy"}]
  <2>1. Here(v) /\ Here(w)
    BY <1>1 DEF Here
  <2>2. \E f : Client(v, f) \/ Client(w, f) \/ Client(ui, f)
    BY <1>9 DEF PolicySaved
  <2> HIDE DEF v, w
  <2> QED BY <1>1, <2>1, <2>2, ClientHere
<1>10. CASE Renamed(i)
  <2> DEFINE v == [ui EXCEPT !.busy = @ \ {"rename"}]
  <2>1. Here(v)
    BY <1>1 DEF Here
  <2>2. \E u \in {ui, v} : ShowWorkspace(u, Result(i), Done(i)) \/ Client(u, Done(i))
    BY <1>10 DEF Renamed
  <2> HIDE DEF v
  <2> QED BY <1>1, <2>1, <2>2, ClientHere, ShowAt
<1> QED BY <1>2, <1>3, <1>4, <1>5, <1>6, <1>7, <1>8, <1>9, <1>10

(* A workspace that is deleted leads to the list. *)
LEMMA DeletedAt ==
  ASSUME Inv, NEW i \in Slots, WorkspaceDeleted(i)
  PROVE  ui'.at = ui.at \/ Mount(ListScreen, Done(i), <<ListWorkspaces(1)>>)
<1>1. Here(ui)
  BY HereAtFirst
<1>2. Here([ui EXCEPT !.dialog = Closed, !.busy = @ \ {"delete"}])
  BY <1>1 DEF Here
<1> DEFINE v == [ui EXCEPT !.dialog = Closed, !.busy = @ \ {"delete"}]
<1>3. Mount(ListScreen, Done(i), <<ListWorkspaces(1)>>) \/ \E f : Client(v, f) \/ Client(ui, f)
  BY DEF WorkspaceDeleted
<1> HIDE DEF v
<1>4. Here(v)
  BY <1>2 DEF v
<1> QED BY <1>1, <1>3, <1>4, ClientHere
=============================================================================
