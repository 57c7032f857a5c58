---------------------------- MODULE FormatterProofs ----------------------------
(***************************************************************************)
(* The two passes of fmtRec write each field of a record once, for every   *)
(* heap, every order of keys, every width of numbers, however deep the     *)
(* records are and whatever the writer defines in between; a growth of the *)
(* index makes an iterator begin its account again.  What is               *)
(* written reads back, as long as it defines nothing: a number has its     *)
(* digits in every base, a decimal as many as are written, and a reader    *)
(* of the text so far is in the records that the frames write, with the    *)
(* fields that they have shown.                                            *)
(***************************************************************************)
EXTENDS Formatter, SequenceTheorems, WellFoundedInduction, TLAPS

-------------------------------------------------------------------------------
(* The inductive invariant. *)

IsSeq(s) == s \in Seq(Range(s))

\* A call of the formatter, and a frame of fmtRec.
IsCall(f) ==
  f = [state |-> f.state, todo |-> f.todo, flags |-> f.flags, of |-> f.of,
       text |-> f.text, stack |-> f.stack]
IsFrame(f) ==
  f = [rec |-> f.rec, pass |-> f.pass, index |-> f.index, todo |-> f.todo,
       empty |-> f.empty, shown |-> f.shown, lasting |-> f.lasting]

\* The keys of the first pass as far as it has come.
InPlace(f) == {IntVal(n) : n \in 0 .. f.index - 1}
Shown(f) == {f.shown[j][1] : j \in DOMAIN f.shown}
ToCome(f) == Range(f.todo)

FrameType(f) ==
  /\ IsFrame(f) /\ f.rec \in DOMAIN heap /\ f.pass \in {"sequence", "keyed"}
  /\ f.index \in Nat /\ (f.index = 0 \/ f.index <= IntLimit)
  /\ IsSeq(f.todo) /\ IsInjective(f.todo) /\ ToCome(f) \subseteq Key
  /\ IsSeq(f.shown)

\* What is still to come has not been shown, unless it is in place: then it is
\* skipped.  Nothing is shown twice.
NotAgain(f) ==
  /\ \A j, l \in DOMAIN f.shown : f.shown[j][1] = f.shown[l][1] => j = l
  /\ \A k \in Shown(f) : k \in InPlace(f) \/ (f.pass = "keyed" /\ k \notin ToCome(f))
  /\ \A j \in DOMAIN f.shown : f.shown[j][1] \in Key

\* A field that has been there since the call began still is; it has been shown
\* if it is in place, and in the second pass if it is not to come.
Lasts(f) ==
  \A e \in f.lasting :
    /\ e[1] \in Key /\ e[2] = Get(f.rec, e[1]) /\ e[2] # Udf /\ e = <<e[1], e[2]>>
    /\ e[1] \in InPlace(f) => e \in Range(f.shown)
    /\ f.pass = "keyed" => e \in Range(f.shown) \/ e[1] \in ToCome(f)

FrameInv(f) == FrameType(f) /\ NotAgain(f) /\ Lasts(f)

\* The keys that the index has or may get.
Keyable == Key \union NewKeys
IsKey(k) == k.type = "int" => k = IntVal(k.n) /\ k.n \in -IntLimit .. IntLimit - 1

HeapType ==
  /\ IsSeq(order) /\ IsInjective(order)
  /\ \A k \in Keyable : IsKey(k)
  /\ \A r \in DOMAIN heap : Keyable \subseteq DOMAIN heap[r] /\ \A k \in Keyable : Exists(heap[r][k])

CallInv(f) ==
  /\ IsCall(f) /\ IsSeq(f.stack)
  /\ \A i \in DOMAIN f.stack : FrameInv(f.stack[i])

IInv == HeapType /\ CallInv(fmt)

-------------------------------------------------------------------------------
(* Sequences. *)

LEMMA MinIs ==
  ASSUME NEW S \in SUBSET Nat, S # {}
  PROVE  Min(S) \in S /\ \A n \in S : Min(S) <= n
<1>1. \E n \in S : \A m \in S : <<m, n>> \notin OpToRel(<, Nat)
  BY NatLessThanWellFounded, WFMin, Zenon
<1>2. PICK n \in S : \A m \in S : ~(m < n)
  BY <1>1 DEF OpToRel
<1>3. \A m \in S : n <= m
  BY <1>2
<1>4. QED
  BY <1>3 DEF Min

LEMMA SeqIs ==
  ASSUME NEW s, IsSeq(s)
  PROVE  /\ Len(s) \in Nat /\ DOMAIN s = 1 .. Len(s)
         /\ \A i \in DOMAIN s : s[i] \in Range(s)
BY DEF IsSeq, Range

LEMMA AppendIs ==
  ASSUME NEW s, IsSeq(s), NEW e
  PROVE  /\ IsSeq(Append(s, e)) /\ Range(Append(s, e)) = Range(s) \union {e}
         /\ DOMAIN Append(s, e) = 1 .. Len(s) + 1
         /\ \A i \in DOMAIN s : Append(s, e)[i] = s[i]
         /\ Append(s, e)[Len(s) + 1] = e
<1> DEFINE T == Range(s) \union {e}
           t == Append(s, e)
<1>1. s \in Seq(T) /\ e \in T /\ Len(s) \in Nat /\ DOMAIN s = 1 .. Len(s)
  BY DEF IsSeq
<1>2. t \in Seq(T) /\ Len(t) = Len(s) + 1 /\ DOMAIN t = 1 .. Len(s) + 1
  BY <1>1
<1>3. (\A i \in DOMAIN s : t[i] = s[i]) /\ t[Len(s) + 1] = e
  BY <1>1
<1>4. Range(t) = T
  <2>1. \A x \in T : x \in Range(t)
    <3>1. \A i \in DOMAIN s : i \in DOMAIN t
      BY <1>1, <1>2
    <3>2. Len(s) + 1 \in DOMAIN t
      BY <1>1, <1>2
    <3>3. QED
      BY <1>3, <3>1, <3>2 DEF Range
  <2>2. \A i \in DOMAIN t : t[i] \in T
    BY <1>2
  <2>3. QED
    BY <2>1, <2>2 DEF Range
<1>5. QED
  BY <1>2, <1>3, <1>4 DEF IsSeq

LEMMA FrontIs ==
  ASSUME NEW s, IsSeq(s), s # <<>>
  PROVE  /\ IsSeq(Front(s)) /\ DOMAIN Front(s) \subseteq DOMAIN s
         /\ \A i \in DOMAIN Front(s) : Front(s)[i] = s[i]
<1> DEFINE t == Front(s)
<1>1. Len(s) \in Nat \ {0} /\ DOMAIN s = 1 .. Len(s) /\ s \in Seq(Range(s))
  BY DEF IsSeq
<1>2. t \in Seq(Range(s)) /\ DOMAIN t = 1 .. Len(s) - 1 /\ \A i \in DOMAIN t : t[i] = s[i]
  BY <1>1 DEF Front
<1>3. t \in Seq(Range(t))
  BY <1>2 DEF Range
<1>4. QED
  BY <1>1, <1>2, <1>3 DEF IsSeq

\* What is left of a sequence without duplicates after its place m.
LEMMA RestIs ==
  ASSUME NEW s, IsSeq(s), IsInjective(s), NEW m \in DOMAIN s
  PROVE  LET t == SubSeq(s, m + 1, Len(s))
         IN /\ IsSeq(t) /\ IsInjective(t) /\ Range(t) \subseteq Range(s)
            /\ s[m] \notin Range(t)
            /\ \A i \in DOMAIN s : i > m => s[i] \in Range(t)
<1> DEFINE t == SubSeq(s, m + 1, Len(s))
<1>1. Len(s) \in Nat /\ DOMAIN s = 1 .. Len(s) /\ s \in Seq(Range(s)) /\ m \in 1 .. Len(s)
  BY DEF IsSeq
<1>2. /\ t \in Seq(Range(s)) /\ DOMAIN t = 1 .. Len(s) - m
      /\ \A i \in DOMAIN t : t[i] = s[i + m] /\ i + m \in DOMAIN s
  BY <1>1
<1> HIDE DEF t
<1>3. t \in Seq(Range(t)) /\ Range(t) \subseteq Range(s)
  <2>1. \A i \in DOMAIN t : t[i] \in Range(s) /\ t[i] \in Range(t)
    BY <1>2 DEF Range
  <2>2. t = [i \in 1 .. Len(t) |-> t[i]] /\ Len(t) \in Nat
    BY <1>2
  <2>3. DOMAIN t = 1 .. Len(t)
    BY <1>2
  <2>4. t \in [1 .. Len(t) -> Range(t)]
    BY <2>1, <2>2, <2>3
  <2>5. QED
    BY <2>1, <2>2, <2>4 DEF Range
<1>4. IsInjective(t)
  <2>1. SUFFICES ASSUME NEW i \in DOMAIN t, NEW j \in DOMAIN t, t[i] = t[j] PROVE i = j
    BY DEF IsInjective
  <2>2. i + m = j + m
    BY <1>2, <2>1 DEF IsInjective
  <2>3. QED
    BY <1>1, <1>2, <2>2
<1>5. s[m] \notin Range(t)
  <2>1. SUFFICES ASSUME NEW i \in DOMAIN t, t[i] = s[m] PROVE FALSE
    BY DEF Range
  <2>2. i + m = m
    BY <1>2, <2>1 DEF IsInjective
  <2>3. QED
    BY <1>1, <1>2, <2>2
<1>6. ASSUME NEW i \in DOMAIN s, i > m PROVE s[i] \in Range(t)
  <2>1. i - m \in DOMAIN t /\ (i - m) + m = i
    BY <1>1, <1>2, <1>6
  <2>2. t[i - m] = s[i]
    BY <1>2, <2>1
  <2>3. QED
    BY <2>1, <2>2 DEF Range
<1>7. QED
  BY <1>3, <1>4, <1>5, <1>6 DEF IsSeq, t

-------------------------------------------------------------------------------
(* Recursive functions. *)

\* Induction, over a set of numbers.
LEMMA AllNats ==
  ASSUME NEW S, \A n \in Nat : (\A m \in 0 .. n - 1 : m \in S) => n \in S
  PROVE  Nat \subseteq S
<1> DEFINE Bad == Nat \ S
<1>1. SUFFICES ASSUME Bad # {} PROVE FALSE
  OBVIOUS
<1>2. Bad \in SUBSET Nat
  OBVIOUS
<1>3. PICK n \in Bad : \A m \in Bad : n <= m
  <2> HIDE DEF Bad
  <2>1. QED
    BY <1>1, <1>2, MinIs
<1>4. \A m \in 0 .. n - 1 : m \in S
  BY <1>3
<1>5. QED
  BY <1>3, <1>4

\* Functions that begin alike and go on alike are alike.
LEMMA Agree ==
  ASSUME NEW n \in Nat, NEW p, NEW q, p[0] = q[0],
         \A i \in 1 .. n : p[i - 1] = q[i - 1] => p[i] = q[i]
  PROVE  \A i \in 0 .. n : p[i] = q[i]
<1> DEFINE S == {i \in Nat : i <= n => p[i] = q[i]}
<1>1. ASSUME NEW i \in Nat, \A m \in 0 .. i - 1 : m \in S PROVE i \in S
  <2>1. SUFFICES ASSUME i <= n PROVE p[i] = q[i]
    OBVIOUS
  <2>2. CASE i = 0
    BY <2>2
  <2>3. CASE i # 0
    <3>1. i - 1 \in 0 .. i - 1 /\ i \in 1 .. n
      BY <2>1, <2>3
    <3>2. p[i - 1] = q[i - 1]
      BY <1>1, <2>1, <3>1
    <3>3. QED
      BY <3>1, <3>2
  <2>4. QED
    BY <2>2, <2>3
<1>2. Nat \subseteq S
  <2> HIDE DEF S
  <2>1. QED
    BY <1>1, AllNats
<1>3. QED
  BY <1>2

Powers(b, n, p) == p = [i \in 0 .. n |-> IF i = 0 THEN 1 ELSE b * p[i - 1]]

\* The same, place by place.
LEMMA PowersAre ==
  ASSUME NEW b, NEW n \in Nat, NEW p, Powers(b, n, p)
  PROVE  p[0] = 1 /\ \A i \in 1 .. n : p[i] = b * p[i - 1]
<1> DEFINE E(i) == IF i = 0 THEN 1 ELSE b * p[i - 1]
<1>1. p = [i \in 0 .. n |-> E(i)]
  BY DEF Powers
<1>2. \A i \in 0 .. n : [j \in 0 .. n |-> E(j)][i] = E(i)
  OBVIOUS
<1>3. \A i \in 0 .. n : p[i] = E(i)
  <2> HIDE DEF E
  <2>1. QED
    BY <1>1, <1>2
<1>4. QED
  BY <1>3

LEMMA PowersExist ==
  ASSUME NEW b, NEW c \in Nat
  PROVE  \E p : Powers(b, c, p)
<1> DEFINE S == {n \in Nat : \E p : Powers(b, n, p)}
<1>1. ASSUME NEW n \in Nat, \A m \in 0 .. n - 1 : m \in S PROVE n \in S
  <2>1. PICK q : n # 0 => Powers(b, n - 1, q)
    <3>1. n # 0 => n - 1 \in 0 .. n - 1
      OBVIOUS
    <3>2. QED
      BY <1>1, <3>1
  <2> DEFINE p == [i \in 0 .. n |-> IF i = 0 THEN 1 ELSE b * q[i - 1]]
  <2>2. \A i \in 0 .. n : p[i] = IF i = 0 THEN 1 ELSE b * q[i - 1]
    OBVIOUS
  <2>3. \A i \in 0 .. n : i # 0 => p[i - 1] = q[i - 1]
    <3>1. ASSUME NEW i \in 0 .. n, i # 0 PROVE p[i - 1] = q[i - 1]
      <4>1. i - 1 \in 0 .. n - 1 /\ n # 0 /\ n - 1 \in Nat /\ i - 1 \in 0 .. n
        BY <3>1
      <4>2. q[0] = 1 /\ \A j \in 1 .. n - 1 : q[j] = b * q[j - 1]
        BY <2>1, <4>1, PowersAre
      <4>3. QED
        BY <2>2, <4>1, <4>2
    <3>2. QED
      BY <3>1
  <2>4. p = [i \in 0 .. n |-> IF i = 0 THEN 1 ELSE b * p[i - 1]]
    BY <2>3
  <2>5. Powers(b, n, p)
    BY <2>4 DEF Powers
  <2>6. QED
    BY <2>5
<1>2. Nat \subseteq S
  <2> HIDE DEF S
  <2>1. QED
    BY <1>1, AllNats
<1>3. QED
  BY <1>2

LEMMA PowerIs ==
  ASSUME NEW b
  PROVE  /\ Power(b, 0) = 1
         /\ \A n \in Nat : Power(b, n + 1) = b * Power(b, n)
<1> DEFINE P(n) == CHOOSE p : Powers(b, n, p)
<1>1. \A n \in Nat : Power(b, n) = P(n)[n]
  BY DEF Power, Powers
<1>2. ASSUME NEW n \in Nat PROVE P(n)[0] = 1 /\ \A i \in 1 .. n : P(n)[i] = b * P(n)[i - 1]
  BY PowersExist, PowersAre
<1> HIDE DEF P
<1>3. ASSUME NEW n \in Nat PROVE Power(b, n + 1) = b * Power(b, n)
  <2>1. n + 1 \in Nat /\ (n + 1) - 1 = n /\ n + 1 \in 1 .. n + 1 /\ n \in 0 .. n
        /\ \A i \in 1 .. n : i \in 1 .. n + 1
    OBVIOUS
  <2> DEFINE p == P(n)
             q == P(n + 1)
  <2>2. p[0] = q[0] /\ \A i \in 1 .. n : p[i - 1] = q[i - 1] => p[i] = q[i]
    BY <1>2, <2>1
  <2>3. q[n + 1] = b * q[n]
    BY <1>2, <2>1
  <2>4. \A i \in 0 .. n : p[i] = q[i]
    <3> HIDE DEF p, q
    <3>1. QED
      BY <2>2, Agree
  <2>5. QED
    BY <1>1, <2>1, <2>3, <2>4
<1>4. QED
  BY <1>1, <1>2, <1>3

NextNumber(x, b, d) == x * b + d

Numbers(b, s, n, p) == p = [i \in 0 .. n |-> IF i = 0 THEN 0 ELSE NextNumber(p[i - 1], b, s[i])]

LEMMA NumbersAre ==
  ASSUME NEW b, NEW s, NEW n \in Nat, NEW p, Numbers(b, s, n, p)
  PROVE  p[0] = 0 /\ \A i \in 1 .. n : p[i] = NextNumber(p[i - 1], b, s[i])
<1> DEFINE E(i) == IF i = 0 THEN 0 ELSE NextNumber(p[i - 1], b, s[i])
<1>1. p = [i \in 0 .. n |-> E(i)]
  BY DEF Numbers
<1>2. \A i \in 0 .. n : [j \in 0 .. n |-> E(j)][i] = E(i)
  OBVIOUS
<1>3. \A i \in 0 .. n : p[i] = E(i)
  <2> HIDE DEF E
  <2>1. QED
    BY <1>1, <1>2
<1>4. QED
  BY <1>3

LEMMA NumbersExist ==
  ASSUME NEW b, NEW s, NEW c \in Nat
  PROVE  \E p : Numbers(b, s, c, p)
<1> DEFINE S == {n \in Nat : \E p : Numbers(b, s, n, p)}
<1>1. ASSUME NEW n \in Nat, \A m \in 0 .. n - 1 : m \in S PROVE n \in S
  <2>1. PICK q : n # 0 => Numbers(b, s, n - 1, q)
    <3>1. n # 0 => n - 1 \in 0 .. n - 1
      OBVIOUS
    <3>2. QED
      BY <1>1, <3>1
  <2> DEFINE p == [i \in 0 .. n |-> IF i = 0 THEN 0 ELSE NextNumber(q[i - 1], b, s[i])]
  <2>2. \A i \in 0 .. n : p[i] = IF i = 0 THEN 0 ELSE NextNumber(q[i - 1], b, s[i])
    OBVIOUS
  <2>3. \A i \in 0 .. n : i # 0 => p[i - 1] = q[i - 1]
    <3>1. ASSUME NEW i \in 0 .. n, i # 0 PROVE p[i - 1] = q[i - 1]
      <4>1. i - 1 \in 0 .. n - 1 /\ n # 0 /\ n - 1 \in Nat /\ i - 1 \in 0 .. n
        BY <3>1
      <4>2. q[0] = 0 /\ \A j \in 1 .. n - 1 : q[j] = NextNumber(q[j - 1], b, s[j])
        BY <2>1, <4>1, NumbersAre
      <4>3. QED
        BY <2>2, <4>1, <4>2
    <3>2. QED
      BY <3>1
  <2>4. p = [i \in 0 .. n |-> IF i = 0 THEN 0 ELSE NextNumber(p[i - 1], b, s[i])]
    BY <2>3
  <2>5. Numbers(b, s, n, p)
    BY <2>4 DEF Numbers
  <2>6. QED
    BY <2>5
<1>2. Nat \subseteq S
  <2> HIDE DEF S
  <2>1. QED
    BY <1>1, AllNats
<1>3. QED
  BY <1>2

LEMMA NumberIs ==
  ASSUME NEW b
  PROVE  /\ Number(<<>>, b) = 0
         /\ \A s : \A d : s \in Seq(Int) /\ d \in Int => Number(Append(s, d), b) = Number(s, b) * b + d
<1> DEFINE P(s) == CHOOSE p : Numbers(b, s, Len(s), p)
<1>1. \A s : Number(s, b) = P(s)[Len(s)]
  BY DEF Number, Numbers, NextNumber
<1>2. ASSUME NEW s, Len(s) \in Nat
      PROVE  P(s)[0] = 0 /\ \A i \in 1 .. Len(s) : P(s)[i] = NextNumber(P(s)[i - 1], b, s[i])
  <2>1. \E p : Numbers(b, s, Len(s), p)
    BY <1>2, NumbersExist
  <2>2. Numbers(b, s, Len(s), P(s))
    BY <2>1
  <2> HIDE DEF P
  <2>3. QED
    BY <1>2, <2>2, NumbersAre
<1> HIDE DEF P
<1>3. Number(<<>>, b) = 0
  <2>1. Len(<<>>) = 0
    OBVIOUS
  <2>2. QED
    BY <1>1, <1>2, <2>1
<1>4. ASSUME NEW s \in Seq(Int), NEW d \in Int PROVE Number(Append(s, d), b) = Number(s, b) * b + d
  <2> DEFINE n == Len(s)
             t == Append(s, d)
             p == P(s)
             q == P(t)
  <2>1. /\ n \in Nat /\ Len(t) = n + 1 /\ t[n + 1] = d
        /\ \A i \in 1 .. n : t[i] = s[i]
    OBVIOUS
  <2>2. (n + 1) - 1 = n /\ n + 1 \in 1 .. n + 1 /\ n \in 0 .. n /\ \A i \in 1 .. n : i \in 1 .. n + 1
    BY <2>1
  <2>3. p[0] = 0 /\ \A i \in 1 .. n : p[i] = NextNumber(p[i - 1], b, s[i])
    BY <1>2, <2>1
  <2>4. q[0] = 0 /\ \A i \in 1 .. n + 1 : q[i] = NextNumber(q[i - 1], b, t[i])
    <3>1. Len(t) \in Nat
      BY <2>1
    <3>2. QED
      BY <1>2, <2>1, <3>1
  <2>5. Number(s, b) = p[n] /\ Number(t, b) = q[n + 1]
    BY <1>1, <2>1
  <2> HIDE DEF n, t, p, q
  <2>6. \A i \in 0 .. n : p[i] = q[i]
    <3>1. p[0] = q[0]
      BY <2>3, <2>4
    <3>2. \A i \in 1 .. n : p[i - 1] = q[i - 1] => p[i] = q[i]
      BY <2>1, <2>2, <2>3, <2>4
    <3>3. n \in Nat
      BY <2>1
    <3>4. QED
      BY <3>1, <3>2, <3>3, Agree
  <2>7. q[n + 1] = NextNumber(q[n], b, d)
    BY <2>1, <2>2, <2>4
  <2>8. QED
    BY <2>2, <2>5, <2>6, <2>7 DEF t, NextNumber
<1>5. QED
  BY <1>3, <1>4

-------------------------------------------------------------------------------
(* Numbers. *)

Bases == {2, 8, 10, 16}

LEMMA DivMod ==
  ASSUME NEW b \in Bases, NEW m \in Nat
  PROVE  /\ m \div b \in Nat /\ m % b \in 0 .. b - 1 /\ m = (m \div b) * b + (m % b)
         /\ 2 * (m \div b) <= m
<1>1. CASE b = 2
  BY <1>1
<1>2. CASE b = 8
  BY <1>2
<1>3. CASE b = 10
  BY <1>3
<1>4. CASE b = 16
  BY <1>4
<1>5. QED
  BY <1>1, <1>2, <1>3, <1>4 DEF Bases

WithLast(d, m, b) == Append(d[m \div b], m % b)

Places(n, b, d) ==
  d = [m \in 0 .. n |-> IF m = 0 THEN <<>> ELSE WithLast(d, m, b)]

LEMMA PlacesAre ==
  ASSUME NEW b, NEW n \in Nat, NEW d, Places(n, b, d)
  PROVE  d[0] = <<>> /\ \A m \in 1 .. n : d[m] = WithLast(d, m, b)
<1> DEFINE E(m) == IF m = 0 THEN <<>> ELSE WithLast(d, m, b)
<1>1. d = [m \in 0 .. n |-> E(m)]
  BY DEF Places
<1>2. \A m \in 0 .. n : [j \in 0 .. n |-> E(j)][m] = E(m)
  OBVIOUS
<1>3. \A m \in 0 .. n : d[m] = E(m)
  <2> HIDE DEF E
  <2>1. QED
    BY <1>1, <1>2
<1>4. QED
  BY <1>3

LEMMA PlacesExist ==
  ASSUME NEW b \in Bases, NEW c \in Nat
  PROVE  \E d : Places(c, b, d)
<1> DEFINE S == {n \in Nat : \E d : Places(n, b, d)}
<1>1. ASSUME NEW n \in Nat, \A m \in 0 .. n - 1 : m \in S PROVE n \in S
  <2>1. PICK e : n # 0 => Places(n - 1, b, e)
    <3>1. n # 0 => n - 1 \in 0 .. n - 1
      OBVIOUS
    <3>2. QED
      BY <1>1, <3>1
  <2> DEFINE d == [m \in 0 .. n |-> IF m = 0 THEN <<>> ELSE WithLast(e, m, b)]
  <2>2. \A m \in 0 .. n : d[m] = IF m = 0 THEN <<>> ELSE WithLast(e, m, b)
    OBVIOUS
  <2>3. \A m \in 0 .. n : m # 0 => d[m \div b] = e[m \div b]
    <3>1. ASSUME NEW m \in 0 .. n, m # 0 PROVE d[m \div b] = e[m \div b]
      <4>1. m \div b \in 0 .. n - 1 /\ n # 0 /\ n - 1 \in Nat /\ m \div b \in 0 .. n
        BY <3>1, DivMod
      <4>2. e[0] = <<>> /\ \A j \in 1 .. n - 1 : e[j] = WithLast(e, j, b)
        <5>1. Places(n - 1, b, e) /\ n - 1 \in Nat
          BY <2>1, <4>1
        <5>2. QED
          BY <5>1, PlacesAre
      <4> DEFINE k == m \div b
      <4>3. k \in 0 .. n - 1 /\ k \in 0 .. n
        BY <4>1
      <4> HIDE DEF k, d
      <4>4. d[k] = e[k]
        BY <2>2, <4>2, <4>3
      <4>5. QED
        BY <4>4 DEF k
    <3>2. QED
      BY <3>1
  <2>4. d = [m \in 0 .. n |-> IF m = 0 THEN <<>> ELSE WithLast(d, m, b)]
    BY <2>3 DEF WithLast
  <2>5. Places(n, b, d)
    BY <2>4 DEF Places
  <2>6. QED
    BY <2>5
<1>2. Nat \subseteq S
  <2> HIDE DEF S
  <2>1. QED
    BY <1>1, AllNats
<1>3. QED
  BY <1>2

\* Powers of two are what a word holds.
LEMMA TwoIs ==
  /\ \A k \in Nat : Power(2, k) \in Nat \ {0}
  /\ Power(2, 0) = 1 /\ \A k \in Nat : Power(2, k + 1) = 2 * Power(2, k)
<1> DEFINE S == {k \in Nat : Power(2, k) \in Nat \ {0}}
<1>1. Power(2, 0) = 1 /\ \A k \in Nat : Power(2, k + 1) = 2 * Power(2, k)
  BY PowerIs
<1>2. ASSUME NEW k \in Nat, \A m \in 0 .. k - 1 : m \in S PROVE k \in S
  <2>1. CASE k = 0
    BY <1>1, <2>1
  <2>2. CASE k # 0
    <3>1. k - 1 \in 0 .. k - 1 /\ k - 1 \in Nat /\ (k - 1) + 1 = k
      BY <2>2
    <3>2. Power(2, k) = 2 * Power(2, k - 1) /\ Power(2, k - 1) \in Nat \ {0}
      BY <1>1, <1>2, <3>1
    <3>3. QED
      BY <3>2
  <2>3. QED
    BY <2>1, <2>2
<1>3. Nat \subseteq S
  <2> HIDE DEF S
  <2>1. QED
    BY <1>2, AllNats
<1>4. QED
  BY <1>1, <1>3

\* The digits of a number are a way to write it, and as many as it has bits at most.
DigitsOf(s, m, b) ==
  /\ s \in Seq(Nat) /\ Number(s, b) = m /\ (m # 0 => s # <<>>)
  /\ \A k \in Nat : m < Power(2, k) => Len(s) <= k

LEMMA DigitsAre ==
  ASSUME NEW b \in Bases, NEW n \in Nat
  PROVE  DigitsOf(Digits(n, b), n, b)
<1>1. PICK d : Places(n, b, d) /\ Digits(n, b) = d[n]
  <2> DEFINE d == CHOOSE d : Places(n, b, d)
  <2>1. Digits(n, b) = d[n]
    BY DEF Digits, Places, WithLast
  <2>2. Places(n, b, d)
    BY PlacesExist
  <2>3. QED
    BY <2>1, <2>2
<1>2. d[0] = <<>> /\ \A m \in 1 .. n : d[m] = Append(d[m \div b], m % b)
  BY <1>1, PlacesAre DEF WithLast
<1> DEFINE S == {m \in Nat : m <= n => DigitsOf(d[m], m, b)}
<1>3. ASSUME NEW m \in Nat, \A l \in 0 .. m - 1 : l \in S PROVE m \in S
  <2>1. SUFFICES ASSUME m <= n PROVE DigitsOf(d[m], m, b)
    OBVIOUS
  <2>2. CASE m = 0
    <3>1. d[m] = <<>> /\ Number(<<>>, b) = m
      BY <1>2, <2>2, NumberIs
    <3>2. QED
      BY <2>2, <3>1 DEF DigitsOf
  <2>3. CASE m # 0
    <3> DEFINE l == m \div b
               r == m % b
               s == d[l]
    <3>1. l \in Nat /\ r \in Nat /\ m = l * b + r /\ 2 * l <= m
      BY DivMod
    <3>2. d[m] = Append(s, r)
      BY <1>2, <2>1, <2>3
    <3> HIDE DEF l, r
    <3>3. l \in 0 .. m - 1 /\ l <= n
      BY <2>1, <2>3, <3>1
    <3>4. DigitsOf(s, l, b)
      BY <1>3, <3>3
    <3> HIDE DEF s
    <3>5. s \in Seq(Nat) /\ Number(s, b) = l
      BY <3>4 DEF DigitsOf
    <3>6. d[m] \in Seq(Nat) /\ d[m] # <<>> /\ Len(d[m]) = Len(s) + 1 /\ Len(s) \in Nat
      <4>1. r \in Nat
        BY <3>1
      <4>2. Append(s, r) \in Seq(Nat) /\ Append(s, r) # <<>> /\ Len(Append(s, r)) = Len(s) + 1 /\ Len(s) \in Nat
        BY <4>1, <3>5
      <4>3. QED
        BY <3>2, <4>2
    <3>7. Number(d[m], b) = m
      <4>1. s \in Seq(Int) /\ r \in Int
        BY <3>1, <3>5
      <4>2. Number(Append(s, r), b) = Number(s, b) * b + r
        BY <4>1, NumberIs
      <4>3. QED
        BY <3>1, <3>2, <3>5, <4>2
    <3>8. ASSUME NEW k \in Nat, m < Power(2, k) PROVE Len(d[m]) <= k
      <4>1. k # 0
        BY <2>3, <3>8, TwoIs
      <4>2. k - 1 \in Nat /\ (k - 1) + 1 = k
        BY <4>1
      <4>3. Power(2, k) = 2 * Power(2, k - 1) /\ Power(2, k - 1) \in Nat
        BY <4>2, TwoIs
      <4>4. l < Power(2, k - 1)
        BY <3>1, <3>8, <4>3
      <4>5. Len(s) <= k - 1
        BY <3>4, <4>2, <4>4 DEF DigitsOf
      <4>6. QED
        BY <3>6, <4>2, <4>5
    <3>9. QED
      BY <3>6, <3>7, <3>8 DEF DigitsOf
  <2>4. QED
    BY <2>2, <2>3
<1>4. Nat \subseteq S
  <2> HIDE DEF S
  <2>1. QED
    BY <1>3, AllNats
<1>5. QED
  BY <1>1, <1>4

LEMMA IntDigitsAre ==
  ASSUME NEW b \in Bases, NEW n \in Int
  PROVE  /\ IntDigits(n, b) # <<>> /\ Number(IntDigits(n, b), b) = Magnitude(n)
         /\ \A k \in Nat \ {0} : Magnitude(n) < Power(2, k) => Len(IntDigits(n, b)) <= k
<1>1. Magnitude(n) \in Nat /\ (n # 0 => Magnitude(n) # 0) /\ (n = 0 => Magnitude(n) = 0)
  BY DEF Magnitude
<1>2. CASE n = 0
  <2>1. IntDigits(n, b) = <<0>> /\ Append(<<>>, 0) = <<0>> /\ <<>> \in Seq(Int) /\ 0 \in Int /\ Len(<<0>>) = 1
    BY <1>2 DEF IntDigits
  <2>2. Number(Append(<<>>, 0), b) = Number(<<>>, b) * b + 0 /\ Number(<<>>, b) = 0
    BY <2>1, NumberIs
  <2>3. b \in Int
    BY DEF Bases
  <2>4. Number(<<0>>, b) = 0 /\ <<0>> # <<>> /\ Len(<<0>>) = 1
    BY <2>1, <2>2, <2>3
  <2> DEFINE s == IntDigits(n, b)
  <2>5. s # <<>> /\ Number(s, b) = 0 /\ Len(s) = 1
    BY <2>1, <2>4
  <2> HIDE DEF s
  <2>6. \A k \in Nat \ {0} : Len(s) <= k
    BY <2>5
  <2>7. QED
    BY <1>1, <1>2, <2>5, <2>6 DEF s
<1>3. CASE n # 0
  <2>1. DigitsOf(Digits(Magnitude(n), b), Magnitude(n), b)
    BY <1>1, DigitsAre
  <2>2. IntDigits(n, b) = Digits(Magnitude(n), b)
    BY <1>3 DEF IntDigits
  <2>3. QED
    BY <1>1, <1>3, <2>1, <2>2 DEF DigitsOf
<1>4. QED
  BY <1>2, <1>3

\* No whole number is longer than the buffer of digits.
LEMMA Fits ==
  ASSUME NEW b \in Bases, NEW n \in -IntLimit .. IntLimit - 1
  PROVE  Len(IntDigits(n, b)) <= Width /\ Width <= BufSize /\ Width \in Nat /\ n \in Int
<1>1. Width \in Nat \ {0} /\ BufSize >= Width /\ Width - 1 \in Nat /\ (Width - 1) + 1 = Width
  BY FormatterAssumption
<1>2. IntLimit \in Nat \ {0} /\ Power(2, Width) = 2 * IntLimit
  BY <1>1, TwoIs DEF IntLimit
<1>3. n \in Int /\ Magnitude(n) < Power(2, Width)
  BY <1>2 DEF Magnitude
<1>4. QED
  BY <1>1, <1>3, IntDigitsAre

NoPart(f) == Parts(<<>>, f)
Partials(b, f, n, p) == p = [i \in 0 .. n |-> IF i = 0 THEN NoPart(f) ELSE NextPart(p[i - 1], b)]

LEMMA PartialsAre ==
  ASSUME NEW b, NEW f, NEW n \in Nat, NEW p, Partials(b, f, n, p)
  PROVE  p[0] = NoPart(f) /\ \A i \in 1 .. n : p[i] = NextPart(p[i - 1], b)
<1> DEFINE E(i) == IF i = 0 THEN NoPart(f) ELSE NextPart(p[i - 1], b)
<1>1. p = [i \in 0 .. n |-> E(i)]
  BY DEF Partials
<1>2. \A i \in 0 .. n : [j \in 0 .. n |-> E(j)][i] = E(i)
  OBVIOUS
<1>3. \A i \in 0 .. n : p[i] = E(i)
  <2> HIDE DEF E
  <2>1. QED
    BY <1>1, <1>2
<1>4. QED
  BY <1>3

LEMMA PartialsExist ==
  ASSUME NEW b, NEW f, NEW c \in Nat
  PROVE  \E p : Partials(b, f, c, p)
<1> DEFINE S == {n \in Nat : \E p : Partials(b, f, n, p)}
<1>1. ASSUME NEW n \in Nat, \A m \in 0 .. n - 1 : m \in S PROVE n \in S
  <2>1. PICK q : n # 0 => Partials(b, f, n - 1, q)
    <3>1. n # 0 => n - 1 \in 0 .. n - 1
      OBVIOUS
    <3>2. QED
      BY <1>1, <3>1
  <2> DEFINE p == [i \in 0 .. n |-> IF i = 0 THEN NoPart(f) ELSE NextPart(q[i - 1], b)]
  <2>2. \A i \in 0 .. n : p[i] = IF i = 0 THEN NoPart(f) ELSE NextPart(q[i - 1], b)
    OBVIOUS
  <2>3. \A i \in 0 .. n : i # 0 => p[i - 1] = q[i - 1]
    <3>1. ASSUME NEW i \in 0 .. n, i # 0 PROVE p[i - 1] = q[i - 1]
      <4>1. i - 1 \in 0 .. n - 1 /\ n # 0 /\ n - 1 \in Nat /\ i - 1 \in 0 .. n
        BY <3>1
      <4>2. q[0] = NoPart(f) /\ \A j \in 1 .. n - 1 : q[j] = NextPart(q[j - 1], b)
        <5>1. Partials(b, f, n - 1, q) /\ n - 1 \in Nat
          BY <2>1, <4>1
        <5>2. QED
          BY <5>1, PartialsAre
      <4>3. QED
        BY <2>2, <4>1, <4>2
    <3>2. QED
      BY <3>1
  <2>4. p = [i \in 0 .. n |-> IF i = 0 THEN NoPart(f) ELSE NextPart(p[i - 1], b)]
    BY <2>3
  <2>5. Partials(b, f, n, p)
    BY <2>4 DEF Partials
  <2>6. QED
    BY <2>5
<1>2. Nat \subseteq S
  <2> HIDE DEF S
  <2>1. QED
    BY <1>1, AllNats
<1>3. QED
  BY <1>2

LEMMA PowerOf ==
  ASSUME NEW b \in Bases
  PROVE  /\ \A k \in Nat : Power(b, k) \in Nat
         /\ Power(b, 0) = 1 /\ \A k \in Nat : Power(b, k + 1) = b * Power(b, k)
<1> DEFINE S == {k \in Nat : Power(b, k) \in Nat}
<1>1. Power(b, 0) = 1 /\ (\A k \in Nat : Power(b, k + 1) = b * Power(b, k)) /\ b \in Nat
  <2>1. b \in Nat
    BY DEF Bases
  <2>2. QED
    BY <2>1, PowerIs
<1>2. ASSUME NEW k \in Nat, \A m \in 0 .. k - 1 : m \in S PROVE k \in S
  <2>1. CASE k = 0
    BY <1>1, <2>1
  <2>2. CASE k # 0
    <3>1. k - 1 \in 0 .. k - 1 /\ k - 1 \in Nat /\ (k - 1) + 1 = k
      BY <2>2
    <3>2. Power(b, k) = b * Power(b, k - 1) /\ Power(b, k - 1) \in Nat
      BY <1>1, <1>2, <3>1
    <3>3. QED
      BY <1>1, <3>2
  <2>3. QED
    BY <2>1, <2>2
<1>3. Nat \subseteq S
  <2> HIDE DEF S
  <2>1. QED
    BY <1>2, AllNats
<1>4. QED
  BY <1>1, <1>3

\* One digit more of a fraction.
LEMMA NextIs ==
  ASSUME NEW b \in Bases, NEW D \in Nat \ {0}, NEW N \in Nat, NEW r \in 0 .. D - 1
  PROVE  /\ (r * b) \div D \in Nat /\ (r * b) % D \in 0 .. D - 1
         /\ (N * b + (r * b) \div D) * D + ((r * b) % D) = b * (N * D + r)
<1> DEFINE x == r * b
           q == x \div D
           m == x % D
<1>1. x \in Nat
  BY DEF Bases
<1> HIDE DEF x
<1>2. q \in Nat /\ m \in 0 .. D - 1 /\ x = D * q + m
  BY <1>1
<1> HIDE DEF q, m
<1>3. b \in Nat /\ (N * b + q) * D + m = b * (N * D + r)
  <2>1. b \in Nat
    BY DEF Bases
  <2>2. (N * b + q) * D = b * (N * D) + D * q
    BY <1>2, <2>1
  <2>3. b * (N * D + r) = b * (N * D) + b * r
    BY <2>1
  <2>4. b * r = x
    BY <2>1 DEF x
  <2>5. N * D \in Nat /\ D * q \in Nat
    BY <1>2
  <2> DEFINE y == b * (N * D)
  <2>6. y \in Nat
    BY <2>1, <2>5
  <2> HIDE DEF y
  <2>7. QED
    BY <1>1, <1>2, <2>1, <2>2, <2>3, <2>4, <2>5, <2>6 DEF y
<1>4. QED
  BY <1>2, <1>3 DEF q, m, x

LEMMA ConcatAppend ==
  ASSUME NEW T, NEW s \in Seq(T), NEW t \in Seq(T), NEW e \in T
  PROVE  /\ s \o Append(t, e) = Append(s \o t, e) /\ s \o t \in Seq(T) /\ s \o <<>> = s
<1>1. /\ Append(t, e) = t \o <<e>> /\ Append(s \o t, e) = (s \o t) \o <<e>>
      /\ s \o t \in Seq(T) /\ <<e>> \in Seq(T)
  OBVIOUS
<1>2. (s \o t) \o <<e>> = s \o (t \o <<e>>)
  BY <1>1, ConcatAssociative
<1>3. s \o <<>> = s
  OBVIOUS
<1>4. QED
  BY <1>1, <1>2, <1>3

\* As far as the digits of a fraction go, they are those of the number.
PartOf(d, i, s, m, b) ==
  /\ d = Parts(d.digits, d.rest) /\ d.digits \in Seq(Nat) /\ d.rest \in 0 .. Den - 1
  /\ Number(s \o d.digits, b) \in Nat
  /\ Number(s \o d.digits, b) * Den + d.rest = m * Power(b, Len(d.digits))
  /\ Len(d.digits) <= i /\ (d.rest = 0 \/ Len(d.digits) = i)
  /\ d.digits = <<>> => d.rest = m % Den

LEMMA DenIs ==
  ASSUME NEW m \in Nat
  PROVE  /\ Den \in Nat \ {0} /\ m \div Den \in Nat /\ m % Den \in 0 .. Den - 1
         /\ (m \div Den) * Den + (m % Den) = m
<1>1. Den \in Nat \ {0}
  BY FormatterAssumption
<1>2. m = Den * (m \div Den) + (m % Den) /\ m \div Den \in Nat /\ m % Den \in 0 .. Den - 1
  BY <1>1
<1>3. QED
  BY <1>1, <1>2

LEMMA FirstPart ==
  ASSUME NEW b \in Bases, NEW m \in Nat, NEW s \in Seq(Nat), Number(s, b) = m \div Den
  PROVE  PartOf(NoPart(m % Den), 0, s, m, b)
<1> DEFINE f == m % Den
           d == NoPart(f)
<1>1. d.digits = <<>> /\ d.rest = f /\ d = Parts(d.digits, d.rest)
  BY DEF NoPart, Parts
<1>2. f \in 0 .. Den - 1 /\ m \div Den \in Nat /\ (m \div Den) * Den + f = m
  BY DenIs
<1>3. s \o <<>> = s /\ <<>> \in Seq(Nat) /\ Len(<<>>) = 0
  OBVIOUS
<1>4. Power(b, 0) = 1
  BY PowerOf
<1> HIDE DEF f, d
<1>5. Number(s \o d.digits, b) = m \div Den /\ Len(d.digits) = 0 /\ d.digits \in Seq(Nat)
  BY <1>1, <1>3
<1>6. Number(s \o d.digits, b) * Den + d.rest = m * Power(b, Len(d.digits))
  BY <1>1, <1>2, <1>4, <1>5
<1>7. QED
  BY <1>1, <1>2, <1>5, <1>6 DEF PartOf, f, d

LEMMA MorePart ==
  ASSUME NEW b \in Bases, NEW m \in Nat, NEW s \in Seq(Nat), NEW i \in Nat, NEW d, PartOf(d, i, s, m, b)
  PROVE  PartOf(NextPart(d, b), i + 1, s, m, b)
<1> DEFINE t == d.digits
           r == d.rest
           N == Number(s \o t, b)
<1>1. /\ t \in Seq(Nat) /\ r \in 0 .. Den - 1 /\ N \in Nat
      /\ N * Den + r = m * Power(b, Len(t)) /\ Len(t) <= i /\ (r = 0 \/ Len(t) = i)
      /\ Den \in Nat \ {0}
  BY DenIs DEF PartOf
<1>2. CASE r = 0
  <2>1. NextPart(d, b) = d
    BY <1>2 DEF NextPart
  <2>2. QED
    BY <1>1, <1>2, <2>1 DEF PartOf
<1>3. CASE r # 0
  <2> DEFINE q == (r * b) \div Den
             r1 == (r * b) % Den
             u == Append(t, q)
             e == NextPart(d, b)
  <2>1. e.digits = u /\ e.rest = r1 /\ e = Parts(e.digits, e.rest)
    BY <1>3 DEF NextPart, Parts
  <2>2. q \in Nat /\ r1 \in 0 .. Den - 1 /\ (N * b + q) * Den + r1 = b * (N * Den + r)
    <3> HIDE DEF N, r
    <3>1. QED
      BY <1>1, NextIs
  <2> HIDE DEF q, r1, t, r, N
  <2>3. /\ u \in Seq(Nat) /\ Len(u) = Len(t) + 1 /\ Len(t) \in Nat /\ u # <<>>
    BY <1>1, <2>2
  <2>4. Number(s \o u, b) = N * b + q
    <3>1. s \o u = Append(s \o t, q) /\ s \o t \in Seq(Nat)
      <4>1. t \in Seq(Nat) /\ q \in Nat
        BY <1>1, <2>2
      <4>2. QED
        BY <4>1, ConcatAppend DEF u
    <3>2. s \o t \in Seq(Int) /\ q \in Int
      BY <2>2, <3>1
    <3>3. QED
      BY <3>1, <3>2, NumberIs DEF N
  <2>5. N * b + q \in Nat
    <3>1. b \in Nat /\ N \in Nat /\ q \in Nat
      BY <1>1, <2>2 DEF Bases
    <3>2. QED
      BY <3>1
  <2>6. (N * b + q) * Den + r1 = m * Power(b, Len(t) + 1)
    <3>1. Power(b, Len(t) + 1) = b * Power(b, Len(t)) /\ Power(b, Len(t)) \in Nat
      BY <2>3, PowerOf
    <3> DEFINE p == Power(b, Len(t))
    <3>2. b * (m * p) = m * (b * p)
      <4>1. b \in Nat /\ p \in Nat
        BY <3>1 DEF Bases
      <4> HIDE DEF p
      <4>2. QED
        BY <4>1
    <3>3. QED
      BY <1>1, <2>2, <3>1, <3>2
  <2> HIDE DEF u, e
  <2>7. Len(t) = i
    BY <1>1, <1>3
  <2>8. /\ e.digits \in Seq(Nat) /\ e.rest \in 0 .. Den - 1 /\ Number(s \o e.digits, b) \in Nat
        /\ Number(s \o e.digits, b) * Den + e.rest = m * Power(b, Len(e.digits))
        /\ Len(e.digits) = i + 1 /\ e.digits # <<>>
    BY <2>1, <2>2, <2>3, <2>4, <2>5, <2>6, <2>7
  <2>9. e = Parts(e.digits, e.rest)
    BY <2>1
  <2>10. QED
    BY <2>8, <2>9 DEF PartOf, e
<1>4. QED
  BY <1>2, <1>3

FractionOf(b, f, c, p) ==
  /\ Fraction(f, b, c) = p[c].digits
  /\ p[0] = NoPart(f) /\ \A i \in 1 .. c : p[i] = NextPart(p[i - 1], b)

LEMMA FractionBy ==
  ASSUME NEW b, NEW f, NEW c \in Nat
  PROVE  \E p : FractionOf(b, f, c, p)
<1> DEFINE p == CHOOSE q : Partials(b, f, c, q)
<1>1. Fraction(f, b, c) = p[c].digits
  BY DEF Fraction, Partials, NoPart
<1>2. Partials(b, f, c, p)
  BY PartialsExist
<1> HIDE DEF p
<1>3. p[0] = NoPart(f) /\ \A i \in 1 .. c : p[i] = NextPart(p[i - 1], b)
  BY <1>2, PartialsAre
<1>4. QED
  BY <1>1, <1>3 DEF FractionOf

LEMMA FractionIs ==
  ASSUME NEW b \in Bases, NEW m \in Nat, NEW s \in Seq(Nat), Number(s, b) = m \div Den, NEW c \in Nat
  PROVE  \E d : PartOf(d, c, s, m, b) /\ Fraction(m % Den, b, c) = d.digits
<1>1. PICK p : /\ Fraction(m % Den, b, c) = p[c].digits
               /\ p[0] = NoPart(m % Den) /\ \A i \in 1 .. c : p[i] = NextPart(p[i - 1], b)
  <2>1. PICK p : FractionOf(b, m % Den, c, p)
    BY FractionBy
  <2>2. QED
    BY <2>1 DEF FractionOf
<1> DEFINE S == {i \in Nat : i <= c => PartOf(p[i], i, s, m, b)}
<1>3. ASSUME NEW i \in Nat, \A j \in 0 .. i - 1 : j \in S PROVE i \in S
  <2>1. SUFFICES ASSUME i <= c PROVE PartOf(p[i], i, s, m, b)
    OBVIOUS
  <2>2. CASE i = 0
    BY <1>1, <2>2, FirstPart
  <2>3. CASE i # 0
    <3>1. i - 1 \in 0 .. i - 1 /\ i - 1 \in Nat /\ (i - 1) + 1 = i /\ i - 1 <= c /\ i \in 1 .. c
      BY <2>1, <2>3
    <3>2. PartOf(p[i - 1], i - 1, s, m, b)
      BY <1>3, <3>1
    <3>3. PartOf(NextPart(p[i - 1], b), (i - 1) + 1, s, m, b)
      BY <3>1, <3>2, MorePart
    <3>4. QED
      BY <1>1, <3>1, <3>3
  <2>4. QED
    BY <2>2, <2>3
<1>4. Nat \subseteq S
  <2> HIDE DEF S
  <2>1. QED
    BY <1>3, AllNats
<1>5. PartOf(p[c], c, s, m, b)
  BY <1>4
<1>6. QED
  BY <1>1, <1>5

\* A decimal whose whole part has no more digits than are written.
Fitting(n) == \A b \in Bases : Len(Digits(Magnitude(n) \div Den, b)) <= MaxDigits

LEMMA NumberDenotes ==
  ASSUME NEW v, v.type = "int", v.n \in Int, NEW b \in Bases
  PROVE  Denotes(FmtInt(v.n, b), v, b)
<1> DEFINE s == IntDigits(v.n, b)
           tok == FmtInt(v.n, b)
<1>1. s # <<>> /\ Number(s, b) = Magnitude(v.n)
  BY IntDigitsAre
<1>2. /\ tok.t = "num" /\ tok.digits = s /\ tok.fract = <<>> /\ tok.more = FALSE
      /\ tok.neg = (v.n < 0)
  BY DEF FmtInt, Num
<1> HIDE DEF s, tok
<1>3. QED
  BY <1>1, <1>2 DEF Denotes, s, tok

LEMMA NumberAppend ==
  ASSUME NEW b \in Bases, NEW s \in Seq(Nat), NEW d \in Nat
  PROVE  Number(Append(s, d), b) = Number(s, b) * b + d
<1>1. s \in Seq(Int) /\ d \in Int
  OBVIOUS
<1>2. QED
  BY <1>1, NumberIs

\* A zero at the end.
LEMMA ZeroLast ==
  ASSUME NEW b \in Bases, NEW s \in Seq(Nat), NEW k \in Nat, Number(s, b) = k
  PROVE  Number(s \o <<0>>, b) = k * b
<1>1. s \o <<0>> = Append(s, 0) /\ 0 \in Nat
  OBVIOUS
<1>2. Number(Append(s, 0), b) = Number(s, b) * b + 0
  BY <1>1, NumberAppend
<1>3. b \in Nat
  BY DEF Bases
<1>4. k * b + 0 = k * b
  BY <1>3
<1>5. QED
  BY <1>1, <1>2, <1>4

LEMMA Zero ==
  ASSUME NEW b \in Bases
  PROVE  Number(<<0>>, b) = 0
<1>1. <<>> \in Seq(Nat) /\ 0 \in Nat /\ <<>> \o <<0>> = <<0>>
  OBVIOUS
<1>2. Number(<<>>, b) = 0
  BY NumberIs
<1>3. Number(<<>> \o <<0>>, b) = 0 * b
  BY <1>1, <1>2, ZeroLast
<1>4. b \in Nat
  BY DEF Bases
<1>5. 0 * b = 0
  BY <1>4
<1>6. QED
  BY <1>1, <1>3, <1>5

LEMMA Whole ==
  ASSUME NEW s \in Seq(Nat), Len(s) <= MaxDigits
  PROVE  SubSeq(s, Max({1, Len(s) - MaxDigits + 1}), Len(s)) = s
<1> DEFINE k == Len(s) - MaxDigits + 1
<1>1. MaxDigits \in Nat /\ Len(s) \in Nat
  BY FormatterAssumption
<1>2. k \in Int /\ k <= 1
  BY <1>1
<1> HIDE DEF k
<1>3. Max({1, k}) = 1
  <2>1. \A x \in {1, k} : (\A y \in {1, k} : x >= y) => x = 1
    BY <1>2
  <2>2. \A y \in {1, k} : 1 >= y
    BY <1>2
  <2>3. QED
    BY <2>1, <2>2 DEF Max
<1>4. SubSeq(s, 1, Len(s)) = s
  <2> DEFINE t == SubSeq(s, 1, Len(s))
  <2>1. t \in Seq(Nat) /\ Len(t) = Len(s) /\ \A i \in 1 .. Len(s) : t[i] = s[i]
    BY <1>1
  <2> HIDE DEF t
  <2>2. t = s
    BY <2>1, SeqEqual
  <2>3. QED
    BY <2>2 DEF t
<1>5. QED
  BY <1>3, <1>4 DEF k

\* What is written of a decimal leads to it.
LEMMA Exact ==
  ASSUME NEW tok, NEW m \in Nat, NEW b \in Bases, tok.more = FALSE, NEW s, NEW t, tok.digits = s, tok.fract = t,
         s \in Seq(Nat), t \in Seq(Nat),
         NEW rest \in 0 .. Den - 1, Number(s \o t, b) \in Nat,
         Number(s \o t, b) * Den + rest = m * Power(b, Len(t)),
         rest = 0 \/ Len(s) + Len(t) >= MaxDigits
  PROVE  Leads(tok, m, b)
<1> DEFINE read == Number(s \o t, b) * Den
           all == m * Power(b, Len(t))
<1>1. Den \in Nat
  BY FormatterAssumption
<1>2. read \in Nat
  <2> DEFINE N == Number(s \o t, b)
  <2>1. N \in Nat
    OBVIOUS
  <2> HIDE DEF N
  <2>2. N * Den \in Nat
    BY <1>1, <2>1
  <2>3. QED
    BY <2>2 DEF N
<1>3. read + rest = all
  OBVIOUS
<1>4. Leads(tok, m, b) <=> (read = all \/ (Len(s) + Len(t) >= MaxDigits /\ read <= all /\ all < read + Den))
  BY DEF Leads
<1> HIDE DEF read, all
<1>5. read <= all /\ all < read + Den /\ (rest = 0 => read = all)
  <2>1. rest \in Nat /\ rest < Den
    BY <1>1
  <2>2. \A x \in Nat : x <= x + rest /\ x + rest < x + Den /\ (rest = 0 => x = x + rest)
    BY <1>1, <2>1
  <2>3. QED
    BY <1>2, <1>3, <2>2
<1>6. QED
  BY <1>4, <1>5

LEMMA DecimalDenotes ==
  ASSUME NEW v, v.type = "dec", v.n \in Int, Fitting(v.n), NEW b \in Bases
  PROVE  Denotes(FmtDec(v.n, b), v, b)
<1> DEFINE m == Magnitude(v.n)
           s == Digits(m \div Den, b)
           c == MaxDigits - Len(s)
           tok == FmtDec(v.n, b)
<1>1. m \in Nat /\ (v.n # 0 => m # 0) /\ (v.n = 0 => m = 0)
  BY DEF Magnitude
<1>2. MaxDigits \in Nat \ {0} /\ Den \in Nat \ {0}
  BY FormatterAssumption
<1>3. m \div Den \in Nat /\ m % Den \in 0 .. Den - 1 /\ (m \div Den) * Den + (m % Den) = m
  BY <1>1, DenIs
<1>4. s \in Seq(Nat) /\ Number(s, b) = m \div Den /\ Len(s) <= MaxDigits
  <2>1. DigitsOf(s, m \div Den, b)
    BY <1>3, DigitsAre
  <2>2. Len(s) <= MaxDigits
    BY DEF Fitting
  <2>3. QED
    BY <2>1, <2>2 DEF DigitsOf
<1>5. SubSeq(s, Max({1, Len(s) - MaxDigits + 1}), Len(s)) = s
  BY <1>4, Whole
<1>6. tok = IF v.n = 0 THEN Num(FALSE, <<0>>, <<0>>, FALSE)
            ELSE IF Len(s) = MaxDigits THEN Num(v.n < 0, s, <<>>, TRUE)
            ELSE Num(v.n < 0, s, IF Fraction(m % Den, b, c) = <<>> THEN <<0>> ELSE Fraction(m % Den, b, c), FALSE)
  BY <1>5 DEF FmtDec, RoomAfter
<1>7. SUFFICES /\ tok.t = "num" /\ (tok.fract # <<>> \/ tok.more)
               /\ tok.neg = (v.n < 0) /\ Leads(tok, m, b)
  BY DEF Denotes
<1> HIDE DEF m, s, c, tok
<1>8. CASE v.n = 0
  <2>1. tok.t = "num" /\ tok.digits = <<0>> /\ tok.fract = <<0>> /\ tok.more = FALSE /\ tok.neg = FALSE
    BY <1>6, <1>8 DEF Num
  <2>2. <<0>> \in Seq(Nat) /\ <<0>> # <<>> /\ Len(<<0>>) \in Nat
    OBVIOUS
  <2>3. Number(<<0>> \o <<0>>, b) = 0
    <3>1. Number(<<0>> \o <<0>>, b) = 0 * b
      BY <2>2, Zero, ZeroLast
    <3>2. b \in Nat
      BY DEF Bases
    <3>3. QED
      BY <3>1, <3>2
  <2> DEFINE z == <<0>>
  <2>4. /\ z \in Seq(Nat) /\ Number(z \o z, b) = 0 /\ tok.digits = z /\ tok.fract = z
        /\ Len(z) \in Nat /\ z # <<>>
    BY <2>1, <2>2, <2>3
  <2> HIDE DEF z
  <2>5. Number(z \o z, b) * Den + 0 = m * Power(b, Len(z))
    <3>1. Power(b, Len(z)) \in Nat
      BY <2>4, PowerOf
    <3>2. QED
      BY <1>1, <1>2, <1>8, <2>4, <3>1
  <2>6. 0 \in 0 .. Den - 1
    BY <1>2
  <2>7. Leads(tok, m, b)
    <3>1. Number(z \o z, b) \in Nat
      BY <2>4
    <3>2. tok.more = FALSE
      BY <2>1
    <3>3. QED
      BY <1>1, <2>4, <2>5, <2>6, <3>1, <3>2, Exact
  <2>8. tok.neg = (v.n < 0)
    <3>1. (v.n < 0) = FALSE
      BY <1>8
    <3>2. QED
      BY <2>1, <3>1, Zenon
  <2>9. QED
    BY <2>1, <2>4, <2>7, <2>8
<1>9. CASE v.n # 0 /\ Len(s) = MaxDigits
  <2>1. tok.t = "num" /\ tok.digits = s /\ tok.more = TRUE /\ tok.neg = (v.n < 0)
    BY <1>6, <1>9 DEF Num
  <2>2. Len(s) - MaxDigits = 0 /\ Power(b, 0) = 1 /\ (m \div Den) \div 1 = m \div Den
    BY <1>2, <1>3, <1>9, PowerOf
  <2>3. Leads(tok, m, b) <=> /\ Len(s) - MaxDigits \in Nat
                             /\ Number(s, b) = (m \div Den) \div Power(b, Len(s) - MaxDigits)
    BY <2>1 DEF Leads, s
  <2>4. QED
    BY <1>4, <2>1, <2>2, <2>3
<1>10. CASE v.n # 0 /\ Len(s) # MaxDigits
  <2>1. c \in Nat \ {0}
    BY <1>2, <1>4, <1>10 DEF c
  <2>2. PICK d : PartOf(d, c, s, m, b) /\ Fraction(m % Den, b, c) = d.digits
    <3>1. c \in Nat
      BY <2>1
    <3>2. QED
      BY <1>1, <1>4, <3>1, FractionIs
  <2> DEFINE t == IF d.digits = <<>> THEN <<0>> ELSE d.digits
  <2>3. tok.t = "num" /\ tok.digits = s /\ tok.fract = t /\ tok.more = FALSE /\ tok.neg = (v.n < 0)
    BY <1>6, <1>10, <2>2 DEF Num
  <2>4. /\ d.digits \in Seq(Nat) /\ d.rest \in 0 .. Den - 1
        /\ Number(s \o d.digits, b) \in Nat
        /\ Number(s \o d.digits, b) * Den + d.rest = m * Power(b, Len(d.digits))
        /\ Len(d.digits) <= c /\ (d.rest = 0 \/ Len(d.digits) = c)
        /\ d.digits = <<>> => d.rest = m % Den
    BY <2>2 DEF PartOf
  <2>5. CASE d.digits # <<>>
    <3>1. t = d.digits
      BY <2>5
    <3> HIDE DEF t
    <3>2. d.rest = 0 \/ Len(s) + Len(t) >= MaxDigits
      <4>1. CASE d.rest = 0
        BY <4>1
      <4>2. CASE Len(t) = c
        <5>1. Len(s) \in Nat
          BY <1>4
        <5>2. QED
          BY <1>2, <4>2, <5>1 DEF c
      <4>3. QED
        BY <2>4, <3>1, <4>1, <4>2
    <3>3. Leads(tok, m, b)
      <4>1. t \in Seq(Nat) /\ d.rest \in 0 .. Den - 1 /\ Number(s \o t, b) \in Nat
            /\ Number(s \o t, b) * Den + d.rest = m * Power(b, Len(t))
        BY <2>4, <3>1
      <4> DEFINE r == d.rest
      <4> HIDE DEF r
      <4>2. QED
        BY <1>1, <1>4, <2>3, <3>2, <4>1, Exact DEF r
    <3>4. QED
      BY <2>3, <2>5, <3>1, <3>3
  <2>6. CASE d.digits = <<>>
    <3> DEFINE z == <<0>>
    <3>1. t = z /\ z # <<>> /\ z \in Seq(Nat) /\ Len(z) = 1 /\ s \o z = Append(s, 0)
          /\ s \o <<>> = s /\ Len(<<>>) = 0
      BY <1>4, <2>6
    <3>2. d.rest = 0
      BY <2>1, <2>4, <2>6, <3>1
    <3>3. Number(s \o z, b) = (m \div Den) * b
      <4>1. Number(s, b) \in Nat
        BY <1>3, <1>4
      <4>2. QED
        BY <1>3, <1>4, <4>1, ZeroLast
    <3> HIDE DEF t, z
    <3>4. b \in Nat /\ Power(b, 1) = b
      <4>1. b \in Nat /\ 0 \in Nat /\ 0 + 1 = 1
        BY DEF Bases
      <4>2. Power(b, 0 + 1) = b * Power(b, 0) /\ Power(b, 0) = 1
        BY <4>1, PowerOf
      <4>3. QED
        BY <4>1, <4>2
    <3>5. (m \div Den) * Den = m
      <4>1. m % Den = 0
        BY <2>4, <2>6, <3>2
      <4>2. QED
        BY <1>2, <1>3, <4>1
    <3>6. Number(s \o z, b) \in Nat /\ Number(s \o z, b) * Den + 0 = m * Power(b, Len(z))
      <4> DEFINE k == m \div Den
      <4>1. k \in Nat /\ k * Den = m /\ Number(s \o z, b) = k * b
        BY <1>3, <1>4, <3>3, <3>4, <3>5
      <4> HIDE DEF k
      <4>2. k * b \in Nat /\ (k * b) * Den = (k * Den) * b
        BY <1>2, <3>4, <4>1
      <4>3. QED
        BY <1>1, <3>1, <3>4, <4>1, <4>2
    <3>7. 0 \in 0 .. Den - 1
      BY <1>2
    <3>8. Leads(tok, m, b)
      BY <1>1, <1>4, <2>3, <3>1, <3>6, <3>7, Exact
    <3>9. QED
      BY <2>3, <3>1, <3>8
  <2>7. QED
    BY <2>5, <2>6
<1>11. QED
  BY <1>8, <1>9, <1>10

-------------------------------------------------------------------------------
(* Frames. *)

LEMMA OrderIs ==
  ASSUME HeapType
  PROVE  /\ IsSeq(order) /\ IsInjective(order) /\ Range(order) = Key
         /\ \A k \in Key : k.type = "int" => k = IntVal(k.n) /\ k.n \in -IntLimit .. IntLimit - 1
BY DEF HeapType, Keyable, IsKey, Key

LEMMA LimitIs == IntLimit \in Int
<1>1. Width - 1 \in Nat
  BY FormatterAssumption
<1>2. QED
  BY <1>1, TwoIs DEF IntLimit

\* The comparison of the second pass finds the keys of the first.
LEMMA InSequenceIs ==
  ASSUME HeapType, NEW f, f.index \in Nat, f.index = 0 \/ f.index <= IntLimit, NEW k \in Key
  PROVE  InSequence(k, f.index) <=> k \in InPlace(f)
<1>1. ASSUME k \in InPlace(f) PROVE InSequence(k, f.index)
  <2>1. PICK n \in 0 .. f.index - 1 : k = IntVal(n)
    BY <1>1 DEF InPlace
  <2>2. k.type = "int" /\ k.n = n
    BY <2>1 DEF IntVal, Value
  <2>3. n % (2 * IntLimit) = n
    BY LimitIs
  <2>4. QED
    BY <2>2, <2>3 DEF InSequence
<1>2. ASSUME InSequence(k, f.index) PROVE k \in InPlace(f)
  <2>1. k = IntVal(k.n) /\ k.n \in -IntLimit .. IntLimit - 1
    BY <1>2, OrderIs DEF InSequence
  <2>2. k.n % (2 * IntLimit) < f.index
    BY <1>2 DEF InSequence
  <2>3. IntLimit \in Nat
    BY <2>1, LimitIs
  <2>4. k.n % (2 * IntLimit) = IF k.n >= 0 THEN k.n ELSE k.n + 2 * IntLimit
    <3> DEFINE n == k.n
               H == IntLimit
    <3>1. n \in -H .. H - 1 /\ H \in Nat
      BY <2>1, <2>3
    <3> HIDE DEF n, H
    <3>2. n % (2 * H) = IF n >= 0 THEN n ELSE n + 2 * H
      BY <3>1
    <3>3. QED
      BY <3>2 DEF n, H
  <2>5. k.n \in 0 .. f.index - 1
    BY <2>1, <2>2, <2>3, <2>4
  <2>6. QED
    BY <2>1, <2>5 DEF InPlace
<1>3. QED
  BY <1>1, <1>2

\* A call of fmtRec begins.
LEMMA FrameIs ==
  ASSUME HeapType, NEW r \in DOMAIN heap
  PROVE  FrameInv(Frame(r))
<1> DEFINE f == Frame(r)
<1>1. /\ IsFrame(f) /\ f.rec = r /\ f.pass = "sequence" /\ f.index = 0
      /\ f.todo = <<>> /\ f.shown = <<>>
      /\ f.lasting = {<<k, Get(r, k)>> : k \in Keys(r)}
  BY DEF Frame, IsFrame
<1> HIDE DEF f
<1>2. FrameType(f)
  BY <1>1 DEF FrameType, IsSeq, IsInjective, ToCome, Range
<1>3. NotAgain(f)
  BY <1>1 DEF NotAgain, Shown
<1>4. InPlace(f) = {}
  BY <1>1 DEF InPlace
<1>5. \A k \in Keys(r) : k \in Key /\ Get(r, k) # Udf
  BY DEF Keys
<1>6. Lasts(f)
  <2>1. SUFFICES ASSUME NEW e \in f.lasting
                 PROVE  e[1] \in Key /\ e[2] = Get(r, e[1]) /\ e[2] # Udf /\ e = <<e[1], e[2]>>
    BY <1>1, <1>4 DEF Lasts
  <2>2. PICK k \in Keys(r) : e = <<k, Get(r, k)>>
    BY <1>1
  <2>3. e[1] = k /\ e[2] = Get(r, k)
    BY <2>2
  <2>4. QED
    BY <1>5, <2>2, <2>3
<1>7. QED
  BY <1>2, <1>3, <1>6 DEF FrameInv, f

LEMMA GetIs ==
  ASSUME HeapType, NEW r \in DOMAIN heap, NEW k, Get(r, k) # Udf
  PROVE  k \in Key /\ Exists(Get(r, k))
BY DEF Get, HeapType, Keyable

\* The field of the next whole number is shown.
LEMMA SequencedIs ==
  ASSUME HeapType, NEW f, FrameInv(f), f.pass = "sequence",
         NEW v, v = Get(f.rec, IntVal(f.index)), v # Udf
  PROVE  FrameInv([Shows(f, IntVal(f.index), v) EXCEPT !.index = f.index + 1])
<1> DEFINE k == IntVal(f.index)
           e == <<k, v>>
           g == [Shows(f, k, v) EXCEPT !.index = f.index + 1]
<1>1. /\ IsFrame(g) /\ g.rec = f.rec /\ g.pass = f.pass /\ g.index = f.index + 1
      /\ g.todo = f.todo /\ g.shown = Append(f.shown, e) /\ g.lasting = f.lasting
  <2> DEFINE h == [f EXCEPT !.shown = Append(f.shown, e)]
  <2>1. IsFrame(f)
    BY DEF FrameInv, FrameType
  <2>2. h = [rec |-> f.rec, pass |-> f.pass, index |-> f.index, todo |-> f.todo,
             empty |-> f.empty, shown |-> Append(f.shown, e), lasting |-> f.lasting]
    <3> DEFINE s == Append(f.shown, e)
    <3>1. [f EXCEPT !.shown = s] =
            [rec |-> f.rec, pass |-> f.pass, index |-> f.index, todo |-> f.todo,
             empty |-> f.empty, shown |-> s, lasting |-> f.lasting]
      <4> HIDE DEF s
      <4>1. QED
        BY <2>1 DEF IsFrame
    <3>2. QED
      BY <3>1
  <2>3. g = [h EXCEPT !.index = f.index + 1]
    BY DEF Shows
  <2>4. IsFrame(h) /\ h.rec = f.rec /\ h.pass = f.pass /\ h.todo = f.todo /\ h.shown = Append(f.shown, e)
        /\ h.lasting = f.lasting
    <3> DEFINE s == Append(f.shown, e)
    <3> HIDE DEF s, h
    <3>1. QED
      BY <2>2 DEF IsFrame, s
  <2> HIDE DEF h
  <2>5. QED
    BY <2>3, <2>4 DEF IsFrame
<1>2. FrameType(f) /\ NotAgain(f) /\ Lasts(f)
  BY DEF FrameInv
<1>8. e[1] = k /\ e[2] = v /\ e = <<e[1], e[2]>>
  OBVIOUS
<1> HIDE DEF g, e
<1>3. k \in Key
  BY <1>2, GetIs DEF FrameType
<1>4. k.type = "int" /\ k.n = f.index /\ f.index \in Nat
  BY <1>2 DEF IntVal, Value, FrameType
<1>5. f.index + 1 <= IntLimit
  BY <1>3, <1>4, OrderIs, LimitIs
<1>6. InPlace(g) = InPlace(f) \union {k} /\ k \notin InPlace(f)
  <2>1. 0 .. g.index - 1 = (0 .. f.index - 1) \union {f.index} /\ f.index \notin 0 .. f.index - 1
    BY <1>1, <1>4
  <2>2. \A n, m : IntVal(n) = IntVal(m) => n = m
    BY DEF IntVal, Value
  <2>3. QED
    BY <2>1, <2>2 DEF InPlace
<1>7. /\ IsSeq(g.shown) /\ Range(g.shown) = Range(f.shown) \union {e}
      /\ DOMAIN g.shown = 1 .. Len(f.shown) + 1 /\ DOMAIN f.shown = 1 .. Len(f.shown)
      /\ Len(f.shown) \in Nat
      /\ \A i \in DOMAIN f.shown : g.shown[i] = f.shown[i]
      /\ g.shown[Len(f.shown) + 1] = e
  BY <1>1, <1>2, AppendIs, SeqIs DEF FrameType
<1> HIDE DEF k
<1>9. FrameType(g)
  BY <1>1, <1>2, <1>4, <1>5, <1>7 DEF FrameType, ToCome
<1>10. NotAgain(g)
  <2>1. \A j \in DOMAIN g.shown : j \in DOMAIN f.shown \/ j = Len(f.shown) + 1
    BY <1>7
  <2>2. \A j \in DOMAIN f.shown : f.shown[j][1] \in InPlace(f) /\ f.shown[j][1] # k
    BY <1>2, <1>6 DEF NotAgain, Shown
  <2>3. \A j, l \in DOMAIN g.shown : g.shown[j][1] = g.shown[l][1] => j = l
    <3>1. \A j, l \in DOMAIN f.shown : f.shown[j][1] = f.shown[l][1] => j = l
      BY <1>2 DEF NotAgain
    <3>2. QED
      BY <1>7, <1>8, <2>1, <2>2, <3>1
  <2>4. \A j \in DOMAIN g.shown : g.shown[j][1] \in InPlace(g)
    BY <1>6, <1>7, <1>8, <2>1, <2>2
  <2>5. \A j \in DOMAIN g.shown : g.shown[j][1] \in Key
    BY <1>2, <1>3, <1>7, <1>8, <2>1 DEF NotAgain
  <2>6. QED
    BY <2>3, <2>4, <2>5 DEF NotAgain, Shown
<1>11. Lasts(g)
  <2>1. SUFFICES ASSUME NEW d \in f.lasting
                 PROVE  /\ d[1] \in Key /\ d[2] = Get(g.rec, d[1]) /\ d[2] # Udf /\ d = <<d[1], d[2]>>
                        /\ d[1] \in InPlace(g) => d \in Range(g.shown)
    BY <1>1 DEF Lasts
  <2>2. /\ d[1] \in Key /\ d[2] = Get(g.rec, d[1]) /\ d[2] # Udf /\ d = <<d[1], d[2]>>
        /\ d[1] \in InPlace(f) => d \in Range(f.shown)
    BY <1>1, <1>2 DEF Lasts
  <2>3. d[1] = k => d = e
    BY <1>1, <2>2, <1>8 DEF k, e
  <2>4. QED
    BY <1>6, <1>7, <2>2, <2>3
<1>12. QED
  BY <1>9, <1>10, <1>11 DEF FrameInv, g, k

\* The second pass begins, with all keys to come.
LEMMA SequenceEndsIs ==
  ASSUME HeapType, NEW f, FrameInv(f), NEW b
  PROVE  f.pass = "sequence" =>
         FrameInv([f EXCEPT !.pass = "keyed", !.todo = order, !.empty = b])
<1> DEFINE g == [f EXCEPT !.pass = "keyed", !.todo = order, !.empty = b]
<1>0. SUFFICES ASSUME f.pass = "sequence" PROVE FrameInv(g)
  OBVIOUS
<1>1. /\ IsFrame(g) /\ g.rec = f.rec /\ g.pass = "keyed" /\ g.index = f.index
      /\ g.todo = order /\ g.shown = f.shown /\ g.lasting = f.lasting
  <2> DEFINE h == [f EXCEPT !.pass = "keyed"]
             i == [h EXCEPT !.todo = order]
  <2>1. IsFrame(f) /\ g = [i EXCEPT !.empty = b]
    BY DEF FrameInv, FrameType
  <2>2. /\ IsFrame(h) /\ h.rec = f.rec /\ h.pass = "keyed" /\ h.index = f.index
        /\ h.shown = f.shown /\ h.lasting = f.lasting
    BY <2>1 DEF IsFrame
  <2> HIDE DEF h
  <2>3. /\ IsFrame(i) /\ i.rec = f.rec /\ i.pass = "keyed" /\ i.index = f.index
        /\ i.shown = f.shown /\ i.lasting = f.lasting /\ i.todo = order
    BY <2>2 DEF IsFrame
  <2> HIDE DEF i
  <2>4. QED
    BY <2>1, <2>3 DEF IsFrame
<1>2. FrameType(f) /\ NotAgain(f) /\ Lasts(f)
  BY DEF FrameInv
<1> HIDE DEF g
<1>3. FrameType(g)
  BY <1>1, <1>2, OrderIs DEF FrameType, ToCome
<1>4. NotAgain(g)
  BY <1>0, <1>1, <1>2 DEF NotAgain, Shown, InPlace
<1>5. Lasts(g)
  BY <1>1, <1>2, OrderIs DEF Lasts, InPlace, ToCome
<1>6. QED
  BY <1>3, <1>4, <1>5 DEF FrameInv, g

\* An iterator goes on to place m; the fields that were there before it are gone.
AtPlace(f, m) == [f EXCEPT !.todo = SubSeq(f.todo, m + 1, Len(f.todo))]

LEMMA AtPlaceIs ==
  ASSUME HeapType, NEW f, FrameInv(f), f.pass = "keyed", NEW m \in DOMAIN f.todo
  PROVE  LET g == AtPlace(f, m)
         IN /\ IsFrame(g) /\ g.rec = f.rec /\ g.pass = f.pass /\ g.index = f.index
            /\ g.shown = f.shown /\ g.lasting = f.lasting
            /\ FrameType(g) /\ NotAgain(g)
            /\ f.todo[m] \in Key /\ f.todo[m] \in ToCome(f) /\ f.todo[m] \notin ToCome(g)
            /\ \A i \in DOMAIN f.todo : i > m => f.todo[i] \in ToCome(g)
<1> DEFINE t == SubSeq(f.todo, m + 1, Len(f.todo))
           g == AtPlace(f, m)
<1>1. FrameType(f) /\ NotAgain(f)
  BY DEF FrameInv
<1>2. /\ IsSeq(t) /\ IsInjective(t) /\ Range(t) \subseteq Range(f.todo)
      /\ f.todo[m] \notin Range(t)
      /\ \A i \in DOMAIN f.todo : i > m => f.todo[i] \in Range(t)
  BY <1>1, RestIs DEF FrameType
<1>3. g = [f EXCEPT !.todo = t]
  BY DEF AtPlace
<1> HIDE DEF t, g
<1>4. /\ IsFrame(g) /\ g.rec = f.rec /\ g.pass = f.pass /\ g.index = f.index
      /\ g.shown = f.shown /\ g.lasting = f.lasting /\ g.todo = t
  BY <1>1, <1>3 DEF FrameType, IsFrame
<1>5. f.todo[m] \in ToCome(f)
  BY DEF ToCome, Range
<1>6. FrameType(g)
  BY <1>1, <1>2, <1>4 DEF FrameType, ToCome
<1>7. NotAgain(g)
  BY <1>1, <1>2, <1>4 DEF NotAgain, Shown, InPlace, ToCome
<1>8. QED
  BY <1>1, <1>2, <1>4, <1>5, <1>6, <1>7 DEF g, ToCome, FrameType

\* The place of the next field: nothing that is there is before it.
LEMMA AheadIs ==
  ASSUME NEW f, IsSeq(f.todo), Ahead(f) # {}
  PROVE  LET m == Min(Ahead(f))
         IN /\ m \in DOMAIN f.todo /\ Get(f.rec, f.todo[m]) # Udf
            /\ \A i \in DOMAIN f.todo : Get(f.rec, f.todo[i]) # Udf => i >= m
<1>1. DOMAIN f.todo \subseteq Nat
  BY SeqIs
<1>2. Ahead(f) \in SUBSET Nat
  BY <1>1 DEF Ahead
<1>3. Min(Ahead(f)) \in Ahead(f) /\ \A n \in Ahead(f) : Min(Ahead(f)) <= n
  BY <1>2, MinIs
<1>4. QED
  BY <1>1, <1>3 DEF Ahead

\* A field that lasts and is to come is at place m or after it.
LEMMA LastsAtPlace ==
  ASSUME HeapType, NEW f, FrameInv(f), f.pass = "keyed", Ahead(f) # {}, NEW e \in f.lasting
  PROVE  LET m == Min(Ahead(f))
         IN e[1] \in ToCome(f) => e[1] = f.todo[m] \/ e[1] \in ToCome(AtPlace(f, m))
<1> DEFINE m == Min(Ahead(f))
<1>1. IsSeq(f.todo) /\ Lasts(f)
  BY DEF FrameInv, FrameType
<1>2. SUFFICES ASSUME NEW i \in DOMAIN f.todo, e[1] = f.todo[i]
               PROVE  e[1] = f.todo[m] \/ e[1] \in ToCome(AtPlace(f, m))
  BY DEF ToCome, Range
<1>3. Get(f.rec, f.todo[i]) # Udf
  BY <1>1, <1>2 DEF Lasts
<1>4. m \in DOMAIN f.todo /\ i >= m /\ i \in Nat /\ m \in Nat
  BY <1>1, <1>3, AheadIs, SeqIs
<1>5. \A j \in DOMAIN f.todo : j > m => f.todo[j] \in ToCome(AtPlace(f, m))
  BY <1>4, AtPlaceIs
<1> HIDE DEF m
<1>6. QED
  BY <1>2, <1>4, <1>5

\* A key that the first pass has dealt with is left out.
LEMMA SkippedIs ==
  ASSUME HeapType, NEW f, FrameInv(f), f.pass = "keyed", Ahead(f) # {},
         InSequence(f.todo[Min(Ahead(f))], f.index)
  PROVE  FrameInv(After(f))
<1> DEFINE m == Min(Ahead(f))
           k == f.todo[m]
           g == AtPlace(f, m)
<1>1. FrameType(f) /\ Lasts(f) /\ m \in DOMAIN f.todo
  BY AheadIs DEF FrameInv, FrameType
<1>2. After(f) = g
  BY DEF After, AtPlace
<1>3. /\ g.rec = f.rec /\ g.pass = f.pass /\ g.index = f.index
      /\ g.shown = f.shown /\ g.lasting = f.lasting
      /\ FrameType(g) /\ NotAgain(g) /\ k \in Key
  BY <1>1, AtPlaceIs
<1>4. k \in InPlace(f)
  BY <1>1, <1>3, InSequenceIs DEF FrameType
<1>5. \A e \in f.lasting : e[1] \in ToCome(f) => e[1] = k \/ e[1] \in ToCome(g)
  BY LastsAtPlace
<1>6. InPlace(g) = InPlace(f)
  BY <1>3 DEF InPlace
<1> HIDE DEF g, k
<1>7. Lasts(g)
  BY <1>1, <1>3, <1>4, <1>5, <1>6 DEF Lasts
<1>8. QED
  BY <1>2, <1>3, <1>7 DEF FrameInv

\* A field is shown with its key.
LEMMA KeyedIs ==
  ASSUME HeapType, NEW f, FrameInv(f), f.pass = "keyed", Ahead(f) # {},
         NEW k, k = f.todo[Min(Ahead(f))], ~InSequence(k, f.index),
         NEW v, v = Get(f.rec, k), NEW b
  PROVE  FrameInv([Shows(After(f), k, v) EXCEPT !.empty = b])
<1> DEFINE m == Min(Ahead(f))
           e == <<k, v>>
           h == AtPlace(f, m)
           i == [h EXCEPT !.shown = Append(f.shown, e)]
           g == [i EXCEPT !.empty = b]
<1>1. FrameType(f) /\ NotAgain(f) /\ Lasts(f) /\ m \in DOMAIN f.todo
  BY AheadIs DEF FrameInv, FrameType
<1>2. /\ IsFrame(h) /\ h.rec = f.rec /\ h.pass = f.pass /\ h.index = f.index
      /\ h.shown = f.shown /\ h.lasting = f.lasting
      /\ FrameType(h) /\ NotAgain(h) /\ k \in Key /\ k \in ToCome(f) /\ k \notin ToCome(h)
  BY <1>1, AtPlaceIs
<1>3. k \notin InPlace(f)
  BY <1>1, <1>2, InSequenceIs DEF FrameType
<1>4. \A d \in f.lasting : d[1] \in ToCome(f) => d[1] = k \/ d[1] \in ToCome(h)
  BY LastsAtPlace
<1>5. [Shows(After(f), k, v) EXCEPT !.empty = b] = g
  <2>1. After(f) = h
    BY DEF After, AtPlace
  <2> HIDE DEF h
  <2>2. QED
    BY <1>2, <2>1 DEF Shows
<1>6. e[1] = k /\ e[2] = v /\ e = <<e[1], e[2]>>
  OBVIOUS
<1> HIDE DEF h, e
<1>7. /\ IsSeq(Append(f.shown, e)) /\ Range(Append(f.shown, e)) = Range(f.shown) \union {e}
      /\ DOMAIN Append(f.shown, e) = 1 .. Len(f.shown) + 1 /\ DOMAIN f.shown = 1 .. Len(f.shown)
      /\ Len(f.shown) \in Nat
      /\ \A j \in DOMAIN f.shown : Append(f.shown, e)[j] = f.shown[j]
      /\ Append(f.shown, e)[Len(f.shown) + 1] = e
  BY <1>1, AppendIs, SeqIs DEF FrameType
<1> DEFINE s == Append(f.shown, e)
<1>8. /\ IsFrame(i) /\ i.rec = f.rec /\ i.pass = f.pass /\ i.index = f.index
      /\ i.todo = h.todo /\ i.shown = s /\ i.lasting = f.lasting
  <2> HIDE DEF s
  <2>1. i = [h EXCEPT !.shown = s]
    BY DEF s
  <2> HIDE DEF i
  <2>2. QED
    BY <1>2, <2>1 DEF IsFrame
<1> HIDE DEF i, s
<1>9. /\ IsFrame(g) /\ g.rec = f.rec /\ g.pass = f.pass /\ g.index = f.index
      /\ g.todo = h.todo /\ g.shown = s /\ g.lasting = f.lasting
  BY <1>8 DEF IsFrame
<1> HIDE DEF g
<1>10. /\ IsSeq(g.shown) /\ Range(g.shown) = Range(f.shown) \union {e}
       /\ DOMAIN g.shown = 1 .. Len(f.shown) + 1
       /\ \A j \in DOMAIN f.shown : g.shown[j] = f.shown[j]
       /\ g.shown[Len(f.shown) + 1] = e
  BY <1>7, <1>9 DEF s
<1>11. FrameType(g)
  BY <1>1, <1>2, <1>9, <1>10 DEF FrameType, ToCome
<1>12. InPlace(g) = InPlace(f) /\ ToCome(g) = ToCome(h) /\ ToCome(h) \subseteq ToCome(f)
  <2>1. ToCome(h) \subseteq ToCome(f)
    <3>1. Range(SubSeq(f.todo, m + 1, Len(f.todo))) \subseteq Range(f.todo)
      BY <1>1, RestIs DEF FrameType
    <3>2. h.todo = SubSeq(f.todo, m + 1, Len(f.todo))
      BY <1>1 DEF h, AtPlace, FrameType, IsFrame
    <3>3. QED
      BY <3>1, <3>2 DEF ToCome
  <2>2. QED
    BY <1>9, <2>1 DEF InPlace, ToCome
<1>13. NotAgain(g)
  <2>1. \A j \in DOMAIN g.shown : j \in DOMAIN f.shown \/ j = Len(f.shown) + 1
    BY <1>7, <1>10
  <2>2. \A j \in DOMAIN f.shown :
          /\ f.shown[j][1] \in InPlace(f) \/ f.shown[j][1] \notin ToCome(f)
          /\ f.shown[j][1] # k
    BY <1>1, <1>2, <1>3 DEF NotAgain, Shown
  <2>3. \A j, l \in DOMAIN g.shown : g.shown[j][1] = g.shown[l][1] => j = l
    <3>1. \A j, l \in DOMAIN f.shown : f.shown[j][1] = f.shown[l][1] => j = l
      BY <1>1 DEF NotAgain
    <3>2. \A j \in DOMAIN f.shown : g.shown[j][1] = f.shown[j][1]
      BY <1>10
    <3>3. g.shown[Len(f.shown) + 1][1] = k
      BY <1>6, <1>7, <1>10
    <3>4. QED
      BY <2>1, <2>2, <3>1, <3>2, <3>3
  <2>4. \A j \in DOMAIN g.shown : g.shown[j][1] \in InPlace(g) \/ g.shown[j][1] \notin ToCome(g)
    BY <1>2, <1>6, <1>7, <1>10, <1>12, <2>1, <2>2
  <2>5. \A j \in DOMAIN g.shown : g.shown[j][1] \in Key
    BY <1>1, <1>2, <1>6, <1>7, <1>10, <2>1 DEF NotAgain
  <2>6. QED
    BY <1>9, <2>3, <2>4, <2>5 DEF NotAgain, Shown
<1>14. Lasts(g)
  <2>1. SUFFICES ASSUME NEW d \in f.lasting
                 PROVE  /\ d[1] \in Key /\ d[2] = Get(g.rec, d[1]) /\ d[2] # Udf /\ d = <<d[1], d[2]>>
                        /\ d[1] \in InPlace(g) => d \in Range(g.shown)
                        /\ d \in Range(g.shown) \/ d[1] \in ToCome(g)
    BY <1>9 DEF Lasts
  <2>2. /\ d[1] \in Key /\ d[2] = Get(g.rec, d[1]) /\ d[2] # Udf /\ d = <<d[1], d[2]>>
        /\ d[1] \in InPlace(f) => d \in Range(f.shown)
        /\ d \in Range(f.shown) \/ d[1] \in ToCome(f)
    BY <1>1, <1>9 DEF Lasts
  <2>3. d[1] = k => d = e
    BY <1>9, <2>2 DEF e
  <2>4. QED
    BY <1>4, <1>10, <1>12, <2>2, <2>3
<1>15. QED
  BY <1>5, <1>11, <1>13, <1>14 DEF FrameInv

-------------------------------------------------------------------------------
(* The stack of frames. *)

LEMMA WroteIs ==
  ASSUME NEW f, CallInv(f), NEW tokens
  PROVE  CallInv(Wrote(f, tokens)) /\ Wrote(f, tokens).stack = f.stack
<1> DEFINE t == f.text \o tokens
           g == [f EXCEPT !.text = t]
<1>1. Wrote(f, tokens) = g
  BY DEF Wrote
<1>2. IsCall(f)
  BY DEF CallInv
<1> HIDE DEF t
<1>3. IsCall(g) /\ g.stack = f.stack
  BY <1>2 DEF IsCall
<1> HIDE DEF g
<1>4. QED
  BY <1>1, <1>3 DEF CallInv

LEMMA WithTopIs ==
  ASSUME NEW f, CallInv(f), f.stack # <<>>, NEW frame, FrameInv(frame)
  PROVE  CallInv(WithTop(f, frame))
<1> DEFINE n == Len(f.stack)
           st == [f.stack EXCEPT ![n] = frame]
           g == [f EXCEPT !.stack = st]
<1>1. WithTop(f, frame) = g
  BY DEF WithTop, CallInv, IsCall
<1>2. IsCall(f) /\ f.stack \in Seq(Range(f.stack)) /\ n \in Nat /\ DOMAIN f.stack = 1 .. n
  BY SeqIs DEF CallInv, IsSeq
<1>3. /\ st \in Seq(Range(f.stack) \union {frame}) /\ DOMAIN st = DOMAIN f.stack
      /\ \A i \in DOMAIN st : st[i] = IF i = n THEN frame ELSE f.stack[i]
  BY <1>2
<1> HIDE DEF st
<1>4. IsSeq(st)
  <2>1. DOMAIN st = 1 .. n
    BY <1>2, <1>3
  <2>2. st = [i \in 1 .. n |-> st[i]]
    BY <1>3, <2>1
  <2>3. \A i \in 1 .. n : st[i] \in Range(st)
    BY <2>1 DEF Range
  <2>4. QED
    BY <1>2, <2>2, <2>3 DEF IsSeq
<1>5. IsCall(g) /\ g.stack = st
  BY <1>2 DEF IsCall
<1> HIDE DEF g
<1>6. QED
  BY <1>1, <1>3, <1>4, <1>5 DEF CallInv

LEMMA NoFrames ==
  ASSUME NEW f, IsCall(f), f.stack = <<>>
  PROVE  CallInv(f)
BY DEF CallInv, IsSeq, Range

\* What fmtVal does to the stack: a record adds a frame.
LEMMA FmtValIs ==
  ASSUME HeapType, NEW f, CallInv(f), NEW v, Exists(v), NEW flags,
         NEW g \in FmtVal(f, v, flags)
  PROVE  CallInv(g)
<1>1. CASE v.type = "rec"
  <2> DEFINE w == Wrote(f, <<Token("open")>>)
             h == [w EXCEPT !.stack = Append(w.stack, Frame(v.n))]
  <2>1. g = h \/ g = Failed
    BY <1>1 DEF FmtVal
  <2>2. CASE g = h
    <3> DEFINE s == Append(w.stack, Frame(v.n))
    <3>1. CallInv(w) /\ FrameInv(Frame(v.n))
      BY <1>1, WroteIs, FrameIs DEF Exists
    <3> HIDE DEF w
    <3>2. IsSeq(w.stack) /\ Len(w.stack) \in Nat /\ DOMAIN w.stack = 1 .. Len(w.stack)
      BY <3>1, SeqIs DEF CallInv
    <3>3. /\ IsSeq(s) /\ DOMAIN s = 1 .. Len(w.stack) + 1
          /\ \A i \in DOMAIN w.stack : s[i] = w.stack[i]
          /\ s[Len(w.stack) + 1] = Frame(v.n)
      BY <3>2, AppendIs
    <3>4. h = [w EXCEPT !.stack = s]
      OBVIOUS
    <3> HIDE DEF s
    <3>5. \A i \in DOMAIN s : FrameInv(s[i])
      <4>1. \A i \in DOMAIN s : i \in DOMAIN w.stack \/ i = Len(w.stack) + 1
        BY <3>2, <3>3
      <4>2. QED
        BY <3>1, <3>3, <4>1 DEF CallInv
    <3>6. IsCall(h) /\ h.stack = s
      <4> HIDE DEF h
      <4>1. QED
        BY <3>1, <3>4 DEF CallInv, IsCall
    <3> HIDE DEF h
    <3>7. QED
      BY <2>2, <3>3, <3>5, <3>6 DEF CallInv
  <2>3. CASE g = Failed
    BY <2>3, NoFrames DEF Failed, Idle, IsCall
  <2>4. QED
    BY <2>1, <2>2, <2>3
<1>2. CASE v.type # "rec" /\ IsUndefined(v, flags)
  <2>1. g = [Idle EXCEPT !.state = "ub", !.of = v]
    BY <1>2 DEF FmtVal
  <2>2. IsCall(g) /\ g.stack = <<>>
    BY <2>1 DEF Idle, IsCall
  <2>3. QED
    BY <2>2, NoFrames
<1>3. CASE v.type # "rec" /\ ~IsUndefined(v, flags)
  <2>1. g = Wrote(f, <<Atom(v, flags)>>)
    BY <1>3 DEF FmtVal
  <2>2. QED
    BY <2>1, WroteIs
<1>4. QED
  BY <1>1, <1>2, <1>3

\* The invariant of a call does not depend on anything but the heap and the order.
LEMMA CallSame ==
  ASSUME UNCHANGED <<heap, order>>, NEW g, CallInv(g), fmt' = g
  PROVE  CallInv(fmt)'
<1>1. Key' = Key /\ (\A r, k : Get(r, k)' = Get(r, k))
  BY DEF Key, Get
<1>2. \A f : FrameInv(f) => FrameInv(f)'
  <2>1. SUFFICES ASSUME NEW f, FrameInv(f) PROVE FrameInv(f)'
    OBVIOUS
  <2>2. FrameType(f)' /\ NotAgain(f)' /\ Lasts(f)'
    BY <1>1, <2>1 DEF FrameInv, FrameType, NotAgain, Lasts
  <2>3. QED
    BY <2>2 DEF FrameInv
<1>3. IsCall(fmt)' /\ IsSeq(fmt.stack)'
  BY DEF CallInv, IsCall, IsSeq
<1>4. \A i \in DOMAIN g.stack : FrameInv(g.stack[i])'
  BY <1>2 DEF CallInv
<1>5. QED
  BY <1>3, <1>4 DEF CallInv

\* A field that the writer defines does not last; the others are what they were.
LEMMA FrameWritten ==
  ASSUME HeapType, NEW r \in DOMAIN heap, NEW k \in Key, NEW v, Write(r, k, v),
         NEW f, FrameInv(f)
  PROVE  FrameInv(Overwritten(f, r, k))'
<1> DEFINE left == {e \in f.lasting : e[1] # k}
           g == IF f.rec = r THEN [f EXCEPT !.lasting = left] ELSE f
<1>1. heap' = [heap EXCEPT ![r][k] = v] /\ order' = order
  BY DEF Write, Defines
<1>2. /\ DOMAIN heap' = DOMAIN heap /\ Key' = Key
      /\ \A q \in DOMAIN heap, l \in Key : ~(q = r /\ l = k) => Get(q, l)' = Get(q, l)
  BY <1>1 DEF Get, Key, HeapType, Keyable
<1>3. FrameType(f) /\ NotAgain(f) /\ Lasts(f)
  BY DEF FrameInv
<1>4. /\ IsFrame(g) /\ g.rec = f.rec /\ g.pass = f.pass /\ g.index = f.index
      /\ g.todo = f.todo /\ g.shown = f.shown
      /\ g.lasting \subseteq f.lasting
      /\ f.rec = r => \A e \in g.lasting : e[1] # k
  <2>1. left \subseteq f.lasting /\ \A e \in left : e[1] # k
    OBVIOUS
  <2> HIDE DEF left
  <2>2. QED
    BY <1>3, <2>1 DEF FrameType, IsFrame
<1> HIDE DEF g
<1>5. FrameType(g)'
  BY <1>2, <1>3, <1>4 DEF FrameType, ToCome
<1>6. NotAgain(g)'
  BY <1>2, <1>3, <1>4 DEF NotAgain, Shown, InPlace, ToCome
<1>7. \A e \in g.lasting : e[1] \in Key /\ Get(g.rec, e[1])' = Get(f.rec, e[1])
  BY <1>2, <1>3, <1>4 DEF Lasts, FrameType
<1>8. Lasts(g)'
  BY <1>2, <1>3, <1>4, <1>7 DEF Lasts, InPlace, ToCome
<1>9. QED
  BY <1>5, <1>6, <1>8 DEF FrameInv, g, Overwritten

LEMMA MadeSeq ==
  ASSUME NEW n \in Nat, NEW t, t = [i \in 1 .. n |-> t[i]]
  PROVE  IsSeq(t) /\ Len(t) = n /\ DOMAIN t = 1 .. n
<1>1. DOMAIN t = 1 .. n
  OBVIOUS
<1>2. \A i \in 1 .. n : t[i] \in Range(t)
  BY <1>1 DEF Range
<1>3. t \in [1 .. n -> Range(t)]
  BY <1>2
<1>4. t \in Seq(Range(t))
  BY <1>3
<1>5. QED
  BY <1>1, <1>4 DEF IsSeq

\* What is left of a sequence without duplicates after m of its elements.
LEMMA SuffixIs ==
  ASSUME NEW s, IsSeq(s), IsInjective(s), NEW m \in 0 .. Len(s)
  PROVE  LET t == SubSeq(s, m + 1, Len(s))
         IN IsSeq(t) /\ IsInjective(t) /\ Range(t) \subseteq Range(s)
<1>1. Len(s) \in Nat /\ DOMAIN s = 1 .. Len(s) /\ s \in Seq(Range(s))
  BY DEF IsSeq
<1>2. CASE m = 0
  <2>1. SubSeq(s, m + 1, Len(s)) = s
    BY <1>1, <1>2
  <2>2. QED
    BY <2>1
<1>3. CASE m \in DOMAIN s
  BY <1>3, RestIs
<1>4. QED
  BY <1>1, <1>2, <1>3

Placed(s, j, k, t) ==
  /\ DOMAIN t = 1 .. Len(s) + 1
  /\ \A i \in DOMAIN t : t[i] = IF i < j THEN s[i] ELSE IF i = j THEN k ELSE s[i - 1]

\* A new element has been put into a sequence without duplicates.
LEMMA InsertIs ==
  ASSUME NEW s, IsSeq(s), IsInjective(s), NEW j \in 1 .. Len(s) + 1, NEW k, k \notin Range(s)
  PROVE  LET t == InsertAt(s, j, k)
         IN IsSeq(t) /\ IsInjective(t) /\ Range(t) = Range(s) \union {k}
<1> DEFINE t == InsertAt(s, j, k)
           n == Len(s)
           R == Range(s) \union {k}
<1>1. n \in Nat /\ DOMAIN s = 1 .. n /\ s \in Seq(R) /\ k \in R /\ \A i \in 1 .. n : s[i] \in Range(s)
  BY DEF IsSeq, Range
<1>2. t \in Seq(R) /\ Placed(s, j, k, t)
  <2> DEFINE l == SubSeq(s, 1, j - 1)
             r == SubSeq(s, j, n)
  <2>1. /\ l \in Seq(R) /\ Len(l) = j - 1
        /\ \A i \in 1 .. j - 1 : l[i] = s[i]
    BY <1>1
  <2>2. /\ r \in Seq(R) /\ Len(r) = n - j + 1
        /\ \A i \in 1 .. n - j + 1 : r[i] = s[i + j - 1]
    BY <1>1
  <2>3. t = l \o <<k>> \o r
    BY DEF InsertAt
  <2> HIDE DEF l, r, t
  <2> DEFINE h == l \o <<k>>
  <2>4. h \in Seq(R) /\ Len(h) = j /\ (\A i \in 1 .. j - 1 : h[i] = s[i]) /\ h[j] = k
    BY <1>1, <2>1
  <2>5. t = h \o r
    BY <2>3
  <2> HIDE DEF h
  <2>6. t \in Seq(R) /\ Len(t) = n + 1
    <3>1. h \o r \in Seq(R) /\ Len(h \o r) = Len(h) + Len(r)
      <4>1. h \in Seq(R) /\ r \in Seq(R)
        BY <2>2, <2>4
      <4> HIDE DEF R
      <4>2. QED
        BY <4>1, ConcatProperties, Zenon
    <3>2. Len(h) + Len(r) = n + 1
      <4>1. Len(h) = j /\ Len(r) = n - j + 1
        BY <2>2, <2>4
      <4>2. n \in Nat /\ j \in Int
        BY <1>1
      <4> HIDE DEF n
      <4>3. j + (n - j + 1) = n + 1
        BY <4>2
      <4>4. QED
        BY <4>1, <4>3, Zenon
    <3>3. Len(t) = Len(h) + Len(r) /\ t \in Seq(R)
      BY <2>5, <3>1, Zenon
    <3>4. QED
      BY <3>2, <3>3
  <2>7. DOMAIN t = 1 .. n + 1
    BY <2>6
  <2>8. ASSUME NEW i \in 1 .. n + 1
        PROVE  t[i] = IF i < j THEN s[i] ELSE IF i = j THEN k ELSE s[i - 1]
    <3>1. CASE i <= j
      <4>1. t[i] = h[i]
        BY <1>1, <2>2, <2>4, <2>5, <3>1
      <4>2. QED
        BY <2>4, <3>1, <4>1
    <3>2. CASE i > j
      <4>1. t[i] = r[i - j] /\ i - j \in 1 .. n - j + 1
        BY <1>1, <2>2, <2>4, <2>5, <3>2
      <4>2. r[i - j] = s[(i - j) + j - 1] /\ (i - j) + j - 1 = i - 1
        BY <1>1, <2>2, <4>1
      <4>3. QED
        BY <3>2, <4>1, <4>2
    <3>3. QED
      BY <3>1, <3>2
  <2>9. QED
    BY <2>6, <2>7, <2>8 DEF Placed
<1> HIDE DEF t
<1>3. DOMAIN t = 1 .. n + 1
  BY <1>2 DEF Placed
<1>4. \A i \in 1 .. n + 1 : /\ i < j => t[i] = s[i] /\ i \in 1 .. n
                            /\ i = j => t[i] = k
                            /\ i > j => t[i] = s[i - 1] /\ i - 1 \in 1 .. n
  BY <1>1, <1>2 DEF Placed
<1>5. IsInjective(t)
  <2>1. SUFFICES ASSUME NEW a \in 1 .. n + 1, NEW b \in 1 .. n + 1, t[a] = t[b] PROVE a = b
    BY <1>3 DEF IsInjective
  <2>2. (a = j) <=> (b = j)
    BY <1>1, <1>4, <2>1
  <2>3. CASE a # j /\ b # j
    <3>1. PICK c \in 1 .. n : t[a] = s[c] /\ c = IF a < j THEN a ELSE a - 1
      BY <1>1, <1>4, <2>3
    <3>2. PICK d \in 1 .. n : t[b] = s[d] /\ d = IF b < j THEN b ELSE b - 1
      BY <1>1, <1>4, <2>3
    <3>3. c = d
      BY <1>1, <2>1, <3>1, <3>2 DEF IsInjective
    <3>4. QED
      BY <2>3, <3>1, <3>2, <3>3
  <2>4. QED
    BY <2>2, <2>3
<1>6. \A x \in R : x \in Range(t)
  <2>1. ASSUME NEW i \in 1 .. n PROVE s[i] \in Range(t)
    <3>1. CASE i < j
      <4>1. i \in 1 .. n + 1
        BY <1>1
      <4>2. t[i] = s[i]
        BY <1>4, <3>1, <4>1
      <4>3. QED
        BY <1>3, <4>1, <4>2 DEF Range
    <3>2. CASE i >= j
      <4>1. i + 1 \in 1 .. n + 1 /\ i + 1 > j /\ (i + 1) - 1 = i
        BY <1>1, <3>2
      <4>2. t[i + 1] = s[i]
        BY <1>4, <4>1
      <4>3. QED
        BY <1>3, <4>1, <4>2 DEF Range
    <3>3. QED
      BY <1>1, <3>1, <3>2
  <2>2. k \in Range(t)
    BY <1>1, <1>3, <1>4 DEF Range
  <2>3. QED
    BY <1>1, <2>1, <2>2 DEF Range
<1>7. \A i \in 1 .. n + 1 : t[i] \in R
  BY <1>1, <1>4
<1>8. Range(t) = R
  BY <1>3, <1>6, <1>7 DEF Range
<1>9. QED
  BY <1>2, <1>5, <1>8 DEF IsSeq, t

\* What a definition with a new key leaves: the fields are what they were.
LEMMA Added ==
  ASSUME HeapType, NEW r \in DOMAIN heap, NEW k \in NewKeys, k \notin Key, NEW v, Defines(r, k, v),
         Key' = Key \union {k}
  PROVE  /\ DOMAIN heap' = DOMAIN heap
         /\ \A q \in DOMAIN heap, l \in Key : Get(q, l)' = Get(q, l)
<1>1. heap' = [heap EXCEPT ![r][k] = v]
  BY DEF Defines
<1>2. \A q \in DOMAIN heap, l \in Key : heap'[q][l] = heap[q][l]
  BY <1>1 DEF HeapType, Keyable
<1>3. QED
  BY <1>1, <1>2 DEF Get

LEMMA FramePlaced ==
  ASSUME HeapType, NEW r \in DOMAIN heap, NEW k \in NewKeys, k \notin Key, NEW v, Defines(r, k, v),
         Key' = Key \union {k}, NEW p \in 1 .. Len(order) + 1, NEW f, FrameInv(f),
         NEW g, g = WithPlace(f, k, p)
  PROVE  FrameInv(g)'
<1>1. FrameType(f) /\ NotAgain(f) /\ Lasts(f)
  BY DEF FrameInv
<1>3. /\ IsFrame(g) /\ g.rec = f.rec /\ g.pass = f.pass /\ g.index = f.index
      /\ g.shown = f.shown /\ g.lasting = f.lasting
      /\ IsSeq(g.todo) /\ IsInjective(g.todo)
      /\ \/ g.todo = f.todo
         \/ Range(g.todo) = Range(f.todo) \union {k}
  <2>1. CASE f.pass = "keyed" /\ p > Passed(f)
    <3> DEFINE j == p - Passed(f)
               t == InsertAt(f.todo, j, k)
    <3>1. Len(order) \in Nat /\ Len(f.todo) \in Nat
      BY <1>1, OrderIs, SeqIs DEF FrameType
    <3>2. j \in 1 .. Len(f.todo) + 1
      BY <2>1, <3>1 DEF Passed
    <3>3. k \notin Range(f.todo)
      BY <1>1 DEF FrameType, ToCome
    <3>4. g = [f EXCEPT !.todo = t]
      BY <2>1 DEF WithPlace
    <3> HIDE DEF j
    <3>5. IsSeq(t) /\ IsInjective(t) /\ Range(t) = Range(f.todo) \union {k}
      BY <1>1, <3>2, <3>3, InsertIs DEF FrameType
    <3> HIDE DEF t
    <3>6. QED
      BY <1>1, <3>4, <3>5 DEF FrameType, IsFrame
  <2>2. CASE ~(f.pass = "keyed" /\ p > Passed(f))
    BY <1>1, <2>2 DEF WithPlace, FrameType
  <2>3. QED
    BY <2>1, <2>2
<1>4. /\ DOMAIN heap' = DOMAIN heap
      /\ \A q \in DOMAIN heap, l \in Key : Get(q, l)' = Get(q, l)
  BY Added
<1>5. FrameType(g)'
  BY <1>1, <1>3, <1>4 DEF FrameType, ToCome
<1>6. NotAgain(g)'
  BY <1>1, <1>3 DEF NotAgain, Shown, InPlace, ToCome
<1>7. Lasts(g)'
  BY <1>1, <1>3, <1>4 DEF Lasts, InPlace, ToCome, FrameType
<1>8. QED
  BY <1>5, <1>6, <1>7 DEF FrameInv

LEMMA FrameRehashed ==
  ASSUME HeapType, NEW r \in DOMAIN heap, NEW k \in NewKeys, k \notin Key, NEW v, Defines(r, k, v),
         Key' = Key \union {k}, NEW o, IsSeq(o), IsInjective(o), Range(o) = Key', NEW m \in 0 .. Len(o),
         NEW f, FrameInv(f)
  PROVE  FrameInv(Rehashed(f, o, m))'
<1>1. FrameType(f) /\ NotAgain(f) /\ Lasts(f)
  BY DEF FrameInv
<1>2. /\ DOMAIN heap' = DOMAIN heap
      /\ \A q \in DOMAIN heap, l \in Key : Get(q, l)' = Get(q, l)
  BY Added
<1>3. CASE f.pass # "keyed"
  <2>1. Rehashed(f, o, m) = f
    BY <1>3 DEF Rehashed
  <2>2. FrameType(f)'
    BY <1>1, <1>2 DEF FrameType, ToCome
  <2>3. NotAgain(f)'
    BY <1>1 DEF NotAgain, Shown, InPlace, ToCome
  <2>4. Lasts(f)'
    BY <1>1, <1>2 DEF Lasts, InPlace, ToCome, FrameType
  <2>5. QED
    BY <2>1, <2>2, <2>3, <2>4 DEF FrameInv
<1>4. CASE f.pass = "keyed"
  <2> DEFINE t == SubSeq(o, m + 1, Len(o))
             g == [rec |-> f.rec, pass |-> f.pass, index |-> f.index, todo |-> t,
                   empty |-> f.empty, shown |-> <<>>, lasting |-> {}]
  <2>1. Rehashed(f, o, m) = g
    <3>1. Rehashed(f, o, m) = [f EXCEPT !.todo = t, !.shown = <<>>, !.lasting = {}]
      BY <1>4 DEF Rehashed
    <3> HIDE DEF t
    <3>2. QED
      BY <1>1, <3>1 DEF FrameType, IsFrame
  <2>2. IsSeq(t) /\ IsInjective(t) /\ Range(t) \subseteq Key'
    BY SuffixIs
  <2> HIDE DEF t
  <2>3. FrameType(g)'
    <3>1. IsSeq(<<>>)
      BY DEF IsSeq
    <3>2. QED
      BY <1>1, <1>2, <2>2, <3>1 DEF FrameType, ToCome, IsFrame
  <2>4. NotAgain(g)'
    BY DEF NotAgain, Shown
  <2>5. Lasts(g)'
    BY DEF Lasts
  <2> HIDE DEF g
  <2>6. QED
    BY <2>1, <2>3, <2>4, <2>5 DEF FrameInv
<1>5. QED
  BY <1>3, <1>4

\* A field has been defined, and the frames of the stack are s.
LEMMA Redefined ==
  ASSUME IInv, NEW r \in DOMAIN heap, NEW k \in Keyable, NEW v, Exists(v),
         heap' = [heap EXCEPT ![r][k] = v], (IsSeq(order) /\ IsInjective(order))', Key' = Key \union {k},
         NEW s, s = [i \in DOMAIN fmt.stack |-> s[i]], fmt' = [fmt EXCEPT !.stack = s],
         \A i \in DOMAIN fmt.stack : FrameInv(s[i])'
  PROVE  IInv'
<1>1. HeapType /\ CallInv(fmt) /\ IsCall(fmt)
  BY DEF IInv, CallInv
<1>2. HeapType'
  <2>1. DOMAIN heap' = DOMAIN heap /\ Keyable' = Keyable /\ \A x : Exists(x) => Exists(x)'
    BY DEF Keyable, Exists
  <2>2. \A q \in DOMAIN heap : DOMAIN heap'[q] = DOMAIN heap[q]
    OBVIOUS
  <2>3. \A q \in DOMAIN heap, l \in Keyable : heap'[q][l] = v \/ heap'[q][l] = heap[q][l]
    BY <1>1 DEF HeapType
  <2>4. \A q \in DOMAIN heap, l \in Keyable : Exists(heap[q][l])'
    BY <1>1, <2>1, <2>3 DEF HeapType
  <2>5. QED
    BY <1>1, <2>1, <2>2, <2>4 DEF HeapType
<1> DEFINE n == Len(fmt.stack)
<1>3. n \in Nat /\ DOMAIN fmt.stack = 1 .. n
  BY <1>1, SeqIs DEF CallInv
<1> HIDE DEF n
<1>4. IsSeq(s) /\ DOMAIN s = 1 .. n
  <2>1. s = [i \in 1 .. n |-> s[i]]
    BY <1>3
  <2>2. QED
    BY <1>3, <2>1, MadeSeq, Zenon
<1>5. IsCall(fmt') /\ fmt'.stack = s
  BY <1>1 DEF IsCall
<1>6. CallInv(fmt)'
  BY <1>3, <1>4, <1>5 DEF CallInv, IsCall, IsSeq
<1>7. QED
  BY <1>2, <1>6 DEF IInv

-------------------------------------------------------------------------------
(* The invariant is inductive. *)

LEMMA InitIInv == Init => IInv
<1> SUFFICES ASSUME Init PROVE IInv
  OBVIOUS
<1>1. HeapType
  <2>1. IsSeq(order) /\ IsInjective(order) /\ (\A k \in Keyable : IsKey(k))
    BY FormatterAssumption DEF Init, Keyable, IsKey, Key, IsSeq
  <2>2. ASSUME NEW q \in DOMAIN heap PROVE Keyable \subseteq DOMAIN heap[q] /\ \A k \in Keyable : Exists(heap[q][k])
    <3>1. /\ Range(order) \union NewKeys \subseteq DOMAIN heap[q]
          /\ \A k \in NewKeys \ Range(order) : heap[q][k] = Udf
          /\ \A k \in Range(order) : heap[q][k].type = "rec" => heap[q][k].n \in DOMAIN heap
      BY FormatterAssumption DEF Init
    <3>2. QED
      BY <3>1 DEF Keyable, Key, Exists, Udf, Value
  <2>3. QED
    BY <2>1, <2>2 DEF HeapType
<1>2. IsCall(fmt) /\ fmt.stack = <<>>
  BY DEF Init, Idle, IsCall
<1>3. QED
  BY <1>1, <1>2, NoFrames DEF IInv

LEMMA HeapSame == UNCHANGED <<heap, order>> /\ HeapType => HeapType'
BY DEF HeapType, Keyable, Key, Exists, IsSeq

LEMMA NextIInv == IInv /\ [Next]_vars => IInv'
<1> SUFFICES ASSUME IInv, [Next]_vars PROVE IInv'
  OBVIOUS
<1>1. HeapType /\ CallInv(fmt) /\ IsCall(fmt)
  BY DEF IInv, CallInv
<1>2. ASSUME UNCHANGED <<heap, order>>, NEW g, CallInv(g), fmt' = g PROVE IInv'
  BY <1>1, <1>2, HeapSame, CallSame DEF IInv
<1>3. IsCall(Idle) /\ Idle.stack = <<>> /\ IsCall(Failed) /\ Failed.stack = <<>>
  BY DEF IsCall, Idle, Failed
<1>4. CallInv(Idle) /\ CallInv(Failed)
  BY <1>3, NoFrames
<1>5. ASSUME NEW call, Fmt(call) PROVE IInv'
  <2> DEFINE g == [Idle EXCEPT !.state = "on", !.todo = call]
  <2>1. fmt' = g /\ UNCHANGED <<heap, order>>
    BY <1>5 DEF Fmt
  <2> DEFINE e == [Idle EXCEPT !.state = "on"]
  <2>2. IsCall(g) /\ g.stack = <<>>
    <3>1. g = [e EXCEPT !.todo = call]
      OBVIOUS
    <3>2. IsCall(e) /\ e.stack = <<>>
      <4> HIDE DEF Idle
      <4>1. QED
        BY <1>3 DEF IsCall
    <3> HIDE DEF g, e
    <3>3. QED
      BY <3>1, <3>2 DEF IsCall
  <2> HIDE DEF g
  <2>3. QED
    BY <1>2, <2>1, <2>2, NoFrames
<1>6. CASE Specifier
  <2> DEFINE next == Head(fmt.todo)
             f == [fmt EXCEPT !.todo = Tail(@), !.flags = Flags(next.spec), !.of = next.val, !.text = <<>>]
  <2>1. /\ fmt.stack = <<>> /\ Exists(next.val) /\ UNCHANGED <<heap, order>>
        /\ fmt' \in IF IsSpec(next.spec) THEN FmtVal(f, next.val, f.flags) ELSE {Failed}
    BY <1>6 DEF Specifier
  <2> DEFINE e == [fmt EXCEPT !.todo = Tail(@)]
             h == [e EXCEPT !.flags = Flags(next.spec)]
             i == [h EXCEPT !.of = next.val]
  <2>2. IsCall(f) /\ f.stack = <<>>
    <3>1. f = [i EXCEPT !.text = <<>>]
      OBVIOUS
    <3>2. IsCall(e) /\ e.stack = <<>>
      <4>1. fmt.stack = <<>>
        BY <2>1
      <4> DEFINE rest == Tail(fmt.todo)
      <4>2. e = [fmt EXCEPT !.todo = rest]
        OBVIOUS
      <4> HIDE DEF e, rest
      <4>3. QED
        BY <1>1, <4>1, <4>2 DEF IsCall
    <3> HIDE DEF f, e
    <3>3. IsCall(h) /\ h.stack = <<>>
      BY <3>2 DEF IsCall
    <3> HIDE DEF h
    <3>4. IsCall(i) /\ i.stack = <<>>
      BY <3>3 DEF IsCall
    <3> HIDE DEF i
    <3>5. QED
      BY <3>1, <3>4 DEF IsCall
  <2> HIDE DEF f
  <2>3. CallInv(f)
    BY <2>2, NoFrames
  <2>4. CallInv(fmt')
    BY <1>1, <1>4, <2>1, <2>3, FmtValIs
  <2>5. QED
    BY <1>2, <2>1, <2>4
<1>7. CASE PatternEnds
  BY <1>2, <1>4, <1>7 DEF PatternEnds
<1>8. CASE Caught
  BY <1>2, <1>4, <1>8 DEF Caught
<1>9. InRec => FrameInv(TopFrame) /\ fmt.stack # <<>> /\ TopFrame = fmt.stack[Len(fmt.stack)]
  <2>1. SUFFICES ASSUME fmt.stack # <<>> PROVE FrameInv(fmt.stack[Len(fmt.stack)])
    BY DEF InRec, TopFrame, Last
  <2>2. Len(fmt.stack) \in DOMAIN fmt.stack
    BY <1>1, <2>1 DEF CallInv, IsSeq
  <2>3. QED
    BY <1>1, <2>2 DEF CallInv
<1>10. CASE Sequenced
  <2> DEFINE n == TopFrame.index
             v == Get(TopFrame.rec, IntVal(n))
             f == Wrote(fmt, Comma(n > 0))
             top == [Shows(TopFrame, IntVal(n), v) EXCEPT !.index = n + 1]
  <2>1. /\ InRec /\ TopFrame.pass = "sequence" /\ v # Udf /\ UNCHANGED <<heap, order>>
        /\ fmt' \in FmtVal(WithTop(f, top), v, Quoted)
    BY <1>10 DEF Sequenced
  <2>2. FrameInv(top)
    BY <1>1, <1>9, <2>1, SequencedIs
  <2>3. CallInv(f) /\ f.stack # <<>>
    BY <1>1, <1>9, <2>1, WroteIs
  <2>4. Exists(v)
    BY <1>1, <1>9, <2>1, GetIs DEF FrameInv, FrameType
  <2> HIDE DEF f, top, v
  <2>5. CallInv(WithTop(f, top))
    BY <2>2, <2>3, WithTopIs
  <2>6. CallInv(fmt')
    BY <1>1, <2>1, <2>4, <2>5, FmtValIs
  <2>7. QED
    BY <1>2, <2>1, <2>6
<1>11. CASE SequenceEnds
  <2> DEFINE top == [TopFrame EXCEPT !.pass = "keyed", !.todo = order, !.empty = TopFrame.index = 0]
  <2>1. /\ InRec /\ TopFrame.pass = "sequence" /\ UNCHANGED <<heap, order>>
        /\ fmt' = WithTop(fmt, top) \/ fmt' = Failed
    BY <1>11 DEF SequenceEnds
  <2>2. FrameInv(top)
    BY <1>1, <1>9, <2>1, SequenceEndsIs
  <2> HIDE DEF top
  <2>3. CallInv(WithTop(fmt, top))
    BY <1>1, <1>9, <2>1, <2>2, WithTopIs
  <2>4. QED
    BY <1>2, <1>4, <2>1, <2>3
<1>12. CASE Skipped
  <2>1. /\ InRec /\ TopFrame.pass = "keyed" /\ Ahead(TopFrame) # {} /\ UNCHANGED <<heap, order>>
        /\ InSequence(TopFrame.todo[Min(Ahead(TopFrame))], TopFrame.index)
        /\ fmt' = WithTop(fmt, After(TopFrame))
    BY <1>12 DEF Skipped, Iterating, NextKey
  <2>2. FrameInv(After(TopFrame))
    BY <1>1, <1>9, <2>1, SkippedIs
  <2>3. CallInv(WithTop(fmt, After(TopFrame)))
    BY <1>1, <1>9, <2>1, <2>2, WithTopIs
  <2>4. QED
    BY <1>2, <2>1, <2>3
<1>13. CASE Keyed
  <2> DEFINE k == NextKey
             v == Get(TopFrame.rec, k)
             f == Wrote(fmt, Comma(~TopFrame.empty) \o KeyText(k))
             top == [Shows(After(TopFrame), k, v) EXCEPT !.empty = FALSE]
  <2>1. /\ InRec /\ TopFrame.pass = "keyed" /\ Ahead(TopFrame) # {} /\ UNCHANGED <<heap, order>>
        /\ k = TopFrame.todo[Min(Ahead(TopFrame))] /\ ~InSequence(k, TopFrame.index)
        /\ fmt' \in FmtVal(WithTop(f, top), v, Quoted)
    BY <1>13 DEF Keyed, Iterating, NextKey
  <2>2. FrameInv(top)
    BY <1>1, <1>9, <2>1, KeyedIs
  <2>3. CallInv(f) /\ f.stack # <<>>
    BY <1>1, <1>9, <2>1, WroteIs
  <2>4. Exists(v)
    <3>1. IsSeq(TopFrame.todo) /\ TopFrame.rec \in DOMAIN heap
      BY <1>9, <2>1 DEF FrameInv, FrameType
    <3>2. Get(TopFrame.rec, k) # Udf
      BY <2>1, <3>1, AheadIs
    <3>3. QED
      BY <1>1, <3>1, <3>2, GetIs
  <2> HIDE DEF f, top, v
  <2>5. CallInv(WithTop(f, top))
    BY <2>2, <2>3, WithTopIs
  <2>6. CallInv(fmt')
    BY <1>1, <2>1, <2>4, <2>5, FmtValIs
  <2>7. QED
    BY <1>2, <2>1, <2>6
<1>14. CASE RecordEnds
  <2> DEFINE f == Wrote(fmt, <<Token("close")>>)
             g == [f EXCEPT !.stack = Front(f.stack)]
  <2>1. InRec /\ UNCHANGED <<heap, order>> /\ fmt' = g
    BY <1>14 DEF RecordEnds
  <2>2. CallInv(f) /\ f.stack # <<>>
    BY <1>1, <1>9, <2>1, WroteIs
  <2> HIDE DEF f
  <2> DEFINE s == Front(f.stack)
  <2>3. /\ IsSeq(s) /\ DOMAIN s \subseteq DOMAIN f.stack
        /\ \A i \in DOMAIN s : s[i] = f.stack[i]
    BY <2>2, FrontIs DEF CallInv
  <2> HIDE DEF s
  <2>4. IsCall(g) /\ g.stack = s
    <3>1. g = [f EXCEPT !.stack = s]
      BY DEF s
    <3> HIDE DEF g
    <3>2. QED
      BY <2>2, <3>1 DEF CallInv, IsCall
  <2> HIDE DEF g
  <2>5. CallInv(g)
    BY <2>2, <2>3, <2>4 DEF CallInv
  <2>6. QED
    BY <1>2, <2>1, <2>5
<1>15. ASSUME NEW r \in DOMAIN heap, NEW k \in Key, NEW v, Write(r, k, v) PROVE IInv'
  <2>1. PICK s : s = [i \in DOMAIN fmt.stack |-> Overwritten(fmt.stack[i], r, k)]
    OBVIOUS
  <2>2. /\ Exists(v) /\ heap' = [heap EXCEPT ![r][k] = v] /\ order' = order
        /\ fmt' = [fmt EXCEPT !.stack = s]
    BY <1>15, <2>1 DEF Write, Defines
  <2>3. Key' = Key \union {k} /\ k \in Keyable /\ (IsSeq(order) /\ IsInjective(order))'
    BY <1>1, <2>2 DEF Key, Keyable, HeapType, IsSeq
  <2>4. s = [i \in DOMAIN fmt.stack |-> s[i]] /\ \A i \in DOMAIN fmt.stack : s[i] = Overwritten(fmt.stack[i], r, k)
    BY <2>1
  <2>5. \A i \in DOMAIN fmt.stack : FrameInv(s[i])'
    BY <1>1, <1>15, <2>4, FrameWritten DEF CallInv
  <2>6. QED
    BY <2>2, <2>3, <2>4, <2>5, Redefined
<1>18. ASSUME NEW r \in DOMAIN heap, NEW k \in NewKeys, NEW v, NEW p \in 1 .. Len(order) + 1, Insert(r, k, v, p)
       PROVE  IInv'
  <2>1. PICK s : s = [i \in DOMAIN fmt.stack |-> WithPlace(fmt.stack[i], k, p)]
    OBVIOUS
  <2>2. /\ k \notin Key /\ Defines(r, k, v) /\ order' = InsertAt(order, p, k)
        /\ fmt' = [fmt EXCEPT !.stack = s]
    BY <1>18, <2>1 DEF Insert
  <2>3. Exists(v) /\ heap' = [heap EXCEPT ![r][k] = v] /\ k \in Keyable
    BY <2>2 DEF Defines, Keyable
  <2>4. Key' = Key \union {k} /\ (IsSeq(order) /\ IsInjective(order))'
    <3>1. IsSeq(order) /\ IsInjective(order) /\ k \notin Range(order)
      BY <1>1, <2>2 DEF HeapType, Key
    <3> DEFINE o == InsertAt(order, p, k)
    <3>2. IsSeq(o) /\ IsInjective(o) /\ Range(o) = Range(order) \union {k}
      BY <3>1, InsertIs
    <3>3. order' = o
      BY <2>2
    <3> HIDE DEF o
    <3>4. QED
      BY <3>2, <3>3 DEF Key, IsSeq
  <2>5. s = [i \in DOMAIN fmt.stack |-> s[i]] /\ \A i \in DOMAIN fmt.stack : s[i] = WithPlace(fmt.stack[i], k, p)
    BY <2>1
  <2>6. \A i \in DOMAIN fmt.stack : FrameInv(s[i])'
    BY <1>1, <2>2, <2>4, <2>5, FramePlaced DEF CallInv
  <2>7. QED
    BY <2>2, <2>3, <2>4, <2>5, <2>6, Redefined
<1>19. ASSUME NEW r \in DOMAIN heap, NEW k \in NewKeys, NEW v, NEW o \in Rehashes,
              NEW passed \in [DOMAIN fmt.stack -> 0 .. Len(o)], Grow(r, k, v, o, passed)
       PROVE  IInv'
  <2>1. PICK s : s = [i \in DOMAIN fmt.stack |-> Rehashed(fmt.stack[i], o, passed[i])]
    OBVIOUS
  <2>2. /\ k \notin Key /\ Range(o) = Key \union {k} /\ Defines(r, k, v) /\ order' = o
        /\ fmt' = [fmt EXCEPT !.stack = s]
    BY <1>19, <2>1 DEF Grow
  <2>3. Exists(v) /\ heap' = [heap EXCEPT ![r][k] = v] /\ k \in Keyable
    BY <2>2 DEF Defines, Keyable
  <2>4. IsSeq(o) /\ IsInjective(o)
    BY FormatterAssumption DEF IsSeq
  <2>5. Key' = Key \union {k} /\ Range(o) = Key' /\ (IsSeq(order) /\ IsInjective(order))'
    BY <2>2, <2>4 DEF Key, IsSeq
  <2>6. s = [i \in DOMAIN fmt.stack |-> s[i]]
        /\ \A i \in DOMAIN fmt.stack : s[i] = Rehashed(fmt.stack[i], o, passed[i]) /\ passed[i] \in 0 .. Len(o)
    BY <2>1
  <2>7. \A i \in DOMAIN fmt.stack : FrameInv(s[i])'
    <3>1. \A i \in DOMAIN fmt.stack : FrameInv(fmt.stack[i])
      BY <1>1 DEF CallInv
    <3>2. \A f, m : FrameInv(f) /\ m \in 0 .. Len(o) => FrameInv(Rehashed(f, o, m))'
      BY <1>1, <2>2, <2>4, <2>5, FrameRehashed
    <3>3. QED
      BY <2>6, <3>1, <3>2
  <2>8. QED
    BY <2>2, <2>3, <2>5, <2>6, <2>7, Redefined
<1>16. CASE UNCHANGED vars
  BY <1>1, <1>2, <1>16 DEF vars
<1>20. QED
  BY <1>5, <1>6, <1>7, <1>8, <1>10, <1>11, <1>12, <1>13, <1>14, <1>15, <1>16, <1>18, <1>19 DEF Next

\* A call of the formatter keeps its invariant.
THEOREM SpecIInv == Spec => []IInv
<1>1. Init => IInv
  BY InitIInv
<1>2. IInv /\ [Next]_vars => IInv'
  BY NextIInv
<1>3. QED
  BY <1>1, <1>2, PTL DEF Spec

\* A field is written once by the two passes together (taz_formatter.c:252-256,
\* 276-278), whatever the writer defines in between, new keys included: no key
\* twice, and each field that is there from first to last.  When the index grows
\* under the iterator of the second pass, this holds of what is written after it.
THEOREM ShownOnceHolds == Spec => []ShownOnce
<1>1. IInv => ShownOnce
  <2>1. SUFFICES ASSUME IInv, NEW i \in DOMAIN fmt.stack
                 PROVE  LET f == fmt.stack[i]
                        IN /\ \A j, l \in DOMAIN f.shown : f.shown[j][1] = f.shown[l][1] => j = l
                           /\ f.pass = "keyed" /\ Ahead(f) = {} => f.lasting \subseteq Range(f.shown)
    BY DEF ShownOnce
  <2> DEFINE f == fmt.stack[i]
  <2>2. FrameType(f) /\ NotAgain(f) /\ Lasts(f)
    BY <2>1 DEF IInv, CallInv, FrameInv
  <2> HIDE DEF f
  <2>3. ASSUME f.pass = "keyed", Ahead(f) = {}, NEW e \in f.lasting PROVE e \in Range(f.shown)
    <3>1. Get(f.rec, e[1]) # Udf
      BY <2>2 DEF Lasts
    <3>2. \A j \in DOMAIN f.todo : Get(f.rec, f.todo[j]) = Udf
      BY <2>3 DEF Ahead
    <3>3. e[1] \notin ToCome(f)
      BY <3>1, <3>2 DEF ToCome, Range
    <3>4. QED
      BY <2>2, <2>3, <3>3 DEF Lasts
  <2>4. QED
    BY <2>2, <2>3 DEF NotAgain, f
<1>2. QED
  BY <1>1, SpecIInv, PTL

-------------------------------------------------------------------------------
(* The text so far, as its reader has it. *)

NextRead(w, a, tok) == Read(w, a, tok)

Readings(w, s, n, p) == p = [i \in 0 .. n |-> IF i = 0 THEN Reader ELSE NextRead(w, p[i - 1], s[i])]

LEMMA ReadingsAre ==
  ASSUME NEW w, NEW s, NEW n \in Nat, NEW p, Readings(w, s, n, p)
  PROVE  p[0] = Reader /\ \A i \in 1 .. n : p[i] = NextRead(w, p[i - 1], s[i])
<1> DEFINE E(i) == IF i = 0 THEN Reader ELSE NextRead(w, p[i - 1], s[i])
<1>1. p = [i \in 0 .. n |-> E(i)]
  BY DEF Readings
<1>2. \A i \in 0 .. n : [j \in 0 .. n |-> E(j)][i] = E(i)
  OBVIOUS
<1>3. \A i \in 0 .. n : p[i] = E(i)
  <2> HIDE DEF E
  <2>1. QED
    BY <1>1, <1>2
<1>4. QED
  BY <1>3

LEMMA ReadingsExist ==
  ASSUME NEW w, NEW s, NEW c \in Nat
  PROVE  \E p : Readings(w, s, c, p)
<1> DEFINE S == {n \in Nat : \E p : Readings(w, s, n, p)}
<1>1. ASSUME NEW n \in Nat, \A m \in 0 .. n - 1 : m \in S PROVE n \in S
  <2>1. PICK q : n # 0 => Readings(w, s, n - 1, q)
    <3>1. n # 0 => n - 1 \in 0 .. n - 1
      OBVIOUS
    <3>2. QED
      BY <1>1, <3>1
  <2> DEFINE p == [i \in 0 .. n |-> IF i = 0 THEN Reader ELSE NextRead(w, q[i - 1], s[i])]
  <2>2. \A i \in 0 .. n : p[i] = IF i = 0 THEN Reader ELSE NextRead(w, q[i - 1], s[i])
    OBVIOUS
  <2>3. \A i \in 0 .. n : i # 0 => p[i - 1] = q[i - 1]
    <3>1. ASSUME NEW i \in 0 .. n, i # 0 PROVE p[i - 1] = q[i - 1]
      <4>1. i - 1 \in 0 .. n - 1 /\ n # 0 /\ n - 1 \in Nat /\ i - 1 \in 0 .. n
        BY <3>1
      <4>2. q[0] = Reader /\ \A j \in 1 .. n - 1 : q[j] = NextRead(w, q[j - 1], s[j])
        <5>1. Readings(w, s, n - 1, q) /\ n - 1 \in Nat
          BY <2>1, <4>1
        <5>2. QED
          BY <5>1, ReadingsAre
      <4>3. QED
        BY <2>2, <4>1, <4>2
    <3>2. QED
      BY <3>1
  <2>4. p = [i \in 0 .. n |-> IF i = 0 THEN Reader ELSE NextRead(w, p[i - 1], s[i])]
    BY <2>3
  <2>5. Readings(w, s, n, p)
    BY <2>4 DEF Readings
  <2>6. QED
    BY <2>5
<1>2. Nat \subseteq S
  <2> HIDE DEF S
  <2>1. QED
    BY <1>1, AllNats
<1>3. QED
  BY <1>2

\* A text is read token after token.
LEMMA ReadAllIs ==
  ASSUME NEW w
  PROVE  /\ ReadAll(w, <<>>) = Reader
         /\ \A s : \A t : IsSeq(s) => ReadAll(w, Append(s, t)) = Read(w, ReadAll(w, s), t)
<1> DEFINE P(s) == CHOOSE p : Readings(w, s, Len(s), p)
<1>1. \A s : ReadAll(w, s) = P(s)[Len(s)]
  BY DEF ReadAll, Readings, NextRead
<1>2. ASSUME NEW s, Len(s) \in Nat
      PROVE  P(s)[0] = Reader /\ \A i \in 1 .. Len(s) : P(s)[i] = NextRead(w, P(s)[i - 1], s[i])
  <2>1. \E p : Readings(w, s, Len(s), p)
    BY <1>2, ReadingsExist
  <2>2. Readings(w, s, Len(s), P(s))
    BY <2>1
  <2> HIDE DEF P
  <2>3. QED
    BY <1>2, <2>2, ReadingsAre
<1> HIDE DEF P
<1>3. ReadAll(w, <<>>) = Reader
  <2>1. Len(<<>>) = 0
    OBVIOUS
  <2>2. QED
    BY <1>1, <1>2, <2>1
<1>4. ASSUME NEW s, IsSeq(s), NEW e PROVE ReadAll(w, Append(s, e)) = Read(w, ReadAll(w, s), e)
  <2> DEFINE n == Len(s)
             t == Append(s, e)
             p == P(s)
             q == P(t)
  <2>1. /\ n \in Nat /\ Len(t) = n + 1 /\ t[n + 1] = e
        /\ \A i \in 1 .. n : t[i] = s[i]
    <3>1. IsSeq(s) /\ Len(s) \in Nat /\ DOMAIN s = 1 .. Len(s)
      BY <1>4, SeqIs
    <3>2. IsSeq(t) /\ DOMAIN t = 1 .. Len(s) + 1 /\ (\A i \in DOMAIN s : t[i] = s[i]) /\ t[Len(s) + 1] = e
      BY <3>1, AppendIs
    <3>3. Len(t) = Len(s) + 1
      BY <3>1 DEF IsSeq
    <3>4. QED
      BY <3>1, <3>2, <3>3
  <2>2. (n + 1) - 1 = n /\ n + 1 \in 1 .. n + 1 /\ n \in 0 .. n /\ \A i \in 1 .. n : i \in 1 .. n + 1
    BY <2>1
  <2>3. p[0] = Reader /\ \A i \in 1 .. n : p[i] = NextRead(w, p[i - 1], s[i])
    BY <1>2, <2>1
  <2>4. q[0] = Reader /\ \A i \in 1 .. n + 1 : q[i] = NextRead(w, q[i - 1], t[i])
    <3>1. Len(t) \in Nat
      BY <2>1
    <3>2. QED
      BY <1>2, <2>1, <3>1
  <2>5. ReadAll(w, s) = p[n] /\ ReadAll(w, t) = q[n + 1]
    BY <1>1, <2>1
  <2> HIDE DEF n, t, p, q
  <2>6. \A i \in 0 .. n : p[i] = q[i]
    <3>1. p[0] = q[0] /\ \A i \in 1 .. n : p[i - 1] = q[i - 1] => p[i] = q[i]
      BY <2>1, <2>2, <2>3, <2>4
    <3>2. n \in Nat
      BY <2>1
    <3>3. QED
      BY <3>1, <3>2, Agree
  <2>7. q[n + 1] = NextRead(w, q[n], e)
    BY <2>1, <2>2, <2>4
  <2>8. QED
    BY <2>2, <2>5, <2>6, <2>7 DEF t, NextRead
<1>5. QED
  BY <1>3, <1>4

-------------------------------------------------------------------------------
(* Where a reader is. *)

\* The key of the field that has been shown last.
Entry(f) == f.shown[Len(f.shown)][1]

\* What a reader has of a frame, which waits for the value of its last field or not.
Awaits(f) ==
  Within(f.rec, {f.shown[j][1] : j \in 1 .. Len(f.shown) - 1},
         IF f.pass = "keyed" THEN Entry(f) ELSE Udf,
         IF f.pass = "sequence" THEN f.index - 1 ELSE f.index)
Settled(f) == Within(f.rec, Shown(f), Udf, f.index)

\* When the innermost record waits for a value, and when it does not.
Awaiting(s) == [i \in 1 .. Len(s) |-> Awaits(s[i])]
Reading(s) == [i \in 1 .. Len(s) |-> IF i < Len(s) THEN Awaits(s[i]) ELSE Settled(s[i])]

Expected(s) ==
  IF s = <<>> THEN At("nothing more", <<>>)
  ELSE At(IF s[Len(s)].shown = <<>> THEN "field or end" ELSE "comma", Reading(s))

LEMMA SameSeq ==
  ASSUME NEW s, IsSeq(s), NEW t, IsSeq(t), NEW n, Len(s) = n, Len(t) = n,
         \A i \in 1 .. n : s[i] = t[i]
  PROVE  s = t
<1>1. s \in Seq(Range(s)) /\ t \in Seq(Range(t))
  BY DEF IsSeq
<1>2. s = [i \in 1 .. n |-> s[i]] /\ t = [i \in 1 .. n |-> t[i]]
  BY <1>1
<1>3. [i \in 1 .. n |-> s[i]] = [i \in 1 .. n |-> t[i]]
  OBVIOUS
<1>4. QED
  BY <1>2, <1>3, Zenon

LEMMA AwaitingIs ==
  ASSUME NEW s, IsSeq(s)
  PROVE  /\ IsSeq(Awaiting(s)) /\ Len(Awaiting(s)) = Len(s)
         /\ \A i \in 1 .. Len(s) : Awaiting(s)[i] = Awaits(s[i])
<1> DEFINE n == Len(s)
           t == Awaiting(s)
<1>1. n \in Nat
  BY SeqIs
<1>2. t = [i \in 1 .. n |-> Awaits(s[i])]
  BY DEF Awaiting
<1> HIDE DEF n, t
<1>3. \A i \in 1 .. n : t[i] = Awaits(s[i])
  BY <1>2
<1>4. t = [i \in 1 .. n |-> t[i]]
  BY <1>2, <1>3
<1>5. QED
  BY <1>1, <1>3, <1>4, MadeSeq DEF n, t

LEMMA ReadingIs ==
  ASSUME NEW s, IsSeq(s)
  PROVE  /\ IsSeq(Reading(s)) /\ Len(Reading(s)) = Len(s)
         /\ \A i \in 1 .. Len(s) : i < Len(s) => Reading(s)[i] = Awaits(s[i])
         /\ \A i \in 1 .. Len(s) : i = Len(s) => Reading(s)[i] = Settled(s[i])
<1> DEFINE n == Len(s)
           t == Reading(s)
           x(i) == IF i < n THEN Awaits(s[i]) ELSE Settled(s[i])
<1>1. n \in Nat
  BY SeqIs
<1>2. t = [i \in 1 .. n |-> x(i)]
  BY DEF Reading
<1> HIDE DEF n, t, x
<1>3. \A i \in 1 .. n : t[i] = x(i)
  BY <1>2
<1>4. t = [i \in 1 .. n |-> t[i]]
  BY <1>2, <1>3
<1>5. IsSeq(t) /\ Len(t) = n
  BY <1>1, <1>4, MadeSeq
<1>6. \A i \in 1 .. n : (i < n => t[i] = Awaits(s[i])) /\ (i = n => t[i] = Settled(s[i]))
  BY <1>1, <1>3 DEF x
<1>7. QED
  BY <1>5, <1>6 DEF n, t

LEMMA LastIs ==
  ASSUME NEW s, IsSeq(s), s # <<>>
  PROVE  Len(s) \in 1 .. Len(s) /\ Len(s) \in Nat \ {0} /\ Last(s) = s[Len(s)]
<1>1. Len(s) \in Nat /\ s \in Seq(Range(s))
  BY SeqIs DEF IsSeq
<1>2. Len(s) # 0
  BY <1>1
<1>3. QED
  BY <1>1, <1>2 DEF Last

LEMMA WithLastIs ==
  ASSUME NEW s, IsSeq(s), s # <<>>, NEW g
  PROVE  /\ IsSeq([s EXCEPT ![Len(s)] = g]) /\ Len([s EXCEPT ![Len(s)] = g]) = Len(s)
         /\ [s EXCEPT ![Len(s)] = g][Len(s)] = g
         /\ \A i \in 1 .. Len(s) : i # Len(s) => [s EXCEPT ![Len(s)] = g][i] = s[i]
<1> DEFINE n == Len(s)
           z == [s EXCEPT ![n] = g]
<1>1. n \in 1 .. n /\ n \in Nat /\ DOMAIN s = 1 .. n
  BY LastIs, SeqIs
<1>2. z = [i \in 1 .. n |-> IF i = n THEN g ELSE s[i]]
  BY <1>1
<1> HIDE DEF n, z
<1>3. z[n] = g /\ \A i \in 1 .. n : i # n => z[i] = s[i]
  BY <1>1, <1>2
<1>4. z = [i \in 1 .. n |-> z[i]]
  BY <1>2
<1>5. IsSeq(z) /\ Len(z) = n
  BY <1>1, <1>4, MadeSeq
<1>6. QED
  BY <1>3, <1>5 DEF n, z

\* A key has been read in the innermost record.
LEMMA NowAwaiting ==
  ASSUME NEW s, IsSeq(s), s # <<>>, NEW g, NEW x, x = Awaits(g)
  PROVE  [Reading(s) EXCEPT ![Len(Reading(s))] = x] = Awaiting([s EXCEPT ![Len(s)] = g])
<1> DEFINE n == Len(s)
           t == Reading(s)
           z == [s EXCEPT ![n] = g]
           y == [t EXCEPT ![Len(t)] = x]
<1>1. n \in 1 .. n /\ n \in Nat \ {0}
  BY LastIs
<1>2. /\ IsSeq(t) /\ Len(t) = n
      /\ \A i \in 1 .. n : i < n => t[i] = Awaits(s[i])
  BY ReadingIs
<1>3. IsSeq(z) /\ Len(z) = n /\ z[n] = g /\ \A i \in 1 .. n : i # n => z[i] = s[i]
  BY WithLastIs
<1> HIDE DEF t, z
<1>4. IsSeq(y) /\ Len(y) = n /\ y[n] = x /\ \A i \in 1 .. n : i # n => y[i] = t[i]
  <2>1. t # <<>>
    BY <1>1, <1>2
  <2>2. QED
    BY <1>2, <2>1, WithLastIs
<1>5. IsSeq(Awaiting(z)) /\ Len(Awaiting(z)) = n /\ \A i \in 1 .. n : Awaiting(z)[i] = Awaits(z[i])
  BY <1>3, AwaitingIs
<1> HIDE DEF n, y
<1>6. \A i \in 1 .. n : y[i] = Awaiting(z)[i]
  <2>1. SUFFICES ASSUME NEW i \in 1 .. n PROVE y[i] = Awaiting(z)[i]
    OBVIOUS
  <2>2. CASE i = n
    BY <1>3, <1>4, <1>5, <2>2
  <2>3. CASE i # n
    <3>1. i < n
      BY <1>1, <2>3
    <3>2. QED
      BY <1>2, <1>3, <1>4, <1>5, <2>3, <3>1
  <2>4. QED
    BY <2>2, <2>3
<1>7. y = Awaiting(z)
  BY <1>4, <1>5, <1>6, SameSeq
<1>8. QED
  BY <1>7 DEF n, t, z, y

\* No key is read for a field of the sequence.
LEMMA StillAwaiting ==
  ASSUME NEW s, IsSeq(s), s # <<>>, NEW g, Settled(s[Len(s)]) = Awaits(g)
  PROVE  Reading(s) = Awaiting([s EXCEPT ![Len(s)] = g])
<1> DEFINE n == Len(s)
           t == Reading(s)
           x == t[n]
<1>1. n \in 1 .. n /\ n \in Nat \ {0}
  BY LastIs
<1>2. IsSeq(t) /\ Len(t) = n /\ x = Settled(s[n])
  BY <1>1, ReadingIs
<1>3. x = Awaits(g)
  BY <1>2
<1>4. [t EXCEPT ![n] = x] = t
  <2>1. DOMAIN t = 1 .. n /\ t \in Seq(Range(t))
    BY <1>2, SeqIs DEF IsSeq
  <2> HIDE DEF t, n
  <2>2. QED
    BY <1>1, <2>1
<1> HIDE DEF x
<1>5. [t EXCEPT ![Len(t)] = x] = Awaiting([s EXCEPT ![n] = g])
  BY <1>3, NowAwaiting
<1>6. QED
  BY <1>2, <1>4, <1>5

\* The value has been read.
LEMMA NowReading ==
  ASSUME NEW s, IsSeq(s), s # <<>>, NEW x, x = Settled(s[Len(s)])
  PROVE  [Awaiting(s) EXCEPT ![Len(Awaiting(s))] = x] = Reading(s)
<1> DEFINE n == Len(s)
           t == Awaiting(s)
           y == [t EXCEPT ![Len(t)] = x]
           z == Reading(s)
<1>1. n \in 1 .. n /\ n \in Nat \ {0}
  BY LastIs
<1>2. IsSeq(t) /\ Len(t) = n /\ \A i \in 1 .. n : t[i] = Awaits(s[i])
  BY AwaitingIs
<1>3. /\ IsSeq(z) /\ Len(z) = n
      /\ \A i \in 1 .. n : i < n => z[i] = Awaits(s[i])
      /\ \A i \in 1 .. n : i = n => z[i] = Settled(s[i])
  BY ReadingIs
<1> HIDE DEF t, z
<1>4. IsSeq(y) /\ Len(y) = n /\ y[n] = x /\ \A i \in 1 .. n : i # n => y[i] = t[i]
  <2>1. t # <<>>
    BY <1>1, <1>2
  <2>2. QED
    BY <1>2, <2>1, WithLastIs
<1>5. x = Settled(s[n])
  OBVIOUS
<1> HIDE DEF n, y
<1>6. \A i \in 1 .. n : y[i] = z[i]
  <2>1. SUFFICES ASSUME NEW i \in 1 .. n PROVE y[i] = z[i]
    OBVIOUS
  <2>2. CASE i = n
    BY <1>3, <1>4, <1>5, <2>2
  <2>3. CASE i # n
    <3>1. i < n
      BY <1>1, <2>3
    <3>2. QED
      BY <1>2, <1>3, <1>4, <2>3, <3>1
  <2>4. QED
    BY <2>2, <2>3
<1>7. y = z
  BY <1>3, <1>4, <1>6, SameSeq
<1>8. QED
  BY <1>7 DEF t, y, z

\* A record begins in the innermost one.
LEMMA InnerBegins ==
  ASSUME NEW s, IsSeq(s), NEW g, NEW x, x = Settled(g)
  PROVE  Append(Awaiting(s), x) = Reading(Append(s, g))
<1> DEFINE n == Len(s)
           t == Awaiting(s)
           z == Append(s, g)
           y == Append(t, x)
<1>1. n \in Nat /\ DOMAIN s = 1 .. n
  BY SeqIs
<1>2. IsSeq(t) /\ Len(t) = n /\ \A i \in 1 .. n : t[i] = Awaits(s[i])
  BY AwaitingIs
<1>3. /\ IsSeq(z) /\ DOMAIN z = 1 .. n + 1
      /\ (\A i \in 1 .. n : z[i] = s[i]) /\ z[n + 1] = g
  BY <1>1, AppendIs
<1> HIDE DEF t
<1>4. /\ IsSeq(y) /\ DOMAIN y = 1 .. n + 1
      /\ (\A i \in 1 .. n : y[i] = t[i]) /\ y[n + 1] = x
  <2>1. DOMAIN t = 1 .. n
    BY <1>2, SeqIs
  <2>2. QED
    BY <1>2, <2>1, AppendIs
<1> HIDE DEF y, z
<1>5. Len(y) = n + 1 /\ Len(z) = n + 1
  BY <1>1, <1>3, <1>4 DEF IsSeq
<1>6. /\ IsSeq(Reading(z)) /\ Len(Reading(z)) = n + 1
      /\ \A i \in 1 .. n + 1 : i < n + 1 => Reading(z)[i] = Awaits(z[i])
      /\ \A i \in 1 .. n + 1 : i = n + 1 => Reading(z)[i] = Settled(z[i])
  BY <1>3, <1>5, ReadingIs
<1> HIDE DEF n
<1>7. \A i \in 1 .. n + 1 : y[i] = Reading(z)[i]
  <2>1. SUFFICES ASSUME NEW i \in 1 .. n + 1 PROVE y[i] = Reading(z)[i]
    OBVIOUS
  <2>2. CASE i = n + 1
    BY <1>3, <1>4, <1>6, <2>2
  <2>3. CASE i # n + 1
    <3>1. i < n + 1 /\ i \in 1 .. n
      BY <1>1, <2>3
    <3>2. QED
      BY <1>2, <1>3, <1>4, <1>6, <3>1
  <2>4. QED
    BY <2>2, <2>3
<1>8. y = Reading(z)
  BY <1>4, <1>5, <1>6, <1>7, SameSeq
<1>9. QED
  BY <1>8 DEF t, z, y

\* The innermost record ends.
LEMMA InnerEnds ==
  ASSUME NEW s, IsSeq(s), s # <<>>
  PROVE  Front(Reading(s)) = Awaiting(Front(s)) /\ IsSeq(Front(s))
<1> DEFINE n == Len(s)
           t == Reading(s)
           z == Front(s)
<1>1. n \in 1 .. n /\ n \in Nat \ {0}
  BY LastIs
<1>2. /\ IsSeq(t) /\ Len(t) = n
      /\ \A i \in 1 .. n : i < n => t[i] = Awaits(s[i])
  BY ReadingIs
<1>3. IsSeq(z) /\ Len(z) = n - 1 /\ \A i \in 1 .. n - 1 : z[i] = s[i]
  <2>1. s \in Seq(Range(s))
    BY DEF IsSeq
  <2>2. Len(z) = n - 1 /\ \A i \in 1 .. n - 1 : z[i] = s[i]
    <3>1. z = SubSeq(s, 1, n - 1)
      BY DEF Front
    <3>2. Len(s) = n
      OBVIOUS
    <3> HIDE DEF z, n
    <3>3. Len(SubSeq(s, 1, n - 1)) = n - 1 /\ \A i \in 1 .. n - 1 : SubSeq(s, 1, n - 1)[i] = s[i]
      BY <1>1, <2>1, <3>2
    <3>4. QED
      BY <3>1, <3>3
  <2>3. IsSeq(z)
    BY FrontIs
  <2>4. QED
    BY <2>2, <2>3
<1> HIDE DEF t
<1>4. IsSeq(Front(t)) /\ Len(Front(t)) = n - 1 /\ \A i \in 1 .. n - 1 : Front(t)[i] = t[i]
  <2>1. t \in Seq(Range(t)) /\ t # <<>>
    BY <1>1, <1>2 DEF IsSeq
  <2>2. Len(Front(t)) = n - 1 /\ \A i \in 1 .. n - 1 : Front(t)[i] = t[i]
    <3>1. Front(t) = SubSeq(t, 1, n - 1)
      BY <1>2 DEF Front
    <3>2. QED
      BY <1>1, <1>2, <2>1, <3>1
  <2>3. IsSeq(Front(t))
    BY <1>2, <2>1, FrontIs
  <2>4. QED
    BY <2>2, <2>3
<1> HIDE DEF z
<1>5. IsSeq(Awaiting(z)) /\ Len(Awaiting(z)) = n - 1 /\ \A i \in 1 .. n - 1 : Awaiting(z)[i] = Awaits(z[i])
  BY <1>3, AwaitingIs
<1>6. \A i \in 1 .. n - 1 : Front(t)[i] = Awaiting(z)[i]
  <2>1. SUFFICES ASSUME NEW i \in 1 .. n - 1 PROVE Front(t)[i] = Awaiting(z)[i]
    OBVIOUS
  <2>2. i \in 1 .. n /\ i < n
    BY <1>1
  <2>3. QED
    BY <1>2, <1>3, <1>4, <1>5, <2>2
<1>7. Front(t) = Awaiting(z)
  <2> DEFINE m == n - 1
  <2>1. Len(Front(t)) = m /\ Len(Awaiting(z)) = m /\ \A i \in 1 .. m : Front(t)[i] = Awaiting(z)[i]
    BY <1>4, <1>5, <1>6
  <2> HIDE DEF m
  <2>2. QED
    BY <1>4, <1>5, <2>1, SameSeq
<1>8. QED
  BY <1>3, <1>7 DEF t, z

\* What the reader has of a record once the value of its last field is read.
Rejoins(f) ==
  /\ f.shown # <<>> /\ FieldKey(Awaits(f)) \notin Awaits(f).met /\ WithField(Awaits(f)) = Settled(f)

LEMMA MetIs ==
  ASSUME NEW s, IsSeq(s), s # <<>> => Rejoins(s[Len(s)]), NEW n
  PROVE  Met(At(n, Awaiting(s))) = Expected(s)
<1> DEFINE a == At(n, Awaiting(s))
<1>1. a.in = Awaiting(s)
  BY DEF At
<1>2. IsSeq(Awaiting(s)) /\ Len(Awaiting(s)) = Len(s) /\ \A i \in 1 .. Len(s) : Awaiting(s)[i] = Awaits(s[i])
  BY AwaitingIs
<1>3. CASE s = <<>>
  <2>1. Awaiting(s) = <<>>
    BY <1>2, <1>3 DEF IsSeq
  <2>2. QED
    BY <1>1, <1>3, <2>1 DEF Met, Expected
<1>4. CASE s # <<>>
  <2> DEFINE f == s[Len(s)]
  <2>1. Len(s) \in 1 .. Len(s) /\ Len(s) \in Nat \ {0}
    BY <1>4, LastIs
  <2>2. a.in # <<>> /\ Inner(a) = Awaits(f)
    <3>1. Awaiting(s) # <<>>
      BY <1>2, <2>1
    <3>2. Last(Awaiting(s)) = Awaiting(s)[Len(s)]
      BY <1>2 DEF Last
    <3>3. QED
      BY <1>1, <1>2, <2>1, <3>1, <3>2 DEF Inner
  <2>3. Rejoins(f)
    BY <1>4
  <2> HIDE DEF a
  <2>4. Met(a) = WithInner(a, "comma", Settled(f))
    BY <2>2, <2>3 DEF Met, Rejoins
  <2>5. WithInner(a, "comma", Settled(f)) = At("comma", Reading(s))
    BY <1>1, <1>4, NowReading DEF WithInner
  <2>6. Expected(s) = At("comma", Reading(s))
    BY <1>4, <2>3 DEF Expected, Rejoins
  <2>7. QED
    BY <2>4, <2>5, <2>6 DEF a
<1>5. QED
  BY <1>3, <1>4

\* Values that are written so that they can be read.
Writable(v) ==
  /\ v.type = "int" => v.n \in -IntLimit .. IntLimit - 1
  /\ v.type = "dec" => v.n \in Int /\ Fitting(v.n)

LEMMA AtomDenotes ==
  ASSUME NEW v, Writable(v), NEW flags, flags.base \in Bases
  PROVE  /\ Denotes(Atom(v, flags), v, flags.base)
         /\ Atom(v, flags).t \in {"num", "str", "word"}
         /\ v.type = "int" => Atom(v, flags).t = "num"
         /\ v.type = "str" => /\ Atom(v, flags).t = "str" /\ Atom(v, flags).n = v.n
                              /\ Atom(v, flags).quoted = flags.quoted
         /\ Atom(v, flags).t = "str" => v.type = "str"
<1> DEFINE b == flags.base
           tok == Atom(v, flags)
<1>1. CASE v.type = "int"
  <2>1. tok = FmtInt(v.n, b)
    BY <1>1 DEF Atom
  <2>2. tok.t = "num"
    BY <2>1 DEF FmtInt, Num
  <2>3. v.n \in Int
    BY <1>1, LimitIs DEF Writable
  <2>4. Denotes(FmtInt(v.n, b), v, b)
    BY <1>1, <2>3, NumberDenotes
  <2>5. QED
    BY <1>1, <2>1, <2>2, <2>4
<1>2. CASE v.type = "dec"
  <2>1. tok = FmtDec(v.n, b)
    BY <1>2 DEF Atom
  <2>2. tok.t = "num"
    BY <2>1 DEF FmtDec, Num
  <2>3. Denotes(FmtDec(v.n, b), v, b)
    BY <1>2, DecimalDenotes DEF Writable
  <2>4. QED
    BY <1>2, <2>1, <2>2, <2>3
<1>3. CASE v.type = "str"
  <2>1. tok = [t |-> "str", n |-> v.n, quoted |-> flags.quoted]
    BY <1>3 DEF Atom, Text
  <2>2. tok.t = "str" /\ tok.n = v.n /\ tok.quoted = flags.quoted
    BY <2>1
  <2> HIDE DEF tok
  <2>3. Denotes(tok, v, b)
    BY <1>3, <2>2 DEF Denotes
  <2>4. QED
    BY <1>3, <2>2, <2>3 DEF tok
<1>4. CASE v.type \notin {"int", "dec", "str"}
  <2>1. tok = [t |-> "word", word |-> v]
    BY <1>4 DEF Atom, Word
  <2>2. tok.t = "word" /\ tok.word = v
    BY <2>1
  <2> HIDE DEF tok
  <2>3. Denotes(tok, v, b)
    BY <1>4, <2>2 DEF Denotes
  <2>4. QED
    BY <1>4, <2>2, <2>3 DEF tok
<1>5. QED
  BY <1>1, <1>2, <1>3, <1>4

FieldNext == {"value", "field or end", "field"}

Quotes(s, flags) == s # <<>> => flags.quoted = TRUE
Rejoined(s) == s # <<>> => Rejoins(s[Len(s)])

\* A value that is no record is read where one is wanted.
LEMMA AtomRead ==
  ASSUME NEW w, NEW s, IsSeq(s), NEW n \in FieldNext, NEW v, Wanted(w, At(n, Awaiting(s))) = v,
         Writable(v), NEW flags, flags.base = w.base, w.base \in Bases,
         Quotes(s, flags), Rejoined(s)
  PROVE  Read(w, At(n, Awaiting(s)), Atom(v, flags)) = Expected(s)
<1> DEFINE a == At(n, Awaiting(s))
           tok == Atom(v, flags)
<1>1. a.next = n /\ a.in = Awaiting(s)
  BY DEF At
<1>2. /\ Denotes(tok, v, w.base) /\ tok.t \in {"num", "str", "word"}
      /\ tok.t = "str" => tok.quoted = flags.quoted
  <2>1. flags.base \in Bases
    OBVIOUS
  <2>2. QED
    BY <2>1, AtomDenotes
<1>3. a.in # <<>> => s # <<>>
  <2>1. IsSeq(Awaiting(s)) /\ Len(Awaiting(s)) = Len(s)
    BY AwaitingIs
  <2>2. QED
    BY <1>1, <2>1 DEF IsSeq
<1>4. AtField(a)
  BY <1>1 DEF AtField, FieldNext
<1>5. Wanted(w, a) = v
  OBVIOUS
<1>6. a.next \notin {"dot", "at", "colon", "comma"}
  BY <1>1 DEF FieldNext
<1>7. tok.t = "str" /\ a.in # <<>> => tok.quoted
  BY <1>2, <1>3 DEF Quotes
<1> HIDE DEF a, tok
<1>8. Read(w, a, tok) = Met(a)
  BY <1>2, <1>4, <1>5, <1>6, <1>7 DEF Read
<1>9. Met(a) = Expected(s)
  <2>1. s # <<>> => Rejoins(s[Len(s)])
    BY DEF Rejoined
  <2>2. Met(At(n, Awaiting(s))) = Expected(s)
    BY <2>1, MetIs
  <2>3. QED
    BY <2>2 DEF a
<1>10. QED
  BY <1>8, <1>9 DEF a, tok

\* A record is entered where one is wanted.
LEMMA OpenRead ==
  ASSUME NEW w, NEW s, IsSeq(s), NEW n \in FieldNext, NEW v, Wanted(w, At(n, Awaiting(s))) = v,
         v.type = "rec", NEW g, g.rec = v.n, g.shown = <<>>, g.index = 0
  PROVE  Read(w, At(n, Awaiting(s)), Token("open")) = Expected(Append(s, g))
<1> DEFINE a == At(n, Awaiting(s))
           tok == Token("open")
           x == Within(v.n, {}, Udf, 0)
<1>1. a.next = n /\ a.in = Awaiting(s) /\ tok.t = "open"
  BY DEF At, Token
<1>2. AtField(a)
  BY <1>1 DEF AtField, FieldNext
<1>3. Wanted(w, a) = v
  OBVIOUS
<1> HIDE DEF a, tok
<1>4. Read(w, a, tok) = Entered(w, a)
  BY <1>1, <1>2, <1>3 DEF Read
<1>5. Entered(w, a) = At("field or end", Append(Awaiting(s), x))
  BY <1>1, <1>3 DEF Entered
<1>6. x = Settled(g)
  <2>1. Shown(g) = {}
    BY DEF Shown
  <2>2. QED
    BY <2>1 DEF Settled
<1> HIDE DEF x
<1>7. Append(Awaiting(s), x) = Reading(Append(s, g))
  BY <1>6, InnerBegins
<1>8. Expected(Append(s, g)) = At("field or end", Reading(Append(s, g)))
  <2> DEFINE z == Append(s, g)
  <2>1. IsSeq(z) /\ DOMAIN z = 1 .. Len(s) + 1 /\ z[Len(s) + 1] = g /\ Len(s) \in Nat
    BY AppendIs, SeqIs
  <2> HIDE DEF z
  <2>2. z # <<>> /\ Len(z) = Len(s) + 1
    BY <2>1 DEF IsSeq
  <2>3. Expected(z) = At("field or end", Reading(z))
    BY <2>1, <2>2 DEF Expected
  <2>4. QED
    BY <2>3 DEF z
<1>9. QED
  BY <1>4, <1>5, <1>7, <1>8 DEF a, tok

\* The innermost record ends.
LEMMA CloseRead ==
  ASSUME NEW w, NEW s, IsSeq(s), s # <<>>, NEW n \in {"field or end", "comma"},
         Shown(s[Len(s)]) = DOMAIN w.fields[s[Len(s)].rec],
         Front(s) # <<>> => Rejoins(Front(s)[Len(Front(s))])
  PROVE  Read(w, At(n, Reading(s)), Token("close")) = Expected(Front(s))
<1> DEFINE a == At(n, Reading(s))
           tok == Token("close")
<1>1. a.next = n /\ a.in = Reading(s) /\ tok.t = "close"
  BY DEF At, Token
<1>2. Inner(a) = Settled(s[Len(s)])
  <2>1. Len(s) \in 1 .. Len(s)
    BY LastIs
  <2>2. Len(Reading(s)) = Len(s) /\ Reading(s)[Len(s)] = Settled(s[Len(s)])
    BY <2>1, ReadingIs
  <2>3. QED
    BY <1>1, <2>2 DEF Inner, Last
<1>3. Inner(a).met = DOMAIN Fields(w, a)
  <2> DEFINE f == s[Len(s)]
  <2>1. Settled(f).met = Shown(f) /\ Settled(f).rec = f.rec
    BY DEF Settled, Within
  <2>2. Shown(f) = DOMAIN w.fields[f.rec] /\ Inner(a) = Settled(f)
    BY <1>2
  <2> HIDE DEF f
  <2>3. QED
    BY <2>1, <2>2 DEF Fields
<1> HIDE DEF a, tok
<1>4. Read(w, a, tok) = Met(At("value", Front(a.in)))
  BY <1>1, <1>3 DEF Read, AtField
<1>5. Front(a.in) = Awaiting(Front(s)) /\ IsSeq(Front(s))
  BY <1>1, InnerEnds
<1>6. QED
  BY <1>4, <1>5, MetIs DEF a, tok

LEMMA CommaRead ==
  ASSUME NEW w, NEW in
  PROVE  Read(w, At("comma", in), Token("comma")) = At("field", in)
<1> DEFINE a == At("comma", in)
           tok == Token("comma")
<1>1. a.next = "comma" /\ a.in = in /\ tok.t = "comma"
  BY DEF At, Token
<1> HIDE DEF a, tok
<1>2. QED
  BY <1>1 DEF Read, a, tok, AtField

\* The keys that are written so that they can be read.
KeyIs(k) ==
  \/ k.type = "int" /\ k = IntVal(k.n) /\ k.n \in -IntLimit .. IntLimit - 1
  \/ k.type = "str" /\ k = Value("str", k.n)

KeysAre(fields) == \A l \in DOMAIN fields : KeyIs(l)

LEMMA KeyWritable ==
  ASSUME NEW k, KeyIs(k)
  PROVE  Writable(k) /\ k.type \in {"int", "str"} /\ k # Udf
BY DEF KeyIs, Writable, Udf, Value

\* A key is told from all others.
LEMMA KeyTold ==
  ASSUME NEW k, KeyIs(k), NEW l, KeyIs(l), NEW tok, NEW b,
         Denotes(tok, k, b), Denotes(tok, l, b)
  PROVE  k = l
<1>1. CASE tok.t = "str"
  <2>1. k.type = "str" /\ l.type = "str"
    BY <1>1 DEF KeyIs, Denotes
  <2>2. tok.n = k.n /\ tok.n = l.n
    BY <2>1 DEF Denotes
  <2>3. k = Value("str", k.n) /\ l = Value("str", l.n)
    BY <2>1 DEF KeyIs
  <2>4. QED
    BY <2>2, <2>3
<1>2. CASE tok.t # "str"
  <2>1. k.type = "int" /\ l.type = "int"
    BY <1>2 DEF KeyIs, Denotes
  <2>2. /\ tok.neg = (k.n < 0) /\ tok.neg = (l.n < 0)
        /\ Number(tok.digits, b) = Magnitude(k.n) /\ Number(tok.digits, b) = Magnitude(l.n)
    BY <2>1 DEF Denotes
  <2>3. k = IntVal(k.n) /\ l = IntVal(l.n) /\ k.n \in Int /\ l.n \in Int
    BY <2>1, LimitIs DEF KeyIs
  <2>4. (k.n < 0 <=> l.n < 0) /\ Magnitude(k.n) = Magnitude(l.n)
    BY <2>2
  <2>5. k.n = l.n
    BY <2>3, <2>4 DEF Magnitude
  <2>6. QED
    BY <2>3, <2>5
<1>3. QED
  BY <1>1, <1>2

LEMMA MarkRead ==
  ASSUME NEW w, NEW in, NEW n \in {"field or end", "field"}, NEW mark \in {"dot", "at"}
  PROVE  Read(w, At(n, in), Token(mark)) = At(mark, in)
<1> DEFINE a == At(n, in)
           tok == Token(mark)
<1>1. a.next = n /\ a.in = in /\ tok.t = mark
  BY DEF At, Token
<1> HIDE DEF a, tok
<1>2. QED
  BY <1>1 DEF Read, a, tok, AtField

LEMMA ColonRead ==
  ASSUME NEW w, NEW in
  PROVE  Read(w, At("colon", in), Token("colon")) = At("value", in)
<1> DEFINE a == At("colon", in)
           tok == Token("colon")
<1>1. a.next = "colon" /\ a.in = in /\ tok.t = "colon"
  BY DEF At, Token
<1> HIDE DEF a, tok
<1>2. QED
  BY <1>1 DEF Read, a, tok, AtField

\* The flags that a key is written with after its mark.
FlagsOf(mark, k, flags, base) ==
  /\ flags.base = base /\ base \in Bases
  /\ \/ mark = "at" /\ flags.quoted = TRUE
     \/ mark = "dot" /\ flags.quoted = FALSE /\ k.type = "str" /\ k.n \in IdentStr

\* A key of the innermost record is read as that key.
LEMMA KeyRead ==
  ASSUME NEW w, NEW in, NEW mark, NEW fields, Fields(w, At(mark, in)) = fields, KeysAre(fields),
         NEW k, k \in DOMAIN fields, NEW flags, FlagsOf(mark, k, flags, w.base)
  PROVE  Read(w, At(mark, in), Atom(k, flags)) = WithInner(At(mark, in), "colon", WithKey(Inner(At(mark, in)), k))
<1> DEFINE a == At(mark, in)
           tok == Atom(k, flags)
           S == KeysWritten(w, a, tok)
<1>1. a.next = mark /\ a.in = in
  BY DEF At
<1> DEFINE b == w.base
<1>0. /\ flags.base = b /\ b \in Bases /\ mark \in {"dot", "at"}
      /\ mark = "at" => flags.quoted = TRUE
      /\ mark = "dot" => flags.quoted = FALSE /\ k.type = "str" /\ k.n \in IdentStr
  BY DEF FlagsOf
<1> HIDE DEF b
<1>2. KeyIs(k) /\ Writable(k) /\ k.type \in {"int", "str"}
  BY KeyWritable DEF KeysAre
<1>3. /\ Denotes(tok, k, b)
      /\ k.type = "int" => tok.t = "num"
      /\ k.type = "str" => tok.t = "str" /\ tok.n = k.n /\ tok.quoted = flags.quoted
      /\ tok.t = "str" => k.type = "str"
  <2>1. flags.base \in Bases
    BY <1>0
  <2>2. QED
    BY <1>0, <1>2, <2>1, AtomDenotes
<1>4. Fields(w, a) = fields
  OBVIOUS
<1> HIDE DEF a, tok
<1>5. \A l \in DOMAIN fields : Denotes(tok, l, b) => l = k
  BY <1>2, <1>3, KeyTold DEF KeysAre
<1>6. k \in S
  <2>1. tok.t = "str" => tok.quoted = (mark = "at")
    <3>1. CASE mark = "at"
      BY <1>0, <1>2, <1>3, <3>1
    <3>2. CASE mark = "dot"
      BY <1>0, <1>2, <1>3, <3>2
    <3>3. QED
      BY <1>0, <3>1, <3>2
  <2>2. QED
    BY <1>0, <1>1, <1>2, <1>3, <1>4, <2>1 DEF KeysWritten, b
<1>7. S = {k}
  BY <1>4, <1>5, <1>6 DEF KeysWritten, b
<1>8. tok.t \in {"num", "str"}
  BY <1>2, <1>3
<1> HIDE DEF S
<1>9. (CHOOSE l \in S : TRUE) = k
  BY <1>7
<1>10. Read(w, a, tok) = WithInner(a, "colon", WithKey(Inner(a), CHOOSE l \in S : TRUE))
  BY <1>0, <1>1, <1>7, <1>8 DEF Read, AtField, S
<1>11. QED
  BY <1>9, <1>10 DEF a, tok

MayBegin(n) == n \in {"field or end", "field"}
FieldsOf(w, f) == w.fields[f.rec]

\* All that is written of a key.
LEMMA KeyTextBy ==
  ASSUME NEW w, NEW s, IsSeq(s), s # <<>>, NEW f, f = s[Len(s)],
         NEW fields, fields = FieldsOf(w, f), KeysAre(fields), NEW k, k \in DOMAIN fields,
         NEW n, MayBegin(n), NEW mark, NEW flags, FlagsOf(mark, k, flags, w.base),
         NEW g, WithKey(Settled(f), k) = Awaits(g),
         NEW in, in = Reading(s), NEW a, a = At(mark, in)
  PROVE  Read(w, Read(w, Read(w, At(n, in), Token(mark)), Atom(k, flags)), Token("colon"))
           = At("value", Awaiting([s EXCEPT ![Len(s)] = g]))
<1>1. Read(w, At(n, in), Token(mark)) = a
  <2>1. n \in {"field or end", "field"} /\ mark \in {"dot", "at"}
    BY DEF FlagsOf, MayBegin
  <2>2. QED
    BY <2>1, MarkRead
<1>2. a.in = in
  BY DEF At
<1>3. Inner(a) = Settled(f)
  <2>1. Len(s) \in 1 .. Len(s)
    BY LastIs
  <2>2. Len(in) = Len(s) /\ in[Len(s)] = Settled(s[Len(s)])
    BY <2>1, ReadingIs
  <2>3. QED
    BY <1>2, <2>2 DEF Inner, Last
<1>4. Fields(w, a) = fields
  <2>1. Settled(f).rec = f.rec
    BY DEF Settled, Within
  <2>2. QED
    BY <1>3, <2>1 DEF Fields, FieldsOf
<1>5. Read(w, a, Atom(k, flags)) = WithInner(a, "colon", WithKey(Settled(f), k))
  <2>1. Read(w, a, Atom(k, flags)) = WithInner(a, "colon", WithKey(Inner(a), k))
    <3>1. Fields(w, At(mark, in)) = fields
      BY <1>4
    <3>2. Read(w, At(mark, in), Atom(k, flags)) =
            WithInner(At(mark, in), "colon", WithKey(Inner(At(mark, in)), k))
      BY <3>1, KeyRead
    <3>3. QED
      BY <3>2
  <2>2. QED
    BY <1>3, <2>1
<1>6. WithInner(a, "colon", WithKey(Settled(f), k)) = At("colon", Awaiting([s EXCEPT ![Len(s)] = g]))
  <2>1. WithInner(a, "colon", WithKey(Settled(f), k)) =
          At("colon", [Reading(s) EXCEPT ![Len(Reading(s))] = WithKey(Settled(f), k)])
    <3>1. a.in = Reading(s)
      BY <1>2
    <3>2. QED
      BY <3>1 DEF WithInner
  <2> DEFINE x == WithKey(Settled(f), k)
  <2>2. x = Awaits(g) /\ IsSeq(s) /\ s # <<>>
    OBVIOUS
  <2> HIDE DEF x
  <2>3. [Reading(s) EXCEPT ![Len(Reading(s))] = x] = Awaiting([s EXCEPT ![Len(s)] = g])
    BY <2>2, NowAwaiting
  <2>4. QED
    BY <2>1, <2>3 DEF x
<1>7. Read(w, At("colon", Awaiting([s EXCEPT ![Len(s)] = g])), Token("colon"))
        = At("value", Awaiting([s EXCEPT ![Len(s)] = g]))
  BY ColonRead
<1>8. QED
  BY <1>1, <1>5, <1>6, <1>7

LEMMA KeyTextRead ==
  ASSUME NEW w, NEW s, IsSeq(s), s # <<>>, NEW f, f = s[Len(s)],
         KeysAre(FieldsOf(w, f)), NEW k, k \in DOMAIN FieldsOf(w, f),
         NEW n, MayBegin(n), NEW mark, NEW flags, FlagsOf(mark, k, flags, w.base),
         NEW g, WithKey(Settled(f), k) = Awaits(g)
  PROVE  Read(w, Read(w, Read(w, At(n, Reading(s)), Token(mark)), Atom(k, flags)), Token("colon"))
           = At("value", Awaiting([s EXCEPT ![Len(s)] = g]))
<1> DEFINE fields == FieldsOf(w, f)
           in == Reading(s)
           a == At(mark, in)
<1>1. KeysAre(fields) /\ k \in DOMAIN fields
  OBVIOUS
<1>2. QED
  BY <1>1, KeyTextBy

-------------------------------------------------------------------------------
(* What a text says. *)

\* The operators on sequences, by name.
Then(s, e) == Append(s, e)
Cat(s, t) == s \o t

LEMMA ThenIs ==
  ASSUME NEW s, IsSeq(s), NEW e
  PROVE  /\ IsSeq(Then(s, e)) /\ Then(s, e) # <<>>
         /\ DOMAIN Then(s, e) = 1 .. Len(s) + 1
         /\ (\A i \in 1 .. Len(s) : Then(s, e)[i] = s[i]) /\ Then(s, e)[Len(s) + 1] = e
         /\ Cat(s, <<>>) = s /\ Cat(s, <<e>>) = Then(s, e)
<1>1. Cat(s, <<>>) = s /\ Cat(s, <<e>>) = Then(s, e)
  <2>1. s \in Seq(Range(s))
    BY DEF IsSeq
  <2>2. s \in Seq(Range(s) \union {e}) /\ e \in Range(s) \union {e}
    BY <2>1
  <2>3. QED
    BY <2>2 DEF Cat, Then
<1>2. IsSeq(Then(s, e)) /\ Then(s, e) # <<>>
  <2>1. IsSeq(Append(s, e)) /\ DOMAIN Append(s, e) = 1 .. Len(s) + 1 /\ Len(s) \in Nat
    BY AppendIs, SeqIs
  <2>2. Append(s, e) # <<>>
    BY <2>1
  <2>3. QED
    BY <2>1, <2>2 DEF Then
<1>3. /\ DOMAIN Then(s, e) = 1 .. Len(s) + 1
      /\ (\A i \in 1 .. Len(s) : Then(s, e)[i] = s[i]) /\ Then(s, e)[Len(s) + 1] = e
  BY AppendIs, SeqIs DEF Then
<1>4. QED
  BY <1>1, <1>2, <1>3

LEMMA CatThen ==
  ASSUME NEW s, IsSeq(s), NEW t, IsSeq(t), NEW e
  PROVE  /\ Cat(s, Then(t, e)) = Then(Cat(s, t), e)
         /\ IsSeq(Cat(s, t)) /\ IsSeq(Then(t, e))
<1> DEFINE T == Range(s) \union Range(t) \union {e}
           u == s \o t
<1>1. s \in Seq(T) /\ t \in Seq(T) /\ e \in T
  BY DEF IsSeq
<1> HIDE DEF T
<1>2. s \o Append(t, e) = Append(u, e) /\ u \in Seq(T)
  BY <1>1, ConcatAppend
<1> HIDE DEF u
<1>3. IsSeq(u)
  <2>1. u = [i \in 1 .. Len(u) |-> u[i]] /\ Len(u) \in Nat
    BY <1>2
  <2>2. QED
    BY <2>1, MadeSeq
<1>4. Cat(s, Then(t, e)) = Then(u, e)
  BY <1>2, Zenon DEF Cat, Then
<1>5. QED
  BY <1>3, <1>4, ThenIs DEF u, Cat

LEMMA ReadThen ==
  ASSUME NEW w, NEW s, IsSeq(s), NEW e
  PROVE  ReadAll(w, Then(s, e)) = Read(w, ReadAll(w, s), e)
<1>1. \A u : \A d : IsSeq(u) => ReadAll(w, Append(u, d)) = Read(w, ReadAll(w, u), d)
  BY ReadAllIs
<1>2. ReadAll(w, Append(s, e)) = Read(w, ReadAll(w, s), e)
  BY <1>1
<1>3. QED
  BY <1>2, Zenon DEF Then

\* One more token.
LEMMA OneMore ==
  ASSUME NEW w, NEW s, IsSeq(s), NEW e
  PROVE  /\ IsSeq(Cat(s, <<e>>)) /\ Cat(s, <<e>>) # <<>>
         /\ ReadAll(w, Cat(s, <<e>>)) = Read(w, ReadAll(w, s), e)
<1>1. Cat(s, <<e>>) = Then(s, e) /\ IsSeq(Then(s, e)) /\ Then(s, e) # <<>>
  BY ThenIs
<1>2. ReadAll(w, Then(s, e)) = Read(w, ReadAll(w, s), e)
  BY ReadThen
<1>3. QED
  BY <1>1, <1>2

LEMMA TripleIs ==
  ASSUME NEW d, NEW e, NEW f
  PROVE  IsSeq(<<d>>) /\ <<d, e, f>> = Then(Then(<<d>>, e), f)
<1> DEFINE t == <<d>>
           u == Then(t, e)
           v == Then(u, f)
           x == <<d, e, f>>
<1>1. IsSeq(t) /\ Len(t) = 1 /\ DOMAIN t = 1 .. 1 /\ t[1] = d
  <2>1. t \in Seq({d}) /\ Range(t) = {d}
    BY DEF Range
  <2>2. QED
    BY <2>1 DEF IsSeq
<1> HIDE DEF t
<1>2. IsSeq(u) /\ Len(u) = 2 /\ DOMAIN u = 1 .. 2 /\ u[1] = d /\ u[2] = e
  <2>1. /\ IsSeq(u) /\ DOMAIN u = 1 .. Len(t) + 1 /\ (\A i \in 1 .. Len(t) : u[i] = t[i]) /\ u[Len(t) + 1] = e
    BY <1>1, ThenIs
  <2> HIDE DEF u
  <2>2. QED
    BY <1>1, <2>1 DEF IsSeq
<1> HIDE DEF u
<1>3. IsSeq(v) /\ Len(v) = 3 /\ DOMAIN v = 1 .. 3 /\ v[1] = d /\ v[2] = e /\ v[3] = f
  <2>1. /\ IsSeq(v) /\ DOMAIN v = 1 .. Len(u) + 1 /\ (\A i \in 1 .. Len(u) : v[i] = u[i]) /\ v[Len(u) + 1] = f
    BY <1>2, ThenIs
  <2> HIDE DEF v
  <2>2. QED
    BY <1>2, <2>1 DEF IsSeq
<1> HIDE DEF v
<1>4. IsSeq(x) /\ Len(x) = 3 /\ x[1] = d /\ x[2] = e /\ x[3] = f
  <2>1. x \in Seq({d, e, f}) /\ Range(x) = {d, e, f}
    <3>1. DOMAIN x = {1, 2, 3} /\ x[1] = d /\ x[2] = e /\ x[3] = f
      OBVIOUS
    <3>2. x \in Seq({d, e, f})
      OBVIOUS
    <3> HIDE DEF x
    <3>3. QED
      BY <3>1, <3>2 DEF Range
  <2>2. QED
    BY <2>1 DEF IsSeq
<1> HIDE DEF x
<1>5. \A i \in 1 .. 3 : x[i] = v[i]
  BY <1>3, <1>4
<1>6. x = v
  <2> DEFINE n == 3
  <2>1. IsSeq(x) /\ IsSeq(v) /\ Len(x) = n /\ Len(v) = n /\ \A i \in 1 .. n : x[i] = v[i]
    BY <1>3, <1>4, <1>5
  <2> HIDE DEF n
  <2>2. QED
    BY <2>1, SameSeq
<1>7. QED
  BY <1>1, <1>6 DEF t, u, v, x

\* Three more tokens.
LEMMA ThreeMore ==
  ASSUME NEW w, NEW s, IsSeq(s), NEW d, NEW e, NEW f
  PROVE  /\ IsSeq(Cat(s, <<d, e, f>>)) /\ Cat(s, <<d, e, f>>) # <<>>
         /\ ReadAll(w, Cat(s, <<d, e, f>>)) = Read(w, Read(w, Read(w, ReadAll(w, s), d), e), f)
<1> DEFINE t == <<d>>
           u == Then(t, e)
           v == Then(u, f)
           st == Cat(s, t)
           su == Cat(s, u)
           sv == Cat(s, v)
<1>1. <<d, e, f>> = v /\ IsSeq(t)
  BY TripleIs
<1>2. ReadAll(w, st) = Read(w, ReadAll(w, s), d)
  BY OneMore
<1>3. Cat(s, <<d, e, f>>) = sv
  BY <1>1
<1> HIDE DEF t
<1>4. su = Then(st, e) /\ IsSeq(st) /\ IsSeq(u)
  BY <1>1, CatThen
<1> HIDE DEF u
<1>5. sv = Then(su, f) /\ IsSeq(su)
  BY <1>4, CatThen
<1> HIDE DEF v, st, su, sv
<1>6. IsSeq(sv) /\ sv # <<>>
  BY <1>5, ThenIs
<1>7. ReadAll(w, sv) = Read(w, ReadAll(w, su), f)
  BY <1>5, ReadThen
<1>8. ReadAll(w, su) = Read(w, ReadAll(w, st), e)
  BY <1>4, ReadThen
<1>9. QED
  BY <1>2, <1>3, <1>6, <1>7, <1>8

KnownOf(f) ==
  [of |-> f.of, base |-> f.flags.base, fields |-> [r \in DOMAIN heap |-> [k \in Keys(r) |-> Get(r, k)]]]

LEMMA KnownIs ==
  ASSUME NEW f
  PROVE  /\ KnownOf(f).of = f.of /\ KnownOf(f).base = f.flags.base
         /\ \A r \in DOMAIN heap :
               /\ DOMAIN KnownOf(f).fields[r] = Keys(r)
               /\ \A k \in Keys(r) : KnownOf(f).fields[r][k] = Get(r, k)
BY DEF KnownOf

-------------------------------------------------------------------------------
(* What a frame says while the writer has defined nothing. *)

Says(f) ==
  /\ Shown(f) \subseteq Keys(f.rec)
  /\ \A k \in Keys(f.rec) : <<k, Get(f.rec, k)>> \in f.lasting
  /\ f.pass = "sequence" => Len(f.shown) = f.index /\ (f.index > 0 => Entry(f) = IntVal(f.index - 1))
  /\ f.pass = "keyed" => (f.empty <=> f.shown = <<>>)

KeysTold == \A k \in Key : KeyIs(k)

\* Once a field has been shown its record waits for its value, and has met the others.
LEMMA RejoinsIs ==
  ASSUME KeysTold, NEW f, FrameInv(f), Says(f), f.shown # <<>>
  PROVE  /\ Rejoins(f) /\ FieldKey(Awaits(f)) = Entry(f) /\ Entry(f) \in Keys(f.rec)
         /\ Entry(f) \in Key
<1> DEFINE n == Len(f.shown)
           met == {f.shown[j][1] : j \in 1 .. n - 1}
           e == Entry(f)
<1>1. IsSeq(f.shown) /\ f.index \in Nat /\ f.pass \in {"sequence", "keyed"}
      /\ \A j, l \in DOMAIN f.shown : f.shown[j][1] = f.shown[l][1] => j = l
  BY DEF FrameInv, FrameType, NotAgain
<1>2. n \in Nat \ {0} /\ n \in 1 .. n /\ DOMAIN f.shown = 1 .. n
  BY <1>1, LastIs, SeqIs
<1>3. e = f.shown[n][1]
  BY DEF Entry
<1>4. e \in Shown(f)
  BY <1>2, <1>3 DEF Shown
<1>5. e \in Keys(f.rec) /\ e \in Key /\ e # Udf
  <2>1. e \in Keys(f.rec) /\ e \in Key
    BY <1>4 DEF Says, Keys
  <2>2. KeyIs(e)
    BY <2>1 DEF KeysTold
  <2> HIDE DEF e
  <2>3. QED
    BY <2>1, <2>2, KeyWritable
<1>6. e \notin met
  <2>1. ASSUME NEW j \in 1 .. n - 1, f.shown[j][1] = e PROVE FALSE
    <3>1. j \in DOMAIN f.shown /\ n \in DOMAIN f.shown /\ j # n
      BY <1>2
    <3>2. j = n
      BY <1>1, <1>3, <2>1, <3>1
    <3>3. QED
      BY <3>1, <3>2
  <2>2. QED
    BY <2>1
<1>7. met \union {e} = Shown(f)
  <2>1. \A j \in 1 .. n : j \in 1 .. n - 1 \/ j = n
    BY <1>2
  <2>2. \A j \in 1 .. n - 1 : j \in 1 .. n
    BY <1>2
  <2>3. QED
    BY <1>2, <1>3, <2>1, <2>2 DEF Shown
<1> HIDE DEF n, met, e
<1>8. Awaits(f) = Within(f.rec, met, IF f.pass = "keyed" THEN e ELSE Udf,
                         IF f.pass = "sequence" THEN f.index - 1 ELSE f.index)
  BY DEF Awaits, n, met, e
<1>9. CASE f.pass = "keyed"
  <2>1. Awaits(f) = Within(f.rec, met, e, f.index)
    BY <1>8, <1>9
  <2> DEFINE a == Awaits(f)
  <2>2. a.rec = f.rec /\ a.met = met /\ a.key = e /\ a.place = f.index
    BY <2>1 DEF Within
  <2> HIDE DEF a
  <2>3. FieldKey(a) = e /\ WithField(a) = Within(f.rec, met \union {e}, Udf, f.index)
    BY <1>5, <2>2 DEF FieldKey, WithField
  <2>4. QED
    BY <1>5, <1>6, <1>7, <2>2, <2>3 DEF Rejoins, Settled, a, e
<1>10. CASE f.pass = "sequence"
  <2>1. Awaits(f) = Within(f.rec, met, Udf, f.index - 1)
    BY <1>8, <1>10
  <2>2. e = IntVal(f.index - 1) /\ (f.index - 1) + 1 = f.index
    BY <1>1, <1>2, <1>10 DEF Says, n, e
  <2> DEFINE a == Awaits(f)
  <2>3. a.rec = f.rec /\ a.met = met /\ a.key = Udf /\ a.place = f.index - 1
    BY <2>1 DEF Within
  <2> HIDE DEF a
  <2>4. FieldKey(a) = e /\ WithField(a) = Within(f.rec, met \union {e}, Udf, f.index)
    BY <2>2, <2>3 DEF FieldKey, WithField
  <2>5. QED
    BY <1>5, <1>6, <1>7, <2>3, <2>4 DEF Rejoins, Settled, a, e
<1>11. QED
  BY <1>1, <1>9, <1>10

\* What the reader wants then.
LEMMA WantedIs ==
  ASSUME KeysTold, NEW c, NEW s, IsSeq(s), s # <<>>, NEW f, f = s[Len(s)], f.rec \in DOMAIN heap,
         FrameInv(f), Says(f), f.shown # <<>>, NEW n
  PROVE  Wanted(KnownOf(c), At(n, Awaiting(s))) = Get(f.rec, Entry(f))
<1> DEFINE a == At(n, Awaiting(s))
           w == KnownOf(c)
<1>1. a.in = Awaiting(s)
  BY DEF At
<1>2. FieldKey(Awaits(f)) = Entry(f) /\ Entry(f) \in Keys(f.rec)
  BY RejoinsIs
<1>3. a.in # <<>> /\ Inner(a) = Awaits(f)
  <2>1. Len(s) \in 1 .. Len(s) /\ Len(s) \in Nat \ {0}
    BY LastIs
  <2>2. IsSeq(Awaiting(s)) /\ Len(Awaiting(s)) = Len(s) /\ Awaiting(s)[Len(s)] = Awaits(f)
    BY <2>1, AwaitingIs
  <2>3. QED
    BY <1>1, <2>1, <2>2 DEF Inner, Last
<1>4. Fields(w, a) = w.fields[f.rec]
  <2>1. Awaits(f).rec = f.rec
    BY DEF Awaits, Within
  <2>2. QED
    BY <1>3, <2>1 DEF Fields
<1>5. DOMAIN w.fields[f.rec] = Keys(f.rec) /\ w.fields[f.rec][Entry(f)] = Get(f.rec, Entry(f))
  BY <1>2, KnownIs
<1> HIDE DEF a, w
<1>6. Wanted(w, a) = Field(Fields(w, a), FieldKey(Inner(a)))
  BY <1>3 DEF Wanted
<1>7. QED
  BY <1>2, <1>3, <1>4, <1>5, <1>6 DEF Field, a, w

-------------------------------------------------------------------------------
(* A value is written. *)

\* What holds of a call whatever the writer defines: the values that are to be
\* written can be, in a base that there is, and only a function has none.
CallOk(f) ==
  /\ IsSeq(f.todo) /\ \A i \in DOMAIN f.todo : Writable(f.todo[i].val)
  /\ f.flags = [quoted |-> f.flags.quoted, base |-> f.flags.base] /\ f.flags.base \in Bases
  /\ f.state = "ub" => f.of.type = "fun"

\* What holds as long as it has defined nothing: the reader of the text is where
\* the frames are.
Framed(s) == \A i \in DOMAIN s : Says(s[i]) /\ (i < Len(s) => s[i].shown # <<>>)
Said(f) ==
  /\ IsSeq(f.text) /\ (f.stack # <<>> => f.text # <<>>)
  /\ f.text # <<>> => ReadAll(KnownOf(f), f.text) = Expected(f.stack)
  /\ Framed(f.stack)

LEMMA FlagsAre ==
  ASSUME NEW spec
  PROVE  /\ Flags(spec) = [quoted |-> Flags(spec).quoted, base |-> Flags(spec).base]
         /\ Flags(spec).base \in Bases
BY DEF Flags, Bases

LEMMA IdleSaid ==
  ASSUME NEW f, f = Idle \/ f = Failed \/ (f.todo = <<>> /\ f.flags = Flags(<<>>) /\ f.text = <<>>
                  /\ f.stack = <<>> /\ (f.state = "ub" => f.of.type = "fun"))
  PROVE  CallOk(f) /\ Said(f)
<1>1. f.todo = <<>> /\ f.flags = Flags(<<>>) /\ f.text = <<>> /\ f.stack = <<>>
      /\ (f.state = "ub" => f.of.type = "fun")
  BY DEF Idle, Failed
<1>2. IsSeq(<<>>) /\ DOMAIN <<>> = {}
  BY DEF IsSeq
<1>3. CallOk(f)
  BY <1>1, <1>2, FlagsAre DEF CallOk
<1>4. Said(f)
  BY <1>1, <1>2 DEF Said, Framed
<1>5. QED
  BY <1>3, <1>4

LEMMA WroteMore ==
  ASSUME NEW f, IsCall(f), NEW tokens
  PROVE  /\ IsCall(Wrote(f, tokens))
         /\ Wrote(f, tokens).text = Cat(f.text, tokens)
         /\ Wrote(f, tokens).stack = f.stack /\ Wrote(f, tokens).todo = f.todo
         /\ Wrote(f, tokens).flags = f.flags /\ Wrote(f, tokens).of = f.of
         /\ Wrote(f, tokens).state = f.state
<1> DEFINE t == Cat(f.text, tokens)
           g == [f EXCEPT !.text = t]
<1>1. Wrote(f, tokens) = g
  BY DEF Wrote, Cat
<1> HIDE DEF t
<1>2. /\ IsCall(g) /\ g.text = t /\ g.stack = f.stack /\ g.todo = f.todo
      /\ g.flags = f.flags /\ g.of = f.of /\ g.state = f.state
  BY DEF IsCall
<1> HIDE DEF g
<1>3. QED
  BY <1>1, <1>2 DEF t

LEMMA Stacked ==
  ASSUME NEW f, IsCall(f), NEW s
  PROVE  /\ IsCall([f EXCEPT !.stack = s])
         /\ [f EXCEPT !.stack = s].text = f.text
         /\ [f EXCEPT !.stack = s].stack = s /\ [f EXCEPT !.stack = s].todo = f.todo
         /\ [f EXCEPT !.stack = s].flags = f.flags /\ [f EXCEPT !.stack = s].of = f.of
         /\ [f EXCEPT !.stack = s].state = f.state
BY DEF IsCall

LEMMA OkSame ==
  ASSUME NEW f, CallOk(f), NEW g, g.todo = f.todo, g.flags = f.flags, g.of = f.of, g.state = f.state
  PROVE  CallOk(g)
BY DEF CallOk

\* A record begins, or an iterator fails; what has no digits is a function.
LEMMA FmtValCases ==
  ASSUME NEW f, IsCall(f), NEW v, Writable(v), NEW flags, flags.base \in Bases,
         NEW g \in FmtVal(f, v, flags)
  PROVE  \/ /\ v.type = "rec" /\ g.text = Cat(f.text, <<Token("open")>>)
            /\ g.stack = Then(f.stack, Frame(v.n))
            /\ g.todo = f.todo /\ g.flags = f.flags /\ g.of = f.of /\ g.state = f.state
         \/ /\ v.type # "rec" /\ g.text = Cat(f.text, <<Atom(v, flags)>>) /\ g.stack = f.stack
            /\ g.todo = f.todo /\ g.flags = f.flags /\ g.of = f.of /\ g.state = f.state
         \/ CallOk(g) /\ Said(g)
<1>1. CASE v.type = "rec"
  <2> DEFINE w == Wrote(f, <<Token("open")>>)
             s == Then(w.stack, Frame(v.n))
             h == [w EXCEPT !.stack = s]
  <2>1. g = h \/ g = Failed
    BY <1>1 DEF FmtVal, Then
  <2>2. /\ IsCall(w) /\ w.text = Cat(f.text, <<Token("open")>>) /\ w.stack = f.stack
        /\ w.todo = f.todo /\ w.flags = f.flags /\ w.of = f.of /\ w.state = f.state
    BY WroteMore
  <2>3. s = Then(f.stack, Frame(v.n))
    BY <2>2
  <2> HIDE DEF w, s
  <2>4. /\ h.text = w.text /\ h.stack = s /\ h.todo = w.todo /\ h.flags = w.flags
        /\ h.of = w.of /\ h.state = w.state
    BY <2>2, Stacked
  <2> HIDE DEF h
  <2>5. CASE g = h
    BY <1>1, <2>2, <2>3, <2>4, <2>5
  <2>6. CASE g = Failed
    BY <2>6, IdleSaid
  <2>7. QED
    BY <2>1, <2>5, <2>6
<1>2. CASE v.type # "rec" /\ IsUndefined(v, flags)
  <2>1. g = [Idle EXCEPT !.state = "ub", !.of = v]
    BY <1>2 DEF FmtVal
  <2>2. v.type = "fun"
    <3>1. ASSUME v.type = "int" PROVE ~(Len(IntDigits(v.n, flags.base)) > BufSize)
      <4>1. v.n \in -IntLimit .. IntLimit - 1
        BY <3>1 DEF Writable
      <4>2. /\ Len(IntDigits(v.n, flags.base)) <= Width /\ Width <= BufSize
            /\ Width \in Nat /\ v.n \in Int
        BY <4>1, Fits
      <4>3. BufSize \in Int
        BY FormatterAssumption
      <4>4. QED
        BY <4>2, <4>3
    <3>2. QED
      BY <1>2, <3>1 DEF IsUndefined
  <2>3. g.todo = <<>> /\ g.flags = Flags(<<>>) /\ g.text = <<>> /\ g.stack = <<>> /\ g.of = v
    BY <2>1 DEF Idle
  <2>4. CallOk(g) /\ Said(g)
    BY <2>2, <2>3, IdleSaid
  <2>5. QED
    BY <2>4
<1>3. CASE v.type # "rec" /\ ~IsUndefined(v, flags)
  <2>1. g = Wrote(f, <<Atom(v, flags)>>)
    BY <1>3 DEF FmtVal
  <2>2. QED
    BY <1>3, <2>1, WroteMore
<1>4. QED
  BY <1>1, <1>2, <1>3

LEMMA FrameSays ==
  ASSUME NEW r
  PROVE  /\ Says(Frame(r)) /\ Frame(r).rec = r /\ Frame(r).shown = <<>> /\ Frame(r).index = 0
<1> DEFINE f == Frame(r)
<1>1. /\ f.rec = r /\ f.pass = "sequence" /\ f.index = 0 /\ f.shown = <<>>
      /\ f.lasting = {<<k, Get(r, k)>> : k \in Keys(r)}
  BY DEF Frame
<1> HIDE DEF f
<1>2. Len(f.shown) = 0 /\ Shown(f) = {}
  BY <1>1 DEF Shown
<1>3. Says(f)
  BY <1>1, <1>2 DEF Says
<1>4. QED
  BY <1>1, <1>3 DEF f

LEMMA FmtValOk ==
  ASSUME NEW f, IsCall(f), CallOk(f), NEW v, Writable(v), NEW flags, flags.base \in Bases,
         NEW g \in FmtVal(f, v, flags)
  PROVE  CallOk(g)
<1>1. (g.todo = f.todo /\ g.flags = f.flags /\ g.of = f.of /\ g.state = f.state) \/ CallOk(g)
  BY FmtValCases
<1>2. QED
  BY <1>1, OkSame

\* Where the reader of the text waits for a value, in the frames that wait for it.
Waits(f, n, v) ==
  /\ IsSeq(f.text) /\ ReadAll(KnownOf(f), f.text) = At(n, Awaiting(f.stack)) /\ n \in FieldNext
  /\ Wanted(KnownOf(f), At(n, Awaiting(f.stack))) = v
  /\ \A i \in DOMAIN f.stack : Says(f.stack[i]) /\ f.stack[i].shown # <<>>

LEMMA TopRejoins ==
  ASSUME KeysTold, NEW s, IsSeq(s), \A i \in DOMAIN s : FrameInv(s[i]),
         \A i \in DOMAIN s : Says(s[i]) /\ s[i].shown # <<>>
  PROVE  s # <<>> => Rejoins(s[Len(s)])
<1> SUFFICES ASSUME s # <<>> PROVE Rejoins(s[Len(s)])
  OBVIOUS
<1>1. Len(s) \in DOMAIN s
  BY LastIs, SeqIs
<1> DEFINE f == s[Len(s)]
<1>2. FrameInv(f) /\ Says(f) /\ f.shown # <<>>
  BY <1>1
<1> HIDE DEF f
<1>3. Rejoins(f)
  BY <1>2, RejoinsIs
<1>4. QED
  BY <1>3 DEF f

LEMMA KnownSame ==
  ASSUME NEW f, NEW g, g.of = f.of, g.flags = f.flags
  PROVE  KnownOf(g) = KnownOf(f)
BY DEF KnownOf

LEMMA ValueSaid ==
  ASSUME KeysTold, NEW f, CallInv(f), CallOk(f), NEW n, NEW v, Waits(f, n, v), Writable(v),
         NEW flags, flags.base = f.flags.base, f.stack # <<>> => flags.quoted = TRUE,
         NEW g \in FmtVal(f, v, flags)
  PROVE  Said(g)
<1> DEFINE s == f.stack
           w == KnownOf(f)
           a == At(n, Awaiting(s))
<1>1. /\ IsCall(f) /\ IsSeq(s) /\ (\A i \in DOMAIN s : FrameInv(s[i]))
      /\ \A i \in DOMAIN s : Says(s[i]) /\ s[i].shown # <<>>
  BY DEF CallInv, Waits
<1>2. flags.base \in Bases /\ w.base \in Bases /\ flags.base = w.base
  BY KnownIs DEF CallOk
<1>3. IsSeq(f.text) /\ ReadAll(w, f.text) = a /\ n \in FieldNext /\ Wanted(w, a) = v
  BY DEF Waits
<1>4. s # <<>> => Rejoins(s[Len(s)])
  BY <1>1, TopRejoins
<1>5. \/ /\ v.type = "rec" /\ g.text = Cat(f.text, <<Token("open")>>) /\ g.stack = Then(s, Frame(v.n))
         /\ g.flags = f.flags /\ g.of = f.of
      \/ /\ v.type # "rec" /\ g.text = Cat(f.text, <<Atom(v, flags)>>) /\ g.stack = s
         /\ g.flags = f.flags /\ g.of = f.of
      \/ Said(g)
  BY <1>1, <1>2, FmtValCases
<1>6. CASE v.type = "rec" /\ g.text = Cat(f.text, <<Token("open")>>) /\ g.stack = Then(s, Frame(v.n))
         /\ g.flags = f.flags /\ g.of = f.of
  <2> DEFINE h == Frame(v.n)
             tok == Token("open")
  <2>1. Says(h) /\ h.rec = v.n /\ h.shown = <<>> /\ h.index = 0
    BY FrameSays
  <2>2. KnownOf(g) = w
    BY <1>6, KnownSame
  <2>3. /\ IsSeq(g.text) /\ g.text # <<>>
        /\ ReadAll(w, g.text) = Read(w, a, tok)
    BY <1>3, <1>6, OneMore
  <2>4. /\ IsSeq(g.stack) /\ DOMAIN g.stack = 1 .. Len(s) + 1
        /\ (\A i \in 1 .. Len(s) : g.stack[i] = s[i]) /\ g.stack[Len(s) + 1] = h
        /\ Len(s) \in Nat /\ DOMAIN s = 1 .. Len(s)
    <3> HIDE DEF s, h
    <3>1. /\ IsSeq(Then(s, h)) /\ DOMAIN Then(s, h) = 1 .. Len(s) + 1
          /\ (\A i \in 1 .. Len(s) : Then(s, h)[i] = s[i]) /\ Then(s, h)[Len(s) + 1] = h
      BY <1>1, ThenIs
    <3>2. Len(s) \in Nat /\ DOMAIN s = 1 .. Len(s)
      BY <1>1, SeqIs
    <3>3. g.stack = Then(s, h)
      BY <1>6 DEF h
    <3>4. QED
      BY <3>1, <3>2, <3>3
  <2>5. Read(w, a, tok) = Expected(g.stack)
    <3>1. v.type = "rec" /\ n \in FieldNext /\ Wanted(w, At(n, Awaiting(s))) = v /\ IsSeq(s)
      BY <1>1, <1>3, <1>6
    <3> HIDE DEF h, w, s
    <3>2. Read(w, At(n, Awaiting(s)), Token("open")) = Expected(Append(s, h))
      BY <2>1, <3>1, OpenRead
    <3>3. g.stack = Append(s, h)
      BY <1>6 DEF Then, h
    <3>4. QED
      BY <1>6, <3>2, Zenon DEF Then, h
  <2>6. Framed(g.stack)
    <3>1. Len(g.stack) = Len(s) + 1
      BY <2>4 DEF IsSeq
    <3>2. \A i \in DOMAIN g.stack : i \in 1 .. Len(s) \/ (i = Len(s) + 1 /\ ~(i < Len(g.stack)))
      BY <2>4, <3>1
    <3> HIDE DEF h, s
    <3>3. \A i \in 1 .. Len(s) : Says(g.stack[i]) /\ g.stack[i].shown # <<>>
      BY <1>1, <2>4
    <3>4. Says(g.stack[Len(s) + 1])
      BY <2>1, <2>4
    <3>5. QED
      BY <3>2, <3>3, <3>4 DEF Framed
  <2>7. QED
    BY <2>2, <2>3, <2>5, <2>6 DEF Said
<1>7. CASE v.type # "rec" /\ g.text = Cat(f.text, <<Atom(v, flags)>>) /\ g.stack = s
         /\ g.flags = f.flags /\ g.of = f.of
  <2> DEFINE tok == Atom(v, flags)
  <2>1. KnownOf(g) = w
    BY <1>7, KnownSame
  <2>2. /\ IsSeq(g.text) /\ g.text # <<>>
        /\ ReadAll(w, g.text) = Read(w, a, tok)
    BY <1>3, <1>7, OneMore
  <2>3. Read(w, a, tok) = Expected(s)
    <3>1. n \in FieldNext /\ Wanted(w, At(n, Awaiting(s))) = v /\ IsSeq(s)
          /\ flags.base = w.base /\ w.base \in Bases /\ Quotes(s, flags) /\ Rejoined(s)
      BY <1>1, <1>2, <1>3, <1>4 DEF Quotes, Rejoined
    <3> HIDE DEF w, s
    <3>2. QED
      BY <3>1, AtomRead
  <2>4. Framed(g.stack)
    BY <1>1, <1>7 DEF Framed
  <2>5. QED
    BY <1>7, <2>1, <2>2, <2>3, <2>4 DEF Said
<1>8. QED
  BY <1>5, <1>6, <1>7

-------------------------------------------------------------------------------
(* A field is written. *)

Topped(s, g) == [s EXCEPT ![Len(s)] = g]

LEMMA ToppedIs ==
  ASSUME NEW f, IsCall(f), IsSeq(f.stack), f.stack # <<>>, NEW g
  PROVE  /\ IsCall(WithTop(f, g)) /\ WithTop(f, g).stack = Topped(f.stack, g)
         /\ WithTop(f, g).text = f.text /\ WithTop(f, g).todo = f.todo
         /\ WithTop(f, g).flags = f.flags /\ WithTop(f, g).of = f.of
         /\ WithTop(f, g).state = f.state
<1> DEFINE s == Topped(f.stack, g)
<1>1. WithTop(f, g) = [f EXCEPT !.stack = s]
  BY DEF WithTop, Topped, IsCall
<1> HIDE DEF s
<1>2. QED
  BY <1>1, Stacked DEF s

LEMMA ToppedFrames ==
  ASSUME NEW s, IsSeq(s), s # <<>>, NEW g
  PROVE  /\ IsSeq(Topped(s, g)) /\ Len(Topped(s, g)) = Len(s) /\ Topped(s, g) # <<>>
         /\ DOMAIN Topped(s, g) = DOMAIN s /\ Topped(s, g)[Len(s)] = g /\ Len(s) \in DOMAIN s
         /\ \A i \in DOMAIN s : i # Len(s) => Topped(s, g)[i] = s[i]
<1> DEFINE z == [s EXCEPT ![Len(s)] = g]
<1>1. /\ IsSeq(z) /\ Len(z) = Len(s) /\ z[Len(s)] = g
      /\ \A i \in 1 .. Len(s) : i # Len(s) => z[i] = s[i]
  BY WithLastIs
<1>2. Len(s) \in 1 .. Len(s) /\ DOMAIN s = 1 .. Len(s) /\ Len(s) \in Nat \ {0}
  BY LastIs, SeqIs
<1> HIDE DEF z
<1>3. DOMAIN z = 1 .. Len(s)
  BY <1>1, SeqIs
<1>4. z # <<>>
  BY <1>2, <1>3
<1>5. z = Topped(s, g)
  BY Zenon DEF z, Topped
<1> HIDE DEF Topped
<1>6. QED
  BY <1>1, <1>2, <1>3, <1>4, <1>5

\* A frame that has shown one more field.
ShowsMore(g, f, k, v) ==
  /\ g.rec = f.rec /\ g.pass = f.pass /\ g.lasting = f.lasting
  /\ g.shown = Then(f.shown, <<k, v>>)

LEMMA MoreShown ==
  ASSUME NEW f, IsSeq(f.shown), NEW k, NEW v, NEW g, ShowsMore(g, f, k, v)
  PROVE  /\ g.shown # <<>> /\ Len(g.shown) = Len(f.shown) + 1 /\ Len(f.shown) \in Nat
         /\ Entry(g) = k /\ Shown(g) = Shown(f) \union {k}
         /\ {g.shown[j][1] : j \in 1 .. Len(g.shown) - 1} = Shown(f)
<1> DEFINE s == f.shown
           t == g.shown
           e == <<k, v>>
<1>1. e[1] = k
  OBVIOUS
<1> HIDE DEF e
<1>2. t = Then(s, e)
  BY DEF ShowsMore, e
<1>3. /\ IsSeq(Then(s, e)) /\ Then(s, e) # <<>> /\ DOMAIN Then(s, e) = 1 .. Len(s) + 1
      /\ (\A i \in 1 .. Len(s) : Then(s, e)[i] = s[i]) /\ Then(s, e)[Len(s) + 1] = e
  BY ThenIs
<1>4. Len(s) \in Nat /\ DOMAIN s = 1 .. Len(s)
  BY SeqIs
<1>5. /\ IsSeq(t) /\ t # <<>> /\ DOMAIN t = 1 .. Len(s) + 1
      /\ (\A i \in 1 .. Len(s) : t[i] = s[i]) /\ t[Len(s) + 1] = e
  BY <1>2, <1>3
<1>6. Len(t) = Len(s) + 1
  BY <1>4, <1>5 DEF IsSeq
<1>7. Entry(g) = k
  BY <1>1, <1>5, <1>6 DEF Entry
<1>8. {t[j][1] : j \in 1 .. Len(t) - 1} = Shown(f)
  <2>1. 1 .. Len(t) - 1 = 1 .. Len(s)
    BY <1>4, <1>6
  <2>2. \A j \in 1 .. Len(s) : t[j][1] = s[j][1]
    BY <1>5
  <2>3. QED
    BY <1>4, <2>1, <2>2 DEF Shown
<1>9. Shown(g) = Shown(f) \union {k}
  <2>1. \A j \in DOMAIN t : j \in DOMAIN s \/ j = Len(s) + 1
    BY <1>4, <1>5
  <2>2. \A j \in DOMAIN s : j \in DOMAIN t /\ t[j][1] = s[j][1]
    BY <1>4, <1>5
  <2>3. Len(s) + 1 \in DOMAIN t /\ t[Len(s) + 1][1] = k
    BY <1>1, <1>4, <1>5
  <2> HIDE DEF s, t
  <2>4. {t[j][1] : j \in DOMAIN t} = {s[j][1] : j \in DOMAIN s} \union {k}
    BY <2>1, <2>2, <2>3
  <2>5. QED
    BY <2>4 DEF Shown, s, t
<1>10. QED
  BY <1>4, <1>5, <1>6, <1>7, <1>8, <1>9

\* A comma is written after another field.
CommaIf(t, f) == t = IF f.shown = <<>> THEN <<>> ELSE <<Token("comma")>>

LEMMA CommaSaid ==
  ASSUME NEW f, Said(f), IsSeq(f.stack), f.stack # <<>>, NEW t, CommaIf(t, f.stack[Len(f.stack)])
  PROVE  /\ IsSeq(Cat(f.text, t))
         /\ \E n : MayBegin(n) /\ ReadAll(KnownOf(f), Cat(f.text, t)) = At(n, Reading(f.stack))
<1> DEFINE top == f.stack[Len(f.stack)]
           w == KnownOf(f)
           in == Reading(f.stack)
<1>1. IsSeq(f.text) /\ ReadAll(w, f.text) = Expected(f.stack)
  BY DEF Said
<1>2. Expected(f.stack) = At(IF top.shown = <<>> THEN "field or end" ELSE "comma", in)
  BY DEF Expected
<1> HIDE DEF w, in
<1>3. CASE top.shown = <<>>
  <2>1. t = <<>>
    BY <1>3 DEF CommaIf
  <2>2. Cat(f.text, t) = f.text
    BY <1>1, <2>1, ThenIs
  <2>3. ReadAll(w, Cat(f.text, t)) = At("field or end", in)
    BY <1>1, <1>2, <1>3, <2>2
  <2>4. MayBegin("field or end")
    BY DEF MayBegin
  <2>5. QED
    BY <1>1, <2>2, <2>3, <2>4 DEF w, in
<1>4. CASE top.shown # <<>>
  <2> DEFINE tok == Token("comma")
             u == Cat(f.text, <<tok>>)
  <2>1. Cat(f.text, t) = u
    BY <1>4 DEF CommaIf
  <2>2. IsSeq(u) /\ ReadAll(w, u) = Read(w, ReadAll(w, f.text), tok)
    BY <1>1, OneMore
  <2>3. ReadAll(w, f.text) = At("comma", in)
    BY <1>1, <1>2, <1>4
  <2>4. Read(w, At("comma", in), tok) = At("field", in)
    BY CommaRead
  <2>5. MayBegin("field")
    BY DEF MayBegin
  <2> HIDE DEF u, tok
  <2>6. ReadAll(w, Cat(f.text, t)) = At("field", in)
    BY <2>1, <2>2, <2>3, <2>4
  <2>7. QED
    BY <2>1, <2>2, <2>5, <2>6 DEF w, in
<1>5. QED
  BY <1>3, <1>4

LEMMA WaitsTop ==
  ASSUME KeysTold, NEW f, CallInv(f), Said(f), f.stack # <<>>,
         NEW top, FrameInv(top), Says(top), top.shown # <<>>,
         NEW h, h.stack = Topped(f.stack, top), h.flags = f.flags, h.of = f.of, IsSeq(h.text),
         NEW n \in FieldNext, ReadAll(KnownOf(f), h.text) = At(n, Awaiting(Topped(f.stack, top)))
  PROVE  Waits(h, n, Get(top.rec, Entry(top)))
<1> DEFINE s == f.stack
           z == Topped(s, top)
<1>1. IsSeq(s) /\ s # <<>> /\ Framed(s)
  BY DEF CallInv, Said
<1>2. /\ IsSeq(z) /\ Len(z) = Len(s) /\ z # <<>> /\ DOMAIN z = DOMAIN s /\ z[Len(s)] = top
      /\ Len(s) \in DOMAIN s /\ \A i \in DOMAIN s : i # Len(s) => z[i] = s[i]
  BY <1>1, ToppedFrames
<1>3. h.stack = z /\ KnownOf(h) = KnownOf(f)
  BY KnownSame
<1>4. \A i \in DOMAIN z : Says(z[i]) /\ z[i].shown # <<>>
  <2>1. SUFFICES ASSUME NEW i \in DOMAIN z PROVE Says(z[i]) /\ z[i].shown # <<>>
    OBVIOUS
  <2>2. CASE i = Len(s)
    BY <1>2, <2>2
  <2>3. CASE i # Len(s)
    <3>1. z[i] = s[i] /\ i \in DOMAIN s
      BY <1>2, <2>3
    <3>2. i < Len(s)
      BY <1>1, <2>3, <3>1, SeqIs
    <3>3. QED
      BY <1>1, <3>1, <3>2 DEF Framed
  <2>4. QED
    BY <2>2, <2>3
<1>5. Wanted(KnownOf(h), At(n, Awaiting(z))) = Get(top.rec, Entry(top))
  <2>1. top.rec \in DOMAIN heap
    BY DEF FrameInv, FrameType
  <2>2. top = z[Len(z)]
    BY <1>2
  <2> HIDE DEF z
  <2>3. QED
    BY <1>2, <2>1, <2>2, WantedIs
<1> HIDE DEF z
<1>6. ReadAll(KnownOf(h), h.text) = At(n, Awaiting(z))
  BY <1>3 DEF z
<1>7. QED
  BY <1>3, <1>4, <1>5, <1>6 DEF Waits

\* How a frame goes on to the field k.
GoesOn(g, f, k) ==
  /\ g.pass = "sequence" => g.index = f.index + 1 /\ k = IntVal(f.index) /\ f.index \in Nat
  /\ g.pass = "keyed" => g.empty = FALSE

\* What a frame says of the field it shows.
LEMMA SaysMore ==
  ASSUME NEW f, IsSeq(f.shown), Says(f), NEW k, NEW v, NEW g, ShowsMore(g, f, k, v), k \in Keys(f.rec), GoesOn(g, f, k)
  PROVE  Says(g) /\ g.shown # <<>> /\ Entry(g) = k
<1>1. /\ g.shown # <<>> /\ Len(g.shown) = Len(f.shown) + 1 /\ Len(f.shown) \in Nat
      /\ Entry(g) = k /\ Shown(g) = Shown(f) \union {k}
  BY MoreShown
<1>2. g.rec = f.rec /\ g.pass = f.pass /\ g.lasting = f.lasting
  BY DEF ShowsMore
<1>3. Shown(f) \subseteq Keys(f.rec) /\ (\A l \in Keys(f.rec) : <<l, Get(f.rec, l)>> \in f.lasting)
      /\ (f.pass = "sequence" => Len(f.shown) = f.index)
  BY DEF Says
<1>4. Shown(g) \subseteq Keys(g.rec) /\ \A l \in Keys(g.rec) : <<l, Get(g.rec, l)>> \in g.lasting
  BY <1>1, <1>2, <1>3
<1>5. ASSUME g.pass = "sequence"
      PROVE  Len(g.shown) = g.index /\ Entry(g) = IntVal(g.index - 1)
  <2>1. g.index = f.index + 1 /\ k = IntVal(f.index) /\ f.index \in Nat /\ Len(f.shown) = f.index
    BY <1>2, <1>3, <1>5 DEF GoesOn
  <2>2. g.index - 1 = f.index
    BY <2>1
  <2>3. QED
    BY <1>1, <2>1, <2>2
<1>6. g.pass = "keyed" => (g.empty <=> g.shown = <<>>)
  BY <1>1 DEF GoesOn
<1>7. QED
  BY <1>1, <1>4, <1>5, <1>6 DEF Says

\* A field of the sequence.
LEMMA SequencedWaits ==
  ASSUME KeysTold, NEW f, CallInv(f), Said(f), f.stack # <<>>,
         NEW old, old = f.stack[Len(f.stack)], old.pass = "sequence",
         NEW k, k = IntVal(old.index), k \in Keys(old.rec),
         NEW v, v = Get(old.rec, k),
         NEW top, ShowsMore(top, old, k, v), top.index = old.index + 1, FrameInv(top),
         NEW t, CommaIf(t, old),
         NEW h, h.stack = Topped(f.stack, top), h.flags = f.flags, h.of = f.of, h.text = Cat(f.text, t)
  PROVE  \E n : Waits(h, n, v)
<1> DEFINE s == f.stack
<1>1. IsSeq(s) /\ Len(s) \in DOMAIN s
  BY LastIs, SeqIs DEF CallInv
<1>2. FrameInv(old) /\ Says(old)
  BY <1>1 DEF CallInv, Said, Framed
<1>3. IsSeq(old.shown) /\ old.index \in Nat
  BY <1>2 DEF FrameInv, FrameType
<1>4. top.pass = "sequence" /\ top.rec = old.rec
  BY DEF ShowsMore
<1>5. Says(top) /\ top.shown # <<>> /\ Entry(top) = k
  <2>1. GoesOn(top, old, k)
    BY <1>3, <1>4 DEF GoesOn
  <2>2. QED
    BY <1>2, <1>3, <2>1, SaysMore
<1>6. Settled(old) = Awaits(top)
  <2>1. {top.shown[j][1] : j \in 1 .. Len(top.shown) - 1} = Shown(old)
    BY <1>3, MoreShown
  <2>2. top.index - 1 = old.index
    BY <1>3
  <2>3. QED
    BY <1>4, <2>1, <2>2 DEF Awaits, Settled
<1>7. Reading(s) = Awaiting(Topped(s, top))
  <2>1. Settled(s[Len(s)]) = Awaits(top)
    BY <1>6
  <2>2. Reading(s) = Awaiting([s EXCEPT ![Len(s)] = top])
    BY <1>1, <2>1, StillAwaiting
  <2>3. QED
    BY <2>2, Zenon DEF Topped
<1>8. PICK n : MayBegin(n) /\ ReadAll(KnownOf(f), Cat(f.text, t)) = At(n, Reading(s))
  BY <1>1, CommaSaid
<1>9. n \in FieldNext /\ IsSeq(h.text) /\ ReadAll(KnownOf(f), h.text) = At(n, Awaiting(Topped(s, top)))
  BY <1>1, <1>7, <1>8, CommaSaid DEF MayBegin, FieldNext
<1>10. Waits(h, n, Get(top.rec, Entry(top)))
  BY <1>5, <1>9, WaitsTop
<1>11. QED
  BY <1>4, <1>5, <1>10

\* A field with its key.
LEMMA KeyedWaits ==
  ASSUME KeysTold, NEW f, CallInv(f), Said(f), f.stack # <<>>,
         NEW old, old = f.stack[Len(f.stack)], old.pass = "keyed",
         NEW k, k \in Keys(old.rec), NEW v, v = Get(old.rec, k),
         NEW top, ShowsMore(top, old, k, v), top.index = old.index, top.empty = FALSE, FrameInv(top),
         NEW t, CommaIf(t, old), NEW mark, NEW flags, FlagsOf(mark, k, flags, f.flags.base),
         NEW h, h.stack = Topped(f.stack, top), h.flags = f.flags, h.of = f.of,
         h.text = Cat(Cat(f.text, t), <<Token(mark), Atom(k, flags), Token("colon")>>)
  PROVE  \E n : Waits(h, n, v)
<1> DEFINE s == f.stack
           w == KnownOf(f)
           u == Cat(f.text, t)
<1>1. IsSeq(s) /\ Len(s) \in DOMAIN s
  BY LastIs, SeqIs DEF CallInv
<1>2. FrameInv(old) /\ Says(old)
  BY <1>1 DEF CallInv, Said, Framed
<1>3. IsSeq(old.shown) /\ old.index \in Nat /\ old.rec \in DOMAIN heap
  BY <1>2 DEF FrameInv, FrameType
<1>4. top.pass = "keyed" /\ top.rec = old.rec
  BY DEF ShowsMore
<1>5. Says(top) /\ top.shown # <<>> /\ Entry(top) = k
  <2>1. GoesOn(top, old, k)
    BY <1>3, <1>4 DEF GoesOn
  <2>2. QED
    BY <1>2, <1>3, <2>1, SaysMore
<1>6. WithKey(Settled(old), k) = Awaits(top)
  <2>1. {top.shown[j][1] : j \in 1 .. Len(top.shown) - 1} = Shown(old) /\ Entry(top) = k
    BY <1>3, MoreShown
  <2> DEFINE a == Settled(old)
  <2>2. a.rec = old.rec /\ a.met = Shown(old) /\ a.place = old.index
    BY DEF Settled, Within
  <2> HIDE DEF a
  <2>3. WithKey(a, k) = Within(old.rec, Shown(old), k, old.index)
    BY <2>2 DEF WithKey
  <2>4. Awaits(top) = Within(old.rec, Shown(old), k, old.index)
    BY <1>4, <2>1 DEF Awaits
  <2>5. QED
    BY <2>3, <2>4 DEF a
<1>7. PICK n : MayBegin(n) /\ ReadAll(w, u) = At(n, Reading(s))
  BY <1>1, CommaSaid
<1>8. IsSeq(u)
  BY <1>1, CommaSaid
<1>9. DOMAIN FieldsOf(w, old) = Keys(old.rec) /\ KeysAre(FieldsOf(w, old)) /\ w.base = f.flags.base
  <2>1. DOMAIN FieldsOf(w, old) = Keys(old.rec) /\ w.base = f.flags.base
    BY <1>3, KnownIs DEF FieldsOf
  <2> HIDE DEF w
  <2>2. QED
    BY <2>1 DEF KeysAre, KeysTold, Keys
<1> HIDE DEF w, u
<1>10. Read(w, Read(w, Read(w, At(n, Reading(s)), Token(mark)), Atom(k, flags)), Token("colon"))
         = At("value", Awaiting(Topped(s, top)))
  <2>1. old = s[Len(s)] /\ k \in DOMAIN FieldsOf(w, old) /\ FlagsOf(mark, k, flags, w.base) /\ s # <<>>
    BY <1>9
  <2> HIDE DEF s
  <2>2. Read(w, Read(w, Read(w, At(n, Reading(s)), Token(mark)), Atom(k, flags)), Token("colon"))
          = At("value", Awaiting([s EXCEPT ![Len(s)] = top]))
    BY <1>1, <1>6, <1>7, <1>9, <2>1, KeyTextRead
  <2>3. QED
    BY <2>2, Zenon DEF Topped
<1>11. /\ IsSeq(h.text)
       /\ ReadAll(w, h.text) =
            Read(w, Read(w, Read(w, ReadAll(w, u), Token(mark)), Atom(k, flags)), Token("colon"))
  <2> DEFINE e == Token(mark)
             g == Atom(k, flags)
             c == Token("colon")
  <2>1. h.text = Cat(u, <<e, g, c>>)
    BY DEF u
  <2> HIDE DEF e, g, c
  <2>2. /\ IsSeq(Cat(u, <<e, g, c>>))
        /\ ReadAll(w, Cat(u, <<e, g, c>>)) = Read(w, Read(w, Read(w, ReadAll(w, u), e), g), c)
    BY <1>8, ThreeMore
  <2>3. QED
    BY <2>1, <2>2 DEF e, g, c
<1>12. "value" \in FieldNext
  BY DEF FieldNext
<1>13. ReadAll(w, h.text) = At("value", Awaiting(Topped(s, top)))
  BY <1>7, <1>10, <1>11
<1>14. Waits(h, "value", Get(top.rec, Entry(top)))
  BY <1>5, <1>11, <1>12, <1>13, WaitsTop DEF w
<1>15. QED
  BY <1>4, <1>5, <1>14

-------------------------------------------------------------------------------
(* The steps of fmtRec. *)

LEMMA ShowsIs ==
  ASSUME NEW f, IsFrame(f), NEW k, NEW v
  PROVE  /\ IsFrame(Shows(f, k, v)) /\ ShowsMore(Shows(f, k, v), f, k, v)
         /\ Shows(f, k, v).index = f.index /\ Shows(f, k, v).todo = f.todo
<1> DEFINE s == Then(f.shown, <<k, v>>)
           g == [f EXCEPT !.shown = s]
<1>1. Shows(f, k, v) = g
  BY DEF Shows, Then
<1> HIDE DEF s
<1>2. /\ IsFrame(g) /\ g.rec = f.rec /\ g.pass = f.pass /\ g.lasting = f.lasting /\ g.shown = s
      /\ g.index = f.index /\ g.todo = f.todo
  BY DEF IsFrame
<1> HIDE DEF g
<1>3. QED
  BY <1>1, <1>2 DEF ShowsMore, s

LEMMA PlacedIs ==
  ASSUME NEW f, IsFrame(f), NEW old, NEW k, NEW v, ShowsMore(f, old, k, v), NEW n
  PROVE  ShowsMore([f EXCEPT !.index = n], old, k, v) /\ [f EXCEPT !.index = n].index = n
<1> DEFINE g == [f EXCEPT !.index = n]
<1>1. /\ g.rec = f.rec /\ g.pass = f.pass /\ g.lasting = f.lasting /\ g.shown = f.shown
      /\ g.index = n
  BY DEF IsFrame
<1> HIDE DEF g
<1>2. ShowsMore(g, old, k, v)
  BY <1>1 DEF ShowsMore
<1>3. QED
  BY <1>1, <1>2 DEF g

LEMMA QuotedIs ==
  ASSUME CallOk(fmt)
  PROVE  /\ Quoted.base = fmt.flags.base /\ Quoted.quoted = TRUE
         /\ [fmt.flags EXCEPT !.quoted = FALSE].base = fmt.flags.base
         /\ [fmt.flags EXCEPT !.quoted = FALSE].quoted = FALSE
         /\ fmt.flags.base \in Bases
<1> DEFINE fl == fmt.flags
<1>1. fl = [quoted |-> fl.quoted, base |-> fl.base] /\ fl.base \in Bases
  BY DEF CallOk
<1>2. Quoted = [fl EXCEPT !.quoted = TRUE]
  BY DEF Quoted
<1> HIDE DEF fl
<1>3. QED
  BY <1>1, <1>2 DEF fl

\* The values of the heap can be written.
HeapTold ==
  /\ KeysTold /\ \A k \in NewKeys : KeyIs(k)
  /\ \A r \in DOMAIN heap : \A k \in Keyable : Writable(heap[r][k])

LEMMA GetTold ==
  ASSUME HeapTold, NEW r \in DOMAIN heap, NEW k, Get(r, k) # Udf
  PROVE  k \in Keys(r) /\ k \in Key /\ Writable(Get(r, k))
BY DEF HeapTold, Get, Keys, Keyable

LEMMA TopIs ==
  ASSUME InRec, CallInv(fmt)
  PROVE  /\ fmt.stack # <<>> /\ IsSeq(fmt.stack) /\ TopFrame = fmt.stack[Len(fmt.stack)]
         /\ Len(fmt.stack) \in DOMAIN fmt.stack /\ FrameInv(TopFrame) /\ IsFrame(TopFrame)
         /\ TopFrame.rec \in DOMAIN heap /\ TopFrame.index \in Nat /\ IsSeq(TopFrame.shown)
         /\ IsSeq(TopFrame.todo) /\ IsCall(fmt) /\ (Said(fmt) => Says(TopFrame))
<1>1. IsSeq(fmt.stack) /\ fmt.stack # <<>> /\ IsCall(fmt)
  BY DEF InRec, CallInv
<1>2. TopFrame = fmt.stack[Len(fmt.stack)]
  BY DEF TopFrame, Last
<1>3. Len(fmt.stack) \in DOMAIN fmt.stack
  BY <1>1, LastIs, SeqIs
<1>4. FrameInv(TopFrame)
  BY <1>2, <1>3 DEF CallInv
<1>5. Said(fmt) => Says(TopFrame)
  BY <1>2, <1>3 DEF Said, Framed
<1>6. QED
  BY <1>1, <1>2, <1>3, <1>4, <1>5 DEF FrameInv, FrameType

LEMMA SequencedSaid ==
  ASSUME HeapType, HeapTold, CallInv(fmt), CallOk(fmt), InRec, TopFrame.pass = "sequence",
         NEW n, n = TopFrame.index, NEW v, v = Get(TopFrame.rec, IntVal(n)), v # Udf,
         NEW g \in FmtVal(WithTop(Wrote(fmt, Comma(n > 0)), [Shows(TopFrame, IntVal(n), v) EXCEPT !.index = n + 1]),
                          v, Quoted)
  PROVE  CallOk(g) /\ (Said(fmt) => Said(g))
<1> DEFINE old == TopFrame
           k == IntVal(n)
           t == Comma(n > 0)
           x == Shows(old, k, v)
           top == [x EXCEPT !.index = n + 1]
           f == Wrote(fmt, t)
           h == WithTop(f, top)
<1>1. /\ fmt.stack # <<>> /\ IsSeq(fmt.stack) /\ old = fmt.stack[Len(fmt.stack)]
      /\ FrameInv(old) /\ IsFrame(old) /\ old.rec \in DOMAIN heap /\ old.index \in Nat
      /\ IsSeq(old.shown) /\ IsCall(fmt) /\ (Said(fmt) => Says(old))
  BY TopIs
<1>2. k \in Keys(old.rec) /\ Writable(v)
  BY <1>1, GetTold
<1>3. ShowsMore(top, old, k, v) /\ top.index = n + 1
  <2>1. IsFrame(x) /\ ShowsMore(x, old, k, v)
    BY <1>1, ShowsIs
  <2> HIDE DEF x
  <2>2. QED
    BY <2>1, PlacedIs
<1>4. FrameInv(top)
  BY <1>1, SequencedIs
<1>5. /\ IsCall(f) /\ f.text = Cat(fmt.text, t) /\ f.stack = fmt.stack /\ f.todo = fmt.todo
      /\ f.flags = fmt.flags /\ f.of = fmt.of /\ f.state = fmt.state
  BY <1>1, WroteMore
<1>6. CallInv(f)
  BY WroteIs
<1> HIDE DEF f, top
<1>7. /\ IsCall(h) /\ h.stack = Topped(fmt.stack, top) /\ h.text = Cat(fmt.text, t)
      /\ h.todo = fmt.todo /\ h.flags = fmt.flags /\ h.of = fmt.of /\ h.state = fmt.state
  BY <1>1, <1>5, ToppedIs
<1>8. CallInv(h)
  BY <1>1, <1>4, <1>5, <1>6, WithTopIs
<1> HIDE DEF h
<1>9. CallOk(h)
  BY <1>7, OkSame
<1>10. Quoted.base = h.flags.base /\ Quoted.quoted = TRUE /\ Quoted.base \in Bases
  BY <1>7, QuotedIs
<1>11. g \in FmtVal(h, v, Quoted)
  BY DEF h, f, top
<1>12. CallOk(g)
  BY <1>2, <1>7, <1>9, <1>10, <1>11, FmtValOk
<1>13. ASSUME Said(fmt) PROVE Said(g)
  <2>1. CommaIf(t, old)
    <3>1. Len(old.shown) = old.index
      BY <1>1, <1>13 DEF Says
    <3>2. n > 0 <=> old.shown # <<>>
      BY <1>1, <3>1, SeqIs DEF IsSeq
    <3>3. QED
      BY <3>2 DEF CommaIf, Comma
  <2>2. KeysTold
    BY DEF HeapTold
  <2> HIDE DEF t, k
  <2>3. \E m : Waits(h, m, v)
    <3>1. k = IntVal(old.index) /\ v = Get(old.rec, k) /\ top.index = old.index + 1 /\ old.pass = "sequence"
      BY <1>3 DEF k
    <3> HIDE DEF old
    <3>2. QED
      BY <1>1, <1>2, <1>3, <1>4, <1>7, <1>13, <2>1, <2>2, <3>1, SequencedWaits
  <2>4. PICK m : Waits(h, m, v)
    BY <2>3
  <2>5. h.stack # <<>> => Quoted.quoted = TRUE
    BY <1>10
  <2>6. QED
    BY <1>2, <1>8, <1>9, <1>10, <1>11, <2>2, <2>4, <2>5, ValueSaid
<1>14. QED
  BY <1>12, <1>13

LEMMA CatAssoc ==
  ASSUME NEW s, IsSeq(s), NEW t, IsSeq(t), NEW u, IsSeq(u)
  PROVE  Cat(s, Cat(t, u)) = Cat(Cat(s, t), u)
<1> DEFINE T == Range(s) \union Range(t) \union Range(u)
<1>1. s \in Seq(T) /\ t \in Seq(T) /\ u \in Seq(T)
  BY DEF IsSeq
<1> HIDE DEF T
<1>2. (s \o t) \o u = s \o (t \o u)
  BY <1>1, ConcatAssociative
<1>3. QED
  BY <1>2, Zenon DEF Cat

KeyTokens(mark, k, flags) == <<Token(mark), Atom(k, flags), Token("colon")>>

LEMMA TokensAre ==
  ASSUME NEW b, NEW mark, NEW k, NEW flags
  PROVE  IsSeq(Comma(b)) /\ IsSeq(KeyTokens(mark, k, flags))
<1>1. IsSeq(Comma(b))
  <2> DEFINE t == Token("comma")
  <2>1. IsSeq(<<t>>)
    BY TripleIs
  <2>2. IsSeq(<<>>)
    BY DEF IsSeq
  <2>3. Comma(b) = <<t>> \/ Comma(b) = <<>>
    BY Zenon DEF Comma, t
  <2> HIDE DEF t
  <2>4. QED
    BY <2>1, <2>2, <2>3
<1>2. IsSeq(KeyTokens(mark, k, flags))
  <2> DEFINE d == Token(mark)
             e == Atom(k, flags)
             f == Token("colon")
             t == <<d>>
             u == Then(t, e)
  <2>1. IsSeq(t) /\ <<d, e, f>> = Then(u, f)
    BY TripleIs
  <2> HIDE DEF t
  <2>2. IsSeq(u)
    BY <2>1, ThenIs
  <2> HIDE DEF u
  <2>3. IsSeq(Then(u, f))
    BY <2>2, ThenIs
  <2>4. QED
    BY <2>1, <2>3, Zenon DEF KeyTokens, d, e, f
<1>3. QED
  BY <1>1, <1>2

LEMMA KeyTextIs ==
  ASSUME CallOk(fmt), NEW k
  PROVE  \E mark, flags : KeyText(k) = KeyTokens(mark, k, flags) /\ FlagsOf(mark, k, flags, fmt.flags.base)
<1> DEFINE plain == [fmt.flags EXCEPT !.quoted = FALSE]
<1>1. /\ Quoted.base = fmt.flags.base /\ Quoted.quoted = TRUE
      /\ plain.base = fmt.flags.base /\ plain.quoted = FALSE
      /\ fmt.flags.base \in Bases
  BY QuotedIs
<1>2. CASE IsIdentKey(k)
  <2>1. KeyText(k) = KeyTokens("dot", k, plain)
    BY <1>2, Zenon DEF KeyText, KeyTokens
  <2>2. k.type = "str" /\ k.n \in IdentStr
    BY <1>2 DEF IsIdentKey
  <2> HIDE DEF plain
  <2>3. FlagsOf("dot", k, plain, fmt.flags.base)
    BY <1>1, <2>2 DEF FlagsOf
  <2>4. QED
    BY <2>1, <2>3
<1>3. CASE ~IsIdentKey(k)
  <2>1. KeyText(k) = KeyTokens("at", k, Quoted)
    BY <1>3, Zenon DEF KeyText, KeyTokens
  <2>2. FlagsOf("at", k, Quoted, fmt.flags.base)
    BY <1>1 DEF FlagsOf
  <2>3. QED
    BY <2>1, <2>2
<1>4. QED
  BY <1>2, <1>3

LEMMA AfterIs ==
  ASSUME HeapType, NEW f, FrameInv(f), f.pass = "keyed", Ahead(f) # {}
  PROVE  /\ IsFrame(After(f)) /\ After(f).rec = f.rec /\ After(f).pass = f.pass
         /\ After(f).index = f.index /\ After(f).shown = f.shown /\ After(f).lasting = f.lasting
         /\ After(f).empty = f.empty
         /\ Get(f.rec, f.todo[Min(Ahead(f))]) # Udf
<1> DEFINE m == Min(Ahead(f))
<1>1. IsSeq(f.todo) /\ IsFrame(f)
  BY DEF FrameInv, FrameType
<1>2. m \in DOMAIN f.todo /\ Get(f.rec, f.todo[m]) # Udf
  BY <1>1, AheadIs
<1> DEFINE t == SubSeq(f.todo, m + 1, Len(f.todo))
<1>3. After(f) = [f EXCEPT !.todo = t]
  BY DEF After
<1> HIDE DEF m, t
<1>4. /\ IsFrame(After(f)) /\ After(f).rec = f.rec /\ After(f).pass = f.pass
      /\ After(f).index = f.index /\ After(f).shown = f.shown /\ After(f).lasting = f.lasting
      /\ After(f).empty = f.empty
  BY <1>1, <1>3 DEF IsFrame
<1>5. QED
  BY <1>2, <1>4 DEF m

LEMMA KeyedSaid ==
  ASSUME HeapType, HeapTold, CallInv(fmt), CallOk(fmt), InRec, TopFrame.pass = "keyed",
         Ahead(TopFrame) # {}, NEW k, k = TopFrame.todo[Min(Ahead(TopFrame))],
         ~InSequence(k, TopFrame.index), NEW v, v = Get(TopFrame.rec, k),
         NEW g \in FmtVal(WithTop(Wrote(fmt, Comma(~TopFrame.empty) \o KeyText(k)),
                                  [Shows(After(TopFrame), k, v) EXCEPT !.empty = FALSE]),
                          v, Quoted)
  PROVE  CallOk(g) /\ (Said(fmt) => Said(g))
<1> DEFINE old == TopFrame
           c == Comma(~old.empty)
           t == Cat(c, KeyText(k))
           a == After(old)
           x == Shows(a, k, v)
           top == [x EXCEPT !.empty = FALSE]
           f == Wrote(fmt, t)
           h == WithTop(f, top)
<1>1. /\ fmt.stack # <<>> /\ IsSeq(fmt.stack) /\ old = fmt.stack[Len(fmt.stack)]
      /\ FrameInv(old) /\ IsFrame(old) /\ old.rec \in DOMAIN heap /\ old.index \in Nat
      /\ IsSeq(old.shown) /\ IsCall(fmt) /\ (Said(fmt) => Says(old))
  BY TopIs
<1>2. /\ IsFrame(a) /\ a.rec = old.rec /\ a.pass = old.pass /\ a.index = old.index
      /\ a.shown = old.shown /\ a.lasting = old.lasting /\ v # Udf
  BY <1>1, AfterIs
<1>3. k \in Keys(old.rec) /\ Writable(v)
  BY <1>1, <1>2, GetTold
<1> HIDE DEF a
<1>4. ShowsMore(top, old, k, v) /\ top.index = old.index /\ top.empty = FALSE
  <2>1. IsFrame(x) /\ ShowsMore(x, a, k, v) /\ x.index = a.index
    BY <1>2, ShowsIs
  <2> HIDE DEF x
  <2>2. ShowsMore(x, old, k, v)
    BY <1>2, <2>1 DEF ShowsMore
  <2>3. /\ top.rec = x.rec /\ top.pass = x.pass /\ top.lasting = x.lasting /\ top.shown = x.shown
        /\ top.index = x.index /\ top.empty = FALSE
    BY <2>1 DEF IsFrame
  <2> HIDE DEF top
  <2>4. ShowsMore(top, old, k, v)
    BY <2>2, <2>3 DEF ShowsMore
  <2>5. QED
    BY <1>2, <2>1, <2>3, <2>4
<1>5. FrameInv(top)
  BY <1>1, KeyedIs DEF a
<1>6. /\ IsCall(f) /\ f.text = Cat(fmt.text, t) /\ f.stack = fmt.stack /\ f.todo = fmt.todo
      /\ f.flags = fmt.flags /\ f.of = fmt.of /\ f.state = fmt.state
  BY <1>1, WroteMore
<1>7. CallInv(f)
  BY WroteIs
<1>8. g \in FmtVal(h, v, Quoted)
  BY Zenon DEF h, f, top, x, a, t, c, Cat
<1> HIDE DEF f, top
<1>9. /\ IsCall(h) /\ h.stack = Topped(fmt.stack, top) /\ h.text = Cat(fmt.text, t)
      /\ h.todo = fmt.todo /\ h.flags = fmt.flags /\ h.of = fmt.of /\ h.state = fmt.state
  BY <1>1, <1>6, ToppedIs
<1>10. CallInv(h)
  BY <1>1, <1>5, <1>6, <1>7, WithTopIs
<1> HIDE DEF h
<1>11. CallOk(h)
  BY <1>9, OkSame
<1>12. Quoted.base = h.flags.base /\ Quoted.quoted = TRUE /\ Quoted.base \in Bases
  BY <1>9, QuotedIs
<1>13. CallOk(g)
  BY <1>3, <1>8, <1>9, <1>11, <1>12, FmtValOk
<1>14. ASSUME Said(fmt) PROVE Said(g)
  <2>1. CommaIf(c, old)
    <3>1. old.empty <=> old.shown = <<>>
      BY <1>1, <1>14 DEF Says
    <3>2. QED
      BY <3>1 DEF CommaIf, Comma
  <2>2. KeysTold
    BY DEF HeapTold
  <2>3. PICK mark, flags : KeyText(k) = KeyTokens(mark, k, flags) /\ FlagsOf(mark, k, flags, fmt.flags.base)
    BY KeyTextIs
  <2>4. h.text = Cat(Cat(fmt.text, c), KeyTokens(mark, k, flags))
    <3> DEFINE u == KeyTokens(mark, k, flags)
    <3>1. IsSeq(fmt.text) /\ IsSeq(c) /\ IsSeq(u)
      BY <1>14, TokensAre DEF Said
    <3>2. h.text = Cat(fmt.text, Cat(c, u))
      BY <1>9, <2>3
    <3> HIDE DEF u, c
    <3>3. QED
      BY <3>1, <3>2, CatAssoc DEF u
  <2> HIDE DEF c, t
  <2>5. \E m : Waits(h, m, v)
    <3>1. old.pass = "keyed" /\ v = Get(old.rec, k)
      OBVIOUS
    <3>2. h.text = Cat(Cat(fmt.text, c), <<Token(mark), Atom(k, flags), Token("colon")>>)
      BY <2>4 DEF KeyTokens
    <3> HIDE DEF old
    <3>3. QED
      BY <1>1, <1>3, <1>4, <1>5, <1>9, <1>14, <2>1, <2>2, <2>3, <3>1, <3>2, KeyedWaits
  <2>6. PICK m : Waits(h, m, v)
    BY <2>5
  <2>7. h.stack # <<>> => Quoted.quoted = TRUE
    BY <1>12
  <2>8. QED
    BY <1>3, <1>8, <1>10, <1>11, <1>12, <2>2, <2>6, <2>7, ValueSaid
<1>15. QED
  BY <1>13, <1>14

\* The reader has nothing new of a frame that goes on without a field.
LEMMA ExpectedSame ==
  ASSUME NEW s, IsSeq(s), s # <<>>, NEW g, NEW old, old = s[Len(s)],
         g.rec = old.rec, g.shown = old.shown, g.index = old.index
  PROVE  Expected(Topped(s, g)) = Expected(s)
<1> DEFINE n == Len(s)
           z == Topped(s, g)
<1>1. /\ IsSeq(z) /\ Len(z) = n /\ z # <<>> /\ DOMAIN z = DOMAIN s /\ z[n] = g /\ n \in DOMAIN s
      /\ \A i \in DOMAIN s : i # n => z[i] = s[i]
  BY ToppedFrames
<1>2. n \in Nat /\ DOMAIN s = 1 .. n
  BY SeqIs
<1>3. Settled(g) = Settled(old)
  BY DEF Settled, Shown
<1> HIDE DEF z
<1>4. /\ IsSeq(Reading(z)) /\ Len(Reading(z)) = n
      /\ \A i \in 1 .. n : i < n => Reading(z)[i] = Awaits(z[i])
      /\ \A i \in 1 .. n : i = n => Reading(z)[i] = Settled(z[i])
  BY <1>1, ReadingIs
<1>5. /\ IsSeq(Reading(s)) /\ Len(Reading(s)) = n
      /\ \A i \in 1 .. n : i < n => Reading(s)[i] = Awaits(s[i])
      /\ \A i \in 1 .. n : i = n => Reading(s)[i] = Settled(s[i])
  BY ReadingIs
<1>6. \A i \in 1 .. n : Reading(z)[i] = Reading(s)[i]
  <2>1. SUFFICES ASSUME NEW i \in 1 .. n PROVE Reading(z)[i] = Reading(s)[i]
    OBVIOUS
  <2>2. CASE i = n
    BY <1>1, <1>2, <1>3, <1>4, <1>5, <2>2
  <2>3. CASE i # n
    <3> HIDE DEF n
    <3>1. i < n
      BY <1>2, <2>3
    <3>2. z[i] = s[i]
      BY <1>1, <1>2, <2>3
    <3>3. QED
      BY <1>4, <1>5, <3>1, <3>2
  <2>4. QED
    BY <2>2, <2>3
<1>7. Reading(z) = Reading(s)
  <2> HIDE DEF n
  <2>1. QED
    BY <1>4, <1>5, <1>6, SameSeq
<1>8. z[Len(z)].shown = s[Len(s)].shown
  BY <1>1
<1>9. Expected(z) = Expected(s)
  BY <1>1, <1>7, <1>8 DEF Expected
<1>10. QED
  BY <1>9 DEF z

LEMMA StepSaid ==
  ASSUME CallInv(fmt), CallOk(fmt), InRec, NEW g,
         g.rec = TopFrame.rec, g.shown = TopFrame.shown, g.index = TopFrame.index,
         Says(TopFrame) => Says(g)
  PROVE  CallOk(WithTop(fmt, g)) /\ (Said(fmt) => Said(WithTop(fmt, g)))
<1> DEFINE old == TopFrame
           s == fmt.stack
           h == WithTop(fmt, g)
           z == Topped(s, g)
<1>1. s # <<>> /\ IsSeq(s) /\ old = s[Len(s)] /\ IsCall(fmt) /\ (Said(fmt) => Says(old))
  BY TopIs
<1>2. /\ h.stack = z /\ h.text = fmt.text /\ h.todo = fmt.todo /\ h.flags = fmt.flags
      /\ h.of = fmt.of /\ h.state = fmt.state
  BY <1>1, ToppedIs
<1> HIDE DEF h
<1>3. CallOk(h)
  BY <1>2, OkSame
<1>4. ASSUME Said(fmt) PROVE Said(h)
  <2>1. KnownOf(h) = KnownOf(fmt)
    BY <1>2, KnownSame
  <2>2. Expected(z) = Expected(s)
    BY <1>1, ExpectedSame
  <2>3. /\ Len(z) = Len(s) /\ z # <<>> /\ DOMAIN z = DOMAIN s /\ z[Len(s)] = g
        /\ \A i \in DOMAIN s : i # Len(s) => z[i] = s[i]
    BY <1>1, ToppedFrames
  <2> HIDE DEF z, s
  <2>4. Framed(z)
    <3>1. Framed(s) /\ Says(g)
      BY <1>1, <1>4 DEF Said, s
    <3>2. \A i \in DOMAIN s : Says(z[i])
      BY <2>3, <3>1 DEF Framed
    <3>3. Len(s) \in Nat /\ DOMAIN s = 1 .. Len(s)
      BY <1>1, SeqIs
    <3>4. \A i \in DOMAIN s : i < Len(s) => z[i].shown # <<>>
      BY <2>3, <3>1, <3>3 DEF Framed
    <3>5. QED
      BY <2>3, <3>2, <3>4 DEF Framed
  <2>5. fmt.text # <<>> /\ IsSeq(fmt.text) /\ ReadAll(KnownOf(fmt), fmt.text) = Expected(s)
    BY <1>1, <1>4 DEF Said, s
  <2>6. QED
    BY <1>2, <2>1, <2>2, <2>4, <2>5 DEF Said
<1>5. QED
  BY <1>3, <1>4 DEF h

LEMMA SequenceEndsSaid ==
  ASSUME CallInv(fmt), CallOk(fmt), InRec, TopFrame.pass = "sequence",
         NEW b, b <=> TopFrame.index = 0, NEW g,
         g = [TopFrame EXCEPT !.pass = "keyed", !.todo = order, !.empty = b]
  PROVE  CallOk(WithTop(fmt, g)) /\ (Said(fmt) => Said(WithTop(fmt, g)))
<1> DEFINE old == TopFrame
           h == [old EXCEPT !.pass = "keyed"]
           i == [h EXCEPT !.todo = order]
<1>1. IsFrame(old) /\ IsSeq(old.shown) /\ old.index \in Nat
  BY TopIs
<1>2. g = [i EXCEPT !.empty = b]
  OBVIOUS
<1> HIDE DEF old
<1>3. /\ IsFrame(h) /\ h.rec = old.rec /\ h.pass = "keyed" /\ h.index = old.index
      /\ h.shown = old.shown /\ h.lasting = old.lasting
  BY <1>1 DEF IsFrame
<1> HIDE DEF h
<1>4. /\ IsFrame(i) /\ i.rec = old.rec /\ i.pass = "keyed" /\ i.index = old.index
      /\ i.shown = old.shown /\ i.lasting = old.lasting
  BY <1>3 DEF IsFrame
<1> HIDE DEF i
<1>5. /\ g.rec = old.rec /\ g.pass = "keyed" /\ g.index = old.index
      /\ g.shown = old.shown /\ g.lasting = old.lasting /\ g.empty = b
  BY <1>2, <1>4 DEF IsFrame
<1>6. ASSUME Says(old) PROVE Says(g)
  <2>1. old.index = 0 <=> old.shown = <<>>
    <3>1. Len(old.shown) = old.index
      BY <1>6 DEF Says, old
    <3>2. QED
      BY <1>1, <3>1, SeqIs DEF IsSeq
  <2>2. g.empty <=> g.shown = <<>>
    BY <1>5, <2>1 DEF old
  <2>3. Shown(g) = Shown(old)
    BY <1>5 DEF Shown
  <2>4. QED
    BY <1>5, <1>6, <2>2, <2>3 DEF Says
<1>7. QED
  BY <1>5, <1>6, StepSaid DEF old

LEMMA SkippedSaid ==
  ASSUME HeapType, CallInv(fmt), CallOk(fmt), InRec, TopFrame.pass = "keyed", Ahead(TopFrame) # {}
  PROVE  CallOk(WithTop(fmt, After(TopFrame))) /\ (Said(fmt) => Said(WithTop(fmt, After(TopFrame))))
<1> DEFINE old == TopFrame
           g == After(old)
<1>1. FrameInv(old)
  BY TopIs
<1>2. /\ g.rec = old.rec /\ g.pass = old.pass /\ g.index = old.index
      /\ g.shown = old.shown /\ g.lasting = old.lasting /\ g.empty = old.empty
  BY <1>1, AfterIs
<1> HIDE DEF g
<1>3. Shown(g) = Shown(old) /\ (old.shown # <<>> => Entry(g) = Entry(old))
  BY <1>2 DEF Shown, Entry
<1>4. Says(old) => Says(g)
  BY <1>2, <1>3 DEF Says
<1>5. QED
  BY <1>2, <1>4, StepSaid DEF g

\* All fields have been met at the end of a record.
LEMMA AllShown ==
  ASSUME NEW f, FrameInv(f), Says(f), f.pass = "keyed", Ahead(f) = {}
  PROVE  Shown(f) = Keys(f.rec)
<1>1. Shown(f) \subseteq Keys(f.rec)
  BY DEF Says
<1>2. ASSUME NEW k \in Keys(f.rec) PROVE k \in Shown(f)
  <2> DEFINE e == <<k, Get(f.rec, k)>>
  <2>1. e \in f.lasting /\ e[1] = k /\ Get(f.rec, k) # Udf
    BY DEF Says, Keys
  <2> HIDE DEF e
  <2>2. e \in Range(f.shown) \/ k \in ToCome(f)
    BY <2>1 DEF FrameInv, Lasts
  <2>3. \A j \in DOMAIN f.todo : Get(f.rec, f.todo[j]) = Udf
    BY DEF Ahead
  <2>4. k \notin ToCome(f)
    BY <2>1, <2>3 DEF ToCome, Range
  <2>5. QED
    BY <2>1, <2>2, <2>4 DEF Shown, Range
<1>3. QED
  BY <1>1, <1>2

LEMMA FrontShorter ==
  ASSUME NEW s, IsSeq(s), s # <<>>
  PROVE  \A i \in DOMAIN Front(s) : i < Len(s)
<1>1. Len(s) \in Nat \ {0} /\ s \in Seq(Range(s))
  BY DEF IsSeq
<1>2. DOMAIN Front(s) = 1 .. Len(s) - 1
  BY <1>1 DEF Front
<1>3. QED
  BY <1>1, <1>2

LEMMA RecordEndsSaid ==
  ASSUME HeapType, HeapTold, CallInv(fmt), CallOk(fmt), InRec, TopFrame.pass = "keyed", Ahead(TopFrame) = {},
         NEW g, g = [Wrote(fmt, <<Token("close")>>) EXCEPT !.stack = Front(@)]
  PROVE  CallOk(g) /\ (Said(fmt) => Said(g))
<1> DEFINE old == TopFrame
           s == fmt.stack
           tok == Token("close")
           f == Wrote(fmt, <<tok>>)
           z == Front(s)
           h == [f EXCEPT !.stack = z]
           w == KnownOf(fmt)
<1>1. /\ s # <<>> /\ IsSeq(s) /\ old = s[Len(s)] /\ FrameInv(old) /\ IsCall(fmt)
      /\ (Said(fmt) => Says(old)) /\ old.rec \in DOMAIN heap
  BY TopIs
<1>2. /\ IsCall(f) /\ f.text = Cat(fmt.text, <<tok>>) /\ f.stack = s /\ f.todo = fmt.todo
      /\ f.flags = fmt.flags /\ f.of = fmt.of /\ f.state = fmt.state
  BY <1>1, WroteMore
<1>3. g = h
  BY <1>2
<1> HIDE DEF f, z
<1>4. /\ h.stack = z /\ h.text = f.text /\ h.todo = f.todo /\ h.flags = f.flags
      /\ h.of = f.of /\ h.state = f.state
  BY <1>2, Stacked
<1> HIDE DEF h
<1>5. CallOk(g)
  BY <1>2, <1>3, <1>4, OkSame
<1>6. ASSUME Said(fmt) PROVE Said(g)
  <2>1. KnownOf(g) = w
    BY <1>2, <1>3, <1>4, KnownSame
  <2>2. fmt.text # <<>> /\ IsSeq(fmt.text) /\ ReadAll(w, fmt.text) = Expected(s) /\ Framed(s)
    BY <1>1, <1>6 DEF Said
  <2>3. /\ IsSeq(g.text) /\ g.text # <<>>
        /\ ReadAll(w, g.text) = Read(w, Expected(s), tok)
    <3>1. g.text = Cat(fmt.text, <<tok>>)
      BY <1>2, <1>3, <1>4
    <3> HIDE DEF w, s, tok
    <3>2. QED
      BY <2>2, <3>1, OneMore
  <2>4. Shown(old) = Keys(old.rec)
    BY <1>1, <1>6, AllShown
  <2>5. PICK n \in {"field or end", "comma"} : Expected(s) = At(n, Reading(s))
    BY <1>1 DEF Expected
  <2>6. IsSeq(z) /\ DOMAIN z \subseteq DOMAIN s /\ \A i \in DOMAIN z : z[i] = s[i]
    BY <1>1, FrontIs DEF z
  <2>7. \A i \in DOMAIN z : i < Len(s)
    <3> HIDE DEF s
    <3>1. \A i \in DOMAIN Front(s) : i < Len(s)
      BY <1>1, FrontShorter
    <3>2. QED
      BY <3>1 DEF z
  <2>8. \A i \in DOMAIN z : FrameInv(z[i]) /\ Says(z[i]) /\ z[i].shown # <<>>
    BY <2>2, <2>6, <2>7 DEF Framed, CallInv
  <2>9. z # <<>> => Rejoins(z[Len(z)])
    <3>1. KeysTold
      BY DEF HeapTold
    <3>2. QED
      BY <2>6, <2>8, <3>1, TopRejoins
  <2>10. Read(w, At(n, Reading(s)), tok) = Expected(z)
    <3>1. DOMAIN w.fields[old.rec] = Keys(old.rec)
      BY <1>1, KnownIs
    <3>2. Shown(s[Len(s)]) = DOMAIN w.fields[s[Len(s)].rec]
      BY <1>1, <2>4, <3>1
    <3>3. IsSeq(s) /\ s # <<>> /\ (Front(s) # <<>> => Rejoins(Front(s)[Len(Front(s))]))
      BY <1>1, <2>9 DEF z
    <3> HIDE DEF w, s
    <3>4. Read(w, At(n, Reading(s)), Token("close")) = Expected(Front(s))
      BY <2>5, <3>2, <3>3, CloseRead
    <3>5. QED
      BY <3>4, Zenon DEF z, s
  <2>11. Framed(z)
    BY <2>8 DEF Framed
  <2>12. g.stack = z
    BY <1>3, <1>4
  <2>13. QED
    BY <2>1, <2>3, <2>5, <2>10, <2>11, <2>12 DEF Said
<1>7. QED
  BY <1>5, <1>6

-------------------------------------------------------------------------------
(* A specifier begins with no text. *)

LEMMA TailIs ==
  ASSUME NEW s, IsSeq(s), s # <<>>
  PROVE  /\ IsSeq(Tail(s)) /\ DOMAIN Tail(s) = 1 .. Len(s) - 1
         /\ \A i \in DOMAIN Tail(s) : i + 1 \in DOMAIN s /\ Tail(s)[i] = s[i + 1]
         /\ 1 \in DOMAIN s /\ Head(s) = s[1]
<1>1. Len(s) \in Nat \ {0} /\ DOMAIN s = 1 .. Len(s) /\ s \in Seq(Range(s))
  BY DEF IsSeq
<1> DEFINE t == Tail(s)
           n == Len(s) - 1
<1>2. /\ t \in Seq(Range(s)) /\ DOMAIN t = 1 .. n
      /\ \A i \in DOMAIN t : i + 1 \in DOMAIN s /\ t[i] = s[i + 1]
  BY <1>1
<1>3. 1 \in DOMAIN s /\ Head(s) = s[1]
  BY <1>1
<1> HIDE DEF t
<1>4. t \in Seq(Range(t))
  BY <1>2 DEF Range
<1>5. IsSeq(t)
  BY <1>4 DEF IsSeq
<1>6. QED
  BY <1>2, <1>3, <1>5, Zenon DEF t

Begun(f, rest, flags, v) == [f EXCEPT !.todo = rest, !.flags = flags, !.of = v, !.text = <<>>]

LEMMA NextSpecifier ==
  ASSUME NEW f, IsCall(f), NEW rest, NEW flags, NEW v, NEW g, g = Begun(f, rest, flags, v)
  PROVE  /\ IsCall(g) /\ g.todo = rest /\ g.flags = flags /\ g.of = v /\ g.text = <<>>
         /\ g.stack = f.stack /\ g.state = f.state
<1> DEFINE e == [f EXCEPT !.todo = rest]
           h == [e EXCEPT !.flags = flags]
           i == [h EXCEPT !.of = v]
<1>1. g = [i EXCEPT !.text = <<>>]
  BY DEF Begun
<1>2. IsCall(e) /\ e.todo = rest /\ e.stack = f.stack /\ e.state = f.state
  BY DEF IsCall
<1> HIDE DEF e
<1>3. /\ IsCall(h) /\ h.todo = rest /\ h.flags = flags /\ h.stack = f.stack /\ h.state = f.state
  BY <1>2 DEF IsCall
<1> HIDE DEF h
<1>4. /\ IsCall(i) /\ i.todo = rest /\ i.flags = flags /\ i.of = v
      /\ i.stack = f.stack /\ i.state = f.state
  BY <1>3 DEF IsCall
<1> HIDE DEF i
<1>5. QED
  BY <1>1, <1>4 DEF IsCall

\* The reader has nothing yet.
LEMMA BeginsWaiting ==
  ASSUME NEW f, f.text = <<>>, f.stack = <<>>
  PROVE  Waits(f, "value", f.of)
<1>1. IsSeq(<<>>) /\ Len(<<>>) = 0 /\ DOMAIN <<>> = {}
  BY DEF IsSeq
<1>2. Awaiting(<<>>) = <<>>
  <2>1. IsSeq(Awaiting(<<>>)) /\ Len(Awaiting(<<>>)) = 0
    BY <1>1, AwaitingIs
  <2>2. QED
    BY <2>1 DEF IsSeq
<1> DEFINE w == KnownOf(f)
<1>3. w.of = f.of
  BY KnownIs
<1> HIDE DEF w
<1>4. ReadAll(w, <<>>) = At("value", <<>>)
  BY ReadAllIs DEF Reader
<1>5. Wanted(w, At("value", <<>>)) = f.of
  BY <1>3 DEF Wanted, At
<1>6. QED
  BY <1>1, <1>2, <1>4, <1>5 DEF Waits, FieldNext, w

LEMMA SpecifierSaid ==
  ASSUME HeapType, HeapTold, CallInv(fmt), CallOk(fmt), On, fmt.stack = <<>>, fmt.todo # <<>>,
         NEW x, x = Head(fmt.todo), NEW rest, rest = Tail(fmt.todo),
         NEW f, f = Begun(fmt, rest, Flags(x.spec), x.val),
         NEW g \in FmtVal(f, x.val, f.flags)
  PROVE  CallOk(g) /\ Said(g)
<1>1. IsSeq(fmt.todo) /\ (\A i \in DOMAIN fmt.todo : Writable(fmt.todo[i].val)) /\ IsCall(fmt)
  BY DEF CallOk, CallInv
<1>2. /\ IsSeq(rest) /\ (\A i \in DOMAIN rest : i + 1 \in DOMAIN fmt.todo /\ rest[i] = fmt.todo[i + 1])
      /\ 1 \in DOMAIN fmt.todo /\ x = fmt.todo[1]
  BY <1>1, TailIs
<1>3. Writable(x.val) /\ \A i \in DOMAIN rest : Writable(rest[i].val)
  <2>1. Writable(fmt.todo[1].val)
    BY <1>1, <1>2, Zenon
  <2>2. Writable(x.val)
    BY <1>2, <2>1, Zenon
  <2>3. ASSUME NEW i \in DOMAIN rest PROVE Writable(rest[i].val)
    <3>1. i + 1 \in DOMAIN fmt.todo /\ rest[i] = fmt.todo[i + 1]
      BY <1>2, Zenon
    <3>2. Writable(fmt.todo[i + 1].val)
      BY <1>1, <3>1, Zenon
    <3>3. QED
      BY <3>1, <3>2, Zenon
  <2>4. QED
    BY <2>2, <2>3, Zenon
<1>4. /\ IsCall(f) /\ f.todo = rest /\ f.flags = Flags(x.spec) /\ f.of = x.val /\ f.text = <<>>
      /\ f.stack = <<>> /\ f.state = fmt.state
  <2> DEFINE flags == Flags(x.spec)
             v == x.val
  <2>1. f = Begun(fmt, rest, flags, v)
    OBVIOUS
  <2> HIDE DEF flags, v
  <2>2. /\ IsCall(f) /\ f.todo = rest /\ f.flags = flags /\ f.of = v /\ f.text = <<>>
        /\ f.stack = fmt.stack /\ f.state = fmt.state
    BY <1>1, <2>1, NextSpecifier
  <2>3. QED
    BY <2>2 DEF flags, v
<1>5. f.state # "ub"
  BY <1>4 DEF On
<1>6. CallOk(f) /\ f.flags.base \in Bases
  BY <1>2, <1>3, <1>4, <1>5, FlagsAre DEF CallOk
<1>7. CallInv(f)
  BY <1>4, NoFrames
<1>8. Waits(f, "value", x.val)
  BY <1>4, BeginsWaiting
<1>9. CallOk(g)
  BY <1>3, <1>4, <1>6, FmtValOk
<1>10. KeysTold
  BY DEF HeapTold
<1>11. Said(g)
  <2> DEFINE v == x.val
             flags == f.flags
  <2>1. /\ Writable(v) /\ Waits(f, "value", v) /\ flags.base = f.flags.base
        /\ (f.stack # <<>> => flags.quoted = TRUE) /\ g \in FmtVal(f, v, flags)
    BY <1>3, <1>4, <1>8
  <2> HIDE DEF v, flags
  <2>2. QED
    BY <1>6, <1>7, <1>10, <2>1, ValueSaid
<1>12. QED
  BY <1>9, <1>11

-------------------------------------------------------------------------------
(* What is written reads back. *)

\* The keys of an index are whole numbers and strings, and what is written are whole
\* numbers of their width and decimals whose whole part has no more digits than are
\* written.
Readable ==
  /\ \A o \in Orders : \A k \in Range(o) \union NewKeys : KeyIs(k)
  /\ \A h \in Heaps, o \in Orders : \A r \in DOMAIN h : \A k \in Range(o) : Writable(h[r][k])
  /\ \A v \in NewVals : Writable(v)
  /\ \A h : \A call \in Calls(h) : IsSeq(call) /\ \A i \in DOMAIN call : Writable(call[i].val)

Told ==
  /\ changes \in Nat /\ HeapTold /\ CallOk(fmt)
  /\ changes = 0 => Said(fmt)

\* What a call says is the same to a reader of the same heap.
LEMMA SaidSame ==
  ASSUME UNCHANGED <<heap, order>>, NEW g, Said(g), fmt' = g
  PROVE  Said(fmt)'
<1>1. Key' = Key /\ DOMAIN heap' = DOMAIN heap /\ (\A r, k : Get(r, k)' = Get(r, k))
  BY DEF Key, Get
<1>2. \A r : Keys(r)' = Keys(r)
  BY <1>1 DEF Keys
<1>3. \A f : Says(f) => Says(f)'
  BY <1>1, <1>2 DEF Says
<1>4. KnownOf(fmt)' = KnownOf(g)
  <2>1. [r \in DOMAIN heap |-> [k \in Keys(r) |-> Get(r, k)]]'
          = [r \in DOMAIN heap |-> [k \in Keys(r) |-> Get(r, k)]]
    BY <1>1, <1>2
  <2>2. QED
    BY <2>1 DEF KnownOf
<1>5. Framed(fmt.stack)'
  BY <1>3 DEF Said, Framed
<1>6. IsSeq(fmt.text)' /\ (fmt.stack # <<>> => fmt.text # <<>>)'
  BY DEF Said
<1>7. (fmt.text # <<>> => ReadAll(KnownOf(fmt), fmt.text) = Expected(fmt.stack))'
  <2>1. g.text # <<>> => ReadAll(KnownOf(g), g.text) = Expected(g.stack)
    BY DEF Said
  <2>2. QED
    BY <1>4, <2>1
<1>8. QED
  BY <1>5, <1>6, <1>7 DEF Said

LEMMA InitTold ==
  ASSUME Readable, Init
  PROVE  Told
<1>1. changes = 0 /\ fmt = Idle /\ heap \in Heaps /\ order \in Orders
  BY DEF Init
<1>2. CallOk(fmt) /\ Said(fmt)
  BY <1>1, IdleSaid
<1>3. HeapTold
  <2>1. KeysTold /\ \A k \in NewKeys : KeyIs(k)
    BY <1>1 DEF KeysTold, Key, Readable
  <2>2. \A r \in DOMAIN heap : \A k \in Range(order) : Writable(heap[r][k])
    BY <1>1 DEF Readable
  <2>3. \A r \in DOMAIN heap : \A k \in NewKeys \ Range(order) : heap[r][k] = Udf
    BY <1>1, FormatterAssumption
  <2>4. Writable(Udf)
    BY DEF Writable, Udf, Value
  <2>5. QED
    BY <2>1, <2>2, <2>3, <2>4 DEF HeapTold, Keyable, Key
<1>4. QED
  BY <1>1, <1>2, <1>3 DEF Told

LEMMA DefinesTold ==
  ASSUME Readable, HeapType, Told, NEW r \in DOMAIN heap, NEW k \in Keyable, NEW v \in NewVals,
         Defines(r, k, v), Key' = Key \union {k}, KeyIs(k),
         NEW s, fmt' = [fmt EXCEPT !.stack = s]
  PROVE  Told'
<1>1. heap' = [heap EXCEPT ![r][k] = v] /\ changes' = changes + 1
  BY DEF Defines
<1>2. DOMAIN heap' = DOMAIN heap /\ Keyable' = Keyable
  BY <1>1 DEF Keyable
<1>3. \A q \in DOMAIN heap, l \in Keyable : heap'[q][l] = v \/ heap'[q][l] = heap[q][l]
  BY <1>1 DEF HeapType
<1>4. Writable(v)
  BY DEF Readable
<1>5. HeapTold'
  <2>1. \A q \in DOMAIN heap, l \in Keyable : Writable(heap'[q][l])
    BY <1>3, <1>4 DEF Told, HeapTold
  <2>2. KeysTold'
    BY DEF Told, HeapTold, KeysTold
  <2>3. QED
    BY <1>2, <2>1, <2>2 DEF HeapTold, Told
<1>6. CallOk(fmt)'
  <2>1. fmt'.todo = fmt.todo /\ fmt'.flags = fmt.flags /\ fmt'.of = fmt.of /\ fmt'.state = fmt.state
    OBVIOUS
  <2>2. CallOk(fmt')
    BY <2>1, OkSame DEF Told
  <2>3. QED
    BY <2>2
<1>7. changes' \in Nat /\ changes' # 0
  BY <1>1 DEF Told
<1>8. QED
  BY <1>5, <1>6, <1>7 DEF Told

LEMMA NextTold ==
  ASSUME Readable, IInv, Told, [Next]_vars
  PROVE  Told'
<1>1. HeapType /\ CallInv(fmt) /\ HeapTold /\ CallOk(fmt) /\ (changes = 0 => Said(fmt)) /\ changes \in Nat
  BY DEF IInv, Told
<1>2. ASSUME UNCHANGED <<heap, order, changes>>, NEW g, CallOk(g), Said(fmt) => Said(g), fmt' = g PROVE Told'
  <2>1. HeapTold'
    BY <1>1, <1>2 DEF HeapTold, KeysTold, Keyable, Key
  <2>2. CallOk(fmt)'
    BY <1>2
  <2>3. ASSUME changes' = 0 PROVE Said(fmt)'
    <3>1. Said(g)
      BY <1>1, <1>2, <2>3
    <3>2. QED
      BY <1>2, <3>1, SaidSame
  <2>4. QED
    BY <1>1, <1>2, <2>1, <2>2, <2>3 DEF Told
<1>3. CallOk(Idle) /\ Said(Idle) /\ CallOk(Failed) /\ Said(Failed)
  BY IdleSaid
<1>4. ASSUME NEW call \in Calls(heap), Fmt(call) PROVE Told'
  <2> DEFINE e == [Idle EXCEPT !.state = "on"]
             g == [e EXCEPT !.todo = call]
  <2>1. fmt' = g /\ UNCHANGED <<heap, order, changes>>
    BY <1>4 DEF Fmt
  <2>2. e.flags = Flags(<<>>) /\ e.text = <<>> /\ e.stack = <<>> /\ e.state = "on" /\ IsCall(e)
    BY DEF Idle, IsCall
  <2> HIDE DEF e
  <2>3. g.flags = Flags(<<>>) /\ g.text = <<>> /\ g.stack = <<>> /\ g.state = "on" /\ g.todo = call
    BY <2>2 DEF IsCall
  <2> HIDE DEF g
  <2>4. IsSeq(call) /\ \A i \in DOMAIN call : Writable(call[i].val)
    BY DEF Readable
  <2>5. CallOk(g)
    BY <2>3, <2>4, FlagsAre DEF CallOk
  <2>6. Said(g)
    <3>1. IsSeq(<<>>) /\ DOMAIN <<>> = {}
      BY DEF IsSeq
    <3>2. QED
      BY <2>3, <3>1 DEF Said, Framed
  <2>7. QED
    BY <1>2, <2>1, <2>5, <2>6
<1>5. CASE Specifier
  <2> DEFINE x == Head(fmt.todo)
             rest == Tail(fmt.todo)
             f == Begun(fmt, rest, Flags(x.spec), x.val)
  <2>1. /\ On /\ fmt.stack = <<>> /\ fmt.todo # <<>> /\ UNCHANGED <<heap, order, changes>>
        /\ fmt' \in FmtVal(f, x.val, f.flags) \/ fmt' = Failed
    BY <1>5 DEF Specifier, Begun
  <2>2. CASE fmt' \in FmtVal(f, x.val, f.flags)
    <3> HIDE DEF x, rest, f
    <3>1. x = Head(fmt.todo) /\ rest = Tail(fmt.todo) /\ f = Begun(fmt, rest, Flags(x.spec), x.val)
      BY Zenon DEF x, rest, f
    <3>2. CallOk(fmt') /\ Said(fmt')
      BY <1>1, <2>1, <2>2, <3>1, SpecifierSaid
    <3>3. QED
      BY <1>2, <2>1, <3>2
  <2>3. CASE fmt' = Failed
    BY <1>2, <1>3, <2>1, <2>3
  <2>4. QED
    BY <2>1, <2>2, <2>3
<1>6. CASE PatternEnds
  BY <1>2, <1>3, <1>6 DEF PatternEnds
<1>7. CASE Caught
  BY <1>2, <1>3, <1>7 DEF Caught
<1>8. CASE Sequenced
  <2> DEFINE n == TopFrame.index
             v == Get(TopFrame.rec, IntVal(n))
  <2>1. /\ InRec /\ TopFrame.pass = "sequence" /\ v # Udf /\ UNCHANGED <<heap, order, changes>>
        /\ fmt' \in FmtVal(WithTop(Wrote(fmt, Comma(n > 0)), [Shows(TopFrame, IntVal(n), v) EXCEPT !.index = n + 1]),
                           v, Quoted)
    BY <1>8 DEF Sequenced
  <2>2. n = TopFrame.index /\ v = Get(TopFrame.rec, IntVal(n))
    OBVIOUS
  <2> HIDE DEF n, v
  <2>3. CallOk(fmt') /\ (Said(fmt) => Said(fmt'))
    BY <1>1, <2>1, <2>2, SequencedSaid
  <2>4. QED
    BY <1>2, <2>1, <2>3
<1>9. CASE SequenceEnds
  <2> DEFINE b == TopFrame.index = 0
             top == [TopFrame EXCEPT !.pass = "keyed", !.todo = order, !.empty = b]
  <2>1. /\ InRec /\ TopFrame.pass = "sequence" /\ UNCHANGED <<heap, order, changes>>
        /\ fmt' = WithTop(fmt, top) \/ fmt' = Failed
    BY <1>9 DEF SequenceEnds
  <2>2. CallOk(WithTop(fmt, top)) /\ (Said(fmt) => Said(WithTop(fmt, top)))
    <3>1. b <=> TopFrame.index = 0
      OBVIOUS
    <3>2. top = [TopFrame EXCEPT !.pass = "keyed", !.todo = order, !.empty = b]
      OBVIOUS
    <3> HIDE DEF b, top
    <3>3. QED
      BY <1>1, <2>1, <3>1, <3>2, SequenceEndsSaid
  <2> HIDE DEF top
  <2>3. QED
    BY <1>2, <1>3, <2>1, <2>2
<1>10. CASE Skipped
  <2>1. /\ InRec /\ TopFrame.pass = "keyed" /\ Ahead(TopFrame) # {} /\ UNCHANGED <<heap, order, changes>>
        /\ fmt' = WithTop(fmt, After(TopFrame))
    BY <1>10 DEF Skipped, Iterating
  <2>2. CallOk(WithTop(fmt, After(TopFrame))) /\ (Said(fmt) => Said(WithTop(fmt, After(TopFrame))))
    BY <1>1, <2>1, SkippedSaid
  <2>3. QED
    BY <1>2, <2>1, <2>2
<1>11. CASE Keyed
  <2> DEFINE k == NextKey
             v == Get(TopFrame.rec, k)
  <2>1. /\ InRec /\ TopFrame.pass = "keyed" /\ Ahead(TopFrame) # {} /\ UNCHANGED <<heap, order, changes>>
        /\ k = TopFrame.todo[Min(Ahead(TopFrame))] /\ ~InSequence(k, TopFrame.index)
        /\ fmt' \in FmtVal(WithTop(Wrote(fmt, Comma(~TopFrame.empty) \o KeyText(k)),
                                   [Shows(After(TopFrame), k, v) EXCEPT !.empty = FALSE]), v, Quoted)
    BY <1>11 DEF Keyed, Iterating, NextKey
  <2>2. v = Get(TopFrame.rec, k)
    OBVIOUS
  <2> HIDE DEF k, v
  <2>3. CallOk(fmt') /\ (Said(fmt) => Said(fmt'))
    BY <1>1, <2>1, <2>2, KeyedSaid
  <2>4. QED
    BY <1>2, <2>1, <2>3
<1>12. CASE RecordEnds
  <2> DEFINE g == [Wrote(fmt, <<Token("close")>>) EXCEPT !.stack = Front(@)]
  <2>1. /\ InRec /\ TopFrame.pass = "keyed" /\ Ahead(TopFrame) = {} /\ UNCHANGED <<heap, order, changes>>
        /\ fmt' = g
    BY <1>12 DEF RecordEnds
  <2>2. CallOk(g) /\ (Said(fmt) => Said(g))
    BY <1>1, <2>1, RecordEndsSaid
  <2> HIDE DEF g
  <2>3. QED
    BY <1>2, <2>1, <2>2
<1>13. ASSUME NEW r \in DOMAIN heap, NEW k \in Key, NEW v \in NewVals, Write(r, k, v) PROVE Told'
  <2>1. PICK s : s = [i \in DOMAIN fmt.stack |-> Overwritten(fmt.stack[i], r, k)]
    OBVIOUS
  <2>2. Defines(r, k, v) /\ order' = order /\ fmt' = [fmt EXCEPT !.stack = s]
    BY <1>13, <2>1 DEF Write
  <2>3. Key' = Key \union {k} /\ k \in Keyable /\ KeyIs(k)
    BY <1>1, <2>2 DEF Key, Keyable, HeapTold, KeysTold
  <2>4. QED
    BY <1>1, <2>2, <2>3, DefinesTold
<1>16. ASSUME NEW r \in DOMAIN heap, NEW k \in NewKeys, NEW v \in NewVals, NEW p \in 1 .. Len(order) + 1,
              Insert(r, k, v, p)
       PROVE  Told'
  <2>1. PICK s : s = [i \in DOMAIN fmt.stack |-> WithPlace(fmt.stack[i], k, p)]
    OBVIOUS
  <2>2. k \notin Key /\ Defines(r, k, v) /\ order' = InsertAt(order, p, k) /\ fmt' = [fmt EXCEPT !.stack = s]
    BY <1>16, <2>1 DEF Insert
  <2>3. Key' = Key \union {k}
    <3>1. IsSeq(order) /\ IsInjective(order) /\ k \notin Range(order)
      BY <1>1, <2>2 DEF HeapType, Key
    <3>2. Range(InsertAt(order, p, k)) = Range(order) \union {k}
      BY <3>1, InsertIs
    <3>3. QED
      BY <2>2, <3>2 DEF Key
  <2>4. k \in Keyable /\ KeyIs(k)
    BY <1>1 DEF Keyable, HeapTold
  <2>5. QED
    BY <1>1, <2>2, <2>3, <2>4, DefinesTold
<1>17. ASSUME NEW r \in DOMAIN heap, NEW k \in NewKeys, NEW v \in NewVals, NEW o \in Rehashes,
              NEW passed \in [DOMAIN fmt.stack -> 0 .. Len(o)], Grow(r, k, v, o, passed)
       PROVE  Told'
  <2>1. PICK s : s = [i \in DOMAIN fmt.stack |-> Rehashed(fmt.stack[i], o, passed[i])]
    OBVIOUS
  <2>2. /\ k \notin Key /\ Range(o) = Key \union {k} /\ Defines(r, k, v) /\ order' = o
        /\ fmt' = [fmt EXCEPT !.stack = s]
    BY <1>17, <2>1 DEF Grow
  <2>3. Key' = Key \union {k}
    BY <2>2 DEF Key
  <2>4. k \in Keyable /\ KeyIs(k)
    BY <1>1 DEF Keyable, HeapTold
  <2>5. QED
    BY <1>1, <2>2, <2>3, <2>4, DefinesTold
<1>14. CASE UNCHANGED vars
  BY <1>1, <1>2, <1>14 DEF vars
<1>18. QED
  BY <1>4, <1>5, <1>6, <1>7, <1>8, <1>9, <1>10, <1>11, <1>12, <1>13, <1>14, <1>16, <1>17 DEF Next

\* What is written for a value reads as that value (taz_formatter.c:112-300), as
\* long as the writer defines nothing meanwhile; all but functions can be written.
THEOREM ReadsBackHolds ==
  ASSUME Readable
  PROVE  Spec => []ReadsBack
<1>1. Init => Told
  BY InitTold
<1>2. IInv /\ Told /\ [Next]_vars => Told'
  BY NextTold
<1>3. IInv /\ Told => ReadsBack
  <2>1. SUFFICES ASSUME IInv, Told PROVE ReadsBack
    OBVIOUS
  <2>2. ASSUME fmt.stack = <<>>, fmt.text # <<>>, changes = 0
        PROVE  ReadAll(Known, fmt.text).next = "nothing more"
    <3>1. ReadAll(KnownOf(fmt), fmt.text) = Expected(<<>>)
      BY <2>1, <2>2 DEF Told, Said
    <3>2. Known = KnownOf(fmt)
      BY DEF Known, KnownOf
    <3>3. Expected(<<>>).next = "nothing more"
      BY DEF Expected, At
    <3>4. QED
      BY <3>1, <3>2, <3>3
  <2>3. fmt.state = "ub" => fmt.of.type = "fun"
    BY <2>1 DEF Told, CallOk
  <2>4. QED
    BY <2>2, <2>3 DEF ReadsBack
<1>4. Spec => []IInv
  BY SpecIInv
<1>5. QED
  BY <1>1, <1>2, <1>3, <1>4, PTL DEF Spec
===============================================================================
