------------------------------- MODULE Formatter -------------------------------
(***************************************************************************)
(* The formatter of taz_formatter.c: a pattern's specifiers are read one   *)
(* after another, each writes a value, and a record is written in two      *)
(* passes, the fields keyed 0, 1, ... without their keys and the others    *)
(* with them, by a recursion whose calls are the frames of a stack.        *)
(*                                                                         *)
(* The text is a sequence of tokens without its blanks.  Two records share *)
(* an index whose iterators meet its keys in the order given.  A decimal   *)
(* is a multiple of 1/Den.  The writer is a callback of the host, which    *)
(* may define fields of the records that are being written, with new keys  *)
(* too: one that has a free bucket takes it, one that has none moves the   *)
(* others under the iterators.                                             *)
(***************************************************************************)
EXTENDS Integers, Sequences, SequencesExt, FiniteSets, FiniteSetsExt

CONSTANTS
  Heaps,              \* the contents of the records: sequences of [key -> value]
  Orders,             \* the orders in which iterators meet the keys
  Calls(_),           \* the calls on a heap: sequences of specifiers and their values
  IdentStr,           \* the strings that isIdentKey accepts
  Width,              \* bits of a tazR_Int, 32
  BufSize,            \* digits that fmtInt has room for, 32
  MaxDigits,          \* the digits fmtDec writes, 18
  Den,
  NewVals, NewKeys,   \* the values a writer defines, the keys it may add
  Rehashes,           \* the orders that a growth of the index may leave
  Fails,              \* whether iterators may fail to be allocated
  MaxChanges, MaxDepth    \* bounds: definitions of a writer, calls of fmtRec

\* A value has a type and a number: of a string, of a record, or its own.
Value(t, n) == [type |-> t, n |-> n]
IntVal(n) == Value("int", n)
Udf == Value("udf", 0)

Power(b, n) ==
  LET p[i \in 0 .. n] == IF i = 0 THEN 1 ELSE b * p[i - 1]
  IN p[n]

\* One more than the greatest tazR_Int.
IntLimit == Power(2, Width - 1)

\* An index has a key once, a record has a field for each, and a value that is a
\* record is one of the heap.
ASSUME FormatterAssumption ==
  /\ Width \in Nat \ {0} /\ BufSize \in Nat /\ BufSize >= Width /\ MaxDigits \in Nat \ {0} /\ Den \in Nat \ {0}
  /\ Fails \in BOOLEAN /\ MaxChanges \in Nat /\ MaxDepth \in Nat
  /\ \A o \in Orders \union Rehashes : o \in Seq(Range(o)) /\ IsInjective(o)
  /\ \A o \in Orders : \A k \in Range(o) \union NewKeys :
        k.type = "int" => k = IntVal(k.n) /\ k.n \in -IntLimit .. IntLimit - 1
  /\ \A o \in Orders, h \in Heaps : \A r \in DOMAIN h :
        /\ Range(o) \union NewKeys \subseteq DOMAIN h[r]
        /\ \A k \in NewKeys \ Range(o) : h[r][k] = Udf
        /\ \A k \in Range(o) : h[r][k].type = "rec" => h[r][k].n \in DOMAIN h

VARIABLES
  heap,               \* the contents of the records
  order,              \* the keys of their index, in the order of its buckets
  fmt,                \* the call: its state, what it has to do, its text, its frames
  changes,            \* fields the writer has defined
  lent                \* whether a function has left without returning a string

vars == <<heap, order, fmt, changes, lent>>

Key == Range(order)
Get(r, k) == IF k \in Key THEN heap[r][k] ELSE Udf
Keys(r) == {k \in Key : Get(r, k) # Udf}

-------------------------------------------------------------------------------
(* Specifiers. *)

BaseLetters == {"H", "D", "O", "B"}
BasesIn(spec) == SelectSeq(spec, LAMBDA c : c \in BaseLetters)

\* Letters are flags, of which one at most is a base.
IsSpec(spec) == Range(spec) \subseteq BaseLetters \union {"Q"} /\ Len(BasesIn(spec)) <= 1

Flags(spec) ==
  [quoted |-> Contains(spec, "Q"),
   base |-> CASE Contains(spec, "H") -> 16 [] Contains(spec, "O") -> 8
              [] Contains(spec, "B") -> 2 [] OTHER -> 10]

-------------------------------------------------------------------------------
(* Values that are not records. *)

\* The digits of a number, the first one first; none for zero.
Digits(n, b) ==
  LET d[m \in 0 .. n] == IF m = 0 THEN <<>> ELSE Append(d[m \div b], m % b)
  IN d[n]

\* The digits of a fraction so far, and its rest times Den; one digit more.
Parts(digits, rest) == [digits |-> digits, rest |-> rest]
NextPart(d, b) ==
  IF d.rest = 0 THEN d
  ELSE Parts(Append(d.digits, (d.rest * b) \div Den), (d.rest * b) % Den)

\* At most c digits of the fraction f / Den.
Fraction(f, b, c) ==
  LET d[i \in 0 .. c] == IF i = 0 THEN Parts(<<>>, f) ELSE NextPart(d[i - 1], b)
  IN d[c].digits

Num(neg, digits, fract, more) ==
  [t |-> "num", neg |-> neg, digits |-> digits, fract |-> fract, more |-> more]

Magnitude(n) == IF n < 0 THEN -n ELSE n

\* (Faulty: a zero is not told from no number; ReadsBack.)
MutIntDigits(n, b) == Digits(Magnitude(n), b)

\* fmtInt: the sign apart, digits are taken by unsigned arithmetic, so that the
\* least number has them too.  (C leaves its negation, taz_formatter.c:123,
\* undefined; here it wraps, as the machine's does.)
IntDigits(n, b) == IF n = 0 THEN <<0>> ELSE Digits(Magnitude(n), b)

FmtInt(n, b) == Num(n < 0, IntDigits(n, b), <<>>, FALSE)

RoomAfter(digits) == MaxDigits - Len(digits)

\* fmtDec: the lowest digits of the whole part, then as many of the fraction
\* as are left, or an ellipsis if none are.
FmtDec(n, b) ==
  LET all == Digits(Magnitude(n) \div Den, b)
      digits == SubSeq(all, Max({1, Len(all) - MaxDigits + 1}), Len(all))
      fract == Fraction(Magnitude(n) % Den, b, RoomAfter(digits))
  IN IF n = 0 THEN Num(FALSE, <<0>>, <<0>>, FALSE)
     ELSE IF Len(digits) = MaxDigits THEN Num(n < 0, digits, <<>>, TRUE)
     ELSE Num(n < 0, digits, IF fract = <<>> THEN <<0>> ELSE fract, FALSE)

Token(t) == [t |-> t]

\* fmtStr, which quotes a string or not; fmtUdf, fmtNil, fmtLog.
Text(v, flags) == [t |-> "str", n |-> v.n, quoted |-> flags.quoted]
Word(v) == [t |-> "word", word |-> v]

\* fmtVal, for what is not a record.
Atom(v, flags) ==
  CASE v.type = "int" -> FmtInt(v.n, flags.base)
    [] v.type = "dec" -> FmtDec(v.n, flags.base)
    [] v.type = "str" -> Text(v, flags)
    [] OTHER -> Word(v)

\* No function can be formatted, nor what is longer than the buffer of digits.
IsUndefined(v, flags) ==
  v.type = "fun" \/ (v.type = "int" /\ Len(IntDigits(v.n, flags.base)) > BufSize)

-------------------------------------------------------------------------------
(* The call. *)

Idle == [state |-> "idle", todo |-> <<>>, flags |-> Flags(<<>>), of |-> Udf, text |-> <<>>, stack |-> <<>>]

Init ==
  /\ heap \in Heaps
  /\ order \in Orders
  /\ fmt = Idle /\ changes = 0 /\ lent = FALSE

TopFrame == Last(fmt.stack)
On == fmt.state = "on"
InRec == On /\ fmt.stack # <<>>

Failed == [Idle EXCEPT !.state = "failed"]

\* A frame of fmtRec.  What it has shown, and the fields that have been there
\* since it began, are noted for ShownOnce, anew when the index grows under its
\* iterator.
Frame(r) == [rec |-> r, pass |-> "sequence", index |-> 0, todo |-> <<>>, empty |-> TRUE,
             shown |-> <<>>, lasting |-> {<<k, Get(r, k)>> : k \in Keys(r)}]

Wrote(f, tokens) == [f EXCEPT !.text = @ \o tokens]
WithTop(f, frame) == [f EXCEPT !.stack[Len(f.stack)] = frame]

\* fmtVal: a record begins a call of fmtRec, whose first iterator may fail.
FmtVal(f, v, flags) ==
  CASE v.type = "rec" ->
         {[Wrote(f, <<Token("open")>>) EXCEPT !.stack = Append(@, Frame(v.n))]}
         \union (IF Fails THEN {Failed} ELSE {})
    [] v.type # "rec" /\ IsUndefined(v, flags) -> {[Idle EXCEPT !.state = "ub", !.of = v]}
    [] OTHER -> {Wrote(f, <<Atom(v, flags)>>)}

Quoted == [fmt.flags EXCEPT !.quoted = TRUE]

\* tazR_fmt, tazR_vfmt
Fmt(call) ==
  /\ fmt.state = "idle"
  /\ fmt' = [Idle EXCEPT !.state = "on", !.todo = call]
  /\ UNCHANGED <<heap, order, changes, lent>>

\* A value that is a record is one of the heap.
Exists(v) == v.type = "rec" => v.n \in DOMAIN heap

\* The next specifier is read and its value written.
Specifier ==
  /\ On /\ fmt.stack = <<>> /\ fmt.todo # <<>> /\ Exists(Head(fmt.todo).val)
  /\ LET next == Head(fmt.todo)
         f == [fmt EXCEPT !.todo = Tail(@), !.flags = Flags(next.spec), !.of = next.val, !.text = <<>>]
     IN fmt' \in IF IsSpec(next.spec) THEN FmtVal(f, next.val, f.flags) ELSE {Failed}
  /\ UNCHANGED <<heap, order, changes, lent>>

PatternEnds ==
  /\ On /\ fmt.stack = <<>> /\ fmt.todo = <<>>
  /\ fmt' = Idle
  /\ UNCHANGED <<heap, order, changes, lent>>

\* The caller's barrier has the error.
Caught ==
  /\ fmt.state = "failed" /\ fmt' = Idle
  /\ UNCHANGED <<heap, order, changes, lent>>

Bounded(v) == v.type = "rec" => Len(fmt.stack) < MaxDepth
Shows(frame, k, v) == [frame EXCEPT !.shown = Append(@, <<k, v>>)]
Comma(needed) == IF needed THEN <<Token("comma")>> ELSE <<>>

\* The first pass: the field of the next whole number.
Sequenced ==
  /\ InRec /\ TopFrame.pass = "sequence"
  /\ LET i == TopFrame.index
         v == Get(TopFrame.rec, IntVal(i))
         f == Wrote(fmt, Comma(i > 0))
     IN /\ v # Udf /\ Bounded(v)
        /\ fmt' \in FmtVal(WithTop(f, [Shows(TopFrame, IntVal(i), v) EXCEPT !.index = i + 1]), v, Quoted)
  /\ UNCHANGED <<heap, order, changes, lent>>

\* There is none: the second iterator is made.
SequenceEnds ==
  /\ InRec /\ TopFrame.pass = "sequence" /\ Get(TopFrame.rec, IntVal(TopFrame.index)) = Udf
  /\ \/ fmt' = WithTop(fmt, [TopFrame EXCEPT !.pass = "keyed", !.todo = order, !.empty = TopFrame.index = 0])
     \/ Fails /\ fmt' = Failed
  /\ UNCHANGED <<heap, order, changes, lent>>

\* tazR_recIterNext: the keys with values that an iterator has before it.
Ahead(frame) == {i \in DOMAIN frame.todo : Get(frame.rec, frame.todo[i]) # Udf}
NextKey == TopFrame.todo[Min(Ahead(TopFrame))]
After(frame) == [frame EXCEPT !.todo = SubSeq(@, Min(Ahead(frame)) + 1, Len(@))]

\* (Faulty: the key is compared as a signed number; ShownOnce.)
MutInSequence(k, index) == k.type = "int" /\ k.n < index
\* The comparison makes the key an unsigned number.
InSequence(k, index) == k.type = "int" /\ k.n % (2 * IntLimit) < index

Iterating == InRec /\ TopFrame.pass = "keyed" /\ Ahead(TopFrame) # {}

\* The second pass: a key that the first has dealt with.
Skipped ==
  /\ Iterating /\ InSequence(NextKey, TopFrame.index)
  /\ fmt' = WithTop(fmt, After(TopFrame))
  /\ UNCHANGED <<heap, order, changes, lent>>

IsIdentKey(k) == k.type = "str" /\ k.n \in IdentStr
KeyText(k) ==
  IF IsIdentKey(k) THEN <<Token("dot"), Atom(k, [fmt.flags EXCEPT !.quoted = FALSE]), Token("colon")>>
  ELSE <<Token("at"), Atom(k, Quoted), Token("colon")>>

\* The second pass: a field with its key.  isIdentKey keeps what it borrowed.
Keyed ==
  /\ Iterating /\ ~InSequence(NextKey, TopFrame.index)
  /\ LET k == NextKey
         v == Get(TopFrame.rec, k)
         f == Wrote(fmt, Comma(~TopFrame.empty) \o KeyText(k))
     IN /\ Bounded(v)
        /\ fmt' \in FmtVal(WithTop(f, [Shows(After(TopFrame), k, v) EXCEPT !.empty = FALSE]), v, Quoted)
        /\ lent' = (lent \/ k.type = "str")
  /\ UNCHANGED <<heap, order, changes>>

RecordEnds ==
  /\ InRec /\ TopFrame.pass = "keyed" /\ Ahead(TopFrame) = {}
  /\ fmt' = [Wrote(fmt, <<Token("close")>>) EXCEPT !.stack = Front(@)]
  /\ UNCHANGED <<heap, order, changes, lent>>

\* A frame when the field k of r has been defined again.
Overwritten(frame, r, k) ==
  IF frame.rec = r THEN [frame EXCEPT !.lasting = {e \in @ : e[1] # k}] ELSE frame

Defines(r, k, v) ==
  /\ On /\ changes < MaxChanges /\ Exists(v) /\ Get(r, k) # v
  /\ heap' = [heap EXCEPT ![r][k] = v] /\ changes' = changes + 1
  /\ UNCHANGED lent

\* The writer defines a field whose key the index has.
Write(r, k, v) ==
  /\ k \in Key /\ Defines(r, k, v)
  /\ fmt' = [fmt EXCEPT !.stack = [i \in DOMAIN @ |-> Overwritten(@[i], r, k)]]
  /\ UNCHANGED order

\* A key in a bucket that was free, the one of place p: an iterator meets it if it
\* has not come so far.
Passed(frame) == Len(order) - Len(frame.todo)
WithPlace(frame, k, p) ==
  IF frame.pass = "keyed" /\ p > Passed(frame)
    THEN [frame EXCEPT !.todo = InsertAt(@, p - Passed(frame), k)]
    ELSE frame

\* The writer defines a field whose key is new to the index.
Insert(r, k, v, p) ==
  /\ k \notin Key /\ Defines(r, k, v)
  /\ order' = InsertAt(order, p, k)
  /\ fmt' = [fmt EXCEPT !.stack = [i \in DOMAIN @ |-> WithPlace(@[i], k, p)]]

\* The buckets have been filled anew; an iterator goes on at the bucket where it
\* was, which has any number of keys before it.
Rehashed(frame, o, passed) ==
  IF frame.pass = "keyed"
    THEN [frame EXCEPT !.todo = SubSeq(o, passed + 1, Len(o)), !.shown = <<>>, !.lasting = {}]
    ELSE frame

\* The same, and the index grows.
Grow(r, k, v, o, passed) ==
  /\ k \notin Key /\ Range(o) = Key \union {k} /\ Defines(r, k, v)
  /\ order' = o
  /\ fmt' = [fmt EXCEPT !.stack = [i \in DOMAIN @ |-> Rehashed(@[i], o, passed[i])]]

Next ==
  \/ \E call \in Calls(heap) : Fmt(call)
  \/ Specifier \/ PatternEnds \/ Caught
  \/ Sequenced \/ SequenceEnds \/ Skipped \/ Keyed \/ RecordEnds
  \/ \E r \in DOMAIN heap, v \in NewVals :
       \/ \E k \in Key : Write(r, k, v)
       \/ \E k \in NewKeys : \/ \E p \in 1 .. Len(order) + 1 : Insert(r, k, v, p)
                             \/ \E o \in Rehashes : \E passed \in [DOMAIN fmt.stack -> 0 .. Len(o)] :
                                  Grow(r, k, v, o, passed)

Spec == Init /\ [][Next]_vars

-------------------------------------------------------------------------------
(* What the text is for: a reader who knows the values. *)

Number(digits, b) ==
  LET n[i \in 0 .. Len(digits)] == IF i = 0 THEN 0 ELSE n[i - 1] * b + digits[i]
  IN n[Len(digits)]

\* The number that was cut to its first digits, some of them of a fraction.
Leads(tok, n, b) ==
  LET scale == Power(b, Len(tok.fract))
      read == Number(tok.digits \o tok.fract, b) * Den
      cut == Len(Digits(n \div Den, b)) - MaxDigits
  IN IF tok.more
     THEN cut \in Nat /\ Number(tok.digits, b) = (n \div Den) \div Power(b, cut)
     ELSE \/ read = n * scale
          \/ /\ Len(tok.digits) + Len(tok.fract) >= MaxDigits
             /\ read <= n * scale /\ n * scale < read + Den

\* A token is a way to write a value: a whole number has no fraction.
Denotes(tok, v, b) ==
  CASE v.type = "int" -> /\ tok.t = "num" /\ tok.digits # <<>> /\ tok.fract = <<>> /\ ~tok.more
                         /\ tok.neg = (v.n < 0) /\ Number(tok.digits, b) = Magnitude(v.n)
    [] v.type = "dec" -> /\ tok.t = "num" /\ (tok.fract # <<>> \/ tok.more)
                         /\ tok.neg = (v.n < 0) /\ Leads(tok, Magnitude(v.n), b)
    [] v.type = "str" -> tok.t = "str" /\ tok.n = v.n
    [] OTHER -> tok.t = "word" /\ tok.word = v

\* What the reader knows: the value, its base, and the fields of the records.
Known == [of |-> fmt.of, base |-> fmt.flags.base,
          fields |-> [r \in DOMAIN heap |-> [k \in Keys(r) |-> Get(r, k)]]]

\* A reader: what it may meet next, and the records it is in, each with the
\* keys of the fields it has met, the key it has read, and the number of the
\* next field without one.
At(next, in) == [next |-> next, in |-> in]
Within(rec, met, key, place) == [rec |-> rec, met |-> met, key |-> key, place |-> place]
Reader == At("value", <<>>)
Lost == At("nothing", <<>>)

Inner(a) == Last(a.in)
WithInner(a, next, in) == At(next, [a.in EXCEPT ![Len(a.in)] = in])

FieldKey(in) == IF in.key # Udf THEN in.key ELSE IntVal(in.place)
Fields(w, a) == w.fields[Inner(a).rec]
Field(fields, k) == IF k \in DOMAIN fields THEN fields[k] ELSE Udf
Wanted(w, a) == IF a.in = <<>> THEN w.of ELSE Field(Fields(w, a), FieldKey(Inner(a)))

\* A value has been read, of a field if it is in a record.
WithField(in) ==
  Within(in.rec, in.met \union {FieldKey(in)}, Udf, IF in.key = Udf THEN in.place + 1 ELSE in.place)
Met(a) ==
  IF a.in = <<>> THEN At("nothing more", <<>>)
  ELSE IF FieldKey(Inner(a)) \in Inner(a).met THEN Lost
  ELSE WithInner(a, "comma", WithField(Inner(a)))

AtField(a) == a.next \in {"value", "field or end", "field"}
KeysWritten(w, a, tok) ==
  {k \in DOMAIN Fields(w, a) :
     /\ Denotes(tok, k, w.base)
     /\ tok.t = "str" => tok.quoted = (a.next = "at")
     /\ a.next = "dot" => tok.t = "str" /\ tok.n \in IdentStr}
WithKey(in, k) == Within(in.rec, in.met, k, in.place)
Entered(w, a) == At("field or end", Append(a.in, Within(Wanted(w, a).n, {}, Udf, 0)))

Read(w, a, tok) ==
  CASE tok.t = "open" /\ AtField(a) /\ Wanted(w, a).type = "rec" -> Entered(w, a)
    [] tok.t = "close" /\ a.next \in {"field or end", "comma"}
         /\ Inner(a).met = DOMAIN Fields(w, a) -> Met(At("value", Front(a.in)))
    [] tok.t = "comma" /\ a.next = "comma" -> At("field", a.in)
    [] tok.t \in {"dot", "at"} /\ a.next \in {"field or end", "field"} -> At(tok.t, a.in)
    [] a.next \in {"dot", "at"} /\ tok.t \in {"num", "str"} /\ KeysWritten(w, a, tok) # {} ->
         WithInner(a, "colon", WithKey(Inner(a), CHOOSE k \in KeysWritten(w, a, tok) : TRUE))
    [] tok.t = "colon" /\ a.next = "colon" -> At("value", a.in)
    [] tok.t \in {"num", "str", "word"} /\ AtField(a) /\ Denotes(tok, Wanted(w, a), w.base)
         /\ (tok.t = "str" /\ a.in # <<>> => tok.quoted) -> Met(a)
    [] OTHER -> Lost

ReadAll(w, text) ==
  LET r[n \in 0 .. Len(text)] == IF n = 0 THEN Reader ELSE Read(w, r[n - 1], text[n])
  IN r[Len(text)]

\* What is written for a value reads as that value: numbers in their base, as
\* far as decimals are written; records with all their fields, each under the
\* key it is given or the place it is in, however deep and in whatever order
\* iterators return keys, with the identifiers told from other strings.  All but
\* functions can be written.
ReadsBack ==
  /\ On /\ fmt.stack = <<>> /\ fmt.text # <<>> /\ changes = 0
       => ReadAll(Known, fmt.text).next = "nothing more"
  /\ fmt.state = "ub" => fmt.of.type = "fun"

\* A field is written once by the two passes together (taz_formatter.c:252-256,
\* 276-278), whatever the writer defines in between, new keys included: no key
\* twice, and each field that is there from first to last.  A growth of the index
\* during the first pass changes nothing; one during the second moves the buckets
\* under the iterator (taz_index.c:602), and all that holds is that no key is
\* written twice after it (WrittenOnce shows what does not).
ShownOnce ==
  \A i \in DOMAIN fmt.stack :
    LET f == fmt.stack[i]
    IN /\ \A j, l \in DOMAIN f.shown : f.shown[j][1] = f.shown[l][1] => j = l
       /\ i = Len(fmt.stack) /\ f.pass = "keyed" /\ Ahead(f) = {} => f.lasting \subseteq Range(f.shown)

\* No key is written twice in a record without records, also when its index grows
\* under its iterator.
WrittenOnce ==
  LET marks == {i \in DOMAIN fmt.text : fmt.text[i].t \in {"dot", "at"}}
  IN Len(SelectSeq(fmt.text, LAMBDA tok : tok.t = "open")) = 1 =>
       \A i, j \in marks : fmt.text[i + 1] = fmt.text[j + 1] /\ fmt.text[i] = fmt.text[j] => i = j

\* A record that contains itself ends, and what was borrowed is returned.
NeverDeep == Len(fmt.stack) <= Len(heap)
ReturnsLoans == ~lent
===============================================================================
