------------------------------ MODULE CodeProofs ------------------------------
(***************************************************************************)
(* The memory of an assembler and of the code made from it is accounted    *)
(* for at every step, what either leads to is kept by every collection, a  *)
(* reference that the assembler has returned denotes what it was asked     *)
(* for, and instructions and labels are laid out where they belong: for    *)
(* every number of calls, of constants and of names, every capacity of the *)
(* buffers and every place where an allocation may fail.                   *)
(***************************************************************************)
EXTENDS Code, SequenceTheorems, FiniteSetTheorems, WellFoundedInduction, TLAPS

Buffer == {"instrs", "labels", "consts"}
Instr == [form : {"A", "B"}, labels : SUBSET Nat]
Label == [where : Nat, made : Nat]

\* An assembler.
AsRec ==
  [scope : {"local", "global"}, packed : BOOLEAN, var : BOOLEAN, fixed : Nat,
   instrs : Seq(Instr), labels : Seq(Label), consts : Seq(Value), top : SUBSET Nat,
   moved : Nat, cap : [Buffer -> Nat], upvals : Seq(Name), locals : Seq(Name),
   numUpvals : Nat, numLocals : Nat]

\* Labels that are linked are in the buffer of labels, and a buffer that is not
\* packed has room for what is in it.
Linked(a) ==
  /\ \A i \in DOMAIN a.instrs : a.instrs[i].labels \subseteq DOMAIN a.labels
  /\ a.top \subseteq DOMAIN a.labels
Roomy(a) == a.packed \/ \A b \in Buffer : a.cap[b] >= 1 /\ Len(a[b]) <= a.cap[b]
Sound(a) == a \in AsRec /\ Linked(a) /\ Roomy(a)

AsOK == asm = NoAs \/ Sound(asm)

CodeOK ==
  code = NoCode \/ /\ code.kind \in {"byte", "host"} /\ code.var \in BOOLEAN
                   /\ code.consts \in Seq(Value)
                   /\ Len(code.labels) \in Nat /\ Len(code.words) \in Nat

\* The call under way, and what it has to do with the two objects.
InAssembler ==
  /\ call \in [op : {"assembler"}, scope : {"local", "global"}, made : 0 .. 2]
  /\ asm = NoAs /\ code = NoCode
InHost ==
  /\ call \in [op : {"host"}, stage : {"params", "upvals"}, info : Infos]
  /\ asm = NoAs /\ code = NoCode
  /\ call.stage = "upvals" => call.info.upvals
Make(c) ==
  /\ c = [op |-> "make", stage |-> c.stage, i |-> c.i, words |-> c.words,
          cap |-> c.cap, labels |-> c.labels, consts |-> c.consts]
  /\ c.stage \in {"init", "emit", "object", "packed"} /\ c.cap \in Nat
  /\ c.consts \in Seq(Value) /\ \E S : c.words \in Seq(S)
  /\ Len(c.labels) \in Nat /\ DOMAIN c.labels = 1 .. Len(c.labels)
  /\ c.stage # "packed" => c.consts = <<>>
  /\ c.stage = "init" => c.cap = 0
InMake ==
  /\ Make(call) /\ asm # NoAs /\ "asm" \in roots /\ code = NoCode
  /\ call.stage # "packed" => (asm.packed => Reuse)
CallOK == call = Idle \/ InAssembler \/ InHost \/ InMake

\* The raw memory that somebody still has to give back.
OfAs == IF asm = NoAs THEN 0 ELSE Sum3(asm.cap)
OfCode ==
  IF code = NoCode THEN 0 ELSE Len(code.consts) + Len(code.labels) + Len(code.words)
Owed == OfAs + OfCode + Anchored + Committed

\* It is held, and more only after a construction has failed half way through.
Balanced == held \in Nat /\ held >= Owed /\ (~broken => held = Owed)

Counted ==
  /\ roots \subseteq {"asm", "code"} /\ globals \in Seq(Name)
  /\ alive \subseteq Value \union {"upvalIdx", "localIdx", "varParamsIdx"}
  /\ used \in Int /\ calls \in 0 .. MaxCalls /\ failures \in 0 .. MaxFailures
  /\ broken \in BOOLEAN /\ ub \in {"no", "null_write", "stale_label"}

CodeInv == AsOK /\ CodeOK /\ CallOK /\ Balanced /\ Counted

-------------------------------------------------------------------------------
(* Numbers.                                                                *)

LEMMA SumOfThree ==
  ASSUME NEW x \in Nat, NEW y \in Nat, NEW z \in Nat
  PROVE  x + y + z \in Nat /\ x + (y + z) \in Nat /\ x + 0 \in Nat
OBVIOUS

\* What is held and what is owed move by the same amount.
LEMMA Transfer ==
  ASSUME NEW h \in Nat, NEW o \in Nat, NEW p \in Nat, NEW r \in Nat
  PROVE  /\ h >= o + r => h + (p - o) \in Nat /\ h + (p - o) >= p + r
         /\ h = o + r => h + (p - o) = p + r
OBVIOUS

-------------------------------------------------------------------------------
(* The assembler as a record.                                              *)

LEMMA Fields ==
  ASSUME NEW a \in AsRec
  PROVE  /\ a.scope \in {"local", "global"} /\ a.packed \in BOOLEAN /\ a.var \in BOOLEAN
         /\ a.fixed \in Nat /\ a.instrs \in Seq(Instr) /\ a.labels \in Seq(Label)
         /\ a.consts \in Seq(Value) /\ a.top \in SUBSET Nat /\ a.moved \in Nat
         /\ a.cap \in [Buffer -> Nat] /\ a.upvals \in Seq(Name) /\ a.locals \in Seq(Name)
         /\ a.numUpvals \in Nat /\ a.numLocals \in Nat
BY DEF AsRec

LEMMA Lens ==
  ASSUME NEW a \in AsRec
  PROVE  \A b \in Buffer : Len(a[b]) \in Nat /\ a.cap[b] \in Nat
<1>1. Len(a.instrs) \in Nat /\ Len(a.labels) \in Nat /\ Len(a.consts) \in Nat
  BY Fields
<1>2. a["instrs"] = a.instrs /\ a["labels"] = a.labels /\ a["consts"] = a.consts
  OBVIOUS
<1>3. \A b \in Buffer : a.cap[b] \in Nat
  BY Fields
<1>4. QED
  BY <1>1, <1>2, <1>3 DEF Buffer

LEMMA AnAssembler ==
  ASSUME NEW a \in AsRec
  PROVE  a # NoAs
BY Fields DEF NoAs

LEMMA SumIs ==
  ASSUME NEW cap \in [Buffer -> Nat]
  PROVE  /\ Sum3(cap) \in Nat
         /\ \A b \in Buffer : \A n \in Nat :
              Sum3([cap EXCEPT ![b] = n]) = Sum3(cap) - cap[b] + n
BY DEF Sum3, Buffer

LEMMA CapAfterIs ==
  ASSUME NEW b, Len(asm[b]) \in Nat, asm.cap[b] \in Nat
  PROVE  /\ CapAfter(b) \in Nat
         /\ asm.cap[b] >= 1 /\ Len(asm[b]) <= asm.cap[b] => CapAfter(b) >= 1
         /\ asm.cap[b] >= 1 /\ Len(asm[b]) <= asm.cap[b] => CapAfter(b) >= Len(asm[b]) + 1
<1>1. \/ Len(asm[b]) >= asm.cap[b] /\ CapAfter(b) = asm.cap[b] * 2
      \/ ~(Len(asm[b]) >= asm.cap[b]) /\ CapAfter(b) = asm.cap[b]
  BY Zenon DEF CapAfter
<1>2. QED
  BY <1>1

\* Room(b) changes nothing but a capacity.
LEMMA RoomIs ==
  ASSUME asm \in AsRec, NEW b \in Buffer
  PROVE  /\ CapAfter(b) \in Nat
         /\ Room(b) \in AsRec
         /\ Room(b) = [asm EXCEPT !.cap = [asm.cap EXCEPT ![b] = CapAfter(b)]]
<1>1. \A c \in Buffer : Len(asm[c]) \in Nat /\ asm.cap[c] \in Nat
  BY Lens
<1>2. CapAfter(b) \in Nat
  <2>1. Len(asm[b]) \in Nat /\ asm.cap[b] \in Nat
    BY <1>1
  <2>2. QED
    BY <2>1, CapAfterIs
<1>3. Room(b) = [asm EXCEPT !.cap = [asm.cap EXCEPT ![b] = CapAfter(b)]]
  BY DEF Room
<1>4. [asm.cap EXCEPT ![b] = CapAfter(b)] \in [Buffer -> Nat]
  BY <1>2, Fields
<1>5. Room(b) \in AsRec
  BY <1>3, <1>4 DEF AsRec
<1>6. QED
  BY <1>2, <1>3, <1>5

\* After it, one more element has room in that buffer.
LEMMA RoomForOne ==
  ASSUME Sound(asm), NEW b \in Buffer, NEW a \in AsRec, a.packed = asm.packed,
         a.cap = [asm.cap EXCEPT ![b] = CapAfter(b)],
         Len(a[b]) = Len(asm[b]) + 1, \A c \in Buffer \ {b} : Len(a[c]) = Len(asm[c])
  PROVE  Roomy(a) /\ Sum3(a.cap) = Sum3(asm.cap) + (CapAfter(b) - asm.cap[b])
<1>1. asm \in AsRec /\ asm.cap \in [Buffer -> Nat]
  BY Fields DEF Sound
<1>2. \A c \in Buffer : Len(asm[c]) \in Nat /\ asm.cap[c] \in Nat
  BY <1>1, Lens
<1>3. CapAfter(b) \in Nat
  BY <1>1, RoomIs
<1>4. Sum3(a.cap) = Sum3(asm.cap) + (CapAfter(b) - asm.cap[b])
  <2>1. /\ Sum3(asm.cap) \in Nat
        /\ \A n \in Nat :
             Sum3([asm.cap EXCEPT ![b] = n]) = Sum3(asm.cap) - asm.cap[b] + n
    BY <1>1, SumIs
  <2>2. Sum3(a.cap) = Sum3(asm.cap) - asm.cap[b] + CapAfter(b)
    BY <1>3, <2>1
  <2>3. asm.cap[b] \in Nat
    BY <1>2
  <2>4. ASSUME NEW x \in Nat, NEW y \in Nat, NEW z \in Nat
        PROVE  x - y + z = x + (z - y)
    OBVIOUS
  <2>5. QED
    BY <2>1, <2>2, <2>3, <2>4, <1>3
<1>5. ASSUME ~asm.packed, NEW c \in Buffer
      PROVE  a.cap[c] >= 1 /\ Len(a[c]) <= a.cap[c]
  <2>1. \A d \in Buffer : asm.cap[d] >= 1 /\ Len(asm[d]) <= asm.cap[d]
    BY <1>5 DEF Sound, Roomy
  <2>2. CASE c = b
    <3>1. a.cap[c] = CapAfter(b)
      BY <1>1, <2>2
    <3>2. /\ Len(asm[b]) \in Nat /\ asm.cap[b] \in Nat
          /\ asm.cap[b] >= 1 /\ Len(asm[b]) <= asm.cap[b]
      BY <1>2, <2>1
    <3>3. CapAfter(b) >= 1 /\ CapAfter(b) >= Len(asm[b]) + 1
      BY <3>2, CapAfterIs
    <3>4. QED
      BY <3>1, <3>3, <2>2
  <2>3. CASE c # b
    <3>1. a.cap[c] = asm.cap[c]
      BY <1>1, <2>3
    <3>2. QED
      BY <3>1, <2>1, <2>3
  <2>4. QED
    BY <2>2, <2>3
<1>6. QED
  BY <1>4, <1>5 DEF Roomy

-------------------------------------------------------------------------------
(* The call under way, and what the memory is owed to.                     *)

LEMMA InMakeIs ==
  ASSUME InMake
  PROVE  /\ call.op = "make" /\ call.stage \in {"init", "emit", "object", "packed"}
         /\ call.cap \in Nat /\ Len(call.words) \in Nat /\ Len(call.labels) \in Nat
         /\ call.consts \in Seq(Value) /\ Len(call.consts) \in Nat
<1>1. call.op = "make"
  BY DEF InMake, Make
<1>2. Len(call.words) \in Nat
  <2>1. PICK S : call.words \in Seq(S)
    BY DEF InMake, Make
  <2>2. QED
    BY <2>1
<1>3. QED
  BY <1>1, <1>2 DEF InMake, Make

\* A call is idle or one of the three.
LEMMA Ops ==
  ASSUME CallOK
  PROVE  /\ call.op = "idle" <=> call = Idle
         /\ call.op = "assembler" <=> InAssembler
         /\ call.op = "host" <=> InHost
         /\ call.op = "make" <=> InMake
         /\ call.op \in {"idle", "assembler", "host", "make"}
<1>1. call = Idle => call.op = "idle"
  BY DEF Idle
<1>2. InAssembler => call.op = "assembler"
  BY DEF InAssembler
<1>3. InHost => call.op = "host"
  BY DEF InHost
<1>4. InMake => call.op = "make"
  BY InMakeIs
<1>5. QED
  BY <1>1, <1>2, <1>3, <1>4 DEF CallOK

LEMMA AsIs ==
  ASSUME AsOK, asm # NoAs
  PROVE  Sound(asm) /\ asm \in AsRec /\ asm.cap \in [Buffer -> Nat] /\ Sum3(asm.cap) \in Nat
<1>1. Sound(asm) /\ asm \in AsRec
  BY DEF AsOK, Sound
<1>2. asm.cap \in [Buffer -> Nat]
  BY <1>1, Fields
<1>3. QED
  BY <1>1, <1>2, SumIs

LEMMA OwedIs ==
  ASSUME AsOK, CodeOK, CallOK
  PROVE  OfAs \in Nat /\ OfCode \in Nat /\ Anchored \in Nat /\ Committed \in Nat
<1>1. OfAs \in Nat
  BY AsIs DEF OfAs
<1>2. OfCode \in Nat
  <2>1. CASE code = NoCode
    BY <2>1 DEF OfCode
  <2>2. CASE code # NoCode
    <3>1. Len(code.labels) \in Nat /\ Len(code.words) \in Nat
      BY <2>2 DEF CodeOK
    <3>2. Len(code.consts) \in Nat
      BY <2>2 DEF CodeOK
    <3>3. OfCode = Len(code.consts) + Len(code.labels) + Len(code.words)
      BY <2>2 DEF OfCode
    <3>4. QED
      BY <3>1, <3>2, <3>3, SumOfThree, Zenon
  <2>3. QED
    BY <2>1, <2>2
<1>3. Anchored \in Nat
  BY Ops, InMakeIs DEF Anchored
<1>4. Committed \in Nat
  <2>1. CASE call.op = "assembler"
    <3>1. call.made \in Nat /\ InitCap \in Nat
      BY <2>1, Ops, CodeAssumption DEF InAssembler
    <3>2. call.made * InitCap \in Nat
      BY <3>1
    <3>3. QED
      BY <3>2, <2>1 DEF Committed
  <2>2. CASE call.op = "make"
    <3>1. /\ call.cap \in Nat /\ Len(call.consts) \in Nat /\ Len(call.labels) \in Nat
      BY <2>2, Ops, InMakeIs
    <3>2. CASE call.stage = "packed"
      <4>1. Committed = call.cap + (Len(call.consts) + Len(call.labels))
        BY <2>2, <3>2 DEF Committed
      <4>2. QED
        BY <3>1, <4>1, SumOfThree, Zenon
    <3>3. CASE call.stage # "packed"
      <4>1. Committed = call.cap + 0
        BY <2>2, <3>3 DEF Committed
      <4>2. QED
        BY <3>1, <4>1, SumOfThree, Zenon
    <3>4. QED
      BY <3>2, <3>3
  <2>3. CASE call.op \notin {"assembler", "make"}
    BY <2>3 DEF Committed
  <2>4. QED
    BY <2>1, <2>2, <2>3
<1>5. QED
  BY <1>1, <1>2, <1>3, <1>4

-------------------------------------------------------------------------------
(* Calls of the assembler.                                                 *)

LEMMA UsingIs ==
  ASSUME CodeInv, Using
  PROVE  call = Idle /\ Sound(asm) /\ asm \in AsRec /\ Anchored = 0 /\ Committed = 0
         /\ Sum3(asm.cap) \in Nat /\ (asm.packed => Reuse)
<1>1. call = Idle
  BY Ops DEF Using, Ready, CodeInv
<1>2. Sound(asm) /\ asm \in AsRec /\ Sum3(asm.cap) \in Nat
  BY AsIs DEF CodeInv, Using
<1>3. Anchored = 0 /\ Committed = 0
  BY <1>1 DEF Anchored, Committed, Idle
<1>4. QED
  BY <1>1, <1>2, <1>3 DEF Using

\* The memory that a call takes with the assembler it leaves.
Growth(a) == held' = held + (Sum3(a.cap) - Sum3(asm.cap))

\* A call that leaves a sound assembler, and takes the memory by which its buffers
\* have grown.
LEMMA UsedKeeps ==
  ASSUME CodeInv, Using, NEW a, Sound(a), asm' = a,
         UNCHANGED <<code, call, roots, broken>>,
         Growth(a), Counted'
  PROVE  CodeInv'
<1>1. call = Idle /\ Sum3(asm.cap) \in Nat /\ Anchored = 0 /\ Committed = 0
  BY UsingIs
<1>2. AsOK' /\ a \in AsRec /\ a # NoAs
  BY AnAssembler DEF AsOK, Sound
<1>3. CodeOK'
  BY DEF CodeInv, CodeOK
<1>4. CallOK'
  BY <1>1 DEF CallOK
<1>5. Sum3(a.cap) \in Nat
  BY <1>2, Fields, SumIs
<1>6. OfAs = Sum3(asm.cap) /\ OfAs' = Sum3(a.cap)
  BY <1>2 DEF OfAs, Using
<1>7. OfCode' = OfCode /\ OfCode \in Nat
  BY OwedIs DEF OfCode, CodeInv
<1>8. Anchored' = 0 /\ Committed' = 0
  BY <1>1 DEF Anchored, Committed, Idle
<1>9. Balanced'
  <2>1. OfAs \in Nat /\ OfAs' \in Nat
    BY <1>1, <1>5, <1>6
  <2>2. Owed = OfAs + OfCode
    BY <1>1, <1>7, <2>1 DEF Owed
  <2>3. Owed' = OfAs' + OfCode
    BY <1>7, <1>8, <2>1 DEF Owed
  <2>4. held \in Nat /\ held >= Owed
    BY DEF CodeInv, Balanced
  <2>5. held' = held + (OfAs' - OfAs)
    BY <1>6 DEF Growth
  <2>6. held' \in Nat /\ held' >= Owed'
    BY <2>1, <2>2, <2>3, <2>4, <2>5, <1>7, Transfer, Zenon
  <2>7. ASSUME ~broken PROVE held' = Owed'
    <3>1. held = Owed
      BY <2>7 DEF CodeInv, Balanced
    <3>2. held = OfAs + OfCode
      BY <2>2, <3>1
    <3>3. held + (OfAs' - OfAs) = OfAs' + OfCode
      BY <2>1, <2>4, <3>2, <1>7
    <3>4. QED
      BY <2>3, <2>5, <3>3
  <2>8. QED
    BY <2>6, <2>7 DEF Balanced
<1>10. QED
  BY <1>2, <1>3, <1>4, <1>9 DEF CodeInv

LEMMA RoomFields ==
  ASSUME asm \in AsRec, NEW b \in Buffer
  PROVE  /\ Room(b).cap = [asm.cap EXCEPT ![b] = CapAfter(b)]
         /\ Room(b).instrs = asm.instrs /\ Room(b).labels = asm.labels
         /\ Room(b).consts = asm.consts /\ Room(b).top = asm.top
         /\ Room(b).moved = asm.moved /\ Room(b).packed = asm.packed
BY RoomIs DEF AsRec

LEMMA Update ==
  ASSUME NEW a \in AsRec
  PROVE  /\ \A s \in Seq(Instr) : [a EXCEPT !.instrs = s] \in AsRec
         /\ \A t \in SUBSET Nat : [a EXCEPT !.top = t] \in AsRec
BY DEF AsRec

\* What every call that returns has changed besides the assembler and its memory.
LEMMA CalledCounts ==
  ASSUME CodeInv, Called, globals' \in Seq(Name), used' \in Int,
         alive' \subseteq Value \union {"upvalIdx", "localIdx", "varParamsIdx"},
         ub' \in {"no", "null_write", "stale_label"}
  PROVE  Counted' /\ UNCHANGED <<code, call, roots, broken>>
<1>1. calls' \in 0 .. MaxCalls
  BY CodeAssumption DEF CodeInv, Counted, Called
<1>2. QED
  BY <1>1 DEF CodeInv, Counted, Called

LEMMA PutCounts ==
  ASSUME asm \in AsRec, used \in Int, NEW b \in Buffer, PutMemory(b)
  PROVE  used' \in Int
<1>1. CapAfter(b) \in Nat /\ asm.cap[b] \in Nat
  BY RoomIs, Lens
<1>2. QED
  BY <1>1 DEF PutMemory, Take

\* A call that puts an element into a buffer.
LEMMA PutKeeps ==
  ASSUME CodeInv, Using, NEW b \in Buffer, NEW a \in AsRec, asm' = a, Linked(a),
         a.packed = asm.packed, a.cap = [asm.cap EXCEPT ![b] = CapAfter(b)],
         Len(a[b]) = Len(asm[b]) + 1, \A c \in Buffer \ {b} : Len(a[c]) = Len(asm[c]),
         PutMemory(b), Overrun(b), Called, UNCHANGED globals,
         alive' \subseteq Value \union {"upvalIdx", "localIdx", "varParamsIdx"}
  PROVE  CodeInv'
<1>1. Sound(asm) /\ asm \in AsRec
  BY UsingIs
<1>2. Roomy(a) /\ Sum3(a.cap) = Sum3(asm.cap) + (CapAfter(b) - asm.cap[b])
  BY <1>1, RoomForOne
<1>3. Sound(a)
  BY <1>2 DEF Sound
<1>4. Growth(a)
  <2>1. CapAfter(b) \in Nat /\ asm.cap[b] \in Nat /\ Sum3(asm.cap) \in Nat
    BY <1>1, RoomIs, Lens, UsingIs
  <2>2. Sum3(a.cap) - Sum3(asm.cap) = CapAfter(b) - asm.cap[b]
    BY <1>2, <2>1
  <2>3. QED
    BY <2>2 DEF Growth, PutMemory, Take
<1>5. Counted' /\ UNCHANGED <<code, call, roots, broken>>
  <2>1. used' \in Int /\ globals' \in Seq(Name)
    BY <1>1, PutCounts DEF CodeInv, Counted
  <2>2. ub' \in {"no", "null_write", "stale_label"}
    BY DEF Overrun
  <2>3. QED
    BY <2>1, <2>2, CalledCounts
<1>6. QED
  BY <1>3, <1>4, <1>5, UsedKeeps

LEMMA AddInstrKeeps ==
  ASSUME CodeInv, NEW form \in {"A", "B"}, AddInstr(form)
  PROVE  CodeInv'
<1> DEFINE x == [form |-> form, labels |-> asm.top]
           a == [Room("instrs") EXCEPT !.instrs = Append(@, x), !.top = {}]
<1>1. Using /\ asm' = a /\ PutMemory("instrs") /\ Overrun("instrs") /\ Called
      /\ UNCHANGED <<alive, globals>>
  BY DEF AddInstr
<1>2. Sound(asm) /\ asm \in AsRec /\ "instrs" \in Buffer
  BY <1>1, UsingIs DEF Buffer
<1>3. x \in Instr
  BY <1>2, Fields DEF Instr
<1>4. asm.instrs \in Seq(Instr) /\ asm.top \in SUBSET Nat
  BY <1>2, Fields
<1>5. /\ Append(asm.instrs, x) \in Seq(Instr)
      /\ Len(Append(asm.instrs, x)) = Len(asm.instrs) + 1
      /\ \A i \in DOMAIN Append(asm.instrs, x) :
           \/ i \in DOMAIN asm.instrs /\ Append(asm.instrs, x)[i] = asm.instrs[i]
           \/ Append(asm.instrs, x)[i] = x
  BY <1>3, <1>4
<1>6. Room("instrs") \in AsRec /\ Room("instrs").instrs = asm.instrs
  BY <1>2, RoomIs, RoomFields
<1>7. a \in AsRec
  BY <1>5, <1>6 DEF AsRec
<1>8. /\ a.instrs = Append(asm.instrs, x) /\ a.top = {} /\ a.labels = asm.labels
      /\ a.consts = asm.consts /\ a.packed = asm.packed
      /\ a.cap = [asm.cap EXCEPT !["instrs"] = CapAfter("instrs")]
  BY <1>2, <1>6, RoomFields DEF AsRec
<1>9. Linked(a)
  BY <1>2, <1>5, <1>8 DEF Linked, Sound
<1>10. Len(a["instrs"]) = Len(asm["instrs"]) + 1
  BY <1>5, <1>8
<1>11. \A c \in Buffer \ {"instrs"} : Len(a[c]) = Len(asm[c])
  BY <1>8 DEF Buffer
<1>12. alive' \subseteq Value \union {"upvalIdx", "localIdx", "varParamsIdx"}
  BY <1>1 DEF CodeInv, Counted
<1>13. QED
  BY <1>1, <1>2, <1>7, <1>8, <1>9, <1>10, <1>11, <1>12, PutKeeps

LEMMA AddConstKeeps ==
  ASSUME CodeInv, NEW v \in Value, AddConst(v)
  PROVE  CodeInv'
<1> DEFINE a == [Room("consts") EXCEPT !.consts = Append(@, v)]
<1>1. Using /\ asm' = a /\ PutMemory("consts") /\ Overrun("consts") /\ Called
      /\ globals' = globals /\ alive' = alive \union {v}
  BY DEF AddConst
<1>2. Sound(asm) /\ asm \in AsRec /\ "consts" \in Buffer
  BY <1>1, UsingIs DEF Buffer
<1>3. asm.consts \in Seq(Value)
  BY <1>2, Fields
<1>4. Append(asm.consts, v) \in Seq(Value)
      /\ Len(Append(asm.consts, v)) = Len(asm.consts) + 1
  BY <1>3
<1>5. Room("consts") \in AsRec /\ Room("consts").consts = asm.consts
  BY <1>2, RoomIs, RoomFields
<1>6. a \in AsRec
  BY <1>4, <1>5 DEF AsRec
<1>7. /\ a.consts = Append(asm.consts, v) /\ a.top = asm.top /\ a.labels = asm.labels
      /\ a.instrs = asm.instrs /\ a.packed = asm.packed
      /\ a.cap = [asm.cap EXCEPT !["consts"] = CapAfter("consts")]
  BY <1>2, <1>5, RoomFields DEF AsRec
<1>8. Linked(a)
  BY <1>2, <1>7 DEF Linked, Sound
<1>9. Len(a["consts"]) = Len(asm["consts"]) + 1
  BY <1>4, <1>7
<1>10. \A c \in Buffer \ {"consts"} : Len(a[c]) = Len(asm[c])
  BY <1>7 DEF Buffer
<1>11. alive' \subseteq Value \union {"upvalIdx", "localIdx", "varParamsIdx"}
  BY <1>1 DEF CodeInv, Counted
<1>12. QED
  BY <1>1, <1>2, <1>6, <1>7, <1>8, <1>9, <1>10, <1>11, PutKeeps

LEMMA AddLabelKeeps ==
  ASSUME CodeInv, NEW where \in 0 .. MaxCalls, NEW moves \in BOOLEAN, AddLabel(where, moves)
  PROVE  CodeInv'
<1> DEFINE l == Len(asm.labels) + 1
           now == asm.moved + (IF moves THEN 1 ELSE 0)
           x == [where |-> where, made |-> now]
           put == [Room("labels") EXCEPT !.labels = Append(@, x), !.moved = now]
           a == IF where = Len(asm.instrs)
                  THEN [put EXCEPT !.top = @ \union {l}]
                  ELSE [put EXCEPT !.instrs[where + 1].labels = @ \union {l}]
<1>1. Using /\ asm' = a /\ PutMemory("labels") /\ Overrun("labels") /\ Called
      /\ globals' = globals /\ alive' = alive /\ where \in 0 .. Len(asm.instrs)
  BY DEF AddLabel
<1> HIDE DEF now, x, l
<1>2. Sound(asm) /\ asm \in AsRec /\ "labels" \in Buffer
  BY <1>1, UsingIs DEF Buffer
<1>3. asm.labels \in Seq(Label) /\ asm.instrs \in Seq(Instr) /\ asm.moved \in Nat
      /\ asm.top \in SUBSET Nat
  BY <1>2, Fields
<1>4. now \in Nat /\ x \in Label
  <2>1. now \in Nat
    BY <1>3 DEF now
  <2>2. where \in Nat
    BY CodeAssumption
  <2>3. QED
    BY <2>1, <2>2 DEF Label, x
<1>5. /\ Append(asm.labels, x) \in Seq(Label)
      /\ Len(Append(asm.labels, x)) = Len(asm.labels) + 1
      /\ DOMAIN Append(asm.labels, x) = DOMAIN asm.labels \union {l}
      /\ l \in Nat
  BY <1>3, <1>4 DEF l
<1>6. Room("labels") \in AsRec /\ Room("labels").labels = asm.labels
  BY <1>2, RoomIs, RoomFields
<1>7. put \in AsRec
  BY <1>4, <1>5, <1>6 DEF AsRec
<1>8. /\ put.labels = Append(asm.labels, x) /\ put.top = asm.top
      /\ put.instrs = asm.instrs /\ put.consts = asm.consts /\ put.packed = asm.packed
      /\ put.cap = [asm.cap EXCEPT !["labels"] = CapAfter("labels")]
  BY <1>2, <1>6, RoomFields DEF AsRec
<1>9. /\ a \in AsRec /\ Linked(a) /\ Len(a.instrs) = Len(asm.instrs)
      /\ a.labels = Append(asm.labels, x) /\ a.consts = asm.consts
      /\ a.packed = asm.packed /\ a.cap = put.cap
  <2>1. CASE where = Len(asm.instrs)
    <3>1. a = [put EXCEPT !.top = asm.top \union {l}]
      BY <1>8, <2>1
    <3>2. a \in AsRec
      <4>1. asm.top \union {l} \in SUBSET Nat
        BY <1>3, <1>5
      <4>2. QED
        BY <1>7, <3>1, <4>1, Update
    <3>3. /\ a.top = asm.top \union {l} /\ a.instrs = asm.instrs
          /\ a.labels = put.labels /\ a.consts = put.consts
          /\ a.packed = put.packed /\ a.cap = put.cap
      BY <1>7, <1>8, <3>1 DEF AsRec
    <3>4. Linked(a)
      BY <1>2, <1>5, <1>8, <3>3 DEF Linked, Sound
    <3>5. QED
      BY <1>8, <3>2, <3>3, <3>4
  <2>2. CASE where # Len(asm.instrs)
    <3> DEFINE i == where + 1
               s == [asm.instrs EXCEPT ![i].labels = @ \union {l}]
    <3>1. a = [put EXCEPT !.instrs = s]
      BY <1>8, <2>2
    <3>2. i \in DOMAIN asm.instrs
      BY <1>1, <1>3, <2>2
    <3>3. asm.instrs[i] \in Instr
      BY <1>3, <3>2
    <3>4. [asm.instrs[i] EXCEPT !.labels = @ \union {l}] \in Instr
          /\ [asm.instrs[i] EXCEPT !.labels = @ \union {l}].labels = asm.instrs[i].labels \union {l}
      BY <1>5, <3>3 DEF Instr
    <3>5. /\ s = [asm.instrs EXCEPT ![i] = [asm.instrs[i] EXCEPT !.labels = @ \union {l}]]
          /\ DOMAIN s = DOMAIN asm.instrs
      OBVIOUS
    <3>6. s \in Seq(Instr) /\ Len(s) = Len(asm.instrs)
      BY <1>3, <3>2, <3>4, <3>5
    <3>7. \A k \in DOMAIN s : s[k].labels = IF k = i THEN asm.instrs[k].labels \union {l}
                                                    ELSE asm.instrs[k].labels
      BY <3>4, <3>5
    <3>8. a \in AsRec
      BY <1>7, <3>1, <3>6, Update
    <3>9. /\ a.top = asm.top /\ a.instrs = s
          /\ a.labels = put.labels /\ a.consts = put.consts
          /\ a.packed = put.packed /\ a.cap = put.cap
      BY <1>7, <1>8, <3>1 DEF AsRec
    <3>10. Linked(a)
      BY <1>2, <1>5, <1>8, <3>5, <3>7, <3>9 DEF Linked, Sound
    <3>11. QED
      BY <1>8, <3>6, <3>8, <3>9, <3>10
  <2>3. QED
    BY <2>1, <2>2
<1>10. Len(a["labels"]) = Len(asm["labels"]) + 1
  BY <1>5, <1>9
<1>11. \A c \in Buffer \ {"labels"} : Len(a[c]) = Len(asm[c])
  BY <1>9 DEF Buffer
<1>12. alive' \subseteq Value \union {"upvalIdx", "localIdx", "varParamsIdx"}
  BY <1>1 DEF CodeInv, Counted
<1>13. QED
  BY <1>1, <1>2, <1>8, <1>9, <1>10, <1>11, <1>12, PutKeeps

\* The index of names: a name that is there keeps its loc, a new one is last.
LEMMA WithNameIs ==
  ASSUME NEW n \in Name, NEW names \in Seq(Name)
  PROVE  /\ WithName(n, names) \in Seq(Name)
         /\ Len(names) <= Len(WithName(n, names))
         /\ \A i \in 1 .. Len(names) : WithName(n, names)[i] = names[i]
         /\ Loc(n, names) \in Nat /\ Loc(n, names) < Len(WithName(n, names))
         /\ WithName(n, names)[Loc(n, names) + 1] = n
<1> DEFINE w == WithName(n, names)
<1>1. /\ w \in Seq(Name) /\ Len(names) <= Len(w)
      /\ \A i \in 1 .. Len(names) : w[i] = names[i]
      /\ \E i \in DOMAIN w : w[i] = n
  <2>1. CASE n \in Range(names)
    <3>1. w = names
      BY <2>1 DEF WithName
    <3>2. \E i \in DOMAIN names : names[i] = n
      BY <2>1 DEF Range
    <3>3. QED
      BY <3>1, <3>2
  <2>2. CASE n \notin Range(names)
    <3>1. w = Append(names, n)
      BY <2>2 DEF WithName
    <3>2. QED
      BY <3>1
  <2>3. QED
    BY <2>1, <2>2
<1> HIDE DEF w
<1>2. PICK i \in DOMAIN w : w[i] = n /\ i = CHOOSE j \in DOMAIN w : w[j] = n
  BY <1>1
<1>3. DOMAIN w = 1 .. Len(w) /\ Len(w) \in Nat
  BY <1>1
<1>4. Loc(n, names) = i - 1
  BY <1>2 DEF Loc, LocOf, w
<1>5. i \in 1 .. Len(w)
  BY <1>3
<1>6. i - 1 \in Nat /\ i - 1 < Len(w) /\ (i - 1) + 1 = i
  BY <1>3, <1>5
<1>7. Loc(n, names) \in Nat /\ Loc(n, names) < Len(w) /\ w[Loc(n, names) + 1] = n
  BY <1>2, <1>4, <1>6
<1>8. QED
  BY <1>1, <1>7 DEF w

LEMMA MoreIs ==
  ASSUME NEW loc
  PROVE  More(loc) \in {0, 1} /\ (More(loc) = 1 <=> Fits(loc))
BY DEF More

\* A call that leaves the buffers as they are.
LEMMA SameBuffers ==
  ASSUME CodeInv, Using, NEW a \in AsRec, asm' = a, a.instrs = asm.instrs,
         a.labels = asm.labels, a.consts = asm.consts, a.top = asm.top,
         a.packed = asm.packed, a.cap = asm.cap, UNCHANGED <<code, call, roots, broken>>,
         held' = held, Counted'
  PROVE  CodeInv'
<1>1. Sound(asm) /\ asm \in AsRec /\ Sum3(asm.cap) \in Nat /\ held \in Nat
  BY UsingIs DEF CodeInv, Balanced
<1>2. Linked(a)
  BY <1>1 DEF Linked, Sound
<1>3. \A b \in Buffer : a[b] = asm[b]
  BY DEF Buffer
<1>4. Roomy(a)
  BY <1>1, <1>3 DEF Roomy, Sound
<1>5. Sound(a)
  BY <1>2, <1>4 DEF Sound
<1>6. Growth(a)
  <2>1. Sum3(a.cap) - Sum3(asm.cap) = 0
    BY <1>1
  <2>2. QED
    BY <2>1, <1>1 DEF Growth
<1>7. QED
  BY <1>5, <1>6, UsedKeeps

LEMMA AddUpvalKeeps ==
  ASSUME CodeInv, NEW n \in Name, AddUpval(n)
  PROVE  CodeInv'
<1> DEFINE w == WithName(n, asm.upvals)
           k == More(Loc(n, asm.upvals))
           a == [asm EXCEPT !.upvals = WithName(n, @), !.numUpvals = @ + k]
<1>1. Using /\ asm' = a /\ Called /\ UNCHANGED <<alive, held, used, globals, ub>>
  BY DEF AddUpval, memory
<1>2. asm \in AsRec
  BY <1>1, UsingIs
<1>3. asm.upvals \in Seq(Name) /\ asm.numUpvals \in Nat
  BY <1>2, Fields
<1>4. w \in Seq(Name)
  BY <1>3, WithNameIs
<1>5. asm.numUpvals + k \in Nat
  BY <1>3, MoreIs
<1> HIDE DEF k
<1>6. a = [asm EXCEPT !.upvals = w, !.numUpvals = asm.numUpvals + k]
  BY <1>2
<1> HIDE DEF w
<1>7. a \in AsRec
  BY <1>2, <1>4, <1>5, <1>6 DEF AsRec
<1>8. /\ a.instrs = asm.instrs /\ a.labels = asm.labels /\ a.consts = asm.consts
      /\ a.top = asm.top /\ a.packed = asm.packed /\ a.cap = asm.cap
  BY <1>2, <1>6 DEF AsRec
<1>9. Counted' /\ UNCHANGED <<code, call, roots, broken>>
  BY <1>1, CalledCounts DEF CodeInv, Counted
<1>10. QED
  BY <1>1, <1>7, <1>8, <1>9, SameBuffers

LEMMA AddLocalKeeps ==
  ASSUME CodeInv, NEW n \in Name, AddLocal(n)
  PROVE  CodeInv'
<1> DEFINE names == IF asm.scope = "global" THEN globals ELSE asm.locals
           k == More(Loc(n, names))
           w == WithName(n, names)
           counted == [asm EXCEPT !.numLocals = @ + k]
<1>1. Using /\ Called /\ UNCHANGED <<alive, held, used, ub>>
      /\ \/ asm.scope = "global" /\ globals' = w /\ asm' = counted
         \/ asm.scope = "local" /\ globals' = globals /\ asm' = [counted EXCEPT !.locals = w]
  BY DEF AddLocal, memory
<1>2. asm \in AsRec /\ globals \in Seq(Name)
  BY <1>1, UsingIs DEF CodeInv, Counted
<1>3. names \in Seq(Name) /\ asm.numLocals \in Nat
  BY <1>2, Fields
<1>4. w \in Seq(Name)
  BY <1>3, WithNameIs
<1>5. asm.numLocals + k \in Nat
  BY <1>3, MoreIs
<1> HIDE DEF k, w
<1>6. /\ counted \in AsRec
      /\ counted.instrs = asm.instrs /\ counted.labels = asm.labels
      /\ counted.consts = asm.consts /\ counted.top = asm.top
      /\ counted.packed = asm.packed /\ counted.cap = asm.cap
  BY <1>2, <1>5 DEF AsRec
<1>7. /\ asm' \in AsRec
      /\ asm'.instrs = asm.instrs /\ asm'.labels = asm.labels /\ asm'.consts = asm.consts
      /\ asm'.top = asm.top /\ asm'.packed = asm.packed /\ asm'.cap = asm.cap
  <2> HIDE DEF counted
  <2>1. CASE asm' = counted
    BY <1>6, <2>1
  <2>2. CASE asm' = [counted EXCEPT !.locals = w]
    <3>1. [counted EXCEPT !.locals = w] \in AsRec
      BY <1>4, <1>6 DEF AsRec
    <3>2. /\ [counted EXCEPT !.locals = w].instrs = counted.instrs
          /\ [counted EXCEPT !.locals = w].labels = counted.labels
          /\ [counted EXCEPT !.locals = w].consts = counted.consts
          /\ [counted EXCEPT !.locals = w].top = counted.top
          /\ [counted EXCEPT !.locals = w].packed = counted.packed
          /\ [counted EXCEPT !.locals = w].cap = counted.cap
      BY <1>6 DEF AsRec
    <3>3. QED
      BY <1>6, <2>2, <3>1, <3>2
  <2>3. QED
    BY <1>1, <2>1, <2>2
<1>8. globals' \in Seq(Name)
  BY <1>1, <1>2, <1>4
<1>9. Counted' /\ UNCHANGED <<code, call, roots, broken>>
  BY <1>1, <1>8, CalledCounts DEF CodeInv, Counted
<1>10. QED
  BY <1>1, <1>7, <1>9, SameBuffers

LEMMA AddParamKeeps ==
  ASSUME CodeInv, NEW n \in Name, NEW var \in BOOLEAN, AddParam(n, var)
  PROVE  CodeInv'
<1> DEFINE one == More(Loc(n, asm.locals))
           w == WithName(n, asm.locals)
           v == var /\ one = 1
           k == IF var THEN 0 ELSE one
           a == [asm EXCEPT !.locals = WithName(n, @), !.var = v, !.fixed = @ + k]
<1>1. Using /\ Called /\ UNCHANGED <<held, used, globals, ub>> /\ asm' = a
      /\ alive' = alive \union {i \in {"varParamsIdx"} : v}
  BY DEF AddParam
<1>2. asm \in AsRec
  BY <1>1, UsingIs
<1>3. asm.locals \in Seq(Name) /\ asm.fixed \in Nat
  BY <1>2, Fields
<1>4. w \in Seq(Name)
  BY <1>3, WithNameIs
<1>5. asm.fixed + k \in Nat
  BY <1>3, MoreIs
<1>6. v \in BOOLEAN
  OBVIOUS
<1> HIDE DEF k, v
<1>7. a = [asm EXCEPT !.locals = w, !.var = v, !.fixed = asm.fixed + k]
  BY <1>2
<1> HIDE DEF w
<1>8. a \in AsRec
  BY <1>2, <1>4, <1>5, <1>6, <1>7 DEF AsRec
<1>9. /\ a.instrs = asm.instrs /\ a.labels = asm.labels /\ a.consts = asm.consts
      /\ a.top = asm.top /\ a.packed = asm.packed /\ a.cap = asm.cap
  BY <1>2, <1>7 DEF AsRec
<1>10. alive' \subseteq Value \union {"upvalIdx", "localIdx", "varParamsIdx"}
  BY <1>1 DEF CodeInv, Counted
<1>11. Counted' /\ UNCHANGED <<code, call, roots, broken>>
  BY <1>1, <1>10, CalledCounts DEF CodeInv, Counted
<1>12. QED
  BY <1>1, <1>8, <1>9, <1>11, SameBuffers

\* A call that fails has counted the failure, and may have entered the name.
LEMMA FailureCounts ==
  ASSUME CodeInv, Fails, globals' \in Seq(Name),
         UNCHANGED <<alive, used, calls, roots, broken, ub>>
  PROVE  Counted'
<1>1. failures' \in 0 .. MaxFailures
  BY CodeAssumption DEF CodeInv, Counted, Fails
<1>2. QED
  BY <1>1 DEF CodeInv, Counted

LEMMA PutFailsKeeps ==
  ASSUME CodeInv, NEW b \in Buffer, PutFails(b)
  PROVE  CodeInv'
<1>1. /\ Using /\ Fails /\ asm' = asm /\ UNCHANGED <<code, call, roots, broken, held>>
      /\ UNCHANGED <<alive, used, calls, globals, ub>>
  BY DEF PutFails, memory, program
<1>2. asm \in AsRec
  BY <1>1, UsingIs
<1>3. Counted'
  BY <1>1, FailureCounts DEF CodeInv, Counted
<1>4. QED
  BY <1>1, <1>2, <1>3, SameBuffers

LEMMA NameFailsKeeps ==
  ASSUME CodeInv, NEW names \in {"upvals", "locals"}, NEW n \in Name, NameFails(names, n)
  PROVE  CodeInv'
<1>1. /\ Using /\ Fails /\ UNCHANGED <<code, call, roots, broken, held>>
      /\ UNCHANGED <<alive, used, calls, ub>>
      /\ \/ globals' = WithName(n, globals) /\ asm' = asm
         \/ globals' = globals /\ asm' = [asm EXCEPT !.upvals = WithName(n, @)]
         \/ globals' = globals /\ asm' = [asm EXCEPT !.locals = WithName(n, @)]
  BY DEF NameFails, memory, program
<1>2. asm \in AsRec /\ globals \in Seq(Name)
  BY <1>1, UsingIs DEF CodeInv, Counted
<1>3. /\ asm.upvals \in Seq(Name) /\ asm.locals \in Seq(Name)
  BY <1>2, Fields
<1>4. /\ WithName(n, globals) \in Seq(Name) /\ WithName(n, asm.upvals) \in Seq(Name)
      /\ WithName(n, asm.locals) \in Seq(Name)
  BY <1>2, <1>3, WithNameIs
<1>5. Counted'
  BY <1>1, <1>2, <1>4, FailureCounts
<1>6. /\ asm' \in AsRec
      /\ asm'.instrs = asm.instrs /\ asm'.labels = asm.labels /\ asm'.consts = asm.consts
      /\ asm'.top = asm.top /\ asm'.packed = asm.packed /\ asm'.cap = asm.cap
  <2>1. CASE asm' = asm
    BY <1>2, <2>1
  <2>2. CASE asm' = [asm EXCEPT !.upvals = WithName(n, @)]
    BY <1>2, <1>4, <2>2 DEF AsRec
  <2>3. CASE asm' = [asm EXCEPT !.locals = WithName(n, @)]
    BY <1>2, <1>4, <2>3 DEF AsRec
  <2>4. QED
    BY <1>1, <2>1, <2>2, <2>3
<1>7. QED
  BY <1>1, <1>5, <1>6, SameBuffers

-------------------------------------------------------------------------------
(* The construction of the two objects, their ends, and collections.       *)

\* What is held changes by what is owed.
Moves == held' = held + (Owed' - Owed)

LEMMA OwedNat == AsOK /\ CodeOK /\ CallOK => Owed \in Nat
<1>1. SUFFICES ASSUME AsOK, CodeOK, CallOK PROVE Owed \in Nat
  OBVIOUS
<1>2. OfAs \in Nat /\ OfCode \in Nat /\ Anchored \in Nat /\ Committed \in Nat
  BY <1>1, OwedIs
<1>3. QED
  BY <1>2 DEF Owed

LEMMA OwedNatNext == (AsOK /\ CodeOK /\ CallOK)' => (Owed \in Nat)'
BY OwedNat, PTL

LEMMA StepKeeps ==
  ASSUME CodeInv, AsOK', CodeOK', CallOK', Counted', Moves, broken' = broken
  PROVE  CodeInv'
<1>1. Owed \in Nat /\ held \in Nat /\ held >= Owed
  BY OwedNat DEF CodeInv, Balanced
<1>2. AsOK' /\ CodeOK' /\ CallOK' => Owed' \in Nat
  BY OwedNatNext
<1>3. held' \in Nat /\ held' >= Owed'
  BY <1>1, <1>2 DEF Moves
<1>4. ASSUME ~broken PROVE held' = Owed'
  <2>1. held = Owed
    BY <1>4 DEF CodeInv, Balanced
  <2>2. QED
    BY <1>1, <1>2, <2>1 DEF Moves
<1>5. QED
  BY <1>3, <1>4 DEF CodeInv, Balanced

LEMMA IdleOwes ==
  ASSUME call = Idle
  PROVE  Anchored = 0 /\ Committed = 0 /\ call.op = "idle"
BY DEF Anchored, Committed, Idle

LEMMA IdleOwesNext == call' = Idle => Anchored' = 0 /\ Committed' = 0
BY DEF Anchored, Committed, Idle

\* A function on the first n numbers is a sequence of n elements.
LEMMA FunctionLen ==
  ASSUME NEW n \in Nat, NEW S, NEW f \in [1 .. n -> S]
  PROVE  f \in Seq(S) /\ Len(f) = n /\ DOMAIN f = 1 .. n
OBVIOUS

LEMMA StartAssemblerKeeps ==
  ASSUME CodeInv, NEW scope \in {"local", "global"}, StartAssembler(scope)
  PROVE  CodeInv'
<1>1. /\ call.op = "idle" /\ asm = NoAs /\ code = NoCode /\ asm' = NoAs /\ code' = NoCode
      /\ call' = [op |-> "assembler", scope |-> scope, made |-> 0]
      /\ UNCHANGED <<held, used, globals, roots, failures, broken, ub>>
      /\ alive' = alive \union {"upvalIdx", "localIdx"} /\ calls' = 0
  BY DEF StartAssembler, Ready, faults
<1>2. call = Idle
  BY <1>1, Ops DEF CodeInv
<1>3. AsOK' /\ CodeOK' /\ CallOK'
  BY <1>1 DEF AsOK, CodeOK, CallOK, InAssembler
<1>4. Counted'
  BY <1>1, CodeAssumption DEF CodeInv, Counted
<1>5. Owed = 0
  BY <1>1, <1>2, IdleOwes DEF Owed, OfAs, OfCode
<1>6. Owed' = 0
  <2>1. OfAs' = 0 /\ OfCode' = 0 /\ Anchored' = 0
    BY <1>1 DEF OfAs, OfCode, Anchored
  <2>2. Committed' = 0 * InitCap /\ InitCap \in Nat
    BY <1>1, CodeAssumption DEF Committed
  <2>3. QED
    BY <2>1, <2>2 DEF Owed
<1>7. Moves
  BY <1>1, <1>5, <1>6 DEF Moves, CodeInv, Balanced
<1>8. QED
  BY <1>1, <1>3, <1>4, <1>7, StepKeeps

LEMMA StartHostKeeps ==
  ASSUME CodeInv, NEW info \in Infos, StartHost(info)
  PROVE  CodeInv'
<1>1. /\ call.op = "idle" /\ asm = NoAs /\ code = NoCode /\ asm' = NoAs /\ code' = NoCode
      /\ call' = [op |-> "host", stage |-> "params", info |-> info]
      /\ UNCHANGED <<held, used, globals, roots, calls, failures, broken, ub>>
      /\ alive' = alive \union {"upvalIdx", "localIdx"}
  BY DEF StartHost, Ready, faults, program
<1>2. call = Idle
  BY <1>1, Ops DEF CodeInv
<1>3. AsOK' /\ CodeOK' /\ CallOK'
  BY <1>1 DEF AsOK, CodeOK, CallOK, InHost
<1>4. Counted'
  BY <1>1 DEF CodeInv, Counted
<1>5. Owed = 0
  BY <1>1, <1>2, IdleOwes DEF Owed, OfAs, OfCode
<1>6. Owed' = 0
  BY <1>1 DEF OfAs, OfCode, Anchored, Committed, Owed
<1>7. Moves
  BY <1>1, <1>5, <1>6 DEF Moves, CodeInv, Balanced
<1>8. QED
  BY <1>1, <1>3, <1>4, <1>7, StepKeeps

\* The code object of a host function owns no memory.
LEMMA CommitHostKeeps ==
  ASSUME CodeInv, call.op = "host", NEW var \in BOOLEAN, CommitHost(var),
         UNCHANGED <<asm, held, used, globals, calls, failures, broken, ub>>,
         alive' \subseteq Value \union {"upvalIdx", "localIdx", "varParamsIdx"}
  PROVE  CodeInv'
<1>1. asm = NoAs /\ code = NoCode /\ asm' = NoAs /\ call' = Idle /\ code' = HostCode(var)
  BY Ops DEF CodeInv, InHost, CommitHost
<1>2. /\ code'.kind = "host" /\ code'.var = var /\ code'.consts = <<>>
      /\ code'.labels = <<>> /\ code'.words = <<>>
  BY <1>1 DEF HostCode
<1>3. CodeOK'
  BY <1>2 DEF CodeOK
<1>4. AsOK' /\ CallOK'
  BY <1>1 DEF AsOK, CallOK
<1>5. Counted'
  BY DEF CodeInv, Counted, CommitHost
<1>6. Owed = 0
  BY <1>1 DEF Owed, OfAs, OfCode, Anchored, Committed
<1>7. Owed' = 0
  <2>1. OfAs' = 0 /\ Anchored' = 0 /\ Committed' = 0
    BY <1>1, IdleOwesNext DEF OfAs
  <2>2. OfCode' = 0
    BY <1>2 DEF OfCode
  <2>3. QED
    BY <2>1, <2>2 DEF Owed
<1>8. Moves
  BY <1>6, <1>7 DEF Moves, CodeInv, Balanced
<1>9. QED
  BY <1>3, <1>4, <1>5, <1>8, StepKeeps

LEMMA HostIs ==
  ASSUME CodeInv, call.op = "host"
  PROVE  call.info \in Infos /\ call.info.variadic \in BOOLEAN /\ call.info.upvals \in BOOLEAN
<1>1. call.info \in Infos
  BY Ops DEF CodeInv, InHost
<1>2. QED
  BY <1>1, CodeAssumption DEF Info

LEMMA ParseParamsKeeps ==
  ASSUME CodeInv, ParseParams
  PROVE  CodeInv'
<1>1. /\ call.op = "host" /\ call.stage = "params"
      /\ alive' = alive \union {i \in {"varParamsIdx"} : call.info.variadic}
      /\ UNCHANGED <<asm, held, used, globals, calls, failures, broken, ub>>
  BY DEF ParseParams, faults
<1>2. alive' \subseteq Value \union {"upvalIdx", "localIdx", "varParamsIdx"}
  BY <1>1 DEF CodeInv, Counted
<1>3. CASE CommitHost(call.info.variadic)
  BY <1>1, <1>2, <1>3, HostIs, CommitHostKeeps
<1>4. CASE call.info.upvals /\ call' = [call EXCEPT !.stage = "upvals"] /\ UNCHANGED <<code, roots>>
  <2>1. InHost /\ asm = NoAs /\ code = NoCode
    BY <1>1, Ops DEF CodeInv, InHost
  <2>2. call' = [op |-> "host", stage |-> "upvals", info |-> call.info]
    BY <1>4, <2>1 DEF InHost
  <2>3. InHost'
    BY <1>1, <1>4, <2>1, <2>2, HostIs DEF InHost
  <2>4. AsOK' /\ CodeOK' /\ CallOK' /\ Counted'
    BY <1>1, <1>2, <1>4, <2>3 DEF CodeInv, AsOK, CodeOK, CallOK, Counted, InHost
  <2>5. Owed = 0
    BY <1>1, <2>1 DEF Owed, OfAs, OfCode, Anchored, Committed
  <2>6. Owed' = 0
    BY <1>1, <1>4, <2>1, <2>2 DEF Owed, OfAs, OfCode, Anchored, Committed
  <2>7. Moves
    BY <1>1, <2>5, <2>6 DEF Moves, CodeInv, Balanced
  <2>8. QED
    BY <1>1, <2>4, <2>7, StepKeeps
<1>5. QED
  BY <1>3, <1>4 DEF ParseParams

LEMMA ParseUpvalsKeeps ==
  ASSUME CodeInv, ParseUpvals
  PROVE  CodeInv'
<1>1. alive' \subseteq Value \union {"upvalIdx", "localIdx", "varParamsIdx"}
  BY DEF ParseUpvals, memory, CodeInv, Counted
<1>2. QED
  BY <1>1, HostIs, CommitHostKeeps DEF ParseUpvals, memory, faults

LEMMA ThreeTimes ==
  ASSUME NEW c \in Nat
  PROVE  /\ 0 * c = 0 /\ 1 * c = c /\ 2 * c = c + c /\ c \in Int
         /\ \A h \in Nat : h + (c - 0) = h + c /\ h + ((c + c) - c) = h + c
                           /\ h + ((c + c + c) - (c + c)) = h + c
OBVIOUS

LEMMA InitBufKeeps ==
  ASSUME CodeInv, InitBuf
  PROVE  CodeInv'
<1>1. /\ call.op = "assembler" /\ held' = held + InitCap /\ used' = used + InitCap
      /\ UNCHANGED <<code, alive, globals, calls, failures, broken, ub>>
  BY DEF InitBuf, Take, faults
<1>2. InAssembler /\ asm = NoAs /\ code = NoCode /\ InitCap \in Nat
      /\ call.scope \in {"local", "global"} /\ call.made \in 0 .. 2 /\ held \in Nat
  BY <1>1, Ops, CodeAssumption DEF CodeInv, InAssembler, Balanced
<1>3. Owed = call.made * InitCap
  <2>1. OfAs = 0 /\ OfCode = 0 /\ Anchored = 0
    BY <1>1, <1>2 DEF OfAs, OfCode, Anchored
  <2>2. Committed = call.made * InitCap
    BY <1>1 DEF Committed
  <2>3. call.made * InitCap \in Nat
    BY <1>2
  <2>4. QED
    BY <2>1, <2>2, <2>3 DEF Owed
<1>4. used' \in Int
  BY <1>1, <1>2 DEF CodeInv, Counted
<1>5. CodeOK'
  BY <1>1 DEF CodeInv, CodeOK
<1>6. CASE /\ call.made < 2 /\ call' = [call EXCEPT !.made = @ + 1] /\ UNCHANGED <<asm, roots>>
  <2>1. call' = [op |-> "assembler", scope |-> call.scope, made |-> call.made + 1]
    BY <1>2, <1>6 DEF InAssembler
  <2>2. call.made + 1 \in 0 .. 2
    BY <1>2, <1>6
  <2>3. AsOK' /\ CallOK' /\ Counted'
    BY <1>1, <1>2, <1>4, <1>6, <2>1, <2>2
    DEF CodeInv, AsOK, CallOK, InAssembler, Counted
  <2>4. Owed' = (call.made + 1) * InitCap
    <3>1. OfAs' = 0 /\ OfCode' = 0 /\ Anchored' = 0
      BY <1>1, <1>2, <1>6, <2>1 DEF OfAs, OfCode, Anchored
    <3>2. Committed' = (call.made + 1) * InitCap
      BY <2>1 DEF Committed
    <3>3. (call.made + 1) * InitCap \in Nat
      BY <1>2
    <3>4. QED
      BY <3>1, <3>2, <3>3 DEF Owed
  <2>5. Moves
    <3>1. CASE call.made = 0
      BY <1>1, <1>2, <1>3, <2>4, <3>1, ThreeTimes DEF Moves
    <3>2. CASE call.made = 1
      BY <1>1, <1>2, <1>3, <2>4, <3>2, ThreeTimes DEF Moves
    <3>3. QED
      BY <1>2, <1>6, <3>1, <3>2
  <2>6. QED
    BY <1>1, <1>5, <2>3, <2>5, StepKeeps
<1>7. CASE /\ call.made = 2
           /\ call' = Idle /\ asm' = Fresh(call.scope) /\ roots' = roots \union {"asm"}
  <2> DEFINE a == Fresh(call.scope)
             new == [b \in Buffer |-> InitCap]
  <2>1. new \in [Buffer -> Nat]
    BY <1>2
  <2>2. a \in AsRec /\ a.cap = new /\ a.instrs = <<>> /\ a.labels = <<>> /\ a.consts = <<>>
        /\ a.top = {}
    BY <1>2, <2>1 DEF Fresh, AsRec, Buffer
  <2>3. Linked(a)
    BY <2>2 DEF Linked
  <2>4. Roomy(a)
    <3>1. \A b \in Buffer : a[b] = <<>>
      BY <2>2 DEF Buffer
    <3>2. \A b \in Buffer : a.cap[b] = InitCap
      BY <2>2
    <3>3. InitCap >= 1 /\ 0 <= InitCap
      BY CodeAssumption
    <3>4. QED
      BY <3>1, <3>2, <3>3 DEF Roomy
  <2>5. AsOK' /\ CallOK' /\ a # NoAs
    BY <1>7, <2>2, <2>3, <2>4, AnAssembler DEF AsOK, Sound, CallOK
  <2>6. Counted'
    BY <1>1, <1>4, <1>7 DEF CodeInv, Counted
  <2>7. Owed' = InitCap + InitCap + InitCap
    <3>1. OfAs' = Sum3(a.cap)
      BY <1>7, <2>5 DEF OfAs
    <3>2. Sum3(a.cap) = InitCap + InitCap + InitCap
      BY <2>2 DEF Sum3, Buffer
    <3>3. OfCode' = 0 /\ Anchored' = 0 /\ Committed' = 0
      BY <1>1, <1>2, <1>7, IdleOwesNext DEF OfCode
    <3>4. QED
      BY <1>2, <3>1, <3>2, <3>3 DEF Owed
  <2>8. Moves
    BY <1>1, <1>2, <1>3, <1>7, <2>7, ThreeTimes DEF Moves
  <2>9. QED
    BY <1>1, <1>5, <2>5, <2>6, <2>8, StepKeeps
<1>8. QED
  BY <1>6, <1>7 DEF InitBuf

\* A step of makeByteCode from one stage to the next.
LEMMA MakeKeeps ==
  ASSUME CodeInv, asm # NoAs, "asm" \in roots, code = NoCode, AsOK', asm' # NoAs,
         Make(call'), call'.stage # "packed" => (asm'.packed => Reuse), NEW n \in Int,
         Take(n), Owed' = Owed + n, UNCHANGED <<code, roots, alive, globals, calls, failures, broken>>,
         ub' \in {"no", "null_write", "stale_label"}
  PROVE  CodeInv'
<1>1. InMake'
  BY DEF InMake
<1>2. CodeOK' /\ CallOK'
  BY <1>1 DEF CodeInv, CodeOK, CallOK
<1>3. Counted'
  BY DEF CodeInv, Counted, Take
<1>4. Moves
  <2>1. Owed \in Nat /\ held \in Nat
    BY OwedNat DEF CodeInv, Balanced
  <2>2. QED
    BY <2>1 DEF Moves, Take
<1>5. QED
  BY <1>2, <1>3, <1>4, StepKeeps

\* What is owed while code is made: the four parts.
LEMMA MakeOwes ==
  ASSUME CodeInv, call.op = "make"
  PROVE  /\ Make(call) /\ InMake /\ Sound(asm) /\ asm \in AsRec /\ asm # NoAs
         /\ "asm" \in roots /\ code = NoCode /\ Sum3(asm.cap) \in Nat
         /\ OfAs = Sum3(asm.cap) /\ OfCode = 0
         /\ call.stage # "packed" => /\ call.consts = <<>> /\ (asm.packed => Reuse)
                                     /\ Anchored = Len(call.labels) /\ Committed = call.cap
         /\ call.stage = "packed" =>
              Anchored = 0 /\ Committed = call.cap + (Len(call.consts) + Len(call.labels))
<1>1. InMake /\ Make(call) /\ asm # NoAs /\ "asm" \in roots /\ code = NoCode
      /\ (call.stage # "packed" => call.consts = <<>> /\ (asm.packed => Reuse))
      /\ call.cap \in Nat
  BY Ops DEF CodeInv, InMake, Make
<1>2. Sound(asm) /\ asm \in AsRec /\ Sum3(asm.cap) \in Nat
  BY <1>1, AsIs DEF CodeInv
<1>3. OfAs = Sum3(asm.cap) /\ OfCode = 0
  BY <1>1 DEF OfAs, OfCode
<1>4. ASSUME call.stage # "packed"
      PROVE  Anchored = Len(call.labels) /\ Committed = call.cap
  <2>1. Committed = call.cap + 0
    BY <1>4 DEF Committed
  <2>2. QED
    BY <1>1, <1>4, <2>1 DEF Anchored
<1>5. ASSUME call.stage = "packed"
      PROVE  Anchored = 0 /\ Committed = call.cap + (Len(call.consts) + Len(call.labels))
  BY <1>5 DEF Anchored, Committed
<1>6. QED
  BY <1>1, <1>2, <1>3, <1>4, <1>5

\* The same after a step.
LEMMA MakeOwesNext ==
  ASSUME call'.op = "make", asm' # NoAs, code' = NoCode, call'.cap \in Nat
  PROVE  /\ OfAs' = Sum3(asm'.cap) /\ OfCode' = 0
         /\ call'.stage # "packed" => Anchored' = Len(call'.labels) /\ Committed' = call'.cap
         /\ call'.stage = "packed" =>
              /\ Anchored' = 0
              /\ Committed' = call'.cap + (Len(call'.consts) + Len(call'.labels))
<1>1. OfAs' = Sum3(asm'.cap) /\ OfCode' = 0
  BY DEF OfAs, OfCode
<1>2. ASSUME call'.stage # "packed"
      PROVE  Anchored' = Len(call'.labels) /\ Committed' = call'.cap
  <2>1. Committed' = call'.cap + 0
    BY <1>2 DEF Committed
  <2>2. QED
    BY <1>2, <2>1 DEF Anchored
<1>3. ASSUME call'.stage = "packed"
      PROVE  Anchored' = 0 /\ Committed' = call'.cap + (Len(call'.consts) + Len(call'.labels))
  BY <1>3 DEF Anchored, Committed
<1>4. QED
  BY <1>1, <1>2, <1>3

LEMMA StartCodeKeeps ==
  ASSUME CodeInv, StartCode
  PROVE  CodeInv'
<1> DEFINE f == [l \in DOMAIN asm.labels |-> Unplaced]
<1>1. /\ Using /\ code = NoCode /\ Take(Len(asm.labels))
      /\ call' = [op |-> "make", stage |-> "init", i |-> 0, words |-> <<>>, cap |-> 0,
                  labels |-> f, consts |-> <<>>]
      /\ UNCHANGED <<asm, code, alive, globals, roots, calls, failures, broken, ub>>
  BY DEF StartCode, program, faults
<1>2. call = Idle /\ Sound(asm) /\ asm \in AsRec /\ Anchored = 0 /\ Committed = 0
      /\ Sum3(asm.cap) \in Nat /\ (asm.packed => Reuse) /\ asm # NoAs /\ "asm" \in roots
  BY <1>1, UsingIs DEF Using
<1>3. asm.labels \in Seq(Label)
  BY <1>2, Fields
<1>4. Len(asm.labels) \in Nat /\ DOMAIN asm.labels = 1 .. Len(asm.labels)
  BY <1>3
<1>5. Len(f) = Len(asm.labels) /\ DOMAIN f = 1 .. Len(asm.labels)
  <2>1. f \in [1 .. Len(asm.labels) -> {Unplaced}]
    BY <1>4
  <2>2. QED
    BY <1>4, <2>1, FunctionLen
<1> HIDE DEF f
<1>6. Make(call')
  BY <1>1, <1>4, <1>5 DEF Make
<1>7. Owed' = Owed + Len(asm.labels)
  <2>1. OfAs = Sum3(asm.cap) /\ OfCode = 0
    BY <1>1, <1>2 DEF OfAs, OfCode
  <2>2. Owed = Sum3(asm.cap)
    BY <1>2, <2>1 DEF Owed
  <2>3. /\ call'.op = "make" /\ call'.stage # "packed" /\ call'.cap = 0
        /\ Len(call'.labels) = Len(asm.labels)
    BY <1>1, <1>5
  <2>4. OfAs' = Sum3(asm.cap) /\ OfCode' = 0 /\ Anchored' = Len(asm.labels) /\ Committed' = 0
    BY <1>1, <1>2, <2>3, MakeOwesNext
  <2>5. QED
    BY <1>2, <1>4, <2>2, <2>4 DEF Owed
<1>8. AsOK' /\ ub' \in {"no", "null_write", "stale_label"}
  BY <1>1 DEF CodeInv, AsOK, Counted
<1>9. QED
  BY <1>1, <1>2, <1>4, <1>6, <1>7, <1>8, MakeKeeps

\* A step of makeByteCode that leaves the assembler and the labels.
LEMMA WordsKeep ==
  ASSUME CodeInv, call.op = "make", call.stage # "packed", NEW c \in Nat,
         Take(c - call.cap), call'.op = "make", call'.stage # "packed", call'.cap = c,
         Make(call'), Len(call'.labels) = Len(call.labels),
         UNCHANGED <<asm, code, roots, alive, globals, calls, failures, broken>>,
         ub' \in {"no", "null_write", "stale_label"}
  PROVE  CodeInv'
<1>1. /\ Make(call) /\ asm # NoAs /\ "asm" \in roots /\ code = NoCode /\ Sum3(asm.cap) \in Nat
      /\ (asm.packed => Reuse) /\ OfAs = Sum3(asm.cap) /\ OfCode = 0
      /\ Anchored = Len(call.labels) /\ Committed = call.cap
  BY MakeOwes
<1>2. call.cap \in Nat /\ Len(call.labels) \in Nat
  BY <1>1 DEF Make
<1>3. OfAs' = Sum3(asm.cap) /\ OfCode' = 0 /\ Anchored' = Len(call.labels) /\ Committed' = c
  BY <1>1, MakeOwesNext
<1> DEFINE s == Sum3(asm.cap)
           n == Len(call.labels)
           k == call.cap
<1>4. s \in Nat /\ n \in Nat /\ k \in Nat
  BY <1>1, <1>2
<1>5. OfAs = s /\ Anchored = n /\ Committed = k /\ OfAs' = s /\ Anchored' = n
  BY <1>1, <1>3
<1> HIDE DEF s, n, k
<1>6. Owed' = Owed + (c - call.cap) /\ c - call.cap \in Int
  <2>1. Owed = s + n + k
    BY <1>1, <1>4, <1>5 DEF Owed
  <2>2. Owed' = s + n + c
    BY <1>3, <1>4, <1>5 DEF Owed
  <2>3. Owed' = Owed + (c - k) /\ c - k \in Int
    BY <1>4, <2>1, <2>2
  <2>4. QED
    BY <2>3 DEF k
<1>7. AsOK'
  BY DEF CodeInv, AsOK
<1>8. QED
  BY <1>1, <1>6, <1>7, MakeKeeps

LEMMA InitWordsKeeps ==
  ASSUME CodeInv, InitWords
  PROVE  CodeInv'
<1>1. /\ call.op = "make" /\ call.stage = "init" /\ Take(InitCap) /\ ub = "no"
      /\ call' = [call EXCEPT !.stage = "emit", !.cap = InitCap]
      /\ UNCHANGED <<asm, code, alive, globals, roots, calls, failures, broken, ub>>
  BY DEF InitWords, Making, program, faults
<1>2. Make(call) /\ InitCap \in Nat
  BY <1>1, MakeOwes, CodeAssumption
<1>3. call.cap = 0 /\ InitCap = InitCap - call.cap
  BY <1>1, <1>2 DEF Make
<1>4. call' = [op |-> "make", stage |-> "emit", i |-> call.i, words |-> call.words,
               cap |-> InitCap, labels |-> call.labels, consts |-> call.consts]
  BY <1>1, <1>2 DEF Make
<1>5. Make(call') /\ call'.labels = call.labels /\ call'.cap = InitCap /\ call'.op = "make"
      /\ call'.stage # "packed"
  BY <1>1, <1>2, <1>4 DEF Make
<1>6. QED
  BY <1>1, <1>2, <1>3, <1>5, WordsKeep

LEMMA AllocCodeKeeps ==
  ASSUME CodeInv, AllocCode
  PROVE  CodeInv'
<1>1. /\ call.op = "make" /\ call.stage = "emit" /\ ub = "no"
      /\ call' = [call EXCEPT !.stage = "object"] /\ held' = held /\ used' = used
      /\ UNCHANGED <<asm, code, alive, globals, roots, calls, failures, broken, ub>>
  BY DEF AllocCode, Making, memory, program, faults
<1>2. Make(call)
  BY <1>1, MakeOwes
<1>3. call.cap \in Nat /\ Take(call.cap - call.cap)
  <2>1. held \in Int /\ used \in Int /\ call.cap \in Nat
    BY <1>2 DEF CodeInv, Balanced, Counted, Make
  <2>2. QED
    BY <1>1, <2>1 DEF Take
<1>4. call' = [op |-> "make", stage |-> "object", i |-> call.i, words |-> call.words,
               cap |-> call.cap, labels |-> call.labels, consts |-> call.consts]
  BY <1>1, <1>2 DEF Make
<1>5. Make(call') /\ call'.labels = call.labels /\ call'.cap = call.cap /\ call'.op = "make"
      /\ call'.stage # "packed"
  BY <1>1, <1>2, <1>4 DEF Make
<1>6. QED
  BY <1>1, <1>3, <1>5, WordsKeep

LEMMA EmitWordKeeps ==
  ASSUME CodeInv, NEW wraps \in BOOLEAN, EmitWord(wraps)
  PROVE  CodeInv'
<1> DEFINE cap == IF Len(call.words) >= call.cap THEN call.cap * 2 ELSE call.cap
           w == WordOf(call.i, wraps)
           f == Placed(call.i)
           j == WordEnd(call.i)
<1>1. /\ call.op = "make" /\ call.stage = "emit" /\ Take(cap - call.cap)
      /\ call' = [call EXCEPT !.cap = cap, !.words = Append(@, w), !.labels = f, !.i = j]
      /\ UNCHANGED <<asm, code, alive, globals, roots, calls, failures, broken>>
      /\ ub' \in {"no", "null_write", "stale_label"}
  BY DEF EmitWord, Making, program
<1>2. Make(call)
  BY <1>1, MakeOwes
<1>3. cap \in Nat
  <2>1. call.cap \in Nat /\ cap \in {call.cap * 2, call.cap}
    BY <1>2 DEF Make
  <2>2. call.cap * 2 \in Nat
    BY <2>1
  <2>3. QED
    BY <2>1, <2>2
<1> HIDE DEF cap
<1>4. Len(f) = Len(call.labels) /\ DOMAIN f = 1 .. Len(f) /\ Len(f) \in Nat
  <2> DEFINE S == {f[l] : l \in 1 .. Len(call.labels)}
  <2>1. DOMAIN call.labels = 1 .. Len(call.labels) /\ Len(call.labels) \in Nat
    BY <1>2 DEF Make
  <2>2. f \in [1 .. Len(call.labels) -> S]
    BY <2>1 DEF Placed
  <2> HIDE DEF f, S
  <2>3. QED
    BY <2>1, <2>2, FunctionLen
<1>5. \E T : Append(call.words, w) \in Seq(T)
  <2>1. PICK S : call.words \in Seq(S)
    BY <1>2 DEF Make
  <2>2. call.words \in Seq(S \union {w})
    BY <2>1
  <2>3. Append(call.words, w) \in Seq(S \union {w})
    BY <2>2
  <2>4. QED
    BY <2>3
<1> HIDE DEF f, w, j
<1>6. call' = [op |-> "make", stage |-> "emit", i |-> j, words |-> Append(call.words, w),
               cap |-> cap, labels |-> f, consts |-> call.consts]
  BY <1>1, <1>2 DEF Make
<1>7. call.consts \in Seq(Value) /\ call.consts = <<>>
  BY <1>1, <1>2 DEF Make
<1>8. Make(call') /\ call'.labels = f /\ call'.cap = cap /\ call'.op = "make"
      /\ call'.stage # "packed"
  BY <1>3, <1>4, <1>5, <1>6, <1>7 DEF Make
<1>9. QED
  BY <1>1, <1>3, <1>4, <1>8, WordsKeep

LEMMA PackConstsKeeps ==
  ASSUME CodeInv, PackConsts
  PROVE  CodeInv'
<1> DEFINE cap == [asm.cap EXCEPT !["consts"] = 0]
           a == [asm EXCEPT !.consts = <<>>, !.cap = cap, !.packed = TRUE]
<1>1. /\ call.op = "make" /\ call.stage = "object" /\ ub = "no"
      /\ call' = [call EXCEPT !.stage = "packed", !.consts = asm.consts] /\ asm' = a
      /\ Take(Len(asm.consts) - asm.cap["consts"])
      /\ UNCHANGED <<code, alive, globals, roots, calls, failures, broken, ub>>
  BY DEF PackConsts, Making, program, faults, PackMemory
<1>2. /\ Make(call) /\ asm \in AsRec /\ Linked(asm) /\ asm # NoAs /\ "asm" \in roots
      /\ code = NoCode /\ Sum3(asm.cap) \in Nat /\ OfAs = Sum3(asm.cap) /\ OfCode = 0
      /\ Anchored = Len(call.labels) /\ Committed = call.cap
  BY <1>1, MakeOwes DEF Sound
<1>3. asm.cap \in [Buffer -> Nat] /\ asm.consts \in Seq(Value)
  BY <1>2, Fields
<1>4. cap \in [Buffer -> Nat]
  BY <1>3 DEF Buffer
<1>5. asm.cap["consts"] \in Nat /\ Len(asm.consts) \in Nat
  BY <1>3 DEF Buffer
<1>6. Sum3(cap) = Sum3(asm.cap) - asm.cap["consts"] + 0
  BY <1>3, SumIs DEF Buffer
<1> HIDE DEF cap
<1>7. /\ a \in AsRec /\ a.packed = TRUE /\ a.cap = cap /\ a.instrs = asm.instrs
      /\ a.labels = asm.labels /\ a.top = asm.top
  <2>1. <<>> \in Seq(Value)
    OBVIOUS
  <2>2. QED
    BY <1>2, <1>4, <2>1 DEF AsRec
<1> HIDE DEF a
<1>8. AsOK' /\ asm' # NoAs
  BY <1>1, <1>2, <1>7, AnAssembler DEF AsOK, Sound, Linked, Roomy
<1>9. call' = [op |-> "make", stage |-> "packed", i |-> call.i, words |-> call.words,
               cap |-> call.cap, labels |-> call.labels, consts |-> asm.consts]
  BY <1>1, <1>2 DEF Make
<1>10. Make(call') /\ call'.stage = "packed" /\ call'.op = "make" /\ call'.cap = call.cap
       /\ call'.labels = call.labels /\ call'.consts = asm.consts
  BY <1>2, <1>3, <1>9 DEF Make
<1>11. Owed' = Owed + (Len(asm.consts) - asm.cap["consts"])
  <2> DEFINE s == Sum3(asm.cap)
             t == Sum3(cap)
             n == Len(call.labels)
             k == call.cap
             m == Len(asm.consts)
             q == asm.cap["consts"]
  <2>1. s \in Nat /\ t \in Nat /\ n \in Nat /\ k \in Nat /\ m \in Nat /\ q \in Nat
    BY <1>2, <1>4, <1>5, SumIs DEF Make
  <2>2. /\ OfAs = s /\ OfCode = 0 /\ Anchored = n /\ Committed = k
    BY <1>2
  <2>3. OfAs' = t /\ OfCode' = 0 /\ Anchored' = 0 /\ Committed' = k + (m + n)
    BY <1>1, <1>2, <1>7, <1>8, <1>10, <2>1, MakeOwesNext
  <2>4. t = s - q + 0
    BY <1>6
  <2> HIDE DEF s, t, n, k, m, q
  <2>5. Owed = s + n + k
    BY <2>1, <2>2 DEF Owed
  <2>6. Owed' = t + (k + (m + n))
    BY <2>1, <2>3 DEF Owed
  <2>7. Owed' = Owed + (m - q)
    BY <2>1, <2>4, <2>5, <2>6
  <2>8. QED
    BY <2>7 DEF m, q
<1>12. QED
  BY <1>1, <1>2, <1>5, <1>8, <1>10, <1>11, MakeKeeps DEF CodeInv, Counted

LEMMA PackWordsKeeps ==
  ASSUME CodeInv, PackWords
  PROVE  CodeInv'
<1>1. /\ call.op = "make" /\ call.stage = "packed" /\ ub = "no"
      /\ code'.kind = "byte" /\ code'.var = asm.var /\ code'.consts = call.consts
      /\ code'.labels = call.labels /\ code'.words = call.words /\ code' # NoCode
      /\ roots' = roots \union {"code"} /\ call' = Idle
      /\ Take(Len(call.words) - call.cap)
      /\ UNCHANGED <<asm, alive, globals, calls, failures, broken, ub>>
  BY DEF PackWords, Making, faults, PackMemory, NoCode
<1>2. /\ Make(call) /\ asm \in AsRec /\ asm # NoAs /\ Sum3(asm.cap) \in Nat
      /\ OfAs = Sum3(asm.cap) /\ OfCode = 0
      /\ Anchored = 0 /\ Committed = call.cap + (Len(call.consts) + Len(call.labels))
  BY <1>1, MakeOwes
<1>3. /\ call.cap \in Nat /\ Len(call.labels) \in Nat /\ Len(call.words) \in Nat
      /\ Len(call.consts) \in Nat
  BY <1>1, <1>2, MakeOwes, InMakeIs
<1>4. CodeOK'
  BY <1>1, <1>2, <1>3, Fields DEF CodeOK, Make
<1>5. AsOK' /\ CallOK'
  BY <1>1 DEF CodeInv, AsOK, CallOK
<1>6. Counted'
  <2>1. used' \in Int
    BY <1>1, <1>3 DEF CodeInv, Counted, Take
  <2>2. QED
    BY <1>1, <2>1 DEF CodeInv, Counted
<1>7. Moves
  <2> DEFINE s == Sum3(asm.cap)
             n == Len(call.labels)
             k == call.cap
             m == Len(call.consts)
             q == Len(call.words)
  <2>1. s \in Nat /\ n \in Nat /\ k \in Nat /\ m \in Nat /\ q \in Nat
    BY <1>2, <1>3
  <2>2. OfAs = s /\ OfCode = 0 /\ Anchored = 0 /\ Committed = k + (m + n)
    BY <1>2
  <2>3. OfAs' = s /\ Anchored' = 0 /\ Committed' = 0 /\ OfCode' = m + n + q
    BY <1>1, <1>2, IdleOwesNext DEF OfAs, OfCode
  <2> HIDE DEF s, n, k, m, q
  <2>4. Owed = s + (k + (m + n))
    BY <2>1, <2>2 DEF Owed
  <2>5. Owed' = s + (m + n + q)
    BY <2>1, <2>3 DEF Owed
  <2>6. Owed' - Owed = q - k
    BY <2>1, <2>4, <2>5
  <2>7. QED
    BY <1>1, <2>6 DEF Moves, Take, q, k
<1>8. QED
  BY <1>1, <1>4, <1>5, <1>6, <1>7, StepKeeps

LEMMA CallFailsKeeps ==
  ASSUME CodeInv, CallFails
  PROVE  CodeInv'
<1>1. /\ call' = Idle /\ Fails /\ Take(-Anchored) /\ broken' = (broken \/ Committed > 0)
      /\ UNCHANGED <<asm, code, alive, globals, roots, calls, ub>>
  BY DEF CallFails, program
<1>2. OfAs \in Nat /\ OfCode \in Nat /\ Anchored \in Nat /\ Committed \in Nat
  BY OwedIs DEF CodeInv
<1>3. AsOK' /\ CodeOK' /\ CallOK'
  BY <1>1 DEF CodeInv, AsOK, CodeOK, CallOK
<1>4. Counted'
  <2>1. failures' \in 0 .. MaxFailures
    BY <1>1, CodeAssumption DEF CodeInv, Counted, Fails
  <2>2. used' \in Int /\ broken' \in BOOLEAN
    BY <1>1, <1>2 DEF CodeInv, Counted, Take
  <2>3. QED
    BY <1>1, <2>1, <2>2 DEF CodeInv, Counted
<1>5. Owed = OfAs + OfCode + Anchored + Committed /\ Owed' = OfAs + OfCode
  <2>1. OfAs' = OfAs /\ OfCode' = OfCode /\ Anchored' = 0 /\ Committed' = 0
    BY <1>1, IdleOwesNext DEF OfAs, OfCode
  <2>2. QED
    BY <1>2, <2>1 DEF Owed
<1>6. held' = held - Anchored /\ held \in Nat /\ held >= Owed
  BY <1>1, <1>2 DEF CodeInv, Balanced, Take
<1>7. held' \in Nat /\ held' >= Owed'
  BY <1>2, <1>5, <1>6
<1>8. ASSUME ~broken' PROVE held' = Owed'
  <2>1. ~broken /\ Committed = 0
    <3>1. ~broken /\ ~(Committed > 0)
      BY <1>1, <1>8, Zenon
    <3>2. QED
      BY <1>2, <3>1
  <2>2. held = Owed
    BY <2>1 DEF CodeInv, Balanced
  <2>3. QED
    BY <1>2, <1>5, <1>6, <2>1, <2>2
<1>9. QED
  BY <1>3, <1>4, <1>7, <1>8 DEF CodeInv, Balanced

LEMMA DropKeeps ==
  ASSUME CodeInv, NEW o \in {"asm", "code"}, Drop(o)
  PROVE  CodeInv'
<1>1. call = Idle /\ roots' = roots \ {o}
      /\ UNCHANGED <<asm, code, call, alive, held, used, globals, calls, failures, broken, ub>>
  BY Ops DEF Drop, Ready, CodeInv, memory, faults
<1>2. AsOK' /\ CodeOK' /\ CallOK' /\ Counted'
  BY <1>1 DEF CodeInv, AsOK, CodeOK, CallOK, Counted
<1>3. OfAs' = OfAs /\ OfCode' = OfCode /\ Anchored' = Anchored /\ Committed' = Committed
  BY <1>1 DEF OfAs, OfCode, Anchored, Committed
<1>4. Moves
  <2>1. Owed' = Owed
    BY <1>3 DEF Owed
  <2>2. Owed \in Nat /\ held \in Nat
    BY OwedNat DEF CodeInv, Balanced
  <2>3. QED
    BY <1>1, <2>1, <2>2 DEF Moves
<1>5. QED
  BY <1>1, <1>2, <1>4, StepKeeps

\* A collection gives back what the objects own that the program has dropped.
LEMMA CollectKeeps ==
  ASSUME CodeInv, Collect
  PROVE  CodeInv'
<1> DEFINE keepsAs == asm # NoAs /\ "asm" \in roots
           keepsCode == code # NoCode /\ "code" \in roots
           goneAs == IF asm = NoAs \/ keepsAs THEN 0 ELSE FinlAssembler
           goneCode == IF code = NoCode \/ keepsCode THEN 0 ELSE FinlCode
           again == IF code = NoCode \/ keepsCode THEN 0 ELSE Len(code.words)
<1>1. /\ asm' = IF keepsAs THEN asm ELSE NoAs
      /\ code' = IF keepsCode THEN code ELSE NoCode
      /\ held' = held - goneAs - goneCode
      /\ used' = used - goneAs - goneCode - again
      /\ alive' \subseteq alive
      /\ UNCHANGED <<globals, call, roots, calls, failures, broken, ub>>
  BY DEF Collect, program, faults
<1>2. OfAs \in Nat /\ OfCode \in Nat /\ Anchored \in Nat /\ Committed \in Nat
  BY OwedIs DEF CodeInv
<1>3. goneAs \in Nat /\ OfAs' = OfAs - goneAs /\ OfAs' \in Nat
  <2>1. CASE asm = NoAs \/ keepsAs
    <3>1. goneAs = 0 /\ OfAs' = OfAs
      BY <1>1, <2>1 DEF OfAs
    <3>2. QED
      BY <1>2, <3>1
  <2>2. CASE ~(asm = NoAs \/ keepsAs)
    <3>1. goneAs = OfAs
      BY <2>2 DEF OfAs, FinlAssembler, FinlBuf, Sum3
    <3>2. OfAs' = 0
      BY <1>1, <2>2 DEF OfAs
    <3>3. QED
      BY <1>2, <3>1, <3>2
  <2>3. QED
    BY <2>1, <2>2
<1>4. goneCode \in Nat /\ OfCode' = OfCode - goneCode /\ OfCode' \in Nat
  <2>1. CASE code = NoCode \/ keepsCode
    <3>1. goneCode = 0 /\ OfCode' = OfCode
      BY <1>1, <2>1 DEF OfCode
    <3>2. QED
      BY <1>2, <3>1
  <2>2. CASE ~(code = NoCode \/ keepsCode)
    <3>1. goneCode = OfCode
      BY <2>2 DEF OfCode, FinlCode
    <3>2. OfCode' = 0
      BY <1>1, <2>2 DEF OfCode
    <3>3. QED
      BY <1>2, <3>1, <3>2
  <2>3. QED
    BY <2>1, <2>2
<1>5. again \in Nat
  BY DEF CodeInv, CodeOK
<1>6. Anchored' = Anchored /\ Committed' = Committed
  BY <1>1 DEF Anchored, Committed
<1> HIDE DEF goneAs, goneCode, again
<1>7. Owed' - Owed = (0 - goneAs) - goneCode
  <2>1. Owed = OfAs + OfCode + Anchored + Committed
    BY DEF Owed
  <2>2. Owed' = OfAs' + OfCode' + Anchored + Committed
    BY <1>6 DEF Owed
  <2>3. QED
    BY <1>2, <1>3, <1>4, <2>1, <2>2
<1>8. Moves
  <2>1. held \in Nat
    BY DEF CodeInv, Balanced
  <2>2. QED
    BY <1>1, <1>3, <1>4, <1>7, <2>1 DEF Moves
<1>9. AsOK' /\ CodeOK'
  BY <1>1 DEF CodeInv, AsOK, CodeOK
<1>10. CallOK'
  BY <1>1 DEF CodeInv, CallOK, InAssembler, InHost, InMake
<1>11. Counted'
  <2>1. used' \in Int
    BY <1>1, <1>3, <1>4, <1>5 DEF CodeInv, Counted
  <2>2. QED
    BY <1>1, <2>1 DEF CodeInv, Counted
<1>12. QED
  BY <1>1, <1>8, <1>9, <1>10, <1>11, StepKeeps

-------------------------------------------------------------------------------
(* The invariant, and what follows from it.                                *)

LEMMA InitCode == Init => CodeInv
<1>1. SUFFICES ASSUME Init PROVE CodeInv
  OBVIOUS
<1>2. AsOK /\ CodeOK /\ CallOK
  BY <1>1 DEF Init, AsOK, CodeOK, CallOK
<1>3. Counted
  <2>1. globals \in Seq(Name)
    BY <1>1 DEF Init
  <2>2. calls \in 0 .. MaxCalls /\ failures \in 0 .. MaxFailures /\ used \in Int
    BY <1>1, CodeAssumption DEF Init
  <2>3. QED
    BY <1>1, <2>1, <2>2 DEF Init, Counted
<1>4. Anchored = 0 /\ Committed = 0
  BY <1>1, IdleOwes DEF Init
<1>5. Owed = 0
  BY <1>1, <1>4 DEF Init, Owed, OfAs, OfCode
<1>6. QED
  BY <1>1, <1>2, <1>3, <1>5 DEF Init, CodeInv, Balanced

LEMMA NextCode == CodeInv /\ [Next]_vars => CodeInv'
<1>1. SUFFICES ASSUME CodeInv, [Next]_vars PROVE CodeInv'
  OBVIOUS
<1> USE <1>1
<1>2. CASE UNCHANGED vars
  <2>1. UNCHANGED <<asm, code, call, alive, held, used, globals, roots, calls, failures, broken, ub>>
    BY <1>2 DEF vars, memory, program, faults
  <2>2. OfAs' = OfAs /\ OfCode' = OfCode /\ Anchored' = Anchored /\ Committed' = Committed
    BY <2>1 DEF OfAs, OfCode, Anchored, Committed
  <2>3. Owed' = Owed
    BY <2>2 DEF Owed
  <2>4. QED
    BY <2>1, <2>3 DEF CodeInv, AsOK, CodeOK, CallOK, InAssembler, InHost, InMake, Balanced, Counted
<1>3. ASSUME NEW form \in {"A", "B"}, AddInstr(form) PROVE CodeInv'
  BY <1>3, AddInstrKeeps
<1>4. ASSUME NEW where \in 0 .. MaxCalls, NEW moves \in BOOLEAN, AddLabel(where, moves)
      PROVE  CodeInv'
  BY <1>4, AddLabelKeeps
<1>5. ASSUME NEW v \in Value, AddConst(v) PROVE CodeInv'
  BY <1>5, AddConstKeeps
<1>6. ASSUME NEW n \in Name, AddUpval(n) PROVE CodeInv'
  BY <1>6, AddUpvalKeeps
<1>7. ASSUME NEW n \in Name, AddLocal(n) PROVE CodeInv'
  BY <1>7, AddLocalKeeps
<1>8. ASSUME NEW n \in Name, NEW var \in BOOLEAN, AddParam(n, var) PROVE CodeInv'
  BY <1>8, AddParamKeeps
<1>9. ASSUME NEW b \in Buffer, PutFails(b) PROVE CodeInv'
  BY <1>9, PutFailsKeeps
<1>10. ASSUME NEW names \in {"upvals", "locals"}, NEW n \in Name, NameFails(names, n)
       PROVE  CodeInv'
  BY <1>10, NameFailsKeeps
<1>11. ASSUME NEW scope \in {"local", "global"}, StartAssembler(scope) PROVE CodeInv'
  BY <1>11, StartAssemblerKeeps
<1>12. CASE InitBuf
  BY <1>12, InitBufKeeps
<1>13. CASE StartCode
  BY <1>13, StartCodeKeeps
<1>14. CASE InitWords
  BY <1>14, InitWordsKeeps
<1>15. ASSUME NEW wraps \in BOOLEAN, EmitWord(wraps) PROVE CodeInv'
  BY <1>15, EmitWordKeeps
<1>16. CASE AllocCode
  BY <1>16, AllocCodeKeeps
<1>17. CASE PackConsts
  BY <1>17, PackConstsKeeps
<1>18. CASE PackWords
  BY <1>18, PackWordsKeeps
<1>19. ASSUME NEW info \in Infos, StartHost(info) PROVE CodeInv'
  BY <1>19, StartHostKeeps
<1>20. CASE ParseParams \/ ParseUpvals
  BY <1>20, ParseParamsKeeps, ParseUpvalsKeeps
<1>21. CASE CallFails \/ Collect
  BY <1>21, CallFailsKeeps, CollectKeeps
<1>22. ASSUME NEW o \in {"asm", "code"}, Drop(o) PROVE CodeInv'
  BY <1>22, DropKeeps
<1>23. QED
  BY <1>2, <1>3, <1>4, <1>5, <1>6, <1>7, <1>8, <1>9, <1>10, <1>11, <1>12, <1>13, <1>14,
     <1>15, <1>16, <1>17, <1>18, <1>19, <1>20, <1>21, <1>22
  DEF Next, Buffer

\* The invariant holds in every state, for every number of constants and names.
THEOREM CodeInvariant == Spec => []CodeInv
BY InitCode, NextCode, PTL DEF Spec

\* The assembler, the code object and the call are what they are declared to be:
\* labels that instructions list exist, and no buffer has more elements than room.
THEOREM TypeCorrect == Spec => []TypeOK
<1>1. CodeInv => TypeOK
  <2>1. SUFFICES ASSUME CodeInv PROVE TypeOK
    OBVIOUS
  <2> DEFINE AsTyped ==
               /\ asm.scope \in {"local", "global"} /\ {asm.packed, asm.var} \subseteq BOOLEAN
               /\ \A i \in DOMAIN asm.instrs : /\ asm.instrs[i].form \in {"A", "B"}
                                               /\ asm.instrs[i].labels \subseteq DOMAIN asm.labels
               /\ asm.top \subseteq DOMAIN asm.labels /\ asm.consts \in Seq(Value)
               /\ {asm.upvals, asm.locals} \subseteq Seq(Name)
               /\ \A b \in {"instrs", "labels", "consts"} : asm.packed \/ Len(asm[b]) <= asm.cap[b]
               /\ {asm.fixed, asm.numUpvals, asm.numLocals, asm.moved} \subseteq Nat
  <2>2. ASSUME asm # NoAs PROVE AsTyped
    <3>1. Sound(asm) /\ asm \in AsRec
      BY <2>1, <2>2, AsIs DEF CodeInv
    <3>2. \A i \in DOMAIN asm.instrs : asm.instrs[i].form \in {"A", "B"}
      <4>1. asm.instrs \in Seq(Instr)
        BY <3>1, Fields
      <4>2. \A i \in DOMAIN asm.instrs : asm.instrs[i] \in Instr
        BY <4>1
      <4>3. QED
        BY <4>2 DEF Instr
    <3>3. Linked(asm) /\ Roomy(asm)
      BY <3>1 DEF Sound
    <3>4. \A b \in {"instrs", "labels", "consts"} : asm.packed \/ Len(asm[b]) <= asm.cap[b]
      BY <3>3 DEF Roomy, Buffer
    <3>5. QED
      BY <3>1, <3>2, <3>3, <3>4, Fields DEF Linked
  <2>3. asm = NoAs \/ AsTyped
    BY <2>2
  <2> HIDE DEF AsTyped
  <2>4. CodeOK /\ Counted /\ held \in Nat
    BY <2>1 DEF CodeInv, Balanced
  <2>5. call.op \in {"idle", "assembler", "make", "host"}
    BY <2>1, Ops DEF CodeInv
  <2>6. code = NoCode \/ /\ code.kind \in {"byte", "host"} /\ code.var \in BOOLEAN
                         /\ code.consts \in Seq(Value)
    BY <2>4 DEF CodeOK
  <2>7. /\ roots \subseteq {"asm", "code"} /\ globals \in Seq(Name)
        /\ alive \subseteq Value \union {"upvalIdx", "localIdx", "varParamsIdx"}
        /\ held \in Nat /\ used \in Int /\ calls \in 0 .. MaxCalls
        /\ failures \in 0 .. MaxFailures
        /\ broken \in BOOLEAN /\ ub \in {"no", "null_write", "stale_label"}
    BY <2>4 DEF Counted
  <2> USE DEF AsTyped
  <2>8. QED
    BY <2>3, <2>5, <2>6, <2>7, Zenon DEF TypeOK
<1>2. QED
  BY <1>1, CodeInvariant, PTL

\* No memory of an assembler or of a code object is lost, whatever is called, collected
\* or refused: it is all some object's, or the call's under way, unless an allocation
\* has failed half way through a construction.
THEOREM NothingLostHolds == Spec => []NothingLost
<1>1. CodeInv => NothingLost
  BY DEF CodeInv, Balanced, Owed, OfAs, OfCode, NothingLost
<1>2. QED
  BY <1>1, CodeInvariant, PTL

-------------------------------------------------------------------------------
(* The tables of the assembler, and what references denote.                *)

\* The parts of the assembler that the calls about instructions leave alone.
SameTables ==
  /\ asm'.consts = asm.consts /\ asm'.var = asm.var /\ asm'.upvals = asm.upvals
  /\ asm'.locals = asm.locals /\ asm'.scope = asm.scope /\ asm'.packed = asm.packed

LEMMA RoomTables ==
  ASSUME asm \in AsRec, NEW b \in Buffer
  PROVE  /\ Room(b).var = asm.var /\ Room(b).upvals = asm.upvals
         /\ Room(b).locals = asm.locals /\ Room(b).scope = asm.scope
         /\ Room(b).consts = asm.consts /\ Room(b).packed = asm.packed
BY RoomIs DEF AsRec

LEMMA InstrsTables ==
  ASSUME CodeInv
  PROVE  /\ \A form \in {"A", "B"} : AddInstr(form) => SameTables
         /\ \A where \in 0 .. MaxCalls, moves \in BOOLEAN : AddLabel(where, moves) => SameTables
         /\ \A b \in Buffer : PutFails(b) => SameTables
<1>1. ASSUME NEW form \in {"A", "B"}, AddInstr(form) PROVE SameTables
  <2>1. asm \in AsRec /\ "instrs" \in Buffer
    BY <1>1, UsingIs DEF AddInstr, Buffer
  <2>2. Room("instrs") \in AsRec
    BY <2>1, RoomIs
  <2>3. PICK s : asm' = [Room("instrs") EXCEPT !.instrs = s, !.top = {}]
    BY <1>1 DEF AddInstr
  <2>4. QED
    BY <2>1, <2>2, <2>3, RoomTables DEF AsRec, SameTables
<1>2. ASSUME NEW where \in 0 .. MaxCalls, NEW moves \in BOOLEAN, AddLabel(where, moves)
      PROVE  SameTables
  <2>1. asm \in AsRec /\ "labels" \in Buffer
    BY <1>2, UsingIs DEF AddLabel, Buffer
  <2>2. Room("labels") \in AsRec
    BY <2>1, RoomIs
  <2>3. \E s, m, t, q :
          \/ asm' = [[Room("labels") EXCEPT !.labels = s, !.moved = m] EXCEPT !.top = t]
          \/ asm' = [[Room("labels") EXCEPT !.labels = s, !.moved = m] EXCEPT !.instrs = q]
    BY <1>2 DEF AddLabel
  <2>4. QED
    BY <2>1, <2>2, <2>3, RoomTables DEF AsRec, SameTables
<1>3. ASSUME NEW b \in Buffer, PutFails(b) PROVE SameTables
  BY <1>3 DEF PutFails, SameTables
<1>4. QED
  BY <1>1, <1>2, <1>3

\* How the other calls change them.
LEMMA ConstTables ==
  ASSUME CodeInv, NEW v \in Value, AddConst(v)
  PROVE  /\ asm \in AsRec /\ asm'.consts = Append(asm.consts, v) /\ asm'.var = asm.var
         /\ asm'.upvals = asm.upvals /\ asm'.locals = asm.locals /\ asm'.scope = asm.scope
         /\ asm'.packed = asm.packed
<1>1. asm \in AsRec /\ "consts" \in Buffer
  BY UsingIs DEF AddConst, Buffer
<1>2. Room("consts") \in AsRec /\ Room("consts").consts = asm.consts
  BY <1>1, RoomIs, RoomTables
<1>3. asm' = [Room("consts") EXCEPT !.consts = Append(asm.consts, v)]
  BY <1>2 DEF AddConst
<1>4. QED
  BY <1>1, <1>2, <1>3, RoomTables DEF AsRec

LEMMA NameTables ==
  ASSUME CodeInv, NEW n \in Name
  PROVE  /\ AddUpval(n) =>
              /\ asm'.consts = asm.consts /\ asm'.var = asm.var
              /\ asm'.upvals = WithName(n, asm.upvals) /\ asm'.locals = asm.locals
              /\ asm'.scope = asm.scope /\ asm'.packed = asm.packed
         /\ AddLocal(n) =>
              /\ asm'.consts = asm.consts /\ asm'.var = asm.var /\ asm'.upvals = asm.upvals
              /\ asm'.scope = asm.scope /\ asm'.packed = asm.packed
              /\ \/ /\ asm.scope = "global" /\ asm'.locals = asm.locals
                    /\ globals' = WithName(n, globals)
                 \/ /\ asm.scope = "local" /\ asm'.locals = WithName(n, asm.locals)
                    /\ globals' = globals
         /\ \A var \in BOOLEAN : AddParam(n, var) =>
              /\ asm'.consts = asm.consts /\ asm'.upvals = asm.upvals
              /\ asm'.scope = asm.scope /\ asm'.packed = asm.packed
              /\ asm'.var = (var /\ More(Loc(n, asm.locals)) = 1)
              /\ asm'.locals = WithName(n, asm.locals)
         /\ \A names \in {"upvals", "locals"} : NameFails(names, n) =>
              /\ asm'.consts = asm.consts /\ asm'.var = asm.var
              /\ asm'.scope = asm.scope /\ asm'.packed = asm.packed
              /\ asm'.upvals \in {asm.upvals, WithName(n, asm.upvals)}
              /\ asm'.locals \in {asm.locals, WithName(n, asm.locals)}
              /\ globals' \in {globals, WithName(n, globals)}
<1>1. Using => asm \in AsRec
  BY UsingIs
<1>2. ASSUME AddUpval(n)
      PROVE  /\ asm'.consts = asm.consts /\ asm'.var = asm.var
             /\ asm'.upvals = WithName(n, asm.upvals) /\ asm'.locals = asm.locals
             /\ asm'.scope = asm.scope /\ asm'.packed = asm.packed
  BY <1>1, <1>2 DEF AddUpval, AsRec
<1>3. ASSUME AddLocal(n)
      PROVE  /\ asm'.consts = asm.consts /\ asm'.var = asm.var /\ asm'.upvals = asm.upvals
             /\ asm'.scope = asm.scope /\ asm'.packed = asm.packed
             /\ \/ /\ asm.scope = "global" /\ asm'.locals = asm.locals
                   /\ globals' = WithName(n, globals)
                \/ /\ asm.scope = "local" /\ asm'.locals = WithName(n, asm.locals)
                   /\ globals' = globals
  <2>1. asm \in AsRec
    BY <1>1, <1>3 DEF AddLocal
  <2>2. PICK k :
          \/ /\ asm.scope = "global" /\ globals' = WithName(n, globals)
             /\ asm' = [asm EXCEPT !.numLocals = k]
          \/ /\ asm.scope = "local" /\ globals' = globals
             /\ asm' = [[asm EXCEPT !.numLocals = k] EXCEPT !.locals = WithName(n, asm.locals)]
    BY <1>3 DEF AddLocal
  <2>3. QED
    BY <2>1, <2>2 DEF AsRec
<1>4. ASSUME NEW var \in BOOLEAN, AddParam(n, var)
      PROVE  /\ asm'.consts = asm.consts /\ asm'.upvals = asm.upvals
             /\ asm'.scope = asm.scope /\ asm'.packed = asm.packed
             /\ asm'.var = (var /\ More(Loc(n, asm.locals)) = 1)
             /\ asm'.locals = WithName(n, asm.locals)
  <2>1. asm \in AsRec
    BY <1>1, <1>4 DEF AddParam
  <2>2. PICK v, k : /\ v = (var /\ More(Loc(n, asm.locals)) = 1)
                    /\ asm' = [asm EXCEPT !.locals = WithName(n, asm.locals), !.var = v,
                                          !.fixed = k]
    BY <1>4 DEF AddParam
  <2>3. asm'.var = v /\ asm'.consts = asm.consts /\ asm'.upvals = asm.upvals
        /\ asm'.scope = asm.scope /\ asm'.packed = asm.packed
        /\ asm'.locals = WithName(n, asm.locals)
    BY <2>1, <2>2 DEF AsRec
  <2>4. QED
    BY <2>2, <2>3
<1>5. ASSUME NEW names \in {"upvals", "locals"}, NameFails(names, n)
      PROVE  /\ asm'.consts = asm.consts /\ asm'.var = asm.var
             /\ asm'.scope = asm.scope /\ asm'.packed = asm.packed
             /\ asm'.upvals \in {asm.upvals, WithName(n, asm.upvals)}
             /\ asm'.locals \in {asm.locals, WithName(n, asm.locals)}
             /\ globals' \in {globals, WithName(n, globals)}
  <2>1. asm \in AsRec
    BY <1>1, <1>5 DEF NameFails
  <2>2. /\ globals' \in {globals, WithName(n, globals)}
        /\ \/ asm' = asm
           \/ asm' = [asm EXCEPT !.upvals = WithName(n, asm.upvals)]
           \/ asm' = [asm EXCEPT !.locals = WithName(n, asm.locals)]
    BY <1>5 DEF NameFails
  <2>3. QED
    BY <2>1, <2>2 DEF AsRec
<1>6. QED
  BY <1>2, <1>3, <1>4, <1>5

Ref == {"const", "upval", "local"} \X Nat \X (Value \union Name)

Den(r, consts, upvals, locals) ==
  LET table == CASE r[1] = "const" -> consts [] r[1] = "upval" -> upvals [] r[1] = "local" -> locals
  IN r[2] < Len(table) /\ table[r[2] + 1] = r[3]

Locals == IF asm.scope = "global" THEN globals ELSE asm.locals

\* A reference denotes in the assembler until its constants are taken, and then a
\* constant in the call or in the code object.
Referred ==
  /\ refs \subseteq Ref
  /\ asm # NoAs /\ ~asm.packed => \A r \in refs : Den(r, asm.consts, asm.upvals, Locals)
  /\ call.op = "assembler" => refs = {}
  /\ call.op = "make" /\ call.stage = "packed" =>
       \A r \in refs : r[1] = "const" => Den(r, call.consts, <<>>, <<>>)
  /\ Bytecode => \A r \in code.refs : r[1] = "const" => Den(r, code.consts, <<>>, <<>>)

\* The first elements of a table are those of another one.
Extends(t, s) == Len(s) <= Len(t) /\ \A i \in 1 .. Len(s) : t[i] = s[i]

LEMMA ExtendsDen ==
  ASSUME NEW r \in Ref, NEW c1 \in Seq(Value), NEW u1 \in Seq(Name), NEW l1 \in Seq(Name),
         NEW c2 \in Seq(Value), NEW u2 \in Seq(Name), NEW l2 \in Seq(Name),
         Extends(c2, c1), Extends(u2, u1), Extends(l2, l1), Den(r, c1, u1, l1)
  PROVE  Den(r, c2, u2, l2)
<1>1. r[1] \in {"const", "upval", "local"} /\ r[2] \in Nat
  BY DEF Ref
<1>2. ASSUME NEW S, NEW s \in Seq(S), NEW t \in Seq(S), Extends(t, s), r[2] < Len(s),
             s[r[2] + 1] = r[3]
      PROVE  r[2] < Len(t) /\ t[r[2] + 1] = r[3]
  <2>1. Len(s) \in Nat /\ Len(t) \in Nat /\ Len(s) <= Len(t)
    BY <1>2 DEF Extends
  <2>2. r[2] + 1 \in 1 .. Len(s) /\ r[2] < Len(t)
    BY <1>1, <1>2, <2>1
  <2>3. QED
    BY <1>2, <2>2 DEF Extends
<1>3. CASE r[1] = "const"
  <2>1. r[2] < Len(c1) /\ c1[r[2] + 1] = r[3]
    BY <1>3 DEF Den
  <2>2. r[2] < Len(c2) /\ c2[r[2] + 1] = r[3]
    BY <1>2, <2>1
  <2>3. QED
    BY <1>3, <2>2 DEF Den
<1>4. CASE r[1] = "upval"
  <2>1. r[2] < Len(u1) /\ u1[r[2] + 1] = r[3]
    BY <1>4 DEF Den
  <2>2. r[2] < Len(u2) /\ u2[r[2] + 1] = r[3]
    BY <1>2, <2>1
  <2>3. QED
    BY <1>4, <2>2 DEF Den
<1>5. CASE r[1] = "local"
  <2>1. r[2] < Len(l1) /\ l1[r[2] + 1] = r[3]
    BY <1>5 DEF Den
  <2>2. r[2] < Len(l2) /\ l2[r[2] + 1] = r[3]
    BY <1>2, <2>1
  <2>3. QED
    BY <1>5, <2>2 DEF Den
<1>6. QED
  BY <1>1, <1>3, <1>4, <1>5

LEMMA ExtendsSelf ==
  ASSUME NEW S, NEW s \in Seq(S)
  PROVE  Extends(s, s)
BY DEF Extends

LEMMA ExtendsName ==
  ASSUME NEW n \in Name, NEW names \in Seq(Name)
  PROVE  WithName(n, names) \in Seq(Name) /\ Extends(WithName(n, names), names)
BY WithNameIs DEF Extends

\* What Refer adds is in its table: the 16 bits hold the loc or there is no reference.
LEMMA ReferIs ==
  ASSUME NEW type \in {"const", "upval", "local"}, NEW loc \in Nat,
         NEW thing \in Value \union Name, refs \subseteq Ref, Refer(type, loc, thing),
         NEW r \in refs'
  PROVE  r \in refs \/ r = <<type, loc, thing>>
<1>1. CASE Fits(loc)
  <2>1. refs' = refs \union {<<type, loc, thing>>}
    BY <1>1 DEF Refer, Fits
  <2>2. QED
    BY <2>1
<1>2. CASE ~Fits(loc)
  BY <1>2 DEF Refer
<1>3. QED
  BY <1>1, <1>2

\* A call of the assembler adds to the tables, and a reference at most to something
\* that is in them.
LEMMA UsedRefers ==
  ASSUME CodeInv, CodeInv', Referred, Using, Reuse = FALSE, UNCHANGED <<code, call>>,
         asm'.packed = asm.packed, asm'.scope = asm.scope,
         Extends(asm'.consts, asm.consts), Extends(asm'.upvals, asm.upvals),
         Extends(asm'.locals, asm.locals), Extends(globals', globals),
         \A r \in refs' : r \in refs \/ (r \in Ref /\ Den(r, asm'.consts, asm'.upvals, Locals'))
  PROVE  Referred'
<1>1. /\ call.op = "idle" /\ asm \in AsRec /\ asm # NoAs /\ ~asm.packed
      /\ globals \in Seq(Name) /\ globals' \in Seq(Name)
  BY UsingIs, IdleOwes DEF Using, CodeInv, Counted
<1>2. asm'.scope = asm.scope /\ ~asm'.packed /\ (asm' = NoAs \/ asm' \in AsRec)
  BY <1>1 DEF CodeInv, AsOK, Sound
<1>3. ASSUME asm' # NoAs, NEW r \in refs'
      PROVE  Den(r, asm'.consts, asm'.upvals, Locals')
  <2>1. asm' \in AsRec
    BY <1>2, <1>3
  <2>2. CASE r \in refs
    <3>1. Den(r, asm.consts, asm.upvals, Locals) /\ r \in Ref
      BY <1>1, <2>2 DEF Referred
    <3>2. /\ asm.consts \in Seq(Value) /\ asm.upvals \in Seq(Name)
          /\ asm'.consts \in Seq(Value) /\ asm'.upvals \in Seq(Name)
          /\ asm.locals \in Seq(Name) /\ asm'.locals \in Seq(Name)
      BY <1>1, <2>1, Fields
    <3>3. Locals \in Seq(Name) /\ Locals' \in Seq(Name) /\ Extends(Locals', Locals)
      BY <1>1, <1>2, <3>2 DEF Locals
    <3>4. QED
      BY <3>1, <3>2, <3>3, ExtendsDen
  <2>3. CASE r \notin refs
    BY <1>3, <2>3
  <2>4. QED
    BY <2>2, <2>3
<1>4. refs' \subseteq Ref
  BY DEF Referred
<1>5. QED
  BY <1>1, <1>3, <1>4 DEF Referred, Bytecode

LEMMA UsingRefers ==
  ASSUME CodeInv, CodeInv', Referred, Reuse = FALSE,
         \/ \E form \in {"A", "B"} : AddInstr(form)
         \/ \E where \in 0 .. MaxCalls, moves \in BOOLEAN : AddLabel(where, moves)
         \/ \E v \in Value : AddConst(v)
         \/ \E n \in Name : AddUpval(n) \/ AddLocal(n) \/ \E var \in BOOLEAN : AddParam(n, var)
         \/ \E b \in Buffer : PutFails(b)
         \/ \E names \in {"upvals", "locals"}, n \in Name : NameFails(names, n)
  PROVE  Referred'
<1>1. globals \in Seq(Name) /\ Extends(globals, globals)
  BY ExtendsSelf DEF CodeInv, Counted
<1>2. ASSUME Using
      PROVE  /\ asm.consts \in Seq(Value) /\ asm.upvals \in Seq(Name)
             /\ asm.locals \in Seq(Name) /\ asm.scope \in {"local", "global"}
             /\ Extends(asm.consts, asm.consts) /\ Extends(asm.upvals, asm.upvals)
             /\ Extends(asm.locals, asm.locals)
  BY <1>2, UsingIs, Fields, ExtendsSelf
<1>3. refs \subseteq Ref
  BY DEF Referred
<1>4. ASSUME SameTables, Using, UNCHANGED <<code, call, globals, refs>> PROVE Referred'
  BY <1>1, <1>2, <1>4, UsedRefers DEF SameTables
<1>5. ASSUME NEW form \in {"A", "B"}, AddInstr(form) PROVE Referred'
  BY <1>4, <1>5, InstrsTables DEF AddInstr, Called
<1>6. ASSUME NEW where \in 0 .. MaxCalls, NEW moves \in BOOLEAN, AddLabel(where, moves)
      PROVE  Referred'
  BY <1>4, <1>6, InstrsTables DEF AddLabel, Called
<1>7. ASSUME NEW b \in Buffer, PutFails(b) PROVE Referred'
  BY <1>4, <1>7, InstrsTables DEF PutFails, program
<1>8. ASSUME NEW v \in Value, AddConst(v) PROVE Referred'
  <2>1. /\ Using /\ UNCHANGED <<code, call, globals>>
        /\ Refer("const", Len(asm.consts), v)
    BY <1>8 DEF AddConst, Called
  <2>2. /\ asm'.consts = Append(asm.consts, v) /\ asm'.upvals = asm.upvals
        /\ asm'.locals = asm.locals /\ asm'.scope = asm.scope /\ asm'.packed = asm.packed
    BY <1>8, ConstTables
  <2>3. asm.consts \in Seq(Value) /\ Len(asm.consts) \in Nat
    BY <1>2, <2>1
  <2>4. /\ Len(Append(asm.consts, v)) = Len(asm.consts) + 1
        /\ Append(asm.consts, v)[Len(asm.consts) + 1] = v
        /\ \A i \in 1 .. Len(asm.consts) : Append(asm.consts, v)[i] = asm.consts[i]
    BY <2>3
  <2>5. Extends(Append(asm.consts, v), asm.consts)
    BY <2>3, <2>4 DEF Extends
  <2> DEFINE q == <<"const", Len(asm.consts), v>>
  <2>6. q \in Ref /\ Den(q, asm'.consts, asm'.upvals, Locals')
    <3>1. q[1] = "const" /\ q[2] = Len(asm.consts) /\ q[3] = v /\ q \in Ref
      BY <2>3 DEF Ref
    <3> HIDE DEF q
    <3>2. q[2] < Len(asm'.consts) /\ asm'.consts[q[2] + 1] = q[3]
      BY <2>2, <2>3, <2>4, <3>1
    <3>3. QED
      BY <3>1, <3>2 DEF Den
  <2>7. \A r \in refs' : r \in refs \/ r = q
    BY <1>3, <2>1, <2>3, ReferIs
  <2> HIDE DEF q
  <2>8. QED
    BY <1>1, <1>2, <2>1, <2>2, <2>5, <2>6, <2>7, UsedRefers
<1>9. ASSUME NEW n \in Name, AddUpval(n) PROVE Referred'
  <2>1. /\ Using /\ UNCHANGED <<code, call, globals>>
        /\ Refer("upval", Loc(n, asm.upvals), n)
    BY <1>9 DEF AddUpval, Called
  <2>2. /\ asm'.consts = asm.consts /\ asm'.upvals = WithName(n, asm.upvals)
        /\ asm'.locals = asm.locals /\ asm'.scope = asm.scope /\ asm'.packed = asm.packed
    BY <1>9, NameTables
  <2>3. /\ Extends(asm'.upvals, asm.upvals) /\ Loc(n, asm.upvals) \in Nat
        /\ Loc(n, asm.upvals) < Len(asm'.upvals)
        /\ asm'.upvals[Loc(n, asm.upvals) + 1] = n
    BY <1>2, <2>1, <2>2, ExtendsName, WithNameIs
  <2> DEFINE q == <<"upval", Loc(n, asm.upvals), n>>
  <2>4. q \in Ref /\ Den(q, asm'.consts, asm'.upvals, Locals')
    <3>1. q[1] = "upval" /\ q[2] = Loc(n, asm.upvals) /\ q[3] = n /\ q \in Ref
      BY <2>3 DEF Ref
    <3> HIDE DEF q
    <3>2. q[2] < Len(asm'.upvals) /\ asm'.upvals[q[2] + 1] = q[3]
      BY <2>3, <3>1
    <3>3. QED
      BY <3>1, <3>2 DEF Den
  <2>5. \A r \in refs' : r \in refs \/ r = q
    BY <1>3, <2>1, <2>3, ReferIs
  <2> HIDE DEF q
  <2>6. QED
    BY <1>1, <1>2, <2>1, <2>2, <2>3, <2>4, <2>5, UsedRefers
<1>10. ASSUME Using, UNCHANGED <<code, call>>, asm'.consts = asm.consts,
              asm'.upvals = asm.upvals, asm'.scope = asm.scope, asm'.packed = asm.packed,
              Extends(asm'.locals, asm.locals), Extends(globals', globals), NEW n \in Name,
              NEW names \in Seq(Name), Locals' = WithName(n, names),
              Refer("local", Loc(n, names), n)
       PROVE  Referred'
  <2>1. /\ Loc(n, names) \in Nat /\ Loc(n, names) < Len(Locals')
        /\ Locals'[Loc(n, names) + 1] = n
    BY <1>10, WithNameIs
  <2> DEFINE q == <<"local", Loc(n, names), n>>
  <2>2. q \in Ref /\ Den(q, asm'.consts, asm'.upvals, Locals')
    <3>1. q[1] = "local" /\ q[2] = Loc(n, names) /\ q[3] = n /\ q \in Ref
      BY <2>1 DEF Ref
    <3> HIDE DEF q
    <3>2. q[2] < Len(Locals') /\ Locals'[q[2] + 1] = q[3]
      BY <2>1, <3>1
    <3>3. QED
      BY <3>1, <3>2 DEF Den
  <2>3. \A r \in refs' : r \in refs \/ r = q
    BY <1>3, <1>10, <2>1, ReferIs
  <2> HIDE DEF q
  <2>4. QED
    BY <1>2, <1>10, <2>2, <2>3, UsedRefers
<1>11. ASSUME NEW n \in Name, AddLocal(n) PROVE Referred'
  <2> DEFINE names == IF asm.scope = "global" THEN globals ELSE asm.locals
  <2>1. Using /\ UNCHANGED <<code, call>> /\ Refer("local", Loc(n, names), n)
    BY <1>11 DEF AddLocal, Called
  <2>2. /\ asm'.consts = asm.consts /\ asm'.upvals = asm.upvals
        /\ asm'.scope = asm.scope /\ asm'.packed = asm.packed
        /\ \/ /\ asm.scope = "global" /\ asm'.locals = asm.locals
              /\ globals' = WithName(n, globals)
           \/ /\ asm.scope = "local" /\ asm'.locals = WithName(n, asm.locals)
              /\ globals' = globals
    BY <1>11, NameTables
  <2>3. names \in Seq(Name) /\ Locals' = WithName(n, names)
    BY <1>1, <1>2, <2>1, <2>2 DEF Locals
  <2>4. Extends(asm'.locals, asm.locals) /\ Extends(globals', globals)
    BY <1>1, <1>2, <2>1, <2>2, ExtendsName
  <2> HIDE DEF names
  <2>5. QED
    BY <1>10, <2>1, <2>2, <2>3, <2>4
<1>12. ASSUME NEW n \in Name, NEW var \in BOOLEAN, AddParam(n, var) PROVE Referred'
  <2>1. /\ Using /\ UNCHANGED <<code, call, globals>> /\ asm.scope = "local"
        /\ Refer("local", Loc(n, asm.locals), n)
    BY <1>12 DEF AddParam, Called
  <2>2. /\ asm'.consts = asm.consts /\ asm'.upvals = asm.upvals
        /\ asm'.scope = asm.scope /\ asm'.packed = asm.packed
        /\ asm'.locals = WithName(n, asm.locals)
    BY <1>12, NameTables
  <2>3. asm.locals \in Seq(Name) /\ Locals' = WithName(n, asm.locals)
        /\ Extends(asm'.locals, asm.locals) /\ Extends(globals', globals)
    BY <1>1, <1>2, <2>1, <2>2, ExtendsName DEF Locals
  <2>4. QED
    BY <1>10, <2>1, <2>2, <2>3
<1>13. ASSUME NEW names \in {"upvals", "locals"}, NEW n \in Name, NameFails(names, n)
       PROVE  Referred'
  <2>1. Using /\ UNCHANGED <<code, call, refs>>
    BY <1>13 DEF NameFails, program
  <2>2. /\ asm'.consts = asm.consts /\ asm'.scope = asm.scope /\ asm'.packed = asm.packed
        /\ asm'.upvals \in {asm.upvals, WithName(n, asm.upvals)}
        /\ asm'.locals \in {asm.locals, WithName(n, asm.locals)}
        /\ globals' \in {globals, WithName(n, globals)}
    BY <1>13, NameTables
  <2>3. /\ Extends(asm'.upvals, asm.upvals) /\ Extends(asm'.locals, asm.locals)
        /\ Extends(globals', globals)
    BY <1>1, <1>2, <2>1, <2>2, ExtendsName
  <2>4. QED
    BY <1>2, <2>1, <2>2, <2>3, UsedRefers
<1>14. QED
  BY <1>5, <1>6, <1>7, <1>8, <1>9, <1>11, <1>12, <1>13

\* A step that leaves the references and the tables, or drops an object.
LEMMA QuietRefers ==
  ASSUME Referred, UNCHANGED <<refs, globals>>, asm' \in {asm, NoAs}, code' \in {code, NoCode},
         call'.op # "assembler", ~(call'.op = "make" /\ call'.stage = "packed")
  PROVE  Referred'
<1>1. asm' # NoAs => asm' = asm
  OBVIOUS
<1>2. Bytecode' => Bytecode /\ code' = code
  BY DEF Bytecode
<1>3. QED
  BY <1>1, <1>2 DEF Referred, Locals

LEMMA OtherRefers ==
  ASSUME CodeInv, Referred, Reuse = FALSE,
         \/ \E scope \in {"local", "global"} : StartAssembler(scope)
         \/ InitBuf \/ StartCode \/ InitWords \/ (\E wraps \in BOOLEAN : EmitWord(wraps))
         \/ AllocCode \/ PackConsts \/ PackWords
         \/ (\E info \in Infos : StartHost(info)) \/ ParseParams \/ ParseUpvals
         \/ CallFails \/ Collect \/ \E o \in {"asm", "code"} : Drop(o)
  PROVE  Referred'
<1>1. ASSUME NEW scope \in {"local", "global"}, StartAssembler(scope) PROVE Referred'
  <2>1. asm' = NoAs /\ code' = NoCode /\ refs' = {} /\ call'.op = "assembler"
    BY <1>1 DEF StartAssembler
  <2>2. QED
    BY <2>1 DEF Referred, Bytecode
<1>2. CASE InitBuf
  <2>1. call.op = "assembler" /\ refs = {} /\ refs' = {} /\ code' = code
    BY <1>2 DEF InitBuf, Referred
  <2>2. code = NoCode
    BY <2>1, Ops DEF CodeInv, InAssembler
  <2>3. call'.op # "make"
    <3>1. CASE call' = Idle
      BY <3>1 DEF Idle
    <3>2. CASE call' = [call EXCEPT !.made = @ + 1]
      BY <2>1, <3>2, Ops DEF CodeInv, InAssembler
    <3>3. QED
      BY <1>2, <3>1, <3>2 DEF InitBuf
  <2>4. QED
    BY <2>1, <2>2, <2>3 DEF Referred, Bytecode
<1>3. CASE StartCode
  BY <1>3, QuietRefers DEF StartCode, program
<1>4. CASE InitWords \/ (\E wraps \in BOOLEAN : EmitWord(wraps)) \/ AllocCode
  <2>1. call.op = "make" /\ UNCHANGED <<asm, code, globals, refs>>
    BY <1>4 DEF InitWords, EmitWord, AllocCode, Making, program
  <2>2. Make(call)
    BY <2>1, MakeOwes
  <2>3. call'.op = "make" /\ call'.stage # "packed"
    <3>1. CASE InitWords
      BY <2>2, <3>1 DEF InitWords, Make
    <3>2. CASE AllocCode
      BY <2>2, <3>2 DEF AllocCode, Make
    <3>3. ASSUME NEW wraps \in BOOLEAN, EmitWord(wraps)
          PROVE  call'.op = "make" /\ call'.stage # "packed"
      <4> DEFINE cap == IF Len(call.words) >= call.cap THEN call.cap * 2 ELSE call.cap
                 w == WordOf(call.i, wraps)
                 f == Placed(call.i)
                 j == WordEnd(call.i)
      <4>1. /\ call.stage = "emit"
            /\ call' = [call EXCEPT !.cap = cap, !.words = Append(@, w), !.labels = f, !.i = j]
        BY <3>3 DEF EmitWord, Making
      <4> HIDE DEF cap, w, f, j
      <4>2. QED
        BY <2>2, <4>1 DEF Make
    <3>4. QED
      BY <1>4, <3>1, <3>2, <3>3
  <2>4. QED
    BY <2>1, <2>3, QuietRefers
<1>5. CASE PackConsts
  <2>1. /\ call.op = "make" /\ call.stage = "object" /\ UNCHANGED <<code, globals, refs>>
        /\ call' = [call EXCEPT !.stage = "packed", !.consts = asm.consts]
        /\ asm' = [asm EXCEPT !.consts = <<>>, !.cap["consts"] = 0, !.packed = TRUE]
    BY <1>5 DEF PackConsts, Making, program
  <2>2. Make(call) /\ asm \in AsRec /\ asm # NoAs /\ code = NoCode /\ ~asm.packed
    BY <2>1, MakeOwes
  <2>3. call'.op = "make" /\ call'.consts = asm.consts
    BY <2>1, <2>2 DEF Make
  <2>4. asm'.packed
    BY <2>1, <2>2 DEF AsRec
  <2>5. \A r \in refs : r[1] = "const" => Den(r, asm.consts, <<>>, <<>>)
    BY <2>2 DEF Referred, Den
  <2>6. QED
    BY <2>1, <2>2, <2>3, <2>4, <2>5 DEF Referred, Bytecode
<1>6. CASE PackWords
  <2>1. /\ call.op = "make" /\ call.stage = "packed" /\ UNCHANGED <<asm, globals, refs>>
        /\ code'.consts = call.consts /\ code'.refs = refs /\ call'.op = "idle"
    BY <1>6 DEF PackWords, Making, Idle
  <2>2. \A r \in refs : r[1] = "const" => Den(r, call.consts, <<>>, <<>>)
    BY <2>1 DEF Referred
  <2>3. QED
    BY <2>1, <2>2 DEF Referred, Locals
<1>7. ASSUME NEW info \in Infos, StartHost(info) PROVE Referred'
  BY <1>7, QuietRefers DEF StartHost, program
<1>8. ASSUME NEW var, CommitHost(var), UNCHANGED <<asm, globals, refs>> PROVE Referred'
  <2>1. code'.kind = "host" /\ call'.op = "idle"
    BY <1>8 DEF CommitHost, HostCode, Idle
  <2>2. QED
    BY <1>8, <2>1 DEF Referred, Bytecode, Locals
<1>9. CASE ParseParams \/ ParseUpvals
  <2>1. call.op = "host" /\ UNCHANGED <<asm, globals, refs>>
    BY <1>9 DEF ParseParams, ParseUpvals
  <2>2. CASE CommitHost(call.info.variadic)
    BY <1>8, <2>1, <2>2
  <2>3. CASE call' = [call EXCEPT !.stage = "upvals"] /\ UNCHANGED code
    <3>1. call'.op = "host"
      BY <2>1, <2>3, Ops DEF CodeInv, InHost
    <3>2. QED
      BY <2>1, <2>3, <3>1, QuietRefers
  <2>4. QED
    BY <1>9, <2>2, <2>3 DEF ParseParams, ParseUpvals
<1>10. CASE CallFails
  BY <1>10, QuietRefers DEF CallFails, program, Idle
<1>11. CASE Collect
  <2>1. /\ UNCHANGED <<refs, globals, call>> /\ asm' \in {asm, NoAs} /\ code' \in {code, NoCode}
        /\ (call.op = "make" => call.stage # "packed")
    BY <1>11 DEF Collect, program
  <2>2. CASE call.op = "assembler"
    <3>1. asm' = NoAs /\ code' = NoCode
      BY <2>1, <2>2, Ops DEF CodeInv, InAssembler
    <3>2. QED
      BY <2>1, <2>2, <3>1 DEF Referred, Bytecode
  <2>3. CASE call.op # "assembler"
    BY <2>1, <2>3, QuietRefers
  <2>4. QED
    BY <2>2, <2>3
<1>12. ASSUME NEW o \in {"asm", "code"}, Drop(o) PROVE Referred'
  BY <1>12, QuietRefers DEF Drop, Ready
<1>13. QED
  BY <1>1, <1>2, <1>3, <1>4, <1>5, <1>6, <1>7, <1>9, <1>10, <1>11, <1>12

LEMMA NextReferred == Reuse = FALSE /\ CodeInv /\ Referred /\ [Next]_vars => Referred'
<1>1. SUFFICES ASSUME Reuse = FALSE, CodeInv, Referred, [Next]_vars PROVE Referred'
  OBVIOUS
<1> USE <1>1
<1>2. CodeInv'
  BY NextCode
<1>3. CASE UNCHANGED vars
  BY <1>3 DEF vars, program, Referred, Bytecode, Locals
<1>4. CASE \/ \E form \in {"A", "B"} : AddInstr(form)
           \/ \E where \in 0 .. MaxCalls, moves \in BOOLEAN : AddLabel(where, moves)
           \/ \E v \in Value : AddConst(v)
           \/ \E n \in Name : AddUpval(n) \/ AddLocal(n) \/ \E var \in BOOLEAN : AddParam(n, var)
           \/ \E b \in Buffer : PutFails(b)
           \/ \E names \in {"upvals", "locals"}, n \in Name : NameFails(names, n)
  BY <1>2, <1>4, UsingRefers
<1>5. CASE \/ \E scope \in {"local", "global"} : StartAssembler(scope)
           \/ InitBuf \/ StartCode \/ InitWords \/ (\E wraps \in BOOLEAN : EmitWord(wraps))
           \/ AllocCode \/ PackConsts \/ PackWords
           \/ (\E info \in Infos : StartHost(info)) \/ ParseParams \/ ParseUpvals
           \/ CallFails \/ Collect \/ \E o \in {"asm", "code"} : Drop(o)
  BY <1>5, OtherRefers
<1>6. QED
  BY <1>3, <1>4, <1>5 DEF Next, Buffer

\* The 16 bits of a reference always denote the constant or variable that it was asked
\* for, in the assembler and in the code made from it, in programs that use no assembler
\* after its code was made: its constants have left it then, and a second code made from
\* it would have the references without them.
THEOREM RefsDenoteHolds ==
  ASSUME Reuse = FALSE
  PROVE  Spec => []RefsDenote
<1>1. Init => Referred
  BY DEF Init, Referred, Idle, Bytecode
<1>2. CodeInv /\ Referred /\ [Next]_vars => Referred'
  BY NextReferred
<1>3. Referred => RefsDenote
  BY DEF Referred, RefsDenote, Den, Locals
<1>4. QED
  BY <1>1, <1>2, <1>3, CodeInvariant, PTL DEF Spec

-------------------------------------------------------------------------------
(* The layout of instructions in words.  F are the forms of n instructions. *)

Forms(n) == [1 .. n -> {"A", "B"}]

\* The bytes of the instructions after i, up to k.
Fill(F, i, k) == (k - i) + Cardinality({m \in i + 1 .. k : F[m] = "B"})

LEMMA LeastIs ==
  ASSUME NEW S \in SUBSET Nat, S # {}
  PROVE  \E n \in S : \A m \in S : n <= m
<1>1. \E n \in S : \A m \in S : <<m, n>> \notin OpToRel(<, Nat)
  BY NatLessThanWellFounded, WFMin, Zenon
<1>2. PICK n \in S : \A m \in S : ~(m < n)
  BY <1>1 DEF OpToRel
<1>3. \A m \in S : n <= m
  BY <1>2
<1>4. QED
  BY <1>3

LEMMA FillIs ==
  ASSUME NEW n \in Nat, NEW F \in Forms(n), NEW i \in 0 .. n, NEW k \in i .. n
  PROVE  /\ IsFiniteSet({m \in i + 1 .. k : F[m] = "B"})
         /\ Fill(F, i, k) \in Nat /\ Fill(F, i, k) >= k - i
<1> DEFINE S == {m \in i + 1 .. k : F[m] = "B"}
<1>1. i \in Int /\ k \in Int /\ i + 1 \in Int /\ i <= k
  OBVIOUS
<1>2. IsFiniteSet(i + 1 .. k)
  BY <1>1, FS_Interval
<1>3. IsFiniteSet(S)
  BY <1>2, FS_Subset
<1>4. Cardinality(S) \in Nat
  BY <1>3, FS_CardinalityType
<1> HIDE DEF S
<1>5. Fill(F, i, k) = (k - i) + Cardinality(S)
  BY DEF Fill, S
<1>6. QED
  BY <1>1, <1>3, <1>4, <1>5 DEF S

\* One instruction more.
LEMMA FillStep ==
  ASSUME NEW n \in Nat, NEW F \in Forms(n), NEW i \in 0 .. n
  PROVE  /\ Fill(F, i, i) = 0
         /\ \A k \in i .. n : k + 1 <= n => Fill(F, i, k + 1) = Fill(F, i, k) + Bytes(F[k + 1])
<1>1. Fill(F, i, i) = 0
  <2>1. {m \in i + 1 .. i : F[m] = "B"} = {}
    OBVIOUS
  <2>2. QED
    BY <2>1, FS_EmptySet DEF Fill
<1>2. ASSUME NEW k \in i .. n, k + 1 <= n
      PROVE  Fill(F, i, k + 1) = Fill(F, i, k) + Bytes(F[k + 1])
  <2> DEFINE S == {m \in i + 1 .. k : F[m] = "B"}
             T == {m \in i + 1 .. k + 1 : F[m] = "B"}
  <2>1. IsFiniteSet(S) /\ Cardinality(S) \in Nat
    BY FillIs, FS_CardinalityType
  <2>2. k + 1 \notin S /\ k + 1 \in 1 .. n /\ i \in Int /\ k \in Int
    <3>1. i \in Int /\ k \in Int /\ k + 1 \in 1 .. n /\ k + 1 \notin i + 1 .. k
      BY <1>2
    <3>2. QED
      BY <3>1
  <2>3. CASE F[k + 1] = "B"
    <3>1. T = S \union {k + 1}
      <4>1. \A m : m \in i + 1 .. k + 1 <=> m \in i + 1 .. k \/ m = k + 1
        OBVIOUS
      <4>2. QED
        BY <2>3, <4>1
    <3>2. Cardinality(T) = Cardinality(S) + 1
      BY <2>1, <2>2, <3>1, FS_AddElement
    <3>3. Bytes(F[k + 1]) = 2
      BY <2>3 DEF Bytes
    <3> HIDE DEF S, T
    <3>4. Fill(F, i, k) = (k - i) + Cardinality(S) /\ Fill(F, i, k + 1) = (k + 1 - i) + Cardinality(T)
      BY DEF Fill, S, T
    <3>5. QED
      BY <2>1, <2>2, <3>2, <3>3, <3>4
  <2>4. CASE F[k + 1] # "B"
    <3>1. T = S
      <4>1. \A m : m \in i + 1 .. k + 1 <=> m \in i + 1 .. k \/ m = k + 1
        OBVIOUS
      <4>2. QED
        BY <2>4, <4>1
    <3>2. Bytes(F[k + 1]) = 1
      BY <2>2, <2>4 DEF Bytes, Forms
    <3> HIDE DEF S, T
    <3>3. Fill(F, i, k) = (k - i) + Cardinality(S) /\ Fill(F, i, k + 1) = (k + 1 - i) + Cardinality(T)
      BY DEF Fill, S, T
    <3>4. QED
      BY <2>1, <2>2, <3>1, <3>2, <3>3
  <2>5. QED
    BY <2>3, <2>4
<1>3. QED
  BY <1>1, <1>2

LEMMA FillMono ==
  ASSUME NEW n \in Nat, NEW F \in Forms(n), NEW i \in 0 .. n, NEW j \in i .. n, NEW k \in j .. n
  PROVE  Fill(F, i, j) + (k - j) <= Fill(F, i, k)
<1> DEFINE S == {m \in i + 1 .. j : F[m] = "B"}
           T == {m \in i + 1 .. k : F[m] = "B"}
<1>1. k \in i .. n /\ i \in Int /\ j \in Int /\ k \in Int
  OBVIOUS
<1>2. IsFiniteSet(T) /\ IsFiniteSet(S)
  BY <1>1, FillIs
<1>3. S \subseteq T
  OBVIOUS
<1>4. Cardinality(S) <= Cardinality(T) /\ Cardinality(S) \in Nat /\ Cardinality(T) \in Nat
  BY <1>2, <1>3, FS_Subset, FS_CardinalityType
<1> HIDE DEF S, T
<1>5. Fill(F, i, j) = (j - i) + Cardinality(S) /\ Fill(F, i, k) = (k - i) + Cardinality(T)
  BY DEF Fill, S, T
<1>6. QED
  BY <1>1, <1>4, <1>5

\* The places of the first n instructions.
PlacedUpTo(F, n, g) ==
  g = [k \in 1 .. n |->
        IF k = 1 THEN [word |-> 1, byte |-> 0]
        ELSE LET end == g[k - 1].byte + Bytes(F[k - 1])
             IN IF end + Bytes(F[k]) <= WordBytes
                  THEN [word |-> g[k - 1].word, byte |-> end]
                  ELSE [word |-> g[k - 1].word + 1, byte |-> 0]]
NextPlace(p, F, k) ==
  IF p.byte + Bytes(F[k - 1]) + Bytes(F[k]) <= WordBytes
    THEN [word |-> p.word, byte |-> p.byte + Bytes(F[k - 1])]
    ELSE [word |-> p.word + 1, byte |-> 0]
FirstPlace == [word |-> 1, byte |-> 0]

LEMMA PlacedUpToIs ==
  ASSUME NEW n \in Nat, NEW F, NEW g
  PROVE  PlacedUpTo(F, n, g) <=>
           g = [k \in 1 .. n |-> IF k = 1 THEN FirstPlace ELSE NextPlace(g[k - 1], F, k)]
BY DEF PlacedUpTo, NextPlace, FirstPlace

LEMMA PlacesExist ==
  ASSUME NEW F, NEW c \in Nat
  PROVE  \E g : PlacedUpTo(F, c, g)
<1> DEFINE Bad == {m \in Nat : ~\E g : PlacedUpTo(F, m, g)}
<1>1. SUFFICES ASSUME Bad # {} PROVE FALSE
  OBVIOUS
<1>2. PICK m \in Bad : \A n \in Bad : m <= n
  <2>1. Bad \in SUBSET Nat
    OBVIOUS
  <2> HIDE DEF Bad
  <2>2. QED
    BY <1>1, <2>1, LeastIs
<1>3. m \in Nat
  BY <1>2
<1>4. CASE m = 0
  <2> DEFINE g == [k \in 1 .. 0 |-> FirstPlace]
  <2>1. \A k : k \notin 1 .. 0
    OBVIOUS
  <2>2. g = [k \in 1 .. 0 |-> IF k = 1 THEN FirstPlace ELSE NextPlace(g[k - 1], F, k)]
    BY <2>1
  <2>3. PlacedUpTo(F, 0, g)
    BY <2>2, PlacedUpToIs
  <2>4. QED
    BY <1>2, <1>4, <2>3
<1>5. CASE m # 0
  <2>1. m - 1 \in Nat /\ ~(m <= m - 1)
    BY <1>3, <1>5
  <2>2. m - 1 \notin Bad
    BY <1>2, <2>1
  <2>3. PICK g : PlacedUpTo(F, m - 1, g)
    BY <2>1, <2>2
  <2> DEFINE f == [k \in 1 .. m |-> IF k = 1 THEN FirstPlace ELSE NextPlace(g[k - 1], F, k)]
  <2>4. \A k \in 1 .. m - 1 : g[k] = IF k = 1 THEN FirstPlace ELSE NextPlace(g[k - 1], F, k)
    <3>1. g = [k \in 1 .. m - 1 |-> IF k = 1 THEN FirstPlace ELSE NextPlace(g[k - 1], F, k)]
      BY <2>1, <2>3, PlacedUpToIs
    <3>2. \A k \in 1 .. m - 1 :
            [i \in 1 .. m - 1 |-> IF i = 1 THEN FirstPlace ELSE NextPlace(g[i - 1], F, i)][k]
              = IF k = 1 THEN FirstPlace ELSE NextPlace(g[k - 1], F, k)
      OBVIOUS
    <3>3. QED
      BY <3>1, <3>2, Zenon
  <2>5. \A k \in 1 .. m - 1 : k \in 1 .. m
    BY <1>3
  <2>6. \A k \in 1 .. m - 1 : f[k] = g[k]
    BY <2>4, <2>5
  <2>7. \A k \in 1 .. m : k # 1 => k - 1 \in 1 .. m - 1
    BY <1>3
  <2>8. \A k \in 1 .. m : k # 1 => f[k - 1] = g[k - 1]
    <3> HIDE DEF f
    <3>1. QED
      BY <2>6, <2>7
  <2>9. f = [k \in 1 .. m |-> IF k = 1 THEN FirstPlace ELSE NextPlace(f[k - 1], F, k)]
    BY <2>8
  <2>10. PlacedUpTo(F, m, f)
    BY <1>3, <2>9, PlacedUpToIs
  <2>11. QED
    BY <1>2, <2>10
<1>6. QED
  BY <1>4, <1>5

LEMMA PlacesIs ==
  ASSUME NEW n \in Nat, NEW F, DOMAIN F = 1 .. n
  PROVE  /\ n > 0 => Places(F)[1] = FirstPlace
         /\ \A k \in 1 .. n : k + 1 <= n => Places(F)[k + 1] = NextPlace(Places(F)[k], F, k + 1)
<1>1. PlacedUpTo(F, n, Places(F))
  <2>1. PICK g : PlacedUpTo(F, n, g)
    BY PlacesExist
  <2>2. Places(F) = CHOOSE q : PlacedUpTo(F, n, q)
    BY DEF Places, PlacedUpTo
  <2>3. QED
    BY <2>1, <2>2
<1> DEFINE g == Places(F)
           M(k) == NextPlace(g[k - 1], F, k)
           E == FirstPlace
<1>2. g = [k \in 1 .. n |-> IF k = 1 THEN E ELSE M(k)]
  BY <1>1, PlacedUpToIs
<1> HIDE DEF g, M, E
<1>3. \A k \in 1 .. n : g[k] = IF k = 1 THEN E ELSE M(k)
  <2>1. \A k \in 1 .. n : [i \in 1 .. n |-> IF i = 1 THEN E ELSE M(i)][k] = IF k = 1 THEN E ELSE M(k)
    OBVIOUS
  <2>2. QED
    BY <1>2, <2>1, Zenon
<1>4. n > 0 => g[1] = E
  BY <1>3
<1>5. ASSUME NEW k \in 1 .. n, k + 1 <= n PROVE g[k + 1] = NextPlace(g[k], F, k + 1)
  <2>1. k + 1 \in 1 .. n /\ k + 1 # 1 /\ (k + 1) - 1 = k
    BY <1>5
  <2>2. g[k + 1] = M(k + 1)
    BY <1>3, <2>1
  <2>3. M(k + 1) = NextPlace(g[(k + 1) - 1], F, k + 1)
    BY DEF M
  <2>4. QED
    BY <2>1, <2>2, <2>3
<1>6. QED
  BY <1>4, <1>5 DEF g, E

\* An instruction is in no word before those of the instructions before it.
LEMMA PlacesMono ==
  ASSUME NEW n \in Nat, NEW F, DOMAIN F = 1 .. n
  PROVE  \A l \in 1 .. n : /\ Places(F)[l].word \in Nat
                          /\ \A k \in 1 .. l : Places(F)[k].word <= Places(F)[l].word
<1> DEFINE P == Places(F)
           Good(l) == P[l].word \in Nat /\ \A k \in 1 .. l : P[k].word <= P[l].word
           Bad == {l \in Nat : l \in 1 .. n /\ ~Good(l)}
<1>1. /\ n > 0 => P[1].word = 1
      /\ \A k \in 1 .. n : k + 1 <= n => P[k + 1].word = P[k].word \/ P[k + 1].word = P[k].word + 1
  <2>1. n > 0 => P[1] = FirstPlace
    BY PlacesIs
  <2>2. \A k \in 1 .. n : k + 1 <= n => P[k + 1] = NextPlace(P[k], F, k + 1)
    BY PlacesIs
  <2> HIDE DEF P
  <2>3. \A p, k : NextPlace(p, F, k).word = p.word \/ NextPlace(p, F, k).word = p.word + 1
    BY DEF NextPlace
  <2>4. FirstPlace.word = 1
    BY DEF FirstPlace
  <2>5. QED
    BY <2>1, <2>2, <2>3, <2>4
<1> HIDE DEF P
<1>2. SUFFICES ASSUME Bad # {} PROVE FALSE
  BY DEF P
<1>3. PICK l \in Bad : \A m \in Bad : l <= m
  <2>1. Bad \in SUBSET Nat
    OBVIOUS
  <2> HIDE DEF Bad
  <2>2. QED
    BY <1>2, <2>1, LeastIs
<1>4. l \in Nat /\ l \in 1 .. n /\ ~Good(l)
  BY <1>3
<1>5. CASE l = 1
  <2>1. P[1].word = 1 /\ \A k \in 1 .. 1 : k = 1
    BY <1>1, <1>4
  <2>2. QED
    BY <1>4, <1>5, <2>1
<1>6. CASE l # 1
  <2>1. l - 1 \in Nat /\ l - 1 \in 1 .. n /\ ~(l <= l - 1) /\ (l - 1) + 1 = l /\ l <= n
    BY <1>4, <1>6
  <2>2. Good(l - 1)
    BY <1>3, <2>1
  <2>3. P[l].word = P[l - 1].word \/ P[l].word = P[l - 1].word + 1
    BY <1>1, <2>1
  <2>4. P[l].word \in Nat /\ P[l - 1].word <= P[l].word /\ P[l - 1].word \in Nat
    BY <2>2, <2>3
  <2>5. ASSUME NEW k \in 1 .. l PROVE P[k].word <= P[l].word
    <3>1. CASE k = l
      BY <2>4, <3>1
    <3>2. CASE k # l
      <4>1. k \in 1 .. l - 1
        BY <1>4, <3>2
      <4>2. P[k].word <= P[l - 1].word
        BY <2>2, <4>1
      <4>3. P[k].word \in Nat
        <5>1. k \in Nat /\ k \in 1 .. n /\ ~(l <= k)
          BY <1>4, <4>1
        <5>2. QED
          BY <1>3, <5>1
      <4>4. QED
        BY <2>4, <4>2, <4>3
    <3>3. QED
      BY <3>1, <3>2
  <2>6. QED
    BY <1>4, <2>4, <2>5
<1>7. QED
  BY <1>5, <1>6
-------------------------------------------------------------------------------
(* Words. *)

BytesRange == \A form \in {"A", "B"} : Bytes(form) \in 1 .. 2

LEMMA BytesIs == BytesRange
BY DEF BytesRange, Bytes

\* The word that starts after instruction i has room for those up to j.
LEMMA PlacesRun ==
  ASSUME NEW n \in Nat, NEW F \in Forms(n), NEW i \in 0 .. n - 1, NEW j \in i + 1 .. n,
         NEW w \in Nat, Places(F)[i + 1] = [word |-> w, byte |-> 0], Fill(F, i, j) <= WordBytes
  PROVE  /\ \A k \in i + 1 .. j : Places(F)[k] = [word |-> w, byte |-> Fill(F, i, k - 1)]
         /\ j < n /\ Fill(F, i, j + 1) > WordBytes =>
              Places(F)[j + 1] = [word |-> w + 1, byte |-> 0]
<1> DEFINE P == Places(F)
           At(k) == [word |-> w, byte |-> Fill(F, i, k - 1)]
<1>1. DOMAIN F = 1 .. n /\ \A k \in 1 .. n : F[k] \in {"A", "B"} /\ Bytes(F[k]) \in Nat
  <2>1. DOMAIN F = 1 .. n /\ \A k \in 1 .. n : F[k] \in {"A", "B"}
    BY DEF Forms
  <2>2. \A x : x \in 1 .. 2 => x \in Nat
    OBVIOUS
  <2>3. QED
    BY <2>1, <2>2, BytesIs DEF BytesRange
<1>2. \A k \in 1 .. n : k + 1 <= n => P[k + 1] = NextPlace(P[k], F, k + 1)
  BY <1>1, PlacesIs
<1>3. WordBytes \in Nat
  BY CodeAssumption
<1>4. i \in 0 .. n /\ i \in Nat /\ j \in Nat
  OBVIOUS
<1>5. P[i + 1] = At(i + 1)
  <2>1. Fill(F, i, i) = 0 /\ (i + 1) - 1 = i
    BY <1>4, FillStep
  <2>2. QED
    BY <2>1
<1> HIDE DEF P
\* From one instruction to the next.
<1>6. ASSUME NEW k \in i + 1 .. n - 1, P[k] = At(k)
      PROVE  P[k + 1] = IF Fill(F, i, k + 1) <= WordBytes THEN At(k + 1)
                        ELSE [word |-> w + 1, byte |-> 0]
  <2>1. /\ k \in 1 .. n /\ k + 1 <= n /\ k \in i .. n /\ k - 1 \in i .. n
        /\ (k - 1) + 1 = k /\ (k + 1) - 1 = k
    OBVIOUS
  <2>2. Fill(F, i, k) = Fill(F, i, k - 1) + Bytes(F[k])
    <3>1. (k - 1) + 1 <= n
      BY <2>1
    <3>2. Fill(F, i, (k - 1) + 1) = Fill(F, i, k - 1) + Bytes(F[(k - 1) + 1])
      BY <1>4, <2>1, <3>1, FillStep
    <3>3. QED
      BY <2>1, <3>2
  <2>3. Fill(F, i, k + 1) = Fill(F, i, k) + Bytes(F[k + 1])
    BY <1>4, <2>1, FillStep
  <2>4. P[k + 1] = NextPlace(At(k), F, k + 1)
    BY <1>2, <1>6, <2>1
  <2>5. At(k).word = w /\ At(k).byte = Fill(F, i, k - 1)
    OBVIOUS
  <2>6. NextPlace(At(k), F, k + 1) =
          IF Fill(F, i, k - 1) + Bytes(F[k]) + Bytes(F[k + 1]) <= WordBytes
            THEN [word |-> w, byte |-> Fill(F, i, k - 1) + Bytes(F[k])]
            ELSE [word |-> w + 1, byte |-> 0]
    <3> HIDE DEF At
    <3>1. QED
      BY <2>1, <2>5 DEF NextPlace
  <2>7. At(k + 1) = [word |-> w, byte |-> Fill(F, i, k)]
    BY <2>1
  <2>8. QED
    BY <2>2, <2>3, <2>4, <2>6, <2>7
<1>7. \A k \in i + 1 .. j : P[k] = At(k)
  <2> DEFINE Bad == {k \in Nat : k \in i + 1 .. j /\ P[k] # At(k)}
  <2> HIDE DEF At
  <2>1. SUFFICES ASSUME Bad # {} PROVE FALSE
    OBVIOUS
  <2>2. PICK k \in Bad : \A m \in Bad : k <= m
    <3>1. Bad \in SUBSET Nat
      OBVIOUS
    <3> HIDE DEF Bad
    <3>2. QED
      BY <2>1, <3>1, LeastIs
  <2>3. k \in Nat /\ k \in i + 1 .. j /\ P[k] # At(k)
    BY <2>2
  <2>4. k # i + 1
    BY <1>5, <2>3
  <2>5. k - 1 \in i + 1 .. n - 1 /\ k - 1 \in i + 1 .. j /\ k - 1 \in Nat /\ ~(k <= k - 1)
        /\ (k - 1) + 1 = k /\ k \in i .. n /\ j \in k .. n
    BY <2>3, <2>4
  <2>6. P[k - 1] = At(k - 1)
    BY <2>2, <2>5
  <2>7. Fill(F, i, k) <= WordBytes
    <3>1. Fill(F, i, k) + (j - k) <= Fill(F, i, j)
      BY <1>4, <2>5, FillMono
    <3>2. j \in i .. n
      BY <1>4
    <3>3. Fill(F, i, k) \in Nat /\ Fill(F, i, j) \in Nat
      BY <1>4, <2>5, <3>2, FillIs
    <3>4. QED
      BY <1>3, <2>5, <3>1, <3>3
  <2>8. P[(k - 1) + 1] = At((k - 1) + 1)
    <3>1. Fill(F, i, (k - 1) + 1) <= WordBytes
      BY <2>5, <2>7
    <3>2. QED
      BY <1>6, <2>5, <2>6, <3>1
  <2>9. QED
    BY <2>3, <2>5, <2>8
<1>8. ASSUME j < n, Fill(F, i, j + 1) > WordBytes
      PROVE  P[j + 1] = [word |-> w + 1, byte |-> 0]
  <2>1. j \in i + 1 .. n - 1 /\ P[j] = At(j)
    BY <1>4, <1>7, <1>8
  <2>2. Fill(F, i, j + 1) \in Nat
    <3>1. j + 1 \in i .. n
      BY <1>4, <1>8
    <3>2. QED
      BY <1>4, <3>1, FillIs
  <2>3. ~(Fill(F, i, j + 1) <= WordBytes)
    BY <1>3, <1>8, <2>2
  <2>4. QED
    BY <1>6, <2>1, <2>3
<1>9. QED
  BY <1>7, <1>8 DEF P

\* The forms of instructions.
FormsOf(instrs) == [k \in DOMAIN instrs |-> instrs[k].form]

LEMMA FormsOfIs ==
  ASSUME NEW instrs \in Seq(Instr)
  PROVE  /\ Len(instrs) \in Nat /\ DOMAIN instrs = 1 .. Len(instrs)
         /\ FormsOf(instrs) \in Forms(Len(instrs))
         /\ \A k \in 1 .. Len(instrs) : FormsOf(instrs)[k] = instrs[k].form
<1>1. Len(instrs) \in Nat /\ DOMAIN instrs = 1 .. Len(instrs)
      /\ \A k \in 1 .. Len(instrs) : instrs[k] \in Instr
  OBVIOUS
<1>2. QED
  BY <1>1 DEF Forms, FormsOf, Instr

LEMMA SpanIs ==
  ASSUME asm.instrs \in Seq(Instr), NEW i \in 0 .. Len(asm.instrs), NEW k \in i .. Len(asm.instrs)
  PROVE  Span(i, k) = Fill(FormsOf(asm.instrs), i, k)
<1>1. Len(asm.instrs) \in Nat /\ \A m \in i + 1 .. k : m \in 1 .. Len(asm.instrs)
  BY FormsOfIs
<1>2. {m \in i + 1 .. k : asm.instrs[m].form = "B"} = {m \in i + 1 .. k : FormsOf(asm.instrs)[m] = "B"}
  BY <1>1, FormsOfIs
<1>3. QED
  BY <1>2 DEF Span, Fill

\* A word ends where it has no room for the next instruction.
LEMMA WordEndIs ==
  ASSUME asm.instrs \in Seq(Instr), NEW i \in 0 .. Len(asm.instrs) - 1
  PROVE  LET n == Len(asm.instrs)
             F == FormsOf(asm.instrs)
         IN /\ WordEnd(i) \in i + 1 .. n /\ Fill(F, i, WordEnd(i)) <= WordBytes
            /\ WordEnd(i) = n \/ Fill(F, i, WordEnd(i) + 1) > WordBytes
<1> DEFINE n == Len(asm.instrs)
           F == FormsOf(asm.instrs)
           Ends(k) == Span(i, k) <= WordBytes /\ (k = n \/ Span(i, k + 1) > WordBytes)
<1>1. n \in Nat /\ F \in Forms(n)
  BY FormsOfIs
<1>2. \A k \in i .. n : Span(i, k) = Fill(F, i, k) /\ Fill(F, i, k) \in Nat
  <2>1. i \in 0 .. n
    BY <1>1
  <2>2. QED
    BY <1>1, <2>1, SpanIs, FillIs
<1> HIDE DEF n, F
<1>3. WordBytes \in Nat /\ WordBytes >= 2
  BY CodeAssumption
<1>4. i \in 0 .. n - 1
  BY DEF n
<1>5. Fill(F, i, i + 1) <= WordBytes
  <2>1. i \in 0 .. n /\ i \in i .. n /\ i + 1 <= n /\ i + 1 \in 1 .. n /\ i + 1 \in i .. n
    BY <1>1, <1>4
  <2>2. Fill(F, i, i + 1) = Fill(F, i, i) + Bytes(F[i + 1]) /\ Fill(F, i, i) = 0
    BY <1>1, <2>1, FillStep
  <2>3. Bytes(F[i + 1]) \in 1 .. 2
    BY <1>1, <2>1, BytesIs DEF BytesRange, Forms
  <2>4. QED
    BY <1>3, <2>2, <2>3
<1>6. \E k \in i + 1 .. n : Ends(k)
  <2> DEFINE S == {k \in Nat : k \in i + 1 .. n /\ (k = n \/ Span(i, k + 1) > WordBytes)}
  <2>1. n \in S
    BY <1>1, <1>4
  <2>2. PICK k \in S : \A m \in S : k <= m
    <3>1. S \in SUBSET Nat
      OBVIOUS
    <3> HIDE DEF S
    <3>2. QED
      BY <2>1, <3>1, LeastIs
  <2>3. k \in Nat /\ k \in i + 1 .. n /\ (k = n \/ Span(i, k + 1) > WordBytes)
    BY <2>2
  <2>4. CASE k = i + 1
    <3>1. i + 1 \in i .. n
      BY <1>1, <1>4
    <3>2. Span(i, k) <= WordBytes
      BY <1>2, <1>5, <2>4, <3>1
    <3>3. QED
      BY <2>3, <3>2
  <2>5. CASE k # i + 1
    <3>1. k - 1 \in Nat /\ k - 1 \in i + 1 .. n /\ ~(k <= k - 1) /\ (k - 1) + 1 = k /\ k \in i .. n
      BY <1>1, <1>4, <2>3, <2>5
    <3>2. k - 1 \notin S
      BY <2>2, <3>1
    <3>3. ~(Span(i, k) > WordBytes)
      BY <3>1, <3>2
    <3>4. Span(i, k) \in Nat
      BY <1>2, <3>1
    <3>5. Span(i, k) <= WordBytes
      BY <1>3, <3>3, <3>4
    <3>6. QED
      BY <2>3, <3>5
  <2>6. QED
    BY <2>4, <2>5
<1>7. WordEnd(i) \in i + 1 .. n /\ Ends(WordEnd(i))
  <2>1. WordEnd(i) = CHOOSE k \in i + 1 .. n : Ends(k)
    BY DEF WordEnd, n
  <2> HIDE DEF Ends
  <2>2. QED
    BY <1>6, <2>1
<1> DEFINE j == WordEnd(i)
<1>8. j \in i + 1 .. n /\ Span(i, j) <= WordBytes /\ (j = n \/ Span(i, j + 1) > WordBytes)
  BY <1>7
<1> HIDE DEF j
<1>9. j \in i .. n /\ (j = n \/ j + 1 \in i .. n)
  BY <1>1, <1>4, <1>8
<1>10. /\ Fill(F, i, j) <= WordBytes
       /\ j = n \/ Fill(F, i, j + 1) > WordBytes
  BY <1>2, <1>8, <1>9
<1>11. QED
  BY <1>8, <1>10 DEF j, n, F
-------------------------------------------------------------------------------
(* Labels and the layout so far. *)

\* A label is listed by the instruction it is before, or waits for the next one.
Labelled(instrs, labels, top) ==
  \A l \in DOMAIN labels :
    /\ labels[l].where <= Len(instrs)
    /\ l \in top <=> labels[l].where = Len(instrs)
    /\ \A k \in DOMAIN instrs : l \in instrs[k].labels <=> labels[l].where = k - 1

LabelAt(F, where) == [addr |-> where, shift |-> Places(F)[where + 1].byte]

\* What makeByteCode has of the layout after c.i instructions.
Emitted(instrs, labels, c) ==
  LET n == Len(instrs)
      F == FormsOf(instrs)
  IN /\ c.i \in 0 .. n /\ DOMAIN c.labels = DOMAIN labels
     /\ \A l \in DOMAIN labels :
          c.labels[l] = IF labels[l].where < c.i THEN LabelAt(F, labels[l].where) ELSE Unplaced
     /\ Len(c.words) = IF c.i = 0 THEN 0 ELSE Places(F)[c.i].word
     /\ c.i < n => Places(F)[c.i + 1] = [word |-> Len(c.words) + 1, byte |-> 0]
     /\ \A w \in DOMAIN c.words : Narrow(F, w) => ReadsBack(F, w, c.words[w])

\* The invariant: labels are linked, and the code is laid out as far as it is made.
Laid ==
  /\ asm # NoAs => Labelled(asm.instrs, asm.labels, asm.top)
  /\ call.op = "make" =>
       /\ Emitted(asm.instrs, asm.labels, call)
       /\ call.stage = "init" => call.i = 0
       /\ call.stage \in {"object", "packed"} => call.i = Len(asm.instrs)
  /\ LayoutExact

\* The labels of a word get the numbers of their instructions and their bytes.
LEMMA PlacedIs ==
  ASSUME asm.instrs \in Seq(Instr), asm.labels \in Seq(Label),
         Labelled(asm.instrs, asm.labels, asm.top), NEW i \in 0 .. Len(asm.instrs) - 1,
         DOMAIN call.labels = DOMAIN asm.labels, NEW l \in DOMAIN asm.labels
  PROVE  Placed(i)[l] =
           IF asm.labels[l].where \in i .. WordEnd(i) - 1
             THEN [addr |-> asm.labels[l].where,
                   shift |-> Fill(FormsOf(asm.instrs), i, asm.labels[l].where)]
             ELSE call.labels[l]
<1> DEFINE n == Len(asm.instrs)
           F == FormsOf(asm.instrs)
           j == WordEnd(i)
           where == asm.labels[l].where
           ks == {k \in i + 1 .. j : l \in asm.instrs[k].labels}
           Greatest == CHOOSE m \in ks : \A k \in ks : m >= k
<1>1. n \in Nat /\ DOMAIN asm.instrs = 1 .. n /\ F \in Forms(n)
  BY FormsOfIs
<1>2. where \in Nat
  <2>1. asm.labels[l] \in Label
    OBVIOUS
  <2>2. QED
    BY <2>1 DEF Label
<1>3. j \in i + 1 .. n
  BY WordEndIs
<1>4. Placed(i)[l] = IF ks = {} THEN call.labels[l]
                     ELSE [addr |-> Greatest - 1, shift |-> Span(i, Greatest - 1)]
  BY DEF Placed
<1>5. \A k \in 1 .. n : l \in asm.instrs[k].labels <=> where = k - 1
  BY <1>1 DEF Labelled
<1> HIDE DEF n, F, j, where, Greatest
<1>6. i \in 0 .. n - 1 /\ i \in Nat /\ n \in Nat /\ j \in Nat
  <2>1. i \in 0 .. n - 1
    BY DEF n
  <2>2. QED
    BY <1>1, <1>3, <2>1
<1>7. \A k : k \in ks <=> k \in i + 1 .. j /\ where = k - 1
  <2>1. \A k \in i + 1 .. j : k \in 1 .. n
    BY <1>3, <1>6
  <2>2. QED
    BY <1>5, <2>1
<1> HIDE DEF ks
<1>8. CASE where \in i .. j - 1
  <2>1. where + 1 \in i + 1 .. j /\ (where + 1) - 1 = where /\ where \in i .. n
    BY <1>2, <1>3, <1>6, <1>8
  <2>2. \A k \in ks : k = where + 1
    BY <1>2, <1>6, <1>7
  <2>3. where + 1 \in ks
    BY <1>7, <2>1
  <2>4. ks = {where + 1}
    BY <2>2, <2>3
  <2>5. Greatest = where + 1
    <3>1. \A k \in ks : where + 1 >= k
      BY <1>2, <2>2
    <3>2. Greatest \in ks
      BY <2>3, <3>1 DEF Greatest
    <3>3. QED
      BY <2>2, <3>2
  <2>6. Span(i, where) = Fill(F, i, where)
    <3>1. i \in 0 .. n
      BY <1>6
    <3>2. QED
      BY <2>1, <3>1, SpanIs DEF n, F
  <2>7. Placed(i)[l] = [addr |-> where, shift |-> Fill(F, i, where)]
    BY <1>4, <2>1, <2>3, <2>5, <2>6
  <2>8. QED
    BY <1>8, <2>7 DEF where, j, F
<1>9. CASE where \notin i .. j - 1
  <2>1. ks = {}
    <3>1. \A k \in i + 1 .. j : k - 1 \in i .. j - 1
      BY <1>6
    <3>2. QED
      BY <1>7, <1>9, <3>1
  <2>2. QED
    BY <1>4, <1>9, <2>1 DEF where, j
<1>10. QED
  BY <1>8, <1>9

\* The word that starts after instruction i has its instructions, when they fill no
\* more than an unsigned.
LEMMA WordReads ==
  ASSUME asm.instrs \in Seq(Instr), NEW i \in 0 .. Len(asm.instrs) - 1, NEW wraps \in BOOLEAN,
         NEW w \in Nat, Places(FormsOf(asm.instrs))[i + 1] = [word |-> w, byte |-> 0],
         \A k \in 1 .. i : Places(FormsOf(asm.instrs))[k].word # w,
         Narrow(FormsOf(asm.instrs), w)
  PROVE  ReadsBack(FormsOf(asm.instrs), w, WordOf(i, wraps))
<1> DEFINE n == Len(asm.instrs)
           F == FormsOf(asm.instrs)
           j == WordEnd(i)
           W == WordOf(i, wraps)
<1>1. n \in Nat /\ DOMAIN F = 1 .. n /\ F \in Forms(n)
      /\ \A k \in 1 .. n : asm.instrs[k].form = F[k]
  BY FormsOfIs DEF Forms
<1>2. IntBytes \in Nat /\ WordBytes \in Nat /\ IntBytes <= WordBytes /\ IntBytes > 0
  BY CodeAssumption
<1>3. /\ j \in i + 1 .. n /\ Fill(F, i, j) <= WordBytes
      /\ j = n \/ Fill(F, i, j + 1) > WordBytes
  BY WordEndIs
<1>4. i \in 0 .. n - 1 /\ i \in 0 .. n /\ i \in Nat /\ j \in Nat
  BY <1>1, <1>3
<1>5. \A k \in i .. n : Fill(F, i, k) \in Nat /\ Span(i, k) = Fill(F, i, k)
  BY <1>1, <1>4, FillIs, SpanIs
<1>6. \A b \in 0 .. WordBytes - 1 :
        W[b] = IF b >= IntBytes THEN {}
               ELSE {kp \in (i + 1 .. j) \X {0, 1} :
                       /\ kp[2] < Bytes(asm.instrs[kp[1]].form)
                       /\ ShiftIn(Span(i, kp[1] - 1), wraps) + kp[2] = b}
  BY DEF WordOf
<1> DEFINE P == Places(F)
<1>7. /\ \A k \in i + 1 .. j : P[k] = [word |-> w, byte |-> Fill(F, i, k - 1)]
      /\ j < n => P[j + 1] = [word |-> w + 1, byte |-> 0]
  <2>1. P[i + 1] = [word |-> w, byte |-> 0]
    OBVIOUS
  <2> HIDE DEF n, F, j
  <2>2. /\ \A k \in i + 1 .. j : P[k] = [word |-> w, byte |-> Fill(F, i, k - 1)]
        /\ j < n /\ Fill(F, i, j + 1) > WordBytes => P[j + 1] = [word |-> w + 1, byte |-> 0]
    BY <1>1, <1>3, <1>4, <2>1, PlacesRun
  <2>3. j < n => j # n
    BY <1>1, <1>4
  <2>4. QED
    BY <1>3, <2>2, <2>3
<1>8. \A k \in 1 .. i : P[k].word # w
  OBVIOUS
<1>9. \A k \in 1 .. n : P[k].word = w => P[k].byte + Bytes(F[k]) <= IntBytes
  BY <1>1 DEF Narrow
<1>10. \A l \in 1 .. n : /\ P[l].word \in Nat
                        /\ \A k \in 1 .. l : P[k].word <= P[l].word
  BY <1>1, PlacesMono
<1>11. \A k \in 1 .. n : Bytes(F[k]) \in 1 .. 2
  BY <1>1, BytesIs DEF Forms, BytesRange
<1> HIDE DEF n, F, j, W, P
<1>12. \A k \in i + 1 .. j : /\ k \in 1 .. n /\ k - 1 \in i .. n /\ Fill(F, i, k - 1) \in Nat
                            /\ P[k].word = w /\ P[k].byte = Fill(F, i, k - 1)
  <2>1. ASSUME NEW k \in i + 1 .. j
        PROVE  /\ k \in 1 .. n /\ k - 1 \in i .. n /\ Fill(F, i, k - 1) \in Nat
               /\ P[k].word = w /\ P[k].byte = Fill(F, i, k - 1)
    <3>1. k \in 1 .. n /\ k - 1 \in i .. n
      BY <1>1, <1>3, <1>4
    <3>2. P[k] = [word |-> w, byte |-> Fill(F, i, k - 1)]
      BY <1>7
    <3>3. QED
      BY <1>5, <3>1, <3>2
  <2>2. QED
    BY <2>1
\* The instructions of word w are those from i + 1 to j.
<1>13. \A k \in 1 .. n : P[k].word = w <=> k \in i + 1 .. j
  <2>1. ASSUME NEW k \in 1 .. n, P[k].word = w, k \notin i + 1 .. j PROVE FALSE
    <3>1. k \in 1 .. i \/ k \in j + 1 .. n
      BY <1>1, <1>4, <2>1
    <3>2. CASE k \in 1 .. i
      BY <1>8, <2>1, <3>2
    <3>3. CASE k \in j + 1 .. n
      <4>1. j < n /\ j + 1 \in 1 .. n /\ j + 1 \in 1 .. k
        BY <1>1, <1>4, <3>3
      <4>2. P[j + 1].word = w + 1
        <5>1. P[j + 1] = [word |-> w + 1, byte |-> 0]
          BY <1>7, <4>1
        <5>2. QED
          BY <5>1
      <4>3. P[j + 1].word <= P[k].word
        BY <1>10, <4>1
      <4>4. QED
        BY <2>1, <4>2, <4>3
    <3>4. QED
      BY <3>1, <3>2, <3>3
  <2>2. QED
    BY <1>12, <2>1
<1>14. \A k \in i + 1 .. j : /\ Fill(F, i, k - 1) + Bytes(F[k]) <= IntBytes
                            /\ ShiftIn(Span(i, k - 1), wraps) = P[k].byte
                            /\ Bytes(asm.instrs[k].form) = Bytes(F[k])
  <2>1. ASSUME NEW k \in i + 1 .. j
        PROVE  /\ Fill(F, i, k - 1) + Bytes(F[k]) <= IntBytes
               /\ ShiftIn(Span(i, k - 1), wraps) = P[k].byte
               /\ Bytes(asm.instrs[k].form) = Bytes(F[k])
    <3>1. /\ k \in 1 .. n /\ k - 1 \in i .. n /\ Fill(F, i, k - 1) \in Nat
          /\ P[k].word = w /\ P[k].byte = Fill(F, i, k - 1)
      BY <1>12
    <3>2. Fill(F, i, k - 1) + Bytes(F[k]) <= IntBytes /\ Bytes(F[k]) \in 1 .. 2
      BY <1>9, <1>11, <3>1
    <3>3. Fill(F, i, k - 1) < IntBytes
      BY <1>2, <3>1, <3>2
    <3>4. Span(i, k - 1) = Fill(F, i, k - 1)
      BY <1>5, <3>1
    <3>5. ShiftIn(Span(i, k - 1), wraps) = Fill(F, i, k - 1)
      BY <3>3, <3>4 DEF ShiftIn
    <3>6. asm.instrs[k].form = F[k]
      BY <1>1, <3>1
    <3>7. QED
      BY <3>1, <3>2, <3>5, <3>6
  <2>2. QED
    BY <2>1
<1>15. ASSUME NEW b \in 0 .. WordBytes - 1
       PROVE  W[b] = {kp \in (1 .. n) \X {0, 1} :
                        /\ kp[2] < Bytes(F[kp[1]])
                        /\ P[kp[1]].word = w /\ P[kp[1]].byte + kp[2] = b}
  <2> DEFINE R == {kp \in (1 .. n) \X {0, 1} :
                     /\ kp[2] < Bytes(F[kp[1]])
                     /\ P[kp[1]].word = w /\ P[kp[1]].byte + kp[2] = b}
             L == {kp \in (i + 1 .. j) \X {0, 1} :
                     /\ kp[2] < Bytes(asm.instrs[kp[1]].form)
                     /\ ShiftIn(Span(i, kp[1] - 1), wraps) + kp[2] = b}
  <2>1. L = R
    <3>1. \A k \in i + 1 .. j : k \in 1 .. n
      BY <1>12
    <3>2. ASSUME NEW k, NEW p \in {0, 1}
          PROVE  <<k, p>> \in L <=> <<k, p>> \in R
      <4>1. CASE k \in i + 1 .. j
        BY <1>12, <1>14, <4>1
      <4>2. CASE k \notin i + 1 .. j
        <5>1. <<k, p>> \notin L
          BY <4>2
        <5>2. <<k, p>> \notin R
          BY <1>13, <4>2
        <5>3. QED
          BY <5>1, <5>2
      <4>3. QED
        BY <4>1, <4>2
    <3>3. \A kp \in L \union R : \E k \in 1 .. n, p \in {0, 1} : kp = <<k, p>>
      BY <3>1
    <3> HIDE DEF L, R
    <3>4. ASSUME NEW kp \in L \union R PROVE kp \in L <=> kp \in R
      <4>1. PICK k \in 1 .. n, p \in {0, 1} : kp = <<k, p>>
        BY <3>3
      <4>2. QED
        BY <3>2, <4>1
    <3>5. QED
      BY <3>4
  <2>2. CASE b >= IntBytes
    <3>1. ASSUME NEW kp \in R PROVE FALSE
      <4>1. PICK k \in 1 .. n, p \in {0, 1} : kp = <<k, p>>
        OBVIOUS
      <4>2. p < Bytes(F[k]) /\ P[k].word = w /\ P[k].byte + p = b
        BY <4>1
      <4>3. k \in i + 1 .. j
        BY <1>13, <4>2
      <4>4. /\ Fill(F, i, k - 1) + Bytes(F[k]) <= IntBytes /\ P[k].byte = Fill(F, i, k - 1)
            /\ Fill(F, i, k - 1) \in Nat /\ Bytes(F[k]) \in 1 .. 2
        BY <1>11, <1>12, <1>14, <4>3
      <4>5. QED
        BY <1>2, <2>2, <4>2, <4>4
    <3>2. R = {}
      BY <3>1
    <3>3. QED
      BY <1>6, <2>2, <3>2
  <2>3. CASE ~(b >= IntBytes)
    <3>1. W[b] = L
      BY <1>6, <2>3
    <3>2. QED
      BY <2>1, <3>1
  <2>4. QED
    BY <2>2, <2>3
<1>16. ReadsBack(F, w, W)
  BY <1>1, <1>15 DEF ReadsBack, P
<1>17. QED
  BY <1>16 DEF F, W

\* A turn of the loop over the instructions keeps the layout.
LEMMA EmitWordLays ==
  ASSUME CodeInv, Laid, NEW wraps \in BOOLEAN, EmitWord(wraps)
  PROVE  Emitted(asm.instrs, asm.labels, call')
<1> DEFINE cap == IF Len(call.words) >= call.cap THEN call.cap * 2 ELSE call.cap
           w == WordOf(call.i, wraps)
           f == Placed(call.i)
           j == WordEnd(call.i)
           i == call.i
           n == Len(asm.instrs)
           F == FormsOf(asm.instrs)
           Where(l) == asm.labels[l].where
<1>1. /\ call.op = "make" /\ call.i < n
      /\ call' = [call EXCEPT !.cap = cap, !.words = Append(@, w), !.labels = f, !.i = j]
  BY DEF EmitWord, Making
<1>2. Make(call) /\ asm \in AsRec /\ asm # NoAs
  BY <1>1, MakeOwes
<1>3. asm.instrs \in Seq(Instr) /\ asm.labels \in Seq(Label)
  BY <1>2, Fields
<1>4. Emitted(asm.instrs, asm.labels, call) /\ Labelled(asm.instrs, asm.labels, asm.top)
  BY <1>1, <1>2 DEF Laid
<1> HIDE DEF cap
<1>5. DOMAIN f = DOMAIN call.labels
  BY DEF Placed
<1>6. call'.i = j /\ call'.words = Append(call.words, w) /\ call'.labels = f
  <2> HIDE DEF w, f, j
  <2>1. QED
    BY <1>1, <1>2 DEF Make
<1>7. n \in Nat /\ F \in Forms(n) /\ DOMAIN F = 1 .. n
  BY <1>3, FormsOfIs DEF Forms
<1>8. /\ i \in 0 .. n /\ DOMAIN call.labels = DOMAIN asm.labels
      /\ \A l \in DOMAIN asm.labels :
           call.labels[l] = IF Where(l) < i THEN LabelAt(F, Where(l)) ELSE Unplaced
      /\ Len(call.words) = IF i = 0 THEN 0 ELSE Places(F)[i].word
      /\ i < n => Places(F)[i + 1] = [word |-> Len(call.words) + 1, byte |-> 0]
      /\ \A v \in DOMAIN call.words : Narrow(F, v) => ReadsBack(F, v, call.words[v])
  BY <1>4 DEF Emitted
<1>9. i \in 0 .. n - 1 /\ i \in Nat
  BY <1>1, <1>7, <1>8
<1>10. /\ j \in i + 1 .. n /\ Fill(F, i, j) <= WordBytes
       /\ j = n \/ Fill(F, i, j + 1) > WordBytes
  BY <1>3, <1>9, WordEndIs
<1>11. \A l \in DOMAIN asm.labels :
         f[l] = IF Where(l) \in i .. j - 1
                  THEN [addr |-> Where(l), shift |-> Fill(F, i, Where(l))]
                  ELSE call.labels[l]
  BY <1>3, <1>4, <1>8, <1>9, PlacedIs
<1>12. /\ Len(call.words) \in Nat /\ Len(Append(call.words, w)) = Len(call.words) + 1
       /\ DOMAIN call.words = 1 .. Len(call.words)
       /\ DOMAIN Append(call.words, w) = 1 .. Len(call.words) + 1
       /\ Append(call.words, w)[Len(call.words) + 1] = w
       /\ \A v \in 1 .. Len(call.words) : Append(call.words, w)[v] = call.words[v]
  <2>1. PICK S : call.words \in Seq(S)
    BY <1>2 DEF Make
  <2> HIDE DEF w
  <2>2. call.words \in Seq(S \union {w})
    BY <2>1
  <2>3. QED
    BY <2>2
<1>13. \A l \in DOMAIN asm.labels : Where(l) \in Nat
  <2>1. \A l \in DOMAIN asm.labels : asm.labels[l] \in Label
    BY <1>3
  <2>2. QED
    BY <2>1 DEF Label
\* The words before the new one have the instructions up to i.
<1>14. \A k \in 1 .. i : Places(F)[k].word # Len(call.words) + 1
  <2>1. CASE i = 0
    BY <2>1
  <2>2. CASE i # 0
    <3>1. i \in 1 .. n /\ \A k \in 1 .. i : k \in 1 .. n
      BY <1>7, <1>9, <2>2
    <3>2. \A k \in 1 .. i : /\ Places(F)[k].word <= Places(F)[i].word
                           /\ Places(F)[k].word \in Nat /\ Places(F)[i].word \in Nat
      BY <1>7, <3>1, PlacesMono
    <3>3. Len(call.words) = Places(F)[i].word
      BY <1>8, <2>2
    <3>4. QED
      BY <3>2, <3>3
  <2>3. QED
    BY <2>1, <2>2
<1>15. Narrow(F, Len(call.words) + 1) => ReadsBack(F, Len(call.words) + 1, w)
  <2>1. i < n /\ Len(call.words) + 1 \in Nat
    BY <1>7, <1>9, <1>12
  <2>2. Places(F)[i + 1] = [word |-> Len(call.words) + 1, byte |-> 0]
    BY <1>8, <2>1
  <2>3. QED
    BY <1>3, <1>9, <1>14, <2>1, <2>2, WordReads
<1>16. \A v \in DOMAIN Append(call.words, w) :
         Narrow(F, v) => ReadsBack(F, v, Append(call.words, w)[v])
  <2>1. \A v \in 1 .. Len(call.words) + 1 : v \in 1 .. Len(call.words) \/ v = Len(call.words) + 1
    BY <1>12
  <2> HIDE DEF f, w, j, i, n, F, Where
  <2>2. QED
    BY <1>8, <1>12, <1>15, <2>1
<1> HIDE DEF f, w, j, i, n, F, Where
<1> DEFINE m == Len(call.words) + 1
<1>17. m \in Nat /\ Places(F)[i + 1] = [word |-> m, byte |-> 0]
  <2>1. i < n
    BY <1>7, <1>9
  <2>2. m \in Nat
    BY <1>12
  <2>3. QED
    BY <1>8, <2>1, <2>2
<1>18. /\ \A k \in i + 1 .. j : Places(F)[k] = [word |-> m, byte |-> Fill(F, i, k - 1)]
       /\ j < n /\ Fill(F, i, j + 1) > WordBytes =>
            Places(F)[j + 1] = [word |-> m + 1, byte |-> 0]
  <2> HIDE DEF m
  <2>1. QED
    BY <1>7, <1>9, <1>10, <1>17, PlacesRun
<1>19. j \in 0 .. n /\ j # 0 /\ j \in Nat /\ j \in i + 1 .. j /\ (j < n => j # n)
  BY <1>7, <1>9, <1>10
<1>20. ASSUME NEW l \in DOMAIN asm.labels
       PROVE  f[l] = IF Where(l) < j THEN LabelAt(F, Where(l)) ELSE Unplaced
  <2>1. Where(l) \in Nat
    BY <1>13
  <2>2. CASE Where(l) \in i .. j - 1
    <3>1. Where(l) + 1 \in i + 1 .. j /\ (Where(l) + 1) - 1 = Where(l) /\ Where(l) < j
      BY <1>9, <1>19, <2>1, <2>2
    <3>2. Places(F)[Where(l) + 1] = [word |-> m, byte |-> Fill(F, i, Where(l))]
      BY <1>18, <3>1
    <3>3. Places(F)[Where(l) + 1].byte = Fill(F, i, Where(l))
      BY <3>2
    <3>4. QED
      BY <1>11, <2>2, <3>1, <3>3 DEF LabelAt
  <2>3. CASE Where(l) \notin i .. j - 1
    <3>1. Where(l) < j <=> Where(l) < i
      BY <1>9, <1>10, <1>19, <2>1, <2>3
    <3>2. QED
      BY <1>8, <1>11, <2>3, <3>1
  <2>4. QED
    BY <2>2, <2>3
<1>21. Places(F)[j].word = m
  <2>1. Places(F)[j] = [word |-> m, byte |-> Fill(F, i, j - 1)]
    BY <1>18, <1>19
  <2>2. QED
    BY <2>1
<1>22. Len(call'.words) = m
  BY <1>6, <1>12
<1>23. j < n => Places(F)[j + 1] = [word |-> Len(call'.words) + 1, byte |-> 0]
  BY <1>10, <1>18, <1>19, <1>22
<1>24. \A v \in DOMAIN call'.words : Narrow(F, v) => ReadsBack(F, v, call'.words[v])
  BY <1>6, <1>16
<1>25. QED
  BY <1>5, <1>6, <1>8, <1>19, <1>20, <1>21, <1>22, <1>23, <1>24 DEF Emitted, n, F, Where

\* Before the first word there is no layout.
LEMMA NothingLaid ==
  ASSUME asm.instrs \in Seq(Instr), asm.labels \in Seq(Label), NEW c, c.i = 0, c.words = <<>>,
         c.labels = [l \in DOMAIN asm.labels |-> Unplaced]
  PROVE  Emitted(asm.instrs, asm.labels, c)
<1> DEFINE n == Len(asm.instrs)
           F == FormsOf(asm.instrs)
<1>1. n \in Nat /\ F \in Forms(n) /\ DOMAIN F = 1 .. n
  BY FormsOfIs DEF Forms
<1>2. \A l \in DOMAIN asm.labels : asm.labels[l].where \in Nat
  <2>1. \A l \in DOMAIN asm.labels : asm.labels[l] \in Label
    OBVIOUS
  <2>2. QED
    BY <2>1 DEF Label
<1> HIDE DEF n, F
<1>3. 0 < n => Places(F)[0 + 1] = [word |-> Len(<<>>) + 1, byte |-> 0]
  <2>1. 0 < n => Places(F)[1] = FirstPlace
    BY <1>1, PlacesIs
  <2>2. 0 + 1 = 1 /\ Len(<<>>) + 1 = 1
    OBVIOUS
  <2>3. QED
    BY <2>1, <2>2 DEF FirstPlace
<1>4. DOMAIN <<>> = {}
  OBVIOUS
<1>5. \A l \in DOMAIN asm.labels : ~(asm.labels[l].where < 0)
  BY <1>2
<1>6. 0 \in 0 .. n /\ Len(<<>>) = 0
  BY <1>1
<1>7. QED
  BY <1>3, <1>4, <1>5, <1>6 DEF Emitted, n, F

\* What the code object has when the last word is made.
LEMMA LaidOut ==
  ASSUME NEW instrs \in Seq(Instr), NEW labels \in Seq(Label), NEW top,
         Labelled(instrs, labels, top), NEW c, Emitted(instrs, labels, c), c.i = Len(instrs)
  PROVE  LET F == FormsOf(instrs)
         IN /\ Len(c.words) = NumWords(F)
            /\ \A w \in DOMAIN c.words : Narrow(F, w) => ReadsBack(F, w, c.words[w])
            /\ \A l \in DOMAIN c.labels :
                 labels[l].where < Len(F) =>
                   c.labels[l].shift = Places(F)[labels[l].where + 1].byte
<1> DEFINE n == Len(instrs)
           F == FormsOf(instrs)
<1>1. n \in Nat /\ F \in Forms(n) /\ DOMAIN F = 1 .. n
  BY FormsOfIs DEF Forms
<1>2. \A l \in DOMAIN labels : labels[l].where \in Nat /\ labels[l].where <= n
  <2>1. \A l \in DOMAIN labels : labels[l] \in Label
    OBVIOUS
  <2>2. QED
    BY <2>1 DEF Label, Labelled
<1>3. /\ DOMAIN c.labels = DOMAIN labels
      /\ \A l \in DOMAIN labels :
           c.labels[l] = IF labels[l].where < n THEN LabelAt(F, labels[l].where) ELSE Unplaced
      /\ Len(c.words) = IF n = 0 THEN 0 ELSE Places(F)[n].word
      /\ \A w \in DOMAIN c.words : Narrow(F, w) => ReadsBack(F, w, c.words[w])
  BY DEF Emitted
<1> HIDE DEF n, F
<1>4. Len(F) = n /\ (F = <<>> <=> n = 0)
  <2>1. F \in [1 .. n -> {"A", "B"}]
    BY <1>1 DEF Forms
  <2>2. Len(F) = n /\ F \in Seq({"A", "B"})
    BY <1>1, <2>1, FunctionLen
  <2>3. QED
    BY <2>2
<1>5. ASSUME NEW l \in DOMAIN labels, labels[l].where < n
      PROVE  c.labels[l].shift = Places(F)[labels[l].where + 1].byte
  <2>1. c.labels[l] = LabelAt(F, labels[l].where)
    BY <1>3, <1>5
  <2>2. QED
    BY <2>1 DEF LabelAt
<1>6. QED
  BY <1>3, <1>4, <1>5 DEF NumWords, F
-------------------------------------------------------------------------------
(* The steps. *)

SameLayout == asm'.instrs = asm.instrs /\ asm'.labels = asm.labels /\ asm'.top = asm.top

\* A step that leaves the layout, drops objects, or makes a host function.
LEMMA LaidSame ==
  ASSUME Laid, asm' = NoAs \/ (asm # NoAs /\ SameLayout),
         code' \in {code, NoCode} \/ code'.kind = "host",
         call'.op = "make" => call' = call /\ asm # NoAs /\ SameLayout
  PROVE  Laid'
<1>1. asm' # NoAs => Labelled(asm'.instrs, asm'.labels, asm'.top)
  BY DEF Laid, SameLayout
<1>2. call'.op = "make" =>
        /\ Emitted(asm'.instrs, asm'.labels, call')
        /\ call'.stage = "init" => call'.i = 0
        /\ call'.stage \in {"object", "packed"} => call'.i = Len(asm'.instrs)
  BY DEF Laid, SameLayout
<1>3. LayoutExact'
  <2>1. Bytecode' => Bytecode /\ code' = code
    BY DEF Bytecode
  <2>2. QED
    BY <2>1 DEF LayoutExact, Laid
<1>4. QED
  BY <1>1, <1>2, <1>3 DEF Laid

\* A call of the assembler.
LEMMA UsedLays ==
  ASSUME CodeInv, Laid, Using, UNCHANGED <<code, call>>,
         Labelled(asm'.instrs, asm'.labels, asm'.top)
  PROVE  Laid'
<1>1. call'.op # "make"
  BY UsingIs, IdleOwes
<1>2. LayoutExact'
  BY DEF Laid, LayoutExact, Bytecode
<1>3. QED
  BY <1>1, <1>2 DEF Laid

LEMMA AddInstrLays ==
  ASSUME CodeInv, Laid, NEW form \in {"A", "B"}, AddInstr(form)
  PROVE  Laid'
<1> DEFINE x == [form |-> form, labels |-> asm.top]
           a == [Room("instrs") EXCEPT !.instrs = Append(@, x), !.top = {}]
<1>1. Using /\ asm' = a /\ Called
  BY DEF AddInstr
<1>2. Sound(asm) /\ asm \in AsRec /\ "instrs" \in Buffer /\ asm # NoAs
  BY <1>1, UsingIs DEF Buffer, Using
<1>3. asm.instrs \in Seq(Instr) /\ asm.top \in SUBSET Nat /\ asm.labels \in Seq(Label)
  BY <1>2, Fields
<1>4. Room("instrs") \in AsRec /\ Room("instrs").instrs = asm.instrs
  BY <1>2, RoomIs, RoomFields
<1>5. a.instrs = Append(asm.instrs, x) /\ a.top = {} /\ a.labels = asm.labels
  BY <1>2, <1>4, RoomFields DEF AsRec
<1> DEFINE n == Len(asm.instrs)
           s == Append(asm.instrs, x)
<1>6. x \in Instr /\ x.labels = asm.top
  BY <1>3 DEF Instr
<1>7. /\ n \in Nat /\ Len(s) = n + 1 /\ DOMAIN s = 1 .. n + 1 /\ DOMAIN asm.instrs = 1 .. n
      /\ s[n + 1] = x /\ \A k \in 1 .. n : s[k] = asm.instrs[k]
  <2> HIDE DEF x
  <2>1. QED
    BY <1>3, <1>6
<1> HIDE DEF s, n, a, x
<1>8. Labelled(asm.instrs, asm.labels, asm.top)
  BY <1>2 DEF Laid
<1>9. ASSUME NEW l \in DOMAIN asm.labels
      PROVE  /\ asm.labels[l].where <= n + 1 /\ asm.labels[l].where # n + 1
             /\ \A k \in 1 .. n + 1 : l \in s[k].labels <=> asm.labels[l].where = k - 1
  <2> DEFINE where == asm.labels[l].where
  <2>1. where \in Nat
    <3>1. asm.labels[l] \in Label
      BY <1>3
    <3>2. QED
      BY <3>1 DEF Label
  <2>2. where <= n /\ (l \in asm.top <=> where = n)
        /\ \A k \in 1 .. n : l \in asm.instrs[k].labels <=> where = k - 1
    BY <1>7, <1>8 DEF Labelled, n
  <2> HIDE DEF where
  <2>3. \A k \in 1 .. n + 1 : k \in 1 .. n \/ (k = n + 1 /\ k - 1 = n)
    BY <1>7
  <2>4. \A k \in 1 .. n + 1 : l \in s[k].labels <=> where = k - 1
    BY <1>6, <1>7, <2>2, <2>3
  <2>5. where <= n + 1 /\ where # n + 1
    BY <1>7, <2>1, <2>2
  <2>6. QED
    BY <2>4, <2>5 DEF where
<1>10. Labelled(s, asm.labels, {})
  BY <1>7, <1>9 DEF Labelled
<1>11. Labelled(asm'.instrs, asm'.labels, asm'.top)
  BY <1>1, <1>5, <1>10 DEF s
<1>12. QED
  BY <1>1, <1>11, UsedLays DEF Called

LEMMA AddLabelLays ==
  ASSUME CodeInv, Laid, NEW where \in 0 .. MaxCalls, NEW moves \in BOOLEAN, AddLabel(where, moves)
  PROVE  Laid'
<1> DEFINE l == Len(asm.labels) + 1
           now == asm.moved + (IF moves THEN 1 ELSE 0)
           x == [where |-> where, made |-> now]
           put == [Room("labels") EXCEPT !.labels = Append(@, x), !.moved = now]
           n == Len(asm.instrs)
<1>1. /\ Using /\ Called /\ where \in 0 .. n
      /\ asm' = IF where = n THEN [put EXCEPT !.top = @ \union {l}]
                ELSE [put EXCEPT !.instrs[where + 1].labels = @ \union {l}]
  BY DEF AddLabel
<1> HIDE DEF now, l
<1>2. Sound(asm) /\ asm \in AsRec /\ "labels" \in Buffer /\ asm # NoAs
  BY <1>1, UsingIs DEF Buffer, Using
<1>3. asm.labels \in Seq(Label) /\ asm.instrs \in Seq(Instr) /\ asm.moved \in Nat
      /\ asm.top \in SUBSET Nat
  BY <1>2, Fields
<1>4. now \in Nat /\ x \in Label /\ x.where = where /\ where \in Nat
  <2>1. now \in Nat
    BY <1>3 DEF now
  <2>2. where \in Nat
    BY CodeAssumption
  <2>3. QED
    BY <2>1, <2>2 DEF Label
<1> HIDE DEF x
<1> DEFINE t == Append(asm.labels, x)
<1>5. /\ t \in Seq(Label) /\ l \in Nat /\ l \notin DOMAIN asm.labels
      /\ DOMAIN t = DOMAIN asm.labels \union {l}
      /\ t[l] = x /\ \A m \in DOMAIN asm.labels : t[m] = asm.labels[m]
  BY <1>3, <1>4 DEF l
<1>6. Room("labels") \in AsRec /\ Room("labels").labels = asm.labels
  BY <1>2, RoomIs, RoomFields
<1>7. put \in AsRec /\ put.labels = t /\ put.top = asm.top /\ put.instrs = asm.instrs
  BY <1>2, <1>4, <1>5, <1>6, RoomFields DEF AsRec
<1>8. n \in Nat /\ DOMAIN asm.instrs = 1 .. n
  BY <1>3
<1>9. /\ Labelled(asm.instrs, asm.labels, asm.top)
      /\ \A k \in 1 .. n : l \notin asm.instrs[k].labels
      /\ l \notin asm.top
  BY <1>2, <1>5, <1>8 DEF Laid, Sound, Linked
<1> HIDE DEF put, t
<1>10. \A m \in DOMAIN asm.labels :
         /\ asm.labels[m].where <= n /\ (m \in asm.top <=> asm.labels[m].where = n)
         /\ \A k \in 1 .. n : m \in asm.instrs[k].labels <=> asm.labels[m].where = k - 1
  BY <1>8, <1>9 DEF Labelled
<1> HIDE DEF n
<1>11. CASE where = n
  <2>1. asm' = [put EXCEPT !.top = asm.top \union {l}]
    BY <1>1, <1>7, <1>11
  <2>2. asm'.top = asm.top \union {l} /\ asm'.instrs = asm.instrs /\ asm'.labels = t
    BY <1>7, <2>1 DEF AsRec
  <2>3. \A k \in 1 .. n : where # k - 1
    BY <1>8, <1>11
  <2>4. ASSUME NEW m \in DOMAIN t
        PROVE  /\ t[m].where <= n /\ (m \in asm.top \union {l} <=> t[m].where = n)
               /\ \A k \in 1 .. n : m \in asm.instrs[k].labels <=> t[m].where = k - 1
    <3>1. CASE m = l
      <4>1. t[m].where = n /\ n <= n
        BY <1>4, <1>5, <1>8, <1>11, <3>1
      <4>2. QED
        BY <1>9, <1>11, <2>3, <3>1, <4>1
    <3>2. CASE m # l
      <4>1. m \in DOMAIN asm.labels /\ t[m] = asm.labels[m]
        BY <1>5, <3>2
      <4>2. QED
        BY <1>10, <3>2, <4>1
    <3>3. QED
      BY <3>1, <3>2
  <2>5. Labelled(asm.instrs, t, asm.top \union {l})
    BY <1>8, <2>4 DEF Labelled, n
  <2>6. QED
    BY <1>1, <2>2, <2>5, UsedLays DEF Called
<1>12. CASE where # n
  <2> DEFINE i == where + 1
             s == [asm.instrs EXCEPT ![i] = [asm.instrs[i] EXCEPT !.labels = @ \union {l}]]
  <2>1. asm' = [put EXCEPT !.instrs = s]
    BY <1>1, <1>7, <1>12
  <2>2. i \in 1 .. n /\ i - 1 = where /\ where < n
    BY <1>1, <1>4, <1>8, <1>12
  <2>3. asm.instrs[i] \in Instr
    BY <1>3, <1>8, <2>2
  <2>4. [asm.instrs[i] EXCEPT !.labels = @ \union {l}].labels = asm.instrs[i].labels \union {l}
    BY <2>3 DEF Instr
  <2>5. DOMAIN s = 1 .. n /\ Len(s) = n
    <3>1. DOMAIN s = 1 .. n
      BY <1>8
    <3>2. [asm.instrs[i] EXCEPT !.labels = @ \union {l}] \in Instr
      BY <1>5, <2>3 DEF Instr
    <3>3. s \in Seq(Instr)
      BY <1>3, <1>8, <2>2, <3>2
    <3>4. QED
      BY <1>8, <3>1, <3>3
  <2>6. \A k \in 1 .. n : s[k].labels = IF k = i THEN asm.instrs[k].labels \union {l}
                                                 ELSE asm.instrs[k].labels
    BY <1>8, <2>2, <2>4
  <2>7. asm'.top = asm.top /\ asm'.instrs = s /\ asm'.labels = t
    <3> HIDE DEF s
    <3>1. QED
      BY <1>7, <2>1 DEF AsRec
  <2> HIDE DEF s
  <2>8. ASSUME NEW m \in DOMAIN t
        PROVE  /\ t[m].where <= n /\ (m \in asm.top <=> t[m].where = n)
               /\ \A k \in 1 .. n : m \in s[k].labels <=> t[m].where = k - 1
    <3>1. CASE m = l
      <4>1. t[m].where = where /\ where <= n
        BY <1>4, <1>5, <1>8, <2>2, <3>1
      <4>2. \A k \in 1 .. n : l \in s[k].labels <=> k = i
        BY <1>9, <2>6
      <4>3. \A k \in 1 .. n : k = i <=> where = k - 1
        BY <1>4, <1>8, <2>2
      <4>4. QED
        BY <1>9, <1>12, <3>1, <4>1, <4>2, <4>3
    <3>2. CASE m # l
      <4>1. m \in DOMAIN asm.labels /\ t[m] = asm.labels[m]
        BY <1>5, <3>2
      <4>2. \A k \in 1 .. n : m \in s[k].labels <=> m \in asm.instrs[k].labels
        BY <2>6, <3>2
      <4>3. QED
        BY <1>10, <4>1, <4>2
    <3>3. QED
      BY <3>1, <3>2
  <2>9. Labelled(s, t, asm.top)
    BY <2>5, <2>8 DEF Labelled
  <2>10. QED
    BY <1>1, <2>7, <2>9, UsedLays DEF Called
<1>13. QED
  BY <1>11, <1>12

\* The calls for constants and names leave instructions and labels.
LEMMA OtherCallsLay ==
  ASSUME CodeInv, Laid,
         \/ \E v \in Value : AddConst(v)
         \/ \E n \in Name : AddUpval(n) \/ AddLocal(n) \/ \E var \in BOOLEAN : AddParam(n, var)
         \/ \E b \in Buffer : PutFails(b)
         \/ \E names \in {"upvals", "locals"}, n \in Name : NameFails(names, n)
  PROVE  Laid'
<1>1. Using /\ UNCHANGED <<code, call>>
  BY DEF AddConst, AddUpval, AddLocal, AddParam, PutFails, NameFails, Called
<1>2. asm \in AsRec /\ asm # NoAs
  BY <1>1, UsingIs DEF Using
<1>3. SameLayout
  <2>1. ASSUME NEW v \in Value, AddConst(v) PROVE SameLayout
    <3>1. "consts" \in Buffer
      BY DEF Buffer
    <3>2. Room("consts") \in AsRec
      BY <1>2, <3>1, RoomIs
    <3>3. PICK s : asm' = [Room("consts") EXCEPT !.consts = s]
      BY <2>1 DEF AddConst
    <3>4. QED
      BY <1>2, <3>1, <3>2, <3>3, RoomFields DEF AsRec, SameLayout
  <2>2. ASSUME NEW n \in Name, AddUpval(n) PROVE SameLayout
    BY <1>2, <2>2 DEF AddUpval, AsRec, SameLayout
  <2>3. ASSUME NEW n \in Name, AddLocal(n) PROVE SameLayout
    <3>1. PICK k, s : \/ asm' = [asm EXCEPT !.numLocals = k]
                      \/ asm' = [[asm EXCEPT !.numLocals = k] EXCEPT !.locals = s]
      BY <2>3 DEF AddLocal
    <3>2. QED
      BY <1>2, <3>1 DEF AsRec, SameLayout
  <2>4. ASSUME NEW n \in Name, NEW var \in BOOLEAN, AddParam(n, var) PROVE SameLayout
    <3>1. PICK s, v, k : asm' = [asm EXCEPT !.locals = s, !.var = v, !.fixed = k]
      BY <2>4 DEF AddParam
    <3>2. QED
      BY <1>2, <3>1 DEF AsRec, SameLayout
  <2>5. ASSUME NEW b \in Buffer, PutFails(b) PROVE SameLayout
    BY <2>5 DEF PutFails, SameLayout
  <2>6. ASSUME NEW names \in {"upvals", "locals"}, NEW n \in Name, NameFails(names, n)
        PROVE  SameLayout
    <3>1. PICK s, t : \/ asm' = asm \/ asm' = [asm EXCEPT !.upvals = s]
                      \/ asm' = [asm EXCEPT !.locals = t]
      BY <2>6 DEF NameFails
    <3>2. QED
      BY <1>2, <3>1 DEF AsRec, SameLayout
  <2>7. QED
    BY <2>1, <2>2, <2>3, <2>4, <2>5, <2>6
<1>4. Labelled(asm'.instrs, asm'.labels, asm'.top)
  BY <1>2, <1>3 DEF Laid, SameLayout
<1>5. QED
  BY <1>1, <1>4, UsedLays
\* A step of makeByteCode that makes no word.
LEMMA StageLays ==
  ASSUME CodeInv, Laid, call.op = "make", asm' # NoAs, SameLayout, code' = code,
         call'.i = call.i, call'.words = call.words, call'.labels = call.labels,
         call'.stage # "init",
         call'.stage \in {"object", "packed"} => call.i = Len(asm.instrs)
  PROVE  Laid'
<1>1. asm # NoAs
  BY MakeOwes
<1>2. Emitted(asm.instrs, asm.labels, call) /\ Labelled(asm.instrs, asm.labels, asm.top)
  BY <1>1 DEF Laid
<1>3. Emitted(asm'.instrs, asm'.labels, call')
  BY <1>2 DEF Emitted, SameLayout
<1>4. Labelled(asm'.instrs, asm'.labels, asm'.top)
  BY <1>2 DEF SameLayout
<1>5. LayoutExact'
  BY DEF Laid, LayoutExact, Bytecode
<1>6. QED
  BY <1>3, <1>4, <1>5 DEF Laid, SameLayout

LEMMA MakingLays ==
  ASSUME CodeInv, Laid,
         \/ StartCode \/ InitWords \/ (\E wraps \in BOOLEAN : EmitWord(wraps))
         \/ AllocCode \/ PackConsts \/ PackWords
  PROVE  Laid'
<1>1. CASE StartCode
  <2> DEFINE f == [l \in DOMAIN asm.labels |-> Unplaced]
  <2>1. /\ Using /\ UNCHANGED <<asm, code>>
        /\ call' = [op |-> "make", stage |-> "init", i |-> 0, words |-> <<>>, cap |-> 0,
                    labels |-> f, consts |-> <<>>]
    BY <1>1 DEF StartCode
  <2>2. asm.instrs \in Seq(Instr) /\ asm.labels \in Seq(Label) /\ asm # NoAs
    BY <2>1, UsingIs, Fields DEF Using
  <2>3. call'.i = 0 /\ call'.words = <<>> /\ call'.stage = "init" /\ call'.labels = f
    <3> HIDE DEF f
    <3>1. QED
      BY <2>1
  <2>4. Emitted(asm.instrs, asm.labels, call')
    BY <2>2, <2>3, NothingLaid
  <2>5. LayoutExact'
    BY <2>1 DEF Laid, LayoutExact, Bytecode
  <2>6. QED
    BY <2>1, <2>2, <2>3, <2>4, <2>5 DEF Laid
<1>2. CASE InitWords
  <2>1. /\ call.op = "make" /\ UNCHANGED <<asm, code>>
        /\ call' = [call EXCEPT !.stage = "emit", !.cap = InitCap]
    BY <1>2 DEF InitWords, Making
  <2>2. Make(call) /\ asm # NoAs
    BY <2>1, MakeOwes
  <2>3. call'.i = call.i /\ call'.words = call.words /\ call'.labels = call.labels
        /\ call'.stage = "emit"
    BY <2>1, <2>2 DEF Make
  <2>4. QED
    BY <2>1, <2>2, <2>3, StageLays DEF SameLayout
<1>3. ASSUME NEW wraps \in BOOLEAN, EmitWord(wraps) PROVE Laid'
  <2>1. Emitted(asm.instrs, asm.labels, call')
    BY <1>3, EmitWordLays
  <2>2. call.op = "make" /\ call.stage = "emit" /\ UNCHANGED <<asm, code>>
    BY <1>3 DEF EmitWord, Making
  <2>3. Make(call) /\ asm # NoAs
    BY <2>2, MakeOwes
  <2>4. call'.stage = "emit"
    <3> DEFINE cap == IF Len(call.words) >= call.cap THEN call.cap * 2 ELSE call.cap
               w == WordOf(call.i, wraps)
               f == Placed(call.i)
               j == WordEnd(call.i)
    <3>1. call' = [call EXCEPT !.cap = cap, !.words = Append(@, w), !.labels = f, !.i = j]
      BY <1>3 DEF EmitWord
    <3> HIDE DEF cap, w, f, j
    <3>2. QED
      BY <2>2, <2>3, <3>1 DEF Make
  <2>5. LayoutExact'
    BY <2>2 DEF Laid, LayoutExact, Bytecode
  <2>6. QED
    BY <2>1, <2>2, <2>3, <2>4, <2>5 DEF Laid
<1>4. CASE AllocCode
  <2>1. /\ call.op = "make" /\ UNCHANGED <<asm, code>> /\ call.i = Len(asm.instrs)
        /\ call' = [call EXCEPT !.stage = "object"]
    BY <1>4 DEF AllocCode, Making
  <2>2. Make(call) /\ asm # NoAs
    BY <2>1, MakeOwes
  <2>3. call'.i = call.i /\ call'.words = call.words /\ call'.labels = call.labels
        /\ call'.stage = "object"
    BY <2>1, <2>2 DEF Make
  <2>4. QED
    BY <2>1, <2>2, <2>3, StageLays DEF SameLayout
<1>5. CASE PackConsts
  <2> DEFINE cap == [asm.cap EXCEPT !["consts"] = 0]
  <2>1. /\ call.op = "make" /\ call.stage = "object" /\ UNCHANGED code
        /\ call' = [call EXCEPT !.stage = "packed", !.consts = asm.consts]
        /\ asm' = [asm EXCEPT !.consts = <<>>, !.cap = cap, !.packed = TRUE]
    BY <1>5 DEF PackConsts, Making
  <2>2. Make(call) /\ asm \in AsRec /\ asm # NoAs
    BY <2>1, MakeOwes
  <2>3. call'.i = call.i /\ call'.words = call.words /\ call'.labels = call.labels
        /\ call'.stage = "packed"
    BY <2>1, <2>2 DEF Make
  <2>4. SameLayout /\ asm'.packed = TRUE
    <3> HIDE DEF cap
    <3>1. QED
      BY <2>1, <2>2 DEF AsRec, SameLayout
  <2>5. asm' # NoAs
    <3>1. CodeInv'
      BY <1>5, PackConstsKeeps
    <3>2. call'.op = "make"
      BY <2>1, <2>2 DEF Make
    <3>3. (CodeInv /\ call.op = "make" => asm # NoAs)'
      BY MakeOwes, PTL
    <3>4. QED
      BY <3>1, <3>2, <3>3
  <2>6. call.i = Len(asm.instrs)
    BY <2>1 DEF Laid
  <2>7. QED
    BY <2>1, <2>3, <2>4, <2>5, <2>6, StageLays
<1>6. CASE PackWords
  <2> DEFINE F == FormsOf(asm.instrs)
             Ws == [l \in DOMAIN asm.labels |-> asm.labels[l].where]
  <2>1. /\ call.op = "make" /\ call.stage = "packed" /\ asm' = asm /\ call' = Idle
        /\ code' = [kind |-> "byte", var |-> asm.var, consts |-> call.consts,
                    labels |-> call.labels, words |-> call.words, refs |-> refs,
                    forms |-> F, where |-> Ws]
    BY <1>6 DEF PackWords, Making, FormsOf
  <2>2. /\ Make(call) /\ asm \in AsRec /\ asm # NoAs
    BY <2>1, MakeOwes
  <2>3. asm.instrs \in Seq(Instr) /\ asm.labels \in Seq(Label)
    BY <2>2, Fields
  <2>4. /\ Labelled(asm.instrs, asm.labels, asm.top)
        /\ Emitted(asm.instrs, asm.labels, call) /\ call.i = Len(asm.instrs)
    BY <2>1, <2>2 DEF Laid
  <2>5. /\ Len(call.words) = NumWords(F)
        /\ \A w \in DOMAIN call.words : Narrow(F, w) => ReadsBack(F, w, call.words[w])
        /\ \A l \in DOMAIN call.labels :
             asm.labels[l].where < Len(F) =>
               call.labels[l].shift = Places(F)[asm.labels[l].where + 1].byte
    BY <2>3, <2>4, LaidOut
  <2>6. \A l \in DOMAIN call.labels : Ws[l] = asm.labels[l].where
    BY <2>4 DEF Emitted
  <2> HIDE DEF F, Ws
  <2>7. code'.labels = call.labels /\ code'.words = call.words /\ code'.forms = F /\ code'.where = Ws
    BY <2>1
  <2>8. \A w \in DOMAIN code'.words : Narrow(code'.forms, w) => ReadsBack(code'.forms, w, code'.words[w])
    BY <2>5, <2>7
  <2>9. LayoutExact'
    BY <2>5, <2>6, <2>7, <2>8 DEF LayoutExact
  <2>10. call'.op # "make"
    BY <2>1 DEF Idle
  <2>11. QED
    BY <2>1, <2>4, <2>9, <2>10 DEF Laid
<1>7. QED
  BY <1>1, <1>2, <1>3, <1>4, <1>5, <1>6

LEMMA QuietLays ==
  ASSUME CodeInv, Laid,
         \/ \E scope \in {"local", "global"} : StartAssembler(scope)
         \/ InitBuf \/ (\E info \in Infos : StartHost(info)) \/ ParseParams \/ ParseUpvals
         \/ CallFails \/ Collect \/ \E o \in {"asm", "code"} : Drop(o)
  PROVE  Laid'
<1>1. ASSUME NEW scope \in {"local", "global"}, StartAssembler(scope) PROVE Laid'
  <2>1. asm' = NoAs /\ code' = code /\ call'.op = "assembler"
    BY <1>1 DEF StartAssembler
  <2>2. QED
    BY <2>1, LaidSame
<1>2. CASE InitBuf
  <2>1. call.op = "assembler" /\ code' = code /\ asm = NoAs
    BY <1>2, Ops DEF InitBuf, CodeInv, InAssembler
  <2>2. call'.op # "make"
    <3>1. CASE call' = Idle
      BY <3>1 DEF Idle
    <3>2. CASE call' = [call EXCEPT !.made = @ + 1]
      BY <2>1, <3>2, Ops DEF CodeInv, InAssembler
    <3>3. QED
      BY <1>2, <3>1, <3>2 DEF InitBuf
  <2>3. CASE asm' = asm
    BY <2>1, <2>2, <2>3, LaidSame
  <2>4. CASE asm' = Fresh(call.scope)
    <3>1. asm'.instrs = <<>> /\ asm'.labels = <<>> /\ asm'.top = {}
      BY <2>4 DEF Fresh
    <3>2. Labelled(<<>>, <<>>, {})
      BY DEF Labelled
    <3>3. LayoutExact'
      BY <2>1 DEF Laid, LayoutExact, Bytecode
    <3>4. QED
      BY <2>2, <3>1, <3>2, <3>3 DEF Laid
  <2>5. QED
    BY <1>2, <2>3, <2>4 DEF InitBuf
<1>3. ASSUME NEW info \in Infos, StartHost(info) PROVE Laid'
  <2>1. asm' = NoAs /\ code' = code /\ call'.op = "host"
    BY <1>3 DEF StartHost
  <2>2. QED
    BY <2>1, LaidSame
<1>4. CASE ParseParams \/ ParseUpvals
  <2>1. call.op = "host" /\ asm' = NoAs
    BY <1>4, Ops DEF ParseParams, ParseUpvals, CodeInv, InHost
  <2>2. CASE CommitHost(call.info.variadic)
    <3>1. code'.kind = "host" /\ call'.op = "idle"
      BY <2>2 DEF CommitHost, HostCode, Idle
    <3>2. QED
      BY <2>1, <3>1, LaidSame
  <2>3. CASE call' = [call EXCEPT !.stage = "upvals"] /\ UNCHANGED code
    <3>1. call'.op = "host"
      BY <2>1, <2>3, Ops DEF CodeInv, InHost
    <3>2. QED
      BY <2>1, <2>3, <3>1, LaidSame
  <2>4. QED
    BY <1>4, <2>2, <2>3 DEF ParseParams, ParseUpvals
<1>5. CASE CallFails
  <2>1. UNCHANGED <<asm, code>> /\ call'.op = "idle"
    BY <1>5 DEF CallFails, Idle
  <2>2. QED
    BY <2>1, LaidSame DEF SameLayout
<1>6. CASE Collect
  <2>1. call' = call /\ asm' = (IF asm # NoAs /\ "asm" \in roots THEN asm ELSE NoAs)
        /\ code' \in {code, NoCode}
    BY <1>6 DEF Collect
  <2>2. call.op = "make" => asm # NoAs /\ "asm" \in roots
    BY MakeOwes
  <2>3. QED
    BY <2>1, <2>2, LaidSame DEF SameLayout
<1>7. ASSUME NEW o \in {"asm", "code"}, Drop(o) PROVE Laid'
  <2>1. UNCHANGED <<asm, code, call>> /\ call.op = "idle"
    BY <1>7 DEF Drop, Ready
  <2>2. QED
    BY <2>1, LaidSame DEF SameLayout
<1>8. QED
  BY <1>1, <1>2, <1>3, <1>4, <1>5, <1>6, <1>7

LEMMA NextLaid == CodeInv /\ Laid /\ [Next]_vars => Laid'
<1>1. SUFFICES ASSUME CodeInv, Laid, [Next]_vars PROVE Laid'
  OBVIOUS
<1> USE <1>1
<1>2. CASE UNCHANGED vars
  <2>1. UNCHANGED <<asm, code, call>>
    BY <1>2 DEF vars
  <2>2. call.op = "make" => asm # NoAs
    BY MakeOwes
  <2>3. QED
    BY <2>1, <2>2, LaidSame DEF SameLayout
<1>3. ASSUME NEW form \in {"A", "B"}, AddInstr(form) PROVE Laid'
  BY <1>3, AddInstrLays
<1>4. ASSUME NEW where \in 0 .. MaxCalls, NEW moves \in BOOLEAN, AddLabel(where, moves)
      PROVE  Laid'
  BY <1>4, AddLabelLays
<1>5. CASE \/ \E v \in Value : AddConst(v)
           \/ \E n \in Name : AddUpval(n) \/ AddLocal(n) \/ \E var \in BOOLEAN : AddParam(n, var)
           \/ \E b \in Buffer : PutFails(b)
           \/ \E names \in {"upvals", "locals"}, n \in Name : NameFails(names, n)
  BY <1>5, OtherCallsLay
<1>6. CASE \/ StartCode \/ InitWords \/ (\E wraps \in BOOLEAN : EmitWord(wraps))
           \/ AllocCode \/ PackConsts \/ PackWords
  BY <1>6, MakingLays
<1>7. CASE \/ \E scope \in {"local", "global"} : StartAssembler(scope)
           \/ InitBuf \/ (\E info \in Infos : StartHost(info)) \/ ParseParams \/ ParseUpvals
           \/ CallFails \/ Collect \/ \E o \in {"asm", "code"} : Drop(o)
  BY <1>7, QuietLays
<1>8. QED
  BY <1>2, <1>3, <1>4, <1>5, <1>6, <1>7 DEF Next, Buffer

\* A code object has as many words as its instructions need, each word that fills no more
\* than an unsigned reads back, and each label has the byte of its instruction: for any
\* number of instructions and labels, any width of a word that holds an instruction, and
\* whatever a build does with a shift beyond the width.
THEOREM LayoutExactHolds == Spec => []LayoutExact
<1>1. Init => Laid
  BY DEF Init, Laid, LayoutExact, Bytecode, Idle
<1>2. CodeInv /\ Laid /\ [Next]_vars => Laid'
  BY NextLaid
<1>3. Laid => LayoutExact
  BY DEF Laid
<1>4. QED
  BY <1>1, <1>2, <1>3, CodeInvariant, PTL DEF Spec
===============================================================================
