-------------------------------- MODULE Code --------------------------------
(***************************************************************************)
(* The assembler and the code objects of taz_code.c: the three buffers of  *)
(* an assembler, the labels linked to instructions before and after they   *)
(* are known, the layout of the instructions in words, and the steps in    *)
(* which makeByteCode moves memory from the assembler to the code object,  *)
(* with a collection or a failure at each allocation.                      *)
(*                                                                         *)
(* There is one assembler and one code object at a time.  Instructions are *)
(* their forms; a byte of a word is the set of the parts of instructions   *)
(* that were or-ed into it.  Sizes count elements.                         *)
(***************************************************************************)
EXTENDS Integers, Sequences, FiniteSets, Functions

CONSTANTS
  Value, Name,        \* constants, and names of variables
  InitCap,            \* elements of a new buffer: 7
  RefSize,            \* values of tazR_Ref.bits.which: 2^16
  WordBytes, IntBytes,\* sizes of ulongest and of unsigned: 8 and 4
  Infos,              \* what tazR_makeHostCode is called with
  Reuse,              \* whether the program uses an assembler after makeCode
  MaxCalls,           \* bound: calls of one assembler
  MaxFailures,        \* bound: allocations that fail
  MaxDrift            \* bound: what memUsed and the memory held may differ by

Info == [variadic : BOOLEAN, upvals : BOOLEAN]

\* A word has room for any instruction.
ASSUME CodeAssumption ==
  /\ {InitCap, RefSize, WordBytes, IntBytes} \subseteq Nat \ {0}
  /\ IntBytes <= WordBytes /\ WordBytes >= 2 /\ Infos \subseteq Info /\ Reuse \in BOOLEAN
  /\ {MaxCalls, MaxFailures, MaxDrift} \subseteq Nat

VARIABLES
  asm,                 \* the BCAssembler, or NoAs
  code,               \* the tazR_Code, or NoCode
  roots,              \* which of the two the program keeps in a bucket
  alive,              \* values and indices that are allocated
  globals,            \* the keys of Env.globalsIdx
  call,               \* the call under way
  held,               \* elements of all raw memory the host has given
  used,               \* the part of memUsed that counts them
  refs,               \* the tazR_Refs the program has got (history)
  calls, failures,    \* calls of the assembler, failed allocations (history)
  broken,             \* whether one failed half way through a construction
  ub                  \* "no", or what undefined behaviour was reached

memory == <<alive, held, used>>
program == <<roots, refs, calls>>
faults == <<failures, broken, ub>>
vars == <<asm, code, memory, globals, call, program, faults>>

-------------------------------------------------------------------------------
Idle == [op |-> "idle"]
\* No object.
NoAs == [scope |-> "none"]
NoCode == [kind |-> "none"]
Ready == call.op = "idle" /\ ub = "no"

Fresh(scope) ==
  [scope |-> scope, packed |-> FALSE, var |-> FALSE, fixed |-> 0,
   instrs |-> <<>>, labels |-> <<>>, consts |-> <<>>, top |-> {}, moved |-> 0,
   cap |-> [b \in {"instrs", "labels", "consts"} |-> InitCap],
   upvals |-> <<>>, locals |-> <<>>, numUpvals |-> 0, numLocals |-> 0]

Init ==
  /\ asm = NoAs /\ code = NoCode /\ roots = {} /\ alive = {} /\ globals = <<>>
  /\ call = Idle /\ held = 0 /\ used = 0 /\ refs = {} /\ calls = 0
  /\ failures = 0 /\ broken = FALSE /\ ub = "no"

\* The program calls the assembler it keeps.
Using == Ready /\ asm # NoAs /\ "asm" \in roots /\ (asm.packed => Reuse)
Called ==
  calls < MaxCalls /\ calls' = calls + 1 /\ UNCHANGED <<code, call, roots, failures, broken>>
Fails == failures < MaxFailures /\ failures' = failures + 1

\* Memory is given, or given back when n is negative.
Take(n) == held' = held + n /\ used' = used + n

-------------------------------------------------------------------------------
(* Buffers. *)

\* The definitions named Mut... are faulty forms of the ones they precede:
\* each breaks the property that its comment names.

\* (Faulty: the buffer grows one element late; TypeOK.)
MutCapAfter(b) == IF Len(asm[b]) > asm.cap[b] THEN asm.cap[b] * 2 ELSE asm.cap[b]
\* The capacity of a buffer after BUF_NAME_put.
CapAfter(b) == IF Len(asm[b]) >= asm.cap[b] THEN asm.cap[b] * 2 ELSE asm.cap[b]

\* BUF_NAME_put on a buffer that was packed: its capacity of 0 doubles to 0.
Overrun(b) == ub' = IF Len(asm[b]) < CapAfter(b) THEN "no" ELSE "null_write"

\* The assembler with a buffer that has grown for one more element.
Room(b) == [asm EXCEPT !.cap[b] = CapAfter(b)]
PutMemory(b) == Take(CapAfter(b) - asm.cap[b])

\* BUF_NAME_pack: the memory shrinks to the elements.
PackMemory(top, cap) == Take(top - cap)

\* The buffer cannot grow: nothing has changed.
PutFails(b) ==
  /\ Using /\ Len(asm[b]) >= asm.cap[b] /\ asm.cap[b] > 0 /\ Fails
  /\ UNCHANGED <<asm, code, memory, globals, call, program, broken, ub>>

-------------------------------------------------------------------------------
(* The assembler. *)

AddInstr(form) ==
  /\ Using
  /\ asm' = [Room("instrs") EXCEPT !.instrs = Append(@, [form |-> form, labels |-> asm.top]),
                                  !.top = {}]
  /\ PutMemory("instrs") /\ Overrun("instrs") /\ Called
  /\ UNCHANGED <<alive, globals, refs>>

\* A label is pointed to from the list it is linked into: that pointer dates from
\* its own put, and the buffer may move when it grows after.
AddLabel(where, moves) ==
  /\ Using /\ where \in 0 .. Len(asm.instrs)
  /\ moves => CapAfter("labels") > asm.cap["labels"]
  /\ LET l == Len(asm.labels) + 1
         now == asm.moved + (IF moves THEN 1 ELSE 0)
         put == [Room("labels") EXCEPT
                   !.labels = Append(@, [where |-> where, made |-> now]), !.moved = now]
     IN asm' = IF where = Len(asm.instrs)
                THEN [put EXCEPT !.top = @ \union {l}]
                ELSE [put EXCEPT !.instrs[where + 1].labels = @ \union {l}]
  /\ PutMemory("labels") /\ Overrun("labels") /\ Called
  /\ UNCHANGED <<alive, globals, refs>>

\* (Faulty: no error for a loc that the reference has no room for; RefsDenote.)
MutFits(loc) == loc >= loc % RefSize
Fits(loc) == loc = loc % RefSize

\* A reference is returned, or the error of too many constants or variables
\* leaves the call.
Refer(type, loc, thing) ==
  refs' = IF Fits(loc) THEN refs \union {<<type, loc % RefSize, thing>>} ELSE refs

\* The program keeps the value during the call.
AddConst(v) ==
  /\ Using
  /\ asm' = [Room("consts") EXCEPT !.consts = Append(@, v)]
  /\ alive' = alive \union {v}
  /\ PutMemory("consts") /\ Overrun("consts") /\ Refer("const", Len(asm.consts), v)
  /\ Called
  /\ UNCHANGED globals

WithName(n, names) == IF n \in Range(names) THEN names ELSE Append(names, n)
LocOf(n, names) == (CHOOSE i \in DOMAIN names : names[i] = n) - 1
Loc(n, names) == LocOf(n, WithName(n, names))
More(loc) == IF Fits(loc) THEN 1 ELSE 0

AddUpval(n) ==
  /\ Using
  /\ asm' = [asm EXCEPT !.upvals = WithName(n, @),
                      !.numUpvals = @ + More(Loc(n, asm.upvals))]
  /\ Refer("upval", Loc(n, asm.upvals), n) /\ Called
  /\ UNCHANGED <<memory, globals, ub>>

AddLocal(n) ==
  /\ Using
  /\ LET names == IF asm.scope = "global" THEN globals ELSE asm.locals
         counted == [asm EXCEPT !.numLocals = @ + More(Loc(n, names))]
     IN /\ Refer("local", Loc(n, names), n)
        /\ \/ /\ asm.scope = "global"
              /\ globals' = WithName(n, names) /\ asm' = counted
           \/ /\ asm.scope = "local" /\ globals' = globals
              /\ asm' = [counted EXCEPT !.locals = WithName(n, names)]
  /\ Called
  /\ UNCHANGED <<memory, ub>>

AddParam(n, var) ==
  /\ Using /\ asm.scope = "local" /\ asm.numLocals = 0 /\ ~asm.var
  /\ LET one == More(Loc(n, asm.locals))
     IN /\ asm' = [asm EXCEPT !.locals = WithName(n, @),
                            !.var = var /\ one = 1,
                            !.fixed = @ + (IF var THEN 0 ELSE one)]
        /\ alive' = alive \union {i \in {"varParamsIdx"} : var /\ one = 1}
  /\ Refer("local", Loc(n, asm.locals), n) /\ Called
  /\ UNCHANGED <<held, used, globals, ub>>

\* tazR_idxInsert has the name and cannot grow, or the index of the variadic
\* parameters cannot be made.
NameFails(names, n) ==
  /\ Using /\ Fails
  /\ \/ /\ names = "locals" /\ asm.scope = "global"
        /\ globals' = WithName(n, globals) /\ asm' = asm
     \/ /\ names = "upvals" \/ asm.scope = "local"
        /\ asm' = [asm EXCEPT ![names] = WithName(n, @)] /\ globals' = globals
  /\ UNCHANGED <<code, memory, call, program, broken, ub>>

-------------------------------------------------------------------------------
(* tazR_makeAssembler *)

StartAssembler(scope) ==
  /\ Ready /\ asm = NoAs /\ code = NoCode /\ held - used < MaxDrift
  /\ call' = [op |-> "assembler", scope |-> scope, made |-> 0]
  /\ alive' = alive \union {"upvalIdx", "localIdx"}
  /\ refs' = {} /\ calls' = 0
  /\ UNCHANGED <<asm, code, held, used, globals, roots, faults>>

\* BUF_NAME_init, and the commit of the assembler after the third.
InitBuf ==
  /\ call.op = "assembler" /\ Take(InitCap)
  /\ \/ /\ call.made < 2
        /\ call' = [call EXCEPT !.made = @ + 1] /\ UNCHANGED <<asm, roots>>
     \/ /\ call.made = 2
        /\ call' = Idle /\ asm' = Fresh(call.scope) /\ roots' = roots \union {"asm"}
  /\ UNCHANGED <<code, alive, globals, refs, calls, faults>>

-------------------------------------------------------------------------------
(* makeByteCode *)

\* Instructions are numbered from 1, the address of a label counts those before.
Bytes(form) == IF form = "A" THEN 1 ELSE 2
Span(i, k) == (k - i) + Cardinality({m \in i + 1 .. k : asm.instrs[m].form = "B"})

\* (Faulty: a word may end in the first half of an instruction; LayoutExact.)
MutWordEnd(i) == CHOOSE k \in i + 1 .. Len(asm.instrs) :
  /\ Span(i, k - 1) < WordBytes
  /\ k = Len(asm.instrs) \/ Span(i, k) >= WordBytes

\* The last instruction of the word that starts after instruction i.
WordEnd(i) == CHOOSE k \in i + 1 .. Len(asm.instrs) :
  /\ Span(i, k) <= WordBytes
  /\ k = Len(asm.instrs) \/ Span(i, k + 1) > WordBytes

\* The bytes of a word: a part is shifted as an unsigned, which loses what leaves
\* its width; a shift by that width or more is undefined, and a build wraps the
\* distance or gives 0.
ShiftIn(distance, wraps) ==
  IF distance < IntBytes THEN distance
  ELSE IF wraps THEN distance % IntBytes ELSE IntBytes
WordOf(i, wraps) ==
  [b \in 0 .. WordBytes - 1 |->
    IF b >= IntBytes THEN {}
    ELSE {kp \in (i + 1 .. WordEnd(i)) \X {0, 1} :
            /\ kp[2] < Bytes(asm.instrs[kp[1]].form)
            /\ ShiftIn(Span(i, kp[1] - 1), wraps) + kp[2] = b}]

\* The labels of the instructions of the word.
Placed(i) ==
  [l \in DOMAIN call.labels |->
    LET ks == {k \in i + 1 .. WordEnd(i) : l \in asm.instrs[k].labels}
    IN IF ks = {} THEN call.labels[l]
       ELSE LET k == CHOOSE m \in ks : \A n \in ks : m >= n
            IN [addr |-> k - 1, shift |-> Span(i, k - 1)]]

\* Lists of labels are followed through pointers into the buffer of labels.
Stale(i) == \E k \in i + 1 .. WordEnd(i) : \E l \in asm.instrs[k].labels :
              asm.labels[l].made # asm.moved

Making(stage) == call.op = "make" /\ call.stage = stage /\ ub = "no"
Unplaced == [addr |-> -1, shift |-> -1]

\* The buffer of labels, of uninitialised memory, with its anchor.
StartCode ==
  /\ Using /\ code = NoCode
  /\ call' = [op |-> "make", stage |-> "init", i |-> 0, words |-> <<>>, cap |-> 0,
              labels |-> [l \in DOMAIN asm.labels |-> Unplaced], consts |-> <<>>]
  /\ Take(Len(asm.labels))
  /\ UNCHANGED <<asm, code, alive, globals, program, faults>>

InitWords ==
  /\ Making("init") /\ Take(InitCap)
  /\ call' = [call EXCEPT !.stage = "emit", !.cap = InitCap]
  /\ UNCHANGED <<asm, code, alive, globals, program, faults>>

\* One word of the loop over the instructions.
EmitWord(wraps) ==
  /\ Making("emit") /\ call.i < Len(asm.instrs)
  /\ LET cap == IF Len(call.words) >= call.cap THEN call.cap * 2 ELSE call.cap
     IN /\ call' = [call EXCEPT !.cap = cap, !.words = Append(@, WordOf(call.i, wraps)),
                                !.labels = Placed(call.i), !.i = WordEnd(call.i)]
        /\ Take(cap - call.cap)
  /\ ub' = IF Stale(call.i) THEN "stale_label" ELSE "no"
  /\ UNCHANGED <<asm, code, alive, globals, program, failures, broken>>

\* tazE_mallocObj of the code object.
AllocCode ==
  /\ Making("emit") /\ call.i = Len(asm.instrs)
  /\ call' = [call EXCEPT !.stage = "object"]
  /\ UNCHANGED <<asm, code, memory, globals, program, faults>>

\* ConstBuf_pack takes the constants from the assembler, and the anchor of the
\* labels is given up.
PackConsts ==
  /\ Making("object")
  /\ call' = [call EXCEPT !.stage = "packed", !.consts = asm.consts]
  /\ asm' = [asm EXCEPT !.consts = <<>>, !.cap["consts"] = 0, !.packed = TRUE]
  /\ PackMemory(Len(asm.consts), asm.cap["consts"])
  /\ UNCHANGED <<code, alive, globals, program, faults>>

\* CodeBuf_pack and the commit of the code object.
PackWords ==
  /\ Making("packed")
  /\ code' = [kind |-> "byte", var |-> asm.var, consts |-> call.consts,
              labels |-> call.labels, words |-> call.words, refs |-> refs,
              forms |-> [k \in DOMAIN asm.instrs |-> asm.instrs[k].form],
              where |-> [l \in DOMAIN asm.labels |-> asm.labels[l].where]]
  /\ roots' = roots \union {"code"} /\ call' = Idle
  /\ PackMemory(Len(call.words), call.cap)
  /\ UNCHANGED <<asm, alive, globals, refs, calls, faults>>

-------------------------------------------------------------------------------
(* tazR_makeHostCode *)

HostCode(var) ==
  [kind |-> "host", var |-> var, consts |-> <<>>, labels |-> <<>>, words |-> <<>>,
   refs |-> {}, forms |-> <<>>, where |-> <<>>]

StartHost(info) ==
  /\ Ready /\ asm = NoAs /\ code = NoCode
  /\ call' = [op |-> "host", stage |-> "params", info |-> info]
  /\ alive' = alive \union {"upvalIdx", "localIdx"}
  /\ UNCHANGED <<asm, code, held, used, globals, program, faults>>

CommitHost(var) ==
  code' = HostCode(var) /\ roots' = roots \union {"code"} /\ call' = Idle

\* parseParams after its last string: an ellipsis makes an index.
ParseParams ==
  /\ call.op = "host" /\ call.stage = "params"
  /\ alive' = alive \union {i \in {"varParamsIdx"} : call.info.variadic}
  /\ \/ ~call.info.upvals /\ CommitHost(call.info.variadic)
     \/ call.info.upvals /\ call' = [call EXCEPT !.stage = "upvals"] /\ UNCHANGED <<code, roots>>
  /\ UNCHANGED <<asm, held, used, globals, refs, calls, faults>>

\* parseUpvals after its last string.
ParseUpvals ==
  /\ call.op = "host" /\ call.stage = "upvals"
  /\ CommitHost(call.info.variadic)
  /\ UNCHANGED <<asm, memory, globals, refs, calls, faults>>

-------------------------------------------------------------------------------
(* Failures and collections. *)

\* What the anchors of the call give back, and what it has committed already
\* without an object that owns it.
Anchored ==
  IF call.op = "make" /\ call.stage # "packed" THEN Len(call.labels) ELSE 0
Committed ==
  IF call.op = "assembler" THEN call.made * InitCap
  ELSE IF call.op = "make"
    THEN call.cap + (IF call.stage = "packed" THEN Len(call.consts) + Len(call.labels) ELSE 0)
    ELSE 0

\* The step at hand allocates, or, with "object" and "packed", reallocates.
Allocates ==
  call.op = "make" /\ call.stage = "emit" =>
    call.i = Len(asm.instrs) \/ Len(call.words) >= call.cap

CallFails ==
  /\ call.op # "idle" /\ ub = "no" /\ Allocates /\ Fails
  /\ call' = Idle
  /\ Take(-Anchored) /\ broken' = (broken \/ Committed > 0)
  /\ UNCHANGED <<asm, code, alive, globals, program, ub>>

\* scanAssembler
ScanAssembler ==
  {"upvalIdx", "localIdx"} \union {i \in {"varParamsIdx"} : asm.var} \union Range(asm.consts)

\* _tazR_scanCode
ScanCode ==
  {"upvalIdx", "localIdx"} \union {i \in {"varParamsIdx"} : code.var} \union Range(code.consts)

\* BUF_NAME_finl: what the buffer gives back.
FinlBuf(b) == asm.cap[b]

\* (Faulty: without the labels; NothingLost.)
MutFinlAssembler == FinlBuf("instrs") + FinlBuf("consts")
\* finlAssembler and _tazR_finlCode
FinlAssembler == FinlBuf("instrs") + FinlBuf("labels") + FinlBuf("consts")
FinlCode == Len(code.consts) + Len(code.labels) + Len(code.words)

\* A collection at an allocation, or when the program asks for it.  What only a
\* tentative object refers to is not marked, and no shrinking reallocation
\* collects.  A code object counts its words when it is freed, as
\* tazR_sizeofCode does, though they were allocated and freed apart.
Collect ==
  /\ ub = "no" /\ Allocates
  /\ call.op = "make" => call.stage \notin {"object", "packed"}
  /\ LET keepsAs == asm # NoAs /\ "asm" \in roots
         keepsCode == code # NoCode /\ "code" \in roots
         goneAs == IF asm = NoAs \/ keepsAs THEN 0 ELSE FinlAssembler
         goneCode == IF code = NoCode \/ keepsCode THEN 0 ELSE FinlCode
         again == IF code = NoCode \/ keepsCode THEN 0 ELSE Len(code.words)
     IN /\ alive' = alive \intersect
             ((IF keepsAs THEN ScanAssembler ELSE {})
               \union (IF keepsCode THEN ScanCode ELSE {})
               \union (IF call.op \in {"assembler", "host"} THEN {"upvalIdx", "localIdx"} ELSE {}))
        /\ asm' = IF keepsAs THEN asm ELSE NoAs
        /\ code' = IF keepsCode THEN code ELSE NoCode
        /\ held' = held - goneAs - goneCode
        /\ used' = used - goneAs - goneCode - again
  /\ UNCHANGED <<globals, call, program, faults>>

\* The program is done with an object.
Drop(o) ==
  /\ Ready /\ o \in roots /\ roots' = roots \ {o}
  /\ UNCHANGED <<asm, code, memory, globals, call, refs, calls, faults>>

Next ==
  \/ \E form \in {"A", "B"} : AddInstr(form)
  \/ \E where \in 0 .. MaxCalls, moves \in BOOLEAN : AddLabel(where, moves)
  \/ \E v \in Value : AddConst(v)
  \/ \E n \in Name : AddUpval(n) \/ AddLocal(n) \/ \E var \in BOOLEAN : AddParam(n, var)
  \/ \E b \in {"instrs", "labels", "consts"} : PutFails(b)
  \/ \E names \in {"upvals", "locals"}, n \in Name : NameFails(names, n)
  \/ \E scope \in {"local", "global"} : StartAssembler(scope)
  \/ InitBuf \/ StartCode \/ InitWords \/ \E wraps \in BOOLEAN : EmitWord(wraps)
  \/ AllocCode \/ PackConsts \/ PackWords
  \/ \E info \in Infos : StartHost(info)
  \/ ParseParams \/ ParseUpvals \/ CallFails \/ Collect
  \/ \E o \in {"asm", "code"} : Drop(o)

Spec == Init /\ [][Next]_vars

-------------------------------------------------------------------------------
Sum3(cap) == cap["instrs"] + cap["labels"] + cap["consts"]
Bytecode == code # NoCode /\ code.kind = "byte"

TypeOK ==
  /\ \/ asm = NoAs
     \/ /\ asm.scope \in {"local", "global"} /\ {asm.packed, asm.var} \subseteq BOOLEAN
        /\ \A i \in DOMAIN asm.instrs : /\ asm.instrs[i].form \in {"A", "B"}
                                       /\ asm.instrs[i].labels \subseteq DOMAIN asm.labels
        /\ asm.top \subseteq DOMAIN asm.labels /\ asm.consts \in Seq(Value)
        /\ {asm.upvals, asm.locals} \subseteq Seq(Name)
        /\ \A b \in {"instrs", "labels", "consts"} : asm.packed \/ Len(asm[b]) <= asm.cap[b]
        /\ {asm.fixed, asm.numUpvals, asm.numLocals, asm.moved} \subseteq Nat
  /\ code = NoCode \/ /\ code.kind \in {"byte", "host"} /\ code.var \in BOOLEAN
                      /\ code.consts \in Seq(Value)
  /\ roots \subseteq {"asm", "code"} /\ globals \in Seq(Name)
  /\ alive \subseteq Value \union {"upvalIdx", "localIdx", "varParamsIdx"}
  /\ call.op \in {"idle", "assembler", "make", "host"}
  /\ held \in Nat /\ used \in Int /\ calls \in 0 .. MaxCalls /\ failures \in 0 .. MaxFailures
  /\ broken \in BOOLEAN /\ ub \in {"no", "null_write", "stale_label"}

\* A reference that the assembler has returned denotes what it was asked for, in
\* the assembler and in the code made from it: the 16 bits of `which` are never
\* another constant's or variable's.
RefsDenote ==
  LET Denotes(r, consts, upvals, locals) ==
        LET table == CASE r[1] = "const" -> consts [] r[1] = "upval" -> upvals [] r[1] = "local" -> locals
        IN r[2] < Len(table) /\ table[r[2] + 1] = r[3]
  IN /\ asm # NoAs /\ ~asm.packed /\ call.op # "make" =>
          \A r \in refs : Denotes(r, asm.consts, asm.upvals,
                                  IF asm.scope = "global" THEN globals ELSE asm.locals)
     /\ Bytecode => \A r \in code.refs : r[1] = "const" => Denotes(r, code.consts, <<>>, <<>>)

\* Whatever an object that the program keeps leads to is allocated (what marking is
\* for, taz_code.c:81): a function of the host with both an ellipsis and upvalues
\* has the index of its variadic parameters in no bucket while its upvalues are
\* interned (taz_code.c:384).
ScansKeep ==
  /\ asm # NoAs /\ "asm" \in roots =>
       /\ {"upvalIdx", "localIdx"} \union Range(asm.consts) \subseteq alive
       /\ asm.var => "varParamsIdx" \in alive
  /\ code # NoCode /\ "code" \in roots =>
       /\ {"upvalIdx", "localIdx"} \union Range(code.consts) \subseteq alive
       /\ code.var => "varParamsIdx" \in alive
  /\ call.op = "make" => Range(call.consts) \subseteq alive

\* All raw memory belongs to the assembler, the code object or the call under way,
\* each part to one of them, unless an allocation has failed half way through a
\* construction: a buffer that cannot grow loses nothing.
NothingLost ==
  ~broken => held = (IF asm = NoAs THEN 0 ELSE Sum3(asm.cap))
                    + (IF code = NoCode THEN 0
                       ELSE Len(code.consts) + Len(code.labels) + Len(code.words))
                    + Anchored + Committed

\* The place that taz_opcodes.in.c gives each instruction: one byte or two of one
\* word, the first that has room.
Places(forms) ==
  LET place[k \in DOMAIN forms] ==
        IF k = 1 THEN [word |-> 1, byte |-> 0]
        ELSE LET end == place[k - 1].byte + Bytes(forms[k - 1])
             IN IF end + Bytes(forms[k]) <= WordBytes
                  THEN [word |-> place[k - 1].word, byte |-> end]
                  ELSE [word |-> place[k - 1].word + 1, byte |-> 0]
  IN place

NumWords(forms) == IF forms = <<>> THEN 0 ELSE Places(forms)[Len(forms)].word

\* The bytes of word w have the parts of instructions that are placed there.
ReadsBack(forms, w, word) ==
  LET place == Places(forms)
  IN \A b \in 0 .. WordBytes - 1 :
       word[b] = {kp \in (DOMAIN forms) \X {0, 1} :
                    /\ kp[2] < Bytes(forms[kp[1]])
                    /\ place[kp[1]].word = w /\ place[kp[1]].byte + kp[2] = b}

\* The instructions of word w fill no more than an unsigned.
Narrow(forms, w) ==
  LET place == Places(forms)
  IN \A k \in DOMAIN forms :
       place[k].word = w => place[k].byte + Bytes(forms[k]) <= IntBytes

\* A code object has as many words as its instructions need; every word whose
\* instructions fill no more than an unsigned reads back as they are, whatever has
\* become of the words before it; and each label, linked before its instruction or
\* after, has the byte of that instruction in its word.  (Nothing is said of a
\* label's address, of labels after the last instruction and of fuller words:
\* LabelsLeadToWords, LabelsPlaced and DecodesBack.)
LayoutExact ==
  Bytecode =>
    /\ Len(code.words) = NumWords(code.forms)
    /\ \A w \in DOMAIN code.words :
         Narrow(code.forms, w) => ReadsBack(code.forms, w, code.words[w])
    /\ \A l \in DOMAIN code.labels :
         code.where[l] < Len(code.forms) =>
           code.labels[l].shift = Places(code.forms)[code.where[l] + 1].byte

\* "Every instruction fits in either a single byte or a two byte word"
\* (taz_opcodes.in.c:14): the instructions can be read back from the words.
DecodesBack ==
  Bytecode => \A w \in DOMAIN code.words : ReadsBack(code.forms, w, code.words[w])

\* A label leads to the word of its instruction (taz_code.h:39).
LabelsLeadToWords ==
  Bytecode => \A l \in DOMAIN code.labels :
    code.where[l] < Len(code.forms) =>
      code.labels[l].addr = Places(code.forms)[code.where[l] + 1].word - 1

\* No label is left as the memory of the buffer was.
LabelsPlaced == Bytecode => \A l \in DOMAIN code.labels : code.labels[l] # Unplaced

\* No label is followed through a pointer into a buffer that has moved.
NeverStale == ub # "stale_label"

\* No element is written to a buffer without memory.
NeverNull == ub # "null_write"

\* memUsed counts the memory that is held.
CountExact == used = held

\* No failure loses memory.
NeverLoses == ~broken
===============================================================================
