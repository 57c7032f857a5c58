----------------------------- MODULE Environment -----------------------------
(***************************************************************************)
(* The environment of taz_environment.c: the global variables, whose slots *)
(* an index of their names numbers and whose array grows behind it, and    *)
(* the records of import strategies and operator functions.                *)
(*                                                                         *)
(* The index is the sequence of its keys: a loc is a position, from 0, as  *)
(* KeyMap has it.  A look-up is two steps, the insertion of the name and   *)
(* the growth of the array, each of which may run out of memory; what the  *)
(* first did stays when the second fails.                                  *)
(***************************************************************************)
EXTENDS Integers, Sequences, FiniteSets

CONSTANTS
  Name,               \* names of globals
  Strategy, Operator, \* names of import strategies and of operators
  Value, Fun,
  Udf,                \* the undefined value
  Garbage,            \* what unwritten memory may hold: "null", "wild"
  MaxFailures,        \* bound: calls that run out of memory
  MaxHandles          \* bound: locs, variables and pointers the program keeps

ASSUME EnvAssumption ==
  /\ Udf \notin Value \union Fun
  /\ Garbage \subseteq {"null", "wild"}
  /\ MaxFailures \in Nat /\ MaxHandles \in Nat

VARIABLES
  names,              \* Env.globalsIdx
  vals,               \* Env.globalsBuf: globalsCap values
  place,              \* how often globalsBuf has moved
  table,              \* importLoaders, importTranslators and operatorFunctions
  scan,               \* Env.base.scan, which tazR_initEnv does not set
  objs,               \* the objects of the environment that are allocated
  call,               \* the call under way
  known,              \* names the program has got a global for (history)
  handles,            \* what the program keeps of its calls
  failures,           \* calls that ran out of memory (history)
  ub                  \* "no", or what undefined behaviour was reached

globals == <<names, vals, place>>
program == <<known, handles>>
vars == <<globals, table, scan, objs, call, program, failures, ub>>

-------------------------------------------------------------------------------
EnvObj == {"globalsIdx", "loaders", "translators", "operators"}
Entry == ({"loaders", "translators"} \X Strategy) \union ({"operators"} \X Operator)
Idle == [op |-> "idle"]

\* How a global is returned: tazR_getGlobalLoc, tazR_getGlobalVar or
\* tazR_getGlobalVal, the last with the place its pointer leads to.
Kind == {"loc", "var", "val"}
Handle == [kind : Kind, name : Name, loc : Nat, at : Nat]
Ensuring == [op : {"ensure"}, kind : Kind, name : Name, loc : Nat]
Defining == [op : {"strategy"}, name : Strategy, trans : Fun]

Cap == Len(vals)
Present(n) == \E i \in DOMAIN names : names[i] = n
LocOf(n, seq) == (CHOOSE i \in DOMAIN seq : seq[i] = n) - 1

\* The memory of Env.base.scan is as tazE_mallocObj returned it.
Init ==
  /\ names = <<>> /\ vals = <<>> /\ place = 0
  /\ table = [e \in Entry |-> Udf]
  /\ scan \in Garbage /\ objs = EnvObj
  /\ call = Idle /\ known = {} /\ handles = {} /\ failures = 0 /\ ub = "no"

Ready == call.op = "idle" /\ ub = "no"

-------------------------------------------------------------------------------
(* Globals. *)

\* The definitions named Mut... are faulty forms of the ones they precede:
\* each breaks the property that its comment names.

\* tazR_idxInsert.  (Faulty: a name that is there gets a second loc; TypeOK.)
MutWithName(n) == Append(names, n)
WithName(n) == IF Present(n) THEN names ELSE Append(names, n)

\* A program that looks up a name for the first time counts on no pointer it
\* has got before.
Kept(n) == IF n \in known THEN handles ELSE {h \in handles : h.kind # "val"}

\* tazR_getGlobalLoc, tazR_getGlobalVar and tazR_getGlobalVal up to
\* ensureGlobal.
LookUp(kind, n) ==
  /\ Ready /\ objs = EnvObj
  /\ names' = WithName(n)
  /\ call' = [op |-> "ensure", kind |-> kind, name |-> n, loc |-> LocOf(n, WithName(n))]
  /\ handles' = Kept(n)
  /\ UNCHANGED <<vals, place, table, scan, objs, known, failures, ub>>

\* tazR_idxInsert has the name and cannot grow: the error leaves the call.
LookUpFails(n) ==
  /\ Ready /\ objs = EnvObj /\ failures < MaxFailures
  /\ names' = WithName(n)
  /\ handles' = Kept(n)
  /\ failures' = failures + 1
  /\ UNCHANGED <<vals, place, table, scan, objs, call, known, ub>>

\* tazR_getGlobalVarByLoc and tazR_getGlobalValByLoc, with a loc that
\* tazR_getGlobalLoc has returned.
ByLoc(kind, h) ==
  /\ Ready /\ objs = EnvObj
  /\ h \in handles /\ h.kind = "loc" /\ kind # "loc"
  /\ call' = [op |-> "ensure", kind |-> kind, name |-> h.name, loc |-> h.loc]
  /\ UNCHANGED <<globals, table, scan, objs, program, failures, ub>>

\* (Faulty: the array grows one loc early; HandlesFollow.)
MutBacked(loc) == loc + 1 < Cap
Backed(loc) == loc < Cap

\* (Faulty: by one; FailuresToPassEnd.)
MutNewCap == Cap + 1
NewCap == Cap * 2 + 1

\* (Faulty: every slot is cleared; ImplementsFields.)
MutGrownVals == [i \in 1 .. NewCap |-> Udf]
GrownVals == [i \in 1 .. NewCap |-> IF i <= Cap THEN vals[i] ELSE Udf]

\* The call returns: its loc is in the array, or the pointer it returns leads
\* past the end.
Return(buf, at) ==
  LET h == [kind |-> call.kind, name |-> call.name, loc |-> call.loc,
            at |-> IF call.kind = "val" THEN at ELSE 0]
  IN /\ call' = Idle
     /\ known' = known \union {call.name}
     /\ ub' = IF call.loc < Len(buf) THEN "no" ELSE "past_end"
     /\ \/ handles' = handles
        \/ Cardinality(handles) < MaxHandles /\ handles' = handles \union {h}

\* ensureGlobal returns early.
Ensured ==
  /\ call.op = "ensure" /\ ub = "no" /\ Backed(call.loc)
  /\ Return(vals, place)
  /\ UNCHANGED <<globals, table, scan, objs, failures>>

\* ensureGlobal grows the array, in its place or in another.
Grow(at) ==
  /\ call.op = "ensure" /\ ub = "no" /\ ~Backed(call.loc)
  /\ at \in {place, place + 1}
  /\ vals' = GrownVals /\ place' = at
  /\ Return(GrownVals, at)
  /\ UNCHANGED <<names, table, scan, objs, failures>>

\* The array cannot grow: the name stays in the index.
GrowFails ==
  /\ call.op = "ensure" /\ ub = "no" /\ ~Backed(call.loc)
  /\ failures < MaxFailures
  /\ failures' = failures + 1 /\ call' = Idle
  /\ UNCHANGED <<globals, table, scan, objs, program, ub>>

\* tazR_varSet, or an assignment through the pointer.
Set(h, v) ==
  /\ Ready /\ h \in handles /\ h.kind # "loc"
  /\ vals' = [vals EXCEPT ![h.loc + 1] = v]
  /\ UNCHANGED <<names, place, table, scan, objs, call, program, failures, ub>>

\* The program is done with a handle.
Drop(h) ==
  /\ Ready /\ h \in handles
  /\ handles' = handles \ {h}
  /\ UNCHANGED <<globals, table, scan, objs, call, known, failures, ub>>

-------------------------------------------------------------------------------
(* Import strategies and operators. *)

\* tazR_setImportStrategy up to the second definition.
DefLoader(s, load, trans) ==
  /\ Ready /\ objs = EnvObj
  /\ table' = [table EXCEPT ![<<"loaders", s>>] = load]
  /\ call' = [op |-> "strategy", name |-> s, trans |-> trans]
  /\ UNCHANGED <<globals, scan, objs, program, failures, ub>>

DefTranslator ==
  /\ call.op = "strategy" /\ ub = "no"
  /\ table' = [table EXCEPT ![<<"translators", call.name>>] = call.trans]
  /\ call' = Idle
  /\ UNCHANGED <<globals, scan, objs, program, failures, ub>>

\* The second definition runs out of memory.
DefTranslatorFails ==
  /\ call.op = "strategy" /\ ub = "no" /\ failures < MaxFailures
  /\ failures' = failures + 1 /\ call' = Idle
  /\ UNCHANGED <<globals, table, scan, objs, program, ub>>

\* tazR_setOperatorFunction
SetOperatorFunction(o, f) ==
  /\ Ready /\ objs = EnvObj
  /\ table' = [table EXCEPT ![<<"operators", o>>] = f]
  /\ UNCHANGED <<globals, scan, objs, call, program, failures, ub>>

\* tazR_getImportStrategy: the loader and the translator.
ImportStrategy(s) == <<table[<<"loaders", s>>], table[<<"translators", s>>]>>

\* A collection at any allocation of a call or between calls: the environment's
\* scan routine marks its objects if it is called.
Collect ==
  /\ objs = EnvObj /\ ub = "no"
  /\ \/ scan = "null" /\ objs' = {} /\ ub' = ub
     \/ scan = "wild" /\ ub' = "wild_call" /\ objs' = objs
  /\ UNCHANGED <<globals, table, scan, call, program, failures>>

Next ==
  \/ \E kind \in Kind, n \in Name : LookUp(kind, n)
  \/ \E n \in Name : LookUpFails(n)
  \/ \E kind \in Kind, h \in handles : ByLoc(kind, h)
  \/ Ensured \/ GrowFails \/ \E at \in {place, place + 1} : Grow(at)
  \/ \E h \in handles : Drop(h) \/ \E v \in Value : Set(h, v)
  \/ \E s \in Strategy, load, trans \in Fun : DefLoader(s, load, trans)
  \/ DefTranslator \/ DefTranslatorFails
  \/ \E o \in Operator, f \in Fun : SetOperatorFunction(o, f)
  \/ Collect

Spec == Init /\ [][Next]_vars

-------------------------------------------------------------------------------
TypeOK ==
  /\ names \in Seq(Name) /\ \A i, j \in DOMAIN names : names[i] = names[j] => i = j
  /\ vals \in Seq(Value \union {Udf}) /\ place \in Nat
  /\ table \in [Entry -> Fun \union {Udf}]
  /\ scan \in Garbage /\ objs \subseteq EnvObj
  /\ call \in {Idle} \union Ensuring \union Defining
  /\ known \subseteq Name /\ handles \subseteq Handle
  /\ failures \in 0 .. MaxFailures /\ ub \in {"no", "past_end", "wild_call"}

\* What tazR_getGlobalVal, tazR_getImportStrategy and tazR_getOperatorFunction
\* return, as one set of fields.
GlobalFields ==
  {<<"global", names[i], vals[i]>> : i \in {j \in DOMAIN names : j <= Cap /\ vals[j] # Udf}}
TableFields == {<<e[1], e[2], table[e]>> : e \in {d \in Entry : table[d] # Udf}}

Store == INSTANCE Fields WITH fields <- GlobalFields \union TableFields

\* A call changes one global, one strategy's function or one operator's and
\* leaves all the others alone, whether the array grows, moves or fails to grow
\* on the way: what was stored under a name is found under it again.
ImplementsFields == Store!Spec

\* What the program keeps leads to the global it asked for: a loc and a variable
\* however often the array has grown since, a pointer of tazR_getGlobalVal for
\* as long as the program looks up only names that it knows.
HandlesFollow ==
  ub = "no" =>
    \A h \in handles : /\ h.loc < Len(names) /\ names[h.loc + 1] = h.name
                       /\ h.loc < Cap
                       /\ h.kind = "val" => h.at = place

\* ensureGlobal grows the array once, whatever loc it is asked for.  As it
\* doubles, a pointer past its end takes more failures before than half of its
\* slots: no program gets one that has not run out of memory.
FailuresToPassEnd == ub = "past_end" => 2 * failures > Cap

\* A global that a call returns is in the array.
NeverPastEnd == ub # "past_end"

\* The environment "is responsible for maintaining a pool of global variables":
\* a collection keeps what it consists of.
SurvivesCollections == objs = EnvObj

\* Between calls a strategy has both functions of one tazR_setImportStrategy.
StrategiesWhole ==
  Ready => \A s \in Strategy : (ImportStrategy(s)[1] = Udf) = (ImportStrategy(s)[2] = Udf)
===============================================================================
