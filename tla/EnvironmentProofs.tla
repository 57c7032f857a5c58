-------------------------- MODULE EnvironmentProofs --------------------------
(***************************************************************************)
(* Proofs about Environment, for any number of names, failures and kept    *)
(* handles: how far the index can be ahead of the array of globals, and    *)
(* what the locs, variables and pointers of a program lead to.             *)
(***************************************************************************)
EXTENDS Environment, FiniteSetTheorems, TLAPS

-------------------------------------------------------------------------------
\* A sequence of names has the loc that a look-up returns.
LEMMA LocOfPresent ==
  ASSUME NEW seq \in Seq(Name), NEW n, \E i \in DOMAIN seq : seq[i] = n
  PROVE  /\ LocOf(n, seq) \in Nat /\ LocOf(n, seq) < Len(seq)
         /\ seq[LocOf(n, seq) + 1] = n
<1> DEFINE i == CHOOSE j \in DOMAIN seq : seq[j] = n
<1>1. i \in DOMAIN seq /\ seq[i] = n
  OBVIOUS
<1>2. i \in 1 .. Len(seq)
  BY <1>1
<1>3. LocOf(n, seq) = i - 1
  BY DEF LocOf
<1>4. QED
  BY <1>1, <1>2, <1>3

Distinct(seq) == \A i, j \in DOMAIN seq : seq[i] = seq[j] => i = j

\* The index after an insertion: the name is there, and the locs stay.
LEMMA WithNameKeeps ==
  ASSUME names \in Seq(Name), Distinct(names), NEW n \in Name
  PROVE  /\ WithName(n) \in Seq(Name) /\ Distinct(WithName(n))
         /\ \E i \in DOMAIN WithName(n) : WithName(n)[i] = n
         /\ \A i \in DOMAIN names : i \in DOMAIN WithName(n) /\ WithName(n)[i] = names[i]
         /\ \/ WithName(n) = names
            \/ /\ Len(WithName(n)) = Len(names) + 1
               /\ WithName(n)[Len(names) + 1] = n
<1>1. CASE Present(n)
  BY <1>1 DEF Present, WithName
<1>2. CASE ~Present(n)
  <2>1. WithName(n) = Append(names, n)
    BY <1>2 DEF WithName
  <2>2. \A i \in DOMAIN names : names[i] # n
    BY <1>2 DEF Present
  <2>3. Append(names, n) \in Seq(Name) /\ Len(Append(names, n)) = Len(names) + 1
    OBVIOUS
  <2>4. DOMAIN Append(names, n) = 1 .. Len(names) + 1 /\ DOMAIN names = 1 .. Len(names)
    BY <2>3
  <2>5. Append(names, n)[Len(names) + 1] = n
    OBVIOUS
  <2>6. \A i \in 1 .. Len(names) : Append(names, n)[i] = names[i]
    OBVIOUS
  <2>7. Distinct(Append(names, n))
    <3>1. SUFFICES ASSUME NEW i \in 1 .. Len(names) + 1, NEW j \in 1 .. Len(names) + 1,
                          Append(names, n)[i] = Append(names, n)[j]
                   PROVE  i = j
      BY <2>4 DEF Distinct
    <3>2. CASE i \in 1 .. Len(names) /\ j \in 1 .. Len(names)
      BY <2>4, <2>6, <3>1, <3>2 DEF Distinct
    <3>3. CASE i = Len(names) + 1 \/ j = Len(names) + 1
      BY <2>2, <2>4, <2>5, <2>6, <3>1, <3>3
    <3>4. QED
      BY <3>2, <3>3
  <2>8. QED
    BY <2>1, <2>3, <2>4, <2>5, <2>6, <2>7
<1>3. QED
  BY <1>1, <1>2

-------------------------------------------------------------------------------
(* The invariant, in three parts. *)

Typed ==
  /\ names \in Seq(Name) /\ Distinct(names)
  /\ vals \in Seq(Value \union {Udf}) /\ place \in Nat
  /\ table \in [Entry -> Fun \union {Udf}]
  /\ scan \in Garbage /\ objs \subseteq EnvObj
  /\ call \in {Idle} \union Ensuring \union Defining
  /\ known \subseteq Name /\ handles \subseteq Handle
  /\ failures \in 0 .. MaxFailures /\ ub \in {"no", "past_end", "wild_call"}

\* The name of the call has its loc; the index is no further ahead of the array
\* than calls have failed, but for the name of the call.
Ahead ==
  /\ call.op = "ensure" => call.loc < Len(names) /\ names[call.loc + 1] = call.name
  /\ \/ Len(names) <= Cap + failures
     \/ /\ call.op = "ensure" /\ call.loc + 1 = Len(names)
        /\ Len(names) = Cap + failures + 1
  /\ FailuresToPassEnd

\* A name that was returned has a slot, so that a call for it moves nothing.
Backing ==
  /\ ub = "no" =>
       \A n \in known : \E i \in DOMAIN names : names[i] = n /\ i <= Cap
  /\ \A h \in handles : h.name \in known
  /\ \A h \in handles : h.loc < Len(names) /\ names[h.loc + 1] = h.name
  /\ call.op = "ensure" /\ call.name \notin known => \A h \in handles : h.kind # "val"
  /\ HandlesFollow

IInv == Typed /\ Ahead /\ Backing

\* A new environment.
LEMMA InitInv == Init => IInv
<1>1. SUFFICES ASSUME Init PROVE IInv
  OBVIOUS
<1>2. names = <<>> /\ vals = <<>> /\ Len(names) = 0 /\ Len(vals) = 0
  BY <1>1 DEF Init
<1>3. call = Idle /\ call.op = "idle" /\ handles = {} /\ known = {} /\ ub = "no" /\ failures = 0
  BY <1>1 DEF Init, Idle
<1>4. Typed
  BY <1>1, <1>2, <1>3, EnvAssumption DEF Init, Typed, Distinct, globals
<1>5. Ahead
  BY <1>2, <1>3 DEF Ahead, FailuresToPassEnd, Cap
<1>6. Backing
  BY <1>2, <1>3 DEF Backing, HandlesFollow, Cap
<1>7. QED
  BY <1>4, <1>5, <1>6 DEF IInv

-------------------------------------------------------------------------------
(* The steps. *)

\* An insertion into the index while nothing else moves.
LEMMA Inserted ==
  ASSUME IInv, NEW n \in Name, names' = WithName(n), vals' = vals, place' = place,
         known' = known, handles' = Kept(n), ub = "no", ub' = "no"
  PROVE  /\ names' \in Seq(Name) /\ Distinct(names')
         /\ LocOf(n, WithName(n)) \in Nat /\ LocOf(n, WithName(n)) < Len(names')
         /\ names'[LocOf(n, WithName(n)) + 1] = n
         /\ \/ names' = names
            \/ Len(names') = Len(names) + 1 /\ LocOf(n, WithName(n)) + 1 = Len(names')
         /\ handles' \subseteq handles
         /\ n \notin known => \A h \in handles' : h.kind # "val"
         /\ \A m \in known' : \E i \in DOMAIN names' : names'[i] = m /\ i <= Cap'
         /\ \A h \in handles' : h.loc < Len(names') /\ names'[h.loc + 1] = h.name
         /\ HandlesFollow'
<1>1. names \in Seq(Name) /\ Distinct(names) /\ handles \subseteq Handle
  BY DEF IInv, Typed
<1>2. /\ names' \in Seq(Name) /\ Distinct(names')
      /\ \E i \in DOMAIN names' : names'[i] = n
      /\ \A i \in DOMAIN names : i \in DOMAIN names' /\ names'[i] = names[i]
      /\ \/ names' = names
         \/ Len(names') = Len(names) + 1 /\ names'[Len(names) + 1] = n
  BY <1>1, WithNameKeeps
<1>3. /\ LocOf(n, WithName(n)) \in Nat /\ LocOf(n, WithName(n)) < Len(names')
      /\ names'[LocOf(n, WithName(n)) + 1] = n
  BY <1>2, LocOfPresent
<1>4. \/ names' = names
      \/ Len(names') = Len(names) + 1 /\ LocOf(n, WithName(n)) + 1 = Len(names')
  <2>1. SUFFICES ASSUME Len(names') = Len(names) + 1, names'[Len(names) + 1] = n
                 PROVE  LocOf(n, WithName(n)) + 1 = Len(names')
    BY <1>2
  <2>2. Len(names) + 1 \in DOMAIN names' /\ LocOf(n, WithName(n)) + 1 \in DOMAIN names'
    BY <1>2, <1>3, <2>1
  <2>3. LocOf(n, WithName(n)) + 1 = Len(names) + 1
    BY <1>2, <1>3, <2>1, <2>2 DEF Distinct
  <2>4. QED
    BY <2>1, <2>3
<1>5. handles' \subseteq handles /\ (n \notin known => \A h \in handles' : h.kind # "val")
  BY DEF Kept
<1>6. \A m \in known' : \E i \in DOMAIN names' : names'[i] = m /\ i <= Cap'
  BY <1>2 DEF IInv, Backing, Cap
<1>7. \A h \in handles' : h.loc < Len(names') /\ names'[h.loc + 1] = h.name
  <2>1. SUFFICES ASSUME NEW h \in handles PROVE h.loc < Len(names') /\ names'[h.loc + 1] = h.name
    BY <1>5
  <2>2. h.loc \in Nat /\ h.loc < Len(names) /\ names[h.loc + 1] = h.name
    BY <1>1 DEF IInv, Backing, Handle
  <2>3. h.loc + 1 \in DOMAIN names
    BY <1>1, <2>2
  <2>4. h.loc + 1 \in DOMAIN names' /\ names'[h.loc + 1] = h.name
    BY <1>2, <2>2, <2>3
  <2>5. h.loc < Len(names')
    BY <1>2, <2>2, <2>4
  <2>6. QED
    BY <2>4, <2>5
<1>8. HandlesFollow'
  <2>1. \A h \in handles : h.loc < Cap /\ (h.kind = "val" => h.at = place)
    BY DEF IInv, Backing, HandlesFollow
  <2>2. QED
    BY <1>5, <1>7, <2>1 DEF HandlesFollow, Cap
<1>9. QED
  BY <1>2, <1>3, <1>4, <1>5, <1>6, <1>7, <1>8

\* A look-up that inserts its name.
LEMMA LookUpInv ==
  ASSUME IInv, NEW kind \in Kind, NEW n \in Name, LookUp(kind, n)
  PROVE  IInv'
<1> DEFINE loc == LocOf(n, WithName(n))
<1>1. /\ ub = "no" /\ call.op = "idle" /\ names' = WithName(n) /\ handles' = Kept(n)
      /\ call' = [op |-> "ensure", kind |-> kind, name |-> n, loc |-> loc]
      /\ UNCHANGED <<vals, place, table, scan, objs, known, failures, ub>>
  BY DEF LookUp, Ready
<1>2. /\ names' \in Seq(Name) /\ Distinct(names')
      /\ loc \in Nat /\ loc < Len(names') /\ names'[loc + 1] = n
      /\ names' = names \/ (Len(names') = Len(names) + 1 /\ loc + 1 = Len(names'))
      /\ handles' \subseteq handles
      /\ n \notin known => \A h \in handles' : h.kind # "val"
      /\ \A m \in known' : \E i \in DOMAIN names' : names'[i] = m /\ i <= Cap'
      /\ \A h \in handles' : h.loc < Len(names') /\ names'[h.loc + 1] = h.name
      /\ HandlesFollow'
  BY <1>1, Inserted
<1>3. call' \in Ensuring
  BY <1>1, <1>2 DEF Ensuring
<1>4. Typed'
  BY <1>1, <1>2, <1>3 DEF IInv, Typed
<1>5. Ahead'
  <2>1. call'.op = "ensure" /\ call'.loc = loc /\ call'.name = n
    BY <1>1
  <2>2. Len(names) <= Cap + failures
    BY <1>1 DEF IInv, Ahead
  <2>3. Len(names) \in Nat /\ Cap \in Nat /\ Cap' = Cap /\ failures \in Nat /\ failures' = failures
    BY <1>1, EnvAssumption DEF IInv, Typed, Cap
  <2>4. CASE names' = names
    BY <1>1, <1>2, <2>1, <2>2, <2>3, <2>4 DEF Ahead, FailuresToPassEnd
  <2>5. CASE Len(names') = Len(names) + 1 /\ loc + 1 = Len(names')
    BY <1>1, <1>2, <2>1, <2>2, <2>3, <2>5 DEF Ahead, FailuresToPassEnd
  <2>6. QED
    BY <1>2, <2>4, <2>5
<1>6. Backing'
  <2>1. call'.name = n /\ known' = known
    BY <1>1
  <2>2. \A h \in handles' : h.name \in known'
    BY <1>2, <2>1 DEF IInv, Backing
  <2>3. QED
    BY <1>2, <2>1, <2>2 DEF Backing
<1>7. QED
  BY <1>4, <1>5, <1>6 DEF IInv

\* A look-up whose index cannot grow.
LEMMA LookUpFailsInv ==
  ASSUME IInv, NEW n \in Name, LookUpFails(n)
  PROVE  IInv'
<1>1. /\ ub = "no" /\ call.op = "idle" /\ names' = WithName(n) /\ handles' = Kept(n)
      /\ failures < MaxFailures /\ failures' = failures + 1
      /\ UNCHANGED <<vals, place, table, scan, objs, call, known, ub>>
  BY DEF LookUpFails, Ready
<1>2. /\ names' \in Seq(Name) /\ Distinct(names')
      /\ names' = names \/ Len(names') = Len(names) + 1
      /\ handles' \subseteq handles
      /\ \A m \in known' : \E i \in DOMAIN names' : names'[i] = m /\ i <= Cap'
      /\ \A h \in handles' : h.loc < Len(names') /\ names'[h.loc + 1] = h.name
      /\ HandlesFollow'
  BY <1>1, Inserted
<1>3. Len(names) \in Nat /\ Cap \in Nat /\ Cap' = Cap /\ failures \in Nat /\ failures' \in 0 .. MaxFailures
  BY <1>1, EnvAssumption DEF IInv, Typed, Cap
<1>4. Typed'
  BY <1>1, <1>2, <1>3 DEF IInv, Typed
<1>5. Ahead'
  <2>1. Len(names) <= Cap + failures
    BY <1>1 DEF IInv, Ahead
  <2>2. QED
    BY <1>1, <1>2, <1>3, <2>1 DEF Ahead, FailuresToPassEnd
<1>6. Backing'
  BY <1>1, <1>2 DEF IInv, Backing
<1>7. QED
  BY <1>4, <1>5, <1>6 DEF IInv

\* A call with a loc that was returned before.
LEMMA ByLocInv ==
  ASSUME IInv, NEW kind \in Kind, NEW h \in handles, ByLoc(kind, h)
  PROVE  IInv'
<1>1. /\ ub = "no" /\ call.op = "idle"
      /\ call' = [op |-> "ensure", kind |-> kind, name |-> h.name, loc |-> h.loc]
      /\ UNCHANGED <<names, vals, place, table, scan, objs, known, handles, failures, ub>>
  BY DEF ByLoc, Ready, globals, program
<1>2. h \in Handle /\ h.name \in known
  BY DEF IInv, Typed, Backing
<1>3. h.loc < Len(names) /\ names[h.loc + 1] = h.name
  BY DEF IInv, Backing
<1>4. call' \in Ensuring
  BY <1>1, <1>2 DEF Ensuring, Handle
<1>5. Typed'
  BY <1>1, <1>4 DEF IInv, Typed
<1>6. Ahead'
  BY <1>1, <1>3 DEF IInv, Ahead, FailuresToPassEnd, Cap
<1>7. Backing'
  BY <1>1, <1>2 DEF IInv, Backing, HandlesFollow, Cap
<1>8. QED
  BY <1>5, <1>6, <1>7 DEF IInv

\* A call for a loc ends, with an array that has the loc or, after failures, has
\* not; the array has grown, and may have moved, if the loc was not in it.
LEMMA ReturnInv ==
  ASSUME IInv, call.op = "ensure", ub = "no", NEW buf, NEW at \in Nat,
         Return(buf, at), vals' = buf, place' = at,
         buf \in Seq(Value \union {Udf}),
         \/ buf = vals /\ at = place /\ call.loc < Cap
         \/ Len(buf) = 2 * Cap + 1 /\ Cap <= call.loc,
         UNCHANGED <<names, table, scan, objs, failures>>
  PROVE  IInv'
<1> DEFINE new == [kind |-> call.kind, name |-> call.name, loc |-> call.loc,
                   at |-> IF call.kind = "val" THEN at ELSE 0]
<1>1. /\ call' = Idle /\ known' = known \union {call.name}
      /\ ub' = (IF call.loc < Len(buf) THEN "no" ELSE "past_end")
      /\ handles' = handles \/ handles' = handles \union {new}
  BY DEF Return
<1>2. call \in Ensuring
  BY DEF IInv, Typed, Idle, Defining
<1>3. call.loc \in Nat /\ call.name \in Name /\ new \in Handle
  BY <1>2 DEF Ensuring, Handle, Kind
<1>4. call.loc < Len(names) /\ names[call.loc + 1] = call.name
  BY DEF IInv, Ahead
<1>5. /\ Len(names) \in Nat /\ Cap \in Nat /\ Cap' = Len(buf) /\ Len(buf) \in Nat
      /\ failures \in Nat /\ names \in Seq(Name) /\ Distinct(names) /\ Cap <= Len(buf)
  BY EnvAssumption DEF IInv, Typed, Cap
<1>6. call'.op = "idle"
  BY <1>1 DEF Idle
<1>7. Typed'
  BY <1>1, <1>3, <1>5 DEF IInv, Typed
<1>8. Ahead'
  <2>1. Len(names') <= Cap' + failures'
    BY <1>3, <1>4, <1>5 DEF IInv, Ahead
  <2>2. FailuresToPassEnd'
    <3>1. SUFFICES ASSUME ub' = "past_end" PROVE 2 * failures > Len(buf)
      BY <1>5 DEF FailuresToPassEnd
    <3>2. ~(call.loc < Len(buf)) /\ Len(buf) = 2 * Cap + 1
      BY <1>1, <3>1 DEF Cap
    <3>3. Len(names) <= Cap + failures + 1
      BY <1>5 DEF IInv, Ahead
    <3>4. QED
      BY <1>3, <1>4, <1>5, <3>2, <3>3
  <2>3. QED
    BY <1>6, <2>1, <2>2 DEF Ahead
<1>9. \A h \in handles : h \in Handle /\ h.name \in known /\ h.loc < Cap
  BY DEF IInv, Typed, Backing, HandlesFollow
<1>10. \A h \in handles' : h.name \in known'
  BY <1>1, <1>9
<1>11. \A h \in handles' : h.loc < Len(names') /\ names'[h.loc + 1] = h.name
  BY <1>1, <1>4 DEF IInv, Backing
<1>12. ASSUME ub' = "no", NEW n \in known'
       PROVE  \E i \in DOMAIN names' : names'[i] = n /\ i <= Cap'
  <2>1. call.loc < Len(buf)
    BY <1>1, <1>12
  <2>2. CASE n = call.name
    <3>1. call.loc + 1 \in DOMAIN names /\ call.loc + 1 <= Cap'
      BY <1>3, <1>4, <1>5, <2>1
    <3>2. QED
      BY <1>4, <2>2, <3>1
  <2>3. CASE n \in known
    <3>1. PICK i \in DOMAIN names : names[i] = n /\ i <= Cap
      BY <2>3 DEF IInv, Backing
    <3>2. i \in Nat
      BY <1>5
    <3>3. QED
      BY <1>5, <3>1, <3>2
  <2>4. QED
    BY <1>1, <1>12, <2>2, <2>3
\* A known name has a slot, so a call that grows the array is for another.
<1>13. (buf = vals /\ at = place) \/ (\A h \in handles : h.kind # "val")
  <2>1. SUFFICES ASSUME Cap <= call.loc PROVE call.name \notin known
    BY DEF IInv, Backing
  <2>2. SUFFICES ASSUME call.name \in known PROVE FALSE
    OBVIOUS
  <2>3. PICK i \in DOMAIN names : names[i] = call.name /\ i <= Cap
    BY <2>2 DEF IInv, Backing
  <2>4. call.loc + 1 \in DOMAIN names /\ i \in Nat
    BY <1>3, <1>4, <1>5
  <2>5. i = call.loc + 1
    BY <1>4, <1>5, <2>3, <2>4 DEF Distinct
  <2>6. QED
    BY <1>3, <1>5, <2>1, <2>3, <2>5
<1>14. HandlesFollow'
  <2>1. SUFFICES ASSUME ub' = "no", NEW h \in handles'
                 PROVE  h.loc < Len(buf) /\ (h.kind = "val" => h.at = at)
    BY <1>5, <1>11 DEF HandlesFollow
  <2>2. CASE h \in handles
    <3>1. h.loc \in Nat /\ h.loc < Cap
      BY <1>9, <2>2 DEF Handle
    <3>2. h.kind = "val" => h.at = at
      BY <1>13, <2>2 DEF IInv, Backing, HandlesFollow
    <3>3. QED
      BY <1>5, <3>1, <3>2
  <2>3. CASE h = new
    BY <1>1, <2>1, <2>3
  <2>4. QED
    BY <1>1, <2>1, <2>2, <2>3
<1>15. QED
  BY <1>6, <1>7, <1>8, <1>10, <1>11, <1>12, <1>14 DEF IInv, Backing

\* The steps of ensureGlobal.
LEMMA EnsureInv ==
  ASSUME IInv, Ensured \/ GrowFails \/ \E at \in {place, place + 1} : Grow(at)
  PROVE  IInv'
<1>1. vals \in Seq(Value \union {Udf}) /\ place \in Nat /\ Cap \in Nat
  BY DEF IInv, Typed, Cap
<1>2. CASE Ensured
  <2>1. /\ call.op = "ensure" /\ ub = "no" /\ call.loc < Cap /\ Return(vals, place)
        /\ UNCHANGED <<names, vals, place, table, scan, objs, failures>>
    BY <1>2 DEF Ensured, Backed, globals
  <2>2. QED
    BY <1>1, <2>1, ReturnInv
<1>3. ASSUME NEW at \in {place, place + 1}, Grow(at) PROVE IInv'
  <2>1. /\ call.op = "ensure" /\ ub = "no" /\ ~(call.loc < Cap) /\ Return(GrownVals, at)
        /\ vals' = GrownVals /\ place' = at
        /\ UNCHANGED <<names, table, scan, objs, failures>>
    BY <1>3 DEF Grow, Backed
  <2>2. call.loc \in Nat
    BY <2>1 DEF IInv, Typed, Idle, Defining, Ensuring
  <2>3. \A i \in 1 .. Cap : vals[i] \in Value \union {Udf}
    BY <1>1 DEF Cap
  <2>4. GrownVals \in Seq(Value \union {Udf}) /\ Len(GrownVals) = 2 * Cap + 1
    BY <1>1, <2>3 DEF GrownVals, NewCap
  <2>5. at \in Nat /\ Cap <= call.loc
    BY <1>1, <1>3, <2>1, <2>2
  <2>6. QED
    BY <2>1, <2>4, <2>5, ReturnInv
<1>4. CASE GrowFails
  <2>1. /\ call.op = "ensure" /\ ub = "no" /\ failures < MaxFailures
        /\ failures' = failures + 1 /\ call' = Idle
        /\ UNCHANGED <<names, vals, place, table, scan, objs, known, handles, ub>>
    BY <1>4 DEF GrowFails, globals, program
  <2>2. failures \in Nat /\ failures' \in 0 .. MaxFailures /\ Len(names) \in Nat /\ Cap' = Cap
    BY <2>1, EnvAssumption DEF IInv, Typed, Cap
  <2>3. Len(names') <= Cap' + failures' /\ call'.op = "idle"
    BY <1>1, <2>1, <2>2 DEF IInv, Ahead, Idle
  <2>4. Typed'
    BY <2>1, <2>2 DEF IInv, Typed
  <2>5. Ahead'
    BY <2>1, <2>3 DEF Ahead, FailuresToPassEnd
  <2>6. Backing'
    BY <2>1, <2>2, <2>3 DEF IInv, Backing, HandlesFollow
  <2>7. QED
    BY <2>4, <2>5, <2>6 DEF IInv
<1>5. QED
  BY <1>2, <1>3, <1>4

\* What the program does with a handle.
LEMMA HandleInv ==
  ASSUME IInv, NEW h \in handles, Drop(h) \/ \E v \in Value : Set(h, v)
  PROVE  IInv'
<1>1. CASE Drop(h)
  <2>1. /\ handles' = handles \ {h} /\ ub = "no"
        /\ UNCHANGED <<names, vals, place, table, scan, objs, call, known, failures, ub>>
    BY <1>1 DEF Drop, Ready, globals
  <2>2. Typed' /\ Ahead'
    BY <2>1 DEF IInv, Typed, Ahead, FailuresToPassEnd, Cap
  <2>3. Backing'
    BY <2>1 DEF IInv, Backing, HandlesFollow, Cap
  <2>4. QED
    BY <2>2, <2>3 DEF IInv
<1>2. ASSUME NEW v \in Value, Set(h, v) PROVE IInv'
  <2>1. /\ vals' = [vals EXCEPT ![h.loc + 1] = v]
        /\ UNCHANGED <<names, place, table, scan, objs, call, known, handles, failures, ub>>
    BY <1>2 DEF Set, program
  <2>2. vals' \in Seq(Value \union {Udf}) /\ Len(vals') = Len(vals)
    <3>1. vals \in Seq(Value \union {Udf}) /\ v \in Value \union {Udf}
      BY DEF IInv, Typed
    <3>2. h.loc \in Nat /\ h.loc < Len(vals)
      BY <1>2 DEF IInv, Typed, Backing, HandlesFollow, Set, Ready, Handle, Cap
    <3>3. QED
      BY <2>1, <3>1, <3>2
  <2>3. Typed' /\ Ahead'
    BY <2>1, <2>2 DEF IInv, Typed, Ahead, FailuresToPassEnd, Cap
  <2>4. Backing'
    BY <2>1, <2>2 DEF IInv, Backing, HandlesFollow, Cap
  <2>5. QED
    BY <2>3, <2>4 DEF IInv
<1>3. QED
  BY <1>1, <1>2

\* The steps that leave the globals alone.
LEMMA OtherInv ==
  ASSUME IInv, UNCHANGED <<names, vals, place, known, handles>>,
         failures' \in 0 .. MaxFailures, failures <= failures',
         failures' = failures \/ call.op # "ensure",
         table' \in [Entry -> Fun \union {Udf}], scan' = scan, objs' \subseteq EnvObj,
         call' = call \/ (call.op # "ensure" /\ call' \in {Idle} \union Defining),
         ub' = ub \/ (ub = "no" /\ ub' = "wild_call")
  PROVE  IInv'
<1>1. Typed'
  BY DEF IInv, Typed
<1>2. Len(names) \in Nat /\ Cap \in Nat /\ Cap' = Cap /\ failures \in Nat /\ failures' \in Nat
  BY EnvAssumption DEF IInv, Typed, Cap
<1>3. call' = call \/ call'.op # "ensure"
  BY DEF Idle, Defining
<1>4. CASE call.op = "ensure" /\ failures' = failures
  BY <1>1, <1>2, <1>4 DEF IInv, Ahead, Backing, HandlesFollow, FailuresToPassEnd
<1>5. CASE call.op # "ensure"
  <2>1. call'.op # "ensure"
    BY <1>3, <1>5
  <2>2. Ahead'
    BY <1>2, <1>5, <2>1 DEF IInv, Ahead, FailuresToPassEnd
  <2>3. Backing'
    BY <1>2, <2>1 DEF IInv, Backing, HandlesFollow
  <2>4. QED
    BY <1>1, <2>2, <2>3 DEF IInv
<1>6. QED
  BY <1>4, <1>5

\* Strategies, operators and collections.
LEMMA TableInv ==
  ASSUME IInv,
         \/ \E s \in Strategy, load, trans \in Fun : DefLoader(s, load, trans)
         \/ DefTranslator \/ DefTranslatorFails
         \/ \E o \in Operator, f \in Fun : SetOperatorFunction(o, f)
         \/ Collect
  PROVE  IInv'
<1>1. /\ table \in [Entry -> Fun \union {Udf}] /\ objs \subseteq EnvObj
      /\ failures \in 0 .. MaxFailures /\ failures \in Nat /\ MaxFailures \in Nat
  BY EnvAssumption DEF IInv, Typed
<1>2. ASSUME NEW s \in Strategy, NEW load \in Fun, NEW trans \in Fun, DefLoader(s, load, trans)
      PROVE  IInv'
  <2>1. /\ call.op = "idle" /\ table' = [table EXCEPT ![<<"loaders", s>>] = load]
        /\ call' = [op |-> "strategy", name |-> s, trans |-> trans]
        /\ UNCHANGED <<names, vals, place, scan, objs, known, handles, failures, ub>>
    BY <1>2 DEF DefLoader, Ready, globals, program
  <2>2. call' \in Defining /\ table' \in [Entry -> Fun \union {Udf}]
    BY <1>1, <2>1 DEF Defining
  <2>3. QED
    BY <1>1, <2>1, <2>2, OtherInv
<1>3. CASE DefTranslator
  <2>1. /\ call.op = "strategy" /\ call' = Idle
        /\ table' = [table EXCEPT ![<<"translators", call.name>>] = call.trans]
        /\ UNCHANGED <<names, vals, place, scan, objs, known, handles, failures, ub>>
    BY <1>3 DEF DefTranslator, globals, program
  <2>2. call \in Defining
    BY <2>1 DEF IInv, Typed, Idle, Ensuring
  <2>3. table' \in [Entry -> Fun \union {Udf}]
    BY <1>1, <2>1, <2>2 DEF Defining
  <2>4. QED
    BY <1>1, <2>1, <2>3, OtherInv
<1>4. CASE DefTranslatorFails
  <2>1. /\ call.op = "strategy" /\ call' = Idle
        /\ failures < MaxFailures /\ failures' = failures + 1
        /\ UNCHANGED <<names, vals, place, table, scan, objs, known, handles, ub>>
    BY <1>4 DEF DefTranslatorFails, globals, program
  <2>2. failures' \in 0 .. MaxFailures /\ failures <= failures'
    BY <1>1, <2>1
  <2>3. QED
    BY <1>1, <2>1, <2>2, OtherInv
<1>5. ASSUME NEW o \in Operator, NEW f \in Fun, SetOperatorFunction(o, f) PROVE IInv'
  <2>1. /\ table' = [table EXCEPT ![<<"operators", o>>] = f]
        /\ UNCHANGED <<names, vals, place, scan, objs, call, known, handles, failures, ub>>
    BY <1>5 DEF SetOperatorFunction, globals, program
  <2>2. table' \in [Entry -> Fun \union {Udf}]
    BY <1>1, <2>1
  <2>3. QED
    BY <1>1, <2>1, <2>2, OtherInv
<1>6. CASE Collect
  <2>1. /\ ub' = ub \/ (ub = "no" /\ ub' = "wild_call")
        /\ objs' \subseteq EnvObj
        /\ UNCHANGED <<names, vals, place, table, scan, call, known, handles, failures>>
    BY <1>1, <1>6 DEF Collect, globals, program
  <2>2. QED
    BY <1>1, <2>1, OtherInv
<1>7. QED
  BY <1>2, <1>3, <1>4, <1>5, <1>6

\* Every step.
LEMMA StepInv == IInv /\ [Next]_vars => IInv'
<1>1. SUFFICES ASSUME IInv, [Next]_vars PROVE IInv'
  OBVIOUS
<1>2. CASE UNCHANGED vars
  <2>1. UNCHANGED <<names, vals, place, table, scan, objs, call, known, handles, failures, ub>>
    BY <1>2 DEF vars, globals, program
  <2>2. QED
    BY <1>1, <2>1 DEF IInv, Typed, Ahead, Backing, FailuresToPassEnd, HandlesFollow, Cap
<1>3. CASE Next
  BY <1>1, <1>3, LookUpInv, LookUpFailsInv, ByLocInv, EnsureInv, HandleInv, TableInv DEF Next
<1>4. QED
  BY <1>1, <1>2, <1>3

\* The invariant of the globals: Typed, Ahead and Backing together.
THEOREM Invariant == Spec => []IInv
<1>1. Init => IInv
  BY InitInv
<1>2. IInv /\ [Next]_vars => IInv'
  BY StepInv
<1>3. QED
  BY <1>1, <1>2, PTL DEF Spec

-------------------------------------------------------------------------------
(* What a reader should know of. *)

\* The variables of the environment keep their types, and a name has one loc.
THEOREM TypeCorrect == Spec => []TypeOK
<1>1. IInv => TypeOK
  BY DEF IInv, Typed, TypeOK, Distinct
<1>2. QED
  BY <1>1, Invariant, PTL

\* No program gets a pointer past the end of the array of globals before its calls
\* have run out of memory more often than half of the slots count: ensureGlobal
\* grows the array once per call, and by a factor.
THEOREM FailuresToPassEndHolds == Spec => []FailuresToPassEnd
<1>1. IInv => FailuresToPassEnd
  BY DEF IInv, Ahead
<1>2. QED
  BY <1>1, Invariant, PTL

\* A loc or a variable leads to its global for ever, and a pointer of
\* tazR_getGlobalVal while only known names are looked up.
THEOREM HandlesFollowHolds == Spec => []HandlesFollow
<1>1. IInv => HandlesFollow
  BY DEF IInv, Backing
<1>2. QED
  BY <1>1, Invariant, PTL
-------------------------------------------------------------------------------
(* The fields: a call changes one of them. *)

Fld == GlobalFields \union TableFields

\* Where the table has functions, and the slots that have values.
Defined == {e \in Entry : table[e] # Udf}
Held == {j \in DOMAIN names : j <= Cap /\ vals[j] # Udf}

\* A slot that no name has yet is undefined, and only so many functions are set.
Cleared ==
  /\ \A j \in 1 .. Cap : j > Len(names) => vals[j] = Udf
  /\ IsFiniteSet(Defined)

LEMMA EntryIs == \A e \in Entry : e = <<e[1], e[2]>> /\ e[1] # "global"
BY DEF Entry

LEMMA FldIs ==
  \A f : f \in Fld <=> \/ \E i \in Held : f = <<"global", names[i], vals[i]>>
                       \/ \E e \in Defined : f = <<e[1], e[2], table[e]>>
BY DEF Fld, GlobalFields, TableFields, Held, Defined

\* Finitely many fields, one for each name or entry.
LEMMA FldFinite == Typed /\ Cleared => IsFiniteSet(Fld)
<1> SUFFICES ASSUME Typed, Cleared PROVE IsFiniteSet(Fld)
  OBVIOUS
<1>1. IsFiniteSet(GlobalFields)
  <2> DEFINE make == [i \in Held |-> <<"global", names[i], vals[i]>>]
  <2>1. GlobalFields = {make[i] : i \in Held}
    BY DEF GlobalFields, Held
  <2>2. IsFiniteSet(Held)
    <3>1. Len(names) \in Nat /\ Held \subseteq 1 .. Len(names)
      BY DEF Typed, Held
    <3>2. IsFiniteSet(1 .. Len(names))
      BY <3>1, FS_Interval
    <3>3. QED
      BY <3>1, <3>2, FS_Subset
  <2>3. make \in Surjection(Held, GlobalFields)
    BY <2>1 DEF Surjection
  <2> HIDE DEF make
  <2>4. QED
    BY <2>2, <2>3, FS_Surjection
<1>2. IsFiniteSet(TableFields)
  <2> DEFINE make == [e \in Defined |-> <<e[1], e[2], table[e]>>]
  <2>1. TableFields = {make[e] : e \in Defined}
    BY DEF TableFields, Defined
  <2>2. make \in Surjection(Defined, TableFields)
    BY <2>1 DEF Surjection
  <2> HIDE DEF make
  <2>3. QED
    BY <2>2, FS_Surjection DEF Cleared
<1>3. QED
  BY <1>1, <1>2, FS_Union DEF Fld

LEMMA FldUnique == Typed => \A f, g \in Fld : f[1] = g[1] /\ f[2] = g[2] => f = g
<1> SUFFICES ASSUME Typed, NEW f \in Fld, NEW g \in Fld, f[1] = g[1], f[2] = g[2]
             PROVE  f = g
  OBVIOUS
<1>0. \A e \in Defined : e \in Entry
  BY DEF Defined
<1>1. CASE f[1] = "global"
  <2>1. PICK i \in Held : f = <<"global", names[i], vals[i]>>
    <3>1. ASSUME NEW e \in Defined, f = <<e[1], e[2], table[e]>> PROVE FALSE
      BY <1>0, <1>1, <3>1, EntryIs
    <3>2. QED
      BY <3>1, FldIs
  <2>2. PICK j \in Held : g = <<"global", names[j], vals[j]>>
    <3>1. ASSUME NEW e \in Defined, g = <<e[1], e[2], table[e]>> PROVE FALSE
      BY <1>0, <1>1, <3>1, EntryIs
    <3>2. QED
      BY <3>1, FldIs
  <2>3. names[i] = names[j]
    BY <2>1, <2>2
  <2>4. i = j
    BY <2>3 DEF Typed, Distinct, Held
  <2>5. QED
    BY <2>1, <2>2, <2>4
<1>2. CASE f[1] # "global"
  <2>1. PICK d \in Defined : f = <<d[1], d[2], table[d]>>
    BY <1>2, FldIs
  <2>2. PICK e \in Defined : g = <<e[1], e[2], table[e]>>
    BY <1>2, FldIs
  <2>3. d[1] = e[1] /\ d[2] = e[2]
    BY <2>1, <2>2
  <2>4. d = e
    BY <2>3, EntryIs DEF Defined
  <2>5. QED
    BY <2>1, <2>2, <2>4
<1>3. QED
  BY <1>1, <1>2

\* Fields that differ in their place are as many as their places.
LEMMA CountOf ==
  ASSUME NEW F, IsFiniteSet(F),
         \A f, g \in F : f[1] = g[1] /\ f[2] = g[2] => f = g
  PROVE  Cardinality(Store!FieldsOf(F)) = Cardinality(F)
<1> DEFINE G == Store!FieldsOf(F)
           key == [f \in F |-> <<f[1], f[2]>>]
<1>1. G = {key[f] : f \in F}
  BY DEF Store!FieldsOf
<1>2. IsInjective(key)
  <2>1. SUFFICES ASSUME NEW f \in F, NEW g \in F, <<f[1], f[2]>> = <<g[1], g[2]>>
                 PROVE  f = g
    BY DEF IsInjective
  <2>2. QED
    BY <2>1
<1>3. key \in Surjection(F, G)
  BY <1>1 DEF Surjection
<1> HIDE DEF key, G
<1>4. key \in [F -> G]
  BY <1>3 DEF Surjection
<1>5. ExistsBijection(F, G)
  BY <1>2, <1>3, <1>4 DEF ExistsBijection, Bijection, Injection
<1>6. QED
  BY <1>5, FS_Bijection DEF G

\* What differs at one place only is one place.
LEMMA ChangeOf ==
  ASSUME NEW F, NEW G, NEW a, NEW b, F # G,
         \A f \in (F \ G) \union (G \ F) : f[1] = a /\ f[2] = b
  PROVE  Cardinality(Store!FieldsOf((F \ G) \union (G \ F))) = 1
<1> DEFINE D == (F \ G) \union (G \ F)
<1>1. D # {}
  OBVIOUS
<1>2. \A f \in D : <<f[1], f[2]>> = <<a, b>>
  OBVIOUS
<1> HIDE DEF D
<1>3. Store!FieldsOf(D) = {<<a, b>>}
  BY <1>1, <1>2 DEF Store!FieldsOf
<1>4. QED
  BY <1>3, FS_Singleton DEF D

LEMMA SameCount == \A S : Store!Cardinality(S) = Cardinality(S)
BY DEF Store!Cardinality, Cardinality

\* The state that follows, in the same words.
LEMMA FldThen ==
  ASSUME Typed', Cleared'
  PROVE  /\ Cardinality(Store!FieldsOf(Fld')) = Cardinality(Fld')
         /\ \A f : f \in Fld' <=> \/ \E i \in Held' : f = <<"global", names'[i], vals'[i]>>
                                  \/ \E e \in Defined' : f = <<e[1], e[2], table'[e]>>
<1>1. (Typed /\ Cleared => IsFiniteSet(Fld))'
  BY FldFinite, PTL
<1>2. (Typed => \A f, g \in Fld : f[1] = g[1] /\ f[2] = g[2] => f = g)'
  BY FldUnique, PTL
<1>3. (\A f : f \in Fld <=> \/ \E i \in Held : f = <<"global", names[i], vals[i]>>
                            \/ \E e \in Defined : f = <<e[1], e[2], table[e]>>)'
  BY FldIs, PTL
<1>4. \A f, g \in Fld' : f[1] = g[1] /\ f[2] = g[2] => f = g
  BY <1>2
<1>5. Cardinality(Store!FieldsOf(Fld')) = Cardinality(Fld')
  BY <1>1, <1>4, CountOf
<1>6. QED
  BY <1>3, <1>5

-------------------------------------------------------------------------------
(* The steps, by what they do to the fields. *)

\* A change at one place is a write.
LEMMA WriteIs ==
  ASSUME Typed', Cleared', NEW a, NEW b,
         \A f \in (Fld \ Fld') \union (Fld' \ Fld) : f[1] = a /\ f[2] = b
  PROVE  [Store!Write]_Fld
<1>1. SUFFICES ASSUME Fld' # Fld PROVE Store!Write
  OBVIOUS
<1>2. Cardinality(Store!FieldsOf((Fld \ Fld') \union (Fld' \ Fld))) = 1
  BY <1>1, ChangeOf
<1>3. Cardinality(Store!FieldsOf(Fld')) = Cardinality(Fld')
  BY FldThen
<1>4. QED
  BY <1>2, <1>3, SameCount DEF Store!Write, Fld

\* A loc is given, or the array grows: no slot with a value is another's now.
LEMMA QuietStep ==
  ASSUME Typed, Cleared, Typed', table' = table,
         \A i \in DOMAIN names : i \in DOMAIN names' /\ names'[i] = names[i],
         \A i \in 1 .. Cap : i \in 1 .. Cap' /\ vals'[i] = vals[i],
         \A i \in 1 .. Cap' : i \notin 1 .. Cap => vals'[i] = Udf
  PROVE  Cleared' /\ Fld' = Fld
<1>1. /\ Len(names) \in Nat /\ Len(names') \in Nat /\ Cap \in Nat /\ Cap' \in Nat
      /\ DOMAIN names = 1 .. Len(names) /\ DOMAIN names' = 1 .. Len(names')
  BY DEF Typed, Cap
<1>2. Len(names) <= Len(names') /\ Cap <= Cap'
  <2>1. Len(names) > 0 => Len(names) \in 1 .. Len(names')
    BY <1>1
  <2>2. Cap > 0 => Cap \in 1 .. Cap'
    BY <1>1
  <2>3. QED
    BY <1>1, <2>1, <2>2
<1>3. \A i \in 1 .. Cap' : i > Len(names) => vals'[i] = Udf
  BY <1>1 DEF Cleared
<1>4. Defined' = Defined
  BY DEF Defined
<1>5. Cleared'
  BY <1>1, <1>2, <1>3, <1>4 DEF Cleared
<1>6. Held' = Held
  <2>1. \A i : i \in Held' => i \in Held
    <3>1. SUFFICES ASSUME NEW i \in Held' PROVE i \in Held
      OBVIOUS
    <3>2. i \in 1 .. Len(names') /\ i \in 1 .. Cap' /\ vals'[i] # Udf
      BY <1>1 DEF Held
    <3>3. i \in 1 .. Len(names)
      BY <1>1, <1>3, <3>2
    <3>4. i \in 1 .. Cap
      BY <3>2
    <3>5. QED
      BY <1>1, <3>2, <3>3, <3>4 DEF Held
  <2>2. \A i : i \in Held => i \in Held'
    <3>1. SUFFICES ASSUME NEW i \in Held PROVE i \in Held'
      OBVIOUS
    <3>2. i \in DOMAIN names /\ i \in 1 .. Cap /\ vals[i] # Udf
      BY <1>1 DEF Held
    <3>3. i \in DOMAIN names' /\ i <= Cap' /\ vals'[i] # Udf
      BY <1>1, <3>2
    <3>4. QED
      BY <3>3 DEF Held
  <2>3. QED
    BY <2>1, <2>2
<1>7. \A i \in Held : names'[i] = names[i] /\ vals'[i] = vals[i]
  BY <1>1 DEF Held
<1>8. \A f : f \in Fld' <=> f \in Fld
  BY <1>4, <1>5, <1>6, <1>7, FldIs, FldThen
<1>9. QED
  BY <1>5, <1>8

\* An assignment to a global that a handle leads to.
LEMMA SetStep ==
  ASSUME IInv, Cleared, Typed', NEW h \in handles, NEW v \in Value, Set(h, v)
  PROVE  Cleared' /\ [Store!Write]_Fld
<1> DEFINE i == h.loc + 1
<1>1. vals' = [vals EXCEPT ![i] = v] /\ names' = names /\ table' = table /\ ub = "no"
  BY DEF Set, Ready
<1>2. vals \in Seq(Value \union {Udf}) /\ names \in Seq(Name) /\ h.loc \in Nat
  BY DEF IInv, Typed, Handle
<1>3. h.loc < Len(names) /\ h.loc < Cap
  BY <1>1 DEF IInv, Backing, HandlesFollow
<1>4. i \in 1 .. Len(names) /\ i \in 1 .. Cap /\ Cap \in Nat /\ Len(names) \in Nat
  BY <1>2, <1>3 DEF Cap
<1> HIDE DEF i
<1>5. Cap' = Cap /\ \A j \in 1 .. Cap : j # i => vals'[j] = vals[j]
  BY <1>1, <1>2, <1>4 DEF Cap
<1>6. Defined' = Defined
  BY <1>1 DEF Defined
<1>7. Cleared'
  BY <1>1, <1>4, <1>5, <1>6 DEF Cleared
<1>8. \A j : j # i => (j \in Held' <=> j \in Held)
  BY <1>1, <1>2, <1>4, <1>5 DEF Held
<1>9. \A j \in Held : j # i => vals'[j] = vals[j]
  BY <1>2, <1>4, <1>5 DEF Held
<1>10. ASSUME NEW f \in (Fld \ Fld') \union (Fld' \ Fld)
       PROVE  f[1] = "global" /\ f[2] = names[i]
  <2>1. CASE f \in Fld /\ f \notin Fld'
    <3>1. ~\E e \in Defined : f = <<e[1], e[2], table[e]>>
      BY <1>1, <1>6, <1>7, <2>1, FldThen
    <3>2. PICK j \in Held : f = <<"global", names[j], vals[j]>>
      BY <2>1, <3>1, FldIs
    <3>3. j = i
      BY <1>1, <1>7, <1>8, <1>9, <2>1, <3>2, FldThen
    <3>4. QED
      BY <3>2, <3>3
  <2>2. CASE f \in Fld' /\ f \notin Fld
    <3>1. ~\E e \in Defined : f = <<e[1], e[2], table[e]>>
      BY <2>2, FldIs
    <3>2. PICK j \in Held' : f = <<"global", names[j], vals'[j]>>
      BY <1>1, <1>6, <1>7, <2>2, <3>1, FldThen
    <3>3. j = i
      BY <1>8, <1>9, <2>2, <3>2, FldIs
    <3>4. QED
      BY <3>2, <3>3
  <2>3. QED
    BY <2>1, <2>2
<1>11. QED
  BY <1>7, <1>10, WriteIs

\* A function is set for a strategy or an operator.
LEMMA EntryStep ==
  ASSUME Typed, Cleared, Typed', UNCHANGED <<names, vals>>,
         NEW d \in Entry, NEW v \in Fun, table' = [table EXCEPT ![d] = v]
  PROVE  Cleared' /\ [Store!Write]_Fld
<1>1. table \in [Entry -> Fun \union {Udf}] /\ Cap' = Cap /\ Held' = Held
  BY DEF Typed, Cap, Held
<1>2. \A e \in Entry : e # d => table'[e] = table[e]
  BY <1>1
<1>3. Cleared'
  <2>1. Defined' \subseteq Defined \union {d}
    BY <1>2 DEF Defined
  <2>2. IsFiniteSet(Defined \union {d})
    BY FS_AddElement DEF Cleared
  <2>3. IsFiniteSet(Defined')
    BY <2>1, <2>2, FS_Subset
  <2>4. QED
    BY <1>1, <2>3 DEF Cleared
<1>4. \A e : e # d => (e \in Defined' <=> e \in Defined)
  BY <1>2 DEF Defined
<1>5. \A e \in Defined : e # d => table'[e] = table[e]
  BY <1>2 DEF Defined
<1>6. ASSUME NEW f \in (Fld \ Fld') \union (Fld' \ Fld)
      PROVE  f[1] = d[1] /\ f[2] = d[2]
  <2>1. CASE f \in Fld /\ f \notin Fld'
    <3>1. ~\E i \in Held : f = <<"global", names[i], vals[i]>>
      BY <1>1, <1>3, <2>1, FldThen
    <3>2. PICK e \in Defined : f = <<e[1], e[2], table[e]>>
      BY <2>1, <3>1, FldIs
    <3>3. e = d
      BY <1>3, <1>4, <1>5, <2>1, <3>2, FldThen
    <3>4. QED
      BY <3>2, <3>3
  <2>2. CASE f \in Fld' /\ f \notin Fld
    <3>1. ~\E i \in Held : f = <<"global", names[i], vals[i]>>
      BY <2>2, FldIs
    <3>2. PICK e \in Defined' : f = <<e[1], e[2], table'[e]>>
      BY <1>1, <1>3, <2>2, <3>1, FldThen
    <3>3. e = d
      BY <1>4, <1>5, <2>2, <3>2, FldIs
    <3>4. QED
      BY <3>2, <3>3
  <2>3. QED
    BY <2>1, <2>2
<1>7. QED
  BY <1>3, <1>6, WriteIs

\* Every step.
LEMMA FieldStep ==
  ASSUME IInv, Cleared, IInv', [Next]_vars
  PROVE  Cleared' /\ [Store!Write]_Fld
<1>1. Typed /\ Typed'
  BY DEF IInv
<1>2. Cap \in Nat /\ names \in Seq(Name) /\ vals \in Seq(Value \union {Udf})
  BY <1>1 DEF Typed, Cap
<1>3. CASE names' = names /\ vals' = vals /\ table' = table
  <2>1. Cleared' /\ Fld' = Fld
    BY <1>1, <1>2, <1>3, QuietStep DEF Cap
  <2>2. QED
    BY <2>1
<1>4. CASE UNCHANGED vars
  BY <1>3, <1>4 DEF vars, globals
<1>5. ASSUME NEW n \in Name, names' = WithName(n), vals' = vals, table' = table
      PROVE  Cleared' /\ [Store!Write]_Fld
  <2>1. \A i \in DOMAIN names : i \in DOMAIN names' /\ names'[i] = names[i]
    BY <1>1, <1>5, WithNameKeeps DEF Typed
  <2>2. Cleared' /\ Fld' = Fld
    BY <1>1, <1>2, <1>5, <2>1, QuietStep DEF Cap
  <2>3. QED
    BY <2>2
<1>6. ASSUME NEW kind \in Kind, NEW n \in Name, LookUp(kind, n)
      PROVE  Cleared' /\ [Store!Write]_Fld
  BY <1>5, <1>6 DEF LookUp
<1>7. ASSUME NEW n \in Name, LookUpFails(n)
      PROVE  Cleared' /\ [Store!Write]_Fld
  BY <1>5, <1>7 DEF LookUpFails
<1>8. ASSUME NEW at, Grow(at)
      PROVE  Cleared' /\ [Store!Write]_Fld
  <2>1. names' = names /\ table' = table /\ vals' = GrownVals
    BY <1>8 DEF Grow
  <2>2. \A i \in 1 .. 2 * Cap + 1 : vals'[i] = IF i <= Cap THEN vals[i] ELSE Udf
    BY <1>2, <2>1 DEF GrownVals, NewCap
  <2>3. Cap' = 2 * Cap + 1
    <3>1. GrownVals = [i \in 1 .. 2 * Cap + 1 |-> IF i <= Cap THEN vals[i] ELSE Udf]
      BY <1>2 DEF GrownVals, NewCap
    <3>2. DOMAIN vals' = 1 .. 2 * Cap + 1
      BY <2>1, <3>1
    <3>3. vals' \in Seq(Value \union {Udf})
      BY <1>1 DEF Typed
    <3>4. QED
      BY <1>2, <3>2, <3>3 DEF Cap
  <2>4. /\ \A i \in 1 .. Cap : i \in 1 .. Cap' /\ vals'[i] = vals[i]
        /\ \A i \in 1 .. Cap' : i \notin 1 .. Cap => vals'[i] = Udf
    BY <1>2, <2>2, <2>3
  <2>5. Cleared' /\ Fld' = Fld
    BY <1>1, <1>2, <2>1, <2>4, QuietStep
  <2>6. QED
    BY <2>5
<1>9. ASSUME NEW d \in Entry, NEW v \in Fun, table' = [table EXCEPT ![d] = v],
             names' = names, vals' = vals
      PROVE  Cleared' /\ [Store!Write]_Fld
  BY <1>1, <1>9, EntryStep
<1>10. ASSUME NEW s \in Strategy, NEW load \in Fun, NEW trans \in Fun, DefLoader(s, load, trans)
       PROVE  Cleared' /\ [Store!Write]_Fld
  <2>1. <<"loaders", s>> \in Entry
    BY DEF Entry
  <2>2. QED
    BY <1>9, <1>10, <2>1 DEF DefLoader, globals
<1>11. CASE DefTranslator
  <2>1. call \in Defining
    BY <1>1, <1>11 DEF DefTranslator, Typed, Idle, Ensuring
  <2>2. <<"translators", call.name>> \in Entry /\ call.trans \in Fun
    BY <2>1 DEF Entry, Defining
  <2>3. QED
    BY <1>9, <1>11, <2>2 DEF DefTranslator, globals
<1>12. ASSUME NEW o \in Operator, NEW f \in Fun, SetOperatorFunction(o, f)
       PROVE  Cleared' /\ [Store!Write]_Fld
  <2>1. <<"operators", o>> \in Entry
    BY DEF Entry
  <2>2. QED
    BY <1>9, <1>12, <2>1 DEF SetOperatorFunction, globals
<1>13. ASSUME NEW h \in handles, NEW v \in Value, Set(h, v)
       PROVE  Cleared' /\ [Store!Write]_Fld
  BY <1>1, <1>13, SetStep
<1>14. ASSUME \/ \E kind \in Kind, h \in handles : ByLoc(kind, h)
              \/ Ensured \/ GrowFails \/ \E h \in handles : Drop(h)
              \/ DefTranslatorFails \/ Collect
       PROVE  Cleared' /\ [Store!Write]_Fld
  BY <1>3, <1>14 DEF ByLoc, Ensured, GrowFails, Drop, DefTranslatorFails, Collect, globals
<1>15. CASE Next
  BY <1>6, <1>7, <1>8, <1>10, <1>11, <1>12, <1>13, <1>14, <1>15 DEF Next
<1>16. QED
  BY <1>4, <1>15

\* A call changes one global, one strategy's function or one operator's and
\* leaves all the others alone: giving a name its loc, growing and moving the
\* array, and failing to, change nothing that is found under any name.
THEOREM Refinement == Spec => ImplementsFields
<1>1. Init => Store!Init /\ Cleared
  <2>1. SUFFICES ASSUME Init PROVE Store!Init /\ Cleared
    OBVIOUS
  <2>2. names = <<>> /\ Len(vals) = 0 /\ \A e \in Entry : table[e] = Udf
    BY <2>1 DEF Init
  <2>3. Defined = {} /\ Held = {}
    BY <2>2 DEF Defined, Held
  <2>4. GlobalFields \union TableFields = {}
    BY <2>3 DEF Defined, Held, GlobalFields, TableFields
  <2>5. Cleared
    BY <2>2, <2>3, FS_EmptySet DEF Cleared, Cap
  <2>6. QED
    BY <2>4, <2>5 DEF Store!Init
<1>2. Spec => []IInv
  BY Invariant
<1>3. IInv /\ IInv' /\ Cleared /\ [Next]_vars => Cleared' /\ [Store!Write]_Fld
  BY FieldStep
<1>4. QED
  BY <1>1, <1>2, <1>3, PTL DEF Spec, ImplementsFields, Store!Spec, Fld
===============================================================================
