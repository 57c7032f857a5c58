# A verification of the Taz runtime

Taz is a small language whose runtime is written in C. This directory holds
TLA+ models of the parts of it that keep state, the configurations that check
them with TLC, and proofs that TLAPS checks. Paths and lines are those of the
repository at the commit the models were written from.

## 1. The system

One thread runs everything; the hard part is not parallelism but the calls that
happen inside calls. Any allocation may run a collection, or fail and jump out of
the function that asked for it, between any two statements of that function.

| Component | State | Operations | Acts on |
| --- | --- | --- | --- |
| Memory and accounting (`taz_engine.c`: `reallocMem`, `adjustHeap`) | `memUsed`, `memLimit` | allocate, grow, free | runs the collector; raises errors |
| Collector (`collect`, `scanWithNewStack`, `tazE_markObj`) | mark bits, the gray stack, the list of objects | mark, sweep in two passes | scan and finaliser callbacks of the objects, string pool |
| Barriers, buckets, anchors (`tazE_pushBarrier`, `tazE_commitObj`, ...) | a stack of barriers in C frames, each with buckets (roots) and anchors (tentative blocks) | push, pop, error, panic, yield, commit, cancel | frees through `reallocMem` |
| Life of an engine (`tazE_makeEngine`, `tazE_freeEngine`) | all of it | make, free | everything |
| String pool and loans | `nmap`, hash chains, bitmap of ids, marks, list of loans | make, borrow, return, steal, collect | three allocations each of which may collect the pool |
| Index (`taz_index.c`) | buckets, bitmap, step limit and deviation, the functions for the kinds of keys it has | insert, look up, sub-index, iterate | two allocations in a growth |
| Record (`taz_record.c`) | an index that others may share, flags, row, values | define, set, separate, compare | index, values array, itself recursively |
| Environment (`taz_environment.c`) | globals: an array behind an index of names; import loaders and translators, operator functions as records | find or make a global (its loc, a variable, a pointer), set and get strategies and operators | index, records; assigned through what it hands out |
| Code and assembler (`taz_code.c`) | buffers of instructions, labels and constants, labels waiting for the next instruction, indices of upvalues and locals; code objects | append, link, refer, lay out, pack; host code | index, globals, raw allocations, anchors |
| Formatter (`taz_formatter.c`) | calls of `fmtRec` in C frames, a loan and two iterators each | write a value as text by a pattern | records and their iterators, loans, the host's writer |
| Fiber (`taz_fiber.c`) | a stack of calls over barriers | run, continue, pause | does not compile at this commit |
| Function, upvalue, compiler, parser | little or none | | unfinished or empty |

What makes each correct, and why a test hardly reaches it:

* **Memory**: a free never collects (a finaliser's free would sweep the list that is
  being swept), although callers may pass wrong sizes back, and every block has one
  owner whatever is interrupted where. A test has to fail each allocation in turn at
  each depth.
* **Collector**: what the sweep frees is exactly what cannot be reached, also when
  the gray stack overflows in the middle of a scan. It must end on cyclic graphs.
* **Barriers**: roots are those of every barrier, not of the newest; an error gives
  back what is tentative on its own barrier and nothing else.
* **String pool**: equal medium strings are one node although three allocations lie
  between the search and the insertion; a full collection, one of several, acts on
  marks that partial ones left; a borrowed text stays.
* **Index**: lookups stop at a step limit and filter on a byte; growth happens for
  two reasons and may fail half way; locs never change.
* **Record**: records that share an index are independent; comparisons end and
  leave no trace.
* **Environment**: the array follows the index though either may fail to grow; what
  a program keeps of a global leads to it after the array has moved.
* **Code**: memory passes from the assembler to the code object in steps that may
  fail, with references, labels and words that must still fit together at the end.
* **Formatter**: two passes over a record together write each field once, though
  one goes by numbers and the other by an iterator; the text says which value it was.

`PROJECT.json` lists the components, the hazards of the code line by line with
the properties that catch them, and the lines each definition stands for.

## 2. The modules

| Module | Models |
| --- | --- |
| `Reachability` | what can be reached in an object graph, as a least closed set |
| `ObjectHeap` | **abstract**: a heap whose collection, in one step, releases what cannot be reached |
| `Collector` | `collect()` step by step, with the segmented gray stack; implements `ObjectHeap` |
| `Engine` | accounting, allocation and its failure, barriers, anchors, buckets, interrupts, teardown |
| `StringPool` | interning, ids, bitmap, marks of partial and full collections, loans |
| `KeyMap` | **abstract**: a map from keys to stable, consecutive locs, and sub-maps |
| `Index` | the open-addressed table with its step limit, modes, growth, sub-indices, iterators; implements `KeyMap` |
| `Fields` | **abstract**: independent maps, one write at a time |
| `Record` | definitions over a shared index, separation, comparison by recursion; its reads and writes implement `Fields` |
| `Environment` | globals, what is handed out of them, strategies and operators, what a collection does to them; implements `Fields` |
| `Code` | the assembler, labels, layout in words, code objects, host code, collections and failures |
| `Formatter` | specifiers, numbers in every base, the two passes over records and their recursion, a writer that defines fields |
| `CollectorProofs`, `EngineProofs`, `StringPoolProofs`, `EnvironmentProofs`, `RecordProofs`, `CodeProofs`, `IndexProofs`, `FormatterProofs` | the proofs |
| `MC...` | instances for TLC |

`Engine` uses `Reachability` for its mark phase, which is one step there because
`Collector` is shown to be exact. `Record` uses the promise of `KeyMap` (an index
is the sequence of its keys) in place of the table, which `Index` is shown to keep;
`Environment` and `Code` do the same, and `Environment` takes the promise of
`Record` (`Fields`) for its three records.

### How state and actions correspond to the code

**Collector.** A frame is an activation of `scanWithNewStack`: `todo` is what the
running scan has still to pass to `tazE_markObj`, `gray` its segment of the gray
stack. `MarkPush`, `MarkNewStack` and `MarkAgain` are the three ways through
`tazE_markObj`; `ScanPop`, `Unwind` the loop over a segment; `SweepAlive`,
`SweepDead`, `Release` the two passes. The order of lists and scans is open. The
running code is the actions `New` ... `Unlink`, which only handle what they reach.

**Engine.** `size` is the host's allocator. `Allocate` is `reallocMem` up to the
allocator's answer, `Allocated` and `AllocFailed` the answer; `Destruct` and
`Release` are single frees of the sweep, `ClearOne` single frees of
`clearBarrier`, so that each free is a step at which the limit test of
`reallocMem` could collect again. `after` is the C code that `collect()` or
`clearBarrier` returns to. The end of a collection is `Adjust` (the limit), any number
of `FreeDead` (the frees of `finishStringGC`) and `EndCollect`. `grown` are the blocks
that `tazE_reallocRaw` has grown and linked to the newest barrier, which `CommitGrown`
unlinks again. Callers commit them at once, but `makeStrId` grows two tables before it
commits either (`Requests`): when the second is refused, the barrier frees the first,
which the pool still has (`exposed`); the model stops the client there, as all that
follows is undefined. `Release` gives an object back with the size that its size
routine states, which may be more than was allocated (`Extra`), as that of the code
objects is; `excess` counts what this comes to. The code on top of the engine is a
client that calls its API as the API's notes ask: it refers to what it can reach,
removes buckets in C order, and grows buffers whose object it keeps.

**StringPool.** A handle is its id. `Make` is `tazE_makeStr` up to its first
allocation, `GrowNmap`, `GrowBmap` and `PlaceNode` follow an allocation each, and
before each `CollectInCall` or `Fail` may come. A full collection that meets a loan
stops at `pc = "steal"`, where `tazE_stealStr` allocates: `Steal` is the copy and the
rest of the collection, `StealCollects` an allocation that collects first, in which the
inner collection runs `finishStringGC` and clears `isFullCycle`, `StealFails` one that
is refused. An inner collection that is full by its number starts on the same list
again (`Again`); the model does not follow it. A bitmap that cannot grow costs the pool
its `nmap` (`lost`). `idle` is a history variable: full collections since the string
was reachable. So is `cut`: a list of more than one loan was cut, or a copy has itself
collected or failed.

**Index.** The function pointers of an index are its `mode`. `InsertIn` is the
insertion with the lookup before it, `Grown` the copying of `growIdx`, whose two
allocations are `GrowOld` and `GrowBuf` with failures of their own. `blk`, `live`
and `dead` are the pointer to the buckets, the arrays in memory, and the temporary
indices that a collection will finalise. The hash function is chosen at the start
from all functions into a few values, so that patterns of collisions are explored.
The padding of the bitmap counts as a step in an insertion and not in a lookup, as
in the code. An iterator is the slot it has come to; a growth leaves it there, in the
new buckets. `picked`, `sub` and parts of `iter` are history.

**Record.** `RecDef` is `tazR_recDef` with the separation it begins with; the two
ways it stops half way are `RecDefFails` (no memory) and `RecDefOverruns` (it has
left an array shorter than its row). A comparison is a stack of frames of
`isSubset`; `Enter`, `Walk`, `WalkEnds`, `ReturnToWalk`, `ReturnToCaller` are its
steps and `Answer` the caller that has its result. The flags are written and read
where the code does so, from a copy taken at the beginning of `isSubset`.

**Environment.** A look-up is `LookUp` (the insertion of the name) and then `Ensured`,
`Grow` or `GrowFails` (the three ways through `ensureGlobal`); `LookUpFails` is an
index that has the name and cannot grow, `ByLoc` the entry with a loc. `Grow` leaves
the array in its place or moves it. `handles` is what the program keeps: a loc, a
variable (`taz_Var`, which goes through the environment) or a pointer, with the place
it leads to. `known` and `failures` are history. `tazR_setImportStrategy` is
`DefLoader` followed by `DefTranslator` or its failure. `scan` is the callback field,
which `tazR_initEnv` leaves as it finds it.

**Code.** `asm` is the assembler, `as` in the source. A buffer is its sequence and its capacity, `PutFails` a buffer that cannot
grow. Labels are numbers, and the lists of labels sets of numbers; `made` says which
memory the pointer to a label dates from, `moved` which the buffer is in now.
`makeByteCode` is `StartCode`, `InitWords`, an `EmitWord` for each turn of its outer
loop, `AllocCode`, `PackConsts`, `PackWords`; `CallFails` leaves it at any of its
allocations, with what its anchors give back (`Anchored`) and what they do not
(`Committed`). A word is a function from bytes to the parts of instructions or-ed
into them; `wraps` is what a build does with a shift by more than the width. `held` is
what the host has given, `used` what `memUsed` says of it. `forms`, `where` and `refs` of a
code object are history: what it was made from.

**Formatter.** A call is a sequence of specifiers with their values. `Specifier` reads
one and calls `fmtVal`, which appends a token (`Atom`) or begins a frame of `fmtRec`;
`Sequenced` and `SequenceEnds` are a turn and the end of its first loop, `Keyed`,
`Skipped` and `RecordEnds` those of its second. `Write`, `Insert` and `Grow` are the
writer that defines a field between two of these steps, with a key that the index has,
a new one that finds a bucket (the iterators meet it if it is ahead of them), and a new
one for which the index grows (the iterators go on in the new order of the buckets, at
whatever slot they were). `shown` and `lasting` of a frame are history. The
reader of `ReadsBack` is an automaton over the tokens that knows what value it should
find: it follows the keys, or counts where there is none, and compares digits.

Definitions named `Mut...` are faulty forms of the definition that follows them.
Each is a slip that the code could have, and each is caught by the property its
comment names.

## 3. The runs

All take less than three minutes with two workers.

| Run | Instance | What it shows |
| --- | --- | --- |
| `collector` | 3 objects, every graph, segment of 1 | exact marking and sweeping, refinement of `ObjectHeap`; every collection ends |
| `engine_references` | 3 blocks of sizes 1 and 2, 2 barriers, 1 bucket each, 1 reference per object, 1 collection | one owner for every block, so that tentative blocks survive collections and clearing is local, and two where a grown block is not committed; no dangling reference |
| `engine_memory` | 2 blocks of sizes 1 and 3, 2 barriers, 2 collections, objects that overstate their size by 2, all together by 2 | no free that collects, nothing left after teardown, every call returns |
| `string_pool` | 2 medium texts and a long one, 2 loans, blocks of 2, units of 4 bits, a full collection every 3, 4 blocks | interning, no live string freed, dead strings die by the second full collection, loans that keep their text |
| `index` | 6 keys: numbers with equal bytes, a string of the pool, two handles of one long string; 16 hash functions; rows 3, 7, 11 | refinement of `KeyMap`, strings always scanned, failures of both allocations |
| `index_sub` | 5 keys, 4 hash functions | locs of sub-indices, iterators across insertions |
| `record` | 2 records, 1 index, 3 keys, rows 1, 2, 3 | independence (`Fields`), slots, comparisons that say no or report a cycle |
| `record_ends` | 2 records, 2 keys, with separation and all failures | every comparison ends |
| `environment` | 4 globals, arrays of 1, 3 and 7 slots, 2 failures, 1 handle at a time, 1 strategy and 1 operator | handles lead to their globals, failures needed to pass the end, refinement of `Fields` |
| `code` | 5 calls of an assembler, 2 constants, buffers of 1 element at first, references of 2 locs, words of 4 bytes and unsigneds of 2, 1 failure | references, one owner for all memory, words that an unsigned holds, shifts of labels |
| `formatter` | every whole number of 5 bits, 10 decimals, 2 strings, in 4 bases; 192 heaps of 2 records over 5 keys in 2 orders; 1 definition by the writer, with one of these keys or a sixth, and 1 order after a growth | text that reads back as its value, each field once |
| `index_hang` | | violated: see section 5 |

Why the bounds are enough. Three objects make a collector overflow a segment
inside an overflow, chains and cycles of every shape up to three; the proofs cover
the rest. Three blocks are an object, its buffer and a replacement, which is what
`Swap` involves; two barriers are an outer one that must be left alone and an inner
one that goes. Two sizes with a limit that both together exceed make every branch
of `reallocMem` happen, and two collections let the limit grow in between. In the
pool two texts of one kind and two slots per block suffice for a slot to be used
again or a text to be made twice; a cycle of three has partial and full collections,
also inside one another; two loans make a list that can be cut and unlinked from
either end.
The tables of the index are scaled down (rows of 3, 7, 11 buckets and words of 2
slots for 8) but keep what they are for: a row fills, keys wrap around, a word of
the bitmap has padding, and growth comes by fullness and by deviation. Two records
that contain each other and themselves give chains of comparisons deeper than one
and every cycle of two.

`CHECK_DEADLOCK FALSE` is set where the system really may stop: a freed engine makes
no step and `MaxCycles` ends the calls that collect; an index whose insertion
searches forever, or whose last row is full, makes none; records that have
overrun their array make none that has a meaning; undefined behaviour (`ub`) is the last
thing that `Environment`, `Code` and `Formatter` (a function value) do.

Four names make the array grow twice behind an index that is two names ahead, and
a handle kept through it see both. A shorter word keeps the proportion of 8 to 4
bytes: five calls fill a word, leave a byte of it unused before a two-byte
instruction, begin a second, and place a label before or after its instruction.
Five bits have the least number, whose binary digits fill the buffer as those of 32
bits fill the real one, and a negative key that is large when taken as unsigned. A
record within another makes a frame wait for one above it, and two orders put keys
of the first pass before, between and after the others. The writer's new key continues
the numbers of the first pass, so that either pass may show it, and may come at every
place of the iterator; a growth may leave each frame at every place of an order that
reverses the one before. One definition is enough to come between any two steps.
`MaxDepth` bounds frames; the listed run does not reach it, as what the writer defines
is no record.
`MaxDrift` stops a program when `memUsed` and the memory have parted.

Fairness. Only weak fairness of the code's own steps is assumed: `Collecting`,
`Inside`, `CompareStep`. They stand for sequential C code that nothing can
suspend between its statements: once a call is under way it goes on. Nothing is
assumed of the running code, of the allocator's answers, or of the host.

## 4. What is proved

`tlapm` checks these for every value of the constants that the named assumptions
allow: `Segment` positive, `Obj` finite; `Block` finite, `Size` positive sizes,
`EngineSize` at most `InitLimit`; texts, loans and keys that are not each other or the
names of nothing; records and keys finite, capacities positive; `Udf` no value or
function; hash functions that are total, keys whose byte is not zero and says whether
they are strings, rows of growing capacity; words of at least two bytes; numbers of `Width` bits and a buffer
for as many digits, orders of keys that name a key once, records with a field for each key
of their index. A theorem that needs more (no failure of a certain allocation, sizes
overstated by no more than the engine's own) says so as a hypothesis, and a property
that holds until something happens (`cut`, `lost`, `exposed`, an iterator whose index
has `grown`) says so itself. For these section 5 has the configuration that shows what
is lost beyond, but for the hypothesis on the keys the formatter writes, and for
`exposed`, which is in the property as the one case of two owners.

**CollectorProofs.** The inductive invariant `IInv` holds the type invariant,
`NoDangling`, `TriColour` and `SweepExact` together. None stands alone. That marks
are exact when the sweep begins follows from the tri-colour invariant with an
empty gray stack (what is marked is closed) and from marks and pending references
staying within what can be reached (`MarkInv`); that what can be reached is in the
list that is swept follows from `NoDangling`; that the next collection starts
clean from `IdleInv`, and that marks vanish with the sweep from `SweepInv`.
Theorems: `TypeCorrect`, `CollectorExact` (`SweepExact` and `MarksCleared`), `TriColourHolds`,
`NoDanglingHolds`, `StackBoundHolds` (by a second invariant: each segment below the
newest is full and disjoint from the others, so that activations count marked
objects), and `Refinement`: `Spec => ImplementsHeap`, where the last step of the
sweep is the collection of `ObjectHeap` and every step of the collector before it
a stutter.

**EngineProofs.** `WithinLimit` is the invariant behind the accounting: `Pending` (a
request is only under way with a barrier to receive it) and `Fits` (`memUsed` is at most
`memLimit`, and what the allocator is about to give fits in the limit), proved
together with the type invariant. That `memUsed` is the sum of what is allocated and of the engine's own block, less
`excess` (`Accounting`, a sum over the blocks), keeps it from falling below zero, where
the unsigned sum of `reallocMem` would wrap and be over any limit: so
`FreesNeverCollectHolds` needs that size routines overstate by no more than `EngineSize`
in all (`MaxExcess`; the run has it equal, and TLC finds a free that collects when it is
twice that). `NoDanglingHolds` adds that roots lead
to committed objects only, until teardown, from which the engine does not return
(`NoReturn`). `OwnInv` is about who has each block: the anchors of every barrier, the
buffers of live objects, what a sweep or an unwinding has still to free, and the
block of the call under way are disjoint, but for grown blocks, and together they are
all that is allocated (`OwnersDivide`). A grown block is with the newest barrier and with
its first owner until it is committed; one that an unwinding took is `exposed`, and is
still with the pool. It is inductive only as a whole: an unwinding takes its
blocks from one owner to another, a sweep from objects to its list. `SoleOwnerHolds`
and `NothingLeftHolds` follow.

**StringPoolProofs.** `PoolInv` is the invariant: while a string is made no chain has
its text, whatever the collections within the three allocations have dropped, and its
id is the first of the newest block (`Making`); a string has the first slot of a block,
the only one that `tazE_makeStr` ever uses (section 5), with its bit set, so that the
sweep gets to it (`Placed`); marks are younger than the last full collection (`Idle`).
From it: `TypeCorrect`, `InternedHolds`, `RootedAliveHolds` (until the pool has `lost` its
`nmap`), `DiesSoonHolds`. For `LoansIntactHolds`, with any number of loans, `Lent`: until
one is cut off, the engine's list is `Sound`, a doubly linked list of all loans whose
text is in the pool. So the one loan that an uncut full collection copies is the only
one with a text that the collection could free.

**RecordProofs.** Four invariants, each for the theorems that need it. `Typed` (for
`TypeCorrect`, without any hypothesis). `FlagInv`: the flags that are set are those of
the frames that wait, and frames are of distinct records; it needs that no comparison
is interrupted, for `FlagsFollowHolds`. `CycleInv`: the record of a frame is reached from
those of the frames below it, so that a flag met again is a cycle
(`CycleIsRightHolds`). `PlainInv`, without separation as in the run `record`: the arrays
are as long as their rows and the slots in use those below the record's row, so that
keys and slots in use are in bijection (`SlotsExistHolds`) and a write changes one
field (`IsolatesRecordsHolds`, one lemma for each of the ways to write); with `NoInv`,
that every frame is at a pair which the frame below compares in depth and has found
equal what it has passed, an answer of no is the right one (`NoIsRightHolds`; the sets
it speaks of are greatest fixpoints, `Same`).

**CodeProofs.** `CodeInv` relates the assembler (`AsOK`), the code object (`CodeOK`), the
call under way (`CallOK`), and the raw memory that is held to what the buffers, the
anchors and the packed arrays still owe (`Balanced`): `TypeCorrect` and
`NothingLostHolds`. `Referred` (an assembler that is
not used again once its buffers are packed) follows each reference from the
assembler through the call to the code object, for `RefsDenoteHolds`. `Laid` is the
layout: a label is listed by the one instruction that it is before, or waits for the
next (`Labelled`), whichever was there first; and after `call.i` instructions the labels
before it have their places, the words are those the places ask for, and the next
instruction is the first of a word (`Emitted`). What connects the loop of `makeByteCode`,
which fills a word from its first instruction, with the definition of places, which goes
from an instruction to the next, is `PlacesRun`: the instructions from the first of a
word on have the word in common and their distance as their byte, as long as there is
room. It speaks of a recursive function and of a sum, and is proved by a least instruction
at which it would fail. `LayoutExactHolds` follows, without any hypothesis: it says that
the words whose instructions fill no more than an unsigned read back, between fuller
ones too, and that labels have their shifts. It says nothing of their addresses, which
section 5 shows to lead nowhere.

**EnvironmentProofs.** `IInv` is types, how far the index may be ahead of the array (`Ahead`:
by a name for each failure, and by the name of the call under way), and what each name
that was returned has in the array (`Backing`): for `TypeCorrect`,
`FailuresToPassEndHolds` and `HandlesFollowHolds`. `Cleared`, that slots which no name has
yet are undefined, is what `Refinement` adds: `Spec => ImplementsFields`, where giving a
name its loc shows no value that a slot was left with, a growth is a stutter, and an
assignment or a definition changes one field.

**IndexProofs.** `IdxInv` is the invariant: the table is `Well` formed, and `Numbered`. A
well-formed table is typed; has no two buckets with equal keys (`Distinct`); has every
key at most `limit` steps from its hash, counted as a lookup counts (`Within`), although
the insertion that placed it counted the padding too; and its mode lets the lookups of
every key through that it holds (`Served`). Together these say that a lookup finds the
bucket of its key and nothing else (`LookupIs`). `Numbered` says that the keys of the
program have locs of their own below `next`, and that `next` is no more than the
buckets that are taken, so that a free bucket leaves a loc for the key it is to hold
(`LocLeft`). A growth goes through the old buckets one at a time, and a least bucket at
which the copy is not complete (`Copied`: every key so far, the program's with their
locs, and none of the program's besides, in no more buckets than were copied) would
follow one at which it is.
A sub-index is filled in the same way (`Picked`), with insertions that may each grow it.
Theorems: `WellFormed`, `TypeCorrect`, `ScanCompleteHolds`, `VisitsOnceHolds` (what an
iterator must still return was returned or is ahead of it, what it has returned is
behind, until the index grows), `SubExactHolds` (what was reported is in the buckets, unless one of zeroes was
taken for a key), and `Refinement`: `Spec => ImplementsKeyMap`, where a lookup's answers
are the pairs of keys and locs in the buckets, an insertion adds one, a growth, which
moves all of them, is a stutter, and a sub-index numbers some of them afresh.

**FormatterProofs.** `IInv` says of every frame of `fmtRec`, the ones that wait and the
one that runs, three things. What has been shown is in place (it is one of the numbers
below the count of the first pass) or the iterator has passed it, and nothing is there
twice (`NotAgain`). A field that the call began with, if the writer has not defined it
since, still has its value, has been shown if it is in place, and in the second pass is
shown or still to come (`Lasts`). And the count is at most the number of whole numbers
that a `tazR_Int` has, so that the comparison of a key with it, made without signs, is
true of the keys in place and of no other (`InSequenceIs`; a negative key is as large as
an unsigned number can be, and the count does not get there). What the iterator jumps
over has no value, so that no field that lasts is lost (`LastsAtPlace`). The writer
changes all frames at once: it takes from `lasting` what it defines, a new key may come
into what an iterator has still to do but not into what it has shown (`Insert`), and a
growth begins the account of a record in its second pass anew, as nothing ties the
place of an iterator in the new buckets to what it has shown (`Grow`). `SpecIInv` needs the heap
to have a field for each key, which `HeapType` keeps. From it: `ShownOnceHolds`.

`ReadsBackHolds` adds `Told`: as long as the writer has defined nothing, the reader of
the text so far is where the frames are (`Said`). The reader is in one record for each
frame, and has met the fields that the frame has shown. A frame that waits for one
above it has begun its last field, and its record in the reader waits for that value
under the key that was written or, in the first pass, in its place (`Awaits`); the
frame that runs has nothing open (`Settled`), so a comma or the end comes next, or a
field if it has shown none (`Expected`). What the frame itself remembers agrees:
everything it has shown is still a field, the count of the first pass is the number of
fields shown, and `empty` says that there is none (`Says`). Each action writes a few
tokens, and one lemma for each says what the reader makes of them (`CommaRead`,
`KeyRead`, `AtomRead`, `OpenRead`, `CloseRead`); `AllShown` has the end of a record come
when all its fields are met, which is what the reader asks for there. `NumberDenotes`
and `DecimalDenotes` have the digits of a number read as that number in every base: the
recursions (`Power`, `Digits`, `Fraction`, `Number`, `ReadAll`) are functions whose
equations are proved by going to the least argument at which one would fail, as the
library's theorems on induction cannot be instantiated. `Fits` has a whole number of
`Width` bits, the least one too, fit the buffer, so that only a function is undefined.
The theorem's hypothesis is `Readable`: keys are whole numbers or strings, whole numbers
have their width, and the whole part of a decimal has at most `MaxDigits` digits in each
base, which is the exception that `MCFormatterHuge.cfg` shows; decimals are not among the
keys as two of them may be cut to the same digits. The instance of the run `formatter` is
one.

**Only model-checked.** Liveness (`CollectTerminates`, `CallsReturn`,
`CompareEnds`), which needs ENABLED.

## 5. Disagreements between the code and what is written about it

One is a run that TLC must find violated:

* `index_hang`: `growIdx` recognises free buckets by `tazR_Type_NONE`
  (`taz_index.c:487`), but a zeroed value is the double 0.0 when values are tagged in
  NaNs, the only configuration whose macros compile. An index that grows by
  deviation gains the key 0.0, which occupies a bucket and no loc; the index can
  then be full before it grows, and the next new key is searched a place
  forever, where lines 295-296 say there is always a free slot.
  `MCIndexPhantom.cfg` stops at the key itself, against lines 30-32.

The other configurations are kept beside them for the reader, each of which TLC
finds violated in seconds. A configuration with several properties shows the first
that fails, and all of them with `-continue`:

| Configuration | Property | Shows |
| --- | --- | --- |
| `MCStringPoolTables.cfg` | `GrowsWhenFull` | `taz_engine.c:497` skips the units of the bitmap that are *not* full, where line 496 says it checks whether the unit is full and line 520 that the pool grows when no place is found: no slot is ever used again and each new string grows both tables |
| `MCStringPoolLoans.cfg` | `AllLoansIntact` | "Copy out all the loaned strings." (`taz_engine.c:660`): `tazE_stealStr` clears the link the loop follows, so only the newest loan is copied and the text of another may be freed under its borrower; and with one loan too the copy allocates (line 1062), where a build without assertions may collect and free the string before line 1063 copies it |
| `MCStringPoolAssert.cfg` | `NeverAborts` | the copy of a loaned text allocates inside a collection, which line 49 asserts never happens |
| `MCStringPoolTables.cfg` | `SameCapacity` | line 409 says the bitmap always has the capacity of `nmap`; when its reallocation fails, the `nmap` just reallocated is freed while the pool points to it |
| `MCIndexFull.cfg` | `AlwaysFreeSlot` | a growth that fails for want of memory leaves a full index behind |
| `MCIndexShared.cfg` | `BucketsOwned` | lines 459-460 of `taz_index.c` say the buffers are moved to a temporary index; they are copied, and when the second allocation fails a collection frees them under the index |
| `MCRecordSeparate.cfg` | `IsolatesRecords` | `separateRec` moves the values to the locs of a sub-index and stores the pointer to the old index (`taz_record.c:106`), where lines 19-21 say it is replaced: keys lose or swap their values |
| `MCRecordFaults.cfg` | `YesIsRight` | `isSubset` has no branch for two numbers that differ (`taz_record.c:318-327`): `{0: 1}` equals `{0: 2}`, where `test_record.c:256` checks that records that differ are not equal |
| `MCRecordFaults.cfg` | `SlotsExist` | `separateRec` allocates a slot for each value and notes a row with more |
| `MCRecordMark.cfg` | `ComparesWithoutTrace` | `tag & !RCU_FLAG_MASK` (`taz_record.c:323`) is 0: a comparison takes away the mark for separation |
| `MCRecordFlags.cfg` | `FlagsFollowCalls` | an error in a nested comparison leaves flags set that a later one takes for a cycle |
| `MCEnvironmentFaults.cfg` | `SurvivesCollections` | `tazR_initEnv` allocates the state object and sets none of its callbacks: `scanEnv` is never called, `tazE_mallocObj` does not clear memory, and the first collection calls a wild pointer or frees the index and the records of the environment, whose header says it maintains them (`taz_environment.h:6-7`) |
| `MCEnvironmentFaults.cfg` | `NeverPastEnd` | after a growth that failed, one growth does not reach the loc: a pointer past the array |
| `MCEnvironmentFaults.cfg` | `StrategiesWhole` | a strategy with a new loader and the old translator, or none |
| `MCCodeWords.cfg` | `DecodesBack` | `makeByteCode` fills words of eight bytes and shifts an `unsigned` to its byte (`taz_code.c:243` and `254`): a shift of 32 bits or more is undefined, what a shift of 24 moves out of the 32 bits is lost, and instructions beyond the first four bytes cannot be read back, where `taz_opcodes.in.c:14` says each fits in its byte or two; the test of the assembler has exactly four bytes |
| `MCCodeFaults.cfg` | `NeverStale` | instructions and labels keep pointers into the buffer of labels, which moves when the eighth is added |
| `MCCodeFaults.cfg` | `LabelsLeadToWords` | a label's `addr` (`taz_code.c:262`) is the number of an instruction, not of a word, and lines 260-261 announce a base address that is never added |
| `MCCodeFaults.cfg` | `LabelsPlaced` | a label after the last instruction is left as uninitialised memory |
| `MCCodeHost.cfg` | `ScansKeep` | the index made for `...` (`taz_code.c:384`) is in no bucket: the strings of the upvalues may collect it, and the function keeps the pointer |
| `MCCodeFaults.cfg` | `CountExact` | `tazR_sizeofCode` (`taz_code.h:65-69`) counts words that the object was not allocated with: `memUsed` loses them twice |
| `MCCodeFaults.cfg` | `NeverLoses` | `BUF_NAME_init` commits each buffer at once: an error in the rest of `tazR_makeAssembler` or `makeByteCode` leaves it to nobody |
| `MCCodeReuse.cfg` | `NeverNull` | after `makeCode` the buffer of constants has a capacity of 0, which doubles to 0: the next constant is written to a null pointer |
| `MCFormatterHuge.cfg` | `ReadsBack` | `fmtDec` fills its buffer from the lowest digit: of a number with more than 18 it writes the lowest 18 and an ellipsis, as if they were the first |
| `MCFormatterFaults.cfg` | `NeverDeep` | `fmtRec` has no flag against cycles, as comparisons have: a record that contains itself is written until the C stack ends |
| `MCFormatterFaults.cfg` | `ReturnsLoans` | `isIdentKey` returns without returning what it borrowed: the engine's list of loans leads into a frame that is gone |
| `MCFormatterGrows.cfg` | `WrittenOnce` | a writer that defines a new key while a record is written (`taz_formatter.c:302`) makes the shared index grow under the iterator, which goes on at its old slot in the new buckets (`taz_index.c:602`): a field is written twice |

Seen while reading and not modelled: there are 51 opcodes for the five bits that
`taz_opcodes.in.c:19-32` gives them, so those from 32 on (every two-byte one among
them) run into the bits of the variation; the assertion of `taz_code.c:242` allows
two bits of operand where the form has three; `numUpvals` and `numLocals` count a
name again each time it is added.

The passing runs of these modules leave out the causes above by a constant
(`Fails`, `Seps`, `Infos`, `Reuse`, `MaxExcess`) or say in the property what it holds
without (`ub`, `broken`, `failures`, `cut`, `lost`, `exposed`, `grown`), so that the rest of the behaviour is explored past
them, except where the property holds all the same.

## 6. Abstractions

* `Engine`: marking is one step; `memLimit` is an unbounded number, so its overflow after
  many collections is not met (a sum that falls below zero is taken as over any limit,
  as an unsigned one is); the model starts when `tazE_makeEngine` has returned; error
  values are not modelled; the wrong sizes that callers pass are those of objects that
  overstate theirs; nothing is modelled after the pool has lost a grown table.
* `StringPool`: short strings have no state; a partial collection marks any subset
  of what is reachable, because code objects do not mark their strings then; a
  collection that starts over on the list of loans it is working on, and a pool that has
  lost its `nmap`, make no further step; loan structures live as long as their borrower.
* `Index`: the program does not use the key 0.0 itself, so that `ImplementsKeyMap` speaks
  of all other keys and `SubExact` of indices without the phantom; the knobs of the
  tables have their defaults; what an iterator returns is no more accounted for after a
  growth; the allocations of
  a sub-index succeed, and one that would search for a free bucket forever or outgrow the
  rows is not taken; the index stays reachable during its own calls.
* `Record`: an index never forgets or reorders a key, and its iterator may return
  keys in any order; the errors of `tazR_recSet` are guards.
* `Environment`: a name is kept by the program while it is looked up; an allocation
  of `tazR_recDef` that fails in its first definition changes nothing that can be
  read back; the construction of the environment is the initial state; the functions
  and values are those that the records and the array hold, whether or not they are
  alive.
* `Code`: one assembler and one code object at a time; instructions are their forms
  (one byte or two) and their operands are not looked at; the run has no function of the
  host with both an ellipsis and upvalues; strings are not collected
  (`scanAssembler` marks the name always, `_tazR_scanCode` in full collections, as
  `StringPool` has it); no index loses a name; sizes are counted in elements, and the
  fixed sizes of objects are left to `Engine`, whose `WithinLimit` is also why the
  shrinking reallocations of `BUF_NAME_pack` never collect.

* `Formatter`: tokens without blanks and without the ordinary characters of a
  pattern; a decimal is a multiple of a quarter and exact, so that the rounding of
  doubles in `fmod` and `modf`, the limit of 1e-14, infinity and NaN are left out; a
  string is read back whole, whether or not it contains a quote; what the writer
  answers is ignored, as in the code; the negation of the least number
  (`taz_formatter.c:123`), which C leaves undefined, wraps as on the machine; the writer
  separates no record from its index, and a growth may leave an iterator at any place of
  the new order, more than the capacities allow; `Index` has the buckets themselves.

## 7. Plan

Done: the collector, the engine, the string pool, the index, the record, the
environment, the assembler and its code, the formatter, with proofs about all of them.
In this order, next:

1. Loans and barriers together: an error that jumps over the return of a loan
   leaves a structure of a dead C frame in the engine's list.
2. The construction of an engine and its failure half way, with the allocations of
   `tazR_initEnv`, and the value of a panic on its way to a handler.
3. Iterators of indices and records as objects that a collection scans.

### Not modelled

* Fibers: `taz_fiber.c` does not compile at this commit, so it has no behaviour to
  be faithful to; `Engine` models the barriers it would be built on.
* Functions and upvalues: a constructor and accessors that are not finished.
* The compiler and the parser are empty files.
