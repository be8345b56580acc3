# A verification of the Lua core in TLA+

This directory models the core of the Lua interpreter under `src/` (the C code
of a 5.3/5.4 development version: compiler, virtual machine, garbage collector
and libraries) in TLA+, checks the models on small instances with TLC and
proves theorems about them, for every value of their constants, with TLAPS.

`PROJECT.json` lists for every definition the lines of C it stands for, every
run, the mutants that show that each property can fail, the theorems, the
hazards and the two disagreements between code and assertions that were found.

## 1. Inventory

The program is one process. A *global state* (`lstate.h`, `global_State`) is
shared by *threads* (coroutines, `lua_State`), of which one runs at a time;
nothing runs in parallel except a signal handler that may set a hook. What is
hard is not parallelism but *interleaving by call*: nearly every operation of
the interpreter may allocate, an allocation may run a step of the collector or
an emergency collection, a collection may call a finalizer, and a finalizer is
arbitrary Lua code; errors are `longjmp`s out of any depth; a coroutine yields
out of any depth of Lua calls and is resumed in the middle of them.

| component | state | operations | interacts with |
|---|---|---|---|
| garbage collector (`lgc.c`) | colours; lists `allgc`, `finobj`, `tobefnz`, `gray`, `grayagain`, `weak`, `ephemeron`, `allweak`; `gcstate`, `sweepgc` | `singlestep`, `atomic`, sweep, barriers, `luaC_checkfinalizer`, `GCTM`, full and emergency collection | everyone: allocations run it, stores must call a barrier |
| upvalues and closures (`lfunc.c`) | `openupval` of a thread, sharing counts, `twups` | find, close, share, join, decrement | collector (`remarkupvals`), calls (closing at return, error and jump) |
| calls, errors, coroutines (`ldo.c`, `lcorolib.c`) | `CallInfo` chain, `errorJmp` chain, `status`, `nCcalls`, `nny`, error function | call, return, pcall, throw, yield, resume, unroll | stack, upvalues, hooks |
| stack and CallInfo memory (`ldo.c`, `lstate.c`) | `stack`, `stacksize`, `stack_last`, `nci` | grow, shrink, check, the extra zone used while handling an overflow | collector shrinks it, every pointer into it |
| tables (`ltable.c`) | array part, node vector with relative chains, `lastfree` | get, set, new key, rehash, resize, next, length | collector (dead keys, weak entries), memory errors |
| strings (`lstring.c`) | hash table of short strings, cache of C strings | intern, resurrect, resize, remove | collector (dead strings, resize when few, emergency collection) |
| memory and pacing (`lmem.c`, `lgc.c`) | `totalbytes`, `GCdebt`, `GCestimate` | allocate, pause, step size | collector |
| API (`lapi.c`) | the stack of a C function | moves values, stores with barriers | everyone |
| virtual machine (`lvm.c`, `lopcodes.c`) | registers, `savedpc` | opcodes, numeric for, comparison, concatenation | calls, tables, upvalues |
| tag methods (`ltm.c`) | `flags` cache of absent metamethods | find, call | tables |
| parser (`lparser.c`) | `FuncState`, `BlockCnt`, active variables, gotos and labels | blocks, scopes, upvalue resolution, statements | code generator |
| code generator (`lcode.c`) | `expdesc`, jump lists, `freereg`, constants | discharge, patch, conditions, folding | parser, virtual machine |
| lexer (`llex.c`, `lzio.c`) | buffer, one token of lookahead | next token | strings anchored against the collector |
| precompiled chunks (`ldump.c`, `lundump.c`) | - | dump and load a function | - |
| debug and hooks (`ldebug.c`, `ldblib.c`) | `hookmask`, `hookcount`, `oldpc` | line and count hooks, yield in a hook | signal handler, coroutines |
| values (`lobject.c`) | - | conversions, arithmetic | - |
| libraries (`lauxlib.c`, `ltablib.c`, `lstrlib.c`, `lutf8lib.c`, `loadlib.c`, `liolib.c`, `loslib.c`, `lbaselib.c`, `lmathlib.c`, `lbitlib.c`) | references, package tables, file handles | C functions over the API | API |

What makes each of them correct:

* **collector**: nothing reachable is freed; only garbage is finalized and only
  garbage is removed from weak tables; garbage is eventually freed; in between,
  no black object refers to a white one while marking, and dead objects only
  exist ahead of the sweep;
* **upvalues**: closures that captured one variable share one cell before and
  after it is closed; a cell whose variable is gone is marked or freed;
* **calls**: an error unwinds to the protected call that covers it, with the
  counters of C calls and of non-yieldable calls as they were; a coroutine is
  resumed only when it can be, and continues where it yielded;
* **tables**: whatever is moved where, a table is a map; a traversal returns
  each field once even when fields are removed and collected on the way; the
  length is a border;
* **strings**: equal short strings are one object, dead or alive;
* **compiler**: the code of an expression computes its meaning.

The hazards, each at its line, are in `PROJECT.json`, with the properties that
would catch them, or the reason why none does.

## 2. How the project is laid out

One module per component, parameterised by constants; what a component promises
is a module of its own where that can be said in fewer words than the code:

| component | model | what it implements | instance | proofs |
|---|---|---|---|---|
| collector | `LuaGC` | - | `MCLuaGC` | `LuaGC_proofs` |
| tables | `LuaTable` | `LuaMap` | `MCLuaTable` | `LuaTable_proofs` |
| calls, errors, coroutines | `LuaCalls` | `LuaCoroutines` | `MCLuaCalls` | `LuaCalls_proofs` (shape of the stacks), `LuaCounts_proofs` (fields) |
| strings | `LuaStrings` | `LuaPool` | `MCLuaStrings` | `LuaStrings_proofs` |
| upvalues | `LuaUpval` | `LuaCells` | `MCLuaUpval` | `LuaUpval_proofs` |
| memory of a stack | `LuaStack` | - | `MCLuaLibraries` | `LuaStack_proofs` |
| `table.sort`, references | `LuaSort`, `LuaRefs` | - | `MCLuaLibraries` | `LuaSortRefs_proofs` |
| compiler and virtual machine | `LuaValues`, `LuaCode`, `LuaParser`, `LuaVM` | the evaluator `LuaMeaning` | `MCLuaCompile`, `MCLuaPrograms` | - |
| libraries | `LuaPatterns`, `LuaPack`, `LuaTablib`, `LuaText`, `LuaDump` | `LuaMatching`, `LuaLibraries` | `MCLuaLibraries`, `MCLuaLibraryCalls` | - |

The collector touches everything, but composing it with the others would only
multiply states: each module states in its own words what the collector does to
it (a key dies, a string may be dead, a thread with open upvalues is freed, an
allocation fails after an emergency collection), as actions. `LuaVM` composes
the compiler and the machine: it runs the code that `LuaParser` and `LuaCode`
make of the tokens of a program.

## 3. What is modelled

### LuaGC: the collector

One action per step of `singlestep`; the atomic phase, one step in the code, is
split in its parts (`pc`), during which the program cannot move. The program's
actions are the operations of the API and of the virtual machine that touch the
heap: create an object, push and pop values of a thread's stack, store in a
table (back barrier), in a closure or userdata (forward barrier), change a
metatable's `__mode`, set a metatable with `__gc` (`luaC_checkfinalizer`),
change the metatable of a basic type (no barrier), run a finalizer, collect.

Abstractions, and why they are sound:

* lists are sets: the collector takes their elements in any order, one of which
  is the order of the code. The part of a list that `sweepgc` has not passed is
  the set `unswept`; the link `sweepgc` follows is kept where it matters, in
  `CallFinalizer` and `CheckFinalizer`;
* a sweep step visits any part of what is left; with `TobefnzFits` it does not
  stop inside `tobefnz` (a step covers `GCSWEEPMAX` objects, and fewer wait for
  their finalizers);
* gray lists are dropped when sweeping starts (the code leaves them and clears
  them at the next cycle; nobody reads them in between);
* the metatable of a table is only its mode; a change of mode takes effect at
  the next traversal, as in the code;
* the objects that `reallymarkobject` reaches by recursion (userdata with their
  metatables and user values) are the closure `Marks`;
* strings in weak tables are values, never removed (`Strings`, from `iscleared`);
* a full collection inside a finalizer of another one is the same full
  collection started again.

### LuaMap and LuaTable: tables

`LuaMap` is the promise: a map from keys to values and a traversal that
returns every field once, as long as the program only assigns to existing
fields. `LuaTable` is `ltable.c`: array part, nodes with relative `next`,
`lastfree`, insertion with Brent's variation, `rehash`, `luaH_resize` in its
order of moves, `findindex`, `luaH_next`, `luaH_getn` with unsigned indices
that are taken as signed ones. Actions: assign (any key of the program, or nil),
fail for lack of memory, let the collector kill keys of removed entries, resize
for a constructor, and traverse. A key whose object died may come back: its
address is reused by another object, and the dead key in the node must not be
taken for it. An assignment to nil or NaN as key, an error before any change, is
left out. The clearing of a weak entry is an assignment of nil followed by
`Collect`.

### LuaCoroutines and LuaCalls: calls, errors and coroutines

`LuaCoroutines` is what a program may expect of coroutines: they are resumed
one inside the other (`resumer`), only the last one runs (`running`), and
control leaves it only towards the one that resumed it, after which it is
`suspended` or `dead`. `LuaCalls` is `ldo.c` and what reaches it. Its state is
that of the threads (frames `ci`, `nCcalls`, `nny`, `errfunc`, `allowhook`,
`status`) and the C stack, `cstack`, as the list of the activations of
`luaV_execute`, `luaD_call`, `luaD_pcall` and `lua_resume`: a `longjmp` cuts it
back, and what the activations above had still to do is never done. That is
the whole difficulty of yields, and why it is explicit. Each activation has the
number of frames it was called from (`ci`, the code's local of that name).

One action per thing that a function may do: call (`OP_CALL`, a metamethod, a
hook, a finalizer, `pcall` and `xpcall` in both of their forms, `dofile` as a C
function with a continuation, `sort` as one without), return in each of the
places a call returns to, raise an error, run out of memory, resume, yield.
`raise` says that an error is on its way to the message handler
(`"errormsg"`) or to the last `setjmp` (`"throw"`).

Abstractions: a function has no code: a Lua function does anything, the C
functions do one thing each; values, error messages and the value stack are
left out, so the moves of arguments and results are too; message handlers,
hooks and finalizers are Lua functions; `errfunc` is whether there is a
handler, which is enough to tell pcall's from xpcall's; whether a finalizer
runs (the code stops the collector) is read off the C stack. `DoCall` is
`lua.c` with a chunk. Not modelled: a yield in a hook (only C hooks can), tail
calls (one frame in the place of another), the parser's own non-yieldable call,
a panic.

### LuaPool and LuaStrings: strings

`LuaPool` is the promise: the program's strings keep their text, and two short
strings with the same text are one object. `LuaStrings` is `lstring.c`. Making
a string is split at its two requests of memory (`pc`): to grow the table and
to get the object. While a request waits, an emergency collection may free
strings, of the very bucket whose address (`list`) the code keeps; nothing else
can happen, since an emergency calls no finalizer. The collector is reduced to
what strings see of it: marking what the program has, the atomic phase with
`luaS_clearcache`, the sweep string by string, `checkSizes`.

Abstractions: the strings of a bucket are a set (their order only decides how
long a search takes); the text of a freed address is reset; black and dead
(of the other white) are sets, so that the flip of `currentwhite` is the
assignment of `dead`. `RehashLoop` is the loop of `luaS_resize` as it is
written, in place and one bucket after the other; the actions use `Rehash`,
what it computes, and `LoopRehashes` says that both agree. Long strings are made
and cached but are not in the table.

### LuaCells and LuaUpval: variables and upvalues

`LuaCells` is the promise: a local variable and the functions that captured it
are references to one cell, which holds what was assigned last, for as long as
any of them exists. `LuaUpval` is `lfunc.c` with the parts of `lvm.c` that
create closures, `lua_upvaluejoin`, and what the collector does about upvalues.
An upvalue is open while its variable is in the stack of a thread; `luaF_close`
copies the value when the variable goes out of scope, when an error or the end
of a thread cuts the stack, and when a thread is freed.

`OP_CLOSURE` is a step for each upvalue it finds or shares (`luaF_findupval`,
`ShareUpval`) and one for the closure itself, since each of them allocates:
an emergency collection (`Emergency`, then `FullCycle`) may run inside, and
memory may fail for good. The cache of the last closure of a prototype, its
clearing in the atomic phase, `twups` and `remarkupvals`, the barrier of a
closed upvalue, the marks `touched`, and the freeing of closures and threads in
any order of the sweep are all there. A thread is one frame whose slots are its
variables; the chunk of the program has one prototype nested in another, or two
(`Bounds`).

`atomic` is one action: `propagateall`, `remarkupvals`, the second traversal of
the threads and the flip are composed in `Finish`, as the code runs them with
nothing in between.

### LuaStack: the memory of a stack

`luaD_growstack`, `luaD_shrinkstack` and everything that pushes: calls of Lua and
C functions with their frames, `lua_checkstack`, metamethods (`luaT_callTM`
pushes four values with no check), messages of errors, the handling of an
overflow in the space between `LUAI_MAXSTACK` and `ERRORSTACKSIZE`, the C API's
protected calls and what an error leaves. A pointer into the stack is its
distance from the beginning, so that moving a stack changes none: what is
checked is that no value is beyond the memory.

### The compiler and the virtual machine

`LuaParser` and `LuaCode` are `lparser.c` and `lcode.c`, function by function.
They are sequential and recursive, so they are operators on a record `fs` (the
`FuncState`, the `Proto` it fills and the `LexState`), dispatched by name:
`Parse(f, args)` and `Code(f, args)` stand for the call of function `f`, since
the functions call one another. `LuaVM` runs the code: an action per opcode,
upvalues and the cache of closures included, on the values of `LuaValues`
(integers of `NBITS` bits that wrap around; floats that never round). Metamethods,
hooks and the collector are in the other modules. Functions outside (`f`, `g`,
`it`) record their calls in `trace`, by which two ways to run a program are
compared.

`LuaMeaning` is what the manual says: an evaluator (`Do`) of syntax trees with
environments, without registers, jumps or upvalue indices, and a printer that
turns trees into the tokens that the parser reads.

### The libraries

Pure functions are operators: `LuaPatterns` (the matcher of `lstrlib.c` with its
state of captures, depth and the functions that drive it, dispatched by
`Strlib`), `LuaPack` (`pack`, `packsize`, `unpack`), `LuaText` (`sub`, `byte`,
`char`, `rep`, `reverse` and the `utf8` library), `LuaTablib` (the table library
and the buffers of `lauxlib.c`) and `LuaDump` (writing and reading precompiled
chunks). `LuaMatching` defines what a pattern means without backtracking, as the
matches of a list of items in their order of preference, and `LuaLibraries`
states what each function promises, most of it as laws: what is packed is
unpacked from any position, truncated data is refused, a table operation is its description on
whole sequences with integers that do not wrap, what is encoded is decoded.

`LuaSort` is `auxsort` with one action per comparison, for any order function:
one that is a strict weak order, or one that answers as it likes. `LuaRefs` is
`luaL_ref` and `luaL_unref` over a table with any border as length.

## 4. Runs and bounds

| run | instance | shows |
|---|---|---|
| `gc_core` | main thread with two stack slots, registry, a closure, a table with finalizer that is also a global metatable; normal and emergency full collections | types; black never points to white while marking; every gray object is in one list; nothing reachable is freed; dead objects are ahead of the sweep; all is white at the pause (the table is strong: for weak tables these properties rest on the theorems, and on the next two runs) |
| `gc_weak` | the registry changes among all four modes; another thread; a userdata with finalizer | what is cleared from weak tables or finalized is garbage |
| `gc_ephemeron` | two entries and three objects, any chain of ephemerons | nothing that an ephemeron still holds is cleared: the fixed point is complete |
| `gc_live` | weak keys, finalizer, emergency collections | garbage is freed, under weak fairness of the collector (an object that waits for its finalizer is not garbage yet: nothing is said of finalizers that must run) |
| `gc_tobefnz` | two finalizers, a sweep step shorter than `tobefnz` | violated: an object left black at the pause |
| `table` | four nodes, array of four, keys that collide in every size, integers of four bits | the table implements the map; next never fails; borders; no node is lost; the array part is more than half full after a rehash |
| `calls` | all functions with one coroutine of four frames; two coroutines, or longer chains, with three or four C calls before the overflow | counters, hooks and the message handler are those of the calls in progress; an error goes to the innermost protected call; a yield loses nothing; the coroutines follow the protocol |
| `strings` | three addresses beside `memerrmsg`, three short texts with colliding hashes, a long one, sizes two to eight | the table implements the pool; buckets and count are right; the cache is alive; the loop of the rehash is right |
| `upval` | two threads, two closures, two upvalues, five shares of slots, closures, upvalues and prototypes | captured variables are shared and alive, counts and lists are right |
| `upval_dead` | the largest of these shares, all marking in one step | violated: `luaF_close` copies a dead value |
| `compile` | families of programs around gotos, closures, conditions, folding, assignments, lists and loops, and programs at and just beyond each limit of the compiler | compiled and run, a program does what the evaluator of its tree does; it is rejected only for a wrong goto, or, beyond a limit, with the error of that limit; its registers fit; captured variables are closed on the way out of their scope; what should terminate does |
| `libraries` | each part alone: calls of pure functions over small inputs, arrays of up to six elements (and one of eight, whose first partition is so uneven that the next pivot is random) with every weak order of three values, a stack of 14 slots, five references | patterns mean what their items mean; the laws of the other functions; the sort stays inside and sorts; values are in memory; references are kept |

Why these sizes are enough to be interesting: every hazard of the collector
involves at most a black holder, a white object and a third place the object is
moved to, and every phase can meet every operation of the program. Chains of
length three in a table of four nodes contain every case of insertion (free
main position, colliding node in or out of its main position, at the end or
with a successor). Integers of four bits contain the overflow of the border
search, of numeric loops and of packed integers. Four frames in a coroutine hold
a protected call in a protected call, with a function between them and one
above. The runs that are about many cases at once choose an instance in the
initial state (`bound` in `LuaCalls` and `LuaUpval`, the chunk in `LuaVM`, the call
in `LuaLibraries`), and never change it.

The bounds, by name: `MaxFrames` and `MaxCalls` (the members of `Bounds`) limit
frames and C calls of `LuaCalls`, but for message handlers and the calls that
handle an overflow, which the code itself limits (`Extra`); `Bounds` of `LuaUpval`
limits slots, closures, upvalues and prototypes; `KeySets` and `Asked` the keys and sizes a
program of `LuaTable` uses; `Weakable`, `Keyed`, `Globals` and `FullKinds` what the program of
`LuaGC` does; `Counts` and `MaxFrames` the stack; `MaxRefs` the references; `Bounded`
and `MarkAtOnce` are the only state constraints. The first cuts nothing off: it is
also a part of `ComputesMeaning`, which fails on a program that makes calls or
closures without end; it keeps such a program finite, so that the error is reported.
The second narrows the search for a counterexample. Limits that the code has (`LUAI_MAXCCALLS`, `LUAI_MAXSTACK`, `MAXREGS`, sizes of
operands, bits of an integer) are constants, set low enough to be met, but `STACKSIZE` of `LuaVM`: what happens at the end of
a stack is in `LuaStack`.

`compile` and `libraries` do not check deadlock: a program that ended, an answered call and a
finished sort stop. Symmetry is used where objects are interchangeable, never
with liveness. Each property was seen to fail on a mutant of the code
(`PROJECT.json`, "mutants").

Fairness: `FairSpec` of `LuaGC` asks weak fairness of the collector's steps
only. The code justifies it: every allocation in debt runs `luaC_step`, and a
program that allocates no more has no garbage problem. Nothing is asked of the
program: finalizers are called by `luaC_step` and are part of the collector.
`LuaVM` asks that the machine takes another step as long as the program runs.

## 5. Proofs

Every safety invariant and every action property that a run checks is a
theorem, for all values of the constants that satisfy the named assumptions of
the modules, except those of the runs `compile` and those about pure functions
in `libraries` (their operators are recursive, see below). `PROJECT.json` lists the
theorems with the properties they state. The assumptions are facts of C and of
the configuration: identities of objects differ, memory is finite, a hash is a
number, sizes are powers of two, and so on.

**Collector** (`LuaGC_proofs`). `TypeCorrect`: the types. `DeadOnlyAheadOfSweep`:
`DeadAhead` is not inductive; `SweepInv` adds that the three lists are disjoint,
where the atomic phase is in each state, that the objects in `finobj` and
`tobefnz` are marked when the colours flip, and where the other white may be in
each phase. `AllWhiteWhenSweepEnds` needs the assumption `TobefnzFits`, as the run
`gc_tobefnz` shows, and all that rests on it has it too. `NothingDangles`,
`BlackNeverToWhite` and `GrayAlwaysListed` rest on `SafetyInv`: the colour
invariant extended to the whole atomic phase, and for every gray object of
the atomic phase one of three reasons why it does no harm: it waits to be
traversed (`Waiting`), it is in a list of weak tables whose entries are
tested later, or it refers to no white object. Each part of the phase removes
one of the reasons; when it ends, no marked object refers to a white one
(`FlipInv`), so that the flip kills nothing that is in use.

`OnlyGarbageCleared` and `OnlyGarbageFinalized` compare this with the references
of the manual. When nothing waits any more, the marked objects and the strings
are closed under the strong references: a table in `weak` has marked keys, one in
`ephemeron` is settled (`Settled`: an unmarked value has an unmarked key), one in
`allweak` has no strong reference but strings (`StrongRefsKept`; `ModesInv` says that a
table is in the list of its mode, as no program runs in the atomic phase).
What the roots reach within any number of rounds is therefore marked
(`ReachableWithin`, by induction on the rounds), and what is cleared or
finalized is not.

**Tables** (`LuaTable_proofs`). `TableRight` is the invariant: there are functions
`chain` and `order` of the nodes such that every `next` goes to the node just
below in its chain (`InOrder`), and each key is in the chain of its main position, at
or below it, a live key above dead ones with the same address (`KeysPlaced`).
Neither is in the program, the proofs show that they exist. An insertion
exchanges two places of a chain or starts one; `rehash` counts keys without
leaving one out, so that the new sizes have room for all of them (`Roomy`), which
is why an insertion inside `luaH_resize` never resizes again;
`luaH_resize` moves every field once. The loop of `computesizes` finds the largest
power of two more than half in use. With these:
`TableIsMap` (the refinement of `LuaMap`), `NextNeverFails` (what was returned is what is
numbered up to the place of the control key), `FreeNodesFound`, `ArrayInUse`,
`LengthIsBorder` (assuming that some positive integer is no key) and `TableTypeOK`.

**Calls** (`LuaCalls_proofs`, `LuaCounts_proofs`). The C stack and the frames of each
thread fit each other (`Shape`, theorem `StacksFit`): an activation has the frames
between the one it was called from and those of the next activation of its
thread (`Owns`), the states of these say who goes on after them (`Called`,
`Continuable`), and neighbours on the C stack are linked by who called whom (`Linked`,
`Apart`). `Shape` is stated one activation at a time, so that pushing, popping and
cutting each keep it by a lemma, and every action is one of these. On it
rest `ExecutesComplete`, `YieldLosesNothing` (a suspended coroutine has no
activation, and all its frames can be continued), `HooksRestored`, `CountersRight`
(the counters are cardinalities of sets of activations), `ErrorsCaught` and
`HandlersRestored`: the frames of protected calls in progress and those a
finalizer runs on determine which handler is set, and what each of these saved
is what held below it. `CoroutinesFollow` is the refinement of `LuaCoroutines`: a
step is a resume, a way back to the resumer, or changes nothing that the
protocol sees. `CallsTypeOK`: the types, with the form of every frame.

**Strings** (`LuaStrings_proofs`). The invariant adds that short strings have
different texts even when dead (`Unique`: this is what resurrection is for), that
dead strings are ahead of the sweep (`Colours`), and that while a request waits
nobody makes the same text and the bucket stays the right one (`Requested`: true
because an emergency collection neither runs Lua code nor resizes the table).
From it `StringsInBuckets`, `CachedStringsAlive` and `PoolImplemented`.
`LoopAlwaysRehashes`: the loop that moves buckets in place computes the rehash, for
any sizes, by induction on its turns.

**Upvalues** (`LuaUpval_proofs`). `UpvalInv` is the invariant, in parts: lists
without repeats, sorted and right about who is open (`ListRight`, `OpenRight`,
`TwupsRight`), nothing freed is used (`FreedEmpty`), counts (`CountsRight`), who is alive
refers to nobody who is not (`AliveClosed`), the cache (`CacheRight`), the closure being
made (`MakingRight`) and what black objects have done (`ColorsRight`: the closed
values of a black closure are marked, its open upvalues touched). The hard step is
`atomic`: after `propagateall` every marked closure has its closed values marked
and its open upvalues touched; the thread of an open upvalue is marked or in
`twups`, so that `remarkupvals` marks the value (by induction over the list) or
the thread's own traversal did; and marked threads are traversed again. From
the invariant `UpvalsNotLost` (what the program reaches is the least set closed under
references, and the objects that stay are closed), `UpvalsCounted`,
`ThreadsInTwups`, and `VariablesShared`, the refinement of `LuaCells`: slots and captures are
references, two share a cell when their addresses are equal, and each action
leaves addresses and contents alone, drops references, assigns to one address,
or moves one capture (`lua_upvaluejoin`); closing a variable renames an address.

**Stack** (`LuaStack_proofs`). `StackAlwaysFits`: no value is outside the memory, for
all limits with `EXTRA_STACK >= 5`. The assumption is tight: a metamethod's four
values and the message of an error may meet. A frame leaves room for the results
it asked for when it calls, and an error finds the frame that `lua_pcallk` noted.

**Sort and references** (`LuaSortRefs_proofs`). `SortStaysInside`: `table.sort` reads and writes
inside its interval whatever the order function answers. `SortIsSorted`: for
every strict weak order it ends with a sorted permutation: each step exchanges
two elements of the interval at work, and each pair out of order lies in one of
the disjoint intervals still to be sorted. The order function is assumed not to
change the table. `ReferencesKept`: the free list holds the returned numbers, in order,
and none in use.

What stays with TLC, and why:

* liveness (`GarbageFreed`, `Terminates`): no prover here reasons about fairness and
  ENABLED;
* `ComputesMeaning`, `RegistersFit`, `ClosedOutOfScope`, `PatternsAsMeant`, `LibrariesAsMeant`: the parser,
  the generator, the matcher and the evaluator are mutually recursive
  operators, which the provers cannot use (the modules with theorems reach no
  RECURSIVE operator);
* the two violations.

The induction theorems of the library take an operator as parameter, which the
provers cannot instantiate. Induction over numbers is done here by least
elements instead (`LeastNumber`, from the well-founded order of the numbers, and `UpTo`), and
that a recursive function exists by building it step by step (`RecursionExists`,
`RoundsExist`); both are stated anew in the modules that need them, to keep these
independent.

## 6. Findings

1. `lgc.c:926`: a finalizer called while `tobefnz` is being swept can take the
   object whose `next` field `sweepgc` points to; the rest of the list is not
   swept and is still black at the pause, against `lgc.h:112` and
   `ltests.c:326` (run `gc_tobefnz`).
2. `lfunc.c:107`: `luaF_close`, called for a thread that is being freed, moves
   the value of an open upvalue with `setobj`, which asserts that it is alive
   (`lobject.h:213`); it may be dead when the closure that keeps the upvalue is
   itself garbage, but not yet swept (run `upval_dead`). Without assertions
   nobody reads the copy.

Remarks without a run of their own, met while modelling:

* `lgc.c:1129`: `atomic` asserts that `weak` and `ephemeron` are empty at its
  beginning, but `propagateall` runs before and in the state `GCSatomic`: a weak
  table that a barrier marked after the end of the propagation is linked there.
  Harmless without assertions; the model has the list and loses nothing by it.
* `lstrlib.c:601`: `reprepstate` asserts that `matchdepth` is back at `MAXCCALLS`. After an
  error inside the iterator of `gmatch` that the program caught, it is not, and
  the next match has less depth.
* `ldo.c`, `stackinuse` asserts that frames end below `stack_last`. `luaT_callTM` pushes
  into the extra zone, `luaD_precall` may then run the collector, which shrinks
  the stack with `top` in that zone: the assertion fails, without other harm.
* `ldo.c:251`: a frame whose top is `stack_last` of a stack of `LUAI_MAXSTACK` slots counts as
  using more than the limit: after an overflow was caught the stack is not
  shrunk, and the next growth is an error in error handling, not an overflow.
* `lstrlib.c:1523`: `unpack` ends a `z` string at the zero that C keeps after every string when the data
  have none: truncated data are accepted, and the position returned is one beyond the
  largest that `unpack` takes (`FromCut` of `LuaLibraries` says when).
* `lvm.c:1444`: `OP_FORLOOP` asks `0 < step` where the manual's loop (`manual.of:1331`) asks
  `step >= 0`. With a step of zero the manual's loop ends when the variable is above the
  limit and never otherwise; the code's ends when the variable is below the limit.
  `StepBy` of `MCLuaPrograms` has no step of zero.

## 7. Not modelled

* **Pacing** (`luaC_step`, `setpause`, `GCdebt`): the models let the collector step at any
  moment, which covers every pace; the arithmetic of the thresholds itself is not stated.
* **API and auxiliary library**: they move values on a stack; the operations
  with state of their own are in the modules they reach.
* **Tag methods**: metamethods are calls in `LuaCalls`; the cache of absent ones and the
  chains of `__index` are not stated.
* **Debug interface**: hooks are calls in `LuaCalls`; setting them from a signal handler, line
  counting and yields inside hooks are not there.
* **Global state**: creation and closing of a state are sequential.
* **Package, io and os libraries**: loaders and files are outside the program.
* **Base and math libraries, conversions, lexer, `string.format`**: text and numbers with no state.
* **Stand-alone interpreter, test library, manual**: not part of the core. The checks
  of the test library and the assertions are used as statements of what should hold.
* Inside the modelled components: the order inside lists of the collector, the
  prototype cache in `LuaGC` (it is in `LuaUpval`), tail calls and yields in hooks in
  `LuaCalls`, rounding of floats in `LuaValues`, line information in the compiler.
