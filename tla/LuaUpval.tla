------------------------------- MODULE LuaUpval -------------------------------
(***************************************************************************)
(* Upvalues: lfunc.c, the OP_CLOSURE of lvm.c with its cache of closures,  *)
(* lua_upvaluejoin, and what the collector does about them.                *)
(*                                                                         *)
(* An upvalue is open while its variable is in the stack of a thread, and  *)
(* is then no root of anything: the thread marks the variable.  A thread   *)
(* may die with open upvalues that closures still use; the lists twups and *)
(* the field touched are for those.                                        *)
(*                                                                         *)
(* Each thread is one frame, the slots of its stack are variables.  The    *)
(* program is one chunk, the function of the main thread, that is always   *)
(* marked with the prototypes nested in it.                                *)
(***************************************************************************)
EXTENDS Integers, FiniteSets, SequencesExt

CONSTANTS
    Thread, mainthread, LClosure, UpVal,   \* addresses
    Proto, upvalues,   \* prototypes; their Upvaldescs [instack, idx]
    Nil, None,
    Own, Free,         \* v of a closed upvalue, its own field; v of an address not in use
    Bounds             \* bounds: the slots of each stack, how many closures and upvalues,
                       \* and the prototypes that the chunk has
GCObject == Thread \cup LClosure

(* Addresses of different objects are different, and there are finitely    *)
(* many of them.                                                           *)
ASSUME UpvalAssumption ==
    /\ IsFiniteSet(Thread) /\ IsFiniteSet(LClosure)
    /\ Thread \cap LClosure = {} /\ Proto \cap LClosure = {} /\ Proto \cap Thread = {}
    /\ Proto # {}
    /\ Own # Free /\ (UpVal \cup {Own, Free}) \cap (Thread \X Nat) = {}
    /\ mainthread \in Thread /\ Bounds \subseteq [slots : [Thread -> Nat], closures : Nat, upvals : Nat, protos : SUBSET Proto]
    /\ Nil \notin GCObject /\ None \notin GCObject \cup UpVal
    /\ upvalues \in [Proto -> Seq([instack : BOOLEAN, idx : Nat \ {0}])]

VARIABLES
    bound,       \* the member of Bounds that applies, chosen at the start
    chain,       \* the threads that resumed each other, the running one last
    stack,       \* thread -> its slots up to top
    openupval,   \* thread -> its open upvalues, the highest slot first
    upvals, proto,              \* closure -> its upvalues and prototype
    v, value, refcount, touched,  \* the fields of an upvalue
    twups,       \* the list of the threads with open upvalues
    cache,       \* prototype -> the last closure created from it
    making,      \* the closure pushclosure is at work on
    allgc,       \* the list of objects, the newest first
    gcstate, marked, black, dead,   \* black: the closures and prototypes traversed
    emergency    \* how far an emergency collection inside pushclosure is

program == <<bound, chain, stack>>
upv == <<v, value, refcount, touched>>
closures == <<upvals, proto, cache, making>>
colors == <<marked, black, dead>>
vars == <<program, openupval, closures, upv, twups, allgc, colors, gcstate, emergency>>

MaxTop == bound.slots
L == Last(chain)
Value == GCObject \cup {Nil}
Objects == ToSet(allgc) \cup {mainthread}
upisopen(u) == v[u] \notin {Own, Free}
Slots(t) == {<<t, l>> : l \in DOMAIN stack[t]}

(* *uv->v                                                                  *)
At(u) == IF upisopen(u) THEN stack[v[u][1]][v[u][2]] ELSE value[u]

Working == making # None
Running == ~Working
keepinvariant == gcstate = "propagate"

TypeOK ==
    /\ bound \in Bounds
    /\ chain \in Seq(Thread) /\ chain # <<>>
    /\ stack \in [Thread -> Seq(Value)]
    /\ openupval \in [Thread -> Seq(UpVal)]
    /\ upvals \in [LClosure -> Seq(UpVal \cup {None})] /\ proto \in [LClosure -> Proto]
    /\ v \in [UpVal -> {Own, Free} \cup (Thread \X Nat)] /\ value \in [UpVal -> Value]
    /\ refcount \in [UpVal -> Nat] /\ touched \in [UpVal -> BOOLEAN]
    /\ twups \in Seq(Thread) /\ cache \in [Proto -> LClosure \cup {None}]
    /\ making \in {None} \cup [cl : LClosure, enc : LClosure \cup {None}, base : Nat, ra : Nat]
    /\ allgc \in Seq(GCObject)
    /\ marked \subseteq GCObject /\ black \subseteq LClosure \cup Proto /\ dead \subseteq GCObject
    /\ gcstate \in {"pause", "propagate", "sweep"} /\ emergency \in {"no", "finish", "done"}

Init ==
    /\ bound \in Bounds
    /\ chain = <<mainthread>> /\ stack = [t \in Thread |-> <<>>]
    /\ openupval = [t \in Thread |-> <<>>]
    /\ upvals = [c \in LClosure |-> <<>>] /\ proto \in [LClosure -> {CHOOSE p \in Proto : TRUE}]
    /\ v = [u \in UpVal |-> Free] /\ value = [u \in UpVal |-> Nil]
    /\ refcount = [u \in UpVal |-> 0] /\ touched = [u \in UpVal |-> FALSE]
    /\ twups = <<>> /\ cache = [p \in Proto |-> None] /\ making = None
    /\ allgc = <<>>
    /\ marked = {} /\ black = {} /\ dead = {}
    /\ gcstate = "pause" /\ emergency = "no"

-----------------------------------------------------------------------------
(* Marking                                                                 *)

(* markobject on every object of S.                                        *)
Mark(S) == marked' = marked \cup (S \cap GCObject) /\ UNCHANGED <<black, dead>>

(* luaC_upvalbarrier, for upvalues that are closed after the step.         *)
UpvalBarrier(S) ==
    IF keepinvariant THEN Mark(S) ELSE UNCHANGED colors

-----------------------------------------------------------------------------
(* Open upvalues                                                           *)

Level(u) == v[u][2]

(* The place in openupval where the search for a level stops.              *)
Stop(t, level) ==
    LET list == openupval[t]
        lower == {i \in DOMAIN list : Level(list[i]) < level}
    IN IF lower = {} THEN Len(list) + 1 ELSE CHOOSE i \in lower : \A j \in lower : i <= j

Found(t, level) ==
    {u \in ToSet(SubSeq(openupval[t], 1, Stop(t, level) - 1)) : Level(u) = level}

(* What luaF_close removes from the list, and what of it is still used.    *)
Closing(t, level) == ToSet(SubSeq(openupval[t], 1, Stop(t, level) - 1))
Kept(t, level) == {u \in Closing(t, level) : refcount[u] > 0}

(* Mutant: the value is not copied. *)
luaF_closeForgets(t, level) ==
    /\ openupval' = [openupval EXCEPT ![t] = SubSeq(@, Stop(t, level), Len(@))]
    /\ v' = [u \in UpVal |-> IF u \in Kept(t, level) THEN Own
                             ELSE IF u \in Closing(t, level) THEN Free ELSE v[u]]
    /\ touched' = [u \in UpVal |-> IF u \in Closing(t, level) THEN FALSE ELSE touched[u]]
    /\ UNCHANGED value

luaF_close(t, level) ==
    /\ openupval' = [openupval EXCEPT ![t] = SubSeq(@, Stop(t, level), Len(@))]
    /\ v' = [u \in UpVal |-> IF u \in Kept(t, level) THEN Own
                             ELSE IF u \in Closing(t, level) THEN Free ELSE v[u]]
    /\ value' = [u \in UpVal |-> IF u \in Kept(t, level) THEN At(u) ELSE value[u]]
    /\ touched' = [u \in UpVal |-> IF u \in Closing(t, level) THEN FALSE ELSE touched[u]]

-----------------------------------------------------------------------------
(* The program                                                             *)

Target == {k \in 1 .. MaxTop[L] : k <= Len(stack[L]) + 1}
Put(s, k, x) == IF k > Len(s) THEN Append(s, x) ELSE [s EXCEPT ![k] = x]
Store(k, x) == stack' = [stack EXCEPT ![L] = Put(@, k, x)]
InSlots == ToSet(stack[L])

(* A local variable is declared or assigned to.                            *)
Move ==
    /\ Running
    /\ \E k \in Target, x \in InSlots \cup {Nil} :
        (k \in DOMAIN stack[L] => x # Nil) /\ Store(k, x)
    /\ UNCHANGED <<bound, chain, openupval, closures, upv, twups, allgc, colors, gcstate, emergency>>

(* The variables from a slot on go out of scope: the end of a block or of  *)
(* a function, or an error caught in this frame.                           *)
Leave ==
    /\ Running
    /\ \E level \in DOMAIN stack[L] :
        /\ luaF_close(L, level)
        /\ UpvalBarrier({At(u) : u \in Kept(L, level)})
        /\ stack' = [stack EXCEPT ![L] = SubSeq(@, 1, level - 1)]
    /\ UNCHANGED <<bound, chain, closures, refcount, twups, allgc, gcstate, emergency>>

New(o) ==
    /\ o \in GCObject \ Objects
    /\ allgc' = <<o>> \o allgc

lua_newthread ==
    /\ Running
    /\ \E t \in Thread, k \in Target : MaxTop[t] > 0 /\ New(t) /\ Store(k, t)
    /\ UNCHANGED <<bound, chain, openupval, closures, upv, twups, colors, gcstate, emergency>>

(* lua_resume passes one value; the thread starts or goes on with it.      *)
lua_resume ==
    /\ Running
    /\ \E t \in (Thread \cap InSlots) \ ToSet(chain), x \in InSlots :
        /\ Len(stack[t]) < MaxTop[t]
        /\ stack' = [stack EXCEPT ![t] = Append(@, x)]
        /\ chain' = Append(chain, t)
    /\ UNCHANGED <<bound, openupval, closures, upv, twups, allgc, colors, gcstate, emergency>>

(* lua_yield hands one value over to the thread that resumed this one.     *)
lua_yield ==
    /\ Running /\ Len(chain) > 1
    /\ LET from == chain[Len(chain) - 1] IN
       \E k \in 1 .. MaxTop[from], x \in InSlots \cup {Nil} :
           /\ k <= Len(stack[from]) + 1
           /\ stack' = [stack EXCEPT ![from] = Put(@, k, x)]
    /\ chain' = Front(chain)
    /\ UNCHANGED <<bound, openupval, closures, upv, twups, allgc, colors, gcstate, emergency>>

(* An upvalue of a closure that the running function has.                  *)
Upvals(c) == ToSet(upvals[c]) \ {None}

OP_GETUPVAL ==
    /\ Running
    /\ \E c \in LClosure \cap InSlots : \E u \in Upvals(c), k \in Target : Store(k, At(u))
    /\ UNCHANGED <<bound, chain, openupval, closures, upv, twups, allgc, colors, gcstate, emergency>>

OP_SETUPVAL ==
    /\ Running
    /\ \E c \in LClosure \cap InSlots, x \in InSlots \cup {Nil} : \E u \in Upvals(c) :
        IF upisopen(u)
        THEN /\ stack' = [stack EXCEPT ![v[u][1]][v[u][2]] = x]
             /\ UNCHANGED <<value, colors>>
        ELSE /\ value' = [value EXCEPT ![u] = x]
             /\ UpvalBarrier({x})
             /\ UNCHANGED stack
    /\ UNCHANGED <<bound, chain, openupval, closures, v, refcount, touched, twups, allgc, gcstate, emergency>>

(* Upvalues that lose a reference; a closed one without any is freed.      *)
luaC_upvdeccount(uses) ==
    LET freed == {u \in UpVal : v[u] = Own /\ refcount[u] > 0 /\ refcount[u] = uses[u]} IN
    /\ v' = [u \in UpVal |-> IF u \in freed THEN Free ELSE v[u]]
    /\ value' = [u \in UpVal |-> IF u \in freed THEN Nil ELSE value[u]]

lua_upvaluejoin ==
    /\ Running
    /\ \E c1, c2 \in LClosure \cap InSlots :
       \E n1 \in DOMAIN upvals[c1], n2 \in DOMAIN upvals[c2] :
        LET up1 == upvals[c1][n1] up2 == upvals[c2][n2] IN
        /\ None \notin {up1, up2} /\ up1 # up2
        /\ luaC_upvdeccount([u \in UpVal |-> IF u = up1 THEN 1 ELSE 0])
        /\ upvals' = [upvals EXCEPT ![c1][n1] = up2]
        /\ refcount' = [refcount EXCEPT ![up1] = @ - 1, ![up2] = @ + 1]
        /\ touched' = [touched EXCEPT ![up2] = @ \/ upisopen(up2)]
        /\ UpvalBarrier(IF upisopen(up2) THEN {} ELSE {value[up2]})
    /\ UNCHANGED <<program, openupval, proto, cache, making, twups, allgc, gcstate, emergency>>

-----------------------------------------------------------------------------
(* Closures                                                                *)

(* The address that v of an upvalue is, and the one a new closure needs.   *)
Address(u) == IF upisopen(u) THEN v[u] ELSE u
Needed(d, enc, base) ==
    IF d.instack THEN <<L, base + d.idx>> ELSE Address(upvals[enc][d.idx])

(* What OP_CLOSURE may be executed for: base is where the frame begins,    *)
(* enc the closure that runs.                                              *)
Allowed(p, enc, base) ==
    \A i \in DOMAIN upvalues[p] :
        LET d == upvalues[p][i] IN
        IF d.instack THEN base + d.idx \in DOMAIN stack[L]
        ELSE enc # None /\ d.idx \in DOMAIN upvals[enc] /\ upvals[enc][d.idx] # None

getcached(p, enc, base) ==
    /\ cache[p] # None
    /\ \A i \in DOMAIN upvalues[p] :
           Address(upvals[cache[p]][i]) = Needed(upvalues[p][i], enc, base)

(* Only slots that are left alone by ra can be captured or hold enc.       *)
OP_CLOSURE ==
    /\ Running
    /\ \E p \in bound.protos, enc \in {None} \cup (LClosure \cap InSlots), k \in Target :
       \E base \in 0 .. MaxTop[L] - 1 :
        /\ Allowed(p, enc, base)
        /\ enc # None => enc \in {stack[L][j] : j \in DOMAIN stack[L] \ {k}}
        /\ \/ /\ getcached(p, enc, base)
              /\ Store(k, cache[p])
              /\ UNCHANGED <<closures, allgc>>
           \/ /\ ~getcached(p, enc, base)
              /\ \E ncl \in LClosure :
                  /\ Cardinality(LClosure \cap Objects) < bound.closures
                  /\ New(ncl) /\ Store(k, ncl)
                  /\ proto' = [proto EXCEPT ![ncl] = p]
                  /\ upvals' = [upvals EXCEPT ![ncl] = [i \in DOMAIN upvalues[p] |-> None]]
                  /\ making' = [cl |-> ncl, enc |-> enc, base |-> base, ra |-> k]
              /\ UNCHANGED cache
    /\ UNCHANGED <<bound, chain, openupval, upv, twups, colors, gcstate, emergency>>

(* The next upvalue that pushclosure fills in.                             *)
Unfilled == {i \in DOMAIN upvals[making.cl] : upvals[making.cl][i] = None}
Next_i == CHOOSE i \in Unfilled : \A j \in Unfilled : i <= j
Desc == upvalues[proto[making.cl]][Next_i]
level == making.base + Desc.idx
Allocates == Unfilled # {} /\ Desc.instack /\ Found(L, level) = {}
Ready == Working /\ emergency \in {"no", "done"}

Fill(u) ==
    /\ upvals' = [upvals EXCEPT ![making.cl][Next_i] = u]
    /\ refcount' = [refcount EXCEPT ![u] = @ + 1]
    /\ emergency' = "no"
    /\ UNCHANGED <<program, value, proto, cache, making, allgc, colors, gcstate>>

(* An upvalue that exists.                                                 *)
ShareUpval ==
    /\ Ready /\ Unfilled # {} /\ ~Allocates
    /\ \E u \in IF Desc.instack THEN Found(L, level) ELSE {upvals[making.enc][Desc.idx]} : Fill(u)
    /\ UNCHANGED <<openupval, v, touched, twups>>

(* luaF_findupval gets the memory for a new one.                           *)
luaF_findupval ==
    /\ Ready /\ Allocates
    /\ Cardinality({u \in UpVal : v[u] # Free}) < bound.upvals
    /\ \E u \in UpVal :
        /\ v[u] = Free
        /\ v' = [v EXCEPT ![u] = <<L, level>>] /\ touched' = [touched EXCEPT ![u] = TRUE]
        /\ openupval' = [openupval EXCEPT ![L] = InsertAt(@, Stop(L, level), u)]
        /\ Fill(u)
    /\ twups' = IF L \in ToSet(twups) THEN twups ELSE <<L>> \o twups

(* The closure is complete.                                                *)
pushclosure ==
    /\ Ready /\ Unfilled = {}
    /\ LET p == proto[making.cl] IN
       cache' = IF p \in black THEN cache ELSE [cache EXCEPT ![p] = making.cl]
    /\ making' = None
    /\ UNCHANGED <<program, openupval, upvals, proto, upv, twups, allgc, colors, gcstate, emergency>>

(* No memory, not even after the emergency collection: luaD_pcall catches  *)
(* the error in this thread, closing what is above it.                     *)
MemoryError ==
    /\ Working /\ emergency = "done"
    /\ \E l \in 1 .. making.ra :
        /\ luaF_close(L, l)
        /\ UpvalBarrier({At(u) : u \in Kept(L, l)})
        /\ stack' = [stack EXCEPT ![L] = SubSeq(@, 1, l - 1)]
    /\ making' = None /\ emergency' = "no"
    /\ UNCHANGED <<bound, chain, upvals, proto, cache, refcount, twups, allgc, gcstate>>

-----------------------------------------------------------------------------
(* The collector                                                           *)

(* What a thread marks: its slots and, if it is waiting, the thread that   *)
(* it passed to lua_resume.                                                *)
Resumed(t) == {chain[i + 1] : i \in {j \in DOMAIN chain : chain[j] = t /\ j < Len(chain)}}

Open(c) == {u \in Upvals(c) : upisopen(u)}

(* traversethread, traverseLclosure: only inside the atomic phase does a   *)
(* closure mark what its open upvalues hold.                               *)
Refs(o, insideatomic) ==
    (IF o \in Thread THEN ToSet(stack[o]) \cup Resumed(o)
     ELSE {At(u) : u \in IF insideatomic THEN Upvals(o) ELSE Upvals(o) \ Open(o)}) \ {Nil}

Touching(S) == [u \in UpVal |-> touched[u] \/ \E c \in S \cap LClosure : u \in Open(c)]

(* restartcollection marks the main thread.                                *)
StartCycle ==
    /\ ~Working /\ gcstate = "pause"
    /\ gcstate' = "propagate" /\ marked' = {mainthread}
    /\ UNCHANGED <<program, openupval, closures, upv, twups, allgc, black, dead, emergency>>

(* propagatemark.  A thread stays gray: it may be traversed at any time,   *)
(* and is again in the atomic phase.                                       *)
PropagateThread ==
    /\ ~Working /\ gcstate = "propagate"
    /\ \E t \in marked \cap Thread : Mark(Refs(t, FALSE))
    /\ UNCHANGED <<program, openupval, closures, upv, twups, allgc, gcstate, emergency>>

PropagateLclosure ==
    /\ ~Working /\ gcstate = "propagate"
    /\ \E c \in (marked \cap LClosure) \ black :
        /\ marked' = marked \cup Refs(c, FALSE) /\ black' = black \cup {c}
        /\ touched' = Touching({c})
    /\ UNCHANGED <<program, openupval, closures, v, value, refcount, twups, allgc, dead, gcstate, emergency>>

(* traverseproto: a cached closure that is still white leaves the cache.   *)
PropagateProto ==
    /\ ~Working /\ gcstate = "propagate"
    /\ \E p \in bound.protos \ black :
        /\ cache' = IF cache[p] \in marked THEN cache ELSE [cache EXCEPT ![p] = None]
        /\ black' = black \cup {p}
    /\ UNCHANGED <<program, openupval, upvals, proto, making, upv, twups, allgc, marked, dead, gcstate, emergency>>

(* All that can be reached from S by way of edges.                         *)
Closed(W, edges) == \A o \in W : edges[o] \subseteq W
Reachable(S, edges) ==
    {o \in GCObject : \A W \in SUBSET GCObject : S \subseteq W /\ Closed(W, edges) => o \in W}

(* propagateall: what is traversed when the objects of S are gray, those   *)
(* of M having their mark.                                                 *)
Spread(M, S, insideatomic) == Reachable(S, [o \in GCObject |-> Refs(o, insideatomic) \ M])

(* remarkupvals.                                                           *)
Stays(t, M) == t \in M /\ openupval[t] # <<>>
Visit(r, t) ==
    LET touch == {u \in ToSet(openupval[t]) : r.touched[u]} IN
    IF Stays(t, r.marked) THEN [r EXCEPT !.twups = Append(@, t)]
    ELSE [r EXCEPT !.marked = @ \cup ({At(u) : u \in touch} \cap GCObject),
                   !.touched = [u \in UpVal |-> @[u] /\ u \notin touch]]
(* Mutant: values of unmarked threads are not marked. *)
remarkupvalsNone(M, touch) ==
    [marked |-> M, touched |-> touch, twups |-> SelectSeq(twups, LAMBDA t : Stays(t, M))]
remarkupvals(M, touch) ==
    LET after[n \in 0 .. Len(twups)] ==
            IF n = 0 THEN [marked |-> M, touched |-> touch, twups |-> <<>>]
            ELSE Visit(after[n - 1], twups[n])
    IN after[Len(twups)]

(* How marking ends when the objects of M have their mark and those of     *)
(* done were traversed: propagateall, atomic, where all marked threads are *)
(* traversed again.  back are the threads that are linked back to twups.   *)
Finish(M, done) ==
    LET early == Spread(M, M \ done, FALSE)
        r == remarkupvals(M \cup early \cup {L}, Touching(early))
        late == Spread(r.marked, (r.marked \cap Thread) \cup (r.marked \ (M \cup early)), TRUE)
    IN [live |-> r.marked \cup late, touched |-> r.touched, twups |-> r.twups,
        back |-> {t \in late \cap Thread : openupval[t] # <<>>} \ ToSet(r.twups)]

(* Mutant: a revived thread is not linked back. *)
RelinkNever(m) == twups' = m.twups
Relink(m) ==
    \E q \in [1 .. Cardinality(m.back) -> m.back] :
        ToSet(q) = m.back /\ twups' = q \o m.twups

(* The prototypes of P are traversed meanwhile: a closure that is marked   *)
(* only in the end may or may not be in the cache afterwards.              *)
Uncache(P, M, live) ==
    \E Q \in SUBSET P :
        /\ \A p \in P : cache[p] \in M => p \notin Q
        /\ \A p \in P : cache[p] \notin live => p \in Q
        /\ cache' = [p \in Proto |-> IF p \in Q THEN None ELSE cache[p]]

(* The rest of the marking, in one step; the white flips, entersweep.      *)
atomic ==
    /\ ~Working /\ gcstate = "propagate"
    /\ LET m == Finish(marked, black) IN
       /\ Relink(m) /\ Uncache(bound.protos \ black, marked, m.live)
       /\ dead' = ToSet(allgc) \ m.live /\ touched' = m.touched
    /\ gcstate' = "sweep" /\ marked' = {} /\ black' = bound.protos
    /\ UNCHANGED <<program, openupval, upvals, proto, making, v, value, refcount, allgc, emergency>>

(* luaE_freethread and freeLclosure.                                       *)
FreeThread(t) ==
    /\ luaF_close(t, 0)
    /\ stack' = [stack EXCEPT ![t] = <<>>]
    /\ UNCHANGED <<refcount, upvals>>

(* How many upvals of the closures of S each upvalue is.                   *)
Uses(S) ==
    LET places == UNION {{<<c, i>> : i \in DOMAIN upvals[c]} : c \in S} IN
    [u \in UpVal |-> Cardinality({p \in places : upvals[p[1]][p[2]] = u})]

(* Mutant: the upvalues of a freed closure stay counted. *)
FreeLclosureKeeps(c) ==
    /\ upvals' = [upvals EXCEPT ![c] = <<>>]
    /\ UNCHANGED <<openupval, touched, stack, v, value, refcount>>
FreeLclosure(c) ==
    /\ luaC_upvdeccount(Uses({c}))
    /\ refcount' = [u \in UpVal |-> refcount[u] - Uses({c})[u]]
    /\ upvals' = [upvals EXCEPT ![c] = <<>>]
    /\ UNCHANGED <<openupval, touched, stack>>

(* sweeplist comes to the next dead object, from the newest on.  Those     *)
(* that it passes turn white: nobody asks for their mark until then.       *)
Sweep ==
    /\ Working => emergency = "finish"
    /\ \E i \in DOMAIN allgc :
        LET o == allgc[i] IN
        /\ o \in dead /\ \A j \in 1 .. i - 1 : allgc[j] \notin dead
        /\ allgc' = RemoveAt(allgc, i) /\ dead' = dead \ {o}
        /\ \/ o \in Thread /\ FreeThread(o)
           \/ o \in LClosure /\ FreeLclosure(o)
    /\ UNCHANGED <<bound, chain, proto, cache, making, twups, marked, black, gcstate, emergency>>

(* The prototypes, older than everything else, and the main thread are     *)
(* white again.                                                            *)
SweepEnds ==
    /\ Working => emergency = "finish"
    /\ gcstate = "sweep" /\ dead = {}
    /\ gcstate' = "pause" /\ black' = {}
    /\ UNCHANGED <<program, openupval, closures, upv, twups, allgc, marked, dead, emergency>>

(* luaC_fullgc(L, 1), called when luaM_new fails: black objects are turned *)
(* white again, or a sweep is finished.                                    *)
Emergency ==
    /\ Working /\ emergency = "no" /\ Allocates
    /\ emergency' = "finish"
    /\ IF keepinvariant THEN gcstate' = "pause" /\ marked' = {} /\ black' = {}
       ELSE UNCHANGED <<gcstate, marked, black>>
    /\ UNCHANGED <<program, openupval, closures, upv, twups, allgc, dead>>

(* What is left of allgc when all but the objects of S are freed.          *)
Sublists(S) ==
    {q \in [1 .. Cardinality(S) -> S] :
        /\ ToSet(q) = S
        /\ \A i, j \in DOMAIN q : i < j =>
               \E m, n \in DOMAIN allgc : m < n /\ allgc[m] = q[i] /\ allgc[n] = q[j]}

(* Then there is a whole cycle, which leaves everything white.             *)
FullCycle ==
    LET m == Finish({mainthread}, {})
        live == m.live
        count == Uses(live \cap LClosure)
        closed == {u \in UpVal : v[u] = Own \/ (upisopen(u) /\ v[u][1] \notin live)}
    IN
    /\ emergency = "finish" /\ gcstate = "pause"
    /\ Relink(m) /\ Uncache(bound.protos, {mainthread}, live)
    /\ refcount' = [u \in UpVal |-> IF v[u] = Free THEN 0 ELSE count[u]]
    /\ v' = [u \in UpVal |-> IF u \notin closed THEN v[u] ELSE IF count[u] = 0 THEN Free ELSE Own]
    /\ value' = [u \in UpVal |-> IF u \in closed /\ count[u] > 0 THEN At(u) ELSE Nil]
    /\ touched' = [u \in UpVal |-> m.touched[u] /\ u \notin closed]
    /\ openupval' = [t \in Thread |-> IF t \in live THEN openupval[t] ELSE <<>>]
    /\ stack' = [t \in Thread |-> IF t \in live THEN stack[t] ELSE <<>>]
    /\ upvals' = [c \in LClosure |-> IF c \in live THEN upvals[c] ELSE <<>>]
    /\ allgc' \in Sublists(ToSet(allgc) \cap live)
    /\ emergency' = "done"
    /\ UNCHANGED <<bound, chain, proto, making, colors, gcstate>>

Next ==
    \/ Move \/ Leave \/ lua_newthread \/ lua_resume \/ lua_yield
    \/ OP_GETUPVAL \/ OP_SETUPVAL \/ lua_upvaluejoin
    \/ OP_CLOSURE \/ ShareUpval \/ luaF_findupval \/ pushclosure
    \/ Emergency \/ FullCycle \/ MemoryError
    \/ StartCycle \/ PropagateThread \/ PropagateLclosure \/ PropagateProto \/ atomic \/ Sweep \/ SweepEnds

Spec == Init /\ [][Next]_vars

-----------------------------------------------------------------------------
(* Properties                                                              *)

(* What the program can reach from the threads that are running.           *)
Refers(o) == IF o \in Thread THEN ToSet(stack[o]) ELSE {At(u) : u \in Upvals(o)}

Reach == Reachable(ToSet(chain), [o \in GCObject |-> Refers(o) \cap GCObject])

(* Nothing that the program can reach is freed, or is going to be: neither *)
(* a thread or a closure nor an upvalue or the thread whose stack it is in, *)
(* not even what is only reached through an open upvalue of a dead thread. *)
NothingLost ==
    /\ \A o \in Reach : o \in Objects \ dead
    /\ \A c \in LClosure \cap Objects : \A u \in Upvals(c) :
           /\ v[u] # Free
           /\ upisopen(u) => v[u][1] \in Objects /\ v[u] \in Slots(v[u][1])

(* The count of an upvalue is the number of closures' references to it,    *)
(* and closed ones without any are freed.                                  *)
Counted ==
    \A u \in UpVal :
        /\ refcount[u] = Uses(LClosure \cap Objects)[u]
        /\ v[u] = Own => refcount[u] > 0

(* Every thread that may still run is in twups while it has open upvalues, *)
(* no freed thread is, and the list of upvalues is sorted without repeats. *)
InTwups ==
    /\ ToSet(twups) \subseteq Objects
    /\ \A t \in Reach \cap Thread :
        /\ openupval[t] # <<>> => t \in ToSet(twups)
        /\ \A i, j \in DOMAIN openupval[t] : i < j => Level(openupval[t][i]) > Level(openupval[t][j])

(* Closing an upvalue never copies a dead value (checkliveness in setobj). *)
ClosesAlive ==
    [][\A u \in UpVal : (upisopen(u) /\ v'[u] = Own /\ value'[u] \in GCObject)
           => value'[u] \in Objects \ dead]_vars

(* The cells of the program's variables: what slots of threads and         *)
(* closures refer to, with all references to it.                           *)
Cells ==
    LET slots == UNION {Slots(t) : t \in Thread}
        captures == UNION {{<<c, i>> : i \in {j \in DOMAIN upvals[c] : upvals[c][j] # None}} : c \in LClosure}
        refers == {<<r, r>> : r \in slots} \cup {<<r, Address(upvals[r[1]][r[2]])>> : r \in captures}
    IN {[refs |-> {p[1] : p \in {q \in refers : q[2] = a}},
         holds |-> IF a \in UpVal THEN value[a] ELSE stack[a[1]][a[2]]] : a \in {p[2] : p \in refers}}

(* Captured variables are shared by all that captured them, open or        *)
(* closed, whatever thread they were in and whether it is still there.     *)
Variable == INSTANCE LuaCells WITH store <- Cells
ImplementsCells == Variable!Spec

==============================================================================
