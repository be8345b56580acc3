-------------------------------- MODULE LuaGC --------------------------------
(***************************************************************************)
(* The incremental tri-colour collector of lgc.c, interleaved with the     *)
(* program that mutates the heap between its steps.                        *)
(*                                                                         *)
(* An object is an identity with a fixed kind, a colour and a few cells.   *)
(* A cell holds a value and, in a table, a key.  The lists of the code     *)
(* (allgc, finobj, tobefnz, gray, grayagain, weak, ephemeron, allweak) are *)
(* sets here: the collector may take their elements in any order, of which *)
(* the order of the code is one.  The part of the list under sweep that    *)
(* sweepgc has not passed yet is the set unswept.                          *)
(*                                                                         *)
(* singlestep runs between two operations of the program, except that the  *)
(* whole of the atomic phase is one singlestep: its parts are actions here *)
(* too, told apart by pc, and the program cannot move while pc # "idle".   *)
(***************************************************************************)
EXTENDS Naturals, FiniteSets

CONSTANTS
    Obj,          \* the memory blocks an object can live in
    MainThread,   \* g->mainthread, also the running thread L
    Registry,     \* g->l_registry, a table
    Kind,         \* the kind of the object that can live in a block
    Slot,         \* indices of cells
    Cell,         \* the cells the program can write in an object
    Nil,          \* the nil value; as a key, a key that is not collectable
    Finalizable,  \* the objects whose metatable may have a __gc field
    Modes,        \* the values of __mode the program uses
    Weakable,     \* bound: the tables whose metatable it changes
    Keyed,        \* bound: the tables with collectable keys; others have none
    Globals,      \* bound: the tables it makes metatables of basic types
    FullKinds,    \* bound: the kinds of full collections it runs into
    TobefnzFits   \* at most GCSWEEPMAX objects ever wait for their finalizers

Kinds == {"string", "udata", "table", "closure", "thread"}
Ref == Obj \cup {Nil}

ASSUME ObjAssumption ==
    /\ IsFiniteSet(Obj) /\ Nil \notin Obj /\ Slot \subseteq Nat
    /\ \A o \in Obj : Kind[o] \in Kinds /\ Cell[o] \subseteq Slot
    /\ MainThread \in Obj /\ Kind[MainThread] = "thread"
    /\ Registry \in Obj /\ Kind[Registry] = "table"
    /\ Finalizable \subseteq {o \in Obj : Kind[o] \in {"udata", "table"}}
    /\ "strong" \in Modes /\ Modes \subseteq {"strong", "v", "k", "kv"}
    /\ Weakable \subseteq Obj /\ Keyed \subseteq Obj /\ Globals \subseteq Obj
    /\ FullKinds \subseteq {"normal", "emergency"}
    /\ TobefnzFits \in BOOLEAN

VARIABLES
    gcstate,        \* g->gcstate
    currentwhite,   \* g->currentwhite
    gckind,         \* g->gckind
    full,           \* progress of luaC_fullgc: "off", "flush" the old cycle, "collect"
    color,          \* the colour bits of the objects
    key, val,       \* the cells of the objects
    mode,           \* __mode of the metatable of a table
    mt,             \* g->mt: a metatable of a basic type
    allgc, finobj, tobefnz,
    gray, grayagain, weak, ephemeron, allweak,
    unswept,        \* what g->sweepgc still has to visit in the current list
    pc,             \* where the atomic phase is
    again,          \* local 'grayagain' of atomic
    todo, changed,  \* locals 'next' and 'changed' of convergeephemerons
    origweak, origall   \* locals of atomic

control == <<gcstate, currentwhite, gckind, full>>
cells == <<key, val, mode, mt>>
lists == <<allgc, finobj, tobefnz>>
graylists == <<gray, grayagain, weak, ephemeron, allweak>>
locals == <<again, todo, changed, origweak, origall>>
vars == <<control, color, cells, lists, graylists, unswept, pc, locals>>

White == {"w0", "w1"}
OtherWhite(w) == IF w = "w0" THEN "w1" ELSE "w0"

Heap == {MainThread} \cup allgc \cup finobj \cup tobefnz
IsWhite(o) == color[o] \in White
IsDead(o) == color[o] = OtherWhite(currentwhite)
WhiteRef(r) == r # Nil /\ color[r] \in White
KeepInvariant == gcstate \in {"GCSpropagate", "GCSatomic"}
SweepPhase == gcstate \in {"GCSswpallgc", "GCSswpfinobj", "GCSswptobefnz", "GCSswpend"}

Entries(o) == {s \in Slot : val[o][s] # Nil}
Keys(o) == {key[o][s] : s \in Entries(o)} \ {Nil}
Values(o) == {val[o][s] : s \in Entries(o)}
(* The first slot above the live part of the stack of th, if there is one. *)
Top(th) == {s \in Cell[th] : \A i \in Cell[th] : val[th][i] = Nil <=> i >= s}

(* What an object refers to: the key of an empty entry is never followed.  *)
Refs(o) == Keys(o) \cup Values(o)
Roots == {MainThread, Registry, mt} \ {Nil}

TypeOK ==
    /\ gcstate \in {"GCSpropagate", "GCSatomic", "GCSinsideatomic", "GCSswpallgc",
                    "GCSswpfinobj", "GCSswptobefnz", "GCSswpend", "GCScallfin", "GCSpause"}
    /\ currentwhite \in White
    /\ gckind \in {"normal", "emergency"}
    /\ full \in {"off", "flush", "collect"}
    /\ color \in [Obj -> White \cup {"gray", "black"}]
    /\ key \in [Obj -> [Slot -> Ref]]
    /\ val \in [Obj -> [Slot -> Ref]]
    /\ mode \in [Obj -> Modes]
    /\ mt \in Ref
    /\ allgc \subseteq Obj /\ finobj \subseteq Finalizable /\ tobefnz \subseteq Finalizable
    /\ gray \subseteq Obj /\ grayagain \subseteq Obj
    /\ weak \subseteq Obj /\ ephemeron \subseteq Obj /\ allweak \subseteq Obj
    /\ unswept \subseteq Obj
    /\ pc \in {"idle", "propagateall", "roots", "grayagain", "converge1", "separate",
               "resurrect", "converge2", "flip", "entersweep"}
    /\ again \subseteq Obj /\ todo \subseteq Obj /\ changed \in BOOLEAN
    /\ origweak \subseteq Obj /\ origall \subseteq Obj

(* After lua_newstate: the registry is the only object of the program.     *)
Init ==
    /\ gcstate = "GCSpause" /\ currentwhite = "w0"
    /\ gckind = "normal" /\ full = "off"
    /\ color = [o \in Obj |-> "w0"]
    /\ key = [o \in Obj |-> [s \in Slot |-> Nil]]
    /\ val = [o \in Obj |-> [s \in Slot |-> Nil]]
    /\ mode = [o \in Obj |-> "strong"]
    /\ mt = Nil
    /\ allgc = {Registry} /\ finobj = {} /\ tobefnz = {}
    /\ gray = {} /\ grayagain = {} /\ weak = {} /\ ephemeron = {} /\ allweak = {}
    /\ unswept = {}
    /\ pc = "idle" /\ again = {} /\ todo = {} /\ changed = FALSE
    /\ origweak = {} /\ origall = {}

-----------------------------------------------------------------------------
(* Marking                                                                 *)

(* Strings and userdata become black at once; the others wait in a list.   *)
AtOnce(o) == Kind[o] \in {"string", "udata"}

(* The white objects that reallymarkobject turns when called on the white  *)
(* objects of S: a userdata marks its metatable and user value on the way. *)
Marks(S) ==
    LET W == {o \in Obj : IsWhite(o)} IN
    {o \in W : \A T \in SUBSET W :
        (/\ S \cap W \subseteq T
         /\ \A u \in T : Kind[u] = "udata" => Refs(u) \cap W \subseteq T) => o \in T}

Marked(M) == [o \in Obj |-> IF o \notin M THEN color[o]
                            ELSE IF AtOnce(o) THEN "black" ELSE "gray"]
ToGray(M) == {o \in M : ~AtOnce(o)}

(* markobject on every object of S, nothing else changing colour.          *)
Mark(S) ==
    /\ color' = Marked(Marks(S))
    /\ gray' = gray \cup ToGray(Marks(S))

-----------------------------------------------------------------------------
(* Traversing gray objects                                                 *)

(* A string is a value: it never counts as collected, and testing one      *)
(* marks it (the callers below add the strings they test to their marks).  *)
IsCleared(r) == WhiteRef(r) /\ Kind[r] # "string"
Strings(S) == {r \in S : Kind[r] = "string"}

(* removeentry on the empty entries of t: a white key becomes a dead key.  *)
LiveKeys(t) == [s \in Slot |-> IF val[t][s] = Nil /\ WhiteRef(key[t][s])
                               THEN Nil ELSE key[t][s]]

(* Mutant: a traversed thread is not kept for the atomic phase. *)
ThreadNotKept(o) ==
    LET M == Marks(Refs(o)) IN
    /\ color' = [Marked(M) EXCEPT ![o] = IF Kind[o] = "thread" THEN "gray" ELSE "black"]
    /\ gray' = (gray \ {o}) \cup ToGray(M)
    /\ key' = IF Kind[o] = "table" THEN [key EXCEPT ![o] = LiveKeys(o)] ELSE key
    /\ UNCHANGED <<grayagain, weak, ephemeron, allweak>>

(* Closures, prototypes, strong tables and threads.  A thread stays gray   *)
(* in grayagain: its stack has no barrier.                                 *)
TraverseStrong(o) ==
    LET M == Marks(Refs(o)) IN
    /\ color' = [Marked(M) EXCEPT ![o] = IF Kind[o] = "thread" THEN "gray" ELSE "black"]
    /\ gray' = (gray \ {o}) \cup ToGray(M)
    /\ grayagain' = IF Kind[o] = "thread" THEN grayagain \cup {o} ELSE grayagain
    /\ key' = IF Kind[o] = "table" THEN [key EXCEPT ![o] = LiveKeys(o)] ELSE key
    /\ UNCHANGED <<weak, ephemeron, allweak>>

(* Marks the keys.  The scan for a white value stops at the first one and  *)
(* does not look at an array part (entries with no collectable key), which *)
(* it takes to have white values.                                          *)
TraverseWeakValue(h) ==
    \E hasclears \in BOOLEAN, seen \in SUBSET Strings(Values(h)) :
        LET M == Marks(Keys(h) \cup seen) IN
        /\ hasclears => \E s \in Slot : key[h][s] = Nil \/ IsCleared(val[h][s])
        /\ ~hasclears => /\ seen = Strings(Values(h))
                         /\ \A r \in Values(h) : IsCleared(r) => r \in Marks(Keys(h))
        /\ color' = Marked(M)
        /\ gray' = (gray \ {h}) \cup ToGray(M)
        /\ key' = [key EXCEPT ![h] = LiveKeys(h)]
        /\ grayagain' = IF gcstate = "GCSpropagate" THEN grayagain \cup {h} ELSE grayagain
        /\ weak' = IF gcstate # "GCSpropagate" /\ hasclears THEN weak \cup {h} ELSE weak
        /\ UNCHANGED <<ephemeron, allweak>>

(* The entries of an ephemeron table whose key is not marked yet, the      *)
(* values its other entries let be marked, and what a traversal marks.     *)
WhiteKeyed(h) == {s \in Entries(h) : IsCleared(key[h][s])}
(* Mutant: the values of an ephemeron table are held strongly. *)
ReleasedAll(h) == Values(h)
Released(h) == {val[h][s] : s \in Entries(h) \ WhiteKeyed(h)}
EphemeronMarks(h) == Marks(Released(h) \cup Strings(Keys(h)))

(* Links h, already taken from the list it was in, into its next list.     *)
TraverseEphemeron(h) ==
    LET hasww == \E s \in WhiteKeyed(h) : WhiteRef(val[h][s])
        hasclears == WhiteKeyed(h) # {}
        propagating == gcstate = "GCSpropagate"
    IN
    /\ color' = Marked(EphemeronMarks(h))
    /\ gray' = (gray \ {h}) \cup ToGray(EphemeronMarks(h))
    /\ key' = [key EXCEPT ![h] = LiveKeys(h)]
    /\ grayagain' = IF propagating THEN grayagain \cup {h} ELSE grayagain
    /\ ephemeron' = IF ~propagating /\ hasww THEN ephemeron \cup {h} ELSE ephemeron
    /\ allweak' = IF ~propagating /\ ~hasww /\ hasclears THEN allweak \cup {h} ELSE allweak
    /\ UNCHANGED weak

(* Nothing to traverse in a table whose keys and values are weak.          *)
TraverseAllWeak(h) ==
    /\ allweak' = allweak \cup {h}
    /\ gray' = gray \ {h}
    /\ UNCHANGED <<color, key, grayagain, weak, ephemeron>>

(* propagatemark takes one object from the gray list.                      *)
PropagateMark(o) ==
    /\ o \in gray
    /\ IF Kind[o] # "table" \/ mode[o] = "strong" THEN TraverseStrong(o)
       ELSE IF mode[o] = "v" THEN TraverseWeakValue(o)
       ELSE IF mode[o] = "k" THEN TraverseEphemeron(o)
       ELSE TraverseAllWeak(o)
    /\ UNCHANGED <<val, mode, mt, lists, unswept>>

-----------------------------------------------------------------------------
(* From the pause to the atomic phase                                      *)

(* GCSpause: new gray lists from the roots and the objects still waiting   *)
(* for their finalizers.  luaC_fullgc goes from its old cycle to a new one.*)
RestartCollection ==
    LET M == Marks(Roots \cup tobefnz) IN
    /\ gcstate = "GCSpause" /\ pc = "idle" /\ full # "collect"
    /\ gcstate' = "GCSpropagate"
    /\ full' = IF full = "flush" THEN "collect" ELSE full
    /\ color' = Marked(M)
    /\ gray' = ToGray(M)
    /\ grayagain' = {} /\ weak' = {} /\ ephemeron' = {} /\ allweak' = {}
    /\ UNCHANGED <<currentwhite, gckind, cells, lists, unswept, pc, locals>>

(* GCSpropagate: one object, and on to GCSatomic when the list is empty.   *)
Propagate ==
    /\ gcstate = "GCSpropagate" /\ pc = "idle"
    /\ \E o \in gray : PropagateMark(o)
    /\ gcstate' = IF gray' = {} THEN "GCSatomic" ELSE gcstate
    /\ UNCHANGED <<currentwhite, gckind, full, pc, locals>>

-----------------------------------------------------------------------------
(* The atomic phase: one singlestep, so only the collector moves in it.    *)

(* singlestep calls propagateall before atomic: barriers may have marked   *)
(* objects since the gray list became empty.                               *)
AtomicBegin ==
    /\ gcstate = "GCSatomic" /\ pc = "idle"
    /\ pc' = "propagateall"
    /\ UNCHANGED <<control, color, cells, lists, graylists, unswept, locals>>

(* propagateall, wherever the atomic phase calls it.                       *)
AtomicPropagate ==
    /\ pc \in {"propagateall", "roots", "grayagain", "converge1", "resurrect", "converge2"}
    /\ \E o \in gray : PropagateMark(o)
    /\ UNCHANGED <<control, pc, locals>>

(* Mutant: atomic does not mark the global metatables again. *)
AtomicRootsNoMt ==
    /\ pc = "propagateall" /\ gray = {}
    /\ pc' = "roots"
    /\ gcstate' = "GCSinsideatomic"
    /\ again' = grayagain
    /\ Mark({MainThread, Registry})
    /\ UNCHANGED <<currentwhite, gckind, full, cells, lists, grayagain, weak, ephemeron,
                   allweak, unswept, todo, changed, origweak, origall>>

(* Marks the running thread, the registry and the global metatables again. *)
AtomicRoots ==
    /\ pc = "propagateall" /\ gray = {}
    /\ pc' = "roots"
    /\ gcstate' = "GCSinsideatomic"
    /\ again' = grayagain
    /\ Mark(Roots)
    /\ UNCHANGED <<currentwhite, gckind, full, cells, lists, grayagain, weak, ephemeron,
                   allweak, unswept, todo, changed, origweak, origall>>

(* g->gray = grayagain: everything a barrier or a traversal put off.       *)
AtomicGrayAgain ==
    /\ pc = "roots" /\ gray = {}
    /\ pc' = "grayagain"
    /\ gray' = again /\ again' = {}
    /\ UNCHANGED <<control, color, cells, lists, grayagain, weak, ephemeron, allweak,
                   unswept, todo, changed, origweak, origall>>

(* Mutant: convergeephemerons does not look at its list. *)
ConvergeSkipped ==
    /\ gray = {}
    /\ \/ pc = "grayagain" /\ pc' = "converge1"
       \/ pc = "resurrect" /\ pc' = "converge2"
    /\ UNCHANGED <<control, color, cells, lists, graylists, unswept, locals>>

(* A round of convergeephemerons takes the whole list ...                  *)
ConvergeRound ==
    /\ gray = {}
    /\ \/ pc = "grayagain" /\ pc' = "converge1"
       \/ pc = "resurrect" /\ pc' = "converge2"
       \/ /\ pc \in {"converge1", "converge2"} /\ todo = {} /\ changed
          /\ pc' = pc
    /\ todo' = ephemeron /\ ephemeron' = {} /\ changed' = FALSE
    /\ UNCHANGED <<control, color, cells, lists, gray, grayagain, weak, allweak, unswept,
                   again, origweak, origall>>

(* ... and traverses its tables one by one, propagating after each.        *)
ConvergeTable ==
    /\ pc \in {"converge1", "converge2"} /\ gray = {}
    /\ \E w \in todo :
        /\ todo' = todo \ {w}
        /\ TraverseEphemeron(w)
        /\ changed' = (changed \/ \E r \in Released(w) : WhiteRef(r))
    /\ UNCHANGED <<control, val, mode, mt, lists, unswept, pc, again, origweak, origall>>

Converged == gray = {} /\ todo = {} /\ ~changed

(* clearkeys on the tables of CK and clearvalues on those of CV.  An entry *)
(* goes when its key, or its value, was not marked.                        *)
Goes(t, s, CK, CV) ==
    /\ val[t][s] # Nil
    /\ \/ t \in CK /\ IsCleared(key[t][s])
       \/ t \in CV /\ IsCleared(val[t][s])

ClearTables(CK, CV) ==
    LET Tested == (UNION {Strings(Keys(t)) : t \in CK})
                  \cup (UNION {Strings(Values(t)) : t \in CV})
    IN
    /\ val' = [t \in Obj |-> [s \in Slot |-> IF Goes(t, s, CK, CV) THEN Nil ELSE val[t][s]]]
    /\ key' = [t \in Obj |-> [s \in Slot |->
                  IF /\ Goes(t, s, CK, CV) \/ (t \in CK /\ val[t][s] = Nil)
                     /\ WhiteRef(key[t][s])
                  THEN Nil ELSE key[t][s]]]
    /\ color' = Marked(Marks(Tested))
    /\ UNCHANGED <<mode, mt>>

(* Mutant: values are not cleared from all-weak tables before finalizers. *)
ClearOnlyWeakValues ==
    /\ pc = "converge1" /\ Converged
    /\ pc' = "separate"
    /\ ClearTables({}, weak)
    /\ origweak' = weak /\ origall' = {}
    /\ UNCHANGED <<control, lists, graylists, unswept, again, todo, changed>>

(* Values go before finalizers are looked for, keys after.                 *)
AtomicClearValues ==
    /\ pc = "converge1" /\ Converged
    /\ pc' = "separate"
    /\ ClearTables({}, weak \cup allweak)
    /\ origweak' = weak /\ origall' = allweak
    /\ UNCHANGED <<control, lists, graylists, unswept, again, todo, changed>>

(* Mutant: separatetobefnz looks at allgc too. *)
AtomicSeparateAll ==
    LET S == {o \in finobj \cup allgc : IsWhite(o)} IN
    /\ pc = "separate"
    /\ pc' = "resurrect"
    /\ finobj' = finobj \ S
    /\ allgc' = allgc \ S
    /\ tobefnz' = tobefnz \cup S
    /\ Mark(tobefnz')
    /\ UNCHANGED <<control, cells, grayagain, weak, ephemeron, allweak, unswept, locals>>

(* separatetobefnz, and markbeingfnz to bring back what finalizers will see*)
AtomicSeparate ==
    LET S == {o \in finobj : IsWhite(o)} IN
    /\ pc = "separate"
    /\ pc' = "resurrect"
    /\ finobj' = finobj \ S
    /\ tobefnz' = tobefnz \cup S
    /\ Mark(tobefnz')
    /\ UNCHANGED <<control, cells, allgc, grayagain, weak, ephemeron, allweak, unswept,
                   locals>>

AtomicClearRest ==
    /\ pc = "converge2" /\ Converged
    /\ pc' = "flip"
    /\ ClearTables(ephemeron \cup allweak, (weak \ origweak) \cup (allweak \ origall))
    /\ UNCHANGED <<control, lists, graylists, unswept, locals>>

(* What was not marked is dead from here on.                               *)
AtomicFlip ==
    /\ pc = "flip"
    /\ pc' = "entersweep"
    /\ currentwhite' = OtherWhite(currentwhite)
    /\ UNCHANGED <<gcstate, gckind, full, color, cells, lists, graylists, unswept, locals>>

-----------------------------------------------------------------------------
(* Sweeping                                                                *)

(* sweeplist over the objects of S: frees the dead, whitens the others.    *)
SweepColor(S) == [o \in Obj |-> IF o \notin S THEN color[o]
                                ELSE IF IsDead(o) THEN "w0" ELSE currentwhite]
Sweep(S) ==
    LET D == {o \in S : IsDead(o)} IN
    /\ color' = SweepColor(S)
    /\ allgc' = allgc \ D /\ finobj' = finobj \ D /\ tobefnz' = tobefnz \ D
    /\ key' = [o \in Obj |-> IF o \in D THEN [s \in Slot |-> Nil] ELSE key[o]]
    /\ val' = [o \in Obj |-> IF o \in D THEN [s \in Slot |-> Nil] ELSE val[o]]
    /\ mode' = [o \in Obj |-> IF o \in D THEN "strong" ELSE mode[o]]
    /\ UNCHANGED mt

(* entersweep sweeps the first object of allgc.  The gray lists have no    *)
(* meaning from here to RestartCollection, which empties them: they are    *)
(* dropped now to keep the state small.                                    *)
EnterSweep ==
    /\ pc = "entersweep" /\ pc' = "idle"
    /\ gcstate' = "GCSswpallgc"
    /\ \E first \in allgc : /\ Sweep({first})
                            /\ unswept' = allgc \ {first}
    /\ gray' = {} /\ grayagain' = {} /\ weak' = {} /\ ephemeron' = {} /\ allweak' = {}
    /\ again' = {} /\ todo' = {} /\ changed' = FALSE /\ origweak' = {} /\ origall' = {}
    /\ UNCHANGED <<currentwhite, gckind, full>>

(* sweepstep: a few objects; at the end of the list, on to the next one.   *)
(* TobefnzFits: one call is enough for the whole list tobefnz.             *)
SweepStep ==
    /\ gcstate \in {"GCSswpallgc", "GCSswpfinobj", "GCSswptobefnz"} /\ pc = "idle"
    /\ \E S \in SUBSET unswept :
        /\ unswept # {} => S # {}
        /\ gcstate = "GCSswptobefnz" /\ TobefnzFits => S = unswept
        /\ Sweep(S)
        /\ IF S # unswept
           THEN unswept' = unswept \ S /\ gcstate' = gcstate
           ELSE \/ gcstate = "GCSswpallgc" /\ gcstate' = "GCSswpfinobj" /\ unswept' = finobj
                \/ gcstate = "GCSswpfinobj" /\ gcstate' = "GCSswptobefnz" /\ unswept' = tobefnz
                \/ gcstate = "GCSswptobefnz" /\ gcstate' = "GCSswpend" /\ unswept' = {}
    /\ UNCHANGED <<currentwhite, gckind, full, graylists, pc, locals>>

(* Mutant: the main thread keeps its mark. *)
SweepEndMainMarked ==
    /\ gcstate = "GCSswpend" /\ pc = "idle"
    /\ gcstate' = "GCScallfin"
    /\ UNCHANGED <<currentwhite, gckind, full, color, cells, lists, graylists, unswept, pc,
                   locals>>

(* GCSswpend: the main thread is in no list.                               *)
SweepEnd ==
    /\ gcstate = "GCSswpend" /\ pc = "idle"
    /\ gcstate' = "GCScallfin"
    /\ color' = [color EXCEPT ![MainThread] = currentwhite]
    /\ UNCHANGED <<currentwhite, gckind, full, cells, lists, graylists, unswept, pc, locals>>

(* GCScallfin: an emergency collection leaves the finalizers for later.    *)
CallFinDone ==
    /\ gcstate = "GCScallfin" /\ pc = "idle"
    /\ tobefnz = {} \/ gckind = "emergency"
    /\ gcstate' = "GCSpause"
    /\ UNCHANGED <<currentwhite, gckind, full, color, cells, lists, graylists, unswept, pc,
                   locals>>

-----------------------------------------------------------------------------
(* Full collections and finalizers                                         *)

(* The program runs between steps, and in the finalizers of a full cycle.  *)
ProgramRuns ==
    /\ pc = "idle"
    /\ full = "off" \/ (gckind = "normal" /\ gcstate = "GCScallfin")

(* Mutant: the sweep that ends the old cycle changes the white. *)
FullGCFlips ==
    /\ ProgramRuns
    /\ full' = "flush"
    /\ gckind' \in FullKinds
    /\ pc' = IF KeepInvariant THEN "flip" ELSE "idle"
    /\ UNCHANGED <<gcstate, currentwhite, color, cells, lists, graylists, unswept, locals>>

(* luaC_fullgc: when there may be black objects, sweep them all to white   *)
(* (the current white has not changed: nothing dies), then run a cycle.    *)
FullGC ==
    /\ ProgramRuns
    /\ full' = "flush"
    /\ gckind' \in FullKinds
    /\ pc' = IF KeepInvariant THEN "entersweep" ELSE "idle"
    /\ UNCHANGED <<gcstate, currentwhite, color, cells, lists, graylists, unswept, locals>>

FullGCDone ==
    /\ full = "collect" /\ gcstate = "GCSpause" /\ pc = "idle"
    /\ full' = "off" /\ gckind' = "normal"
    /\ UNCHANGED <<gcstate, currentwhite, color, cells, lists, graylists, unswept, pc, locals>>

(* What is still to sweep when the first object o of tobefnz goes back to  *)
(* allgc.  The list is swept from its head, so its swept part goes first;  *)
(* when o is the last object swept, sweepgc is &o->next, and from then on  *)
(* walks allgc instead of the rest of tobefnz.                             *)
UnsweptWithout(o) ==
    IF gcstate = "GCSswptobefnz" /\ tobefnz \ unswept = {o} /\ unswept # {}
    THEN allgc ELSE unswept \ {o}

(* GCTM: takes an object from tobefnz and, if it still has a finalizer,    *)
(* hands it to that finalizer, on the stack.                               *)
CallFinalizer ==
    /\ pc = "idle" /\ gcstate # "GCSpause"
    /\ full = "off" \/ (gckind = "normal" /\ gcstate = "GCScallfin")
    /\ \E o \in tobefnz :
        /\ gcstate = "GCSswptobefnz" /\ tobefnz \ unswept # {} => o \notin unswept
        /\ tobefnz' = tobefnz \ {o} /\ allgc' = allgc \cup {o}
        /\ color' = IF SweepPhase THEN [color EXCEPT ![o] = currentwhite] ELSE color
        /\ unswept' = UnsweptWithout(o)
        /\ \/ \E s \in Top(MainThread) : val' = [val EXCEPT ![MainThread][s] = o]
           \/ val' = val
    /\ UNCHANGED <<control, key, mode, mt, finobj, graylists, pc, locals>>

-----------------------------------------------------------------------------
(* The program.  It works on what its stack and the registry hold, and can *)
(* read the fields of those objects (an empty entry shows no key).  It does *)
(* not store the registry anywhere.                                        *)

Operands == Values(MainThread) \cup {Registry}
Readable == Operands \cup (UNION {Refs(o) : o \in Operands}) \cup ({mt} \ {Nil})

(* luaC_newobj: current white, into allgc, anchored on the stack.          *)
NewObject ==
    /\ ProgramRuns
    /\ \E o \in Obj \ Heap, s \in Top(MainThread) :
        /\ val' = [val EXCEPT ![MainThread][s] = o]
        /\ color' = [color EXCEPT ![o] = currentwhite]
        /\ allgc' = allgc \cup {o}
    /\ UNCHANGED <<control, key, mode, mt, finobj, tobefnz, graylists, unswept, pc, locals>>

(* Stack slots are written with no barrier, in this or another thread.     *)
(* Pushing again what is an operand already would add nothing.             *)
Push ==
    /\ ProgramRuns
    /\ \E th \in {MainThread} \cup {o \in Operands : Kind[o] = "thread"} :
        \E s \in Top(th), r \in Readable \ (Values(th) \cup {Registry}) :
            val' = [val EXCEPT ![th][s] = r]
    /\ UNCHANGED <<control, color, key, mode, mt, lists, graylists, unswept, pc, locals>>

Pop ==
    /\ ProgramRuns
    /\ \E th \in {MainThread} \cup {o \in Operands : Kind[o] = "thread"} :
        \E s \in Entries(th) :
            /\ \A i \in Entries(th) : i <= s
            /\ val' = [val EXCEPT ![th][s] = Nil]
    /\ UNCHANGED <<control, color, key, mode, mt, lists, graylists, unswept, pc, locals>>

(* Mutant: the table is made gray but not linked in grayagain. *)
BarrierBackNotLinked(t, R) ==
    IF color[t] = "black" /\ \E r \in R : WhiteRef(r)
    THEN color' = [color EXCEPT ![t] = "gray"] /\ UNCHANGED grayagain
    ELSE UNCHANGED <<color, grayagain>>

(* luaC_barrierback on a table t now referring to the objects of R.        *)
BarrierBack(t, R) ==
    IF color[t] = "black" /\ \E r \in R : WhiteRef(r)
    THEN color' = [color EXCEPT ![t] = "gray"] /\ grayagain' = grayagain \cup {t}
    ELSE UNCHANGED <<color, grayagain>>

(* lua_rawset: an assignment to a key of t that is there, or to a new key  *)
(* in a free node, with the barriers of luaH_newkey and of the assignment. *)
TableSet ==
    /\ ProgramRuns
    /\ \E t \in {o \in Operands : Kind[o] = "table"}, v \in Values(MainThread) \cup {Nil} :
        \E s \in Cell[t], k \in IF t \in Keyed THEN Values(MainThread) ELSE {Nil} :
            /\ \/ key[t][s] = k
               \/ val[t][s] = Nil /\ \A i \in Cell[t] : k # Nil => key[t][i] # k
            /\ key' = [key EXCEPT ![t][s] = k]
            /\ val' = [val EXCEPT ![t][s] = v]
            /\ BarrierBack(t, {k, v})
    /\ UNCHANGED <<control, mode, mt, lists, gray, weak, ephemeron, allweak, unswept, pc,
                   locals>>

(* Mutant: no barrier when the stored object is white. *)
NoBarrier(o, v) == UNCHANGED <<color, gray>>

(* luaC_barrier: o, black, now refers to v, white.  While the invariant is *)
(* enforced v is marked, otherwise o is swept ahead of time.               *)
Barrier(o, v) ==
    IF color[o] = "black" /\ WhiteRef(v)
    THEN IF KeepInvariant
         THEN Mark({v})
         ELSE color' = [color EXCEPT ![o] = currentwhite] /\ gray' = gray
    ELSE UNCHANGED <<color, gray>>

(* Upvalues of C closures, metatables and user values of userdata.         *)
SetField ==
    /\ ProgramRuns
    /\ \E o \in {p \in Operands : Kind[p] \in {"closure", "udata"}},
          v \in Values(MainThread) \cup {Nil} :
        \E s \in Cell[o] :
            /\ val' = [val EXCEPT ![o][s] = v]
            /\ Barrier(o, v)
    /\ UNCHANGED <<control, key, mode, mt, lists, grayagain, weak, ephemeron, allweak,
                   unswept, pc, locals>>

(* lua_setmetatable on a table, with a metatable that stays in the         *)
(* registry: only its __mode matters here.                                 *)
SetMode ==
    /\ ProgramRuns
    /\ \E t \in {o \in Operands \cap Weakable : Kind[o] = "table"} : \E m \in Modes :
        mode' = [mode EXCEPT ![t] = m]
    /\ UNCHANGED <<control, color, key, val, mt, lists, graylists, unswept, pc, locals>>

(* lua_setmetatable on a basic type: a root with no barrier.               *)
SetGlobalMetatable ==
    /\ ProgramRuns
    /\ mt' \in {o \in Operands \cap Globals : Kind[o] = "table"} \cup {Nil}
    /\ UNCHANGED <<control, color, key, val, mode, lists, graylists, unswept, pc, locals>>

(* luaC_checkfinalizer: from allgc to finobj.  In the sweep of allgc, if   *)
(* sweepgc is &o->next, sweeptolive moves it past the dead objects to the  *)
(* next live one: the set S.                                               *)
CheckFinalizer ==
    /\ ProgramRuns
    /\ \E o \in Operands \cap Finalizable \cap allgc, S \in SUBSET unswept :
        LET D == {d \in S : IsDead(d)} IN
        /\ \/ S = {}
           \/ /\ gcstate = "GCSswpallgc" /\ o \notin unswept
              /\ S = unswept \/ Cardinality(S \ D) = 1
              /\ S = unswept => Cardinality(S \ D) <= 1
        /\ allgc' = allgc \ (D \cup {o})
        /\ finobj' = finobj \cup {o}
        /\ unswept' = unswept \ (S \cup {o})
        /\ color' = IF SweepPhase THEN [SweepColor(S) EXCEPT ![o] = currentwhite] ELSE color
        /\ key' = [d \in Obj |-> IF d \in D THEN [s \in Slot |-> Nil] ELSE key[d]]
        /\ val' = [d \in Obj |-> IF d \in D THEN [s \in Slot |-> Nil] ELSE val[d]]
        /\ mode' = [d \in Obj |-> IF d \in D THEN "strong" ELSE mode[d]]
    /\ UNCHANGED <<control, mt, tobefnz, graylists, pc, locals>>

-----------------------------------------------------------------------------
Collector ==
    \/ RestartCollection \/ Propagate
    \/ AtomicBegin \/ AtomicPropagate \/ AtomicRoots \/ AtomicGrayAgain
    \/ ConvergeRound \/ ConvergeTable
    \/ AtomicClearValues \/ AtomicSeparate \/ AtomicClearRest \/ AtomicFlip
    \/ EnterSweep \/ SweepStep \/ SweepEnd
    \/ CallFinalizer \/ CallFinDone \/ FullGCDone

Program ==
    \/ NewObject \/ Push \/ Pop \/ TableSet \/ SetField
    \/ SetMode \/ SetGlobalMetatable \/ CheckFinalizer \/ FullGC

Next == Collector \/ Program

Spec == Init /\ [][Next]_vars

(* luaC_step runs on every allocation that leaves GCdebt positive: as long *)
(* as the program allocates and the collector is not stopped, it moves on. *)
FairSpec == Spec /\ WF_vars(Collector)

-----------------------------------------------------------------------------
(* Properties                                                              *)

(* lgc.h: while objects are being marked, a black object never points to a *)
(* white one (the barriers of every store, against every traversal).       *)
BlackToWhite ==
    KeepInvariant => \A o \in Heap : color[o] = "black" =>
        \A r \in Refs(o) : ~IsWhite(r)

(* lgc.h: every gray object is in exactly one gray list, to be visited     *)
(* again before the cycle ends, and only gray objects are in a list;       *)
(* GCSpropagate always has an object to take.                              *)
GrayListed ==
    KeepInvariant /\ pc = "idle" =>
        /\ \A o \in Heap : color[o] = "gray" <=> o \in gray \cup grayagain \cup allweak
        /\ gray \cap grayagain = {} /\ gray \cap allweak = {} /\ grayagain \cap allweak = {}
        /\ gcstate = "GCSpropagate" => gray # {}

(* No object the program can reach, through any field, weak or not, was    *)
(* freed or is about to be: the roots and every object that is not dead    *)
(* refer only to objects of the heap that are not dead.  This is what the  *)
(* collector promises the program; it breaks when any barrier, root,       *)
(* traversal or clearing of the code is missing.                           *)
NoDangling ==
    LET Good == {o \in Heap : ~IsDead(o)} IN
    /\ Roots \cup finobj \cup tobefnz \subseteq Good
    /\ \A o \in Good : Refs(o) \subseteq Good

(* Objects are dead only in allgc and only ahead of the sweep, so that the *)
(* sweep misses none (lua_checkmemory: 'maybedead').                       *)
DeadAhead ==
    pc = "idle" => \A o \in Heap : IsDead(o) =>
        o \in allgc \cap unswept /\ gcstate = "GCSswpallgc"

(* lgc.h: when the sweep ends all objects are white again, of the current  *)
(* white, so that the next cycle marks every object it reaches.            *)
AllWhiteAtPause ==
    gcstate \in {"GCScallfin", "GCSpause"} => \A o \in Heap : color[o] = currentwhite

-----------------------------------------------------------------------------
(* The references of the manual, against which the atomic phase is judged: *)
(* what R reaches when weak tables hold nothing and an ephemeron table     *)
(* holds a value only through its key.  A table found all-weak in this     *)
(* cycle stays so until it ends, whatever its metatable becomes.           *)

StrongRefs(o, R) ==
    IF Kind[o] # "table" \/ (mode[o] = "strong" /\ o \notin allweak) THEN Refs(o)
    ELSE IF mode[o] = "kv" \/ o \in allweak THEN Strings(Refs(o))
    ELSE IF mode[o] = "v" THEN Keys(o) \cup Strings(Values(o))
    ELSE Strings(Keys(o)) \cup
         {val[o][s] : s \in {i \in Entries(o) : \/ key[o][i] \in R \cup {Nil}
                                                \/ Kind[key[o][i]] = "string"}}

StronglyReachable(R) ==
    LET Within[n \in 0..Cardinality(Obj)] ==
            IF n = 0 THEN R
            ELSE LET W == Within[n - 1] IN W \cup (UNION {StrongRefs(o, W) : o \in W})
    IN Within[Cardinality(Obj)]

(* The collector clears an entry of a weak table only when its value is    *)
(* not strongly reachable from the roots, or its key from the roots and    *)
(* the objects being finalized.                                            *)
ClearOnlyGarbage ==
    [][(pc \in {"converge1", "converge2"}) =>
         \A t \in allgc \cup finobj \cup tobefnz : \A s \in Slot :
             val[t][s] # Nil /\ val'[t][s] = Nil =>
                \/ val[t][s] \notin StronglyReachable(Roots)
                \/ key[t][s] \notin StronglyReachable(Roots \cup tobefnz) \cup {Nil}]_vars

(* An object is set aside for finalization only when the roots do not      *)
(* strongly reach it, and by then no weak-valued table the program can     *)
(* still see has it as a value.                                            *)
FinalizeOnlyGarbage ==
    [][\A o \in finobj : o \in tobefnz' =>
         /\ o \notin StronglyReachable(Roots)
         /\ \A t \in Heap : Kind[t] = "table" /\ ~IsWhite(t) /\ mode[t] \in {"v", "kv"} =>
                o \notin Values(t)]_vars

(* Garbage does not stay: an object that nothing strongly reaches for ever *)
(* leaves the heap, as long as the collector gets to run.                  *)
GarbageFreed ==
    \A o \in Obj \ {MainThread, Registry} :
        []<>(\/ o \notin Heap
             \/ o \in StronglyReachable(Roots \cup finobj \cup tobefnz))

=============================================================================
