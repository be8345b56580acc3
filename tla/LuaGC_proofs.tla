---------------------------- MODULE LuaGC_proofs ----------------------------
(***************************************************************************)
(* Theorems about the collector for every heap: any set of objects, of any *)
(* kinds, with any cells.  The first part shows types and what the sweep   *)
(* does; the second what the collector promises the program: the colour    *)
(* invariant of the marking phases, the gray lists, and that nothing the   *)
(* program can reach is ever freed; the third that weak tables lose, and   *)
(* finalizers get, nothing but garbage.                                    *)
(*                                                                         *)
(* The argument of the second part follows the atomic phase: every gray    *)
(* object is either still to be traversed, or in a weak list whose entries *)
(* are tested later, or refers to no white object; each list is then       *)
(* emptied or its tables are cleared, so that at the flip of the whites no *)
(* object that survives refers to one that dies.                           *)
(***************************************************************************)
EXTENDS LuaGC, FiniteSetTheorems, WellFoundedInduction, TLAPS

-----------------------------------------------------------------------------
(* What the objects refer to, and what marking and sweeping do to colours. *)

Colors == White \cup {"gray", "black"}

(* References lead to objects, never to nil. *)
LEMMA RefsType ==
    ASSUME TypeOK, NEW o \in Obj
    PROVE  Keys(o) \subseteq Obj /\ Values(o) \subseteq Obj /\ Refs(o) \subseteq Obj
  BY ObjAssumption DEF ObjAssumption, TypeOK, Keys, Values, Refs, Entries, Ref

(* What the program works on is made of objects. *)
LEMMA OperandsType ==
    ASSUME TypeOK
    PROVE  Operands \subseteq Obj /\ Readable \subseteq Obj
<1>1. Operands \subseteq Obj
  BY RefsType, ObjAssumption DEF ObjAssumption, Operands
<1>2. UNION {Refs(o) : o \in Operands} \subseteq Obj
  BY <1>1, RefsType
<1>3. {mt} \ {Nil} \subseteq Obj
  BY DEF TypeOK, Ref
<1> QED BY <1>1, <1>2, <1>3 DEF Readable

LEMMA TopType ==
    ASSUME NEW th \in Obj
    PROVE  Top(th) \subseteq Slot
  BY ObjAssumption DEF ObjAssumption, Top

(* Marking turns white objects gray or black and nothing else. *)
LEMMA MarksWhite ==
    ASSUME NEW S
    PROVE  Marks(S) \subseteq {o \in Obj : IsWhite(o)}
  BY DEF Marks

LEMMA MarkedColors ==
    ASSUME TypeOK, NEW M
    PROVE  /\ Marked(M) \in [Obj -> Colors]
           /\ \A o \in Obj : /\ o \notin M => Marked(M)[o] = color[o]
                             /\ o \in M => Marked(M)[o] \in {"gray", "black"}
  BY DEF TypeOK, Marked, Colors

(* Dropping dead keys leaves a well-formed table. *)
LEMMA LiveKeysType ==
    ASSUME TypeOK, NEW t \in Obj
    PROVE  LiveKeys(t) \in [Slot -> Ref]
  BY DEF TypeOK, LiveKeys, Ref

(* Writing one cell keeps the cells well-formed. *)
LEMMA PutType ==
    ASSUME NEW f \in [Obj -> [Slot -> Ref]], NEW o \in Obj, NEW s \in Slot, NEW r \in Ref
    PROVE  [f EXCEPT ![o][s] = r] \in [Obj -> [Slot -> Ref]]
<1>1. [f[o] EXCEPT ![s] = r] \in [Slot -> Ref]
  OBVIOUS
<1> QED BY <1>1

(* The colour of a swept object: white, whatever it was. *)
LEMMA SweepColorType ==
    ASSUME TypeOK, NEW S
    PROVE  SweepColor(S) \in [Obj -> Colors]
  BY DEF TypeOK, SweepColor, Colors, White

-----------------------------------------------------------------------------
(* Types: one lemma for each operator that several actions share.          *)

(* The variables that a traversal writes. *)
TraversedType ==
    /\ color' \in [Obj -> Colors]
    /\ key' \in [Obj -> [Slot -> Ref]]
    /\ gray' \subseteq Obj /\ grayagain' \subseteq Obj
    /\ weak' \subseteq Obj /\ ephemeron' \subseteq Obj /\ allweak' \subseteq Obj

LEMMA MarkType ==
    ASSUME TypeOK, NEW S, Mark(S)
    PROVE  color' \in [Obj -> Colors] /\ gray' \subseteq Obj
<1>1. Marks(S) \subseteq Obj
  BY MarksWhite
<1>2. gray' \subseteq Obj
  BY <1>1 DEF TypeOK, Mark, ToGray
<1> QED BY <1>2, MarkedColors DEF Mark

LEMMA TraverseStrongType ==
    ASSUME TypeOK, NEW o \in Obj, TraverseStrong(o)
    PROVE  TraversedType
<1> DEFINE M == Marks(Refs(o))
<1>1. M \subseteq Obj
  BY MarksWhite
<1>2. Marked(M) \in [Obj -> Colors]
  BY MarkedColors
<1>3. color' \in [Obj -> Colors]
  <2>1. color' = [Marked(M) EXCEPT ![o] = IF Kind[o] = "thread" THEN "gray" ELSE "black"]
    BY DEF TraverseStrong
  <2> HIDE DEF M
  <2> QED BY <1>2, <2>1 DEF Colors
<1>4. key' \in [Obj -> [Slot -> Ref]]
  <2>1. LiveKeys(o) \in [Slot -> Ref]
    BY LiveKeysType
  <2> QED BY <2>1 DEF TypeOK, TraverseStrong
<1>5. gray' \subseteq Obj /\ grayagain' \subseteq Obj
  BY <1>1 DEF TypeOK, TraverseStrong, ToGray
<1>6. weak' \subseteq Obj /\ ephemeron' \subseteq Obj /\ allweak' \subseteq Obj
  BY DEF TypeOK, TraverseStrong
<1> QED BY <1>3, <1>4, <1>5, <1>6 DEF TraversedType

LEMMA TraverseWeakValueType ==
    ASSUME TypeOK, NEW h \in Obj, TraverseWeakValue(h)
    PROVE  TraversedType
<1>1. PICK hasclears \in BOOLEAN, seen \in SUBSET Strings(Values(h)) :
        LET M == Marks(Keys(h) \cup seen) IN
        /\ color' = Marked(M)
        /\ gray' = (gray \ {h}) \cup ToGray(M)
        /\ key' = [key EXCEPT ![h] = LiveKeys(h)]
        /\ grayagain' = IF gcstate = "GCSpropagate" THEN grayagain \cup {h} ELSE grayagain
        /\ weak' = IF gcstate # "GCSpropagate" /\ hasclears THEN weak \cup {h} ELSE weak
        /\ UNCHANGED <<ephemeron, allweak>>
  BY DEF TraverseWeakValue
<1> DEFINE M == Marks(Keys(h) \cup seen)
<1>2. M \subseteq Obj
  BY MarksWhite
<1>3. color' \in [Obj -> Colors]
  BY <1>1, MarkedColors
<1>4. key' \in [Obj -> [Slot -> Ref]]
  <2>1. LiveKeys(h) \in [Slot -> Ref]
    BY LiveKeysType
  <2> QED BY <1>1, <2>1 DEF TypeOK
<1>5. gray' \subseteq Obj
  BY <1>1, <1>2 DEF TypeOK, ToGray
<1>6. /\ grayagain' \subseteq Obj /\ weak' \subseteq Obj
      /\ ephemeron' \subseteq Obj /\ allweak' \subseteq Obj
  BY <1>1 DEF TypeOK
<1> QED BY <1>3, <1>4, <1>5, <1>6 DEF TraversedType

LEMMA TraverseEphemeronType ==
    ASSUME TypeOK, NEW h \in Obj, TraverseEphemeron(h)
    PROVE  TraversedType
<1>1. EphemeronMarks(h) \subseteq Obj
  BY MarksWhite DEF EphemeronMarks
<1>2. color' \in [Obj -> Colors]
  BY MarkedColors DEF TraverseEphemeron
<1>3. key' \in [Obj -> [Slot -> Ref]]
  <2>1. LiveKeys(h) \in [Slot -> Ref]
    BY LiveKeysType
  <2> QED BY <2>1 DEF TypeOK, TraverseEphemeron
<1>4. gray' \subseteq Obj
  BY <1>1 DEF TypeOK, TraverseEphemeron, ToGray
<1>5. /\ grayagain' \subseteq Obj /\ weak' \subseteq Obj
      /\ ephemeron' \subseteq Obj /\ allweak' \subseteq Obj
  BY DEF TypeOK, TraverseEphemeron
<1> QED BY <1>2, <1>3, <1>4, <1>5 DEF TraversedType

LEMMA PropagateMarkType ==
    ASSUME TypeOK, NEW o, PropagateMark(o)
    PROVE  TraversedType
<1>1. o \in Obj
  BY DEF TypeOK, PropagateMark
<1>2. CASE TraverseAllWeak(o)
  BY <1>1, <1>2 DEF TypeOK, TraverseAllWeak, TraversedType, Colors
<1>3. \/ TraverseStrong(o) \/ TraverseWeakValue(o)
      \/ TraverseEphemeron(o) \/ TraverseAllWeak(o)
  BY DEF PropagateMark
<1> QED BY <1>1, <1>2, <1>3, TraverseStrongType, TraverseWeakValueType, TraverseEphemeronType

LEMMA ClearTablesType ==
    ASSUME TypeOK, NEW CK, NEW CV, ClearTables(CK, CV)
    PROVE  /\ color' \in [Obj -> Colors]
           /\ key' \in [Obj -> [Slot -> Ref]] /\ val' \in [Obj -> [Slot -> Ref]]
           /\ UNCHANGED <<mode, mt>>
<1>1. color' \in [Obj -> Colors]
  BY MarkedColors DEF ClearTables
<1>2. val' \in [Obj -> [Slot -> Ref]]
  BY DEF TypeOK, ClearTables, Ref
<1>3. key' \in [Obj -> [Slot -> Ref]]
  BY DEF TypeOK, ClearTables, Ref
<1> QED BY <1>1, <1>2, <1>3 DEF ClearTables

LEMMA SweepType ==
    ASSUME TypeOK, NEW S, Sweep(S)
    PROVE  /\ color' \in [Obj -> Colors]
           /\ key' \in [Obj -> [Slot -> Ref]] /\ val' \in [Obj -> [Slot -> Ref]]
           /\ mode' \in [Obj -> Modes] /\ mt' \in Ref
           /\ allgc' \subseteq Obj /\ finobj' \subseteq Finalizable
           /\ tobefnz' \subseteq Finalizable
<1>1. color' \in [Obj -> Colors]
  BY SweepColorType DEF Sweep
<1>2. key' \in [Obj -> [Slot -> Ref]] /\ val' \in [Obj -> [Slot -> Ref]]
  BY DEF TypeOK, Sweep, Ref
<1>3. mode' \in [Obj -> Modes] /\ mt' \in Ref
  BY ObjAssumption DEF ObjAssumption, TypeOK, Sweep
<1>4. /\ allgc' \subseteq Obj /\ finobj' \subseteq Finalizable
      /\ tobefnz' \subseteq Finalizable
  BY DEF TypeOK, Sweep
<1> QED BY <1>1, <1>2, <1>3, <1>4


LEMMA BarrierBackType ==
    ASSUME TypeOK, NEW t \in Obj, NEW R, BarrierBack(t, R)
    PROVE  color' \in [Obj -> Colors] /\ grayagain' \subseteq Obj
  BY DEF TypeOK, BarrierBack, Colors

LEMMA BarrierType ==
    ASSUME TypeOK, NEW o \in Obj, NEW v, Barrier(o, v)
    PROVE  color' \in [Obj -> Colors] /\ gray' \subseteq Obj
<1>1. CASE Mark({v})
  BY <1>1, MarkType
<1>2. CASE ~Mark({v})
  BY <1>2 DEF TypeOK, Barrier, Colors
<1> QED BY <1>1, <1>2

-----------------------------------------------------------------------------
(* Type correctness.                                                       *)

LEMMA TypeInit ==
    ASSUME Init
    PROVE  TypeOK
<1>1. color \in [Obj -> White \cup {"gray", "black"}]
  BY DEF Init, White
<1>2. /\ key \in [Obj -> [Slot -> Ref]] /\ val \in [Obj -> [Slot -> Ref]]
      /\ mode \in [Obj -> Modes]
  BY ObjAssumption DEF ObjAssumption, Init, Ref
<1> QED BY <1>1, <1>2, ObjAssumption DEF ObjAssumption, Init, TypeOK, White, Ref

LEMMA TypeCollector ==
    ASSUME TypeOK, Collector
    PROVE  TypeOK'
<1> USE DEF Colors
<1>1. CASE RestartCollection
  <2>1. Marks(Roots \cup tobefnz) \subseteq Obj
    BY MarksWhite
  <2>2. color' \in [Obj -> Colors] /\ gray' \subseteq Obj
    BY <1>1, <2>1, MarkedColors DEF RestartCollection, ToGray
  <2> QED BY <1>1, <2>2 DEF TypeOK, RestartCollection, cells, lists, locals
<1>2. CASE Propagate
  <2>1. PICK o \in gray : PropagateMark(o)
    BY <1>2 DEF Propagate
  <2> QED BY <1>2, <2>1, PropagateMarkType
          DEF TypeOK, TraversedType, Propagate, PropagateMark, lists, locals
<1>3. CASE AtomicBegin
  BY <1>3 DEF TypeOK, AtomicBegin, control, cells, lists, graylists, locals
<1>4. CASE AtomicPropagate
  <2>1. PICK o \in gray : PropagateMark(o)
    BY <1>4 DEF AtomicPropagate
  <2> QED BY <1>4, <2>1, PropagateMarkType
          DEF TypeOK, TraversedType, AtomicPropagate, PropagateMark, control, lists, locals
<1>5. CASE AtomicRoots
  BY <1>5, MarkType DEF TypeOK, AtomicRoots, cells, lists
<1>6. CASE AtomicGrayAgain
  BY <1>6 DEF TypeOK, AtomicGrayAgain, control, cells, lists
<1>7. CASE ConvergeRound
  BY <1>7 DEF TypeOK, ConvergeRound, control, cells, lists
<1>8. CASE ConvergeTable
  <2>1. PICK w \in todo :
          /\ todo' = todo \ {w}
          /\ TraverseEphemeron(w)
          /\ changed' = (changed \/ \E r \in Released(w) : WhiteRef(r))
    BY <1>8 DEF ConvergeTable
  <2>2. TraversedType
    BY <2>1, TraverseEphemeronType DEF TypeOK
  <2>3. changed' \in BOOLEAN
    BY <2>1 DEF TypeOK
  <2> QED BY <1>8, <2>1, <2>2, <2>3 DEF TypeOK, TraversedType, ConvergeTable, control, lists
<1>9. CASE AtomicClearValues
  BY <1>9, ClearTablesType DEF TypeOK, AtomicClearValues, control, lists, graylists
<1>10. CASE AtomicSeparate
  BY <1>10, MarkType DEF TypeOK, AtomicSeparate, control, cells, locals
<1>11. CASE AtomicClearRest
  BY <1>11, ClearTablesType DEF TypeOK, AtomicClearRest, control, lists, graylists, locals
<1>12. CASE AtomicFlip
  BY <1>12 DEF TypeOK, AtomicFlip, cells, lists, graylists, locals, White, OtherWhite
<1>13. CASE EnterSweep
  <2>1. PICK first \in allgc : Sweep({first}) /\ unswept' = allgc \ {first}
    BY <1>13 DEF EnterSweep
  <2> QED BY <1>13, <2>1, SweepType DEF TypeOK, EnterSweep
<1>14. CASE SweepStep
  <2>1. PICK S \in SUBSET unswept :
          /\ Sweep(S)
          /\ IF S # unswept
             THEN unswept' = unswept \ S /\ gcstate' = gcstate
             ELSE \/ gcstate' = "GCSswpfinobj" /\ unswept' = finobj
                  \/ gcstate' = "GCSswptobefnz" /\ unswept' = tobefnz
                  \/ gcstate' = "GCSswpend" /\ unswept' = {}
    BY <1>14 DEF SweepStep
  <2>2. unswept' \subseteq Obj
    BY <2>1, ObjAssumption DEF ObjAssumption, TypeOK
  <2> QED BY <1>14, <2>1, <2>2, SweepType DEF TypeOK, SweepStep, graylists, locals
<1>15. CASE SweepEnd
  BY <1>15 DEF TypeOK, SweepEnd, cells, lists, graylists, locals
<1>16. CASE CallFinalizer
  <2>1. PICK o \in tobefnz :
          /\ tobefnz' = tobefnz \ {o} /\ allgc' = allgc \cup {o}
          /\ color' = IF SweepPhase THEN [color EXCEPT ![o] = currentwhite] ELSE color
          /\ unswept' = UnsweptWithout(o)
          /\ \/ \E s \in Top(MainThread) : val' = [val EXCEPT ![MainThread][s] = o]
             \/ val' = val
    BY <1>16 DEF CallFinalizer
  <2>2. o \in Obj
    BY ObjAssumption DEF ObjAssumption, TypeOK
  <2>3. val' \in [Obj -> [Slot -> Ref]]
    <3>1. CASE val' = val
      BY <3>1 DEF TypeOK
    <3>2. CASE \E s \in Top(MainThread) : val' = [val EXCEPT ![MainThread][s] = o]
      BY <2>2, <3>2, PutType, TopType, ObjAssumption DEF ObjAssumption, TypeOK, Ref
    <3> QED BY <2>1, <3>1, <3>2
  <2>4. allgc' \subseteq Obj /\ unswept' \subseteq Obj
    BY <2>1, <2>2 DEF TypeOK, UnsweptWithout
  <2>5. color' \in [Obj -> Colors]
    BY <2>1 DEF TypeOK
  <2> QED BY <1>16, <2>1, <2>3, <2>4, <2>5 DEF TypeOK, CallFinalizer, control, graylists, locals
<1>17. CASE CallFinDone
  BY <1>17 DEF TypeOK, CallFinDone, cells, lists, graylists, locals
<1>18. CASE FullGCDone
  BY <1>18 DEF TypeOK, FullGCDone, cells, lists, graylists, locals
<1> QED BY <1>1, <1>2, <1>3, <1>4, <1>5, <1>6, <1>7, <1>8, <1>9, <1>10, <1>11, <1>12,
           <1>13, <1>14, <1>15, <1>16, <1>17, <1>18, Collector DEF Collector

LEMMA TypeProgram ==
    ASSUME TypeOK, Program
    PROVE  TypeOK'
<1> USE DEF Colors
<1>1. CASE NewObject
  <2>1. PICK o \in Obj \ Heap, s \in Top(MainThread) :
          /\ val' = [val EXCEPT ![MainThread][s] = o]
          /\ color' = [color EXCEPT ![o] = currentwhite]
          /\ allgc' = allgc \cup {o}
    BY <1>1 DEF NewObject
  <2>2. val' \in [Obj -> [Slot -> Ref]]
    BY <2>1, PutType, TopType, ObjAssumption DEF ObjAssumption, TypeOK, Ref
  <2>3. color' \in [Obj -> Colors]
    BY <2>1 DEF TypeOK
  <2> QED BY <1>1, <2>1, <2>2, <2>3 DEF TypeOK, NewObject, control, graylists, locals
<1>2. CASE Push
  <2>1. \E th \in {MainThread} \cup Operands, r \in Readable : \E s \in Top(th) :
          val' = [val EXCEPT ![th][s] = r]
    BY <1>2 DEF Push
  <2>2. val' \in [Obj -> [Slot -> Ref]]
    BY <2>1, OperandsType, PutType, TopType, ObjAssumption DEF ObjAssumption, TypeOK, Ref
  <2> QED BY <1>2, <2>2 DEF TypeOK, Push, control, lists, graylists, locals
<1>3. CASE Pop
  <2>1. \E th \in {MainThread} \cup Operands, s \in Slot :
          val' = [val EXCEPT ![th][s] = Nil]
    BY <1>3 DEF Pop, Entries
  <2>2. val' \in [Obj -> [Slot -> Ref]]
    BY <2>1, OperandsType, PutType, ObjAssumption DEF ObjAssumption, TypeOK, Ref
  <2> QED BY <1>3, <2>2 DEF TypeOK, Pop, control, lists, graylists, locals
<1>4. CASE TableSet
  <2>1. PICK t \in Operands, v \in Values(MainThread) \cup {Nil}, s \in Slot,
             k \in Values(MainThread) \cup {Nil} :
          /\ key' = [key EXCEPT ![t][s] = k]
          /\ val' = [val EXCEPT ![t][s] = v]
          /\ BarrierBack(t, {k, v})
    <3>1. PICK t \in Operands, v \in Values(MainThread) \cup {Nil} :
            \E s \in Cell[t], k \in IF t \in Keyed THEN Values(MainThread) ELSE {Nil} :
              /\ key' = [key EXCEPT ![t][s] = k]
              /\ val' = [val EXCEPT ![t][s] = v]
              /\ BarrierBack(t, {k, v})
      BY <1>4 DEF TableSet
    <3>2. Cell[t] \subseteq Slot
      BY OperandsType, ObjAssumption DEF ObjAssumption
    <3> QED BY <3>1, <3>2
  <2>2. t \in Obj /\ v \in Ref /\ k \in Ref
    BY OperandsType, RefsType, ObjAssumption DEF ObjAssumption, Ref
  <2>3. key' \in [Obj -> [Slot -> Ref]] /\ val' \in [Obj -> [Slot -> Ref]]
    BY <2>1, <2>2, PutType DEF TypeOK
  <2>4. color' \in [Obj -> Colors] /\ grayagain' \subseteq Obj
    BY <2>1, <2>2, BarrierBackType
  <2> QED BY <1>4, <2>3, <2>4 DEF TypeOK, TableSet, control, lists, locals
<1>5. CASE SetField
  <2>1. PICK o \in Operands, v \in Values(MainThread) \cup {Nil} :
          \E s \in Cell[o] : val' = [val EXCEPT ![o][s] = v] /\ Barrier(o, v)
    BY <1>5 DEF SetField
  <2>2. o \in Obj /\ v \in Ref /\ Cell[o] \subseteq Slot
    BY OperandsType, RefsType, ObjAssumption DEF ObjAssumption, Ref
  <2>3. val' \in [Obj -> [Slot -> Ref]]
    BY <2>1, <2>2, PutType DEF TypeOK
  <2>4. color' \in [Obj -> Colors] /\ gray' \subseteq Obj
    BY <2>1, <2>2, BarrierType
  <2> QED BY <1>5, <2>3, <2>4 DEF TypeOK, SetField, control, lists, locals
<1>6. CASE SetMode
  <2>1. PICK t \in Obj, m \in Modes : mode' = [mode EXCEPT ![t] = m]
    BY <1>6, OperandsType DEF SetMode
  <2>2. mode' \in [Obj -> Modes]
    BY <2>1 DEF TypeOK
  <2>3. UNCHANGED <<control, color, key, val, mt, lists, graylists, unswept, pc, locals>>
    BY <1>6 DEF SetMode
  <2> QED BY <2>2, <2>3 DEF TypeOK, control, lists, graylists, locals
<1>7. CASE SetGlobalMetatable
  <2>1. mt' \in Ref
    BY <1>7, OperandsType DEF SetGlobalMetatable, Ref
  <2> QED BY <1>7, <2>1 DEF TypeOK, SetGlobalMetatable, control, lists, graylists, locals
<1>8. CASE CheckFinalizer
  <2>1. PICK o \in Operands \cap Finalizable \cap allgc, S \in SUBSET unswept :
          LET D == {d \in S : IsDead(d)} IN
          /\ allgc' = allgc \ (D \cup {o})
          /\ finobj' = finobj \cup {o}
          /\ unswept' = unswept \ (S \cup {o})
          /\ color' = IF SweepPhase THEN [SweepColor(S) EXCEPT ![o] = currentwhite] ELSE color
          /\ key' = [d \in Obj |-> IF d \in D THEN [s \in Slot |-> Nil] ELSE key[d]]
          /\ val' = [d \in Obj |-> IF d \in D THEN [s \in Slot |-> Nil] ELSE val[d]]
          /\ mode' = [d \in Obj |-> IF d \in D THEN "strong" ELSE mode[d]]
    BY <1>8 DEF CheckFinalizer
  <2>2. color' \in [Obj -> Colors]
    BY <2>1, SweepColorType DEF TypeOK
  <2>3. key' \in [Obj -> [Slot -> Ref]] /\ val' \in [Obj -> [Slot -> Ref]]
    BY <2>1 DEF TypeOK, Ref
  <2>4. mode' \in [Obj -> Modes]
    BY <2>1, ObjAssumption DEF ObjAssumption, TypeOK
  <2>5. finobj' \subseteq Finalizable /\ allgc' \subseteq Obj /\ unswept' \subseteq Obj
    BY <2>1 DEF TypeOK
  <2> QED BY <1>8, <2>2, <2>3, <2>4, <2>5
          DEF TypeOK, CheckFinalizer, control, graylists, locals
<1>9. CASE FullGC
  BY <1>9, ObjAssumption DEF ObjAssumption, TypeOK, FullGC, cells, lists, graylists, locals
<1> QED BY <1>1, <1>2, <1>3, <1>4, <1>5, <1>6, <1>7, <1>8, <1>9, Program DEF Program

(* Every variable keeps its type: the lists hold objects, only finalizable *)
(* ones wait in finobj and tobefnz, cells hold objects or nil.             *)
THEOREM TypeCorrect == Spec => []TypeOK
<1>1. ASSUME TypeOK, UNCHANGED vars PROVE TypeOK'
  BY <1>1 DEF TypeOK, vars, control, cells, lists, graylists, locals
<1>2. TypeOK /\ [Next]_vars => TypeOK'
  BY <1>1, TypeCollector, TypeProgram DEF Next
<1> QED BY <1>2, TypeInit, PTL DEF Spec

-----------------------------------------------------------------------------
(* Dead objects.  What the proof of DeadAhead needs besides the colours is *)
(* where the collector is, and that by the end of the atomic phase the     *)
(* main thread and the objects with finalizers are marked.                 *)

PcInv ==
    /\ pc = "idle" => gcstate # "GCSinsideatomic"
    /\ pc = "propagateall" => gcstate = "GCSatomic"
    /\ pc = "entersweep" => gcstate \in {"GCSinsideatomic", "GCSpropagate", "GCSatomic"}
    /\ pc \notin {"idle", "propagateall", "entersweep"} => gcstate = "GCSinsideatomic"

MarkedInv ==
    /\ pc \notin {"idle", "propagateall", "entersweep"} => ~IsWhite(MainThread)
    /\ pc \in {"resurrect", "converge2", "flip"} => \A o \in finobj \cup tobefnz : ~IsWhite(o)

DeadInv ==
    \A o \in Heap : IsDead(o) =>
        /\ o \in allgc /\ o \notin finobj \cup tobefnz
        /\ \/ gcstate = "GCSswpallgc" /\ o \in unswept
           \/ gcstate = "GCSinsideatomic" /\ pc = "entersweep"

(* An object is in one of the lists only; g->mainthread, which is not      *)
(* collectable, is in none of them.                                        *)
ListsApart ==
    /\ MainThread \notin allgc \cup finobj \cup tobefnz
    /\ allgc \cap finobj = {} /\ allgc \cap tobefnz = {} /\ finobj \cap tobefnz = {}

SweepInv == ListsApart /\ PcInv /\ MarkedInv /\ DeadInv

(* A step of the collector or of the program after which every white object*)
(* has the colour it had before.                                           *)
NoNewWhite == \A x \in Obj : color'[x] \in White => color'[x] = color[x]

LEMMA HeapType == TypeOK => Heap \subseteq Obj
  BY ObjAssumption DEF ObjAssumption, TypeOK, Heap

LEMMA MarkNoNewWhite ==
    ASSUME TypeOK, NEW S, Mark(S)
    PROVE  NoNewWhite /\ \A x \in S \cap Obj : color'[x] \notin White
<1>1. NoNewWhite
  BY MarkedColors DEF Mark, NoNewWhite, White
<1>2. ASSUME NEW x \in S \cap Obj, IsWhite(x) PROVE x \in Marks(S)
  BY <1>2 DEF Marks
<1>3. ASSUME NEW x \in S \cap Obj PROVE color'[x] \notin White
  BY <1>2, <1>3, MarkedColors DEF Mark, IsWhite, White
<1> QED BY <1>1, <1>3

LEMMA EphemeronNoNewWhite ==
    ASSUME TypeOK, NEW h, TraverseEphemeron(h)
    PROVE  NoNewWhite
  BY MarkedColors DEF TraverseEphemeron, NoNewWhite, White

LEMMA PropagateNoNewWhite ==
    ASSUME TypeOK, NEW o, PropagateMark(o)
    PROVE  NoNewWhite
<1>1. CASE TraverseStrong(o)
  <2> DEFINE M == Marks(Refs(o))
  <2>1. color' = [Marked(M) EXCEPT ![o] = IF Kind[o] = "thread" THEN "gray" ELSE "black"]
    BY <1>1 DEF TraverseStrong
  <2>2. Marked(M) \in [Obj -> Colors]
    BY MarkedColors
  <2>3. \A x \in Obj : Marked(M)[x] \in White => Marked(M)[x] = color[x]
    BY MarkedColors DEF White
  <2> HIDE DEF M
  <2> QED BY <2>1, <2>2, <2>3 DEF NoNewWhite, White
<1>2. CASE TraverseWeakValue(o)
  <2>1. \E M : color' = Marked(M)
    BY <1>2 DEF TraverseWeakValue
  <2> QED BY <2>1, MarkedColors DEF NoNewWhite, White
<1>3. CASE TraverseEphemeron(o)
  BY <1>3, EphemeronNoNewWhite
<1>4. CASE TraverseAllWeak(o)
  BY <1>4 DEF TraverseAllWeak, NoNewWhite
<1> QED BY <1>1, <1>2, <1>3, <1>4 DEF PropagateMark

LEMMA ClearNoNewWhite ==
    ASSUME TypeOK, NEW CK, NEW CV, ClearTables(CK, CV)
    PROVE  NoNewWhite
  BY MarkedColors DEF ClearTables, NoNewWhite, White

LEMMA BarrierBackNoNewWhite ==
    ASSUME TypeOK, NEW t, NEW R, BarrierBack(t, R)
    PROVE  NoNewWhite
  BY DEF TypeOK, BarrierBack, NoNewWhite, White

(* A barrier outside the marking phases may give a black object the        *)
(* current white.                                                          *)
LEMMA BarrierWhite ==
    ASSUME TypeOK, NEW o, NEW v, Barrier(o, v)
    PROVE  /\ KeepInvariant => NoNewWhite
           /\ \A x \in Obj : color'[x] \in White => color'[x] \in {color[x], currentwhite}
<1>1. CASE Mark({v})
  BY <1>1, MarkNoNewWhite DEF NoNewWhite
<1>2. CASE ~Mark({v})
  BY <1>2 DEF TypeOK, Barrier, NoNewWhite, White
<1> QED BY <1>1, <1>2

LEMMA SweepInit == Init => SweepInv
  BY HeapType, ObjAssumption
     DEF ObjAssumption, Init, SweepInv, PcInv, MarkedInv, DeadInv, ListsApart, IsDead,
         OtherWhite, Heap


(* Steps that free nothing and turn nothing white, outside the transitions *)
(* into and out of the states with dead objects.                           *)
LEMMA DeadKept ==
    ASSUME TypeOK, DeadInv, NoNewWhite,
           UNCHANGED <<currentwhite, allgc, finobj, tobefnz, unswept>>,
           \/ gcstate' = gcstate /\ pc' = pc
           \/ gcstate # "GCSswpallgc" /\ pc # "entersweep"
    PROVE  DeadInv'
<1>1. Heap' = Heap /\ Heap \subseteq Obj
  BY HeapType DEF Heap
<1>2. \A o \in Heap : IsDead(o)' => IsDead(o)
  BY <1>1 DEF TypeOK, IsDead, NoNewWhite, White, OtherWhite
<1> QED BY <1>1, <1>2 DEF DeadInv

LEMMA MarkedKept ==
    ASSUME TypeOK, MarkedInv, NoNewWhite,
           UNCHANGED <<finobj, tobefnz>>,
           \/ pc' \in {pc, "idle", "propagateall", "entersweep"}
           \/ /\ pc \notin {"idle", "propagateall", "entersweep"}
              /\ \/ pc' \notin {"resurrect", "converge2", "flip"}
                 \/ pc \in {"resurrect", "converge2", "flip"}
    PROVE  MarkedInv'
<1>1. {MainThread} \cup finobj \cup tobefnz \subseteq Obj
  BY HeapType DEF Heap
<1>2. \A o \in Obj : IsWhite(o)' => IsWhite(o)
  BY DEF TypeOK, IsWhite, NoNewWhite
<1> QED BY <1>1, <1>2 DEF MarkedInv

LEMMA ListsApartStep ==
    ASSUME TypeOK, ListsApart, Next
    PROVE  ListsApart'
<1>1. CASE lists' = lists
  BY <1>1 DEF ListsApart, lists
<1>2. CASE AtomicSeparate
  BY <1>2 DEF AtomicSeparate, ListsApart
<1>3. CASE EnterSweep \/ SweepStep
  BY <1>3 DEF EnterSweep, SweepStep, Sweep, ListsApart
<1>4. CASE CallFinalizer
  BY <1>4 DEF CallFinalizer, ListsApart
<1>5. CASE NewObject
  BY <1>5 DEF NewObject, ListsApart, Heap
<1>6. CASE CheckFinalizer
  BY <1>6 DEF CheckFinalizer, ListsApart
<1>7. \/ lists' = lists \/ AtomicSeparate \/ EnterSweep \/ SweepStep \/ CallFinalizer
      \/ NewObject \/ CheckFinalizer
  BY DEF Next, Collector, Program, RestartCollection, Propagate, PropagateMark, AtomicBegin,
         AtomicPropagate, AtomicRoots, AtomicGrayAgain, ConvergeRound, ConvergeTable,
         AtomicClearValues, AtomicClearRest, AtomicFlip, SweepEnd, CallFinDone, FullGCDone,
         Push, Pop, TableSet, SetField, SetMode, SetGlobalMetatable, FullGC, lists
<1> QED BY <1>1, <1>2, <1>3, <1>4, <1>5, <1>6, <1>7

LEMMA SweepCollector ==
    ASSUME TypeOK, SweepInv, Collector
    PROVE  PcInv' /\ MarkedInv' /\ DeadInv'
<1> USE DEF SweepInv
<1>1. CASE RestartCollection
  <2>1. NoNewWhite
    BY <1>1, MarkedColors DEF RestartCollection, NoNewWhite, White
  <2>2. PcInv'
    BY <1>1 DEF RestartCollection, PcInv
  <2> QED BY <1>1, <2>1, <2>2, DeadKept, MarkedKept DEF RestartCollection, lists
<1>2. CASE Propagate
  <2>1. PICK o \in gray : PropagateMark(o)
    BY <1>2 DEF Propagate
  <2>2. NoNewWhite
    BY <2>1, PropagateNoNewWhite
  <2>3. PcInv'
    BY <1>2 DEF Propagate, PcInv
  <2> QED BY <1>2, <2>1, <2>2, <2>3, DeadKept, MarkedKept DEF Propagate, PropagateMark, lists
<1>3. CASE AtomicBegin
  <2>1. PcInv' /\ NoNewWhite
    BY <1>3 DEF AtomicBegin, PcInv, control, NoNewWhite
  <2> QED BY <1>3, <2>1, DeadKept, MarkedKept DEF AtomicBegin, control, lists
<1>4. CASE AtomicPropagate
  <2>1. PICK o \in gray : PropagateMark(o)
    BY <1>4 DEF AtomicPropagate
  <2>2. PcInv' /\ NoNewWhite
    BY <1>4, <2>1, PropagateNoNewWhite DEF AtomicPropagate, PcInv, control
  <2> QED BY <1>4, <2>1, <2>2, DeadKept, MarkedKept
          DEF AtomicPropagate, PropagateMark, control, lists
<1>5. CASE AtomicRoots
  <2>1. NoNewWhite /\ ~IsWhite(MainThread)'
    <3>1. MainThread \in Roots \cap Obj
      BY ObjAssumption DEF ObjAssumption, Roots
    <3> QED BY <1>5, <3>1, MarkNoNewWhite DEF AtomicRoots, IsWhite
  <2>2. PcInv' /\ MarkedInv'
    BY <1>5, <2>1 DEF AtomicRoots, PcInv, MarkedInv
  <2>3. DeadInv'
    BY <1>5, <2>1, DeadKept DEF AtomicRoots, lists, PcInv
  <2> QED BY <2>2, <2>3
<1>6. CASE AtomicGrayAgain
  <2>1. PcInv' /\ NoNewWhite
    BY <1>6 DEF AtomicGrayAgain, PcInv, control, NoNewWhite
  <2> QED BY <1>6, <2>1, DeadKept, MarkedKept DEF AtomicGrayAgain, control, lists, PcInv
<1>7. CASE ConvergeRound
  <2>1. PcInv' /\ NoNewWhite
    BY <1>7 DEF ConvergeRound, PcInv, control, NoNewWhite
  <2> QED BY <1>7, <2>1, DeadKept, MarkedKept DEF ConvergeRound, control, lists, PcInv
<1>8. CASE ConvergeTable
  <2>1. PcInv' /\ NoNewWhite
    BY <1>8, EphemeronNoNewWhite DEF ConvergeTable, PcInv, control
  <2> QED BY <1>8, <2>1, DeadKept, MarkedKept DEF ConvergeTable, control, lists, PcInv
<1>9. CASE AtomicClearValues
  <2>1. PcInv' /\ NoNewWhite
    BY <1>9, ClearNoNewWhite DEF AtomicClearValues, PcInv, control
  <2> QED BY <1>9, <2>1, DeadKept, MarkedKept DEF AtomicClearValues, control, lists, PcInv
<1>10. CASE AtomicSeparate
  <2>1. NoNewWhite /\ \A x \in tobefnz' : ~IsWhite(x)'
    <3>1. tobefnz' \subseteq Obj
      BY <1>10, HeapType DEF AtomicSeparate, Heap
    <3> QED BY <1>10, <3>1, MarkNoNewWhite DEF AtomicSeparate, IsWhite
  <2>2. \A x \in finobj' : ~IsWhite(x)'
    BY <1>10, <2>1, HeapType DEF AtomicSeparate, Heap, IsWhite, NoNewWhite
  <2>3. ~IsWhite(MainThread)'
    BY <1>10, <2>1, HeapType DEF AtomicSeparate, Heap, IsWhite, NoNewWhite, MarkedInv
  <2>4. PcInv' /\ MarkedInv'
    BY <1>10, <2>1, <2>2, <2>3 DEF AtomicSeparate, PcInv, MarkedInv, control
  <2>5. Heap' = Heap /\ gcstate # "GCSswpallgc"
    BY <1>10 DEF AtomicSeparate, Heap, PcInv
  <2>6. \A o \in Heap : IsDead(o)' => IsDead(o)
    BY <1>10, <2>1, HeapType
       DEF TypeOK, AtomicSeparate, control, IsDead, NoNewWhite, White, OtherWhite
  <2>7. DeadInv'
    BY <1>10, <2>5, <2>6 DEF AtomicSeparate, DeadInv
  <2> QED BY <2>4, <2>7
<1>11. CASE AtomicClearRest
  <2>1. PcInv' /\ NoNewWhite
    BY <1>11, ClearNoNewWhite DEF AtomicClearRest, PcInv, control
  <2> QED BY <1>11, <2>1, DeadKept, MarkedKept DEF AtomicClearRest, control, lists, PcInv
<1>12. CASE AtomicFlip
  <2>1. PcInv' /\ MarkedInv'
    BY <1>12 DEF AtomicFlip, PcInv, MarkedInv
  <2>2. ASSUME NEW o \in Heap', IsDead(o)'
        PROVE  o \in allgc' /\ o \notin finobj' \cup tobefnz'
    <3>1. o \in Heap /\ IsWhite(o)
      BY <1>12, <2>2 DEF TypeOK, AtomicFlip, lists, Heap, IsDead, IsWhite, OtherWhite, White
    <3> QED BY <1>12, <3>1 DEF AtomicFlip, lists, Heap, MarkedInv
  <2>3. DeadInv'
    BY <1>12, <2>2 DEF AtomicFlip, DeadInv, PcInv
  <2> QED BY <2>1, <2>3
<1>13. CASE EnterSweep
  <2>1. PICK first \in allgc : Sweep({first}) /\ unswept' = allgc \ {first}
    BY <1>13 DEF EnterSweep
  <2>2. PcInv' /\ MarkedInv'
    BY <1>13 DEF EnterSweep, PcInv, MarkedInv
  <2>3. ASSUME NEW o \in Heap', IsDead(o)'
        PROVE  o \in allgc' \cap unswept' /\ o \notin finobj' \cup tobefnz'
    <3>1. o \in Heap /\ o \in Obj
      BY <2>1, HeapType DEF Heap, Sweep
    <3>2. CASE o = first
      <4>1. ~IsDead(first)
        BY <1>13, <2>1, <2>3, <3>1, <3>2
           DEF TypeOK, Sweep, SweepColor, IsDead, OtherWhite, White, Heap, ListsApart,
               EnterSweep
      <4> QED BY <1>13, <2>1, <2>3, <3>1, <3>2, <4>1
              DEF TypeOK, EnterSweep, Sweep, SweepColor, IsDead, OtherWhite, White
    <3>3. CASE o # first
      <4>1. IsDead(o)
        BY <1>13, <2>1, <2>3, <3>1, <3>3 DEF EnterSweep, Sweep, SweepColor, IsDead
      <4>2. o \in allgc /\ o \notin finobj \cup tobefnz
        BY <1>13, <3>1, <4>1 DEF DeadInv, EnterSweep, PcInv
      <4> QED BY <2>1, <3>3, <4>2 DEF Sweep
    <3> QED BY <3>2, <3>3
  <2>4. DeadInv'
    BY <1>13, <2>3 DEF EnterSweep, DeadInv
  <2> QED BY <2>2, <2>4
<1>14. CASE SweepStep
  <2>1. PICK S \in SUBSET unswept :
          /\ Sweep(S)
          /\ \/ unswept' = unswept \ S /\ gcstate' = gcstate
             \/ S = unswept /\ gcstate' \in {"GCSswpfinobj", "GCSswptobefnz", "GCSswpend"}
    BY <1>14 DEF SweepStep
  <2>2. PcInv' /\ MarkedInv'
    BY <1>14, <2>1 DEF SweepStep, PcInv, MarkedInv
  <2>3. ASSUME NEW o \in Heap', IsDead(o)'
        PROVE  /\ o \in Heap /\ IsDead(o) /\ o \notin S
               /\ o \in allgc => o \in allgc'
               /\ finobj' \cup tobefnz' \subseteq finobj \cup tobefnz
    <3>1. o \in Heap /\ o \in Obj
      BY <2>1, HeapType DEF Heap, Sweep
    <3>2. o \notin S
      <4>1. SUFFICES ASSUME o \in S PROVE FALSE
        OBVIOUS
      <4>2. IsDead(o)
        BY <1>14, <2>1, <2>3, <3>1, <4>1
           DEF TypeOK, SweepStep, Sweep, SweepColor, IsDead, OtherWhite, White
      <4>3. o = MainThread
        BY <2>1, <2>3, <4>1, <4>2 DEF Sweep, Heap
      <4> QED BY <1>14, <3>1, <4>2, <4>3 DEF SweepStep, DeadInv, PcInv, ListsApart
    <3>3. IsDead(o)
      BY <1>14, <2>1, <2>3, <3>1, <3>2 DEF SweepStep, Sweep, SweepColor, IsDead
    <3> QED BY <2>1, <3>1, <3>2, <3>3 DEF Sweep
  <2>4. DeadInv'
    BY <1>14, <2>1, <2>3 DEF SweepStep, DeadInv, PcInv
  <2> QED BY <2>2, <2>4
<1>15. CASE SweepEnd
  <2>1. PcInv' /\ MarkedInv'
    BY <1>15 DEF SweepEnd, PcInv, MarkedInv
  <2>2. ASSUME NEW o \in Heap PROVE ~IsDead(o)'
    BY <1>15, <2>2, HeapType
       DEF TypeOK, SweepEnd, PcInv, DeadInv, IsDead, OtherWhite, White
  <2> QED BY <1>15, <2>1, <2>2 DEF SweepEnd, DeadInv, lists, Heap
<1>16. CASE CallFinalizer
  <2>1. PICK o \in tobefnz :
          /\ tobefnz' = tobefnz \ {o} /\ allgc' = allgc \cup {o}
          /\ color' = IF SweepPhase THEN [color EXCEPT ![o] = currentwhite] ELSE color
          /\ unswept' = UnsweptWithout(o)
    BY <1>16 DEF CallFinalizer
  <2>2. PcInv' /\ MarkedInv'
    BY <1>16 DEF CallFinalizer, PcInv, MarkedInv, control
  <2>3. ASSUME NEW x \in Heap', IsDead(x)'
        PROVE  /\ gcstate' = "GCSswpallgc" /\ x \in allgc' \cap unswept'
               /\ x \notin finobj' \cup tobefnz'
    <3>1. x \in Heap /\ x \in Obj
      BY <1>16, <2>1, HeapType DEF Heap, CallFinalizer
    <3>2. IsDead(x)
      BY <1>16, <2>1, <2>3, <3>1
         DEF TypeOK, CallFinalizer, control, IsDead, OtherWhite, White
    <3>3. /\ gcstate = "GCSswpallgc" /\ x \in allgc \cap unswept
          /\ x \notin finobj \cup tobefnz
      BY <1>16, <3>1, <3>2 DEF CallFinalizer, DeadInv, PcInv
    <3> QED BY <1>16, <2>1, <3>2, <3>3 DEF CallFinalizer, control, UnsweptWithout
  <2>4. DeadInv'
    BY <2>3 DEF DeadInv
  <2> QED BY <2>2, <2>4
<1>17. CASE CallFinDone
  <2>1. PcInv' /\ NoNewWhite
    BY <1>17 DEF CallFinDone, PcInv, NoNewWhite
  <2> QED BY <1>17, <2>1, DeadKept, MarkedKept DEF CallFinDone, lists
<1>18. CASE FullGCDone
  <2>1. PcInv' /\ NoNewWhite
    BY <1>18 DEF FullGCDone, PcInv, NoNewWhite
  <2> QED BY <1>18, <2>1, DeadKept, MarkedKept DEF FullGCDone, lists
<1> QED BY <1>1, <1>2, <1>3, <1>4, <1>5, <1>6, <1>7, <1>8, <1>9, <1>10, <1>11, <1>12,
           <1>13, <1>14, <1>15, <1>16, <1>17, <1>18, Collector DEF Collector

LEMMA SweepProgram ==
    ASSUME TypeOK, SweepInv, Program
    PROVE  PcInv' /\ MarkedInv' /\ DeadInv'
<1> USE DEF SweepInv
<1>1. CASE NewObject
  <2>1. PICK o \in Obj \ Heap :
          /\ color' = [color EXCEPT ![o] = currentwhite]
          /\ allgc' = allgc \cup {o}
    BY <1>1 DEF NewObject
  <2>2. PcInv' /\ MarkedInv'
    BY <1>1 DEF NewObject, ProgramRuns, PcInv, MarkedInv, control
  <2>3. ASSUME NEW x \in Heap', IsDead(x)' PROVE x \in Heap /\ IsDead(x)
    BY <1>1, <2>1, <2>3, HeapType
       DEF TypeOK, NewObject, control, Heap, IsDead, OtherWhite, White
  <2>4. DeadInv'
    BY <1>1, <2>1, <2>3 DEF NewObject, control, DeadInv
  <2> QED BY <2>2, <2>4
<1>2. CASE Push \/ Pop \/ SetMode \/ SetGlobalMetatable
  <2>1. PcInv' /\ NoNewWhite
    BY <1>2 DEF Push, Pop, SetMode, SetGlobalMetatable, PcInv, control, NoNewWhite
  <2> QED BY <1>2, <2>1, DeadKept, MarkedKept
          DEF Push, Pop, SetMode, SetGlobalMetatable, control, lists
<1>3. CASE TableSet
  <2>1. PcInv'
    BY <1>3 DEF TableSet, PcInv, control
  <2>2. NoNewWhite
    <3>1. \E t, R : BarrierBack(t, R)
      BY <1>3 DEF TableSet
    <3> QED BY <3>1, BarrierBackNoNewWhite
  <2> QED BY <1>3, <2>1, <2>2, DeadKept, MarkedKept DEF TableSet, control, lists
<1>4. CASE SetField
  <2>1. PICK o, v : Barrier(o, v)
    BY <1>4 DEF SetField
  <2>2. PcInv' /\ MarkedInv'
    BY <1>4 DEF SetField, ProgramRuns, PcInv, MarkedInv, control
  <2>3. ASSUME NEW x \in Heap', IsDead(x)' PROVE x \in Heap /\ IsDead(x)
    BY <1>4, <2>1, <2>3, BarrierWhite, HeapType
       DEF TypeOK, SetField, control, lists, Heap, IsDead, OtherWhite, White
  <2>4. DeadInv'
    BY <1>4, <2>3 DEF SetField, control, lists, DeadInv
  <2> QED BY <2>2, <2>4
<1>5. CASE CheckFinalizer
  <2>1. PICK o \in Operands \cap Finalizable \cap allgc, S \in SUBSET unswept :
          /\ S # {} => o \notin unswept /\ gcstate = "GCSswpallgc"
          /\ allgc' = allgc \ ({d \in S : IsDead(d)} \cup {o})
          /\ finobj' = finobj \cup {o}
          /\ unswept' = unswept \ (S \cup {o})
          /\ color' = IF SweepPhase THEN [SweepColor(S) EXCEPT ![o] = currentwhite] ELSE color
    BY <1>5 DEF CheckFinalizer
  <2>2. PcInv' /\ MarkedInv'
    BY <1>5 DEF CheckFinalizer, ProgramRuns, PcInv, MarkedInv, control
  <2>3. ASSUME NEW x \in Heap', IsDead(x)'
        PROVE  /\ gcstate' = "GCSswpallgc" /\ x \in allgc' \cap unswept'
               /\ x \notin finobj' \cup tobefnz'
    <3>1. x \in Heap /\ x \in Obj
      BY <1>5, <2>1, HeapType DEF Heap, CheckFinalizer
    <3>2. CASE ~SweepPhase
      <4>1. IsDead(x)
        BY <1>5, <2>1, <2>3, <3>2 DEF CheckFinalizer, control, IsDead
      <4> QED BY <1>5, <3>1, <3>2, <4>1
              DEF CheckFinalizer, ProgramRuns, DeadInv, PcInv, SweepPhase
    <3>3. CASE SweepPhase
      <4>1. x # o
        BY <1>5, <2>1, <2>3, <3>1, <3>3, SweepColorType
           DEF TypeOK, CheckFinalizer, control, IsDead, OtherWhite, White
      <4>2. color'[x] = SweepColor(S)[x]
        BY <2>1, <3>1, <3>3, <4>1, SweepColorType
      <4>3. IsDead(x)
        BY <1>5, <2>3, <3>1, <4>2
           DEF TypeOK, CheckFinalizer, control, SweepColor, IsDead, OtherWhite, White
      <4>4. /\ gcstate = "GCSswpallgc" /\ x \in allgc \cap unswept
            /\ x \notin finobj \cup tobefnz
        BY <1>5, <3>1, <4>3 DEF DeadInv, CheckFinalizer, ProgramRuns, PcInv
      <4>5. x \notin S
        BY <1>5, <2>1, <2>3, <4>1, <4>3, <4>4 DEF CheckFinalizer, Heap, ListsApart
      <4> QED BY <1>5, <2>1, <4>1, <4>4, <4>5 DEF CheckFinalizer, control
    <3> QED BY <3>2, <3>3
  <2>4. DeadInv'
    BY <2>3 DEF DeadInv
  <2> QED BY <2>2, <2>4
<1>6. CASE FullGC
  <2>1. NoNewWhite
    BY <1>6 DEF FullGC, NoNewWhite
  <2>2. PcInv'
    BY <1>6 DEF FullGC, ProgramRuns, KeepInvariant, PcInv
  <2>3. MarkedInv'
    BY <1>6, <2>1, MarkedKept DEF FullGC, lists
  <2>4. DeadInv'
    BY <1>6 DEF FullGC, ProgramRuns, lists, Heap, IsDead, OtherWhite, DeadInv, PcInv
  <2> QED BY <2>2, <2>3, <2>4
<1> QED BY <1>1, <1>2, <1>3, <1>4, <1>5, <1>6, Program DEF Program

LEMMA SweepInvariant == Spec => []SweepInv
<1>1. ASSUME TypeOK, SweepInv, UNCHANGED vars PROVE SweepInv'
  BY <1>1 DEF SweepInv, ListsApart, PcInv, MarkedInv, DeadInv, Heap, IsDead, IsWhite,
              vars, control, lists
<1>2. TypeOK /\ SweepInv /\ [Next]_vars => SweepInv'
  BY <1>1, ListsApartStep, SweepCollector, SweepProgram DEF Next, SweepInv
<1> QED BY <1>2, SweepInit, TypeCorrect, PTL DEF Spec

(* Between two steps of the collector, dead objects are only in allgc and  *)
(* only in the part of it that the sweep has not reached: none survives a  *)
(* sweep, and none is in finobj or tobefnz, whose objects finalizers see.  *)
THEOREM DeadOnlyAheadOfSweep == Spec => []DeadAhead
<1>1. SweepInv => DeadAhead
  BY DEF SweepInv, PcInv, DeadInv, DeadAhead
<1> QED BY <1>1, SweepInvariant, PTL

-----------------------------------------------------------------------------
(* The end of the sweep.  In each phase, the objects that do not have the  *)
(* current white yet are in what is left to sweep.                         *)

ToSweep(o) ==
    \/ SweepPhase /\ o = MainThread
    \/ gcstate = "GCSswpallgc" /\ o \in (allgc \cap unswept) \cup finobj \cup tobefnz
    \/ gcstate = "GCSswpfinobj" /\ o \in (finobj \cap unswept) \cup tobefnz
    \/ gcstate = "GCSswptobefnz" /\ o \in tobefnz \cap unswept

SweptInv ==
    /\ gcstate = "GCSswptobefnz" => tobefnz \subseteq unswept
    /\ gcstate \notin {"GCSpropagate", "GCSatomic", "GCSinsideatomic"} =>
         \A o \in Heap : color[o] = currentwhite \/ ToSweep(o)

(* Steps in which no object leaves the current white, outside the moves of *)
(* the sweep.                                                              *)
LEMMA SweptKept ==
    ASSUME TypeOK, SweptInv,
           UNCHANGED <<gcstate, currentwhite, finobj, tobefnz, unswept>>,
           allgc \subseteq allgc',
           \A x \in Heap' : /\ x \in Heap \/ color'[x] = currentwhite
                            /\ color[x] = currentwhite => color'[x] = currentwhite
    PROVE  SweptInv'
  BY DEF SweptInv, ToSweep, SweepPhase

LEMMA SweptCollector ==
    ASSUME TobefnzFits, TypeOK, SweepInv, SweptInv, Collector
    PROVE  SweptInv'
<1>1. CASE gcstate' \in {"GCSpropagate", "GCSatomic", "GCSinsideatomic"}
  BY <1>1 DEF SweptInv
<1>2. CASE EnterSweep
  <2>1. PICK first \in allgc : Sweep({first}) /\ unswept' = allgc \ {first}
    BY <1>2 DEF EnterSweep
  <2>2. ASSUME NEW o \in Heap' PROVE color'[o] = currentwhite \/ ToSweep(o)'
    <3>1. o \in Obj
      BY <2>1, HeapType DEF Heap, Sweep
    <3>2. CASE o = first
      <4>1. ~IsDead(first)
        BY <2>1, <2>2, <3>2 DEF Sweep, Heap, SweepInv, ListsApart
      <4> QED BY <2>1, <3>1, <3>2, <4>1 DEF Sweep, SweepColor
    <3>3. CASE o # first
      BY <1>2, <2>1, <3>3 DEF EnterSweep, Heap, Sweep, ToSweep, SweepPhase
    <3> QED BY <3>2, <3>3
  <2> QED BY <1>2, <2>2 DEF EnterSweep, SweptInv
<1>3. CASE SweepStep
  <2>1. PICK S \in SUBSET unswept :
          /\ gcstate = "GCSswptobefnz" => S = unswept
          /\ Sweep(S)
          /\ IF S # unswept
             THEN unswept' = unswept \ S /\ gcstate' = gcstate
             ELSE \/ gcstate = "GCSswpallgc" /\ gcstate' = "GCSswpfinobj" /\ unswept' = finobj
                  \/ gcstate = "GCSswpfinobj" /\ gcstate' = "GCSswptobefnz" /\ unswept' = tobefnz
                  \/ gcstate = "GCSswptobefnz" /\ gcstate' = "GCSswpend" /\ unswept' = {}
    BY <1>3, TobefnzFits DEF SweepStep
  <2>2. ASSUME NEW o \in Heap'
        PROVE  /\ o \in Heap /\ o \in Obj
               /\ o \in S /\ o # MainThread => color'[o] = currentwhite
               /\ o \notin S => color'[o] = color[o]
               /\ o \in allgc => o \in allgc' \/ color'[o] = currentwhite
               /\ o \in finobj => o \in finobj' \/ color'[o] = currentwhite
               /\ o \in tobefnz => o \in tobefnz' \/ color'[o] = currentwhite
    <3>1. o \in Heap /\ o \in Obj
      BY <2>1, HeapType DEF Heap, Sweep
    <3>2. color'[o] = SweepColor(S)[o]
      BY <2>1 DEF Sweep
    <3>3. CASE o \in S /\ IsDead(o)
      <4>1. o = MainThread
        BY <2>1, <2>2, <3>3 DEF Sweep, Heap
      <4> QED BY <1>3, <3>1, <3>3, <4>1 DEF SweepInv, DeadInv, ListsApart, Heap
    <3>4. CASE o \in S /\ ~IsDead(o)
      BY <3>1, <3>2, <3>4 DEF SweepColor
    <3>5. CASE o \notin S
      BY <2>1, <3>1, <3>2, <3>5 DEF Sweep, SweepColor
    <3> QED BY <3>1, <3>3, <3>4, <3>5
  <2>3. tobefnz' \subseteq tobefnz
    BY <2>1 DEF Sweep
  <2>4. ASSUME NEW o \in Heap' PROVE color'[o] = currentwhite \/ ToSweep(o)'
    <3>1. CASE o = MainThread
      BY <1>3, <2>1, <3>1 DEF SweepStep, ToSweep, SweepPhase
    <3>2. CASE o # MainThread /\ S # unswept
      BY <1>3, <2>1, <2>2, <3>2 DEF SweepStep, SweptInv, ToSweep, SweepPhase
    <3>3. CASE o # MainThread /\ S = unswept
      BY <1>3, <2>1, <2>2, <2>3, <3>3 DEF SweepStep, SweptInv, ToSweep, SweepPhase
    <3> QED BY <3>1, <3>2, <3>3
  <2> QED BY <1>3, <2>1, <2>3, <2>4 DEF SweepStep, SweptInv
<1>4. CASE SweepEnd
  <2>1. ASSUME NEW o \in Heap' PROVE color'[o] = currentwhite
    BY <1>4, <2>1, HeapType DEF SweepEnd, TypeOK, lists, Heap, SweptInv, ToSweep, SweepPhase
  <2> QED BY <1>4, <2>1 DEF SweepEnd, SweptInv
<1>5. CASE CallFinalizer
  <2>1. PICK o \in tobefnz :
          /\ tobefnz' = tobefnz \ {o} /\ allgc' = allgc \cup {o}
          /\ color' = IF SweepPhase THEN [color EXCEPT ![o] = currentwhite] ELSE color
          /\ unswept' = UnsweptWithout(o)
    BY <1>5 DEF CallFinalizer
  <2>2. CASE gcstate \in {"GCSpropagate", "GCSatomic", "GCSinsideatomic"}
    BY <1>5, <2>2 DEF CallFinalizer, control, SweptInv
  <2>3. CASE gcstate \notin {"GCSpropagate", "GCSatomic", "GCSinsideatomic"}
    <3>1. unswept' = unswept \ {o}
      BY <2>1, <2>3 DEF UnsweptWithout, SweptInv
    <3>2. ASSUME NEW x \in Heap'
          PROVE  /\ x \in Heap /\ x \in Obj
                 /\ x = o => color'[x] = currentwhite
                 /\ x # o => color'[x] = color[x]
      <4>1. x \in Heap /\ x \in Obj
        BY <1>5, <2>1, HeapType DEF Heap, CallFinalizer
      <4>2. x = o => color'[x] = currentwhite
        BY <1>5, <2>1, <2>3, <4>1 DEF TypeOK, SweptInv, ToSweep, SweepPhase, Heap
      <4>3. x # o => color'[x] = color[x]
        BY <2>1
      <4> QED BY <4>1, <4>2, <4>3
    <3>3. ASSUME NEW x \in Heap' PROVE color'[x] = currentwhite \/ ToSweep(x)'
      BY <1>5, <2>1, <2>3, <3>1, <3>2
         DEF CallFinalizer, control, SweptInv, ToSweep, SweepPhase
    <3> QED BY <1>5, <2>1, <2>3, <3>1, <3>3 DEF CallFinalizer, control, SweptInv
  <2> QED BY <2>2, <2>3
<1>6. CASE CallFinDone
  BY <1>6 DEF CallFinDone, lists, Heap, SweptInv, ToSweep, SweepPhase
<1>7. CASE FullGCDone
  BY <1>7 DEF FullGCDone, lists, Heap, SweptInv, ToSweep, SweepPhase
<1>8. \/ gcstate' \in {"GCSpropagate", "GCSatomic", "GCSinsideatomic"}
      \/ EnterSweep \/ SweepStep \/ SweepEnd \/ CallFinalizer \/ CallFinDone \/ FullGCDone
  BY Collector
     DEF Collector, SweepInv, PcInv, RestartCollection, Propagate, AtomicBegin,
         AtomicPropagate, AtomicRoots, AtomicGrayAgain, ConvergeRound, ConvergeTable,
         AtomicClearValues, AtomicSeparate, AtomicClearRest, AtomicFlip, control
<1> QED BY <1>1, <1>2, <1>3, <1>4, <1>5, <1>6, <1>7, <1>8

LEMMA SweptProgram ==
    ASSUME TypeOK, SweepInv, SweptInv, Program
    PROVE  SweptInv'
<1>1. CASE NewObject
  <2>1. PICK o \in Obj \ Heap :
          /\ color' = [color EXCEPT ![o] = currentwhite]
          /\ allgc' = allgc \cup {o}
    BY <1>1 DEF NewObject
  <2>2. \A x \in Heap' : /\ x \in Heap \/ color'[x] = currentwhite
                         /\ color[x] = currentwhite => color'[x] = currentwhite
    BY <1>1, <2>1 DEF NewObject, Heap, TypeOK
  <2> QED BY <1>1, <2>1, <2>2, SweptKept DEF NewObject, control
<1>2. CASE Push \/ Pop \/ SetMode \/ SetGlobalMetatable
  BY <1>2, SweptKept DEF Push, Pop, SetMode, SetGlobalMetatable, control, lists, Heap
<1>3. CASE TableSet
  <2>1. \E t, R : BarrierBack(t, R)
    BY <1>3 DEF TableSet
  <2>2. \A x \in Obj : color[x] = currentwhite => color'[x] = currentwhite
    BY <2>1 DEF BarrierBack, TypeOK, White
  <2>3. Heap' = Heap
    BY <1>3 DEF TableSet, lists, Heap
  <2> QED BY <1>3, <2>2, <2>3, HeapType, SweptKept DEF TableSet, control, lists
<1>4. CASE SetField
  <2>1. PICK o, v : Barrier(o, v)
    BY <1>4 DEF SetField
  <2>2. Heap' = Heap
    BY <1>4 DEF SetField, lists, Heap
  <2>3. CASE KeepInvariant
    BY <1>4, <2>3 DEF SetField, control, KeepInvariant, SweptInv
  <2>4. CASE ~KeepInvariant
    <3>1. \A x \in Obj : color[x] = currentwhite => color'[x] = currentwhite
      BY <2>1, <2>4 DEF Barrier, TypeOK, White
    <3> QED BY <1>4, <2>2, <3>1, HeapType, SweptKept DEF SetField, control, lists
  <2> QED BY <2>3, <2>4
<1>5. CASE CheckFinalizer
  <2>1. PICK o \in Operands \cap Finalizable \cap allgc, S \in SUBSET unswept :
          /\ S # {} => o \notin unswept /\ gcstate = "GCSswpallgc"
          /\ allgc' = allgc \ ({d \in S : IsDead(d)} \cup {o})
          /\ finobj' = finobj \cup {o}
          /\ unswept' = unswept \ (S \cup {o})
          /\ color' = IF SweepPhase THEN [SweepColor(S) EXCEPT ![o] = currentwhite] ELSE color
    BY <1>5 DEF CheckFinalizer
  <2>2. UNCHANGED <<gcstate, currentwhite, tobefnz>> /\ gcstate # "GCSinsideatomic"
    BY <1>5 DEF CheckFinalizer, control, ProgramRuns, SweepInv, PcInv
  <2>3. ASSUME NEW x \in Heap', SweepPhase, x # o
        PROVE  /\ x \in Heap
               /\ x \in S => color'[x] = currentwhite
               /\ x \notin S => color'[x] = color[x]
               /\ x \in allgc => x \in allgc' \/ color'[x] = currentwhite
    <3>1. x \in Heap /\ x \in Obj
      BY <2>1, <2>2, HeapType DEF Heap
    <3>2. color'[x] = SweepColor(S)[x]
      BY <2>1, <2>3, <3>1, SweepColorType
    <3>3. x \in S => ~IsDead(x)
      BY <1>5, <2>1, <2>2, <2>3, <3>1 DEF Heap, SweepInv, DeadInv, ListsApart
    <3> QED BY <2>1, <2>3, <3>1, <3>2, <3>3 DEF SweepColor
  <2>4. SweepPhase => color'[o] = currentwhite
    BY <2>1, SweepColorType DEF TypeOK
  <2>5. tobefnz' \subseteq unswept' \/ gcstate # "GCSswptobefnz"
    BY <2>1, <2>2 DEF SweptInv, SweepInv, ListsApart
  <2>6. ASSUME NEW x \in Heap',
               gcstate \notin {"GCSpropagate", "GCSatomic", "GCSinsideatomic"}
        PROVE  color'[x] = currentwhite \/ ToSweep(x)'
    <3>1. CASE ~SweepPhase
      <4>1. x \in Heap
        BY <2>1, <2>2 DEF Heap
      <4> QED BY <2>1, <2>2, <2>6, <3>1, <4>1 DEF SweptInv, ToSweep, SweepPhase
    <3>2. CASE SweepPhase /\ x = o
      BY <2>4, <3>2
    <3>3. CASE SweepPhase /\ x # o
      BY <2>1, <2>2, <2>3, <2>6, <3>3 DEF SweptInv, ToSweep, SweepPhase
    <3> QED BY <3>1, <3>2, <3>3
  <2> QED BY <2>2, <2>5, <2>6 DEF SweptInv
<1>6. CASE FullGC
  BY <1>6, SweptKept DEF FullGC, lists, Heap
<1> QED BY <1>1, <1>2, <1>3, <1>4, <1>5, <1>6, Program DEF Program

(* As long as no more than GCSWEEPMAX objects wait for their finalizers,   *)
(* every object has the current white when a cycle ends: the next one      *)
(* starts with nothing marked.                                             *)
THEOREM AllWhiteWhenSweepEnds ==
    ASSUME TobefnzFits
    PROVE  Spec => []AllWhiteAtPause
<1>1. Init => SweptInv
  BY HeapType, TypeInit DEF Init, SweptInv, Heap
<1>2. ASSUME SweptInv, UNCHANGED vars PROVE SweptInv'
  BY <1>2 DEF SweptInv, ToSweep, SweepPhase, Heap, vars, control, lists
<1>3. TypeOK /\ SweepInv /\ SweptInv /\ [Next]_vars => SweptInv'
  BY <1>2, SweptCollector, SweptProgram DEF Next
<1>4. SweptInv => AllWhiteAtPause
  BY DEF SweptInv, ToSweep, SweepPhase, AllWhiteAtPause
<1> QED BY <1>1, <1>3, <1>4, TypeCorrect, SweepInvariant, PTL DEF Spec

-----------------------------------------------------------------------------
(* The inductive invariant, in named parts.                                *)

Unwhite(S) == \A r \in S : color[r] \notin White
Marking == gcstate \in {"GCSpropagate", "GCSatomic", "GCSinsideatomic"}
InAtomic == pc \in {"propagateall", "roots", "grayagain", "converge1", "separate",
                    "resurrect", "converge2"}

Good == {o \in Heap : ~IsDead(o)}

(* NoDangling, in terms of Good. *)
GoodInv ==
    /\ Roots \cup finobj \cup tobefnz \subseteq Good
    /\ \A o \in Good : Refs(o) \subseteq Good

(* Free blocks and strings refer to nothing, only tables have keys, and a  *)
(* thread, whose stack has no barrier, is never black.                     *)
CellsInv ==
    \A o \in Obj :
        /\ o \notin Heap \/ Kind[o] = "string" => \A s \in Slot : val[o][s] = Nil
        /\ Kind[o] # "table" => \A s \in Slot : key[o][s] = Nil
        /\ Kind[o] = "thread" => color[o] # "black"

(* BlackToWhite, up to the end of the atomic phase. *)
BlackInv == Marking => \A o \in Heap : color[o] = "black" => Unwhite(Refs(o))

(* Between two steps of the marking phases: GrayListed, the lists hold     *)
(* objects of the heap only, and the lists of weak tables of the atomic    *)
(* phase are empty.                                                        *)
Listed ==
    /\ gray \cup grayagain \cup allweak \subseteq Heap
    /\ \A o \in Heap : color[o] = "gray" <=> o \in gray \cup grayagain \cup allweak
    /\ gray \cap grayagain = {} /\ gray \cap allweak = {} /\ grayagain \cap allweak = {}
    /\ weak = {} /\ ephemeron = {}

ListedInv ==
    KeepInvariant /\ pc = "idle" => Listed /\ (gcstate = "GCSpropagate" => gray # {})

LocalsInv ==
    /\ pc # "roots" => again = {}
    /\ pc \notin {"converge1", "converge2"} => todo = {}

(* What the atomic phase still has to traverse. *)
Waiting == gray \cup todo \cup again \cup (IF pc = "propagateall" THEN grayagain ELSE {})

GrayInv ==
    InAtomic => \A o \in Heap : color[o] = "gray" =>
        o \in Waiting \cup weak \cup ephemeron \cup allweak \/ Unwhite(Refs(o))

(* The keys of weak tables are marked when they are traversed, the values  *)
(* of the tables in origweak and origall are cleared before finalizers.    *)
WeakInv ==
    /\ InAtomic => \A o \in weak : Unwhite(Keys(o))
    /\ pc \in {"separate", "resurrect", "converge2"} =>
         \A o \in origweak \cup origall : Unwhite(Values(o))

(* A round that changed nothing leaves no unmarked value with a marked key.*)
Settled(o) ==
    \A s \in Slot : val[o][s] # Nil => IsCleared(key[o][s]) \/ color[val[o][s]] \notin White
ConvergeInv ==
    pc \in {"converge1", "converge2"} /\ ~changed =>
        gray = {} /\ \A o \in ephemeron : Settled(o)

RootsInv == pc \notin {"idle", "propagateall", "entersweep"} => Unwhite(Roots)

FlipInv == pc = "flip" => \A o \in Heap : color[o] \notin White => Unwhite(Refs(o))

AtomicInv == LocalsInv /\ GrayInv /\ WeakInv /\ ConvergeInv /\ RootsInv /\ FlipInv

SafetyInv == GoodInv /\ CellsInv /\ BlackInv /\ ListedInv /\ AtomicInv

-----------------------------------------------------------------------------
(* What marking does.                                                      *)

(* Marks(S) holds the white objects of S and is closed under what its      *)
(* userdata refer to.                                                      *)
LEMMA MarksClosed ==
    ASSUME TypeOK, NEW S
    PROVE  /\ \A o \in S \cap Obj : color[o] \in White => o \in Marks(S)
           /\ \A u \in Marks(S) : Kind[u] = "udata" =>
                \A r \in Refs(u) : color[r] \in White => r \in Marks(S)
<1> DEFINE W == {o \in Obj : IsWhite(o)}
           Closed(T) == /\ S \cap W \subseteq T
                        /\ \A u \in T : Kind[u] = "udata" => Refs(u) \cap W \subseteq T
<1>1. Marks(S) = {o \in W : \A T \in SUBSET W : Closed(T) => o \in T}
  BY DEF Marks
<1>2. \A o \in Obj : color[o] \in White <=> o \in W
  BY DEF IsWhite
<1>3. ASSUME NEW o \in S \cap Obj, color[o] \in White PROVE o \in Marks(S)
  BY <1>1, <1>2, <1>3
<1>4. ASSUME NEW u \in Marks(S), Kind[u] = "udata", NEW r \in Refs(u), color[r] \in White
      PROVE  r \in Marks(S)
  <2>1. u \in Obj
    BY <1>1
  <2>2. r \in W
    BY <1>2, <1>4, <2>1, RefsType
  <2>3. ASSUME NEW T \in SUBSET W, Closed(T) PROVE r \in T
    BY <1>1, <1>4, <2>2, <2>3
  <2> QED BY <1>1, <2>2, <2>3
<1> QED BY <1>3, <1>4

(* Marking stays among the objects of a set that refers only to itself. *)
LEMMA MarksWithin ==
    ASSUME TypeOK, NEW S, NEW G \in SUBSET Obj, S \subseteq G,
           \A o \in G : Refs(o) \subseteq G
    PROVE  Marks(S) \subseteq G
<1> DEFINE W == {o \in Obj : IsWhite(o)}
<1>1. W \cap G \in SUBSET W
  OBVIOUS
<1>2. S \cap W \subseteq W \cap G
  OBVIOUS
<1>3. \A u \in W \cap G : Refs(u) \cap W \subseteq W \cap G
  OBVIOUS
<1> QED BY <1>1, <1>2, <1>3 DEF Marks

(* The colours after a mark of S: no object of S is white, what turned     *)
(* black refers to nothing white, and what turned gray is to be traversed. *)
LEMMA MarkedEffect ==
    ASSUME TypeOK, CellsInv, NEW S, S \subseteq Obj, NEW c, c = Marked(Marks(S))
    PROVE  /\ c \in [Obj -> Colors]
           /\ \A x \in Obj : c[x] \in White => c[x] = color[x]
           /\ \A x \in Obj : color[x] \notin White => c[x] = color[x]
           /\ \A x \in S : c[x] \notin White
           /\ \A x \in Obj : c[x] = "black" /\ color[x] # "black" =>
                /\ Kind[x] \in {"string", "udata"}
                /\ \A r \in Refs(x) : c[r] \notin White
           /\ \A x \in Obj : c[x] = "gray" /\ color[x] # "gray" => x \in ToGray(Marks(S))
           /\ \A x \in ToGray(Marks(S)) : x \in Obj /\ color[x] \in White /\ c[x] = "gray"
<1> DEFINE M == Marks(S)
<1>1. M \subseteq Obj /\ \A x \in M : color[x] \in White
  BY MarksWhite DEF IsWhite
<1>2. c \in [Obj -> Colors]
  BY MarkedColors
<1>3. \A x \in Obj : c[x] = IF x \notin M THEN color[x]
                            ELSE IF AtOnce(x) THEN "black" ELSE "gray"
  BY DEF Marked
<1>4. \A x \in Obj : color[x] \in White => x \notin S \/ x \in M
  BY MarksClosed
<1>5. \A u \in M : Kind[u] = "udata" => \A r \in Refs(u) : color[r] \in White => r \in M
  BY MarksClosed
<1>6. \A u \in M : Refs(u) \subseteq Obj
  BY <1>1, RefsType
<1>7. \A u \in M : Kind[u] = "string" => Refs(u) = {}
  BY <1>1 DEF CellsInv, Refs, Keys, Values, Entries
<1> HIDE DEF M
<1>8. \A x \in Obj : x \in M => c[x] \notin White
  BY <1>3 DEF White
<1>9. \A x \in S : c[x] \notin White
  BY <1>3, <1>4, <1>8
<1>10. ASSUME NEW x \in Obj, c[x] = "black", color[x] # "black"
       PROVE  /\ Kind[x] \in {"string", "udata"}
              /\ \A r \in Refs(x) : c[r] \notin White
  <2>1. x \in M /\ AtOnce(x)
    BY <1>3, <1>10
  <2>2. Kind[x] \in {"string", "udata"}
    BY <2>1 DEF AtOnce
  <2>3. CASE Kind[x] = "string"
    BY <1>7, <2>1, <2>2, <2>3
  <2>4. CASE Kind[x] = "udata"
    <3>1. ASSUME NEW r \in Refs(x) PROVE c[r] \notin White
      <4>1. r \in Obj
        BY <1>6, <2>1
      <4>2. CASE color[r] \in White
        BY <1>5, <1>8, <2>1, <2>4, <4>1, <4>2
      <4>3. CASE color[r] \notin White
        BY <1>3, <1>8, <4>1, <4>3
      <4> QED BY <4>2, <4>3
    <3> QED BY <2>2, <3>1
  <2> QED BY <2>2, <2>3, <2>4
<1>11. \A x \in Obj : c[x] = "gray" /\ color[x] # "gray" => x \in ToGray(M)
  BY <1>3 DEF ToGray
<1>12. \A x \in ToGray(M) : x \in Obj /\ color[x] \in White /\ c[x] = "gray"
  BY <1>1, <1>3 DEF ToGray
<1>13. \A x \in Obj : /\ c[x] \in White => c[x] = color[x]
                      /\ color[x] \notin White => c[x] = color[x]
  BY <1>1, <1>3, <1>8
<1> QED BY <1>2, <1>9, <1>10, <1>11, <1>12, <1>13 DEF M

(* Dropping the dead keys of empty entries changes no reference. *)
LEMMA LiveKeysRefs ==
    ASSUME TypeOK, NEW h \in Obj, val' = val,
           key' = [key EXCEPT ![h] = LiveKeys(h)] \/ key' = key
    PROVE  \A x \in Obj : Keys(x)' = Keys(x) /\ Values(x)' = Values(x)
<1>1. \A x \in Obj : Values(x)' = Values(x) /\ Entries(x)' = Entries(x)
  BY DEF Values, Entries
<1>2. ASSUME NEW x \in Obj, NEW s \in Entries(x) PROVE key'[x][s] = key[x][s]
  BY DEF TypeOK, LiveKeys, Entries
<1>3. \A x \in Obj : Keys(x)' = Keys(x)
  BY <1>1, <1>2 DEF Keys
<1> QED BY <1>1, <1>3

-----------------------------------------------------------------------------
(* What traversing the object o does to the colour invariant.  Outside the *)
(* propagate state an object that stays gray is in a list of weak tables   *)
(* or refers to no white object any more.                                  *)

Home(o) ==
    \/ gcstate = "GCSpropagate"
    \/ o \in weak' \cup ephemeron' \cup allweak'
    \/ \A r \in Refs(o) : color'[r] \notin White

Traversed(o) ==
    /\ \A x \in Obj : color'[x] \in White => color'[x] = color[x]
    /\ \A x \in Obj : Keys(x)' = Keys(x) /\ Values(x)' = Values(x)
    /\ \A x \in Obj : color'[x] = "black" /\ color[x] # "black" =>
         Kind[x] # "thread" /\ \A r \in Refs(x) : color'[r] \notin White
    /\ \A x \in Obj : color'[x] = "gray" =>
         (color[x] = "gray" /\ x # o) \/ x \in gray' \/ (x = o /\ Home(o))
    /\ gray \ {o} \subseteq gray' /\ grayagain \subseteq grayagain'
    /\ weak \subseteq weak' /\ ephemeron \subseteq ephemeron' /\ allweak \subseteq allweak'
    /\ \A x \in weak' \ weak : x \in Obj /\ \A r \in Keys(x) : color'[r] \notin White

LEMMA TraversedStrong ==
    ASSUME TypeOK, CellsInv, NEW o \in Obj, TraverseStrong(o), val' = val
    PROVE  Traversed(o)
<1> DEFINE c == Marked(Marks(Refs(o)))
<1>1. Refs(o) \subseteq Obj
  BY RefsType
<1>2. /\ c \in [Obj -> Colors]
      /\ \A x \in Obj : c[x] \in White => c[x] = color[x]
      /\ \A x \in Refs(o) : c[x] \notin White
      /\ \A x \in Obj : c[x] = "black" /\ color[x] # "black" =>
           /\ Kind[x] \in {"string", "udata"}
           /\ \A r \in Refs(x) : c[r] \notin White
      /\ \A x \in Obj : c[x] = "gray" /\ color[x] # "gray" => x \in ToGray(Marks(Refs(o)))
  BY <1>1, MarkedEffect
<1>3. /\ color' = [c EXCEPT ![o] = IF Kind[o] = "thread" THEN "gray" ELSE "black"]
      /\ gray' = (gray \ {o}) \cup ToGray(Marks(Refs(o)))
      /\ key' = [key EXCEPT ![o] = LiveKeys(o)] \/ key' = key
      /\ grayagain \subseteq grayagain'
      /\ UNCHANGED <<weak, ephemeron, allweak>>
  BY DEF TraverseStrong
<1> HIDE DEF c
<1>4. /\ color'[o] = IF Kind[o] = "thread" THEN "gray" ELSE "black"
      /\ \A x \in Obj : x # o => color'[x] = c[x]
  BY <1>2, <1>3
<1>5. color'[o] \notin White
  BY <1>4 DEF White
<1>6. \A x \in Obj : c[x] \notin White => color'[x] \notin White
  BY <1>4, <1>5
<1>7. \A x \in Obj : color'[x] \in White => color'[x] = color[x]
  BY <1>2, <1>4, <1>5
<1>8. ASSUME NEW x \in Obj, color'[x] = "black", color[x] # "black"
      PROVE  Kind[x] # "thread" /\ \A r \in Refs(x) : color'[r] \notin White
  <2>1. Refs(x) \subseteq Obj
    BY RefsType
  <2>2. CASE x = o
    BY <1>1, <1>2, <1>4, <1>6, <1>8, <2>2
  <2>3. CASE x # o
    BY <1>2, <1>4, <1>6, <1>8, <2>1, <2>3
  <2> QED BY <2>2, <2>3
<1>9. Home(o)
  BY <1>1, <1>2, <1>6 DEF Home
<1>10. \A x \in Obj : color'[x] = "gray" =>
         (color[x] = "gray" /\ x # o) \/ x \in gray' \/ (x = o /\ Home(o))
  BY <1>2, <1>3, <1>4, <1>9
<1>11. \A x \in Obj : Keys(x)' = Keys(x) /\ Values(x)' = Values(x)
  BY <1>3, LiveKeysRefs
<1> QED BY <1>3, <1>7, <1>8, <1>10, <1>11 DEF Traversed

(* The objects marked are S, and h keeps its colour. *)
LEMMA TraversedMarks ==
    ASSUME TypeOK, CellsInv, NEW h \in Obj, NEW S, S \subseteq Obj,
           color' = Marked(Marks(S)), gray' = (gray \ {h}) \cup ToGray(Marks(S)),
           val' = val, key' = [key EXCEPT ![h] = LiveKeys(h)] \/ key' = key,
           grayagain \subseteq grayagain', weak \subseteq weak',
           ephemeron \subseteq ephemeron', allweak \subseteq allweak',
           \A x \in weak' \ weak : x = h /\ Keys(h) \subseteq S,
           Home(h)
    PROVE  Traversed(h)
<1>1. /\ \A x \in Obj : color'[x] \in White => color'[x] = color[x]
      /\ \A x \in S : color'[x] \notin White
      /\ \A x \in Obj : color'[x] = "black" /\ color[x] # "black" =>
           /\ Kind[x] \in {"string", "udata"}
           /\ \A r \in Refs(x) : color'[r] \notin White
      /\ \A x \in Obj : color'[x] = "gray" /\ color[x] # "gray" => x \in ToGray(Marks(S))
  BY MarkedEffect
<1>2. \A x \in Obj : Keys(x)' = Keys(x) /\ Values(x)' = Values(x)
  BY LiveKeysRefs
<1>3. \A x \in Obj : color'[x] = "black" /\ color[x] # "black" =>
         Kind[x] # "thread" /\ \A r \in Refs(x) : color'[r] \notin White
  BY <1>1
<1>4. \A x \in Obj : color'[x] = "gray" =>
         (color[x] = "gray" /\ x # h) \/ x \in gray' \/ (x = h /\ Home(h))
  BY <1>1
<1>5. \A x \in weak' \ weak : x \in Obj /\ \A r \in Keys(x) : color'[r] \notin White
  BY <1>1
<1> QED BY <1>1, <1>2, <1>3, <1>4, <1>5 DEF Traversed

LEMMA TraversedWeakValue ==
    ASSUME TypeOK, CellsInv, NEW h \in Obj, TraverseWeakValue(h), val' = val
    PROVE  Traversed(h)
<1>1. PICK hasclears \in BOOLEAN, seen \in SUBSET Strings(Values(h)) :
        /\ ~hasclears => /\ seen = Strings(Values(h))
                         /\ \A r \in Values(h) : IsCleared(r) => r \in Marks(Keys(h))
        /\ color' = Marked(Marks(Keys(h) \cup seen))
        /\ gray' = (gray \ {h}) \cup ToGray(Marks(Keys(h) \cup seen))
        /\ key' = [key EXCEPT ![h] = LiveKeys(h)]
        /\ grayagain' = IF gcstate = "GCSpropagate" THEN grayagain \cup {h} ELSE grayagain
        /\ weak' = IF gcstate # "GCSpropagate" /\ hasclears THEN weak \cup {h} ELSE weak
        /\ UNCHANGED <<ephemeron, allweak>>
  BY DEF TraverseWeakValue
<1> DEFINE S == Keys(h) \cup seen
<1>2. S \subseteq Obj /\ Values(h) \subseteq Obj
  BY RefsType DEF Strings
<1>3. /\ \A x \in Obj : color[x] \notin White => color'[x] = color[x]
      /\ \A x \in S : color'[x] \notin White
  BY <1>1, <1>2, MarkedEffect
<1>4. Home(h)
  <2>1. CASE gcstate = "GCSpropagate" \/ hasclears
    BY <1>1, <2>1 DEF Home
  <2>2. CASE ~hasclears
    <3>1. ASSUME NEW r \in Values(h) PROVE color'[r] \notin White
      <4>1. CASE color[r] \notin White
        BY <1>2, <1>3, <4>1
      <4>2. CASE Kind[r] = "string"
        BY <1>1, <1>3, <2>2, <4>2 DEF Strings
      <4>3. CASE color[r] \in White /\ Kind[r] # "string"
        <5>1. r \in Marks(Keys(h))
          BY <1>1, <1>2, <2>2, <4>3, ObjAssumption DEF ObjAssumption, IsCleared, WhiteRef
        <5>2. Marks(Keys(h)) \subseteq Marks(S)
          BY DEF Marks
        <5>3. color' = Marked(Marks(S)) /\ r \in Marks(S) /\ r \in Obj
          BY <1>1, <1>2, <5>1, <5>2
        <5> QED BY <5>3, MarkedColors DEF White
      <4> QED BY <4>1, <4>2, <4>3
    <3> QED BY <1>3, <3>1 DEF Home, Refs
  <2> QED BY <2>1, <2>2
<1>5. /\ grayagain \subseteq grayagain' /\ weak \subseteq weak'
      /\ ephemeron \subseteq ephemeron' /\ allweak \subseteq allweak'
      /\ \A x \in weak' \ weak : x = h /\ Keys(h) \subseteq S
      /\ color' = Marked(Marks(S)) /\ gray' = (gray \ {h}) \cup ToGray(Marks(S))
  BY <1>1
<1> HIDE DEF S
<1> QED BY <1>1, <1>2, <1>4, <1>5, TraversedMarks

LEMMA TraversedEphemeron ==
    ASSUME TypeOK, CellsInv, NEW h \in Obj, TraverseEphemeron(h), val' = val
    PROVE  Traversed(h)
<1> DEFINE S == Released(h) \cup Strings(Keys(h))
<1>1. S \subseteq Obj /\ Keys(h) \subseteq Obj /\ Values(h) \subseteq Obj
  BY RefsType DEF Released, Strings, Values
<1>2. /\ color' = Marked(Marks(S)) /\ gray' = (gray \ {h}) \cup ToGray(Marks(S))
      /\ key' = [key EXCEPT ![h] = LiveKeys(h)]
      /\ grayagain \subseteq grayagain' /\ weak' = weak
      /\ ephemeron \subseteq ephemeron' /\ allweak \subseteq allweak'
  BY DEF TraverseEphemeron, EphemeronMarks
<1>3. /\ \A x \in Obj : color[x] \notin White => color'[x] = color[x]
      /\ \A x \in S : color'[x] \notin White
  BY <1>1, <1>2, MarkedEffect
<1>4. Home(h)
  <2>1. CASE WhiteKeyed(h) # {}
    BY <2>1 DEF TraverseEphemeron, Home
  <2>2. CASE WhiteKeyed(h) = {}
    <3>1. Values(h) \subseteq S
      BY <2>2 DEF Released, Values
    <3>2. ASSUME NEW r \in Keys(h) PROVE color'[r] \notin White
      <4>1. PICK s \in Entries(h) : r = key[h][s] /\ r # Nil
        BY DEF Keys
      <4>2. ~IsCleared(r)
        BY <2>2, <4>1 DEF WhiteKeyed
      <4>3. color[r] \notin White \/ r \in S
        BY <4>1, <4>2 DEF IsCleared, WhiteRef, Strings
      <4> QED BY <1>1, <1>3, <4>3
    <3> QED BY <1>3, <3>1, <3>2 DEF Home, Refs
  <2> QED BY <2>1, <2>2
<1> HIDE DEF S
<1> QED BY <1>1, <1>2, <1>4, TraversedMarks

LEMMA TraversedObject ==
    ASSUME TypeOK, CellsInv, NEW o \in Obj, PropagateMark(o)
    PROVE  Traversed(o)
<1>1. val' = val
  BY DEF PropagateMark
<1>2. CASE TraverseAllWeak(o)
  <2>1. \A x \in Obj : Keys(x)' = Keys(x) /\ Values(x)' = Values(x)
    BY <1>1, <1>2 DEF TraverseAllWeak, Keys, Values, Entries
  <2>2. Home(o) /\ UNCHANGED color
    BY <1>2 DEF TraverseAllWeak, Home
  <2> QED BY <1>2, <2>1, <2>2 DEF TraverseAllWeak, Traversed
<1> QED BY <1>1, <1>2, TraversedStrong, TraversedWeakValue, TraversedEphemeron
        DEF PropagateMark

-----------------------------------------------------------------------------
(* CellsInv.                                                               *)

(* Steps that write nothing in a cell but nil. *)
LEMMA CellsKept ==
    ASSUME TypeOK, CellsInv,
           \A x \in Obj : \A s \in Slot : /\ val'[x][s] \in {val[x][s], Nil}
                                          /\ key'[x][s] \in {key[x][s], Nil},
           \A x \in Heap \ Heap' : \A s \in Slot : val'[x][s] = Nil,
           \A x \in Obj : Kind[x] = "thread" /\ color'[x] = "black" => color[x] = "black"
    PROVE  CellsInv'
<1> SUFFICES ASSUME NEW o \in Obj
             PROVE  /\ o \notin Heap' \/ Kind[o] = "string" => \A s \in Slot : val'[o][s] = Nil
                    /\ Kind[o] # "table" => \A s \in Slot : key'[o][s] = Nil
                    /\ Kind[o] = "thread" => color'[o] # "black"
  BY DEF CellsInv
<1>1. /\ o \notin Heap \/ Kind[o] = "string" => \A s \in Slot : val[o][s] = Nil
      /\ Kind[o] # "table" => \A s \in Slot : key[o][s] = Nil
      /\ Kind[o] = "thread" => color[o] # "black"
  BY DEF CellsInv
<1>2. \A s \in Slot : /\ val'[o][s] \in {val[o][s], Nil}
                      /\ key'[o][s] \in {key[o][s], Nil}
  OBVIOUS
<1>3. o \notin Heap' \/ Kind[o] = "string" => \A s \in Slot : val'[o][s] = Nil
  BY <1>1, <1>2
<1>4. Kind[o] # "table" => \A s \in Slot : key'[o][s] = Nil
  BY <1>1, <1>2
<1> QED BY <1>1, <1>3, <1>4

(* Steps that write a value in a cell of an object that can hold one, and  *)
(* a key only in a table.                                                  *)
LEMMA CellsPut ==
    ASSUME TypeOK, CellsInv, NEW t \in Heap, NEW s \in Slot, NEW v \in Ref, NEW k \in Ref,
           Kind[t] # "string", k # Nil => Kind[t] = "table",
           val' = [val EXCEPT ![t][s] = v], key' = [key EXCEPT ![t][s] = k],
           Heap \subseteq Heap',
           \A x \in Obj : Kind[x] = "thread" /\ color'[x] = "black" => color[x] = "black"
    PROVE  CellsInv'
<1> SUFFICES ASSUME NEW o \in Obj
             PROVE  /\ o \notin Heap' \/ Kind[o] = "string" => \A i \in Slot : val'[o][i] = Nil
                    /\ Kind[o] # "table" => \A i \in Slot : key'[o][i] = Nil
                    /\ Kind[o] = "thread" => color'[o] # "black"
  BY DEF CellsInv
<1>1. /\ o \notin Heap \/ Kind[o] = "string" => \A i \in Slot : val[o][i] = Nil
      /\ Kind[o] # "table" => \A i \in Slot : key[o][i] = Nil
      /\ Kind[o] = "thread" => color[o] # "black"
  BY DEF CellsInv
<1>2. o # t => val'[o] = val[o] /\ key'[o] = key[o]
  BY DEF TypeOK
<1>3. \A i \in Slot : key'[t][i] = IF i = s THEN k ELSE key[t][i]
  BY HeapType DEF TypeOK
<1>4. o \notin Heap' \/ Kind[o] = "string" => \A i \in Slot : val'[o][i] = Nil
  BY <1>1, <1>2
<1>5. Kind[o] # "table" => \A i \in Slot : key'[o][i] = Nil
  BY <1>1, <1>2, <1>3
<1> QED BY <1>1, <1>4, <1>5

(* Writing nil as the key of a cell of an object that is no table writes   *)
(* nothing.                                                                *)
LEMMA NoKeyWritten ==
    ASSUME TypeOK, CellsInv, NEW o \in Obj, Kind[o] # "table", NEW s \in Slot
    PROVE  key = [key EXCEPT ![o][s] = Nil]
<1>1. key[o][s] = Nil
  BY DEF CellsInv
<1>2. key[o] = [key[o] EXCEPT ![s] = Nil]
  BY <1>1 DEF TypeOK
<1> QED BY <1>2 DEF TypeOK

LEMMA MarkBlack ==
    ASSUME TypeOK, CellsInv, NEW S, S \subseteq Obj, color' = Marked(Marks(S))
    PROVE  \A x \in Obj : Kind[x] = "thread" /\ color'[x] = "black" => color[x] = "black"
  BY MarkedEffect

LEMMA PropagateCells ==
    ASSUME TypeOK, CellsInv, NEW o \in Obj, PropagateMark(o) \/ TraverseEphemeron(o),
           UNCHANGED <<val, lists>>
    PROVE  CellsInv'
<1>1. Traversed(o)
  BY TraversedObject, TraversedEphemeron
<1>2. key' = [key EXCEPT ![o] = LiveKeys(o)] \/ key' = key
  BY DEF PropagateMark, TraverseStrong, TraverseWeakValue, TraverseEphemeron, TraverseAllWeak
<1>3. \A x \in Obj : \A s \in Slot : key'[x][s] \in {key[x][s], Nil}
  BY <1>2 DEF TypeOK, LiveKeys
<1>4. \A x \in Obj : Kind[x] = "thread" /\ color'[x] = "black" => color[x] = "black"
  BY <1>1 DEF Traversed
<1>5. Heap' = Heap
  BY DEF lists, Heap
<1> QED BY <1>3, <1>4, <1>5, CellsKept

LEMMA ClearCells ==
    ASSUME TypeOK, NEW CK, NEW CV, ClearTables(CK, CV)
    PROVE  /\ \A x \in Obj : \A s \in Slot : /\ val'[x][s] \in {val[x][s], Nil}
                                             /\ key'[x][s] \in {key[x][s], Nil}
           /\ \E S : S \subseteq Obj /\ color' = Marked(Marks(S))
<1> DEFINE Tested == (UNION {Strings(Keys(t)) : t \in CK})
                     \cup (UNION {Strings(Values(t)) : t \in CV})
<1>1. color' = Marked(Marks(Tested))
  BY DEF ClearTables
<1>2. Marks(Tested) = Marks(Tested \cap Obj)
  BY DEF Marks
<1>3. \A x \in Obj : \A s \in Slot : /\ val'[x][s] \in {val[x][s], Nil}
                                     /\ key'[x][s] \in {key[x][s], Nil}
  BY DEF ClearTables
<1> QED BY <1>1, <1>2, <1>3

(* What the program works on is in the heap and is not dead. *)
LEMMA GoodOperands ==
    ASSUME TypeOK, GoodInv
    PROVE  /\ Good \subseteq Heap /\ Good \subseteq Obj
           /\ MainThread \in Good /\ Registry \in Good
           /\ Values(MainThread) \subseteq Good /\ Operands \subseteq Good
           /\ Readable \subseteq Good
<1>1. Good \subseteq Heap /\ Good \subseteq Obj
  BY HeapType DEF Good
<1>2. MainThread \in Good /\ Registry \in Good /\ {mt} \ {Nil} \subseteq Good
  BY ObjAssumption DEF ObjAssumption, GoodInv, Roots
<1>3. Values(MainThread) \subseteq Good
  BY <1>2 DEF GoodInv, Refs
<1>4. Operands \subseteq Good
  BY <1>2, <1>3 DEF Operands
<1>5. UNION {Refs(o) : o \in Operands} \subseteq Good
  BY <1>4 DEF GoodInv
<1> QED BY <1>1, <1>2, <1>3, <1>4, <1>5 DEF Readable

(* A barrier makes no thread black. *)
LEMMA BarrierBlack ==
    ASSUME TypeOK, CellsInv, NEW o \in Obj, NEW v \in Ref, Barrier(o, v)
    PROVE  \A x \in Obj : Kind[x] = "thread" /\ color'[x] = "black" => color[x] = "black"
<1>1. CASE Mark({v}) /\ v # Nil
  BY <1>1, MarkBlack DEF Mark, Ref
<1>2. CASE color' = [color EXCEPT ![o] = currentwhite] \/ color' = color
  BY <1>2 DEF TypeOK, White
<1> QED BY <1>1, <1>2 DEF Barrier, WhiteRef

LEMMA BarrierBackBlack ==
    ASSUME TypeOK, NEW t \in Obj, NEW R, BarrierBack(t, R)
    PROVE  \A x \in Obj : color'[x] = "black" => color[x] = "black"
  BY DEF TypeOK, BarrierBack

LEMMA CellsProgram ==
    ASSUME TypeOK, SweepInv, GoodInv, CellsInv, Program
    PROVE  CellsInv'
<1>1. CASE NewObject
  <2>1. PICK o \in Obj \ Heap, s \in Top(MainThread) :
          /\ val' = [val EXCEPT ![MainThread][s] = o]
          /\ color' = [color EXCEPT ![o] = currentwhite]
          /\ allgc' = allgc \cup {o}
    BY <1>1 DEF NewObject
  <2>2. /\ MainThread \in Heap /\ MainThread \in Obj /\ Kind[MainThread] = "thread"
        /\ s \in Slot /\ o \in Ref /\ Nil \in Ref
    BY <2>1, ObjAssumption, TopType DEF ObjAssumption, Heap, Ref
  <2>3. key' = [key EXCEPT ![MainThread][s] = Nil]
    BY <1>1, <2>2, NoKeyWritten DEF NewObject
  <2>4. Heap \subseteq Heap'
    BY <1>1, <2>1 DEF NewObject, Heap
  <2>5. \A x \in Obj : Kind[x] = "thread" /\ color'[x] = "black" => color[x] = "black"
    BY <2>1 DEF TypeOK, White
  <2> QED BY <2>1, <2>2, <2>3, <2>4, <2>5, CellsPut
<1>2. CASE Push
  <2>1. PICK th \in {MainThread} \cup {o \in Operands : Kind[o] = "thread"} :
          \E s \in Top(th), r \in Readable \ (Values(th) \cup {Registry}) :
            val' = [val EXCEPT ![th][s] = r]
    BY <1>2 DEF Push
  <2>2. PICK s \in Top(th), r \in Readable : val' = [val EXCEPT ![th][s] = r]
    BY <2>1
  <2>3. th \in Heap /\ th \in Obj /\ Kind[th] = "thread"
    BY <2>1, ObjAssumption, GoodOperands DEF ObjAssumption
  <2>4. s \in Slot /\ r \in Ref /\ Nil \in Ref
    BY <2>2, <2>3, TopType, OperandsType DEF Ref
  <2>5. key' = [key EXCEPT ![th][s] = Nil]
    BY <1>2, <2>3, <2>4, NoKeyWritten DEF Push
  <2> QED BY <1>2, <2>2, <2>3, <2>4, <2>5, CellsPut DEF Push, lists, Heap
<1>3. CASE Pop
  <2>1. PICK th, s : val' = [val EXCEPT ![th][s] = Nil]
    BY <1>3 DEF Pop
  <2>2. \A x \in Obj : \A i \in Slot : val'[x][i] \in {val[x][i], Nil}
    BY <2>1 DEF TypeOK
  <2> QED BY <1>3, <2>2, CellsKept DEF Pop, lists, Heap
<1>4. CASE TableSet
  <2>1. PICK t \in {o \in Operands : Kind[o] = "table"}, v \in Values(MainThread) \cup {Nil} :
          \E s \in Cell[t], k \in IF t \in Keyed THEN Values(MainThread) ELSE {Nil} :
            /\ key' = [key EXCEPT ![t][s] = k]
            /\ val' = [val EXCEPT ![t][s] = v]
            /\ BarrierBack(t, {k, v})
    BY <1>4 DEF TableSet
  <2>2. PICK s \in Cell[t], k \in Values(MainThread) \cup {Nil} :
          /\ key' = [key EXCEPT ![t][s] = k]
          /\ val' = [val EXCEPT ![t][s] = v]
          /\ BarrierBack(t, {k, v})
    BY <2>1
  <2>3. t \in Heap /\ t \in Obj /\ Kind[t] = "table" /\ v \in Ref /\ k \in Ref
    BY <2>1, <2>2, GoodOperands, RefsType DEF Ref
  <2>4. s \in Slot
    BY <2>2, <2>3, ObjAssumption DEF ObjAssumption
  <2>5. \A x \in Obj : color'[x] = "black" => color[x] = "black"
    BY <2>2, <2>3, BarrierBackBlack
  <2> QED BY <1>4, <2>2, <2>3, <2>4, <2>5, CellsPut DEF TableSet, lists, Heap
<1>5. CASE SetField
  <2>1. PICK o \in {p \in Operands : Kind[p] \in {"closure", "udata"}},
             v \in Values(MainThread) \cup {Nil} :
          \E s \in Cell[o] : val' = [val EXCEPT ![o][s] = v] /\ Barrier(o, v)
    BY <1>5 DEF SetField
  <2>2. PICK s \in Cell[o] : val' = [val EXCEPT ![o][s] = v] /\ Barrier(o, v)
    BY <2>1
  <2>3. o \in Heap /\ o \in Obj /\ v \in Ref /\ Nil \in Ref
    BY <2>1, GoodOperands, RefsType DEF Ref
  <2>4. s \in Slot
    BY <2>2, <2>3, ObjAssumption DEF ObjAssumption
  <2>5. Kind[o] # "table" /\ Kind[o] # "string"
    BY <2>1
  <2>6. key' = [key EXCEPT ![o][s] = Nil]
    BY <1>5, <2>3, <2>4, <2>5, NoKeyWritten DEF SetField
  <2>7. \A x \in Obj : Kind[x] = "thread" /\ color'[x] = "black" => color[x] = "black"
    BY <2>2, <2>3, BarrierBlack
  <2> QED BY <1>5, <2>2, <2>3, <2>4, <2>5, <2>6, <2>7, CellsPut DEF SetField, lists, Heap
<1>6. CASE SetMode \/ SetGlobalMetatable \/ FullGC
  BY <1>6, CellsKept
     DEF SetMode, SetGlobalMetatable, FullGC, cells, lists, Heap
<1>7. CASE CheckFinalizer
  <2>1. PICK o \in Operands \cap Finalizable \cap allgc, S \in SUBSET unswept :
          /\ allgc' = allgc \ ({d \in S : IsDead(d)} \cup {o})
          /\ finobj' = finobj \cup {o}
          /\ color' = IF SweepPhase THEN [SweepColor(S) EXCEPT ![o] = currentwhite] ELSE color
          /\ key' = [d \in Obj |-> IF d \in {e \in S : IsDead(e)} THEN [s \in Slot |-> Nil]
                                   ELSE key[d]]
          /\ val' = [d \in Obj |-> IF d \in {e \in S : IsDead(e)} THEN [s \in Slot |-> Nil]
                                   ELSE val[d]]
    BY <1>7 DEF CheckFinalizer
  <2>2. \A x \in Obj : \A s \in Slot : /\ val'[x][s] \in {val[x][s], Nil}
                                       /\ key'[x][s] \in {key[x][s], Nil}
    BY <2>1
  <2>3. \A x \in Heap \ Heap' : \A s \in Slot : val'[x][s] = Nil
    BY <1>7, <2>1, HeapType DEF CheckFinalizer, Heap
  <2>4. \A x \in Obj : color'[x] = "black" => color[x] = "black"
    BY <2>1, SweepColorType DEF TypeOK, SweepColor, White
  <2> QED BY <2>2, <2>3, <2>4, CellsKept
<1> QED BY <1>1, <1>2, <1>3, <1>4, <1>5, <1>6, <1>7, Program DEF Program

LEMMA CellsSweep ==
    ASSUME TypeOK, CellsInv, NEW S, Sweep(S)
    PROVE  CellsInv'
<1>1. \A x \in Obj : \A s \in Slot : /\ val'[x][s] \in {val[x][s], Nil}
                                     /\ key'[x][s] \in {key[x][s], Nil}
  BY DEF Sweep
<1>2. \A x \in Heap \ Heap' : \A s \in Slot : val'[x][s] = Nil
  BY HeapType DEF Sweep, Heap
<1>3. \A x \in Obj : color'[x] = "black" => color[x] = "black"
  BY DEF Sweep, SweepColor, TypeOK, White
<1> QED BY <1>1, <1>2, <1>3, CellsKept

LEMMA CellsCollector ==
    ASSUME TypeOK, GoodInv, CellsInv, Collector
    PROVE  CellsInv'
<1>0. Roots \cup tobefnz \cup finobj \subseteq Obj
  BY GoodOperands DEF GoodInv
<1>1. CASE RestartCollection
  BY <1>0, <1>1, MarkBlack, CellsKept DEF RestartCollection, cells, lists, Heap
<1>2. CASE Propagate \/ AtomicPropagate
  <2>1. PICK o \in gray : PropagateMark(o)
    BY <1>2 DEF Propagate, AtomicPropagate
  <2>2. o \in Obj /\ UNCHANGED <<val, lists>>
    BY <2>1 DEF TypeOK, PropagateMark
  <2> QED BY <2>1, <2>2, PropagateCells
<1>3. CASE AtomicBegin \/ AtomicGrayAgain \/ ConvergeRound \/ AtomicFlip
           \/ CallFinDone \/ FullGCDone
  BY <1>3, CellsKept
     DEF AtomicBegin, AtomicGrayAgain, ConvergeRound, AtomicFlip, CallFinDone, FullGCDone,
         cells, lists, Heap
<1>4. CASE AtomicRoots
  BY <1>0, <1>4, MarkBlack, CellsKept DEF AtomicRoots, Mark, cells, lists, Heap
<1>5. CASE ConvergeTable
  <2>1. PICK w \in todo : TraverseEphemeron(w)
    BY <1>5 DEF ConvergeTable
  <2>2. w \in Obj /\ UNCHANGED <<val, lists>>
    BY <1>5, <2>1 DEF TypeOK, ConvergeTable
  <2> QED BY <2>1, <2>2, PropagateCells
<1>6. CASE AtomicClearValues \/ AtomicClearRest
  <2>1. PICK CK, CV : ClearTables(CK, CV)
    BY <1>6 DEF AtomicClearValues, AtomicClearRest
  <2>2. Heap' = Heap
    BY <1>6 DEF AtomicClearValues, AtomicClearRest, lists, Heap
  <2>3. \A x \in Obj : Kind[x] = "thread" /\ color'[x] = "black" => color[x] = "black"
    BY <2>1, ClearCells, MarkBlack
  <2> QED BY <2>1, <2>2, <2>3, ClearCells, CellsKept
<1>7. CASE AtomicSeparate
  <2>1. tobefnz' \subseteq Obj /\ Heap' = Heap
    BY <1>0, <1>7 DEF AtomicSeparate, Heap
  <2>2. \A x \in Obj : Kind[x] = "thread" /\ color'[x] = "black" => color[x] = "black"
    BY <1>7, <2>1, MarkBlack DEF AtomicSeparate, Mark
  <2> QED BY <1>7, <2>1, <2>2, CellsKept DEF AtomicSeparate, cells
<1>8. CASE EnterSweep \/ SweepStep
  BY <1>8, CellsSweep DEF EnterSweep, SweepStep
<1>9. CASE SweepEnd
  <2>1. \A x \in Obj : color'[x] = "black" => color[x] = "black"
    BY <1>9 DEF SweepEnd, TypeOK, White
  <2> QED BY <1>9, <2>1, CellsKept DEF SweepEnd, cells, lists, Heap
<1>10. CASE CallFinalizer
  <2>1. PICK o \in tobefnz :
          /\ tobefnz' = tobefnz \ {o} /\ allgc' = allgc \cup {o}
          /\ color' = IF SweepPhase THEN [color EXCEPT ![o] = currentwhite] ELSE color
          /\ \/ \E s \in Top(MainThread) : val' = [val EXCEPT ![MainThread][s] = o]
             \/ val' = val
    BY <1>10 DEF CallFinalizer
  <2>2. Heap' = Heap /\ o \in Ref /\ Nil \in Ref
    BY <1>0, <1>10, <2>1 DEF CallFinalizer, Heap, Ref
  <2>3. \A x \in Obj : color'[x] = "black" => color[x] = "black"
    BY <2>1 DEF TypeOK, White
  <2>4. CASE val' = val
    BY <1>10, <2>2, <2>3, <2>4, CellsKept DEF CallFinalizer
  <2>5. ASSUME NEW s \in Top(MainThread), val' = [val EXCEPT ![MainThread][s] = o]
        PROVE  CellsInv'
    <3>1. /\ MainThread \in Heap /\ MainThread \in Obj /\ Kind[MainThread] = "thread"
          /\ s \in Slot
      BY ObjAssumption, TopType DEF ObjAssumption, Heap
    <3>2. key' = [key EXCEPT ![MainThread][s] = Nil]
      BY <1>10, <3>1, NoKeyWritten DEF CallFinalizer
    <3> QED BY <2>2, <2>3, <2>5, <3>1, <3>2, CellsPut
  <2> QED BY <2>1, <2>4, <2>5
<1> QED BY <1>1, <1>2, <1>3, <1>4, <1>5, <1>6, <1>7, <1>8, <1>9, <1>10, Collector
        DEF Collector

-----------------------------------------------------------------------------
(* GoodInv.                                                                *)

(* Steps after which the same objects are good. *)
LEMMA GoodSame ==
    ASSUME GoodInv, Good' = Good,
           (Roots \cup finobj \cup tobefnz)' \subseteq Good,
           \A o \in Good : Refs(o)' \subseteq Good
    PROVE  GoodInv'
  BY DEF GoodInv

(* Steps that write only nil, and leave the dead dead and the others alive.*)
LEMMA GoodKept ==
    ASSUME TypeOK, GoodInv, Heap' = Heap, mt' = mt,
           (finobj \cup tobefnz)' \subseteq finobj \cup tobefnz,
           \A x \in Heap : IsDead(x)' <=> IsDead(x),
           \A x \in Obj : Refs(x)' \subseteq Refs(x)
    PROVE  GoodInv'
<1>1. Good' = Good
  BY DEF Good
<1>2. Good \subseteq Obj
  BY GoodOperands
<1>3. \A o \in Good : Refs(o)' \subseteq Good
  BY <1>2 DEF GoodInv
<1>4. (Roots \cup finobj \cup tobefnz)' \subseteq Good
  BY DEF GoodInv, Roots
<1> QED BY <1>1, <1>3, <1>4, GoodSame

(* Writing a good value, and a good key or none, in a good object. *)
LEMMA PutRefs ==
    ASSUME TypeOK, NEW t \in Obj, NEW s \in Slot, NEW v \in Ref, NEW k \in Ref,
           val' = [val EXCEPT ![t][s] = v], key' = [key EXCEPT ![t][s] = k]
    PROVE  /\ \A x \in Obj : x # t => Refs(x)' = Refs(x)
           /\ Refs(t)' \subseteq Refs(t) \cup ({v, k} \ {Nil})
<1>1. /\ \A x \in Obj : x # t => val'[x] = val[x] /\ key'[x] = key[x]
      /\ \A i \in Slot : /\ val'[t][i] = IF i = s THEN v ELSE val[t][i]
                         /\ key'[t][i] = IF i = s THEN k ELSE key[t][i]
  BY DEF TypeOK
<1>2. \A x \in Obj : x # t => Refs(x)' = Refs(x)
  BY <1>1 DEF Refs, Keys, Values, Entries
<1>3. Values(t)' \subseteq Values(t) \cup ({v} \ {Nil})
  BY <1>1 DEF Values, Entries
<1>4. Keys(t)' \subseteq Keys(t) \cup ({k} \ {Nil})
  BY <1>1 DEF Keys, Entries
<1> QED BY <1>2, <1>3, <1>4 DEF Refs

LEMMA GoodPut ==
    ASSUME TypeOK, GoodInv, NEW t \in Obj, NEW s \in Slot, NEW v \in Good \cup {Nil},
           NEW k \in Good \cup {Nil},
           val' = [val EXCEPT ![t][s] = v], key' = [key EXCEPT ![t][s] = k],
           Heap' = Heap, mt' = mt, (finobj \cup tobefnz)' \subseteq finobj \cup tobefnz,
           \A x \in Heap : IsDead(x)' <=> IsDead(x)
    PROVE  GoodInv'
<1>1. Good' = Good /\ Good \subseteq Obj
  BY GoodOperands DEF Good
<1>2. v \in Ref /\ k \in Ref
  BY <1>1 DEF Ref
<1>3. /\ \A x \in Obj : x # t => Refs(x)' = Refs(x)
      /\ Refs(t)' \subseteq Refs(t) \cup ({v, k} \ {Nil})
  BY <1>2, PutRefs
<1>4. \A o \in Good : Refs(o)' \subseteq Good
  BY <1>1, <1>3 DEF GoodInv
<1>5. (Roots \cup finobj \cup tobefnz)' \subseteq Good
  BY DEF GoodInv, Roots
<1> QED BY <1>1, <1>4, <1>5, GoodSame

(* Nothing is dead from the start of a cycle to the flip of the whites, and*)
(* when a full collection gives up an unfinished cycle.                    *)
BeforeFlip ==
    \/ KeepInvariant \/ gcstate = "GCSpause"
    \/ gcstate = "GCSinsideatomic" /\ pc # "entersweep"

LEMMA NoneDead ==
    ASSUME SweepInv, BeforeFlip
    PROVE  \A x \in Heap : ~IsDead(x)
  BY DEF SweepInv, DeadInv, PcInv, KeepInvariant, BeforeFlip

LEMMA StillNoneDead ==
    ASSUME TypeOK, SweepInv, BeforeFlip, NoNewWhite, UNCHANGED currentwhite
    PROVE  \A x \in Heap : IsDead(x)' <=> IsDead(x)
<1>1. \A x \in Heap : ~IsDead(x)
  BY NoneDead
<1>2. \A x \in Heap : ~IsDead(x)'
  BY <1>1, HeapType DEF TypeOK, IsDead, NoNewWhite, White, OtherWhite
<1> QED BY <1>1, <1>2

(* Objects that get the current white were not dead. *)
LEMMA WhitenedAlive ==
    ASSUME TypeOK, UNCHANGED currentwhite,
           \A x \in Heap : \/ color'[x] = color[x]
                           \/ ~IsDead(x) /\ color'[x] \in {"gray", currentwhite}
    PROVE  \A x \in Heap : IsDead(x)' <=> IsDead(x)
  BY HeapType DEF TypeOK, IsDead, OtherWhite, White

LEMMA GoodProgram ==
    ASSUME TypeOK, SweepInv, GoodInv, CellsInv, Program
    PROVE  GoodInv'
<1>1. CASE NewObject
  <2>1. PICK o \in Obj \ Heap, s \in Top(MainThread) :
          /\ val' = [val EXCEPT ![MainThread][s] = o]
          /\ color' = [color EXCEPT ![o] = currentwhite]
          /\ allgc' = allgc \cup {o}
    BY <1>1 DEF NewObject
  <2>2. /\ MainThread \in Obj /\ Kind[MainThread] = "thread" /\ MainThread \in Heap
        /\ s \in Slot /\ o \in Ref /\ Nil \in Ref
    BY <2>1, ObjAssumption, TopType DEF ObjAssumption, Ref, Heap
  <2>3. key' = [key EXCEPT ![MainThread][s] = Nil] /\ key' = key
    BY <1>1, <2>2, NoKeyWritten DEF NewObject
  <2>4. /\ \A x \in Obj : x # MainThread => Refs(x)' = Refs(x)
        /\ Refs(MainThread)' \subseteq Refs(MainThread) \cup {o}
    <3>1. /\ \A x \in Obj : x # MainThread => Refs(x)' = Refs(x)
          /\ Refs(MainThread)' \subseteq Refs(MainThread) \cup ({o, Nil} \ {Nil})
      <4>1. key' = [key EXCEPT ![MainThread][s] = Nil]
        BY <2>3
      <4> QED BY <2>1, <2>2, <4>1, PutRefs
    <3> QED BY <3>1
  <2>5. Heap' = Heap \cup {o} /\ currentwhite' = currentwhite
    BY <1>1, <2>1 DEF NewObject, Heap, control
  <2>6. color'[o] = currentwhite /\ \A x \in Heap : color'[x] = color[x]
    BY <2>1, HeapType DEF TypeOK
  <2>7. Good' = Good \cup {o}
    BY <2>5, <2>6 DEF Good, IsDead, OtherWhite, TypeOK, White
  <2>8. Refs(o)' = {}
    <3>1. Refs(o) = {}
      BY <2>1 DEF CellsInv, Refs, Keys, Values, Entries
    <3> QED BY <2>1, <2>2, <2>4, <3>1
  <2>9. \A x \in Good' : Refs(x)' \subseteq Good'
    BY <2>4, <2>7, <2>8, GoodOperands DEF GoodInv
  <2>10. (Roots \cup finobj \cup tobefnz)' = Roots \cup finobj \cup tobefnz
    BY <1>1 DEF NewObject, Roots
  <2> QED BY <2>7, <2>9, <2>10 DEF GoodInv
<1>2. CASE Push
  <2>1. PICK th \in {MainThread} \cup {o \in Operands : Kind[o] = "thread"} :
          \E s \in Top(th), r \in Readable \ (Values(th) \cup {Registry}) :
            val' = [val EXCEPT ![th][s] = r]
    BY <1>2 DEF Push
  <2>2. PICK s \in Top(th), r \in Readable : val' = [val EXCEPT ![th][s] = r]
    BY <2>1
  <2>3. th \in Obj /\ Kind[th] = "thread" /\ r \in Good
    BY <2>1, <2>2, ObjAssumption, GoodOperands DEF ObjAssumption
  <2>4. s \in Slot
    BY <2>2, <2>3, TopType
  <2>5. key' = [key EXCEPT ![th][s] = Nil]
    BY <1>2, <2>3, <2>4, NoKeyWritten DEF Push
  <2>6. /\ Heap' = Heap /\ mt' = mt /\ (finobj \cup tobefnz)' = finobj \cup tobefnz
        /\ \A x \in Heap : IsDead(x)' <=> IsDead(x)
    BY <1>2 DEF Push, lists, control, Heap, IsDead
  <2> QED BY <2>2, <2>3, <2>4, <2>5, <2>6, GoodPut
<1>3. CASE Pop
  <2>1. PICK th, s : val' = [val EXCEPT ![th][s] = Nil]
    BY <1>3 DEF Pop
  <2>2. \A x \in Obj : \A i \in Slot : val'[x][i] \in {val[x][i], Nil}
    BY <2>1 DEF TypeOK
  <2>3. \A x \in Obj : Refs(x)' \subseteq Refs(x)
    BY <1>3, <2>2 DEF Pop, Refs, Keys, Values, Entries
  <2> QED BY <1>3, <2>3, GoodKept DEF Pop, lists, control, Heap, IsDead
<1>4. CASE TableSet
  <2>1. PICK t \in {o \in Operands : Kind[o] = "table"}, v \in Values(MainThread) \cup {Nil} :
          \E s \in Cell[t], k \in IF t \in Keyed THEN Values(MainThread) ELSE {Nil} :
            /\ key' = [key EXCEPT ![t][s] = k]
            /\ val' = [val EXCEPT ![t][s] = v]
            /\ BarrierBack(t, {k, v})
    BY <1>4 DEF TableSet
  <2>2. PICK s \in Cell[t], k \in Values(MainThread) \cup {Nil} :
          /\ key' = [key EXCEPT ![t][s] = k]
          /\ val' = [val EXCEPT ![t][s] = v]
          /\ BarrierBack(t, {k, v})
    BY <2>1
  <2>3. t \in Obj /\ v \in Good \cup {Nil} /\ k \in Good \cup {Nil}
    BY <2>1, <2>2, GoodOperands
  <2>4. s \in Slot
    BY <2>2, <2>3, ObjAssumption DEF ObjAssumption
  <2>5. \A x \in Heap : \/ color'[x] = color[x]
                        \/ ~IsDead(x) /\ color'[x] \in {"gray", currentwhite}
    BY <2>2, HeapType DEF BarrierBack, TypeOK, IsDead, OtherWhite
  <2>6. UNCHANGED currentwhite /\ \A x \in Heap : IsDead(x)' <=> IsDead(x)
    BY <1>4, <2>5, WhitenedAlive DEF TableSet, control
  <2>7. Heap' = Heap /\ mt' = mt /\ (finobj \cup tobefnz)' = finobj \cup tobefnz
    BY <1>4 DEF TableSet, lists, Heap
  <2> QED BY <2>2, <2>3, <2>4, <2>6, <2>7, GoodPut
<1>5. CASE SetField
  <2>1. PICK o \in {p \in Operands : Kind[p] \in {"closure", "udata"}},
             v \in Values(MainThread) \cup {Nil} :
          \E s \in Cell[o] : val' = [val EXCEPT ![o][s] = v] /\ Barrier(o, v)
    BY <1>5 DEF SetField
  <2>2. PICK s \in Cell[o] : val' = [val EXCEPT ![o][s] = v] /\ Barrier(o, v)
    BY <2>1
  <2>3. o \in Obj /\ Kind[o] # "table" /\ v \in Good \cup {Nil}
    BY <2>1, GoodOperands
  <2>4. s \in Slot
    BY <2>2, <2>3, ObjAssumption DEF ObjAssumption
  <2>5. key' = [key EXCEPT ![o][s] = Nil]
    BY <1>5, <2>3, <2>4, NoKeyWritten DEF SetField
  <2>6. UNCHANGED currentwhite
    BY <1>5 DEF SetField, control
  <2>7. \A x \in Heap : IsDead(x)' <=> IsDead(x)
    <3>1. CASE KeepInvariant
      BY <2>2, <2>6, <3>1, BarrierWhite, StillNoneDead DEF BeforeFlip
    <3>2. CASE ~KeepInvariant
      <4>1. \A x \in Heap : \/ color'[x] = color[x]
                            \/ ~IsDead(x) /\ color'[x] \in {"gray", currentwhite}
        BY <2>2, <3>2, HeapType DEF Barrier, TypeOK, IsDead, OtherWhite
      <4> QED BY <2>6, <4>1, WhitenedAlive
    <3> QED BY <3>1, <3>2
  <2>8. Heap' = Heap /\ mt' = mt /\ (finobj \cup tobefnz)' = finobj \cup tobefnz
    BY <1>5 DEF SetField, lists, Heap
  <2> QED BY <2>2, <2>3, <2>4, <2>5, <2>7, <2>8, GoodPut
<1>6. CASE SetMode \/ FullGC
  BY <1>6, GoodKept
     DEF SetMode, FullGC, cells, lists, control, Heap, IsDead, Refs, Keys, Values, Entries
<1>7. CASE SetGlobalMetatable
  <2>1. Good' = Good /\ \A o \in Good : Refs(o)' \subseteq Good
    BY <1>7 DEF SetGlobalMetatable, Good, Heap, IsDead, lists, control, GoodInv, Refs, Keys,
                Values, Entries
  <2>2. Roots' \subseteq Good /\ finobj' \cup tobefnz' \subseteq Good
    BY <1>7, GoodOperands DEF SetGlobalMetatable, lists, GoodInv, Roots
  <2> QED BY <2>1, <2>2, GoodSame
<1>8. CASE CheckFinalizer
  <2>1. PICK o \in Operands \cap Finalizable \cap allgc, S \in SUBSET unswept :
          /\ allgc' = allgc \ ({d \in S : IsDead(d)} \cup {o})
          /\ finobj' = finobj \cup {o}
          /\ color' = IF SweepPhase THEN [SweepColor(S) EXCEPT ![o] = currentwhite] ELSE color
          /\ key' = [d \in Obj |-> IF d \in {e \in S : IsDead(e)} THEN [s \in Slot |-> Nil]
                                   ELSE key[d]]
          /\ val' = [d \in Obj |-> IF d \in {e \in S : IsDead(e)} THEN [s \in Slot |-> Nil]
                                   ELSE val[d]]
    BY <1>8 DEF CheckFinalizer
  <2>2. UNCHANGED <<currentwhite, mt, tobefnz>>
    BY <1>8 DEF CheckFinalizer, control
  <2>3. o \in Good /\ Good \subseteq Obj
    BY <2>1, GoodOperands
  <2>4. \A x \in Good : x # o /\ SweepPhase => color'[x] = SweepColor(S)[x]
    BY <2>1, <2>3, SweepColorType
  <2>5. ASSUME NEW x \in Good PROVE x \in Good' /\ Refs(x)' = Refs(x)
    <3>1. x \in Heap' /\ Refs(x)' = Refs(x)
      BY <2>1, <2>2, <2>3, <2>5 DEF Good, Heap, Refs, Keys, Values, Entries
    <3>2. color'[x] \in {color[x], currentwhite}
      BY <2>1, <2>3, <2>4, SweepColorType DEF Good, SweepColor, TypeOK
    <3> QED BY <2>2, <3>1, <3>2 DEF Good, IsDead, OtherWhite, TypeOK, White
  <2>6. ASSUME NEW x \in Good' PROVE x \in Good
    <3>1. x \in Heap /\ x \in Obj
      BY <2>1, <2>2, HeapType DEF Good, Heap
    <3>2. CASE x \in S /\ IsDead(x)
      <4>1. x \in finobj \cup tobefnz \cup {MainThread, o}
        BY <2>1, <2>2, <2>6, <3>2 DEF Good, Heap
      <4> QED BY <2>3, <4>1, GoodOperands DEF GoodInv
    <3>3. CASE x \notin S /\ x # o
      <4>1. color'[x] = color[x]
        BY <2>1, <3>1, <3>3, SweepColorType DEF SweepColor
      <4> QED BY <2>2, <2>6, <3>1, <4>1 DEF Good, IsDead
    <3> QED BY <2>3, <3>1, <3>2, <3>3 DEF Good
  <2>7. Good' = Good
    BY <2>5, <2>6
  <2>8. (Roots \cup finobj \cup tobefnz)' \subseteq Good
    BY <2>1, <2>2, <2>3 DEF GoodInv, Roots
  <2>9. \A x \in Good : Refs(x)' \subseteq Good
    BY <2>5 DEF GoodInv
  <2> QED BY <2>7, <2>8, <2>9, GoodSame
<1> QED BY <1>1, <1>2, <1>3, <1>4, <1>5, <1>6, <1>7, <1>8, Program DEF Program

(* A sweep frees dead objects only and kills none. *)
LEMMA GoodSweep ==
    ASSUME TypeOK, GoodInv, NEW S, Sweep(S), UNCHANGED currentwhite
    PROVE  GoodInv'
<1>1. Good \subseteq Obj /\ Good \subseteq Heap /\ MainThread \in Good
  BY GoodOperands
<1>2. ASSUME NEW x \in Good PROVE x \in Good' /\ Refs(x)' = Refs(x)
  <2>1. x \in Heap' /\ Refs(x)' = Refs(x)
    BY <1>1, <1>2 DEF Good, Heap, Sweep, Refs, Keys, Values, Entries
  <2>2. color'[x] \in {color[x], currentwhite}
    BY <1>1, <1>2 DEF Good, Sweep, SweepColor
  <2> QED BY <2>1, <2>2 DEF Good, IsDead, OtherWhite, TypeOK, White
<1>3. ASSUME NEW x \in Good' PROVE x \in Good
  <2>1. x \in Heap /\ x \in Obj
    BY HeapType DEF Good, Heap, Sweep
  <2>2. CASE x \in S /\ IsDead(x)
    BY <1>1, <1>3, <2>2 DEF Good, Heap, Sweep
  <2>3. CASE x \notin S
    <3>1. color'[x] = color[x]
      BY <2>1, <2>3 DEF Sweep, SweepColor
    <3> QED BY <1>3, <2>1, <3>1 DEF Good, IsDead
  <2> QED BY <2>1, <2>2, <2>3 DEF Good
<1>4. Good' = Good
  BY <1>2, <1>3
<1>5. (Roots \cup finobj \cup tobefnz)' \subseteq Good
  BY DEF Sweep, GoodInv, Roots
<1>6. \A x \in Good : Refs(x)' \subseteq Good
  BY <1>2 DEF GoodInv
<1> QED BY <1>4, <1>5, <1>6, GoodSame

(* Steps before the flip, that mark and traverse, clear, or move objects   *)
(* from one list to another.                                               *)
LEMMA GoodMarking ==
    ASSUME TypeOK, SweepInv, GoodInv, BeforeFlip, NoNewWhite,
           UNCHANGED <<currentwhite, mt>>, Heap' = Heap,
           (finobj \cup tobefnz)' \subseteq finobj \cup tobefnz,
           \A x \in Obj : Keys(x)' \subseteq Keys(x) /\ Values(x)' \subseteq Values(x)
    PROVE  GoodInv'
<1>1. \A x \in Heap : IsDead(x)' <=> IsDead(x)
  BY StillNoneDead
<1>2. \A x \in Obj : Refs(x)' \subseteq Refs(x)
  BY DEF Refs
<1> QED BY <1>1, <1>2, GoodKept

LEMMA ClearRefs ==
    ASSUME TypeOK, NEW CK, NEW CV, ClearTables(CK, CV)
    PROVE  \A x \in Obj : Keys(x)' \subseteq Keys(x) /\ Values(x)' \subseteq Values(x)
<1>1. \A x \in Obj : \A s \in Slot : /\ val'[x][s] \in {val[x][s], Nil}
                                     /\ key'[x][s] \in {key[x][s], Nil}
  BY DEF ClearTables
<1> QED BY <1>1 DEF Keys, Values, Entries

LEMMA GoodCollector ==
    ASSUME TypeOK, SweepInv, GoodInv, CellsInv, RootsInv, FlipInv, Collector
    PROVE  GoodInv'
<1>1. CASE RestartCollection
  <2>1. NoNewWhite
    BY <1>1, MarkedColors DEF RestartCollection, NoNewWhite, White
  <2> QED BY <1>1, <2>1, GoodMarking
          DEF RestartCollection, cells, lists, Heap, Keys, Values, Entries, BeforeFlip
<1>2. CASE Propagate \/ AtomicPropagate
  <2>1. PICK o \in gray : PropagateMark(o)
    BY <1>2 DEF Propagate, AtomicPropagate
  <2>2. o \in Obj /\ Traversed(o) /\ NoNewWhite
    BY <2>1, TraversedObject, PropagateNoNewWhite DEF TypeOK
  <2>3. \A x \in Obj : Keys(x)' \subseteq Keys(x) /\ Values(x)' \subseteq Values(x)
    BY <2>2 DEF Traversed
  <2>4. BeforeFlip /\ UNCHANGED <<currentwhite, mt>> /\ UNCHANGED lists
    BY <1>2, <2>1
       DEF Propagate, AtomicPropagate, PropagateMark, control, SweepInv, PcInv, BeforeFlip,
           KeepInvariant
  <2> QED BY <2>2, <2>3, <2>4, GoodMarking DEF lists, Heap
<1>3. CASE AtomicBegin \/ AtomicGrayAgain \/ ConvergeRound \/ CallFinDone \/ FullGCDone
  BY <1>3, GoodKept
     DEF AtomicBegin, AtomicGrayAgain, ConvergeRound, CallFinDone, FullGCDone, control, cells,
         lists, Heap, IsDead, Refs, Keys, Values, Entries
<1>4. CASE AtomicRoots
  <2>1. NoNewWhite
    BY <1>4, MarkNoNewWhite DEF AtomicRoots
  <2>2. BeforeFlip
    BY <1>4 DEF AtomicRoots, SweepInv, PcInv, BeforeFlip, KeepInvariant
  <2> QED BY <1>4, <2>1, <2>2, GoodMarking
          DEF AtomicRoots, cells, lists, Heap, Keys, Values, Entries
<1>5. CASE ConvergeTable
  <2>1. PICK w \in todo : TraverseEphemeron(w)
    BY <1>5 DEF ConvergeTable
  <2>2. w \in Obj /\ Traversed(w) /\ NoNewWhite
    BY <1>5, <2>1, TraversedEphemeron, EphemeronNoNewWhite DEF TypeOK, ConvergeTable
  <2>3. \A x \in Obj : Keys(x)' \subseteq Keys(x) /\ Values(x)' \subseteq Values(x)
    BY <2>2 DEF Traversed
  <2>4. BeforeFlip /\ UNCHANGED <<currentwhite, mt>> /\ UNCHANGED lists
    BY <1>5 DEF ConvergeTable, control, SweepInv, PcInv, BeforeFlip
  <2> QED BY <2>2, <2>3, <2>4, GoodMarking DEF lists, Heap
<1>6. CASE AtomicClearValues \/ AtomicClearRest
  <2>1. PICK CK, CV : ClearTables(CK, CV)
    BY <1>6 DEF AtomicClearValues, AtomicClearRest
  <2>2. NoNewWhite /\ UNCHANGED mt
    <3>1. NoNewWhite
      BY <2>1, ClearNoNewWhite
    <3>2. UNCHANGED mt
      BY <2>1 DEF ClearTables
    <3> QED BY <3>1, <3>2
  <2>3. BeforeFlip /\ UNCHANGED currentwhite /\ UNCHANGED lists
    BY <1>6 DEF AtomicClearValues, AtomicClearRest, control, SweepInv, PcInv, BeforeFlip
  <2> QED BY <2>1, <2>2, <2>3, ClearRefs, GoodMarking DEF lists, Heap
<1>7. CASE AtomicSeparate
  <2>1. NoNewWhite
    BY <1>7, MarkNoNewWhite DEF AtomicSeparate
  <2>2. BeforeFlip
    BY <1>7 DEF AtomicSeparate, SweepInv, PcInv, BeforeFlip
  <2> QED BY <1>7, <2>1, <2>2, GoodMarking
          DEF AtomicSeparate, control, cells, Heap, Keys, Values, Entries
<1>8. CASE AtomicFlip
  <2>1. UNCHANGED <<color, key, val, mt, allgc, finobj, tobefnz>>
    BY <1>8 DEF AtomicFlip, cells, lists
  <2>2. \A x \in Heap : ~IsDead(x)
    BY <1>8, NoneDead DEF AtomicFlip, SweepInv, PcInv, BeforeFlip
  <2>3. \A x \in Heap : x \in Good' <=> color[x] \notin White
    BY <1>8, <2>1, <2>2, HeapType
       DEF AtomicFlip, Good, Heap, IsDead, OtherWhite, TypeOK, White
  <2>4. Good' \subseteq Heap /\ Heap = Good
    BY <2>1, <2>2 DEF Good, Heap
  <2>5. \A r \in Roots \cup finobj \cup tobefnz : color[r] \notin White
    BY <1>8 DEF AtomicFlip, RootsInv, Unwhite, SweepInv, MarkedInv, IsWhite
  <2>6. (Roots \cup finobj \cup tobefnz)' \subseteq Good'
    BY <2>1, <2>3, <2>4, <2>5 DEF GoodInv, Roots
  <2>7. \A x \in Good' : Refs(x)' \subseteq Good'
    <3>1. \A x \in Good' : Refs(x) \subseteq Heap /\ Unwhite(Refs(x))
      BY <1>8, <2>3, <2>4 DEF AtomicFlip, FlipInv, GoodInv
    <3>2. \A x \in Obj : Refs(x)' = Refs(x)
      BY <2>1 DEF Refs, Keys, Values, Entries
    <3> QED BY <2>3, <2>4, <3>1, <3>2, GoodOperands DEF Unwhite
  <2> QED BY <2>6, <2>7 DEF GoodInv
<1>9. CASE EnterSweep \/ SweepStep
  BY <1>9, GoodSweep DEF EnterSweep, SweepStep
<1>10. CASE SweepEnd
  <2>1. \A x \in Heap : \/ color'[x] = color[x]
                        \/ ~IsDead(x) /\ color'[x] \in {"gray", currentwhite}
    BY <1>10, HeapType, GoodOperands DEF SweepEnd, TypeOK, Good
  <2>2. UNCHANGED currentwhite /\ \A x \in Heap : IsDead(x)' <=> IsDead(x)
    BY <1>10, <2>1, WhitenedAlive DEF SweepEnd
  <2> QED BY <1>10, <2>2, GoodKept
          DEF SweepEnd, cells, lists, Heap, Refs, Keys, Values, Entries
<1>11. CASE CallFinalizer
  <2>1. PICK o \in tobefnz :
          /\ tobefnz' = tobefnz \ {o} /\ allgc' = allgc \cup {o}
          /\ color' = IF SweepPhase THEN [color EXCEPT ![o] = currentwhite] ELSE color
          /\ \/ \E s \in Top(MainThread) : val' = [val EXCEPT ![MainThread][s] = o]
             \/ val' = val
    BY <1>11 DEF CallFinalizer
  <2>2. o \in Good /\ Nil \in Good \cup {Nil}
    BY <2>1 DEF GoodInv
  <2>3. \A x \in Heap : \/ color'[x] = color[x]
                        \/ ~IsDead(x) /\ color'[x] \in {"gray", currentwhite}
    BY <2>1, <2>2, HeapType DEF TypeOK, Good
  <2>4. /\ UNCHANGED <<currentwhite, mt, finobj, key>> /\ Heap' = Heap
        /\ (finobj \cup tobefnz)' \subseteq finobj \cup tobefnz
    BY <1>11, <2>1 DEF CallFinalizer, control, Heap
  <2>5. \A x \in Heap : IsDead(x)' <=> IsDead(x)
    BY <2>3, <2>4, WhitenedAlive
  <2>6. CASE val' = val
    BY <2>4, <2>5, <2>6, GoodKept DEF Refs, Keys, Values, Entries
  <2>7. ASSUME NEW s \in Top(MainThread), val' = [val EXCEPT ![MainThread][s] = o]
        PROVE  GoodInv'
    <3>1. MainThread \in Obj /\ Kind[MainThread] = "thread" /\ s \in Slot
      BY ObjAssumption, TopType DEF ObjAssumption
    <3>2. key' = [key EXCEPT ![MainThread][s] = Nil]
      BY <2>4, <3>1, NoKeyWritten
    <3> QED BY <2>2, <2>4, <2>5, <2>7, <3>1, <3>2, GoodPut
  <2> QED BY <2>1, <2>6, <2>7
<1> QED BY <1>1, <1>2, <1>3, <1>4, <1>5, <1>6, <1>7, <1>8, <1>9, <1>10, <1>11, Collector
        DEF Collector

-----------------------------------------------------------------------------
(* BlackInv: the barriers of the program.                                  *)

(* Steps that write only nil and turn black only what refers to no white   *)
(* object.                                                                 *)
LEMMA BlackKept ==
    ASSUME TypeOK, BlackInv, Marking, NoNewWhite, Heap' \subseteq Heap,
           \A x \in Obj : Refs(x)' \subseteq Refs(x),
           \A x \in Heap : color'[x] = "black" /\ color[x] # "black" =>
             \A r \in Refs(x) : color'[r] \notin White
    PROVE  BlackInv'
<1> SUFFICES ASSUME NEW x \in Heap', color'[x] = "black", NEW r \in Refs(x)'
             PROVE  color'[r] \notin White
  BY DEF BlackInv, Unwhite
<1>1. x \in Heap /\ x \in Obj /\ r \in Refs(x) /\ r \in Obj
  BY HeapType, RefsType
<1>2. CASE color[x] = "black"
  <2>1. color[r] \notin White
    BY <1>1, <1>2 DEF BlackInv, Unwhite
  <2> QED BY <1>1, <2>1 DEF NoNewWhite
<1> QED BY <1>1, <1>2

(* Steps that write v, and perhaps a key k, in a cell of the object t. *)
LEMMA BlackPut ==
    ASSUME TypeOK, BlackInv, Marking, NoNewWhite, Heap' = Heap,
           NEW t \in Obj, NEW s \in Slot, NEW v \in Ref, NEW k \in Ref,
           val' = [val EXCEPT ![t][s] = v], key' = [key EXCEPT ![t][s] = k],
           \A x \in Heap : color'[x] = "black" /\ color[x] # "black" =>
             x # t /\ \A r \in Refs(x) : color'[r] \notin White,
           color'[t] = "black" => \A r \in {v, k} \ {Nil} : color'[r] \notin White
    PROVE  BlackInv'
<1> SUFFICES ASSUME NEW x \in Heap', color'[x] = "black", NEW r \in Refs(x)'
             PROVE  color'[r] \notin White
  BY DEF BlackInv, Unwhite
<1>1. /\ \A y \in Obj : y # t => Refs(y)' = Refs(y)
      /\ Refs(t)' \subseteq Refs(t) \cup ({v, k} \ {Nil})
  BY PutRefs
<1>2. x \in Heap /\ x \in Obj
  BY HeapType
<1>3. CASE r \notin Refs(x)
  BY <1>1, <1>2, <1>3
<1>4. CASE r \in Refs(x) /\ color[x] = "black"
  <2>1. color[r] \notin White /\ r \in Obj
    BY <1>2, <1>4, RefsType DEF BlackInv, Unwhite
  <2> QED BY <2>1 DEF NoNewWhite
<1>5. CASE r \in Refs(x) /\ color[x] # "black"
  BY <1>2, <1>5
<1> QED BY <1>3, <1>4, <1>5

LEMMA BarrierMarks ==
    ASSUME TypeOK, CellsInv, KeepInvariant, NEW o \in Obj, NEW v \in Ref, Barrier(o, v)
    PROVE  /\ NoNewWhite
           /\ \A x \in Obj : color'[x] = "black" /\ color[x] # "black" =>
                color[x] \in White /\ \A r \in Refs(x) : color'[r] \notin White
           /\ color'[o] = "black" /\ color[o] = "black" => v = Nil \/ color'[v] \notin White
<1>1. NoNewWhite
  BY BarrierWhite
<1>2. CASE color[o] = "black" /\ WhiteRef(v)
  <2> DEFINE S == {v}
  <2>1. S \subseteq Obj /\ color' = Marked(Marks(S)) /\ v \in S
    BY <1>2 DEF Barrier, Mark, WhiteRef, Ref
  <2> HIDE DEF S
  <2>2. /\ \A x \in Obj : color[x] \notin White => color'[x] = color[x]
        /\ \A x \in S : color'[x] \notin White
        /\ \A x \in Obj : color'[x] = "black" /\ color[x] # "black" =>
             \A r \in Refs(x) : color'[r] \notin White
    BY <2>1, MarkedEffect
  <2> QED BY <1>1, <2>1, <2>2
<1>3. CASE ~(color[o] = "black" /\ WhiteRef(v))
  <2>1. UNCHANGED color
    BY <1>3 DEF Barrier
  <2> QED BY <1>1, <1>3, <2>1 DEF WhiteRef
<1> QED BY <1>2, <1>3

LEMMA BlackProgram ==
    ASSUME TypeOK, SweepInv, GoodInv, CellsInv, BlackInv, Program
    PROVE  BlackInv'
<1>1. gcstate' = gcstate /\ pc = "idle"
  BY Program DEF Program, NewObject, Push, Pop, TableSet, SetField, SetMode,
     SetGlobalMetatable, CheckFinalizer, FullGC, control, ProgramRuns
<1>2. CASE ~Marking
  BY <1>1, <1>2 DEF BlackInv, Marking
<1>3. ASSUME Marking PROVE KeepInvariant /\ Heap \subseteq Good
  <2>1. KeepInvariant
    BY <1>1, <1>3 DEF SweepInv, PcInv, Marking, KeepInvariant
  <2> QED BY <2>1, NoneDead DEF Good, BeforeFlip
<1>4. CASE Marking /\ NewObject
  <2>1. PICK o \in Obj \ Heap, s \in Top(MainThread) :
          /\ val' = [val EXCEPT ![MainThread][s] = o]
          /\ color' = [color EXCEPT ![o] = currentwhite]
          /\ allgc' = allgc \cup {o}
    BY <1>4 DEF NewObject
  <2>2. /\ MainThread \in Obj /\ Kind[MainThread] = "thread" /\ MainThread \in Heap
    BY ObjAssumption DEF ObjAssumption, Heap
  <2>3. Heap' = Heap \cup {o} /\ key' = key
    BY <1>4, <2>1 DEF NewObject, Heap
  <2>4. /\ color'[o] \in White /\ color'[MainThread] # "black"
        /\ \A x \in Obj : x # o => color'[x] = color[x]
    BY <2>1, <2>2 DEF TypeOK, CellsInv
  <2>5. ASSUME NEW x \in Heap', color'[x] = "black", NEW r \in Refs(x)'
        PROVE  color'[r] \notin White
    <3>1. x # o /\ x # MainThread /\ x \in Heap /\ x \in Obj
      BY <2>3, <2>4, <2>5, HeapType DEF White
    <3>2. r \in Refs(x)
      BY <2>1, <2>3, <2>5, <3>1 DEF TypeOK, Refs, Keys, Values, Entries
    <3>3. r \in Heap /\ r \in Obj
      BY <1>3, <1>4, <3>1, <3>2, GoodOperands DEF GoodInv
    <3>4. r # o
      BY <2>1, <3>3
    <3> QED BY <1>4, <2>4, <2>5, <3>1, <3>2, <3>3, <3>4 DEF BlackInv, Unwhite
  <2> QED BY <2>5 DEF BlackInv, Unwhite
<1>5. CASE Marking /\ Push
  <2>1. PICK th \in {MainThread} \cup {o \in Operands : Kind[o] = "thread"} :
          \E s \in Top(th), r \in Readable \ (Values(th) \cup {Registry}) :
            val' = [val EXCEPT ![th][s] = r]
    BY <1>5 DEF Push
  <2>2. PICK s \in Top(th), r \in Readable : val' = [val EXCEPT ![th][s] = r]
    BY <2>1
  <2>3. th \in Obj /\ Kind[th] = "thread" /\ r \in Ref /\ Nil \in Ref
    BY <2>1, <2>2, ObjAssumption, OperandsType DEF ObjAssumption, Ref
  <2>4. s \in Slot
    BY <2>2, <2>3, TopType
  <2>5. key' = [key EXCEPT ![th][s] = Nil]
    BY <1>5, <2>3, <2>4, NoKeyWritten DEF Push
  <2>6. UNCHANGED color /\ color'[th] # "black" /\ NoNewWhite /\ Heap' = Heap
    BY <1>5, <2>3 DEF Push, CellsInv, NoNewWhite, lists, Heap
  <2> QED BY <1>5, <2>2, <2>3, <2>4, <2>5, <2>6, BlackPut
<1>6. CASE Marking /\ Pop
  <2>1. PICK th, s : val' = [val EXCEPT ![th][s] = Nil]
    BY <1>6 DEF Pop
  <2>2. \A x \in Obj : \A i \in Slot : val'[x][i] \in {val[x][i], Nil}
    BY <2>1 DEF TypeOK
  <2>3. \A x \in Obj : Refs(x)' \subseteq Refs(x)
    BY <1>6, <2>2 DEF Pop, Refs, Keys, Values, Entries
  <2> QED BY <1>6, <2>3, BlackKept DEF Pop, lists, Heap, NoNewWhite
<1>7. CASE Marking /\ TableSet
  <2>1. PICK t \in {o \in Operands : Kind[o] = "table"}, v \in Values(MainThread) \cup {Nil} :
          \E s \in Cell[t], k \in IF t \in Keyed THEN Values(MainThread) ELSE {Nil} :
            /\ key' = [key EXCEPT ![t][s] = k]
            /\ val' = [val EXCEPT ![t][s] = v]
            /\ BarrierBack(t, {k, v})
    BY <1>7 DEF TableSet
  <2>2. PICK s \in Cell[t], k \in Values(MainThread) \cup {Nil} :
          /\ key' = [key EXCEPT ![t][s] = k]
          /\ val' = [val EXCEPT ![t][s] = v]
          /\ BarrierBack(t, {k, v})
    BY <2>1
  <2>3. t \in Obj /\ v \in Ref /\ k \in Ref
    BY <2>1, <2>2, OperandsType, RefsType, ObjAssumption DEF ObjAssumption, Ref
  <2>4. s \in Slot
    BY <2>2, <2>3, ObjAssumption DEF ObjAssumption
  <2>5. NoNewWhite /\ \A x \in Obj : color'[x] = "black" => color[x] = "black"
    BY <2>2, <2>3, BarrierBackNoNewWhite, BarrierBackBlack
  <2>6. ASSUME color'[t] = "black", NEW r \in {v, k} \ {Nil} PROVE color'[r] \notin White
    BY <2>2, <2>3, <2>6 DEF BarrierBack, WhiteRef, TypeOK
  <2>7. Heap' = Heap
    BY <1>7 DEF TableSet, lists, Heap
  <2> QED BY <1>7, <2>2, <2>3, <2>4, <2>5, <2>6, <2>7, HeapType, BlackPut
<1>8. CASE Marking /\ SetField
  <2>1. PICK o \in {p \in Operands : Kind[p] \in {"closure", "udata"}},
             v \in Values(MainThread) \cup {Nil} :
          \E s \in Cell[o] : val' = [val EXCEPT ![o][s] = v] /\ Barrier(o, v)
    BY <1>8 DEF SetField
  <2>2. PICK s \in Cell[o] : val' = [val EXCEPT ![o][s] = v] /\ Barrier(o, v)
    BY <2>1
  <2>3. o \in Obj /\ Kind[o] # "table" /\ v \in Ref /\ Nil \in Ref
    BY <2>1, OperandsType, RefsType, ObjAssumption DEF ObjAssumption, Ref
  <2>4. s \in Slot
    BY <2>2, <2>3, ObjAssumption DEF ObjAssumption
  <2>5. key' = [key EXCEPT ![o][s] = Nil]
    BY <1>8, <2>3, <2>4, NoKeyWritten DEF SetField
  <2>6. /\ NoNewWhite
        /\ \A x \in Obj : color'[x] = "black" /\ color[x] # "black" =>
             color[x] \in White /\ \A r \in Refs(x) : color'[r] \notin White
        /\ color'[o] = "black" /\ color[o] = "black" => v = Nil \/ color'[v] \notin White
    BY <1>3, <1>8, <2>2, <2>3, BarrierMarks
  <2>7. color[o] # "black" => UNCHANGED color
    BY <2>2 DEF Barrier
  <2>8. Heap' = Heap
    BY <1>8 DEF SetField, lists, Heap
  <2>9. \A x \in Heap : color'[x] = "black" /\ color[x] # "black" =>
          x # o /\ \A r \in Refs(x) : color'[r] \notin White
    BY <2>6, <2>7, HeapType
  <2>10. color'[o] = "black" => \A r \in {v, Nil} \ {Nil} : color'[r] \notin White
    BY <2>6, <2>7
  <2> QED BY <1>8, <2>2, <2>3, <2>4, <2>5, <2>6, <2>8, <2>9, <2>10, BlackPut
<1>9. CASE Marking /\ (SetMode \/ SetGlobalMetatable \/ FullGC)
  <2>1. UNCHANGED <<color, key, val>> /\ Heap' = Heap
    BY <1>9 DEF SetMode, SetGlobalMetatable, FullGC, cells, lists, Heap
  <2>2. NoNewWhite /\ \A x \in Obj : Refs(x)' \subseteq Refs(x)
    BY <2>1 DEF NoNewWhite, Refs, Keys, Values, Entries
  <2> QED BY <1>9, <2>1, <2>2, BlackKept
<1>10. CASE Marking /\ CheckFinalizer
  <2>1. PICK o \in Operands \cap Finalizable \cap allgc, S \in SUBSET unswept :
          /\ S # {} => gcstate = "GCSswpallgc"
          /\ allgc' = allgc \ ({d \in S : IsDead(d)} \cup {o})
          /\ finobj' = finobj \cup {o}
          /\ color' = IF SweepPhase THEN [SweepColor(S) EXCEPT ![o] = currentwhite] ELSE color
          /\ key' = [d \in Obj |-> IF d \in {e \in S : IsDead(e)} THEN [s \in Slot |-> Nil]
                                   ELSE key[d]]
          /\ val' = [d \in Obj |-> IF d \in {e \in S : IsDead(e)} THEN [s \in Slot |-> Nil]
                                   ELSE val[d]]
    BY <1>10 DEF CheckFinalizer
  <2>2. S = {} /\ color' = color /\ NoNewWhite
    BY <1>10, <2>1 DEF Marking, SweepPhase, NoNewWhite
  <2>3. \A x \in Obj : Refs(x)' \subseteq Refs(x)
    BY <2>1, <2>2 DEF Refs, Keys, Values, Entries
  <2>4. Heap' \subseteq Heap
    BY <1>10, <2>1 DEF CheckFinalizer, Heap
  <2> QED BY <1>10, <2>2, <2>3, <2>4, BlackKept
<1> QED BY <1>2, <1>4, <1>5, <1>6, <1>7, <1>8, <1>9, <1>10, Program DEF Program

-----------------------------------------------------------------------------
(* ListedInv: the gray lists between two steps.                            *)

(* Marking objects of the heap. *)
LEMMA ListedMark ==
    ASSUME TypeOK, GoodInv, CellsInv, Listed, Heap \subseteq Good, NEW S, S \subseteq Heap,
           color' = Marked(Marks(S)), gray' = gray \cup ToGray(Marks(S)),
           UNCHANGED <<grayagain, weak, ephemeron, allweak>>, Heap' = Heap
    PROVE  Listed'
<1>1. Heap \subseteq Obj /\ S \subseteq Obj
  BY HeapType
<1>2. /\ \A x \in Obj : color[x] \notin White => color'[x] = color[x]
      /\ \A x \in Obj : color'[x] = "gray" /\ color[x] # "gray" => x \in ToGray(Marks(S))
      /\ \A x \in ToGray(Marks(S)) : x \in Obj /\ color[x] \in White /\ color'[x] = "gray"
  BY <1>1, MarkedEffect
<1>3. Marks(S) \subseteq Heap
  <2>1. \A o \in Heap : Refs(o) \subseteq Heap
    BY DEF GoodInv, Good
  <2> QED BY <1>1, <2>1, MarksWithin
<1>4. ToGray(Marks(S)) \subseteq Heap
  BY <1>3 DEF ToGray
<1>5. \A x \in gray \cup grayagain \cup allweak : x \in Obj /\ color[x] = "gray"
  BY <1>1 DEF Listed
<1>6. \A o \in Heap : color'[o] = "gray" <=> o \in gray' \cup grayagain' \cup allweak'
  BY <1>1, <1>2, <1>5 DEF Listed, White
<1>7. ToGray(Marks(S)) \cap (gray \cup grayagain \cup allweak) = {}
  BY <1>2, <1>5 DEF White
<1> QED BY <1>4, <1>6, <1>7 DEF Listed

LEMMA ListedProgram ==
    ASSUME TypeOK, SweepInv, GoodInv, CellsInv, ListedInv, Program
    PROVE  ListedInv'
<1> SUFFICES ASSUME KeepInvariant', pc' = "idle"
             PROVE  Listed' /\ (gcstate' = "GCSpropagate" => gray' # {})
  BY DEF ListedInv
<1>1. gcstate' = gcstate /\ pc = "idle" /\ ~FullGC
  BY Program DEF Program, NewObject, Push, Pop, TableSet, SetField, SetMode,
     SetGlobalMetatable, CheckFinalizer, FullGC, control, ProgramRuns, KeepInvariant
<1>2. /\ KeepInvariant /\ Listed /\ (gcstate = "GCSpropagate" => gray # {})
      /\ Heap \subseteq Good
  BY <1>1, NoneDead DEF ListedInv, KeepInvariant, BeforeFlip, Good
<1>3. CASE NewObject
  <2>1. PICK o \in Obj \ Heap :
          /\ color' = [color EXCEPT ![o] = currentwhite]
          /\ allgc' = allgc \cup {o}
    BY <1>3 DEF NewObject
  <2>2. Heap' = Heap \cup {o} /\ UNCHANGED graylists
    BY <1>3, <2>1 DEF NewObject, Heap
  <2>3. color'[o] # "gray" /\ \A x \in Heap : color'[x] = color[x]
    BY <2>1, HeapType DEF TypeOK, White
  <2> QED BY <1>1, <1>2, <2>1, <2>2, <2>3 DEF Listed, graylists
<1>4. CASE Push \/ Pop \/ SetMode \/ SetGlobalMetatable
  BY <1>1, <1>2, <1>4
     DEF Push, Pop, SetMode, SetGlobalMetatable, lists, graylists, Heap, Listed
<1>5. CASE TableSet
  <2>1. PICK t \in Operands : \E R : BarrierBack(t, R)
    BY <1>5 DEF TableSet
  <2>2. t \in Heap /\ t \in Obj
    BY <2>1, GoodOperands
  <2>3. Heap' = Heap /\ UNCHANGED <<gray, weak, ephemeron, allweak>>
    BY <1>5 DEF TableSet, lists, Heap
  <2>4. CASE UNCHANGED <<color, grayagain>>
    BY <1>1, <1>2, <2>3, <2>4 DEF Listed
  <2>5. CASE /\ color[t] = "black" /\ color' = [color EXCEPT ![t] = "gray"]
             /\ grayagain' = grayagain \cup {t}
    <3>1. t \notin gray \cup grayagain \cup allweak
      BY <1>2, <2>2, <2>5 DEF Listed
    <3>2. color'[t] = "gray" /\ \A x \in Heap : x # t => color'[x] = color[x]
      BY <2>2, <2>5, HeapType DEF TypeOK
    <3> QED BY <1>1, <1>2, <2>2, <2>3, <2>5, <3>1, <3>2 DEF Listed
  <2> QED BY <2>1, <2>4, <2>5 DEF BarrierBack
<1>6. CASE SetField
  <2>1. PICK o \in Operands, v \in Values(MainThread) \cup {Nil} : Barrier(o, v)
    BY <1>6 DEF SetField
  <2>2. Heap' = Heap /\ UNCHANGED <<grayagain, weak, ephemeron, allweak>>
    BY <1>6 DEF SetField, lists, Heap
  <2>3. CASE UNCHANGED <<color, gray>>
    BY <1>1, <1>2, <2>2, <2>3 DEF Listed
  <2>4. CASE WhiteRef(v) /\ Mark({v})
    <3> DEFINE S == {v}
    <3>1. /\ S \subseteq Heap /\ color' = Marked(Marks(S))
          /\ gray' = gray \cup ToGray(Marks(S))
      BY <2>1, <2>4, GoodOperands DEF WhiteRef, Mark
    <3> HIDE DEF S
    <3>2. Listed'
      BY <1>2, <2>2, <3>1, ListedMark
    <3> QED BY <1>1, <1>2, <3>1, <3>2
  <2> QED BY <1>2, <2>1, <2>3, <2>4 DEF Barrier
<1>7. CASE CheckFinalizer
  <2>1. /\ \E o \in allgc : /\ allgc' = allgc \ {o} /\ finobj' = finobj \cup {o}
        /\ color' = color
    BY <1>2, <1>7 DEF CheckFinalizer, KeepInvariant, SweepPhase
  <2>2. Heap' = Heap /\ UNCHANGED graylists
    BY <1>7, <2>1 DEF CheckFinalizer, Heap
  <2> QED BY <1>1, <1>2, <2>1, <2>2 DEF Listed, graylists
<1> QED BY <1>1, <1>3, <1>4, <1>5, <1>6, <1>7, Program DEF Program

(* Traversing o in the propagate state takes it from gray; it becomes      *)
(* black or goes to grayagain or allweak.                                  *)
LEMMA ListedMove ==
    ASSUME TypeOK, GoodInv, CellsInv, Listed, Heap \subseteq Good, NEW o \in gray,
           NEW S, S \subseteq Heap, NEW c, c = Marked(Marks(S)),
           gray' = (gray \ {o}) \cup ToGray(Marks(S)), Heap' = Heap,
           \A x \in Heap : x # o => color'[x] = c[x],
           \/ color'[o] = "black" /\ grayagain' = grayagain /\ allweak' = allweak
           \/ color'[o] = "gray" /\ grayagain' = grayagain \cup {o} /\ allweak' = allweak
           \/ color'[o] = "gray" /\ grayagain' = grayagain /\ allweak' = allweak \cup {o},
           weak' = weak, ephemeron' = ephemeron
    PROVE  Listed'
<1> DEFINE G == ToGray(Marks(S))
<1>1. Heap \subseteq Obj /\ S \subseteq Obj
  BY HeapType
<1>2. /\ \A x \in Obj : color[x] \notin White => c[x] = color[x]
      /\ \A x \in Obj : c[x] = "gray" /\ color[x] # "gray" => x \in G
      /\ \A x \in G : x \in Obj /\ color[x] \in White /\ c[x] = "gray"
  BY <1>1, MarkedEffect
<1>3. G \subseteq Heap
  <2>1. \A x \in Heap : Refs(x) \subseteq Heap
    BY DEF GoodInv, Good
  <2> QED BY <1>1, <2>1, MarksWithin DEF ToGray
<1>4. gray' = (gray \ {o}) \cup G
  OBVIOUS
<1> HIDE DEF G
<1>5. \A x \in gray \cup grayagain \cup allweak : x \in Obj /\ color[x] = "gray" /\ x \notin G
  BY <1>1, <1>2 DEF Listed, White
<1>6. o \in Heap /\ o \notin grayagain \cup allweak \cup gray'
  BY <1>4, <1>5 DEF Listed
<1>7. ASSUME NEW x \in Heap, x # o
      PROVE  color'[x] = "gray" <=> x \in gray' \cup grayagain' \cup allweak'
  <2>1. color'[x] = c[x] /\ x \in Obj
    BY <1>1, <1>7
  <2>2. x \in gray' \cup grayagain' \cup allweak' <=> x \in gray \cup grayagain \cup allweak \cup G
    BY <1>4, <1>7
  <2> QED BY <1>2, <1>5, <1>7, <2>1, <2>2 DEF Listed, White
<1>8. color'[o] = "gray" <=> o \in gray' \cup grayagain' \cup allweak'
  BY <1>6
<1>9. gray' \cup grayagain' \cup allweak' \subseteq Heap
  BY <1>3, <1>4, <1>6 DEF Listed
<1>10. gray' \cap grayagain' = {} /\ gray' \cap allweak' = {} /\ grayagain' \cap allweak' = {}
  BY <1>4, <1>5, <1>6 DEF Listed
<1> QED BY <1>7, <1>8, <1>9, <1>10 DEF Listed

LEMMA ListedTraversal ==
    ASSUME TypeOK, GoodInv, CellsInv, Listed, Heap \subseteq Good, NEW o \in gray,
           PropagateMark(o), gcstate = "GCSpropagate"
    PROVE  Listed'
<1>1. o \in Obj /\ o \in Heap /\ color[o] = "gray" /\ Heap \subseteq Obj
  BY HeapType DEF TypeOK, Listed
<1>2. Heap' = Heap /\ Refs(o) \subseteq Heap
  BY <1>1 DEF PropagateMark, lists, Heap, GoodInv, Good
<1>3. CASE TraverseStrong(o)
  <2> DEFINE c == Marked(Marks(Refs(o)))
  <2>1. c \in [Obj -> Colors]
    BY MarkedColors
  <2>2. color' = [c EXCEPT ![o] = IF Kind[o] = "thread" THEN "gray" ELSE "black"]
    BY <1>3 DEF TraverseStrong
  <2>3. c = Marked(Marks(Refs(o)))
    OBVIOUS
  <2> HIDE DEF c
  <2>4. /\ color'[o] = IF Kind[o] = "thread" THEN "gray" ELSE "black"
        /\ \A x \in Heap : x # o => color'[x] = c[x]
    BY <1>1, <2>1, <2>2
  <2> QED BY <1>2, <1>3, <2>3, <2>4, ListedMove DEF TraverseStrong
<1>4. CASE TraverseWeakValue(o)
  <2>1. PICK seen \in SUBSET Strings(Values(o)) :
          /\ color' = Marked(Marks(Keys(o) \cup seen))
          /\ gray' = (gray \ {o}) \cup ToGray(Marks(Keys(o) \cup seen))
          /\ grayagain' = grayagain \cup {o}
          /\ weak' = weak
    BY <1>4 DEF TraverseWeakValue
  <2> DEFINE S == Keys(o) \cup seen
  <2>2. S \subseteq Heap /\ S \subseteq Obj
    BY <1>1, <1>2 DEF Refs, Strings
  <2>3. color' = Marked(Marks(S)) /\ gray' = (gray \ {o}) \cup ToGray(Marks(S))
    BY <2>1
  <2> HIDE DEF S
  <2>4. color'[o] = "gray"
    BY <1>1, <2>2, <2>3, MarkedEffect DEF White
  <2>5. allweak' = allweak /\ ephemeron' = ephemeron
    BY <1>4 DEF TraverseWeakValue
  <2> QED BY <1>2, <2>1, <2>2, <2>3, <2>4, <2>5, ListedMove
<1>5. CASE TraverseEphemeron(o)
  <2> DEFINE S == Released(o) \cup Strings(Keys(o))
  <2>1. S \subseteq Heap /\ S \subseteq Obj
    BY <1>1, <1>2 DEF Refs, Values, Released, Strings
  <2>2. color' = Marked(Marks(S)) /\ gray' = (gray \ {o}) \cup ToGray(Marks(S))
    BY <1>5 DEF TraverseEphemeron, EphemeronMarks
  <2> HIDE DEF S
  <2>3. color'[o] = "gray"
    BY <1>1, <2>1, <2>2, MarkedEffect DEF White
  <2>4. /\ grayagain' = grayagain \cup {o} /\ allweak' = allweak
        /\ weak' = weak /\ ephemeron' = ephemeron
    BY <1>5 DEF TraverseEphemeron
  <2> QED BY <1>2, <2>1, <2>2, <2>3, <2>4, ListedMove
<1>6. CASE TraverseAllWeak(o)
  BY <1>1, <1>2, <1>6 DEF TraverseAllWeak, Listed
<1> QED BY <1>3, <1>4, <1>5, <1>6 DEF PropagateMark

LEMMA ListedCollector ==
    ASSUME TypeOK, SweepInv, AllWhiteAtPause, GoodInv, CellsInv, ListedInv, Collector
    PROVE  ListedInv'
<1> SUFFICES ASSUME KeepInvariant', pc' = "idle"
             PROVE  Listed' /\ (gcstate' = "GCSpropagate" => gray' # {})
  BY DEF ListedInv
<1>1. CASE RestartCollection
  <2> DEFINE S == Roots \cup tobefnz
  <2>1. \A x \in Heap : x \in Good /\ color[x] = currentwhite
    BY <1>1, NoneDead DEF RestartCollection, AllWhiteAtPause, BeforeFlip, Good
  <2>2. S \subseteq Heap /\ Heap \subseteq Obj /\ S \subseteq Obj
    BY HeapType DEF GoodInv, Good
  <2>3. Marks(S) \subseteq Heap
    <3>1. \A x \in Heap : Refs(x) \subseteq Heap
      BY <2>1 DEF GoodInv, Good
    <3> QED BY <2>2, <3>1, MarksWithin
  <2>4. /\ color' = Marked(Marks(S)) /\ gray' = ToGray(Marks(S))
        /\ grayagain' = {} /\ weak' = {} /\ ephemeron' = {} /\ allweak' = {}
        /\ Heap' = Heap
    BY <1>1 DEF RestartCollection, lists, Heap
  <2>5. MainThread \in gray'
    <3>1. MainThread \in S \cap Obj /\ MainThread \in Heap /\ Kind[MainThread] = "thread"
      BY ObjAssumption DEF ObjAssumption, Roots, Heap
    <3>2. color[MainThread] \in White
      BY <2>1, <3>1 DEF TypeOK
    <3>3. MainThread \in Marks(S)
      BY <3>1, <3>2, MarksClosed
    <3> QED BY <2>4, <3>1, <3>3 DEF ToGray, AtOnce
  <2> HIDE DEF S
  <2>6. \A x \in Heap : color'[x] = "gray" <=> x \in gray'
    <3>1. /\ \A x \in Obj : color'[x] = "gray" /\ color[x] # "gray" => x \in ToGray(Marks(S))
          /\ \A x \in ToGray(Marks(S)) : color'[x] = "gray"
      BY <2>2, <2>4, MarkedEffect
    <3>2. \A x \in Heap : color[x] # "gray"
      BY <2>1 DEF TypeOK, White
    <3> QED BY <2>2, <2>4, <3>1, <3>2
  <2> QED BY <2>3, <2>4, <2>5, <2>6 DEF Listed, ToGray
<1>2. CASE Propagate
  <2>1. PICK o \in gray : PropagateMark(o)
    BY <1>2 DEF Propagate
  <2>2. gcstate = "GCSpropagate" /\ Listed /\ Heap \subseteq Good
    BY <1>2, NoneDead DEF Propagate, ListedInv, KeepInvariant, BeforeFlip, Good
  <2>3. Listed'
    BY <2>1, <2>2, ListedTraversal
  <2> QED BY <1>2, <2>3 DEF Propagate
<1>3. CASE CallFinalizer
  <2>1. gcstate' = gcstate /\ UNCHANGED graylists
    BY <1>3 DEF CallFinalizer, control
  <2>2. KeepInvariant /\ pc = "idle"
    BY <1>3, <2>1 DEF CallFinalizer, KeepInvariant
  <2>3. UNCHANGED color /\ Heap' = Heap
    BY <1>3, <2>2 DEF CallFinalizer, KeepInvariant, SweepPhase, Heap
  <2> QED BY <2>1, <2>2, <2>3 DEF ListedInv, Listed, graylists
<1> QED BY <1>1, <1>2, <1>3, Collector
        DEF Collector, SweepInv, PcInv, KeepInvariant, AtomicBegin, AtomicPropagate, AtomicRoots,
            AtomicGrayAgain, ConvergeRound, ConvergeTable, AtomicClearValues, AtomicSeparate,
            AtomicClearRest, AtomicFlip, EnterSweep, SweepStep, SweepEnd, CallFinDone,
            FullGCDone

LEMMA BlackCollector ==
    ASSUME TypeOK, SweepInv, AllWhiteAtPause, GoodInv, CellsInv, BlackInv, Collector
    PROVE  BlackInv'
<1>1. CASE RestartCollection
  <2> DEFINE S == Roots \cup tobefnz
  <2>1. \A x \in Heap : x \in Obj /\ color[x] # "black"
    BY <1>1, HeapType DEF RestartCollection, AllWhiteAtPause, TypeOK, White
  <2>2. S \subseteq Obj /\ color' = Marked(Marks(S))
    BY <1>1, HeapType DEF RestartCollection, GoodInv, Good
  <2> HIDE DEF S
  <2>3. \A x \in Obj : color'[x] = "black" /\ color[x] # "black" =>
          \A r \in Refs(x) : color'[r] \notin White
    BY <2>2, MarkedEffect
  <2>4. Heap' = Heap /\ \A x \in Obj : Refs(x)' = Refs(x)
    BY <1>1 DEF RestartCollection, lists, cells, Heap, Refs, Keys, Values, Entries
  <2> QED BY <2>1, <2>3, <2>4 DEF BlackInv, Unwhite
<1>2. CASE Propagate \/ AtomicPropagate
  <2>1. PICK o \in gray : PropagateMark(o)
    BY <1>2 DEF Propagate, AtomicPropagate
  <2>2. o \in Obj /\ Traversed(o) /\ NoNewWhite /\ Heap' = Heap
    BY <2>1, TraversedObject, PropagateNoNewWhite DEF TypeOK, PropagateMark, lists, Heap
  <2>3. Marking
    BY <1>2 DEF Propagate, AtomicPropagate, SweepInv, PcInv, Marking
  <2> QED BY <2>2, <2>3, HeapType, BlackKept DEF Traversed, Refs
<1>3. CASE AtomicBegin \/ AtomicGrayAgain \/ ConvergeRound \/ AtomicFlip
  <2>1. /\ UNCHANGED <<color, key, val>> /\ Heap' = Heap /\ gcstate' = gcstate
    BY <1>3 DEF AtomicBegin, AtomicGrayAgain, ConvergeRound, AtomicFlip, control, cells, lists,
                Heap
  <2> QED BY <2>1 DEF BlackInv, Marking, Unwhite, Refs, Keys, Values, Entries
<1>4. CASE AtomicRoots \/ AtomicSeparate
  <2>1. PICK S : S \subseteq Obj /\ Mark(S)
    <3>1. tobefnz \cup finobj \cup Roots \subseteq Obj
      BY HeapType DEF GoodInv, Good
    <3>2. AtomicSeparate => tobefnz' \subseteq Obj
      BY <3>1 DEF AtomicSeparate
    <3> QED BY <1>4, <3>1, <3>2 DEF AtomicRoots, AtomicSeparate
  <2>2. NoNewWhite
    BY <2>1, MarkNoNewWhite
  <2>3. Heap' = Heap /\ \A x \in Obj : Refs(x)' \subseteq Refs(x)
    BY <1>4 DEF AtomicRoots, AtomicSeparate, lists, cells, Heap, Refs, Keys, Values, Entries
  <2>4. \A x \in Obj : color'[x] = "black" /\ color[x] # "black" =>
          \A r \in Refs(x) : color'[r] \notin White
    BY <2>1, MarkedEffect DEF Mark
  <2>5. Marking
    BY <1>4 DEF AtomicRoots, AtomicSeparate, SweepInv, PcInv, Marking
  <2> QED BY <2>2, <2>3, <2>4, <2>5, HeapType, BlackKept
<1>5. CASE ConvergeTable
  <2>1. PICK w \in todo : TraverseEphemeron(w)
    BY <1>5 DEF ConvergeTable
  <2>2. w \in Obj /\ Traversed(w) /\ NoNewWhite /\ Heap' = Heap
    BY <1>5, <2>1, TraversedEphemeron, EphemeronNoNewWhite
       DEF TypeOK, ConvergeTable, lists, Heap
  <2>3. Marking
    BY <1>5 DEF ConvergeTable, SweepInv, PcInv, Marking
  <2> QED BY <2>2, <2>3, HeapType, BlackKept DEF Traversed, Refs
<1>6. CASE AtomicClearValues \/ AtomicClearRest
  <2>1. PICK CK, CV : ClearTables(CK, CV)
    BY <1>6 DEF AtomicClearValues, AtomicClearRest
  <2>2. \A x \in Obj : color'[x] = "black" /\ color[x] # "black" =>
          \A r \in Refs(x) : color'[r] \notin White
    BY <2>1, ClearCells, MarkedEffect
  <2>3. NoNewWhite
    BY <2>1, ClearNoNewWhite
  <2>4. \A x \in Obj : Refs(x)' \subseteq Refs(x)
    BY <2>1, ClearRefs DEF Refs
  <2>5. Heap' = Heap /\ Marking
    BY <1>6 DEF AtomicClearValues, AtomicClearRest, lists, Heap, SweepInv, PcInv, Marking
  <2> QED BY <2>2, <2>3, <2>4, <2>5, HeapType, BlackKept
<1>7. CASE EnterSweep \/ SweepStep \/ SweepEnd \/ CallFinDone \/ FullGCDone
  BY <1>7 DEF EnterSweep, SweepStep, SweepEnd, CallFinDone, FullGCDone, BlackInv, Marking
<1>8. CASE CallFinalizer
  <2>1. gcstate' = gcstate /\ key' = key /\ Heap' = Heap
    BY <1>8 DEF CallFinalizer, control, Heap
  <2>2. CASE ~Marking
    BY <2>1, <2>2 DEF Marking, BlackInv
  <2>3. CASE Marking
    <3>1. UNCHANGED color /\ NoNewWhite
      BY <1>8, <2>3 DEF CallFinalizer, Marking, SweepPhase, NoNewWhite
    <3>2. CASE val' = val
      BY <2>1, <2>3, <3>1, <3>2, BlackKept DEF Refs, Keys, Values, Entries
    <3>3. ASSUME NEW s \in Top(MainThread), NEW o \in tobefnz,
                 val' = [val EXCEPT ![MainThread][s] = o]
          PROVE  BlackInv'
      <4>1. /\ MainThread \in Obj /\ Kind[MainThread] = "thread" /\ s \in Slot
            /\ o \in Ref /\ Nil \in Ref
        BY ObjAssumption, TopType, HeapType DEF ObjAssumption, Ref, Heap
      <4>2. key' = [key EXCEPT ![MainThread][s] = Nil]
        BY <2>1, <4>1, NoKeyWritten
      <4>3. color'[MainThread] # "black"
        BY <3>1, <4>1 DEF CellsInv
      <4> QED BY <2>1, <2>3, <3>1, <3>3, <4>1, <4>2, <4>3, BlackPut
    <3> QED BY <1>8, <3>2, <3>3 DEF CallFinalizer
  <2> QED BY <2>2, <2>3
<1> QED BY <1>1, <1>2, <1>3, <1>4, <1>5, <1>6, <1>7, <1>8, Collector DEF Collector

-----------------------------------------------------------------------------
(* The atomic phase.                                                       *)

(* Between two steps, most of it says nothing. *)
LEMMA AtomicIdle ==
    ASSUME pc' \in {"idle", "entersweep"}, again' = {}, todo' = {}
    PROVE  AtomicInv'
  BY DEF AtomicInv, LocalsInv, GrayInv, InAtomic, WeakInv, ConvergeInv, RootsInv, FlipInv

(* In the atomic phase objects only lose white objects and references. *)
Fewer ==
    /\ NoNewWhite
    /\ \A x \in Obj : Keys(x)' \subseteq Keys(x) /\ Values(x)' \subseteq Values(x)

LEMMA StillUnwhite ==
    ASSUME TypeOK, Fewer
    PROVE  /\ \A x \in Obj : Unwhite(Keys(x)) => Unwhite(Keys(x))'
           /\ \A x \in Obj : Unwhite(Values(x)) => Unwhite(Values(x))'
           /\ \A x \in Obj : Unwhite(Refs(x)) => Unwhite(Refs(x))'
           /\ mt' = mt => (Unwhite(Roots) => Unwhite(Roots)')
<1>1. \A r \in Obj : color[r] \notin White => color'[r] \notin White
  BY DEF Fewer, NoNewWhite
<1>2. \A x \in Obj : /\ Keys(x)' \subseteq Keys(x) /\ Values(x)' \subseteq Values(x)
                     /\ Keys(x) \subseteq Obj /\ Values(x) \subseteq Obj
  BY RefsType DEF Fewer
<1>3. Roots \subseteq Obj /\ (mt' = mt => Roots' = Roots)
  BY ObjAssumption DEF ObjAssumption, Roots, TypeOK, Ref
<1> QED BY <1>1, <1>2, <1>3 DEF Unwhite, Refs

(* What holds of the weak tables and of the roots goes on holding. *)
LEMMA AtomicKept ==
    ASSUME TypeOK, Fewer, WeakInv, RootsInv, mt' = mt,
           InAtomic,
           UNCHANGED <<origweak, origall>>,
           \A x \in weak' \ weak : Unwhite(Keys(x))',
           pc' \in {"separate", "resurrect", "converge2"} =>
             pc \in {"separate", "resurrect", "converge2"},
           pc' # "propagateall" => pc # "propagateall"
    PROVE  WeakInv' /\ RootsInv'
<1>1. /\ \A x \in Obj : Unwhite(Keys(x)) => Unwhite(Keys(x))'
      /\ \A x \in Obj : Unwhite(Values(x)) => Unwhite(Values(x))'
      /\ Unwhite(Roots) => Unwhite(Roots)'
  BY StillUnwhite
<1>2. weak \subseteq Obj /\ origweak \subseteq Obj /\ origall \subseteq Obj
  BY DEF TypeOK
<1>3. ASSUME NEW x \in weak' PROVE Unwhite(Keys(x))'
  BY <1>1, <1>2, <1>3 DEF WeakInv
<1>4. ASSUME pc' \in {"separate", "resurrect", "converge2"}, NEW x \in origweak' \cup origall'
      PROVE  Unwhite(Values(x))'
  BY <1>1, <1>2, <1>4 DEF WeakInv
<1>5. WeakInv'
  BY <1>3, <1>4 DEF WeakInv
<1>6. RootsInv'
  BY <1>1 DEF RootsInv, InAtomic
<1> QED BY <1>5, <1>6

(* Gray objects after a traversal of o, taken from gray or from todo. *)
LEMMA GrayTraversed ==
    ASSUME TypeOK, GrayInv, InAtomic, gcstate # "GCSpropagate", pc' = pc,
           NEW o \in Obj, Traversed(o), Heap' = Heap, again' = again, todo \ {o} \subseteq todo'
    PROVE  GrayInv'
<1>1. Fewer
  BY DEF Traversed, Fewer, NoNewWhite
<1>2. ASSUME NEW x \in Heap', color'[x] = "gray"
      PROVE  x \in (Waiting \cup weak \cup ephemeron \cup allweak)' \/ Unwhite(Refs(x))'
  <2>1. x \in Heap /\ x \in Obj
    BY <1>2, HeapType
  <2>2. CASE x \in gray'
    BY <2>2 DEF Waiting
  <2>3. CASE x = o /\ Home(o)
    <3>1. Refs(o)' = Refs(o)
      BY DEF Traversed, Refs
    <3> QED BY <2>3, <3>1 DEF Home, Unwhite
  <2>4. CASE color[x] = "gray" /\ x # o
    <3>1. CASE x \in Waiting \cup weak \cup ephemeron \cup allweak
      BY <2>4, <3>1 DEF Traversed, Waiting
    <3>2. CASE Unwhite(Refs(x))
      BY <1>1, <2>1, <3>2, StillUnwhite
    <3> QED BY <2>1, <2>4, <3>1, <3>2 DEF GrayInv
  <2> QED BY <1>2, <2>1, <2>2, <2>3, <2>4 DEF Traversed
<1> QED BY <1>2 DEF GrayInv

(* Marking strings only: nothing turns gray, and only strings are marked.  *)
LEMMA OnlyStrings ==
    ASSUME TypeOK, NEW S, \A r \in S \cap Obj : color[r] \in White => Kind[r] = "string",
           NEW c, c = Marked(Marks(S))
    PROVE  /\ ToGray(Marks(S)) = {}
           /\ \A x \in Obj : Kind[x] # "string" => c[x] = color[x]
<1> DEFINE W == {o \in Obj : IsWhite(o)}
           T == {o \in W : Kind[o] = "string"}
<1>1. T \in SUBSET W /\ S \cap W \subseteq T
  BY DEF IsWhite
<1>2. \A u \in T : Kind[u] # "udata"
  OBVIOUS
<1>3. Marks(S) \subseteq T
  BY <1>1, <1>2 DEF Marks
<1>4. \A x \in Marks(S) : Kind[x] = "string"
  BY <1>3
<1> QED BY <1>4 DEF ToGray, AtOnce, Marked

(* A traversal in convergeephemerons that found no white value to mark     *)
(* settles its table and leaves the others settled.                        *)
LEMMA ConvergeKept ==
    ASSUME TypeOK, CellsInv, ConvergeInv, pc \in {"converge1", "converge2"}, gray = {},
           NEW w \in Obj, TraverseEphemeron(w), val' = val,
           ~changed, \A r \in Released(w) : ~WhiteRef(r)
    PROVE  gray' = {} /\ \A x \in ephemeron' : Settled(x)'
<1> DEFINE S == Released(w) \cup Strings(Keys(w))
<1>1. \A r \in S \cap Obj : color[r] \in White => Kind[r] = "string"
  BY ObjAssumption DEF ObjAssumption, WhiteRef, Strings
<1>2. color' = Marked(Marks(S)) /\ gray' = (gray \ {w}) \cup ToGray(Marks(S))
  BY DEF TraverseEphemeron, EphemeronMarks
<1> HIDE DEF S
<1>3. gray' = {} /\ \A x \in Obj : Kind[x] # "string" => color'[x] = color[x]
  BY <1>1, <1>2, OnlyStrings
<1>4. \A x \in Obj : color'[x] \in White => color[x] \in White
  BY EphemeronNoNewWhite DEF NoNewWhite
<1>5. \A x \in Obj : \A s \in Slot : val[x][s] # Nil => key'[x][s] = key[x][s]
  BY DEF TraverseEphemeron, TypeOK, LiveKeys
<1>6. ASSUME NEW x \in ephemeron', NEW s \in Slot, val'[x][s] # Nil
      PROVE  \/ /\ key'[x][s] # Nil /\ color'[key'[x][s]] \in White
                /\ Kind[key'[x][s]] # "string"
             \/ color'[val'[x][s]] \notin White
  <2>1. x \in Obj /\ (x \in ephemeron \/ x = w)
    BY <1>6 DEF TypeOK, TraverseEphemeron
  <2>2. val[x][s] # Nil /\ val[x][s] \in Obj /\ key[x][s] \in Ref /\ key'[x][s] = key[x][s]
    BY <1>5, <1>6, <2>1 DEF TypeOK, Ref
  <2>3. CASE IsCleared(key[x][s])
    <3>1. /\ key[x][s] \in Obj /\ key[x][s] # Nil
          /\ color[key[x][s]] \in White /\ Kind[key[x][s]] # "string"
      BY <2>2, <2>3 DEF IsCleared, WhiteRef, Ref
    <3> QED BY <1>3, <2>2, <3>1
  <2>4. CASE ~IsCleared(key[x][s])
    <3>1. color[val[x][s]] \notin White
      <4>1. CASE x \in ephemeron
        BY <2>2, <2>4, <4>1 DEF ConvergeInv, Settled
      <4>2. CASE x = w
        <5>1. val[w][s] \in Released(w)
          BY <2>2, <2>4, <4>2 DEF Released, Entries, WhiteKeyed
        <5> QED BY <2>2, <4>2, <5>1 DEF WhiteRef
      <4> QED BY <2>1, <4>1, <4>2
    <3> QED BY <1>4, <2>2, <3>1
  <2> QED BY <2>3, <2>4
<1>7. \A x \in ephemeron' : Settled(x)'
  BY <1>6 DEF Settled, IsCleared, WhiteRef
<1> QED BY <1>3, <1>7

(* Clearing leaves no white key in the tables of CK and no white value in  *)
(* those of CV, and marks only strings.                                    *)
LEMMA ClearEffect ==
    ASSUME TypeOK, NEW CK \in SUBSET Obj, NEW CV \in SUBSET Obj, ClearTables(CK, CV)
    PROVE  /\ \A t \in CK : \A s \in Slot : val'[t][s] # Nil =>
                /\ val[t][s] # Nil /\ ~IsCleared(key[t][s])
                /\ key'[t][s] = Nil \/ color'[key'[t][s]] \notin White
           /\ \A t \in CV : \A s \in Slot : val'[t][s] # Nil => color'[val'[t][s]] \notin White
           /\ \A x \in Obj : color'[x] = "gray" => color[x] = "gray"
<1> DEFINE Tested == (UNION {Strings(Keys(t)) : t \in CK})
                     \cup (UNION {Strings(Values(t)) : t \in CV})
<1>1. /\ color' = Marked(Marks(Tested))
      /\ val' = [t \in Obj |-> [s \in Slot |-> IF Goes(t, s, CK, CV) THEN Nil ELSE val[t][s]]]
      /\ key' = [t \in Obj |-> [s \in Slot |->
                  IF /\ Goes(t, s, CK, CV) \/ (t \in CK /\ val[t][s] = Nil)
                     /\ WhiteRef(key[t][s])
                  THEN Nil ELSE key[t][s]]]
  BY DEF ClearTables
<1>2. Tested \subseteq Obj /\ \A r \in Tested : Kind[r] = "string"
  BY RefsType DEF Strings
<1>3. /\ \A t \in CK : \A r \in Keys(t) : Kind[r] = "string" => r \in Tested
      /\ \A t \in CV : \A r \in Values(t) : Kind[r] = "string" => r \in Tested
  BY DEF Strings
<1> HIDE DEF Tested
<1>4. /\ \A x \in Obj : color'[x] \in White => color[x] \in White
      /\ \A x \in Tested : color'[x] \notin White
      /\ ToGray(Marks(Tested)) = {}
      /\ \A x \in Obj : Kind[x] # "string" => color'[x] = color[x]
  <2>1. \A x \in Obj : color'[x] \in White => color[x] \in White
    BY <1>1, MarkedColors DEF White
  <2>2. \A x \in Tested : color[x] \in White => x \in Marks(Tested)
    BY <1>2, MarksClosed
  <2>3. \A x \in Tested : color'[x] \notin White
    BY <1>1, <1>2, <2>2, MarkedColors DEF White
  <2> QED BY <1>1, <1>2, <2>1, <2>3, OnlyStrings
<1>5. \A x \in Obj : color'[x] = "gray" => color[x] = "gray"
  BY <1>1, <1>4 DEF Marked, ToGray
<1>6. ASSUME NEW t \in CK, NEW s \in Slot, val'[t][s] # Nil
      PROVE  /\ val[t][s] # Nil /\ ~IsCleared(key[t][s])
             /\ key'[t][s] = Nil \/ color'[key'[t][s]] \notin White
  <2>1. val[t][s] # Nil /\ ~IsCleared(key[t][s]) /\ key'[t][s] = key[t][s]
    BY <1>1, <1>6 DEF Goes
  <2>2. ASSUME key[t][s] # Nil PROVE color'[key[t][s]] \notin White
    <3>1. key[t][s] \in Keys(t) /\ key[t][s] \in Obj
      BY <2>1, <2>2 DEF Keys, Entries, TypeOK, Ref
    <3> QED BY <1>3, <1>4, <2>1, <2>2, <3>1 DEF IsCleared, WhiteRef
  <2> QED BY <2>1, <2>2
<1>7. ASSUME NEW t \in CV, NEW s \in Slot, val'[t][s] # Nil
      PROVE  color'[val'[t][s]] \notin White
  <2>1. val[t][s] # Nil /\ ~IsCleared(val[t][s]) /\ val'[t][s] = val[t][s]
    BY <1>1, <1>7 DEF Goes
  <2>2. val[t][s] \in Values(t) /\ val[t][s] \in Obj
    BY <2>1 DEF Values, Entries, TypeOK, Ref
  <2> QED BY <1>3, <1>4, <2>1, <2>2 DEF IsCleared, WhiteRef
<1> QED BY <1>5, <1>6, <1>7

(* The first steps: up to the first propagation, everything that was put   *)
(* off is waiting.                                                         *)
LEMMA AtomicStart ==
    ASSUME TypeOK, SweepInv, GoodInv, CellsInv, ListedInv, AtomicInv,
           AtomicBegin \/ AtomicRoots \/ AtomicGrayAgain
    PROVE  AtomicInv'
<1> USE DEF AtomicInv
<1>1. CASE AtomicBegin
  <2>1. /\ pc = "idle" /\ pc' = "propagateall" /\ KeepInvariant /\ Listed
        /\ UNCHANGED <<color, key, val, gray, grayagain, weak, ephemeron, allweak, again,
                       todo>>
        /\ Heap' = Heap
    BY <1>1 DEF AtomicBegin, cells, graylists, lists, locals, Heap, ListedInv, KeepInvariant
  <2>2. LocalsInv'
    BY <2>1 DEF LocalsInv
  <2>3. GrayInv'
    BY <2>1 DEF GrayInv, Waiting, Listed
  <2>4. WeakInv' /\ ConvergeInv' /\ RootsInv' /\ FlipInv'
    BY <2>1 DEF WeakInv, ConvergeInv, RootsInv, FlipInv, Listed
  <2> QED BY <2>2, <2>3, <2>4
<1>2. CASE AtomicRoots
  <2>1. /\ pc = "propagateall" /\ pc' = "roots" /\ gray = {} /\ again = {} /\ todo = {}
        /\ again' = grayagain /\ Mark(Roots) /\ mt' = mt /\ Heap' = Heap
        /\ UNCHANGED <<key, val, todo, grayagain, weak, ephemeron, allweak, origweak, origall>>
    BY <1>2 DEF AtomicRoots, LocalsInv, cells, lists, Heap
  <2>2. Roots \subseteq Obj /\ Roots' = Roots
    BY <2>1, HeapType DEF GoodInv, Good, Roots
  <2>3. Fewer /\ \A r \in Roots : color'[r] \notin White
    BY <2>1, <2>2, MarkNoNewWhite DEF Fewer, Keys, Values, Entries
  <2>4. \A x \in Obj : color'[x] = "gray" /\ color[x] # "gray" => x \in gray'
    BY <2>1, <2>2, MarkedEffect DEF Mark
  <2>5. GrayInv'
    <3>1. ASSUME NEW x \in Heap, color'[x] = "gray"
          PROVE  x \in (Waiting \cup weak \cup ephemeron \cup allweak)' \/ Unwhite(Refs(x))'
      <4>1. x \in Obj
        BY <3>1, HeapType
      <4>2. CASE color[x] = "gray"
        <5>1. x \in grayagain \cup weak \cup ephemeron \cup allweak \/ Unwhite(Refs(x))
          BY <2>1, <3>1, <4>2 DEF GrayInv, InAtomic, Waiting
        <5> QED BY <2>1, <2>3, <4>1, <5>1, StillUnwhite DEF Waiting
      <4>3. CASE color[x] # "gray"
        BY <2>4, <3>1, <4>1, <4>3 DEF Waiting
      <4> QED BY <4>2, <4>3
    <3> QED BY <2>1, <3>1 DEF GrayInv
  <2>6. WeakInv'
    <3>1. \A x \in weak' : Unwhite(Keys(x))'
      BY <2>1, <2>3, StillUnwhite DEF TypeOK, WeakInv, InAtomic
    <3> QED BY <2>1, <3>1 DEF WeakInv
  <2>7. RootsInv'
    BY <2>2, <2>3 DEF RootsInv, Unwhite
  <2>8. LocalsInv' /\ ConvergeInv' /\ FlipInv'
    BY <2>1 DEF LocalsInv, ConvergeInv, FlipInv
  <2> QED BY <2>5, <2>6, <2>7, <2>8
<1>3. CASE AtomicGrayAgain
  <2>1. /\ pc = "roots" /\ pc' = "grayagain" /\ gray = {} /\ todo = {}
        /\ gray' = again /\ again' = {} /\ Heap' = Heap
        /\ UNCHANGED <<color, key, val, mt, todo, weak, ephemeron, allweak>>
    BY <1>3 DEF AtomicGrayAgain, LocalsInv, cells, lists, Heap
  <2>2. Waiting = again /\ Waiting' = again
    BY <2>1 DEF Waiting
  <2>3. \A x \in Obj : (Unwhite(Refs(x)) => Unwhite(Refs(x))') /\ (Unwhite(Keys(x)) => Unwhite(Keys(x))')
    BY <2>1 DEF Unwhite, Refs, Keys, Values, Entries
  <2>4. GrayInv'
    <3>1. ASSUME NEW x \in Heap, color[x] = "gray"
          PROVE  x \in (Waiting \cup weak \cup ephemeron \cup allweak)' \/ Unwhite(Refs(x))'
      BY <2>1, <2>2, <2>3, <3>1, HeapType DEF GrayInv, InAtomic
    <3> QED BY <2>1, <3>1 DEF GrayInv
  <2>5. WeakInv'
    BY <2>1, <2>3 DEF WeakInv, InAtomic, TypeOK
  <2>6. LocalsInv' /\ ConvergeInv' /\ FlipInv'
    BY <2>1 DEF LocalsInv, ConvergeInv, FlipInv
  <2>7. RootsInv'
    BY <2>1 DEF RootsInv, Unwhite, Roots
  <2> QED BY <2>4, <2>5, <2>6, <2>7
<1> QED BY <1>1, <1>2, <1>3

LEMMA AtomicTraversal ==
    ASSUME TypeOK, SweepInv, CellsInv, AtomicInv, AtomicPropagate \/ ConvergeTable
    PROVE  AtomicInv'
<1> USE DEF AtomicInv
<1>1. CASE AtomicPropagate
  <2>1. PICK o \in gray : PropagateMark(o)
    BY <1>1 DEF AtomicPropagate
  <2>2. o \in Obj /\ Traversed(o)
    BY <2>1, TraversedObject DEF TypeOK
  <2>3. /\ InAtomic /\ pc' = pc /\ gcstate # "GCSpropagate" /\ UNCHANGED locals
        /\ pc # "separate"
    BY <1>1 DEF AtomicPropagate, InAtomic, SweepInv, PcInv
  <2>4. Heap' = Heap /\ mt' = mt /\ changed' = changed
    BY <2>1, <2>3 DEF PropagateMark, lists, Heap, locals
  <2>5. GrayInv'
    BY <2>2, <2>3, <2>4, GrayTraversed DEF locals
  <2>6. WeakInv' /\ RootsInv'
    <3>1. Fewer
      BY <2>2 DEF Traversed, Fewer, NoNewWhite
    <3>2. \A x \in weak' \ weak : Unwhite(Keys(x))'
      BY <2>2 DEF Traversed, Unwhite, TypeOK
    <3> QED BY <2>3, <2>4, <3>1, <3>2, AtomicKept DEF locals
  <2>7. ConvergeInv'
    BY <2>1, <2>3, <2>4 DEF ConvergeInv
  <2>8. LocalsInv' /\ FlipInv'
    BY <2>3 DEF LocalsInv, FlipInv, InAtomic, locals
  <2> QED BY <2>5, <2>6, <2>7, <2>8
<1>2. CASE ConvergeTable
  <2>1. PICK w \in todo :
          /\ todo' = todo \ {w}
          /\ TraverseEphemeron(w)
          /\ changed' = (changed \/ \E r \in Released(w) : WhiteRef(r))
    BY <1>2 DEF ConvergeTable
  <2>2. /\ pc \in {"converge1", "converge2"} /\ pc' = pc /\ gray = {} /\ Heap' = Heap
        /\ UNCHANGED <<gcstate, val, mt, again, origweak, origall>>
    BY <1>2 DEF ConvergeTable, lists, Heap, control
  <2>3. InAtomic /\ gcstate # "GCSpropagate"
    BY <2>2 DEF InAtomic, SweepInv, PcInv
  <2>4. w \in Obj /\ Traversed(w)
    BY <2>1, <2>2, TraversedEphemeron DEF TypeOK
  <2>5. GrayInv'
    BY <2>1, <2>2, <2>3, <2>4, GrayTraversed
  <2>6. WeakInv' /\ RootsInv'
    <3>1. Fewer
      BY <2>4 DEF Traversed, Fewer, NoNewWhite
    <3>2. \A x \in weak' \ weak : Unwhite(Keys(x))'
      BY <2>4 DEF Traversed, Unwhite, TypeOK
    <3> QED BY <2>2, <2>3, <3>1, <3>2, AtomicKept
  <2>7. ConvergeInv'
    <3>1. CASE ~changed'
      <4>1. gray' = {} /\ \A x \in ephemeron' : Settled(x)'
        BY <2>1, <2>2, <2>4, <3>1, ConvergeKept
      <4> QED BY <4>1 DEF ConvergeInv
    <3>2. CASE changed'
      BY <3>2 DEF ConvergeInv
    <3> QED BY <3>1, <3>2
  <2>8. LocalsInv' /\ FlipInv'
    BY <2>2 DEF LocalsInv, FlipInv
  <2> QED BY <2>5, <2>6, <2>7, <2>8
<1> QED BY <1>1, <1>2

(* A round of convergeephemerons takes its list to todo. *)
LEMMA AtomicRound ==
    ASSUME TypeOK, AtomicInv, ConvergeRound
    PROVE  AtomicInv'
<1> USE DEF AtomicInv
<1>1. /\ gray = {} /\ todo = {} /\ again = {} /\ pc' \in {"converge1", "converge2"}
      /\ pc \in {"grayagain", "resurrect", "converge1", "converge2"}
      /\ pc \in {"resurrect", "converge2"} <=> pc' = "converge2"
      /\ todo' = ephemeron /\ ephemeron' = {} /\ changed' = FALSE /\ Heap' = Heap
      /\ UNCHANGED <<color, key, val, mt, gray, again, weak, allweak, origweak, origall>>
  BY DEF ConvergeRound, LocalsInv, control, cells, lists, Heap
<1>2. /\ \A x \in Obj : Unwhite(Refs(x)) => Unwhite(Refs(x))'
      /\ \A x \in Obj : Unwhite(Keys(x)) => Unwhite(Keys(x))'
      /\ \A x \in Obj : Unwhite(Values(x)) => Unwhite(Values(x))'
  BY <1>1 DEF Unwhite, Refs, Keys, Values, Entries
<1>3. GrayInv'
  <2>1. Waiting = {} /\ Waiting' = ephemeron
    BY <1>1 DEF Waiting
  <2>2. ASSUME NEW x \in Heap, color[x] = "gray"
        PROVE  x \in (Waiting \cup weak \cup ephemeron \cup allweak)' \/ Unwhite(Refs(x))'
    BY <1>1, <1>2, <2>1, <2>2, HeapType DEF GrayInv, InAtomic
  <2> QED BY <1>1, <2>2 DEF GrayInv
<1>4. WeakInv'
  BY <1>1, <1>2 DEF WeakInv, InAtomic, TypeOK
<1>5. LocalsInv' /\ ConvergeInv' /\ FlipInv'
  BY <1>1 DEF LocalsInv, ConvergeInv, FlipInv
<1>6. RootsInv'
  BY <1>1 DEF RootsInv, Unwhite, Roots
<1> QED BY <1>3, <1>4, <1>5, <1>6

(* After clearvalues, no table in origweak or origall has a white value. *)
LEMMA AtomicCleared ==
    ASSUME TypeOK, AtomicInv, AtomicClearValues
    PROVE  AtomicInv'
<1> USE DEF AtomicInv
<1>1. /\ pc = "converge1" /\ pc' = "separate" /\ gray = {} /\ todo = {} /\ again = {}
      /\ ClearTables({}, weak \cup allweak) /\ origweak' = weak /\ origall' = allweak
      /\ UNCHANGED <<gray, weak, ephemeron, allweak, again, todo>> /\ Heap' = Heap
  BY DEF AtomicClearValues, Converged, LocalsInv, graylists, lists, Heap
<1>2. weak \subseteq Obj /\ allweak \subseteq Obj
  BY DEF TypeOK
<1>3. Fewer /\ mt' = mt
  <2>1. NoNewWhite
    BY <1>1, ClearNoNewWhite
  <2>2. \A x \in Obj : Keys(x)' \subseteq Keys(x) /\ Values(x)' \subseteq Values(x)
    BY <1>1, ClearRefs
  <2>3. mt' = mt
    BY <1>1 DEF ClearTables
  <2> QED BY <2>1, <2>2, <2>3 DEF Fewer
<1>4. /\ \A t \in weak \cup allweak : \A s \in Slot :
           val'[t][s] # Nil => color'[val'[t][s]] \notin White
      /\ \A x \in Obj : color'[x] = "gray" => color[x] = "gray"
  <2> DEFINE CK == {}
             CV == weak \cup allweak
  <2>1. ClearTables(CK, CV) /\ CK \in SUBSET Obj /\ CV \in SUBSET Obj
    BY <1>1, <1>2
  <2> HIDE DEF CK, CV
  <2>2. /\ \A t \in CV : \A s \in Slot : val'[t][s] # Nil => color'[val'[t][s]] \notin White
        /\ \A x \in Obj : color'[x] = "gray" => color[x] = "gray"
    BY <2>1, ClearEffect
  <2> QED BY <2>2 DEF CV
<1>5. Waiting = {}
  BY <1>1 DEF Waiting
<1>6. GrayInv'
  <2>1. ASSUME NEW x \in Heap, color'[x] = "gray"
        PROVE  x \in (weak \cup ephemeron \cup allweak)' \/ Unwhite(Refs(x))'
    <3>1. x \in Obj /\ color[x] = "gray"
      BY <1>4, <2>1, HeapType
    <3>2. x \in weak \cup ephemeron \cup allweak \/ Unwhite(Refs(x))
      BY <1>1, <1>5, <2>1, <3>1 DEF GrayInv, InAtomic
    <3> QED BY <1>1, <1>3, <3>1, <3>2, StillUnwhite
  <2> QED BY <1>1, <2>1 DEF GrayInv
<1>7. WeakInv'
  <2>1. \A x \in weak' : Unwhite(Keys(x))'
    BY <1>1, <1>2, <1>3, StillUnwhite DEF WeakInv, InAtomic
  <2>2. \A x \in origweak' \cup origall' : Unwhite(Values(x))'
    BY <1>1, <1>2, <1>4 DEF Unwhite, Values, Entries
  <2> QED BY <2>1, <2>2 DEF WeakInv
<1>8. LocalsInv' /\ ConvergeInv' /\ FlipInv'
  BY <1>1 DEF LocalsInv, ConvergeInv, FlipInv
<1>9. RootsInv'
  BY <1>1, <1>3, StillUnwhite DEF RootsInv
<1> QED BY <1>6, <1>7, <1>8, <1>9

LEMMA AtomicSeparated ==
    ASSUME TypeOK, GoodInv, CellsInv, AtomicInv, AtomicSeparate
    PROVE  AtomicInv'
<1> USE DEF AtomicInv
<1>1. /\ pc = "separate" /\ pc' = "resurrect" /\ Mark(tobefnz') /\ mt' = mt /\ Heap' = Heap
      /\ UNCHANGED <<key, val, weak, ephemeron, allweak, again, todo, origweak, origall>>
  BY DEF AtomicSeparate, cells, locals, Heap
<1>2. tobefnz' \subseteq Obj
  BY HeapType DEF AtomicSeparate, GoodInv, Good
<1>3. Fewer
  BY <1>1, MarkNoNewWhite DEF Fewer, Keys, Values, Entries
<1>4. /\ \A x \in Obj : color'[x] = "gray" /\ color[x] # "gray" => x \in gray'
      /\ gray \subseteq gray'
  BY <1>1, <1>2, MarkedEffect DEF Mark
<1>5. GrayInv'
  <2>1. ASSUME NEW x \in Heap, color'[x] = "gray"
        PROVE  x \in (Waiting \cup weak \cup ephemeron \cup allweak)' \/ Unwhite(Refs(x))'
    <3>1. x \in Obj
      BY <2>1, HeapType
    <3>2. CASE color[x] = "gray"
      <4>1. x \in Waiting \cup weak \cup ephemeron \cup allweak \/ Unwhite(Refs(x))
        BY <1>1, <2>1, <3>2 DEF GrayInv, InAtomic
      <4> QED BY <1>1, <1>3, <1>4, <3>1, <4>1, StillUnwhite DEF Waiting
    <3>3. CASE color[x] # "gray"
      BY <1>4, <2>1, <3>1, <3>3 DEF Waiting
    <3> QED BY <3>2, <3>3
  <2> QED BY <1>1, <2>1 DEF GrayInv
<1>6. WeakInv' /\ RootsInv'
  BY <1>1, <1>3, AtomicKept DEF InAtomic
<1>7. LocalsInv' /\ ConvergeInv' /\ FlipInv'
  BY <1>1 DEF LocalsInv, ConvergeInv, FlipInv
<1> QED BY <1>5, <1>6, <1>7

(* The end: nothing waits any more, and every weak table is cleared. *)
LEMMA AtomicClosed ==
    ASSUME TypeOK, AtomicInv, BlackInv', gcstate = "GCSinsideatomic", AtomicClearRest
    PROVE  AtomicInv'
<1> USE DEF AtomicInv
<1> DEFINE CK == ephemeron \cup allweak
           CV == (weak \ origweak) \cup (allweak \ origall)
<1>1. /\ pc = "converge2" /\ pc' = "flip" /\ gray = {} /\ todo = {} /\ again = {} /\ ~changed
      /\ ClearTables(CK, CV) /\ Heap' = Heap /\ UNCHANGED <<gcstate, again, todo>>
  BY DEF AtomicClearRest, Converged, LocalsInv, control, locals, lists, Heap
<1>2. CK \in SUBSET Obj /\ CV \in SUBSET Obj
  BY DEF TypeOK
<1>3. \A x : /\ x \in ephemeron \cup allweak => x \in CK
             /\ x \in weak => x \in CV \/ x \in origweak
             /\ x \in allweak => x \in CV \/ x \in origall
  OBVIOUS
<1> HIDE DEF CK, CV
<1>4. Fewer /\ mt' = mt /\ color' \in [Obj -> Colors]
  <2>1. NoNewWhite
    BY <1>1, ClearNoNewWhite
  <2>2. \A x \in Obj : Keys(x)' \subseteq Keys(x) /\ Values(x)' \subseteq Values(x)
    BY <1>1, ClearRefs
  <2>3. mt' = mt /\ color' \in [Obj -> Colors]
    BY <1>1, ClearTablesType
  <2> QED BY <2>1, <2>2, <2>3 DEF Fewer
<1>5. /\ \A t \in CK : \A s \in Slot : val'[t][s] # Nil =>
           /\ val[t][s] # Nil /\ ~IsCleared(key[t][s])
           /\ key'[t][s] = Nil \/ color'[key'[t][s]] \notin White
      /\ \A t \in CV : \A s \in Slot : val'[t][s] # Nil => color'[val'[t][s]] \notin White
      /\ \A x \in Obj : color'[x] = "gray" => color[x] = "gray"
  BY <1>1, <1>2, ClearEffect
<1>6. \A t \in CK : Unwhite(Keys(t))'
  BY <1>5 DEF Unwhite, Keys, Entries
<1>7. \A t \in CV : Unwhite(Values(t))'
  BY <1>5 DEF Unwhite, Values, Entries
<1>8. ASSUME NEW t \in ephemeron PROVE Unwhite(Values(t))'
  <2>1. t \in CK /\ t \in Obj /\ Settled(t)
    BY <1>1, <1>3 DEF ConvergeInv, TypeOK
  <2>2. ASSUME NEW s \in Slot, val'[t][s] # Nil PROVE color'[val'[t][s]] \notin White
    <3>1. val[t][s] # Nil /\ ~IsCleared(key[t][s])
      BY <1>5, <2>1, <2>2
    <3>2. color[val[t][s]] \notin White /\ val[t][s] \in Obj
      BY <2>1, <3>1 DEF Settled, TypeOK, Ref
    <3>3. val'[t][s] = val[t][s]
      BY <1>1, <2>1, <2>2, ClearCells
    <3> QED BY <1>4, <3>2, <3>3 DEF Fewer, NoNewWhite
  <2> QED BY <2>2 DEF Unwhite, Values, Entries
<1>9. ASSUME NEW x \in Heap, color'[x] \notin White PROVE Unwhite(Refs(x))'
  <2>1. x \in Obj /\ color'[x] \in {"gray", "black"}
    BY <1>4, <1>9, HeapType DEF Colors, White
  <2>2. CASE color'[x] = "black"
    BY <1>1, <1>9, <2>2 DEF BlackInv, Marking
  <2>3. CASE color'[x] = "gray"
    <3>1. x \in weak \cup ephemeron \cup allweak \/ Unwhite(Refs(x))
      BY <1>1, <1>5, <1>9, <2>1, <2>3 DEF GrayInv, InAtomic, Waiting
    <3>2. ASSUME Unwhite(Keys(x))', Unwhite(Values(x))' PROVE Unwhite(Refs(x))'
      BY <3>2 DEF Unwhite, Refs
    <3>3. CASE Unwhite(Refs(x))
      BY <1>4, <2>1, <3>3, StillUnwhite
    <3>4. CASE x \in weak
      <4>1. Unwhite(Keys(x))'
        BY <1>1, <1>4, <2>1, <3>4, StillUnwhite DEF WeakInv, InAtomic
      <4>2. Unwhite(Values(x))'
        BY <1>1, <1>3, <1>4, <1>7, <2>1, <3>4, StillUnwhite DEF WeakInv
      <4> QED BY <3>2, <4>1, <4>2
    <3>5. CASE x \in ephemeron
      BY <1>3, <1>6, <1>8, <3>2, <3>5
    <3>6. CASE x \in allweak
      <4>1. Unwhite(Values(x))'
        BY <1>1, <1>3, <1>4, <1>7, <2>1, <3>6, StillUnwhite DEF WeakInv
      <4> QED BY <1>3, <1>6, <3>2, <3>6, <4>1
    <3> QED BY <3>1, <3>3, <3>4, <3>5, <3>6
  <2> QED BY <2>1, <2>2, <2>3
<1>10. FlipInv'
  BY <1>1, <1>9 DEF FlipInv
<1>11. RootsInv'
  BY <1>1, <1>4, StillUnwhite DEF RootsInv
<1>12. LocalsInv' /\ GrayInv' /\ WeakInv' /\ ConvergeInv'
  BY <1>1 DEF LocalsInv, GrayInv, InAtomic, WeakInv, ConvergeInv
<1> QED BY <1>10, <1>11, <1>12

LEMMA AtomicNext ==
    ASSUME TypeOK, SweepInv, GoodInv, CellsInv, BlackInv', ListedInv, AtomicInv, Next
    PROVE  AtomicInv'
<1>1. CASE AtomicBegin \/ AtomicRoots \/ AtomicGrayAgain
  BY <1>1, AtomicStart
<1>2. CASE AtomicPropagate \/ ConvergeTable
  BY <1>2, AtomicTraversal
<1>3. CASE ConvergeRound
  BY <1>3, AtomicRound
<1>4. CASE AtomicClearValues
  BY <1>4, AtomicCleared
<1>5. CASE AtomicSeparate
  BY <1>5, AtomicSeparated
<1>6. CASE AtomicClearRest
  <2>1. gcstate = "GCSinsideatomic"
    BY <1>6 DEF AtomicClearRest, SweepInv, PcInv
  <2> QED BY <1>6, <2>1, AtomicClosed
<1>7. CASE RestartCollection \/ Propagate \/ AtomicFlip \/ SweepStep \/ SweepEnd
           \/ CallFinalizer \/ CallFinDone \/ FullGCDone
  <2>1. pc \in {"idle", "flip"} /\ pc' \in {"idle", "entersweep"}
        /\ again' = again /\ todo' = todo
    BY <1>7 DEF RestartCollection, Propagate, AtomicFlip, SweepStep, SweepEnd, CallFinalizer,
                CallFinDone, FullGCDone, locals
  <2> QED BY <2>1, AtomicIdle DEF AtomicInv, LocalsInv
<1>8. CASE EnterSweep
  BY <1>8, AtomicIdle DEF EnterSweep
<1>9. CASE Program
  <2>1. pc = "idle" /\ pc' \in {"idle", "entersweep"} /\ again' = again /\ todo' = todo
    BY <1>9 DEF Program, ProgramRuns, NewObject, Push, Pop, TableSet, SetField, SetMode,
                SetGlobalMetatable, CheckFinalizer, FullGC, locals
  <2> QED BY <2>1, AtomicIdle DEF AtomicInv, LocalsInv
<1> QED BY <1>1, <1>2, <1>3, <1>4, <1>5, <1>6, <1>7, <1>8, <1>9 DEF Next, Collector

-----------------------------------------------------------------------------
(* The invariant as a whole.  It needs every object to be white when a     *)
(* cycle starts, which is so as long as no more than GCSWEEPMAX objects    *)
(* wait for their finalizers at the end of the sweep.                      *)

LEMMA SafetyInit == Init => SafetyInv
<1> SUFFICES ASSUME Init PROVE SafetyInv
  OBVIOUS
<1>1. \A o \in Obj : Entries(o) = {} /\ Refs(o) = {}
  BY DEF Init, Entries, Keys, Values, Refs
<1>2. Heap \subseteq Obj /\ \A o \in Obj : color[o] = "w0"
  BY TypeInit, HeapType DEF Init
<1>3. Heap = {MainThread, Registry} /\ Roots \subseteq {MainThread, Registry}
  BY DEF Init, Heap, Roots
<1>4. Good = Heap
  BY <1>2 DEF Good, IsDead, OtherWhite, Init
<1>5. GoodInv
  BY <1>1, <1>2, <1>3, <1>4 DEF GoodInv, Init
<1>6. CellsInv
  BY <1>2 DEF CellsInv, Init
<1>7. BlackInv /\ ListedInv
  BY DEF BlackInv, Marking, ListedInv, KeepInvariant, Init
<1>8. AtomicInv
  BY DEF AtomicInv, LocalsInv, GrayInv, InAtomic, WeakInv, ConvergeInv, RootsInv, FlipInv, Init
<1> QED BY <1>5, <1>6, <1>7, <1>8 DEF SafetyInv

LEMMA SafetyStep ==
    TypeOK /\ SweepInv /\ AllWhiteAtPause /\ SafetyInv /\ [Next]_vars => SafetyInv'
<1>1. ASSUME SafetyInv, UNCHANGED vars PROVE SafetyInv'
  BY <1>1 DEF SafetyInv, GoodInv, CellsInv, BlackInv, Marking, ListedInv, KeepInvariant, Listed,
              AtomicInv, LocalsInv, GrayInv, InAtomic, WeakInv, ConvergeInv, Settled, RootsInv,
              FlipInv, Waiting, Unwhite, Good, Heap, IsDead, IsCleared, WhiteRef, Roots, Refs,
              Keys, Values, Entries, vars, control, cells, lists, graylists, locals
<1>2. ASSUME TypeOK, SweepInv, AllWhiteAtPause, SafetyInv, Next PROVE SafetyInv'
  <2>1. GoodInv /\ CellsInv /\ BlackInv /\ ListedInv /\ AtomicInv /\ RootsInv /\ FlipInv
    BY <1>2 DEF SafetyInv, AtomicInv
  <2>2. GoodInv'
    BY <1>2, <2>1, GoodProgram, GoodCollector DEF Next
  <2>3. CellsInv'
    BY <1>2, <2>1, CellsProgram, CellsCollector DEF Next
  <2>4. BlackInv'
    BY <1>2, <2>1, BlackProgram, BlackCollector DEF Next
  <2>5. ListedInv'
    BY <1>2, <2>1, ListedProgram, ListedCollector DEF Next
  <2>6. AtomicInv'
    BY <1>2, <2>1, <2>4, AtomicNext
  <2> QED BY <2>2, <2>3, <2>4, <2>5, <2>6 DEF SafetyInv
<1> QED BY <1>1, <1>2

LEMMA SafetyInvariant ==
    ASSUME TobefnzFits
    PROVE  Spec => []SafetyInv
<1>1. Spec => []AllWhiteAtPause
  BY AllWhiteWhenSweepEnds
<1> QED BY <1>1, SafetyInit, SafetyStep, TypeCorrect, SweepInvariant, PTL DEF Spec

(* The collector frees nothing the program can reach: no root, no object   *)
(* with a finalizer and no object that survives refers to an object that   *)
(* is dead or freed, through any of its fields, weak or not.               *)
THEOREM NothingDangles ==
    ASSUME TobefnzFits
    PROVE  Spec => []NoDangling
<1>1. SafetyInv => NoDangling
  BY DEF SafetyInv, GoodInv, Good, NoDangling
<1> QED BY <1>1, SafetyInvariant, PTL

(* The invariant of the incremental collector: while the program runs in   *)
(* the marking phases, the barriers of every store and the traversals keep *)
(* every black object from referring to a white one.                       *)
THEOREM BlackNeverToWhite ==
    ASSUME TobefnzFits
    PROVE  Spec => []BlackToWhite
<1>1. SafetyInv => BlackToWhite
  BY DEF SafetyInv, BlackInv, Marking, KeepInvariant, Unwhite, IsWhite, BlackToWhite
<1> QED BY <1>1, SafetyInvariant, PTL

(* Every gray object is in exactly one gray list between two steps of the  *)
(* marking phases, so that it is visited before the cycle ends, and the    *)
(* propagate state always has an object to take.                           *)
THEOREM GrayAlwaysListed ==
    ASSUME TobefnzFits
    PROVE  Spec => []GrayListed
<1>1. SafetyInv => GrayListed
  BY DEF SafetyInv, ListedInv, Listed, GrayListed
<1> QED BY <1>1, SafetyInvariant, PTL

-----------------------------------------------------------------------------
(* What is cleared and finalized is garbage.  In the atomic phase a table  *)
(* is in the list its mode asks for, since no program runs that could      *)
(* change the mode; and between clearvalues and separatetobefnz nothing is *)
(* left to traverse.                                                       *)

ModesInv ==
    /\ \A o \in allweak : Kind[o] = "table"
    /\ InAtomic =>
        /\ \A o \in weak : Kind[o] = "table" /\ mode[o] = "v"
        /\ \A o \in ephemeron \cup todo : Kind[o] = "table" /\ mode[o] = "k"

SeparatedInv ==
    pc = "separate" =>
        /\ gray = {} /\ origweak = weak /\ origall = allweak
        /\ \A o \in ephemeron : Settled(o)

LEMMA ModesTraversed ==
    ASSUME NEW o, PropagateMark(o)
    PROVE  /\ mode' = mode
           /\ \A x \in allweak' \ allweak : Kind[x] = "table"
           /\ \A x \in weak' \ weak : Kind[x] = "table" /\ mode[x] = "v"
           /\ \A x \in ephemeron' \ ephemeron : Kind[x] = "table" /\ mode[x] = "k"
<1>1. CASE Kind[o] # "table" \/ mode[o] = "strong"
  BY <1>1 DEF PropagateMark, TraverseStrong
<1>2. CASE Kind[o] = "table" /\ mode[o] = "v"
  BY <1>2 DEF PropagateMark, TraverseWeakValue
<1>3. CASE Kind[o] = "table" /\ mode[o] = "k"
  BY <1>3 DEF PropagateMark, TraverseEphemeron
<1>4. CASE Kind[o] = "table" /\ mode[o] \notin {"strong", "v", "k"}
  BY <1>4 DEF PropagateMark, TraverseAllWeak
<1> QED BY <1>1, <1>2, <1>3, <1>4

LEMMA ModesStep ==
    ASSUME ModesInv, ListedInv, SweepInv, LocalsInv, Next
    PROVE  ModesInv'
<1>1. CASE AtomicPropagate \/ Propagate
  <2>1. PICK o \in gray : PropagateMark(o)
    BY <1>1 DEF AtomicPropagate, Propagate
  <2>2. pc' = pc /\ todo' = todo
    BY <1>1 DEF AtomicPropagate, Propagate, locals
  <2> QED BY <2>1, <2>2, ModesTraversed DEF ModesInv, InAtomic
<1>2. CASE AtomicBegin
  <2>1. weak' = {} /\ ephemeron' = {} /\ todo' = {} /\ allweak' = allweak
    BY <1>2 DEF AtomicBegin, ListedInv, KeepInvariant, Listed, LocalsInv, graylists, locals
  <2> QED BY <2>1 DEF ModesInv
<1>3. CASE AtomicRoots \/ AtomicGrayAgain \/ AtomicClearValues \/ AtomicSeparate
  <2>1. InAtomic /\ UNCHANGED <<weak, ephemeron, allweak, mode, todo>>
    BY <1>3 DEF AtomicRoots, AtomicGrayAgain, AtomicClearValues, AtomicSeparate, InAtomic,
                ClearTables, cells, graylists, locals
  <2> QED BY <2>1 DEF ModesInv
<1>4. CASE ConvergeRound
  BY <1>4 DEF ConvergeRound, ModesInv, InAtomic, cells
<1>5. CASE ConvergeTable
  <2>1. PICK w \in todo : todo' = todo \ {w} /\ TraverseEphemeron(w)
    BY <1>5 DEF ConvergeTable
  <2>2. InAtomic /\ pc' = pc /\ mode' = mode
    BY <1>5 DEF ConvergeTable, InAtomic
  <2>3. weak' = weak /\ ephemeron' \subseteq ephemeron \cup {w} /\ allweak' \subseteq allweak \cup {w}
    BY <2>1 DEF TraverseEphemeron
  <2> QED BY <2>1, <2>2, <2>3 DEF ModesInv
<1>6. CASE RestartCollection \/ AtomicClearRest \/ AtomicFlip \/ EnterSweep \/ SweepStep
           \/ SweepEnd \/ CallFinalizer \/ CallFinDone \/ FullGCDone
  <2>1. pc' \in {"idle", "flip", "entersweep"} /\ allweak' \subseteq allweak
    BY <1>6 DEF RestartCollection, AtomicClearRest, AtomicFlip, EnterSweep, SweepStep, SweepEnd,
                CallFinalizer, CallFinDone, FullGCDone, graylists
  <2> QED BY <2>1 DEF ModesInv, InAtomic
<1>7. CASE Program
  <2>1. pc' \in {"idle", "entersweep"} /\ allweak' = allweak
    BY <1>7 DEF Program, ProgramRuns, NewObject, Push, Pop, TableSet, SetField, SetMode,
                SetGlobalMetatable, CheckFinalizer, FullGC, graylists
  <2> QED BY <2>1 DEF ModesInv, InAtomic
<1> QED BY <1>1, <1>2, <1>3, <1>4, <1>5, <1>6, <1>7 DEF Next, Collector

(* clearvalues leaves the entries of the ephemeron tables settled: strings *)
(* are all it marks, and they never count as white keys.                   *)
LEMMA SettledCleared ==
    ASSUME TypeOK, NEW CV \in SUBSET Obj, ClearTables({}, CV), NEW o \in Obj, Settled(o)
    PROVE  Settled(o)'
<1> DEFINE Tested == (UNION {Strings(Keys(t)) : t \in {}})
                     \cup (UNION {Strings(Values(t)) : t \in CV})
<1>1. \A r \in Tested \cap Obj : color[r] \in White => Kind[r] = "string"
  BY DEF Strings
<1>2. color' = Marked(Marks(Tested))
  BY DEF ClearTables
<1> HIDE DEF Tested
<1>3. \A x \in Obj : Kind[x] # "string" => color'[x] = color[x]
  BY <1>1, <1>2, OnlyStrings
<1>4. \A x \in Obj : color'[x] \in White => color[x] \in White
  BY ClearNoNewWhite DEF NoNewWhite
<1>5. ASSUME NEW s \in Slot, val'[o][s] # Nil
      PROVE  \/ /\ key'[o][s] # Nil /\ color'[key'[o][s]] \in White
                /\ Kind[key'[o][s]] # "string"
             \/ color'[val'[o][s]] \notin White
  <2>1. ~Goes(o, s, {}, CV) /\ val'[o][s] = val[o][s] /\ key'[o][s] = key[o][s]
    BY <1>5 DEF ClearTables
  <2>2. val[o][s] \in Obj /\ key[o][s] \in Ref
    BY <1>5, <2>1 DEF TypeOK, Ref
  <2>3. CASE IsCleared(key[o][s])
    <3>1. key[o][s] \in Obj /\ key[o][s] # Nil
          /\ color[key[o][s]] \in White /\ Kind[key[o][s]] # "string"
      BY <2>2, <2>3 DEF IsCleared, WhiteRef, Ref
    <3> QED BY <1>3, <2>1, <3>1
  <2>4. CASE color[val[o][s]] \notin White
    BY <1>4, <2>1, <2>2, <2>4
  <2> QED BY <1>5, <2>1, <2>3, <2>4 DEF Settled
<1> QED BY <1>5 DEF Settled, IsCleared, WhiteRef

LEMMA SeparatedStep ==
    ASSUME TypeOK, ConvergeInv, Next
    PROVE  SeparatedInv'
<1>1. SUFFICES ASSUME pc' = "separate" PROVE SeparatedInv'
  BY DEF SeparatedInv
<1>2. AtomicClearValues
  BY <1>1 DEF Next, Collector, Program, RestartCollection, Propagate, AtomicBegin, AtomicPropagate,
              AtomicRoots, AtomicGrayAgain, ConvergeRound, ConvergeTable, AtomicSeparate,
              AtomicClearRest, AtomicFlip, EnterSweep, SweepStep, SweepEnd, CallFinalizer,
              CallFinDone, FullGCDone, ProgramRuns, NewObject, Push, Pop, TableSet, SetField,
              SetMode, SetGlobalMetatable, CheckFinalizer, FullGC
<1>3. /\ gray' = {} /\ ephemeron' = ephemeron /\ weak' = weak /\ allweak' = allweak
      /\ origweak' = weak /\ origall' = allweak /\ ClearTables({}, weak \cup allweak)
      /\ \A o \in ephemeron : Settled(o)
  BY <1>2 DEF AtomicClearValues, Converged, ConvergeInv, graylists
<1>4. weak \cup allweak \in SUBSET Obj /\ ephemeron \subseteq Obj
  BY DEF TypeOK
<1>5. PICK CV \in SUBSET Obj : CV = weak \cup allweak
  BY <1>4
<1>6. ClearTables({}, CV)
  BY <1>3, <1>5
<1>7. \A o \in ephemeron : Settled(o)'
  BY <1>3, <1>4, <1>6, SettledCleared
<1> QED BY <1>3, <1>7 DEF SeparatedInv

LEMMA ListsInvariant ==
    ASSUME TobefnzFits
    PROVE  Spec => [](ModesInv /\ SeparatedInv)
<1> DEFINE Inv == ModesInv /\ SeparatedInv
<1>1. Init => Inv
  BY DEF Init, ModesInv, InAtomic, SeparatedInv
<1>2. ASSUME Inv, UNCHANGED vars PROVE Inv'
  BY <1>2 DEF ModesInv, InAtomic, SeparatedInv, Settled, IsCleared, WhiteRef, vars, cells,
              graylists, locals
<1>3. ASSUME TypeOK, SweepInv, SafetyInv, Inv, Next PROVE Inv'
  BY <1>3, ModesStep, SeparatedStep DEF SafetyInv, AtomicInv
<1>4. TypeOK /\ SweepInv /\ SafetyInv /\ Inv /\ [Next]_vars => Inv'
  BY <1>2, <1>3
<1> QED BY <1>1, <1>4, TypeCorrect, SweepInvariant, SafetyInvariant, PTL DEF Spec

-----------------------------------------------------------------------------
(* Recursion over the numbers up to N: least numbers, induction, and that  *)
(* the function a recursive definition asks for exists.                    *)

LessThan == {p \in Nat \X Nat : p[1] < p[2]}

LEMMA LeastNumber ==
    ASSUME NEW T, T \subseteq Nat, T # {}
    PROVE  \E n \in T : \A m \in T : n <= m
<1>1. IsWellFoundedOn(LessThan, Nat)
  BY NatLessThanWellFounded DEF OpToRel, LessThan
<1>2. PICK n \in T : \A m \in T : <<m, n>> \notin LessThan
  BY <1>1, WFMin
<1>3. ASSUME NEW m \in T PROVE n <= m
  <2>1. m \in Nat /\ n \in Nat /\ <<m, n>> \notin LessThan
    BY <1>2
  <2> QED BY <2>1 DEF LessThan
<1> QED BY <1>3

LEMMA UpTo ==
    ASSUME NEW N \in Nat, NEW X, 0 \in X, \A n \in 0 .. N - 1 : n \in X => n + 1 \in X
    PROVE  0 .. N \subseteq X
<1> DEFINE T == {n \in 0 .. N : n \notin X}
<1>1. SUFFICES ASSUME T # {} PROVE FALSE
  OBVIOUS
<1>2. T \subseteq Nat
  OBVIOUS
<1> HIDE DEF T
<1>3. PICK n \in T : \A m \in T : n <= m
  BY <1>1, <1>2, LeastNumber
<1>4. n \in 0 .. N /\ n \notin X /\ n # 0
  BY <1>3 DEF T
<1>5. n - 1 \in 0 .. N - 1 /\ (n - 1) + 1 = n
  BY <1>4
<1>6. n - 1 \notin T
  BY <1>3, <1>4, <1>5
<1> QED BY <1>4, <1>5, <1>6 DEF T

(* What R reaches in n rounds, each adding more(W) to the set W it found.  *)
Rounds(f, R, more, N) ==
    f = [n \in 0 .. N |-> IF n = 0 THEN R ELSE f[n - 1] \cup more[f[n - 1]]]

LEMMA RoundsExist ==
    ASSUME NEW N \in Nat, NEW S, NEW R \in SUBSET S, NEW more \in [SUBSET S -> SUBSET S]
    PROVE  \E f \in [0 .. N -> SUBSET S] : Rounds(f, R, more, N)
<1> DEFINE X == {n \in Nat : \E g \in [0 .. n -> SUBSET S] : Rounds(g, R, more, n)}
<1>1. 0 \in X
  <2>1. PICK g : g = [n \in 0 .. 0 |-> R]
    OBVIOUS
  <2>2. g \in [0 .. 0 -> SUBSET S]
    BY <2>1
  <2>3. Rounds(g, R, more, 0)
    BY <2>1 DEF Rounds
  <2> QED BY <2>2, <2>3
<1>2. ASSUME NEW n \in 0 .. N - 1, n \in X PROVE n + 1 \in X
  <2>1. PICK g \in [0 .. n -> SUBSET S] : Rounds(g, R, more, n)
    BY <1>2
  <2>2. n + 1 \in 1 .. N /\ n \in 0 .. n /\ n + 1 \in Nat /\ (n + 1) - 1 = n
    OBVIOUS
  <2>3. PICK last \in SUBSET S : last = g[n] \cup more[g[n]]
    <3>1. g[n] \in SUBSET S
      BY <2>1, <2>2
    <3> QED BY <3>1
  <2>4. PICK h : h = [i \in 0 .. n + 1 |-> IF i = n + 1 THEN last ELSE g[i]]
    OBVIOUS
  <2>5. h \in [0 .. n + 1 -> SUBSET S]
    <3>1. \A i \in 0 .. n + 1 : i # n + 1 => i \in 0 .. n
      OBVIOUS
    <3> QED BY <2>1, <2>3, <2>4, <3>1
  <2>6. ASSUME NEW i \in 0 .. n + 1
        PROVE  h[i] = IF i = 0 THEN R ELSE h[i - 1] \cup more[h[i - 1]]
    <3>1. CASE i = n + 1
      <4>1. i # 0 /\ i - 1 = n /\ n \in 0 .. n + 1 /\ n # n + 1 /\ h[i] = last /\ h[n] = g[n]
        BY <2>2, <2>4, <3>1
      <4> QED BY <2>3, <4>1
    <3>2. CASE i # n + 1
      <4>1. i \in 0 .. n /\ h[i] = g[i]
        BY <2>4, <3>2
      <4>2. g[i] = IF i = 0 THEN R ELSE g[i - 1] \cup more[g[i - 1]]
        BY <2>1, <4>1 DEF Rounds
      <4>3. i # 0 => i - 1 \in 0 .. n + 1 /\ i - 1 # n + 1
        BY <4>1
      <4> QED BY <2>4, <4>1, <4>2, <4>3
    <3> QED BY <3>1, <3>2
  <2>7. Rounds(h, R, more, n + 1)
    BY <2>5, <2>6 DEF Rounds
  <2> QED BY <2>2, <2>5, <2>7
<1> HIDE DEF X
<1>3. N \in 0 .. N /\ 0 .. N \subseteq X
  BY <1>1, <1>2, UpTo
<1> QED BY <1>3 DEF X

(* What R strongly reaches stays in any set N that holds R and is closed   *)
(* under the references that count as strong for its subsets.              *)
Reaches(f, R) ==
    f = [n \in 0 .. Cardinality(Obj) |->
            IF n = 0 THEN R
            ELSE LET W == f[n - 1] IN W \cup (UNION {StrongRefs(o, W) : o \in W})]
Reaching(R) == CHOOSE f : Reaches(f, R)

LEMMA ReachableWithin ==
    ASSUME NEW N, NEW R \in SUBSET N,
           \A W \in SUBSET N : \A o \in W : StrongRefs(o, W) \subseteq N
    PROVE  StronglyReachable(R) \subseteq N
<1>1. PICK K \in Nat : K = Cardinality(Obj)
  BY ObjAssumption, FS_CardinalityType DEF ObjAssumption
<1>2. PICK more : more = [W \in SUBSET N |-> UNION {StrongRefs(o, W) : o \in W}]
  OBVIOUS
<1>3. more \in [SUBSET N -> SUBSET N]
  <2>1. \A W \in SUBSET N : UNION {StrongRefs(o, W) : o \in W} \in SUBSET N
    OBVIOUS
  <2> QED BY <1>2, <2>1
<1>4. PICK g \in [0 .. K -> SUBSET N] : Rounds(g, R, more, K)
  BY <1>3, RoundsExist
<1>5. Reaches(g, R)
  <2>1. ASSUME NEW n \in 0 .. K
        PROVE  g[n] = IF n = 0 THEN R
                      ELSE g[n - 1] \cup (UNION {StrongRefs(o, g[n - 1]) : o \in g[n - 1]})
    <3>1. g[n] = IF n = 0 THEN R ELSE g[n - 1] \cup more[g[n - 1]]
      BY <1>4 DEF Rounds
    <3>2. n # 0 => g[n - 1] \in SUBSET N
      BY <1>4
    <3> QED BY <1>2, <3>1, <3>2
  <2>2. g = [n \in 0 .. K |-> g[n]]
    BY <1>4
  <2>3. g = [n \in 0 .. K |->
               IF n = 0 THEN R
               ELSE g[n - 1] \cup (UNION {StrongRefs(o, g[n - 1]) : o \in g[n - 1]})]
    BY <2>1, <2>2
  <2> QED BY <1>1, <2>3 DEF Reaches
<1>6. PICK f : f = Reaching(R)
  OBVIOUS
<1>7. Reaches(f, R)
  BY <1>5, <1>6 DEF Reaching
<1>8. ASSUME NEW n \in 0 .. K
      PROVE  f[n] = IF n = 0 THEN R
                    ELSE f[n - 1] \cup (UNION {StrongRefs(o, f[n - 1]) : o \in f[n - 1]})
  BY <1>1, <1>7, Zenon DEF Reaches
<1> DEFINE X == {n \in 0 .. K : f[n] \subseteq N}
<1>9. 0 \in X
  <2>1. 0 \in 0 .. K
    OBVIOUS
  <2>2. f[0] = R
    BY <1>8, <2>1, Zenon
  <2> QED BY <2>1, <2>2
<1>10. ASSUME NEW n \in 0 .. K - 1, n \in X PROVE n + 1 \in X
  <2>1. PICK m \in 0 .. K : m = n + 1 /\ m # 0 /\ m - 1 = n
    OBVIOUS
  <2>2. f[m] = f[m - 1] \cup (UNION {StrongRefs(o, f[m - 1]) : o \in f[m - 1]})
    BY <1>8, <2>1, Zenon
  <2>3. PICK W : W = f[m - 1] /\ f[m] = W \cup (UNION {StrongRefs(o, W) : o \in W})
    BY <2>2, Zenon
  <2>4. W \in SUBSET N
    BY <1>10, <2>1, <2>3
  <2>5. f[m] \subseteq N
    BY <2>3, <2>4
  <2> QED BY <2>1, <2>5
<1> HIDE DEF X
<1>11. K \in X
  <2>1. K \in 0 .. K /\ 0 .. K \subseteq X
    BY <1>9, <1>10, UpTo
  <2> QED BY <2>1
<1>12. StronglyReachable(R) = Reaching(R)[Cardinality(Obj)]
  BY ONLY Zenon DEF StronglyReachable, Reaching, Reaches
<1> QED BY <1>1, <1>6, <1>11, <1>12 DEF X

-----------------------------------------------------------------------------
(* The objects that are not garbage when nothing is left to traverse: what *)
(* was marked, and the strings, which are values.  They are closed under   *)
(* the strong references, so what the roots reach is among them.           *)

Kept == {o \in Good : ~IsCleared(o)}

NothingToTraverse ==
    /\ InAtomic /\ Waiting = {}
    /\ \A o \in ephemeron : Settled(o)

LEMMA StrongRefsKept ==
    ASSUME TypeOK, SweepInv, SafetyInv, ModesInv, NothingToTraverse,
           NEW W \in SUBSET Kept, NEW o \in W
    PROVE  StrongRefs(o, W) \subseteq Kept
<1>1. /\ o \in Heap /\ o \in Good /\ o \in Obj /\ ~IsCleared(o)
      /\ o # Nil /\ Refs(o) \subseteq Good /\ Refs(o) \subseteq Obj
  BY HeapType, RefsType, ObjAssumption DEF Kept, Good, SafetyInv, GoodInv, ObjAssumption
<1>2. StrongRefs(o, W) \subseteq Refs(o)
  <2>1. \A s \in Entries(o) : val[o][s] \in Values(o)
    BY DEF Values
  <2> QED BY <2>1 DEF StrongRefs, Refs, Strings
<1>3. \A r \in Refs(o) : color[r] \notin White \/ Kind[r] = "string" => r \in Kept
  BY <1>1 DEF Kept, IsCleared, WhiteRef
<1>4. CASE Unwhite(Refs(o))
  BY <1>2, <1>3, <1>4 DEF Unwhite
<1>5. CASE Kind[o] = "string"
  <2>1. Entries(o) = {}
    BY <1>1, <1>5 DEF SafetyInv, CellsInv, Entries
  <2>2. Refs(o) = {}
    BY <2>1 DEF Refs, Keys, Values
  <2> QED BY <1>2, <2>2
<1>6. CASE o \in allweak
  <2>1. Kind[o] = "table"
    BY <1>6 DEF ModesInv
  <2>2. StrongRefs(o, W) = Strings(Refs(o))
    BY <1>6, <2>1 DEF StrongRefs
  <2> QED BY <1>3, <2>2 DEF Strings
<1>7. CASE o \in weak /\ o \notin allweak
  <2>1. Kind[o] = "table" /\ mode[o] = "v"
    BY <1>7 DEF ModesInv, NothingToTraverse
  <2>2. StrongRefs(o, W) = Keys(o) \cup Strings(Values(o))
    BY <1>7, <2>1 DEF StrongRefs
  <2>3. Unwhite(Keys(o))
    BY <1>7 DEF SafetyInv, AtomicInv, WeakInv, NothingToTraverse
  <2> QED BY <1>3, <2>2, <2>3 DEF Strings, Unwhite, Refs
<1>8. CASE o \in ephemeron /\ o \notin allweak
  <2>1. Kind[o] = "table" /\ mode[o] = "k"
    BY <1>8 DEF ModesInv, NothingToTraverse
  <2>2. StrongRefs(o, W) = Strings(Keys(o)) \cup
          {val[o][s] : s \in {i \in Entries(o) : \/ key[o][i] \in W \cup {Nil}
                                                 \/ Kind[key[o][i]] = "string"}}
    BY <1>8, <2>1 DEF StrongRefs
  <2>3. ASSUME NEW s \in Entries(o), key[o][s] \in W \cup {Nil} \/ Kind[key[o][s]] = "string"
        PROVE  val[o][s] \in Kept
    <3>1. ~IsCleared(key[o][s])
      BY <2>3 DEF Kept, IsCleared, WhiteRef
    <3>2. s \in Slot /\ val[o][s] # Nil /\ val[o][s] \in Refs(o)
      BY DEF Entries, Refs, Values
    <3>3. color[val[o][s]] \notin White
      BY <1>8, <3>1, <3>2 DEF NothingToTraverse, Settled
    <3> QED BY <1>3, <3>2, <3>3
  <2>4. \A r \in Strings(Keys(o)) : r \in Kept
    BY <1>3 DEF Strings, Refs
  <2> QED BY <2>2, <2>3, <2>4
<1>9. o \in weak \cup ephemeron \cup allweak \/ Unwhite(Refs(o)) \/ Kind[o] = "string"
  <2>1. color[o] \in Colors
    BY <1>1 DEF TypeOK, Colors
  <2>2. CASE color[o] \in White
    BY <1>1, <2>2 DEF IsCleared, WhiteRef
  <2>3. CASE color[o] = "black"
    <3>1. gcstate \in {"GCSatomic", "GCSinsideatomic"}
      BY DEF NothingToTraverse, InAtomic, SweepInv, PcInv
    <3> QED BY <1>1, <2>3, <3>1 DEF SafetyInv, BlackInv, Marking
  <2>4. CASE color[o] = "gray"
    BY <1>1, <2>4 DEF SafetyInv, AtomicInv, GrayInv, NothingToTraverse
  <2> QED BY <2>1, <2>2, <2>3, <2>4 DEF Colors
<1> QED BY <1>4, <1>5, <1>6, <1>7, <1>8, <1>9

LEMMA ReachableKept ==
    ASSUME TypeOK, SweepInv, SafetyInv, ModesInv, NothingToTraverse, NEW R \in SUBSET Good, Unwhite(R)
    PROVE  \A r \in StronglyReachable(R) : ~IsCleared(r)
<1>1. R \in SUBSET Kept
  BY DEF Unwhite, Kept, IsCleared, WhiteRef
<1>2. PICK N : N = Kept
  OBVIOUS
<1>3. \A W \in SUBSET N : \A o \in W : StrongRefs(o, W) \subseteq N
  BY <1>2, StrongRefsKept
<1>4. StronglyReachable(R) \subseteq N
  BY <1>1, <1>2, <1>3, ReachableWithin
<1> QED BY <1>2, <1>4 DEF Kept

ClearedGarbage ==
    pc \in {"converge1", "converge2"} =>
        \A t \in allgc \cup finobj \cup tobefnz : \A s \in Slot :
            val[t][s] # Nil /\ val'[t][s] = Nil =>
               \/ val[t][s] \notin StronglyReachable(Roots)
               \/ key[t][s] \notin StronglyReachable(Roots \cup tobefnz) \cup {Nil}

LEMMA ClearedStep ==
    ASSUME TypeOK, SweepInv, SafetyInv, ModesInv, Next
    PROVE  ClearedGarbage
<1>1. SUFFICES ASSUME pc \in {"converge1", "converge2"},
                      NEW t \in allgc \cup finobj \cup tobefnz, NEW s \in Slot,
                      val[t][s] # Nil, val'[t][s] = Nil
               PROVE  \/ val[t][s] \notin StronglyReachable(Roots)
                      \/ key[t][s] \notin StronglyReachable(Roots \cup tobefnz) \cup {Nil}
  BY DEF ClearedGarbage
<1>2. t \in Obj
  BY HeapType DEF Heap
<1>3. AtomicClearValues \/ AtomicClearRest
  <2>1. val' # val
    BY <1>1
  <2> QED BY <1>1, <2>1
      DEF Next, Collector, Program, RestartCollection, Propagate, AtomicBegin, AtomicPropagate,
          PropagateMark, AtomicRoots, AtomicGrayAgain, ConvergeRound, ConvergeTable,
          AtomicSeparate, AtomicFlip, EnterSweep, SweepStep, SweepEnd, CallFinalizer,
          CallFinDone, FullGCDone, ProgramRuns, NewObject, Push, Pop, TableSet, SetField,
          SetMode, SetGlobalMetatable, CheckFinalizer, FullGC, cells
<1>4. NothingToTraverse
  <2>1. Converged
    BY <1>3 DEF AtomicClearValues, AtomicClearRest
  <2>2. gray = {} /\ todo = {} /\ again = {} /\ \A o \in ephemeron : Settled(o)
    BY <1>1, <2>1 DEF Converged, SafetyInv, AtomicInv, LocalsInv, ConvergeInv
  <2> QED BY <1>1, <2>2 DEF NothingToTraverse, InAtomic, Waiting
<1>5. Roots \in SUBSET Good /\ Unwhite(Roots)
  BY <1>1 DEF SafetyInv, GoodInv, AtomicInv, RootsInv
<1>6. \A r \in StronglyReachable(Roots) : ~IsCleared(r)
  BY <1>4, <1>5, ReachableKept
<1>7. IsCleared(val[t][s]) \/ (pc = "converge2" /\ IsCleared(key[t][s]))
  <2>1. CASE AtomicClearValues
    <3>1. Goes(t, s, {}, weak \cup allweak)
      BY <1>1, <1>2, <2>1 DEF AtomicClearValues, ClearTables
    <3> QED BY <3>1 DEF Goes
  <2>2. CASE AtomicClearRest
    <3>1. Goes(t, s, ephemeron \cup allweak, (weak \ origweak) \cup (allweak \ origall))
      BY <1>1, <1>2, <2>2 DEF AtomicClearRest, ClearTables
    <3> QED BY <2>2, <3>1 DEF Goes, AtomicClearRest
  <2> QED BY <1>3, <2>1, <2>2
<1>8. ASSUME pc = "converge2", IsCleared(key[t][s])
      PROVE  key[t][s] \notin StronglyReachable(Roots \cup tobefnz) \cup {Nil}
  <2>1. PICK R : R = Roots \cup tobefnz
    OBVIOUS
  <2>2. R \in SUBSET Good /\ Unwhite(R)
    BY <1>5, <1>8, <2>1 DEF SafetyInv, GoodInv, SweepInv, MarkedInv, Unwhite, IsWhite
  <2>3. \A r \in StronglyReachable(R) : ~IsCleared(r)
    BY <1>4, <2>2, ReachableKept
  <2> QED BY <1>8, <2>1, <2>3 DEF IsCleared, WhiteRef
<1> QED BY <1>6, <1>7, <1>8

(* No entry of a weak table is cleared while the program could still get   *)
(* to it: when clearvalues or clearkeys removes one, its value was not     *)
(* marked, or its key was not marked, and by then marking has gone through *)
(* every strong reference, those that ephemerons hold included.            *)
THEOREM OnlyGarbageCleared ==
    ASSUME TobefnzFits
    PROVE  Spec => ClearOnlyGarbage
<1>1. UNCHANGED vars => ClearedGarbage
  BY DEF ClearedGarbage, vars, cells
<1>2. TypeOK /\ SweepInv /\ SafetyInv /\ ModesInv /\ [Next]_vars => [ClearedGarbage]_vars
  BY <1>1, ClearedStep
<1> QED BY <1>2, TypeCorrect, SweepInvariant, SafetyInvariant, ListsInvariant, PTL
        DEF Spec, ClearOnlyGarbage, ClearedGarbage

SetAside ==
    \A o \in finobj : o \in tobefnz' =>
        /\ o \notin StronglyReachable(Roots)
        /\ \A t \in Heap : Kind[t] = "table" /\ ~IsWhite(t) /\ mode[t] \in {"v", "kv"} =>
               o \notin Values(t)

LEMMA SetAsideStep ==
    ASSUME TypeOK, SweepInv, SafetyInv, ModesInv, SeparatedInv, Next
    PROVE  SetAside
<1>1. SUFFICES ASSUME NEW o \in finobj, o \in tobefnz'
               PROVE  /\ o \notin StronglyReachable(Roots)
                      /\ \A t \in Heap :
                           Kind[t] = "table" /\ ~IsWhite(t) /\ mode[t] \in {"v", "kv"} =>
                           o \notin Values(t)
  BY DEF SetAside
<1>2. o \notin tobefnz
  BY DEF SweepInv, ListsApart
<1>3. AtomicSeparate
  BY <1>1, <1>2
     DEF Next, Collector, Program, RestartCollection, Propagate, AtomicBegin, AtomicPropagate,
         PropagateMark, AtomicRoots, AtomicGrayAgain, ConvergeRound, ConvergeTable,
         AtomicClearValues, AtomicClearRest, AtomicFlip, EnterSweep, SweepStep, Sweep, SweepEnd,
         CallFinalizer, CallFinDone, FullGCDone, NewObject, Push, Pop, TableSet, SetField,
         SetMode, SetGlobalMetatable, CheckFinalizer, FullGC, lists
<1>4. pc = "separate" /\ IsCleared(o)
  <2>1. pc = "separate" /\ color[o] \in White
    BY <1>1, <1>2, <1>3 DEF AtomicSeparate, IsWhite
  <2>2. o \in Obj /\ Kind[o] \in {"udata", "table"}
    BY ObjAssumption DEF TypeOK, ObjAssumption
  <2> QED BY <2>1, <2>2, ObjAssumption DEF ObjAssumption, IsCleared, WhiteRef
<1>5. /\ gray = {} /\ todo = {} /\ again = {} /\ origweak = weak /\ origall = allweak
      /\ \A x \in ephemeron : Settled(x)
  BY <1>4 DEF SeparatedInv, SafetyInv, AtomicInv, LocalsInv
<1>6. InAtomic /\ Waiting = {} /\ NothingToTraverse
  BY <1>4, <1>5 DEF NothingToTraverse, InAtomic, Waiting
<1>7. o \notin StronglyReachable(Roots)
  <2>1. Roots \in SUBSET Good /\ Unwhite(Roots)
    BY <1>4 DEF SafetyInv, GoodInv, AtomicInv, RootsInv
  <2> QED BY <1>4, <1>6, <2>1, ReachableKept
<1>8. ASSUME NEW t \in Heap, Kind[t] = "table", ~IsWhite(t), mode[t] \in {"v", "kv"}
      PROVE  o \notin Values(t)
  <2>1. color[o] \in White
    BY <1>4 DEF IsCleared, WhiteRef
  <2>2. SUFFICES Unwhite(Values(t))
    BY <2>1 DEF Unwhite
  <2>3. t \in Obj /\ color[t] \in {"gray", "black"}
    BY <1>8, HeapType DEF TypeOK, IsWhite
  <2>4. CASE color[t] = "black"
    <3>1. gcstate = "GCSinsideatomic"
      BY <1>4 DEF SweepInv, PcInv
    <3>2. Unwhite(Refs(t))
      BY <2>4, <3>1 DEF SafetyInv, BlackInv, Marking
    <3> QED BY <3>2 DEF Unwhite, Refs
  <2>5. CASE color[t] = "gray"
    <3>1. t \in weak \cup allweak \/ t \in ephemeron \/ Unwhite(Refs(t))
      BY <1>6, <2>5 DEF SafetyInv, AtomicInv, GrayInv
    <3>2. CASE t \in weak \cup allweak
      BY <1>4, <1>5, <3>2 DEF SafetyInv, AtomicInv, WeakInv
    <3>3. CASE t \in ephemeron
      BY <1>6, <1>8, <3>3 DEF ModesInv
    <3>4. CASE Unwhite(Refs(t))
      BY <3>4 DEF Unwhite, Refs
    <3> QED BY <3>1, <3>2, <3>3, <3>4
  <2> QED BY <2>3, <2>4, <2>5
<1> QED BY <1>7, <1>8

(* An object goes to tobefnz, for its finalizer, only when the roots do not*)
(* strongly reach it, and no table with weak values that the program keeps *)
(* still has it as a value: values are cleared before finalizers run.      *)
THEOREM OnlyGarbageFinalized ==
    ASSUME TobefnzFits
    PROVE  Spec => FinalizeOnlyGarbage
<1>1. TypeOK /\ SweepInv /\ SafetyInv /\ ModesInv /\ SeparatedInv /\ [Next]_vars
        => [SetAside]_vars
  BY SetAsideStep
<1> QED BY <1>1, TypeCorrect, SweepInvariant, SafetyInvariant, ListsInvariant, PTL
        DEF Spec, FinalizeOnlyGarbage, SetAside
=============================================================================
