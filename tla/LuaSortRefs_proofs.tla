-------------------------- MODULE LuaSortRefs_proofs --------------------------
(* Two library functions that keep a structure in a table: the sort of        *)
(* ltablib.c and the references of lauxlib.c.                                 *)
EXTENDS LuaSort, LuaRefs, WellFoundedInduction, TLAPS

-------------------------------------------------------------------------------
(* Sorting                                                                    *)
(*                                                                            *)
(* table.sort stays inside its array whatever the order function answers, and *)
(* sorts it by every strict weak order.  Two arguments carry the proofs: each *)
(* step exchanges two elements of the interval being sorted (the copies on    *)
(* the stack are what is still stored), and each pair out of order lies in an *)
(* interval that is still to be sorted, these intervals being disjoint.       *)

Index == 1 .. Len(initial)
Intervals == [lo : Nat \ {0}, up : 0 .. Len(initial), rnd : Nat]
Active == {"ends", "low", "high", "left", "right"}

SortTypes ==
  /\ initial \in Seq(Element)
  /\ array \in [Index -> Element] /\ from \in [Index -> Index]
  /\ interval \in Intervals /\ callers \in Seq(Intervals)
  /\ comparing \in Active \cup {"sorted", "invalid order function"}

(* Where the elements of an array a come from.                                *)
Placed(a, f) ==
  /\ \A k \in Index : a[k] = initial[f[k]]
  /\ \A k, l \in Index : k # l => f[k] # f[l]

(* The variables of auxsort and partition.                                    *)
Located ==
  /\ comparing \in Active => lo < up
  /\ comparing \in {"low", "high"} => p \in lo + 1 .. up - 1
  /\ comparing \in {"left", "right"} => i \in lo + 1 .. up - 1 /\ pivot = array[up - 1]
  /\ comparing = "left" => j \in lo + 1 .. up - 1
  /\ comparing = "right" => j \in lo .. up - 2 /\ ai = array[i]

(* What is left to sort.                                                      *)
Disjoint(I, J) == I.up < J.lo \/ J.up < I.lo
Inside(I, k, l) == I.lo <= k /\ l <= I.up
AllApart(S) == \A m, n \in DOMAIN S : m # n => Disjoint(S[m], S[n])
Apart(I, S) == AllApart(S) /\ \A m \in DOMAIN S : Disjoint(I, S[m])

(* The inductive invariant for any order function.                            *)
InsideInv == SortTypes /\ Placed(array, from) /\ Located /\ Apart(interval, callers)

(* x is before y; with an order that is one.                                  *)
Below(x, y) == <<x, y>> \in order[2]
IsOrder == order[1] = "by" /\ StrictWeakOrder(order[2])

(* A pair of a that is out of order is in I or in an interval of S.           *)
Pending(a, I, S) ==
  \A k, l \in Index :
    k < l /\ Below(a[l], a[k]) => Inside(I, k, l) \/ \E m \in DOMAIN S : Inside(S[m], k, l)
AtMostPivot(ks) == \A k \in ks : ~Below(pivot, array[k])
AtLeastPivot(ks) == \A k \in ks : ~Below(array[k], pivot)

(* The inductive invariant for an order: what the comparisons have shown.     *)
SortedInv ==
  /\ comparing # "invalid order function"
  /\ Pending(array, interval, callers)
  /\ comparing = "sorted" => lo >= up /\ callers = <<>>
  /\ comparing \in {"low", "high"} => ~Below(array[up], array[lo])
  /\ comparing = "high" => ~Below(array[p], array[lo])
  /\ comparing \in {"left", "right"} => AtMostPivot(lo .. i - 1)
  /\ comparing = "left" => AtLeastPivot(j .. up)
  /\ comparing = "right" => AtLeastPivot(j + 1 .. up) /\ ~Below(ai, pivot)

-------------------------------------------------------------------------------
(* Operators.                                                                 *)

(* A set of numbers up to n has a largest one.                                *)
LEMMA MaxExists ==
  ASSUME NEW n \in Nat, NEW S \in SUBSET (0 .. n), S # {}
  PROVE  \E x \in S : \A y \in S : y <= x
<1> DEFINE T == {n - x : x \in S}
<1>1. T \subseteq Nat /\ T # {}
  <2>1. PICK x \in S : TRUE
    OBVIOUS
  <2>2. n - x \in T
    OBVIOUS
  <2>3. T \subseteq Nat
    OBVIOUS
  <2> QED
    BY <2>2, <2>3
<1>2. PICK least \in T : \A y \in T : ~(<<y, least>> \in OpToRel(<, Nat))
  <2> HIDE DEF T
  <2> QED
    BY <1>1, NatLessThanWellFounded, WFMin
<1>3. \A y \in T : ~(y < least)
  <2> SUFFICES ASSUME NEW y \in T, y < least PROVE FALSE
    OBVIOUS
  <2>1. y \in Nat /\ least \in Nat
    BY <1>1
  <2>2. <<y, least>> \in OpToRel(<, Nat)
    BY <2>1 DEF OpToRel
  <2> QED
    BY <1>2, <2>2
<1>4. PICK x \in S : least = n - x
  OBVIOUS
<1>5. \A y \in S : y <= x
  <2> SUFFICES ASSUME NEW y \in S PROVE y <= x
    OBVIOUS
  <2>1. n - y \in T
    OBVIOUS
  <2>2. ~(n - y < n - x)
    BY <1>3, <1>4, <2>1
  <2> QED
    BY <2>2
<1> QED
  BY <1>5

(* An exchange keeps the elements.                                            *)
LEMMA ExchangeKeeps ==
  ASSUME initial \in Seq(Element),
         NEW a \in [Index -> Element], NEW f \in [Index -> Index], Placed(a, f),
         NEW k \in Index, NEW l \in Index
  PROVE  /\ set2(a, k, a[l], l, a[k]) \in [Index -> Element]
         /\ Exchanged(f, k, l) \in [Index -> Index]
         /\ Placed(set2(a, k, a[l], l, a[k]), Exchanged(f, k, l))
         /\ \A m \in Index : set2(a, k, a[l], l, a[k])[m] =
              IF m = k THEN a[l] ELSE IF m = l THEN a[k] ELSE a[m]
<1> DEFINE b == set2(a, k, a[l], l, a[k])
           g == Exchanged(f, k, l)
<1>1. b \in [Index -> Element] /\ g \in [Index -> Index]
  BY DEF set2, Exchanged
<1>2. \A m \in Index : b[m] = IF m = k THEN a[l] ELSE IF m = l THEN a[k] ELSE a[m]
  BY DEF set2
<1>3. \A m \in Index : g[m] = IF m = k THEN f[l] ELSE IF m = l THEN f[k] ELSE f[m]
  BY DEF Exchanged
<1>4. Placed(b, g)
  <2> HIDE DEF b, g
  <2> QED
    BY <1>1, <1>2, <1>3 DEF Placed
<1> QED
  BY <1>1, <1>2, <1>4

(* The pivot is inside the interval, between its ends.                        *)
LEMMA MiddleInside ==
  ASSUME SortTypes, lo < up, up - lo # 1
  PROVE  Middle \in lo + 1 .. up - 1
<1>1. lo \in Nat /\ up \in Nat /\ rnd \in Nat /\ up - lo >= 2
  <2>1. Len(initial) \in Nat /\ interval \in Intervals
    <3>1. initial \in Seq(Element) /\ interval \in Intervals
      BY DEF SortTypes
    <3> QED
      BY <3>1
  <2>2. lo \in Nat /\ up \in Nat /\ rnd \in Nat
    BY <2>1 DEF Intervals, lo, up, rnd
  <2> QED
    BY <2>2
<1>2. (lo + up) \div 2 \in lo + 1 .. up - 1
  BY <1>1
<1>3. ASSUME up - lo >= RANLIMIT PROVE choosePivot(lo, up, rnd) \in lo + 1 .. up - 1
  <2> DEFINE r4 == (up - lo) \div 4
  <2>1. r4 \in Nat /\ r4 >= 1 /\ 4 * r4 <= up - lo
    BY <1>1, <1>3, SortAssumption
  <2>2. r4 * 2 \in Nat /\ r4 * 2 > 0
    BY <2>1
  <2> HIDE DEF r4
  <2>3. rnd % (r4 * 2) \in 0 .. r4 * 2 - 1
    BY <1>1, <2>2
  <2>4. (rnd % (r4 * 2)) + lo + r4 \in lo + 1 .. up - 1
    BY <1>1, <2>1, <2>3
  <2> QED
    BY <2>4 DEF choosePivot, r4
<1> QED
  BY <1>1, <1>2, <1>3, SortAssumption DEF Middle

(* Back to the last caller with two elements or more to sort, if there is one.*)
Back(S, r) ==
  \/ /\ r.interval = [lo |-> 1, up |-> 0, rnd |-> 0] /\ r.callers = <<>>
     /\ \A m \in DOMAIN S : ~(S[m].lo < S[m].up)
  \/ \E last \in DOMAIN S :
       /\ r.interval = S[last] /\ S[last].lo < S[last].up
       /\ r.callers = SubSeq(S, 1, last - 1)
       /\ \A m \in DOMAIN S : m > last => ~(S[m].lo < S[m].up)
LEMMA ResumeBack ==
  ASSUME NEW S \in Seq(Intervals) PROVE Back(S, Resume(S))
<1> DEFINE waiting == {k \in DOMAIN S : S[k].lo < S[k].up}
<1>1. CASE waiting = {}
  BY <1>1 DEF Resume, Back
<1>2. CASE waiting # {}
  <2> DEFINE last == CHOOSE k \in waiting : \A m \in waiting : m <= k
  <2>1. waiting \in SUBSET (0 .. Len(S)) /\ Len(S) \in Nat
    OBVIOUS
  <2>2. \E k \in waiting : \A m \in waiting : m <= k
    <3> HIDE DEF waiting
    <3> QED
      BY <1>2, <2>1, MaxExists
  <2>3. last \in waiting /\ \A m \in waiting : m <= last
    <3> HIDE DEF waiting
    <3> QED
      BY <2>2
  <2>4. Resume(S) = [interval |-> S[last], callers |-> SubSeq(S, 1, last - 1)]
    BY <1>2 DEF Resume
  <2> HIDE DEF last
  <2>5. \A m \in DOMAIN S : m > last => ~(S[m].lo < S[m].up)
    BY <2>3
  <2> QED
    BY <2>3, <2>4, <2>5 DEF Back
<1> QED
  BY <1>1, <1>2

-------------------------------------------------------------------------------
(* No step uses an index outside the interval, whatever the function answers. *)

LEMMA Bounds ==
  ASSUME SortTypes, lo < up
  PROVE  lo \in Index /\ up \in Index /\ lo \in Nat /\ up \in Nat /\ Len(initial) \in Nat
<1>1. initial \in Seq(Element) /\ interval \in Intervals
  BY DEF SortTypes
<1>2. Len(initial) \in Nat
  BY <1>1
<1> QED
  BY <1>1, <1>2 DEF Intervals, Index, lo, up

(* What Sort(Resume(S)) does: the pairs that lie in S lie in what is left.    *)
LEMMA ResumeInside ==
  ASSUME SortTypes, NEW S \in Seq(Intervals), AllApart(S), Sort(Resume(S))
  PROVE  /\ interval' \in Intervals /\ callers' \in Seq(Intervals) /\ Apart(interval', callers')
         /\ comparing' \in {"ends", "sorted"}
         /\ comparing' = "ends" => lo' < up'
         /\ comparing' = "sorted" => lo' >= up' /\ callers' = <<>>
         /\ \A k, l \in Index : k < l /\ (\E m \in DOMAIN S : Inside(S[m], k, l)) =>
              Inside(interval', k, l) \/ \E m \in DOMAIN callers' : Inside(callers'[m], k, l)
<1> DEFINE r == Resume(S)
<1>1. /\ interval' = r.interval /\ callers' = r.callers
      /\ comparing' = IF r.interval.lo < r.interval.up THEN "ends" ELSE "sorted"
  BY DEF Sort
<1>2. Back(S, r)
  BY ResumeBack
<1>3. Len(S) \in Nat /\ DOMAIN S = 1 .. Len(S) /\ Len(initial) \in Nat
  <2>1. initial \in Seq(Element)
    BY DEF SortTypes
  <2> QED
    BY <2>1
<1>4. \A m \in DOMAIN S : S[m] \in Intervals /\ S[m].lo \in Nat \ {0} /\ S[m].up \in Nat
  <2> SUFFICES ASSUME NEW m \in DOMAIN S
               PROVE  S[m] \in Intervals /\ S[m].lo \in Nat \ {0} /\ S[m].up \in Nat
    OBVIOUS
  <2>1. S[m] \in Intervals
    BY <1>3
  <2> QED
    BY <1>3, <2>1 DEF Intervals
<1> HIDE DEF r
<1>5. CASE /\ r.interval = [lo |-> 1, up |-> 0, rnd |-> 0] /\ r.callers = <<>>
           /\ \A m \in DOMAIN S : ~(S[m].lo < S[m].up)
  <2>1. interval' \in Intervals /\ callers' \in Seq(Intervals) /\ Apart(interval', callers')
    BY <1>1, <1>3, <1>5 DEF Intervals, Apart, AllApart
  <2>2. comparing' = "sorted" /\ lo' = 1 /\ up' = 0 /\ callers' = <<>>
    BY <1>1, <1>5 DEF lo, up
  <2>3. \A k, l \in Index : ~(k < l /\ \E m \in DOMAIN S : Inside(S[m], k, l))
    BY <1>3, <1>4, <1>5 DEF Inside, Index
  <2> QED
    BY <2>1, <2>2, <2>3
<1>6. ASSUME NEW last \in DOMAIN S, r.interval = S[last], S[last].lo < S[last].up,
             r.callers = SubSeq(S, 1, last - 1),
             \A m \in DOMAIN S : m > last => ~(S[m].lo < S[m].up)
      PROVE  /\ interval' \in Intervals /\ callers' \in Seq(Intervals) /\ Apart(interval', callers')
             /\ comparing' = "ends" /\ lo' < up'
             /\ \A k, l \in Index : k < l /\ (\E m \in DOMAIN S : Inside(S[m], k, l)) =>
                  Inside(interval', k, l) \/ \E m \in DOMAIN callers' : Inside(callers'[m], k, l)
  <2>1. /\ callers' \in Seq(Intervals) /\ DOMAIN callers' = 1 .. last - 1
        /\ \A m \in 1 .. last - 1 : m \in DOMAIN S /\ m # last /\ callers'[m] = S[m]
    BY <1>1, <1>3, <1>6
  <2>2. interval' = S[last] /\ interval' \in Intervals /\ comparing' = "ends" /\ lo' < up'
    BY <1>1, <1>4, <1>6 DEF lo, up
  <2>3. Apart(interval', callers')
    <3>1. AllApart(callers')
      BY <2>1 DEF AllApart
    <3>2. \A m \in DOMAIN callers' : Disjoint(interval', callers'[m])
      BY <1>6, <2>1, <2>2 DEF AllApart
    <3> QED
      BY <3>1, <3>2 DEF Apart
  <2>4. ASSUME NEW k \in Index, NEW l \in Index, k < l, NEW m \in DOMAIN S, Inside(S[m], k, l)
        PROVE  Inside(interval', k, l) \/ \E n \in DOMAIN callers' : Inside(callers'[n], k, l)
    <3>1. m <= last
      BY <1>3, <1>4, <1>6, <2>4 DEF Inside, Index
    <3>2. CASE m = last
      BY <2>2, <2>4, <3>2
    <3>3. CASE m # last
      <4>1. m \in DOMAIN callers' /\ callers'[m] = S[m]
        BY <1>3, <2>1, <3>1, <3>3
      <4> QED
        BY <2>4, <4>1
    <3> QED
      BY <3>2, <3>3
  <2> QED
    BY <2>1, <2>2, <2>3, <2>4
<1> QED
  BY <1>2, <1>5, <1>6 DEF Back

(* The array after a step.                                                    *)
Rearranged(a, f) ==
  a \in [Index -> Element] /\ f \in [Index -> Index] /\ Placed(a, f) /\ UNCHANGED <<order, initial>>

(* A step that returns to a caller, and one that goes on in the interval.     *)
LEMMA ReturnInside ==
  ASSUME InsideInv, NEW S \in Seq(Intervals), AllApart(S), Sort(Resume(S)), Rearranged(array', from')
  PROVE  InsideInv'
<1>1. SortTypes /\ initial' = initial /\ Index' = Index /\ Intervals' = Intervals
  BY DEF InsideInv, Rearranged, Index, Intervals
<1>2. /\ interval' \in Intervals /\ callers' \in Seq(Intervals) /\ Apart(interval', callers')
      /\ comparing' \in {"ends", "sorted"}
      /\ comparing' = "ends" => lo' < up'
  BY <1>1, ResumeInside
<1>3. SortTypes'
  BY <1>1, <1>2 DEF SortTypes, Rearranged, Active
<1>4. Located'
  BY <1>2 DEF Located, Active
<1>5. Placed(array, from)' /\ Apart(interval, callers)'
  BY <1>1, <1>2 DEF Placed, Apart, AllApart, Rearranged
<1> QED
  BY <1>3, <1>4, <1>5 DEF InsideInv
LEMMA StayInside ==
  ASSUME InsideInv, UNCHANGED <<interval, callers>>, Rearranged(array', from'),
         comparing' \in Active \cup {"invalid order function"}, Located'
  PROVE  InsideInv'
<1>1. SortTypes /\ initial' = initial /\ Index' = Index /\ Intervals' = Intervals
  BY DEF InsideInv, Rearranged, Index, Intervals
<1>2. SortTypes'
  BY <1>1 DEF SortTypes, Rearranged
<1>3. Placed(array, from)' /\ Apart(interval, callers)'
  BY <1>1 DEF InsideInv, Placed, Apart, AllApart, Rearranged
<1> QED
  BY <1>2, <1>3 DEF InsideInv

LEMMA EndsInside == ASSUME InsideInv, CompareEnds PROVE InsideInv'
<1>1. SortTypes /\ Placed(array, from) /\ Apart(interval, callers) /\ lo < up
  BY DEF InsideInv, Located, CompareEnds, Active
<1>2. lo \in Index /\ up \in Index /\ initial \in Seq(Element) /\ callers \in Seq(Intervals)
  BY <1>1, Bounds DEF SortTypes
<1>3. Rearranged(array', from')
  <2>1. PICK less \in sort_comp(array[up], array[lo]) :
          IF less THEN array' = set2(array, lo, array[up], up, array[lo]) /\ from' = Exchanged(from, lo, up)
          ELSE UNCHANGED <<array, from>>
    BY DEF CompareEnds
  <2>2. CASE less
    BY <1>1, <1>2, <2>1, <2>2, ExchangeKeeps DEF SortTypes, Rearranged, CompareEnds
  <2>3. CASE ~less
    BY <1>1, <2>1, <2>3 DEF SortTypes, Rearranged, CompareEnds
  <2> QED
    BY <2>2, <2>3
<1>4. CASE up - lo = 1
  BY <1>1, <1>2, <1>3, <1>4, ReturnInside DEF CompareEnds, Return, Apart
<1>5. CASE up - lo # 1
  <2>1. p' = Middle /\ comparing' = "low" /\ UNCHANGED <<interval, callers>>
    BY <1>5 DEF CompareEnds
  <2>2. lo' = lo /\ up' = up
    BY <2>1 DEF lo, up
  <2>3. Located'
    BY <1>1, <1>5, <2>1, <2>2, MiddleInside DEF Located
  <2> QED
    BY <1>3, <2>1, <2>3, StayInside DEF Active
<1> QED
  BY <1>4, <1>5

LEMMA MedianInside ==
  ASSUME InsideInv, comparing \in {"low", "high"}, UNCHANGED <<order, initial>>,
         NEW a \in [Index -> Element], NEW f \in [Index -> Index], Placed(a, f), Median(a, f)
  PROVE  /\ InsideInv'
         /\ up - lo = 2 => array' = a
         /\ up - lo # 2 => \A m \in Index : array'[m] = IF m = p THEN a[up - 1] ELSE IF m = up - 1 THEN a[p] ELSE a[m]
<1>1. SortTypes /\ Apart(interval, callers) /\ lo < up /\ p \in lo + 1 .. up - 1
  BY DEF InsideInv, Located, Active
<1>2. /\ lo \in Nat /\ up \in Nat /\ lo \in Index /\ up \in Index /\ Len(initial) \in Nat
      /\ initial \in Seq(Element) /\ callers \in Seq(Intervals)
  BY <1>1, Bounds DEF SortTypes
<1>3. CASE up - lo = 2
  <2>1. array' = a /\ from' = f /\ Return
    BY <1>3 DEF Median
  <2>2. Rearranged(array', from')
    BY <2>1 DEF Rearranged
  <2> QED
    BY <1>1, <1>2, <1>3, <2>1, <2>2, ReturnInside DEF Return, Apart
<1>4. CASE up - lo # 2
  <2>1. /\ array' = set2(a, p, a[up - 1], up - 1, a[p]) /\ from' = Exchanged(f, p, up - 1)
        /\ pivot' = a[p] /\ i' = lo + 1 /\ j' = up - 1 /\ comparing' = "left" /\ UNCHANGED <<interval, callers>>
    BY <1>4 DEF Median
  <2>2. p \in Index /\ up - 1 \in Index
    BY <1>1, <1>2 DEF Index
  <2>3. /\ Rearranged(array', from')
        /\ \A m \in Index : array'[m] = IF m = p THEN a[up - 1] ELSE IF m = up - 1 THEN a[p] ELSE a[m]
    BY <1>2, <2>1, <2>2, ExchangeKeeps DEF Rearranged
  <2>4. lo' = lo /\ up' = up
    BY <2>1 DEF lo, up
  <2>5. array'[up - 1] = a[p]
    BY <2>2, <2>3
  <2>6. Located'
    BY <1>1, <1>2, <2>1, <2>4, <2>5 DEF Located
  <2> QED
    BY <1>4, <2>1, <2>3, <2>6, StayInside DEF Active
<1> QED
  BY <1>3, <1>4

LEMMA LowInside == ASSUME InsideInv, CompareLow PROVE InsideInv'
<1>1. /\ SortTypes /\ Placed(array, from) /\ Apart(interval, callers) /\ comparing = "low"
      /\ lo < up /\ p \in lo + 1 .. up - 1
  BY DEF InsideInv, Located, CompareLow, Active
<1>2. /\ lo \in Nat /\ up \in Nat /\ lo \in Index /\ up \in Index /\ Len(initial) \in Nat
      /\ initial \in Seq(Element) /\ array \in [Index -> Element] /\ from \in [Index -> Index]
  BY <1>1, Bounds DEF SortTypes
<1>3. p \in Index
  BY <1>1, <1>2 DEF Index
<1>4. PICK less \in sort_comp(array[p], array[lo]) :
        IF less THEN Median(set2(array, p, array[lo], lo, array[p]), Exchanged(from, p, lo))
        ELSE comparing' = "high" /\ UNCHANGED <<array, from, interval, callers, partitionvars>>
  BY DEF CompareLow
<1>5. UNCHANGED <<order, initial>>
  BY DEF CompareLow
<1>6. CASE less
  BY <1>1, <1>2, <1>3, <1>4, <1>5, <1>6, ExchangeKeeps, MedianInside
<1>7. CASE ~less
  <2>1. comparing' = "high" /\ UNCHANGED <<array, from, interval, callers, p>>
    BY <1>4, <1>7 DEF partitionvars
  <2>2. lo' = lo /\ up' = up
    BY <2>1 DEF lo, up
  <2>3. Located'
    BY <1>1, <2>1, <2>2 DEF Located
  <2>4. Rearranged(array', from')
    BY <1>1, <1>2, <1>5, <2>1 DEF Rearranged
  <2> QED
    BY <2>1, <2>3, <2>4, StayInside DEF Active
<1> QED
  BY <1>6, <1>7

LEMMA HighInside == ASSUME InsideInv, CompareHigh PROVE InsideInv'
<1>1. /\ SortTypes /\ Placed(array, from) /\ comparing = "high"
      /\ lo < up /\ p \in lo + 1 .. up - 1
  BY DEF InsideInv, Located, CompareHigh, Active
<1>2. /\ lo \in Nat /\ up \in Nat /\ lo \in Index /\ up \in Index /\ Len(initial) \in Nat
      /\ initial \in Seq(Element) /\ array \in [Index -> Element] /\ from \in [Index -> Index]
  BY <1>1, Bounds DEF SortTypes
<1>3. p \in Index
  BY <1>1, <1>2 DEF Index
<1>4. PICK less \in sort_comp(array[up], array[p]) :
        IF less THEN Median(set2(array, p, array[up], up, array[p]), Exchanged(from, p, up))
        ELSE Median(array, from)
  BY DEF CompareHigh
<1>5. UNCHANGED <<order, initial>>
  BY DEF CompareHigh
<1>6. CASE less
  BY <1>1, <1>2, <1>3, <1>4, <1>5, <1>6, ExchangeKeeps, MedianInside
<1>7. CASE ~less
  BY <1>1, <1>2, <1>4, <1>5, <1>7, MedianInside
<1> QED
  BY <1>6, <1>7

LEMMA LeftInside == ASSUME InsideInv, CompareLeft PROVE InsideInv'
<1>1. /\ SortTypes /\ Placed(array, from) /\ lo < up
      /\ i \in lo + 1 .. up - 1 /\ j \in lo + 1 .. up - 1 /\ pivot = array[up - 1]
  BY DEF InsideInv, Located, CompareLeft, Active
<1>2. lo \in Nat /\ up \in Nat
  BY <1>1, Bounds
<1>3. comparing = "left" /\ UNCHANGED <<order, initial>>
  BY DEF CompareLeft
<1>4. Rearranged(array', from') /\ UNCHANGED <<array, interval, callers>>
  BY <1>1, <1>3 DEF CompareLeft, InvalidOrder, Rearranged, SortTypes
<1>5. lo' = lo /\ up' = up
  BY <1>4 DEF lo, up
<1>6. PICK less \in sort_comp(array[i], pivot) :
       \/ less /\ BeyondPivot(i) /\ InvalidOrder
       \/ less /\ ~BeyondPivot(i) /\ i' = i + 1 /\ UNCHANGED <<array, from, comparing, interval, callers, p, pivot, j, ai>>
       \/ /\ ~less /\ ai' = array[i] /\ j' = j - 1 /\ comparing' = "right"
          /\ UNCHANGED <<array, from, interval, callers, p, pivot, i>>
  BY DEF CompareLeft
<1>7. CASE InvalidOrder
  BY <1>4, <1>7, StayInside DEF InvalidOrder, Located, Active
<1>8. CASE ~BeyondPivot(i) /\ i' = i + 1 /\ UNCHANGED <<comparing, p, pivot, j, ai>>
  <2>1. Located'
    BY <1>1, <1>2, <1>3, <1>4, <1>5, <1>8 DEF Located, BeyondPivot
  <2> QED
    BY <1>3, <1>4, <1>8, <2>1, StayInside DEF Active
<1>9. CASE ai' = array[i] /\ j' = j - 1 /\ comparing' = "right" /\ UNCHANGED <<p, pivot, i>>
  <2>1. Located'
    BY <1>1, <1>2, <1>4, <1>5, <1>9 DEF Located
  <2> QED
    BY <1>4, <1>9, <2>1, StayInside DEF Active
<1> QED
  BY <1>6, <1>7, <1>8, <1>9

(* What Split sorts now, I, and what it leaves for later, J.                  *)
Lower(at) == [lo |-> lo, up |-> at - 1, rnd |-> rnd]
Upper(at) == [lo |-> at + 1, up |-> up, rnd |-> rnd]
Halves(I, J, r) ==
  LET rest == Append(callers, [J EXCEPT !.rnd = r])
  IN Sort(IF I.lo < I.up THEN [interval |-> I, callers |-> rest] ELSE Resume(rest))

LEMMA SplitHalves ==
  ASSUME SortTypes, NEW at, Split(at)
  PROVE  \E r \in Nat : Halves(Lower(at), Upper(at), r) \/ Halves(Upper(at), Lower(at), r)
<1> DEFINE smaller == IF at - lo < up - at THEN Lower(at) ELSE Upper(at)
           larger == IF at - lo < up - at THEN Upper(at) ELSE Lower(at)
           n == IF at - lo < up - at THEN at - lo ELSE up - at
<1>1. PICK r \in IF Uneven(larger.lo, larger.up, n) THEN RANDOM ELSE {rnd} :
        LET rest == Append(callers, [larger EXCEPT !.rnd = r])
        IN Sort(IF smaller.lo < smaller.up THEN [interval |-> smaller, callers |-> rest] ELSE Resume(rest))
  BY DEF Split, Lower, Upper
<1>2. r \in Nat
  BY SortAssumption DEF SortTypes, Intervals, rnd
<1>3. Halves(smaller, larger, r)
  BY <1>1 DEF Halves
<1> QED
  BY <1>2, <1>3

(* Both halves are inside the interval, disjoint from each other and the rest,*)
(* and a pair that lies in one of them or in the rest lies in what is left.   *)
LEMMA HalvesInside ==
  ASSUME InsideInv, lo < up, NEW at \in lo + 1 .. up - 1, NEW r \in Nat, NEW I, NEW J,
         (I = Lower(at) /\ J = Upper(at)) \/ (I = Upper(at) /\ J = Lower(at)),
         Halves(I, J, r), Rearranged(array', from')
  PROVE  /\ InsideInv'
         /\ comparing' \in {"ends", "sorted"}
         /\ comparing' = "sorted" => lo' >= up' /\ callers' = <<>>
         /\ \A k, l \in Index :
              k < l /\ (Inside(I, k, l) \/ Inside(J, k, l) \/ \E m \in DOMAIN callers : Inside(callers[m], k, l)) =>
              Inside(interval', k, l) \/ \E m \in DOMAIN callers' : Inside(callers'[m], k, l)
<1> DEFINE later == [J EXCEPT !.rnd = r]
           rest == Append(callers, later)
<1>1. SortTypes /\ Apart(interval, callers) /\ initial' = initial /\ Index' = Index /\ Intervals' = Intervals
  BY DEF InsideInv, Rearranged, Index, Intervals
<1>2. /\ lo \in Nat /\ up \in Nat /\ lo >= 1 /\ up <= Len(initial) /\ Len(initial) \in Nat /\ rnd \in Nat
      /\ callers \in Seq(Intervals) /\ Len(callers) \in Nat /\ DOMAIN callers = 1 .. Len(callers)
  <2>1. initial \in Seq(Element) /\ interval \in Intervals /\ callers \in Seq(Intervals)
    BY <1>1 DEF SortTypes
  <2>2. rnd \in Nat
    BY <2>1 DEF Intervals, rnd
  <2> QED
    BY <1>1, <2>1, <2>2, Bounds DEF Index
<1>3. I \in Intervals /\ later \in Intervals /\ later.lo = J.lo /\ later.up = J.up
  <2>1. Lower(at) \in Intervals /\ Upper(at) \in Intervals
    BY <1>2 DEF Lower, Upper, Intervals
  <2>2. J \in Intervals
    BY <2>1
  <2>3. later \in Intervals /\ later.lo = J.lo /\ later.up = J.up
    BY <2>2 DEF Intervals
  <2> QED
    BY <2>1, <2>3
<1>4. /\ I.lo \in Nat /\ I.up \in Nat /\ J.lo \in Nat /\ J.up \in Nat
      /\ lo <= I.lo /\ I.up <= up /\ lo <= J.lo /\ J.up <= up
      /\ Disjoint(I, J) /\ Disjoint(J, I)
  BY <1>2 DEF Lower, Upper, Disjoint
<1>5. ASSUME NEW m \in DOMAIN callers
      PROVE  /\ callers[m] \in Intervals
             /\ Disjoint(I, callers[m]) /\ Disjoint(J, callers[m]) /\ Disjoint(callers[m], J)
  <2>1. Disjoint(interval, callers[m])
    BY <1>1 DEF Apart
  <2>2. callers[m] \in Intervals
    BY <1>2
  <2>3. callers[m].lo \in Nat /\ callers[m].up \in Nat
    BY <1>2, <2>2 DEF Intervals
  <2>4. up < callers[m].lo \/ callers[m].up < lo
    BY <2>1 DEF Disjoint, lo, up
  <2>5. I.up < callers[m].lo \/ callers[m].up < I.lo
    BY <1>2, <1>4, <2>3, <2>4
  <2>6. J.up < callers[m].lo \/ callers[m].up < J.lo
    BY <1>2, <1>4, <2>3, <2>4
  <2> QED
    BY <2>2, <2>5, <2>6 DEF Disjoint
<1> HIDE DEF later
<1>6. /\ rest \in Seq(Intervals) /\ DOMAIN rest = 1 .. Len(callers) + 1
      /\ rest[Len(callers) + 1] = later /\ \A m \in 1 .. Len(callers) : rest[m] = callers[m]
  BY <1>2, <1>3
<1> HIDE DEF rest
<1>7. AllApart(rest)
  <2>1. \A m, n \in DOMAIN callers : m # n => Disjoint(rest[m], rest[n])
    BY <1>1, <1>2, <1>6 DEF Apart, AllApart
  <2>2. \A m \in DOMAIN callers : Disjoint(rest[m], later) /\ Disjoint(later, rest[m])
    BY <1>2, <1>3, <1>5, <1>6 DEF Disjoint
  <2>3. \A m \in DOMAIN rest : m \in DOMAIN callers \/ m = Len(callers) + 1
    BY <1>2, <1>6
  <2> QED
    BY <1>6, <2>1, <2>2, <2>3 DEF AllApart
<1>8. \A k, l : (Inside(J, k, l) \/ \E m \in DOMAIN callers : Inside(callers[m], k, l)) =>
                \E m \in DOMAIN rest : Inside(rest[m], k, l)
  <2>1. ASSUME NEW k, NEW l, Inside(J, k, l) PROVE \E m \in DOMAIN rest : Inside(rest[m], k, l)
    BY <1>2, <1>3, <1>6, <2>1 DEF Inside
  <2>2. ASSUME NEW k, NEW l, NEW m \in DOMAIN callers, Inside(callers[m], k, l)
        PROVE  \E n \in DOMAIN rest : Inside(rest[n], k, l)
    <3>1. m \in DOMAIN rest /\ rest[m] = callers[m]
      BY <1>2, <1>6
    <3> QED
      BY <2>2, <3>1
  <2> QED
    BY <2>1, <2>2
<1>9. CASE I.lo < I.up
  <2>1. interval' = I /\ callers' = rest /\ comparing' = "ends" /\ lo' = I.lo /\ up' = I.up
    BY <1>9 DEF Halves, Sort, lo, up, later, rest
  <2>2. Apart(interval', callers')
    <3>1. \A m \in DOMAIN rest : Disjoint(I, rest[m])
      <4>1. \A m \in DOMAIN callers : Disjoint(I, rest[m])
        BY <1>2, <1>5, <1>6
      <4>2. Disjoint(I, later)
        BY <1>3, <1>4 DEF Disjoint
      <4> QED
        BY <1>2, <1>6, <4>1, <4>2
    <3> QED
      BY <1>7, <2>1, <3>1 DEF Apart
  <2>3. SortTypes'
    BY <1>1, <1>3, <1>6, <2>1 DEF SortTypes, Rearranged, Active
  <2>4. Located'
    BY <1>9, <2>1 DEF Located, Active
  <2>5. Placed(array, from)' /\ Apart(interval, callers)'
    BY <1>1, <2>2 DEF Placed, Apart, AllApart, Rearranged
  <2> QED
    BY <1>8, <2>1, <2>3, <2>4, <2>5 DEF InsideInv
<1>10. CASE ~(I.lo < I.up)
  <2>1. Sort(Resume(rest))
    BY <1>10 DEF Halves, later, rest
  <2>2. InsideInv'
    BY <1>6, <1>7, <2>1, ReturnInside
  <2>3. \A k, l \in Index : ~(k < l /\ Inside(I, k, l))
    BY <1>2, <1>4, <1>10 DEF Inside, Index
  <2> QED
    BY <1>1, <1>6, <1>7, <1>8, <2>1, <2>2, <2>3, ResumeInside
<1> QED
  BY <1>9, <1>10

LEMMA RightInside == ASSUME InsideInv, CompareRight PROVE InsideInv'
<1>1. /\ SortTypes /\ Placed(array, from) /\ lo < up /\ comparing = "right"
      /\ i \in lo + 1 .. up - 1 /\ j \in lo .. up - 2 /\ pivot = array[up - 1] /\ ai = array[i]
  BY DEF InsideInv, Located, CompareRight, Active
<1>2. /\ lo \in Nat /\ up \in Nat /\ lo \in Index /\ up \in Index /\ Len(initial) \in Nat
      /\ initial \in Seq(Element) /\ array \in [Index -> Element] /\ from \in [Index -> Index]
  BY <1>1, Bounds DEF SortTypes
<1>3. i \in Index /\ j \in Index /\ up - 1 \in Index
  BY <1>1, <1>2 DEF Index
<1>4. UNCHANGED <<order, initial>>
  BY DEF CompareRight
<1>5. CASE j < i /\ InvalidOrder
  <2>1. Rearranged(array', from') /\ UNCHANGED <<interval, callers>>
    BY <1>1, <1>2, <1>4, <1>5 DEF InvalidOrder, Rearranged
  <2> QED
    BY <1>5, <2>1, StayInside DEF InvalidOrder, Located, Active
<1>6. CASE j >= i /\ j' = j - 1 /\ UNCHANGED <<array, from, comparing, interval, callers, p, pivot, i, ai>>
  <2>1. Rearranged(array', from')
    BY <1>1, <1>2, <1>4, <1>6 DEF Rearranged
  <2>2. lo' = lo /\ up' = up
    BY <1>6 DEF lo, up
  <2>3. Located'
    BY <1>1, <1>2, <1>6, <2>2 DEF Located
  <2> QED
    BY <1>1, <1>6, <2>1, <2>3, StayInside DEF Active
<1>7. CASE /\ array' = set2(array, up - 1, ai, i, pivot) /\ from' = Exchanged(from, up - 1, i)
           /\ Split(i)
  <2>1. Rearranged(array', from')
    BY <1>1, <1>2, <1>3, <1>4, <1>7, ExchangeKeeps DEF Rearranged
  <2>2. PICK r \in Nat : Halves(Lower(i), Upper(i), r) \/ Halves(Upper(i), Lower(i), r)
    BY <1>1, <1>7, SplitHalves
  <2> QED
    BY <1>1, <2>1, <2>2, HalvesInside
<1>8. CASE /\ j >= i
           /\ array' = set2(array, i, array[j], j, ai) /\ from' = Exchanged(from, i, j)
           /\ i' = i + 1 /\ comparing' = "left"
           /\ UNCHANGED <<interval, callers, p, pivot, j, ai>>
  <2>1. /\ Rearranged(array', from')
        /\ \A m \in Index : array'[m] = IF m = i THEN array[j] ELSE IF m = j THEN array[i] ELSE array[m]
    BY <1>1, <1>2, <1>3, <1>4, <1>8, ExchangeKeeps DEF Rearranged
  <2>2. lo' = lo /\ up' = up
    BY <1>8 DEF lo, up
  <2>3. array'[up - 1] = array[up - 1]
    BY <1>1, <1>2, <1>3, <1>8, <2>1
  <2>4. Located'
    BY <1>1, <1>2, <1>8, <2>2, <2>3 DEF Located
  <2> QED
    BY <1>8, <2>1, <2>4, StayInside DEF Active
<1> QED
  BY <1>5, <1>6, <1>7, <1>8 DEF CompareRight

LEMMA InitInside == SortInit => InsideInv
<1> SUFFICES ASSUME SortInit PROVE InsideInv
  OBVIOUS
<1>1. /\ initial \in Seq(Element) /\ array = initial /\ from = [k \in DOMAIN array |-> k]
      /\ callers = <<>> /\ interval = [lo |-> 1, up |-> Len(array), rnd |-> 0]
      /\ comparing = IF Len(array) > 1 THEN "ends" ELSE "sorted"
  BY SortAssumption DEF SortInit
<1>2. /\ Len(initial) \in Nat /\ DOMAIN initial = Index /\ initial \in [Index -> Element]
  BY <1>1 DEF Index
<1>3. SortTypes
  <2>1. from \in [Index -> Index]
    BY <1>1, <1>2
  <2>2. interval \in Intervals
    <3>1. Len(array) \in 0 .. Len(initial)
      BY <1>1, <1>2
    <3> QED
      BY <1>1, <3>1 DEF Intervals
  <2>3. comparing \in Active \cup {"sorted", "invalid order function"}
    BY <1>1 DEF Active
  <2> QED
    BY <1>1, <1>2, <2>1, <2>2, <2>3 DEF SortTypes
<1>4. Placed(array, from)
  BY <1>1, <1>2 DEF Placed
<1>5. Located
  BY <1>1, <1>2 DEF Located, Active, lo, up
<1>6. Apart(interval, callers)
  BY <1>1 DEF Apart, AllApart
<1> QED
  BY <1>3, <1>4, <1>5, <1>6 DEF InsideInv

LEMMA InsideInvNext == InsideInv /\ [SortNext]_sortvars => InsideInv'
<1> SUFFICES ASSUME InsideInv, [SortNext]_sortvars PROVE InsideInv'
  OBVIOUS
<1>1. CASE UNCHANGED sortvars
  BY <1>1 DEF sortvars, partitionvars, InsideInv, SortTypes, Placed, Located, Apart, AllApart, Disjoint, Index, Intervals,
              lo, up
<1> QED
  BY <1>1, EndsInside, LowInside, HighInside, LeftInside, RightInside DEF SortNext

(* table.sort with any function: the array always holds the elements it had   *)
(* (the copies the steps store are still right), and every index that is read *)
(* or written is one of the interval being sorted.                            *)
THEOREM SortStaysInside == SortSpec => []SortsInside
<1>1. InsideInv => SortsInside
  <2> SUFFICES ASSUME InsideInv PROVE SortsInside
    OBVIOUS
  <2>1. SortTypes /\ Placed(array, from) /\ Located
    BY DEF InsideInv
  <2>2. initial \in Seq(Element) /\ array \in [Index -> Element] /\ interval \in Intervals
    BY <2>1 DEF SortTypes
  <2>3. Len(initial) \in Nat /\ DOMAIN array = Index /\ Len(array) = Len(initial)
    BY <2>2 DEF Index
  <2>4. lo >= 1 /\ up <= Len(array) /\ lo \in Nat /\ up \in Nat
    BY <2>2, <2>3 DEF Intervals, lo, up
  <2>5. comparing = "right" => j \in lo .. up - 1 /\ i \in lo + 1 .. up - 1
    BY <2>1, <2>4 DEF Located
  <2> QED
    BY <2>1, <2>3, <2>4, <2>5 DEF SortsInside, Placed, Located, Active
<1> QED
  BY <1>1, InitInside, InsideInvNext, PTL DEF SortSpec

-------------------------------------------------------------------------------
(* With an order that is one, every pair out of order is in what is left.     *)

LEMMA Answers ==
  ASSUME IsOrder, NEW x, NEW y, NEW less \in sort_comp(x, y) PROVE less <=> Below(x, y)
<1>1. sort_comp(x, y) = {(<<x, y>> \in order[2])}
  BY DEF IsOrder, sort_comp
<1> QED
  BY <1>1, Zenon DEF Below

LEMMA OrderFacts ==
  ASSUME IsOrder
  PROVE  /\ \A x \in Element : ~Below(x, x)
         /\ \A x, y \in Element : Below(x, y) => ~Below(y, x)
         /\ \A x, y, z \in Element : ~Below(x, y) /\ ~Below(y, z) => ~Below(x, z)
  BY DEF IsOrder, StrictWeakOrder, Below

(* Elements may move inside the interval: no pair with one end inside it is   *)
(* out of order, since what is left to the callers is disjoint from it.       *)
LEMMA MovedInside ==
  ASSUME InsideInv, lo < up, NEW a \in [Index -> Element], Pending(a, interval, callers),
         NEW b \in [Index -> Element], \A m \in Index : m \notin lo .. up => b[m] = a[m],
         \A m \in lo .. up : \E n \in lo .. up : b[m] = a[n]
  PROVE  Pending(b, interval, callers)
<1>1. SortTypes /\ Apart(interval, callers)
  BY DEF InsideInv
<1>2. lo \in Nat /\ up \in Nat /\ lo \in Index /\ up \in Index /\ Len(initial) \in Nat /\ callers \in Seq(Intervals)
  BY <1>1, Bounds DEF SortTypes
<1>3. lo .. up \subseteq Index
  BY <1>2 DEF Index
<1>4. ASSUME NEW k \in Index, NEW l \in Index, k < l, NEW m \in DOMAIN callers, Inside(callers[m], k, l)
      PROVE  ~(k < lo /\ lo <= l) /\ ~(k <= up /\ up < l)
  <2>1. callers[m] \in Intervals
    BY <1>2
  <2>2. callers[m].lo \in Nat /\ callers[m].up \in Nat
    BY <1>2, <2>1 DEF Intervals
  <2>3. up < callers[m].lo \/ callers[m].up < lo
    BY <1>1 DEF Apart, Disjoint, lo, up
  <2> QED
    BY <1>2, <1>4, <2>2, <2>3 DEF Inside, Index
<1> SUFFICES ASSUME NEW k \in Index, NEW l \in Index, k < l, Below(b[l], b[k])
             PROVE  Inside(interval, k, l) \/ \E m \in DOMAIN callers : Inside(callers[m], k, l)
  BY DEF Pending
<1>5. ASSUME NEW c \in Index, NEW d \in Index, c < d, Below(a[d], a[c])
      PROVE  (lo <= c /\ d <= up) \/ \E m \in DOMAIN callers : Inside(callers[m], c, d)
  BY <1>5 DEF Pending, Inside, lo, up
<1>6. CASE k \in lo .. up /\ l \in lo .. up
  BY <1>2, <1>6 DEF Inside, lo, up
<1>7. CASE k \notin lo .. up /\ l \notin lo .. up
  <2>1. Below(a[l], a[k])
    BY <1>7
  <2> QED
    BY <2>1, <1>5 DEF Inside, lo, up
<1>8. CASE k \notin lo .. up /\ l \in lo .. up
  <2>1. PICK n \in lo .. up : b[l] = a[n]
    BY <1>8
  <2>2. k < lo /\ k < n /\ n \in Index /\ Below(a[n], a[k])
    BY <1>2, <1>3, <1>8, <2>1 DEF Index
  <2> QED
    BY <1>2, <1>4, <1>5, <2>1, <2>2 DEF Index
<1>9. CASE k \in lo .. up /\ l \notin lo .. up
  <2>1. PICK n \in lo .. up : b[k] = a[n]
    BY <1>9
  <2>2. up < l /\ n < l /\ n \in Index /\ Below(a[l], a[n])
    BY <1>2, <1>3, <1>9, <2>1 DEF Index
  <2> QED
    BY <1>2, <1>4, <1>5, <2>1, <2>2 DEF Index
<1> QED
  BY <1>6, <1>7, <1>8, <1>9

(* A step that stays in its interval, and one that has sorted it.             *)
LEMMA PendingStays ==
  ASSUME UNCHANGED <<order, initial, interval, callers>>, Pending(array', interval, callers)
  PROVE  Pending(array, interval, callers)'
  BY DEF Pending, Inside, Below, Index
LEMMA ReturnSorted ==
  ASSUME InsideInv, Rearranged(array', from'), Return, lo < up, Pending(array', interval, callers),
         \A k, l \in lo .. up : k < l => ~Below(array'[l], array'[k])
  PROVE  SortedInv'
<1>1. SortTypes /\ AllApart(callers) /\ callers \in Seq(Intervals) /\ UNCHANGED <<order, initial>>
  BY DEF InsideInv, SortTypes, Apart, Rearranged
<1>2. lo \in Nat /\ up \in Nat /\ Len(initial) \in Nat
  BY <1>1, Bounds
<1>3. /\ comparing' \in {"ends", "sorted"}
      /\ comparing' = "sorted" => lo' >= up' /\ callers' = <<>>
      /\ \A k, l \in Index : k < l /\ (\E m \in DOMAIN callers : Inside(callers[m], k, l)) =>
           Inside(interval', k, l) \/ \E m \in DOMAIN callers' : Inside(callers'[m], k, l)
  BY <1>1, ResumeInside DEF Return
<1>4. ASSUME NEW k \in Index, NEW l \in Index, k < l, Below(array'[l], array'[k])
      PROVE  \E m \in DOMAIN callers : Inside(callers[m], k, l)
  <2>1. ~Inside(interval, k, l)
    BY <1>2, <1>4 DEF Inside, Index, lo, up
  <2> QED
    BY <1>4, <2>1 DEF Pending
<1>5. Pending(array, interval, callers)'
  BY <1>1, <1>3, <1>4 DEF Pending, Inside, Below, Index
<1> QED
  BY <1>3, <1>5 DEF SortedInv

LEMMA EndsSorted == ASSUME InsideInv, SortedInv, IsOrder, CompareEnds PROVE SortedInv'
<1>1. SortTypes /\ Placed(array, from) /\ lo < up
  BY DEF InsideInv, Located, CompareEnds, Active
<1>2. /\ lo \in Nat /\ up \in Nat /\ lo \in Index /\ up \in Index /\ Len(initial) \in Nat
      /\ initial \in Seq(Element) /\ array \in [Index -> Element] /\ from \in [Index -> Index]
  BY <1>1, Bounds DEF SortTypes
<1>3. UNCHANGED <<order, initial>>
  BY DEF CompareEnds
<1>4. PICK less \in sort_comp(array[up], array[lo]) :
        IF less THEN array' = set2(array, lo, array[up], up, array[lo]) /\ from' = Exchanged(from, lo, up)
        ELSE UNCHANGED <<array, from>>
  BY DEF CompareEnds
<1>5. less <=> Below(array[up], array[lo])
  BY <1>4, Answers
<1>6. /\ Rearranged(array', from')
      /\ \A m \in Index : m \notin lo .. up => array'[m] = array[m]
      /\ \A m \in lo .. up : \E n \in lo .. up : array'[m] = array[n]
      /\ ~Below(array'[up], array'[lo])
  <2>1. CASE less
    <3>1. /\ Rearranged(array', from')
          /\ \A m \in Index : array'[m] = IF m = lo THEN array[up] ELSE IF m = up THEN array[lo] ELSE array[m]
      BY <1>1, <1>2, <1>3, <1>4, <2>1, ExchangeKeeps DEF Rearranged
    <3>2. lo .. up \subseteq Index /\ lo \in lo .. up /\ up \in lo .. up
      BY <1>1, <1>2 DEF Index
    <3>3. ~Below(array'[up], array'[lo])
      BY <1>1, <1>2, <1>5, <2>1, <3>1, OrderFacts
    <3> QED
      BY <1>2, <3>1, <3>2, <3>3
  <2>2. CASE ~less
    BY <1>1, <1>2, <1>3, <1>4, <1>5, <2>2 DEF Rearranged
  <2> QED
    BY <2>1, <2>2
<1>7. Pending(array', interval, callers)
  BY <1>1, <1>2, <1>6, MovedInside DEF SortedInv, Rearranged
<1>8. CASE up - lo = 1
  <2>1. \A k, l \in lo .. up : k < l => k = lo /\ l = up
    BY <1>2, <1>8
  <2> QED
    BY <1>1, <1>6, <1>7, <1>8, <2>1, ReturnSorted DEF CompareEnds
<1>9. CASE up - lo # 1
  <2>1. comparing' = "low" /\ UNCHANGED <<interval, callers>>
    BY <1>9 DEF CompareEnds
  <2>2. lo' = lo /\ up' = up /\ Pending(array, interval, callers)'
    BY <1>3, <1>7, <2>1, PendingStays DEF lo, up
  <2> QED
    BY <1>3, <1>6, <2>1, <2>2 DEF SortedInv, Below
<1> QED
  BY <1>8, <1>9

(* a[lo], a[p] and a[up] are in order: the pivot is at least as large as the  *)
(* lowest element, and no larger than the highest.                            *)
LEMMA MedianSorted ==
  ASSUME InsideInv, IsOrder, comparing \in {"low", "high"}, UNCHANGED <<order, initial>>,
         NEW a \in [Index -> Element], NEW f \in [Index -> Index], Placed(a, f), Median(a, f),
         Pending(a, interval, callers), ~Below(a[p], a[lo]), ~Below(a[up], a[p])
  PROVE  SortedInv'
<1>1. SortTypes /\ lo < up /\ p \in lo + 1 .. up - 1
  BY DEF InsideInv, Located, Active
<1>2. /\ lo \in Nat /\ up \in Nat /\ lo \in Index /\ up \in Index /\ p \in Index /\ Len(initial) \in Nat
  BY <1>1, Bounds DEF Index
<1>3. CASE up - lo = 2
  <2>1. array' = a /\ from' = f /\ Return
    BY <1>3 DEF Median
  <2>2. p = lo + 1 /\ up = lo + 2
    BY <1>1, <1>2, <1>3
  <2>3. ~Below(a[up], a[lo])
    BY <1>2, OrderFacts
  <2>4. ASSUME NEW k \in lo .. up, NEW l \in lo .. up, k < l PROVE ~Below(array'[l], array'[k])
    <3>1. (k = lo /\ l = p) \/ (k = p /\ l = up) \/ (k = lo /\ l = up)
      BY <1>2, <2>2, <2>4
    <3> QED
      BY <2>1, <2>3, <3>1
  <2>5. Rearranged(array', from')
    BY <2>1 DEF Rearranged
  <2> QED
    BY <1>1, <2>1, <2>4, <2>5, ReturnSorted
<1>4. CASE up - lo # 2
  <2>1. /\ pivot' = a[p] /\ i' = lo + 1 /\ j' = up - 1 /\ comparing' = "left" /\ UNCHANGED <<interval, callers>>
    BY <1>4 DEF Median
  <2>2. \A m \in Index : array'[m] = IF m = p THEN a[up - 1] ELSE IF m = up - 1 THEN a[p] ELSE a[m]
    BY <1>4, MedianInside
  <2>3. lo .. up \subseteq Index /\ up - 1 \in lo .. up /\ p \in lo .. up
    BY <1>1, <1>2 DEF Index
  <2>4. array' \in [Index -> Element]
    <3>1. array' = set2(a, p, a[up - 1], up - 1, a[p])
      BY <1>4 DEF Median
    <3> QED
      BY <1>2, <2>3, <3>1 DEF set2
  <2>5. Pending(array', interval, callers)
    <3>1. \A m \in Index : m \notin lo .. up => array'[m] = a[m]
      BY <2>2, <2>3
    <3>2. \A m \in lo .. up : \E n \in lo .. up : array'[m] = a[n]
      BY <2>2, <2>3
    <3> QED
      BY <1>1, <2>4, <3>1, <3>2, MovedInside
  <2>6. lo' = lo /\ up' = up /\ Pending(array, interval, callers)'
    BY <2>1, <2>5, PendingStays DEF lo, up
  <2>7. array'[lo] = a[lo] /\ array'[up - 1] = a[p] /\ array'[up] = a[up]
    <3>1. lo # p /\ lo # up - 1 /\ up # p /\ up # up - 1
      BY <1>1, <1>2, <1>4
    <3> QED
      BY <1>2, <2>2, <2>3, <3>1
  <2>8. AtMostPivot(lo .. i - 1)'
    <3>1. \A k \in lo .. lo + 1 - 1 : ~Below(a[p], array'[k])
      BY <1>2, <2>7
    <3>2. \A k \in lo' .. i' - 1 : ~Below(pivot', array'[k])
      BY <1>2, <2>1, <2>6, <3>1
    <3>3. \A k \in lo' .. i' - 1 : <<pivot', array'[k]>> \notin order'[2]
      BY <3>2 DEF Below
    <3> QED
      BY <3>3 DEF AtMostPivot, Below
  <2>9. AtLeastPivot(j .. up)'
    <3>1. ~Below(a[p], a[p])
      BY <1>2, OrderFacts
    <3>2. \A k \in up - 1 .. up : ~Below(array'[k], a[p])
      BY <1>2, <2>7, <3>1
    <3> QED
      BY <2>1, <2>6, <3>2 DEF AtLeastPivot, Below
  <2> QED
    BY <2>1, <2>6, <2>8, <2>9 DEF SortedInv
<1> QED
  BY <1>3, <1>4

LEMMA LowSorted == ASSUME InsideInv, SortedInv, IsOrder, CompareLow PROVE SortedInv'
<1>1. /\ SortTypes /\ Placed(array, from) /\ comparing = "low" /\ lo < up /\ p \in lo + 1 .. up - 1
      /\ ~Below(array[up], array[lo]) /\ Pending(array, interval, callers)
  BY DEF InsideInv, SortedInv, Located, CompareLow, Active
<1>2. /\ lo \in Nat /\ up \in Nat /\ lo \in Index /\ up \in Index /\ p \in Index /\ Len(initial) \in Nat
      /\ initial \in Seq(Element) /\ array \in [Index -> Element] /\ from \in [Index -> Index]
  BY <1>1, Bounds DEF SortTypes, Index
<1>3. UNCHANGED <<order, initial>>
  BY DEF CompareLow
<1>4. PICK less \in sort_comp(array[p], array[lo]) :
        IF less THEN Median(set2(array, p, array[lo], lo, array[p]), Exchanged(from, p, lo))
        ELSE comparing' = "high" /\ UNCHANGED <<array, from, interval, callers, partitionvars>>
  BY DEF CompareLow
<1>5. less <=> Below(array[p], array[lo])
  BY <1>4, Answers
<1>6. CASE less
  <2> DEFINE a == set2(array, p, array[lo], lo, array[p])
  <2>1. /\ a \in [Index -> Element] /\ Exchanged(from, p, lo) \in [Index -> Index]
        /\ Placed(a, Exchanged(from, p, lo)) /\ Median(a, Exchanged(from, p, lo))
        /\ \A m \in Index : a[m] = IF m = p THEN array[lo] ELSE IF m = lo THEN array[p] ELSE array[m]
    BY <1>1, <1>2, <1>4, <1>6, ExchangeKeeps
  <2> HIDE DEF a
  <2>2. lo .. up \subseteq Index /\ lo \in lo .. up /\ p \in lo .. up /\ p # lo /\ p # up /\ lo # up
    BY <1>1, <1>2 DEF Index
  <2>3. Pending(a, interval, callers)
    <3>1. \A m \in Index : m \notin lo .. up => a[m] = array[m]
      BY <2>1, <2>2
    <3>2. \A m \in lo .. up : \E n \in lo .. up : a[m] = array[n]
      BY <2>1, <2>2
    <3> QED
      BY <1>1, <1>2, <2>1, <3>1, <3>2, MovedInside
  <2>4. ~Below(a[p], a[lo]) /\ ~Below(a[up], a[p])
    BY <1>1, <1>2, <1>5, <1>6, <2>1, <2>2, OrderFacts
  <2> QED
    BY <1>1, <1>3, <2>1, <2>3, <2>4, MedianSorted
<1>7. CASE ~less
  <2>1. comparing' = "high" /\ UNCHANGED <<array, interval, callers, p>>
    BY <1>4, <1>7 DEF partitionvars
  <2>2. lo' = lo /\ up' = up /\ Pending(array, interval, callers)'
    BY <1>1, <1>3, <2>1, PendingStays DEF lo, up
  <2> QED
    BY <1>1, <1>3, <1>5, <1>7, <2>1, <2>2 DEF SortedInv, Below
<1> QED
  BY <1>6, <1>7

LEMMA HighSorted == ASSUME InsideInv, SortedInv, IsOrder, CompareHigh PROVE SortedInv'
<1>1. /\ SortTypes /\ Placed(array, from) /\ comparing = "high" /\ lo < up /\ p \in lo + 1 .. up - 1
      /\ ~Below(array[up], array[lo]) /\ ~Below(array[p], array[lo]) /\ Pending(array, interval, callers)
  BY DEF InsideInv, SortedInv, Located, CompareHigh, Active
<1>2. /\ lo \in Nat /\ up \in Nat /\ lo \in Index /\ up \in Index /\ p \in Index /\ Len(initial) \in Nat
      /\ initial \in Seq(Element) /\ array \in [Index -> Element] /\ from \in [Index -> Index]
  BY <1>1, Bounds DEF SortTypes, Index
<1>3. UNCHANGED <<order, initial>>
  BY DEF CompareHigh
<1>4. PICK less \in sort_comp(array[up], array[p]) :
        IF less THEN Median(set2(array, p, array[up], up, array[p]), Exchanged(from, p, up))
        ELSE Median(array, from)
  BY DEF CompareHigh
<1>5. less <=> Below(array[up], array[p])
  BY <1>4, Answers
<1>6. CASE less
  <2> DEFINE a == set2(array, p, array[up], up, array[p])
  <2>1. /\ a \in [Index -> Element] /\ Exchanged(from, p, up) \in [Index -> Index]
        /\ Placed(a, Exchanged(from, p, up)) /\ Median(a, Exchanged(from, p, up))
        /\ \A m \in Index : a[m] = IF m = p THEN array[up] ELSE IF m = up THEN array[p] ELSE array[m]
    BY <1>1, <1>2, <1>4, <1>6, ExchangeKeeps
  <2> HIDE DEF a
  <2>2. lo .. up \subseteq Index /\ up \in lo .. up /\ p \in lo .. up /\ p # lo /\ p # up /\ lo # up
    BY <1>1, <1>2 DEF Index
  <2>3. Pending(a, interval, callers)
    <3>1. \A m \in Index : m \notin lo .. up => a[m] = array[m]
      BY <2>1, <2>2
    <3>2. \A m \in lo .. up : \E n \in lo .. up : a[m] = array[n]
      BY <2>1, <2>2
    <3> QED
      BY <1>1, <1>2, <2>1, <3>1, <3>2, MovedInside
  <2>4. ~Below(a[p], a[lo]) /\ ~Below(a[up], a[p])
    BY <1>1, <1>2, <1>5, <1>6, <2>1, <2>2, OrderFacts
  <2> QED
    BY <1>1, <1>3, <2>1, <2>3, <2>4, MedianSorted
<1>7. CASE ~less
  BY <1>1, <1>2, <1>3, <1>4, <1>5, <1>7, MedianSorted
<1> QED
  BY <1>6, <1>7

LEMMA LeftSorted == ASSUME InsideInv, SortedInv, IsOrder, CompareLeft PROVE SortedInv'
<1>1. /\ SortTypes /\ lo < up /\ i \in lo + 1 .. up - 1 /\ j \in lo + 1 .. up - 1 /\ pivot = array[up - 1]
      /\ Pending(array, interval, callers) /\ AtMostPivot(lo .. i - 1) /\ AtLeastPivot(j .. up)
  BY DEF InsideInv, SortedInv, Located, CompareLeft, Active
<1>2. /\ lo \in Nat /\ up \in Nat /\ i \in Index /\ up - 1 \in Index /\ Len(initial) \in Nat
      /\ array \in [Index -> Element]
  <2>1. lo \in Nat /\ up \in Nat /\ lo \in Index /\ up \in Index /\ Len(initial) \in Nat
    BY <1>1, Bounds
  <2>2. i \in Index /\ up - 1 \in Index
    BY <1>1, <2>1 DEF Index
  <2> QED
    BY <1>1, <2>1, <2>2 DEF SortTypes
<1>3. pivot \in Element /\ array[i] \in Element
  BY <1>1, <1>2
<1>4. comparing = "left" /\ UNCHANGED <<order, initial>>
  BY DEF CompareLeft
<1>5. PICK less \in sort_comp(array[i], pivot) :
       \/ less /\ BeyondPivot(i) /\ InvalidOrder
       \/ less /\ ~BeyondPivot(i) /\ i' = i + 1 /\ UNCHANGED <<array, from, comparing, interval, callers, p, pivot, j, ai>>
       \/ /\ ~less /\ ai' = array[i] /\ j' = j - 1 /\ comparing' = "right"
          /\ UNCHANGED <<array, from, interval, callers, p, pivot, i>>
  BY DEF CompareLeft
<1>6. less <=> Below(array[i], pivot)
  BY <1>5, Answers
<1>7. ~(less /\ BeyondPivot(i))
  BY <1>1, <1>3, <1>6, OrderFacts DEF BeyondPivot
<1>8. CASE less /\ i' = i + 1 /\ UNCHANGED <<array, comparing, interval, callers, p, pivot, j, ai>>
  <2>1. lo' = lo /\ up' = up /\ Pending(array, interval, callers)'
    BY <1>1, <1>4, <1>8, PendingStays DEF lo, up
  <2>2. \A k \in lo .. i + 1 - 1 : ~Below(pivot, array[k])
    <3>1. ~Below(pivot, array[i])
      BY <1>3, <1>6, <1>8, OrderFacts
    <3>2. \A k \in lo .. i + 1 - 1 : k = i \/ k \in lo .. i - 1
      BY <1>1, <1>2
    <3> QED
      BY <1>1, <3>1, <3>2 DEF AtMostPivot
  <2>3. AtMostPivot(lo .. i - 1)' /\ AtLeastPivot(j .. up)'
    BY <1>1, <1>4, <1>8, <2>1, <2>2 DEF AtMostPivot, AtLeastPivot, Below
  <2> QED
    BY <1>4, <1>8, <2>1, <2>3 DEF SortedInv
<1>9. CASE ~less /\ ai' = array[i] /\ j' = j - 1 /\ comparing' = "right" /\ UNCHANGED <<array, interval, callers, p, pivot, i>>
  <2>1. lo' = lo /\ up' = up /\ Pending(array, interval, callers)'
    BY <1>1, <1>4, <1>9, PendingStays DEF lo, up
  <2>2. AtMostPivot(lo .. i - 1)'
    BY <1>1, <1>4, <1>9, <2>1 DEF AtMostPivot, Below
  <2>3. AtLeastPivot(j + 1 .. up)'
    <3>1. j - 1 + 1 = j
      BY <1>1, <1>2
    <3> QED
      BY <1>1, <1>4, <1>9, <2>1, <3>1 DEF AtLeastPivot, Below
  <2>4. ~Below(ai, pivot)'
    BY <1>4, <1>6, <1>9 DEF Below
  <2> QED
    BY <1>9, <2>1, <2>2, <2>3, <2>4 DEF SortedInv
<1> QED
  BY <1>5, <1>7, <1>8, <1>9

LEMMA RightSorted == ASSUME InsideInv, SortedInv, IsOrder, CompareRight PROVE SortedInv'
<1>1. /\ SortTypes /\ Placed(array, from) /\ lo < up /\ comparing = "right"
      /\ i \in lo + 1 .. up - 1 /\ j \in lo .. up - 2 /\ pivot = array[up - 1] /\ ai = array[i]
      /\ Pending(array, interval, callers) /\ ~Below(ai, pivot)
      /\ AtMostPivot(lo .. i - 1) /\ AtLeastPivot(j + 1 .. up)
  BY DEF InsideInv, SortedInv, Located, CompareRight, Active
<1>2. /\ lo \in Nat /\ up \in Nat /\ lo \in Index /\ up \in Index /\ Len(initial) \in Nat
      /\ initial \in Seq(Element) /\ array \in [Index -> Element] /\ from \in [Index -> Index]
  BY <1>1, Bounds DEF SortTypes
<1>3. i \in Index /\ j \in Index /\ up - 1 \in Index /\ lo .. up \subseteq Index
  BY <1>1, <1>2 DEF Index
<1>4. pivot \in Element /\ array[j] \in Element /\ ai \in Element
  BY <1>1, <1>2, <1>3
<1>5. UNCHANGED <<order, initial>>
  BY DEF CompareRight
<1>6. PICK less \in sort_comp(pivot, array[j]) :
       \/ less /\ j < i /\ InvalidOrder
       \/ less /\ j >= i /\ j' = j - 1 /\ UNCHANGED <<array, from, comparing, interval, callers, p, pivot, i, ai>>
       \/ /\ ~less /\ j < i
          /\ array' = set2(array, up - 1, ai, i, pivot) /\ from' = Exchanged(from, up - 1, i)
          /\ Split(i)
       \/ /\ ~less /\ j >= i
          /\ array' = set2(array, i, array[j], j, ai) /\ from' = Exchanged(from, i, j)
          /\ i' = i + 1 /\ comparing' = "left"
          /\ UNCHANGED <<interval, callers, p, pivot, j, ai>>
  BY DEF CompareRight
<1>7. less <=> Below(pivot, array[j])
  BY <1>6, Answers
<1>8. ~(less /\ j < i)
  <2>1. j < i => j \in lo .. i - 1
    BY <1>1, <1>2
  <2> QED
    BY <1>1, <1>7, <2>1 DEF AtMostPivot
<1>9. CASE less /\ j' = j - 1 /\ UNCHANGED <<array, comparing, interval, callers, p, pivot, i, ai>>
  <2>1. lo' = lo /\ up' = up /\ Pending(array, interval, callers)'
    BY <1>1, <1>5, <1>9, PendingStays DEF lo, up
  <2>2. AtMostPivot(lo .. i - 1)' /\ ~Below(ai, pivot)'
    BY <1>1, <1>5, <1>9, <2>1 DEF AtMostPivot, Below
  <2>3. \A k \in j - 1 + 1 .. up : ~Below(array[k], pivot)
    <3>1. ~Below(array[j], pivot)
      BY <1>4, <1>7, <1>9, OrderFacts
    <3>2. \A k \in j - 1 + 1 .. up : k = j \/ k \in j + 1 .. up
      BY <1>1, <1>2
    <3> QED
      BY <1>1, <3>1, <3>2 DEF AtLeastPivot
  <2>4. AtLeastPivot(j + 1 .. up)'
    BY <1>5, <1>9, <2>1, <2>3 DEF AtLeastPivot, Below
  <2> QED
    BY <1>1, <1>9, <2>1, <2>2, <2>4 DEF SortedInv
<1>10. CASE /\ ~less /\ j < i
            /\ array' = set2(array, up - 1, ai, i, pivot) /\ from' = Exchanged(from, up - 1, i)
            /\ Split(i)
  <2>1. /\ Rearranged(array', from')
        /\ \A m \in Index : array'[m] = IF m = up - 1 THEN array[i] ELSE IF m = i THEN pivot ELSE array[m]
    BY <1>1, <1>2, <1>3, <1>5, <1>10, ExchangeKeeps DEF Rearranged
  <2>2. Pending(array', interval, callers)
    <3>1. \A m \in Index : m \notin lo .. up => array'[m] = array[m]
      BY <1>1, <1>2, <2>1
    <3>2. \A m \in lo .. up : \E n \in lo .. up : array'[m] = array[n]
      BY <1>1, <1>2, <1>3, <2>1
    <3> QED
      BY <1>1, <1>2, <2>1, <3>1, <3>2, MovedInside DEF Rearranged
  <2>3. \A k \in lo .. i : ~Below(pivot, array'[k])
    <3>1. ASSUME NEW k \in lo .. i - 1 PROVE ~Below(pivot, array'[k])
      BY <1>1, <1>2, <1>3, <2>1 DEF AtMostPivot
    <3>2. ~Below(pivot, array'[i])
      <4>1. array'[i] = pivot
        BY <1>1, <1>2, <1>3, <2>1
      <4> QED
        BY <1>4, <4>1, OrderFacts
    <3> QED
      BY <1>1, <1>2, <3>1, <3>2
  <2>4. \A l \in i .. up : ~Below(array'[l], pivot)
    <3>1. array'[up - 1] = ai
      BY <1>1, <1>3, <2>1
    <3>2. ASSUME NEW l \in i + 1 .. up, l # up - 1 PROVE ~Below(array'[l], pivot)
      <4>1. l \in Index /\ l # i /\ l \in j + 1 .. up
        BY <1>1, <1>2, <1>10, <3>2 DEF Index
      <4> QED
        BY <1>1, <2>1, <3>2, <4>1 DEF AtLeastPivot
    <3>3. i # up - 1 => array'[i] = pivot
      BY <1>3, <2>1
    <3>4. ~Below(pivot, pivot)
      BY <1>4, OrderFacts
    <3>5. \A l \in i .. up : l = i \/ l \in i + 1 .. up
      BY <1>1, <1>2
    <3> QED
      BY <1>1, <3>1, <3>2, <3>3, <3>4, <3>5
  <2>5. ASSUME NEW k \in Index, NEW l \in Index, k < l, Below(array'[l], array'[k])
        PROVE  Inside(Lower(i), k, l) \/ Inside(Upper(i), k, l) \/ \E m \in DOMAIN callers : Inside(callers[m], k, l)
    <3>1. CASE lo <= k /\ l <= up
      <4>1. ~(k <= i /\ i <= l)
        <5> SUFFICES ASSUME k <= i, i <= l PROVE FALSE
          OBVIOUS
        <5>1. k \in lo .. i /\ l \in i .. up
          BY <1>1, <1>2, <3>1 DEF Index
        <5>2. array'[k] \in Element /\ array'[l] \in Element
          BY <2>1 DEF Rearranged
        <5> QED
          BY <1>4, <2>3, <2>4, <2>5, <5>1, <5>2, OrderFacts
      <4> QED
        BY <1>1, <1>2, <3>1, <4>1 DEF Inside, Lower, Upper, Index
    <3>2. CASE ~(lo <= k /\ l <= up)
      BY <2>2, <2>5, <3>2 DEF Pending, Inside, lo, up
    <3> QED
      BY <3>1, <3>2
  <2>6. PICK r \in Nat : Halves(Lower(i), Upper(i), r) \/ Halves(Upper(i), Lower(i), r)
    BY <1>1, <1>10, SplitHalves
  <2>7. /\ comparing' \in {"ends", "sorted"}
        /\ comparing' = "sorted" => lo' >= up' /\ callers' = <<>>
        /\ \A k, l \in Index :
             k < l /\ (Inside(Lower(i), k, l) \/ Inside(Upper(i), k, l) \/ \E m \in DOMAIN callers : Inside(callers[m], k, l)) =>
             Inside(interval', k, l) \/ \E m \in DOMAIN callers' : Inside(callers'[m], k, l)
    <3>1. CASE Halves(Lower(i), Upper(i), r)
      BY <1>1, <2>1, <2>6, <3>1, HalvesInside
    <3>2. CASE Halves(Upper(i), Lower(i), r)
      BY <1>1, <2>1, <2>6, <3>2, HalvesInside
    <3> QED
      BY <2>6, <3>1, <3>2
  <2>8. Pending(array, interval, callers)'
    BY <1>5, <2>5, <2>7 DEF Pending, Inside, Below, Index
  <2> QED
    BY <2>7, <2>8 DEF SortedInv
<1>11. CASE /\ ~less /\ j >= i
            /\ array' = set2(array, i, array[j], j, ai) /\ from' = Exchanged(from, i, j)
            /\ i' = i + 1 /\ comparing' = "left"
            /\ UNCHANGED <<interval, callers, p, pivot, j, ai>>
  <2>1. /\ Rearranged(array', from')
        /\ \A m \in Index : array'[m] = IF m = i THEN array[j] ELSE IF m = j THEN ai ELSE array[m]
    BY <1>1, <1>2, <1>3, <1>5, <1>11, ExchangeKeeps DEF Rearranged
  <2>2. Pending(array', interval, callers)
    <3>1. \A m \in Index : m \notin lo .. up => array'[m] = array[m]
      BY <1>1, <1>2, <2>1
    <3>2. \A m \in lo .. up : \E n \in lo .. up : array'[m] = array[n]
      BY <1>1, <1>2, <1>3, <2>1
    <3> QED
      BY <1>1, <1>2, <2>1, <3>1, <3>2, MovedInside DEF Rearranged
  <2>3. lo' = lo /\ up' = up /\ Pending(array, interval, callers)'
    BY <1>5, <1>11, <2>2, PendingStays DEF lo, up
  <2>4. \A k \in lo .. i + 1 - 1 : ~Below(pivot, array'[k])
    <3>1. \A k \in lo .. i - 1 : ~Below(pivot, array'[k])
      BY <1>1, <1>2, <1>3, <1>11, <2>1 DEF AtMostPivot
    <3>2. array'[i] = array[j]
      BY <1>3, <2>1
    <3>3. \A k \in lo .. i + 1 - 1 : k = i \/ k \in lo .. i - 1
      BY <1>1, <1>2
    <3> QED
      BY <1>7, <1>11, <3>1, <3>2, <3>3
  <2>5. \A k \in j .. up : ~Below(array'[k], pivot)
    <3>1. \A k \in j + 1 .. up : array'[k] = array[k]
      BY <1>1, <1>2, <1>3, <1>11, <2>1
    <3>2. ~Below(array'[j], pivot)
      BY <1>1, <1>3, <1>7, <1>11, <2>1
    <3>3. \A k \in j .. up : k = j \/ k \in j + 1 .. up
      BY <1>1, <1>2
    <3> QED
      BY <1>1, <3>1, <3>2, <3>3 DEF AtLeastPivot
  <2>6. AtMostPivot(lo .. i - 1)' /\ AtLeastPivot(j .. up)'
    <3>1. \A k \in lo' .. i' - 1 : ~Below(pivot', array'[k])
      BY <1>1, <1>2, <1>11, <2>3, <2>4
    <3>2. \A k \in j' .. up' : ~Below(array'[k], pivot')
      BY <1>1, <1>2, <1>11, <2>3, <2>5
    <3>3. order' = order
      BY <1>5
    <3> QED
      BY <3>1, <3>2, <3>3 DEF AtMostPivot, AtLeastPivot, Below
  <2> QED
    BY <1>11, <2>3, <2>6 DEF SortedInv
<1> QED
  BY <1>6, <1>8, <1>9, <1>10, <1>11

(* table.sort sorts by every strict weak order, and takes none for invalid.   *)
THEOREM SortIsSorted == SortSpec => []Sorted
<1> DEFINE Inv == InsideInv /\ (IsOrder => SortedInv)
<1>1. SortInit => Inv
  <2> SUFFICES ASSUME SortInit PROVE SortedInv
    BY InitInside
  <2>1. InsideInv
    BY InitInside
  <2>2. /\ array = initial /\ initial \in Seq(Element) /\ callers = <<>>
        /\ interval = [lo |-> 1, up |-> Len(array), rnd |-> 0]
        /\ comparing = IF Len(array) > 1 THEN "ends" ELSE "sorted"
    BY <2>1 DEF SortInit, InsideInv, SortTypes
  <2>3. Len(initial) \in Nat
    BY <2>2
  <2>4. Pending(array, interval, callers)
    BY <2>2, <2>3 DEF Pending, Inside, Index
  <2> QED
    BY <2>2, <2>3, <2>4 DEF SortedInv, lo, up
<1>2. Inv /\ [SortNext]_sortvars => Inv'
  <2> SUFFICES ASSUME InsideInv, IsOrder => SortedInv, [SortNext]_sortvars, IsOrder' PROVE SortedInv'
    BY InsideInvNext
  <2>1. CASE UNCHANGED sortvars
    BY <2>1 DEF sortvars, partitionvars, SortedInv, Pending, Inside, Index, Below, AtMostPivot, AtLeastPivot, lo, up, IsOrder
  <2>2. CASE SortNext
    <3>1. IsOrder
      BY <2>2 DEF IsOrder, SortNext, CompareEnds, CompareLow, CompareHigh, CompareLeft, CompareRight
    <3> QED
      BY <2>2, <3>1, EndsSorted, LowSorted, HighSorted, LeftSorted, RightSorted DEF SortNext
  <2> QED
    BY <2>1, <2>2
<1>3. Inv => Sorted
  <2> SUFFICES ASSUME InsideInv, IsOrder, SortedInv PROVE Sorted
    BY DEF Sorted, IsOrder
  <2>1. /\ initial \in Seq(Element) /\ DOMAIN array = Index /\ interval \in Intervals
    BY DEF InsideInv, SortTypes
  <2>2. lo \in Nat /\ up \in Nat /\ Len(initial) \in Nat
    BY <2>1 DEF Intervals, lo, up
  <2>3. ASSUME comparing = "sorted", NEW k \in DOMAIN array, NEW l \in DOMAIN array, k < l
        PROVE  <<array[l], array[k]>> \notin order[2]
    <3>1. ~Inside(interval, k, l) /\ callers = <<>>
      BY <2>1, <2>2, <2>3 DEF SortedInv, Inside, Index, lo, up
    <3> QED
      BY <2>1, <2>3, <3>1 DEF SortedInv, Pending, Below
  <2> QED
    BY <2>3 DEF Sorted, SortedInv
<1> QED
  BY <1>1, <1>2, <1>3, PTL DEF SortSpec

-------------------------------------------------------------------------------
(* References                                                                 *)
(*                                                                            *)
(* A reference keeps its value: the free list is threaded through the table   *)
(* in the order in which the references were given back, the last one first.  *)

Given == 1 .. MaxRefs

(* What the k-th element of the list is linked from.                          *)
Link(k) == IF k \in DOMAIN freed THEN freed[k] ELSE NIL

RefsTypes ==
  /\ DOMAIN t = Refs /\ DOMAIN held \subseteq Given
  /\ freed \in Seq(Given)
HeldStored == \A r \in DOMAIN held : t[r] = held[r] /\ held[r] \in Held
Threaded ==
  /\ t[0] = Link(1)
  /\ \A k \in DOMAIN freed : t[freed[k]] = Link(k + 1)
FreedOnce ==
  /\ \A k, l \in DOMAIN freed : freed[k] = freed[l] => k = l
  /\ \A k \in DOMAIN freed : freed[k] \notin DOMAIN held
OthersNil == \A r \in Given : t[r] = NIL \/ r \in DOMAIN held \/ \E k \in DOMAIN freed : freed[k] = r

(* The inductive invariant.                                                   *)
RefsInv == RefsTypes /\ HeldStored /\ Threaded /\ FreedOnce /\ OthersNil

(* The links of the list are why RefsKept needs more than it says: that t[0]  *)
(* is the first element after luaL_ref follows from the link of the old one.  *)
LEMMA RefsInvImplies == RefsInv => RefsKept
<1> SUFFICES ASSUME RefsInv PROVE RefsKept
  OBVIOUS
<1>1. freed \in Seq(Given) /\ DOMAIN freed = 1 .. Len(freed) /\ Len(freed) \in Nat
  BY DEF RefsInv, RefsTypes
<1>2. \A r \in DOMAIN held : t[r] = held[r]
  BY DEF RefsInv, HeldStored
<1>3. ASSUME NEW r \in Refs \ {freelist}, t[r] # NIL, r \notin DOMAIN held
      PROVE  r \in ToSet(freed)
  <2>1. r \in Given
    BY RefsAssumption DEF Refs, freelist, Given
  <2>2. PICK k \in DOMAIN freed : freed[k] = r
    BY <1>3, <2>1 DEF RefsInv, OthersNil
  <2> QED
    BY <2>2 DEF ToSet
<1>4. t[freelist] = IF freed = <<>> THEN NIL ELSE Head(freed)
  BY <1>1 DEF RefsInv, Threaded, Link, freelist
<1>5. \A k \in DOMAIN freed : freed[k] \in Refs \ DOMAIN held
  <2>1. \A k \in DOMAIN freed : freed[k] \in Given
    BY <1>1
  <2> QED
    BY <2>1, RefsAssumption DEF RefsInv, FreedOnce, Refs, Given
<1> QED
  BY <1>2, <1>3, <1>4, <1>5 DEF RefsKept

LEMMA RefsInvInit == RefsInit => RefsInv
  BY RefsAssumption DEF RefsInit, RefsInv, RefsTypes, HeldStored, Threaded, Link, FreedOnce, OthersNil, Refs, Given

(* A reference from the list: the list goes on where it pointed to.           *)
LEMMA TakeFromList ==
  ASSUME RefsInv, NEW v \in Held, NEW ref \in Refs, luaL_ref(v, ref), t[freelist] # NIL
  PROVE  RefsInv'
<1> USE RefsAssumption DEF RefsInv, RefsTypes, freelist
<1>1. /\ freed # <<>> /\ ref = freed[1] /\ ref \in Given
      /\ t' = [t EXCEPT ![0] = t[ref], ![ref] = v]
  BY DEF luaL_ref, Threaded, Link
<1>2. /\ freed' = Tail(freed) /\ freed' \in Seq(Given) /\ Len(freed') = Len(freed) - 1
      /\ DOMAIN freed = 1 .. Len(freed) /\ Len(freed) \in Nat /\ DOMAIN freed' = 1 .. Len(freed) - 1
      /\ \A k \in 1 .. Len(freed) - 1 : freed'[k] = freed[k + 1]
  BY <1>1 DEF luaL_ref
<1>3. /\ DOMAIN held' = DOMAIN held \cup {ref}
      /\ held'[ref] = v /\ \A r \in DOMAIN held \ {ref} : held'[r] = held[r]
  BY DEF luaL_ref
<1>4. DOMAIN t' = Refs
      /\ t'[0] = t[ref] /\ t'[ref] = v /\ \A r \in Given \ {ref} : t'[r] = t[r]
  BY <1>1 DEF Refs, Given
<1>5. RefsTypes'
  BY <1>1, <1>2, <1>3, <1>4 DEF Given
<1>6. HeldStored'
  BY <1>1, <1>3, <1>4 DEF HeldStored, Given
<1>7. ref # NIL /\ 1 \in DOMAIN freed /\ ref \notin DOMAIN held
  BY <1>1, <1>2 DEF FreedOnce, Given
<1>8. FreedOnce'
  BY <1>1, <1>2, <1>3, <1>7 DEF FreedOnce
<1>9. Threaded'
  <2>1. t'[0] = Link(1)'
    <3>1. t[ref] = Link(2)
      BY <1>7, <1>1 DEF Threaded
    <3> QED
      BY <1>2, <1>4, <3>1 DEF Link
  <2>2. ASSUME NEW k \in DOMAIN freed' PROVE t'[freed'[k]] = Link(k + 1)'
    <3>1. k + 1 \in DOMAIN freed /\ freed'[k] = freed[k + 1] /\ freed[k + 1] # ref
      BY <1>1, <1>2, <1>7 DEF FreedOnce
    <3>2. freed[k + 1] \in Given /\ t'[freed'[k]] = t[freed[k + 1]]
      BY <1>2, <1>4, <3>1
    <3>3. t[freed[k + 1]] = Link((k + 1) + 1)
      BY <3>1 DEF Threaded
    <3> QED
      BY <1>2, <3>1, <3>2, <3>3 DEF Link
  <2> QED
    BY <2>1, <2>2 DEF Threaded
<1>10. OthersNil'
  <2>1. ASSUME NEW r \in Given, t'[r] # NIL, r \notin DOMAIN held'
        PROVE  \E k \in DOMAIN freed' : freed'[k] = r
    <3>1. PICK k \in DOMAIN freed : freed[k] = r
      BY <1>3, <1>4, <2>1 DEF OthersNil
    <3>2. k - 1 \in DOMAIN freed' /\ freed'[k - 1] = r
      BY <1>1, <1>2, <1>3, <2>1, <3>1
    <3> QED
      BY <3>2
  <2> QED
    BY <2>1 DEF OthersNil
<1> QED
  BY <1>5, <1>6, <1>8, <1>9, <1>10

(* A new reference: with an empty list the key after a border is in no use.   *)
LEMMA TakeNew ==
  ASSUME RefsInv, NEW v \in Held, NEW ref \in Refs, luaL_ref(v, ref), t[freelist] = NIL
  PROVE  RefsInv'
<1> USE RefsAssumption DEF RefsInv, RefsTypes, freelist
<1>1. freed = <<>>
  BY DEF Threaded, Link, Given
<1>2. ref \in Given /\ t[ref] = NIL /\ t' = [t EXCEPT ![ref] = v]
  BY DEF luaL_ref, rawlen, Refs, Given
<1>3. ref \notin DOMAIN held
  BY <1>2 DEF HeldStored
<1>4. freed' = <<>>
  BY <1>1 DEF luaL_ref
<1>5. /\ DOMAIN held' = DOMAIN held \cup {ref}
      /\ held'[ref] = v /\ \A r \in DOMAIN held \ {ref} : held'[r] = held[r]
  BY DEF luaL_ref
<1>6. /\ DOMAIN t' = Refs
      /\ t'[0] = t[0] /\ t'[ref] = v /\ \A r \in Given \ {ref} : t'[r] = t[r]
  BY <1>2 DEF Refs, Given
<1>7. RefsTypes'
  BY <1>2, <1>4, <1>5, <1>6 DEF Given
<1>8. HeldStored'
  BY <1>2, <1>3, <1>5, <1>6 DEF HeldStored, Given
<1>9. Threaded' /\ FreedOnce'
  BY <1>4, <1>6 DEF Threaded, FreedOnce, Link
<1>10. OthersNil'
  BY <1>1, <1>4, <1>5, <1>6 DEF OthersNil
<1> QED
  BY <1>7, <1>8, <1>9, <1>10

(* A reference given back is put before the list.                             *)
LEMMA GiveBackRef ==
  ASSUME RefsInv, NEW ref \in DOMAIN held, luaL_unref(ref)
  PROVE  RefsInv'
<1> USE RefsAssumption DEF RefsInv, RefsTypes, freelist
<1>1. ref \in Given /\ t' = [t EXCEPT ![ref] = t[0], ![0] = ref]
  BY DEF luaL_unref
<1>2. /\ freed' \in Seq(Given) /\ Len(freed') = Len(freed) + 1
      /\ DOMAIN freed = 1 .. Len(freed) /\ Len(freed) \in Nat /\ DOMAIN freed' = 1 .. Len(freed) + 1
      /\ freed'[1] = ref /\ \A k \in 2 .. Len(freed) + 1 : freed'[k] = freed[k - 1]
  BY <1>1 DEF luaL_unref
<1>3. /\ DOMAIN held' = DOMAIN held \ {ref}
      /\ \A r \in DOMAIN held \ {ref} : held'[r] = held[r]
  BY DEF luaL_unref
<1>4. /\ DOMAIN t' = Refs
      /\ t'[0] = ref /\ t'[ref] = t[0] /\ \A r \in Given \ {ref} : t'[r] = t[r]
  BY <1>1 DEF Refs, Given
<1>5. RefsTypes'
  BY <1>2, <1>3, <1>4
<1>6. HeldStored'
  BY <1>3, <1>4 DEF HeldStored, Given
<1>7. \A k \in DOMAIN freed : freed[k] # ref
  BY DEF FreedOnce
<1>8. FreedOnce'
  <2>1. ASSUME NEW k \in DOMAIN freed', NEW l \in DOMAIN freed', freed'[k] = freed'[l] PROVE k = l
    <3>1. ASSUME NEW m \in DOMAIN freed', freed'[m] = ref PROVE m = 1
      <4>1. m # 1 => m \in 2 .. Len(freed) + 1 /\ m - 1 \in DOMAIN freed
        BY <1>2
      <4> QED
        BY <1>2, <1>7, <3>1, <4>1
    <3>2. CASE k # 1 /\ l # 1
      <4>1. /\ k \in 2 .. Len(freed) + 1 /\ k - 1 \in DOMAIN freed
            /\ l \in 2 .. Len(freed) + 1 /\ l - 1 \in DOMAIN freed
        BY <1>2, <3>2
      <4>2. freed[k - 1] = freed[l - 1]
        BY <1>2, <2>1, <4>1
      <4>3. k - 1 = l - 1
        BY <4>1, <4>2 DEF FreedOnce
      <4> QED
        BY <4>1, <4>3
    <3> QED
      BY <1>2, <2>1, <3>1, <3>2
  <2>2. ASSUME NEW k \in DOMAIN freed' PROVE freed'[k] \notin DOMAIN held'
    <3>1. CASE k = 1
      BY <1>2, <1>3, <3>1
    <3>2. CASE k # 1
      <4>1. k \in 2 .. Len(freed) + 1 /\ k - 1 \in DOMAIN freed
        BY <1>2, <3>2
      <4>2. freed[k - 1] \notin DOMAIN held
        BY <4>1 DEF FreedOnce
      <4> QED
        BY <1>2, <1>3, <4>1, <4>2
    <3> QED
      BY <3>1, <3>2
  <2> QED
    BY <2>1, <2>2 DEF FreedOnce
<1>9. Threaded'
  <2>1. t'[0] = Link(1)'
    BY <1>2, <1>4 DEF Link
  <2>2. ASSUME NEW k \in DOMAIN freed' PROVE t'[freed'[k]] = Link(k + 1)'
    <3>1. CASE k = 1
      BY <1>2, <1>4, <3>1 DEF Threaded, Link
    <3>2. CASE k # 1
      <4>1. k - 1 \in DOMAIN freed /\ freed'[k] = freed[k - 1] /\ freed[k - 1] \in Given
        BY <1>2, <3>2
      <4>2. t'[freed'[k]] = t[freed[k - 1]]
        BY <1>4, <1>7, <4>1
      <4>3. t[freed[k - 1]] = Link((k - 1) + 1)
        BY <4>1 DEF Threaded
      <4> QED
        BY <1>2, <4>1, <4>2, <4>3 DEF Link
    <3> QED
      BY <3>1, <3>2
  <2> QED
    BY <2>1, <2>2 DEF Threaded
<1>10. OthersNil'
  <2>1. ASSUME NEW r \in Given, t'[r] # NIL, r \notin DOMAIN held'
        PROVE  \E k \in DOMAIN freed' : freed'[k] = r
    <3>1. CASE r = ref
      BY <1>2, <3>1
    <3>2. CASE r # ref
      <4>1. PICK k \in DOMAIN freed : freed[k] = r
        BY <1>3, <1>4, <2>1, <3>2 DEF OthersNil
      <4>2. k + 1 \in DOMAIN freed' /\ freed'[k + 1] = r
        BY <1>2, <4>1
      <4> QED
        BY <4>2
    <3> QED
      BY <3>1, <3>2
  <2> QED
    BY <2>1 DEF OthersNil
<1> QED
  BY <1>5, <1>6, <1>8, <1>9, <1>10

(* luaL_ref and luaL_unref in any order: every reference in use keeps its     *)
(* value, no reference is given out twice, and none is lost.                  *)
THEOREM ReferencesKept == RefsSpec => []RefsKept
<1>1. RefsInv /\ [RefsNext]_refsvars => RefsInv'
  <2> SUFFICES ASSUME RefsInv, [RefsNext]_refsvars PROVE RefsInv'
    OBVIOUS
  <2>1. CASE Ref
    BY <2>1, TakeFromList, TakeNew DEF Ref
  <2>2. CASE Unref
    BY <2>2, GiveBackRef DEF Unref
  <2>3. CASE UNCHANGED refsvars
    BY <2>3 DEF refsvars, RefsInv, RefsTypes, HeldStored, Threaded, Link, FreedOnce, OthersNil
  <2> QED
    BY <2>1, <2>2, <2>3 DEF RefsNext
<1> QED
  BY <1>1, RefsInvInit, RefsInvImplies, PTL DEF RefsSpec
===============================================================================
