------------------------------- MODULE LuaSort -------------------------------
(* table.sort (ltablib.c): a quicksort in place whose order is any function   *)
(* of the program, also one that contradicts itself or answers differently    *)
(* each time.  A step is one comparison with what the code does after it.     *)
EXTENDS Integers, Sequences, SequencesExt

CONSTANTS Element,        \* what is sorted
          Arrays, Orders, \* the arrays; the orders they are sorted by: <<"by", pairs>>,
                          \* or <<"any">> for a function that has none
          RANLIMIT,       \* intervals as large as this have a random pivot,
          IMBALANCE,      \* once a partition was that uneven
          RANDOM          \* the "random" numbers

ASSUME SortAssumption ==
  /\ Arrays \subseteq Seq(Element)
  /\ RANLIMIT \in Nat /\ RANLIMIT >= 4 /\ IMBALANCE \in Nat \ {0} /\ RANDOM \subseteq Nat

VARIABLES array,          \* the values being sorted
          order,          \* what they are sorted by
          comparing,      \* which comparison is next; or how the sort ended
          interval,       \* auxsort: [lo, up, rnd]
          p,              \* index of the pivot
          pivot,          \* P: its value, on the stack
          i, j,           \* partition
          ai,             \* a[i], on the stack
          callers,        \* what is left to do for the callers of auxsort
          initial, from   \* the array at the beginning; where in it each element was
partitionvars == <<p, pivot, i, j, ai>>
sortvars == <<array, order, comparing, interval, partitionvars, callers, initial, from>>

lo == interval.lo
up == interval.up
rnd == interval.rnd

(* What the order function can answer to "x < y?".                            *)
sort_comp(x, y) == IF order[1] = "any" THEN BOOLEAN ELSE {(<<x, y>> \in order[2])}

(* The values x and y from the stack are stored at k and l: each belongs      *)
(* where the other one is.                                                    *)
set2(a, k, x, l, y) == [a EXCEPT ![k] = x, ![l] = y]
Exchanged(f, k, l) == [f EXCEPT ![k] = f[l], ![l] = f[k]]

choosePivot(l, u, r) == LET r4 == (u - l) \div 4 IN (r % (r4 * 2)) + l + r4

------------------------------------------------------------------------------
(* auxsort.                                                                   *)

(* Mutant: two elements are taken for one.                                    *)
ResumeLong(stack) ==
  LET waiting == {k \in DOMAIN stack : stack[k].lo + 1 < stack[k].up}
      last == CHOOSE k \in waiting : \A m \in waiting : m <= k
  IN IF waiting = {} THEN [interval |-> [lo |-> 1, up |-> 0, rnd |-> 0], callers |-> <<>>]
     ELSE [interval |-> stack[last], callers |-> SubSeq(stack, 1, last - 1)]

(* An interval of fewer than two elements is sorted: back to the last caller  *)
(* who has more of its own interval to sort.                                  *)
Resume(stack) ==
  LET waiting == {k \in DOMAIN stack : stack[k].lo < stack[k].up}
      last == CHOOSE k \in waiting : \A m \in waiting : m <= k
  IN IF waiting = {} THEN [interval |-> [lo |-> 1, up |-> 0, rnd |-> 0], callers |-> <<>>]
     ELSE [interval |-> stack[last], callers |-> SubSeq(stack, 1, last - 1)]
Sort(r) ==
  /\ interval' = r.interval /\ callers' = r.callers
  /\ comparing' = IF r.interval.lo < r.interval.up THEN "ends" ELSE "sorted"
  /\ UNCHANGED partitionvars
Return == Sort(Resume(callers))

(* The middle, or a random element of a large interval.                       *)
Middle ==
  IF up - lo < RANLIMIT \/ rnd = 0 THEN (lo + up) \div 2 ELSE choosePivot(lo, up, rnd)

(* a[up] < a[lo]?                                                             *)
CompareEnds ==
  /\ comparing = "ends"
  /\ \E less \in sort_comp(array[up], array[lo]) :
       IF less THEN array' = set2(array, lo, array[up], up, array[lo]) /\ from' = Exchanged(from, lo, up)
       ELSE UNCHANGED <<array, from>>
  /\ IF up - lo = 1 THEN Return
     ELSE /\ p' = Middle /\ comparing' = "low"
          /\ UNCHANGED <<interval, callers, pivot, i, j, ai>>
  /\ UNCHANGED <<order, initial>>

(* Three elements are sorted; with more, the pivot goes to a[up - 1].         *)
Median(a, f) ==
  IF up - lo = 2 THEN array' = a /\ from' = f /\ Return
  ELSE /\ pivot' = a[p]
       /\ array' = set2(a, p, a[up - 1], up - 1, a[p]) /\ from' = Exchanged(f, p, up - 1)
       /\ i' = lo + 1 /\ j' = up - 1 /\ comparing' = "left"
       /\ UNCHANGED <<interval, callers, p, ai>>

(* a[p] < a[lo]?                                                              *)
CompareLow ==
  /\ comparing = "low"
  /\ \E less \in sort_comp(array[p], array[lo]) :
       IF less THEN Median(set2(array, p, array[lo], lo, array[p]), Exchanged(from, p, lo))
       ELSE comparing' = "high" /\ UNCHANGED <<array, from, interval, callers, partitionvars>>
  /\ UNCHANGED <<order, initial>>

(* a[up] < a[p]?                                                              *)
CompareHigh ==
  /\ comparing = "high"
  /\ \E less \in sort_comp(array[up], array[p]) :
       IF less THEN Median(set2(array, p, array[up], up, array[p]), Exchanged(from, p, up))
       ELSE Median(array, from)
  /\ UNCHANGED <<order, initial>>

------------------------------------------------------------------------------
(* partition.                                                                 *)

InvalidOrder ==
  comparing' = "invalid order function" /\ UNCHANGED <<array, from, interval, callers, partitionvars>>

(* Mutant: the pivot is no bound for i.                                       *)
PassesPivot(k) == FALSE

(* a[i] < P, but a[up - 1] is P.                                              *)
BeyondPivot(k) == k = up - 1

(* while a[++i] < P; i is the index to compare.                               *)
CompareLeft ==
  /\ comparing = "left"
  /\ \E less \in sort_comp(array[i], pivot) :
       \/ less /\ BeyondPivot(i) /\ InvalidOrder
       \/ less /\ ~BeyondPivot(i) /\ i' = i + 1 /\ UNCHANGED <<array, from, comparing, interval, callers, p, pivot, j, ai>>
       \/ /\ ~less /\ ai' = array[i] /\ j' = j - 1 /\ comparing' = "right"
          /\ UNCHANGED <<array, from, interval, callers, p, pivot, i>>
  /\ UNCHANGED <<order, initial>>

(* The smaller part is sorted by a recursive call, the other one by going on; *)
(* after a very uneven partition (in unsigned arithmetic) at random.          *)
Uneven(l, u, n) == u < l \/ (u - l) \div IMBALANCE > n
Split(at) ==
  LET lower == [lo |-> lo, up |-> at - 1, rnd |-> rnd]
      upper == [lo |-> at + 1, up |-> up, rnd |-> rnd]
      smaller == IF at - lo < up - at THEN lower ELSE upper
      larger == IF at - lo < up - at THEN upper ELSE lower
      n == IF at - lo < up - at THEN at - lo ELSE up - at
  IN \E r \in IF Uneven(larger.lo, larger.up, n) THEN RANDOM ELSE {rnd} :
       LET rest == Append(callers, [larger EXCEPT !.rnd = r])
       IN Sort(IF smaller.lo < smaller.up THEN [interval |-> smaller, callers |-> rest] ELSE Resume(rest))

(* while P < a[--j]; then the elements at i and j change places, or i is the  *)
(* place of the pivot.                                                        *)
CompareRight ==
  /\ comparing = "right"
  /\ \E less \in sort_comp(pivot, array[j]) :
       \/ less /\ j < i /\ InvalidOrder
       \/ less /\ j >= i /\ j' = j - 1 /\ UNCHANGED <<array, from, comparing, interval, callers, p, pivot, i, ai>>
       \/ /\ ~less /\ j < i
          /\ array' = set2(array, up - 1, ai, i, pivot) /\ from' = Exchanged(from, up - 1, i)
          /\ Split(i)
       \/ /\ ~less /\ j >= i
          /\ array' = set2(array, i, array[j], j, ai) /\ from' = Exchanged(from, i, j)
          /\ i' = i + 1 /\ comparing' = "left"
          /\ UNCHANGED <<interval, callers, p, pivot, j, ai>>
  /\ UNCHANGED <<order, initial>>

SortInit ==
  /\ array \in Arrays /\ order \in Orders
  /\ initial = array /\ from = [k \in DOMAIN array |-> k]
  /\ interval = [lo |-> 1, up |-> Len(array), rnd |-> 0] /\ callers = <<>>
  /\ comparing = IF Len(array) > 1 THEN "ends" ELSE "sorted"
  /\ p = 0 /\ pivot = 0 /\ i = 0 /\ j = 0 /\ ai = 0
SortNext == CompareEnds \/ CompareLow \/ CompareHigh \/ CompareLeft \/ CompareRight
SortSpec == SortInit /\ [][SortNext]_sortvars

------------------------------------------------------------------------------
(* Whatever the order is, the array keeps its elements (the copies on the     *)
(* stack were still right when they were stored) and no other index is used.  *)
SortsInside ==
  /\ \A k \in DOMAIN array : array[k] = initial[from[k]]
  /\ \A k, l \in DOMAIN array : k # l => from[k] # from[l]
  /\ comparing \in {"ends", "low", "high", "left", "right"} => 1 <= lo /\ lo < up /\ up <= Len(array)
  /\ comparing \in {"low", "high"} => p \in lo + 1 .. up - 1
  /\ comparing = "left" => i \in lo + 1 .. up - 1
  /\ comparing = "right" => j \in lo .. up - 1 /\ i \in lo + 1 .. up - 1

(* With an order that is one (strict and weak) the array is sorted at the     *)
(* end, and the function is not said to be invalid.                           *)
StrictWeakOrder(less) ==
  /\ \A x, y \in Element : <<x, y>> \in less => <<y, x>> \notin less
  /\ \A x, y, z \in Element : (<<x, y>> \notin less /\ <<y, z>> \notin less) => <<x, z>> \notin less
Sorted ==
  (order[1] = "by" /\ StrictWeakOrder(order[2])) =>
     /\ comparing # "invalid order function"
     /\ comparing = "sorted" => \A k, l \in DOMAIN array : k < l => <<array[l], array[k]>> \notin order[2]
==============================================================================
