--------------------------- MODULE LuaTable_proofs ----------------------------
(***************************************************************************)
(* A table implements a map: LuaTable refines LuaMap.                      *)
(*                                                                         *)
(* What makes a chain of nodes reliable is that there is an order of the   *)
(* nodes in which every next goes to the one just below in the same chain  *)
(* (InOrder), and that each key is in the chain of its main position, at   *)
(* or below it, a live key above all dead ones with the same address       *)
(* (KeysPlaced).  The chains and the order are not in the program: they    *)
(* are functions of the nodes that exist.                                  *)
(***************************************************************************)
EXTENDS LuaTable, FiniteSetTheorems, WellFoundedInduction, TLAPS

-----------------------------------------------------------------------------
(* The invariant                                                           *)

Value == Val \cup {Nil}
Node == [key : Key \cup {Nil}, dead : BOOLEAN, val : Value, next : Int]
Nodes == UNION {[0 .. n - 1 -> Node] : n \in Nat}
Table == [array : Seq(Value), node : Nodes, lastfree : Nat]

Succ(nd, m) == m + nd[m].next
Main(tb, k) == MainPosition(Size(tb), k)

(* chain: which one a node is in; order: how far from its end.             *)
InOrder(nd, chain, order) ==
    /\ chain \in [DOMAIN nd -> Int] /\ order \in [DOMAIN nd -> Nat]
    /\ \A m, p \in DOMAIN nd : chain[m] = chain[p] /\ order[m] = order[p] => m = p
    /\ \A m \in DOMAIN nd : nd[m].next # 0 =>
        /\ Succ(nd, m) \in DOMAIN nd
        /\ chain[Succ(nd, m)] = chain[m] /\ order[Succ(nd, m)] < order[m]
        /\ \A p \in DOMAIN nd :
            chain[p] = chain[m] /\ order[p] < order[m] => order[p] <= order[Succ(nd, m)]
    /\ \A m \in DOMAIN nd : nd[m].next = 0 =>
        \A p \in DOMAIN nd : chain[p] = chain[m] => order[p] >= order[m]

(* A node that was never used.                                             *)
Unused(tb, chain, m) ==
    /\ m < tb.lastfree /\ tb.node[m] = FreeNode
    /\ \A p \in DOMAIN tb.node \ {m} : chain[p] # chain[m]

(* A key is in the chain of its main position, and who is there belongs    *)
(* there.                                                                  *)
Reached(tb, chain, order, m) ==
    LET a == Main(tb, tb.node[m].key) IN
    /\ chain[a] = chain[m] /\ order[m] <= order[a]
    /\ tb.node[a].key # Nil /\ Main(tb, tb.node[a].key) = a

KeysPlaced(tb, chain, order) ==
    /\ \A m \in DOMAIN tb.node : tb.node[m].key = Nil => Unused(tb, chain, m)
    /\ \A m \in DOMAIN tb.node : tb.node[m].key # Nil => Reached(tb, chain, order, m)
    /\ \A m, p \in DOMAIN tb.node :
        /\ m # p /\ tb.node[m].key = tb.node[p].key /\ tb.node[m].key # Nil /\ ~tb.node[m].dead
        => tb.node[p].dead /\ order[p] < order[m]

FieldsRight(tb) ==
    /\ \A m \in DOMAIN tb.node : tb.node[m].dead => tb.node[m].val = Nil /\ tb.node[m].key \in Collectable
    /\ \A m \in DOMAIN tb.node : tb.node[m].key # Nil => ~InArray(tb, tb.node[m].key)
    /\ \A i \in 1 .. Len(tb.array) : tb.array[i] # Nil => i \in Key
    /\ tb.lastfree <= Size(tb)

Ordered(tb, chain, order) == InOrder(tb.node, chain, order) /\ KeysPlaced(tb, chain, order)
Sound(tb) ==
    /\ tb \in Table
    /\ FieldsRight(tb)
    /\ \E chain, order : Ordered(tb, chain, order)

IsSize(n) == n = 0 \/ \E l \in 0 .. n : n = TwoTo[l]
Sized(tb) == Len(tb.array) <= MaxSize /\ IsSize(Size(tb))

(* Every traversal is where it says it is: what it returned is what is     *)
(* numbered up to the place it stopped at.                                 *)
TraversalRight ==
    traversal = "on" =>
        /\ control # Nil => FindIndex(t, control) # 0
        /\ \A k \in Key : Get(t, k) # Nil => (k \in returned <=> FindIndex(t, k) <= Position)

TableInv ==
    /\ Sound(t) /\ Sized(t)
    /\ control \in Key \cup {Nil} /\ traversal \in {"on", "off", "finished"} /\ returned \subseteq Key
    /\ used \in KeySets
    /\ TraversalRight

-----------------------------------------------------------------------------
(* Numbers                                                                 *)

LessThan == {p \in Nat \X Nat : p[1] < p[2]}

LEMMA LeastNumber ==
    ASSUME NEW T, T \subseteq Nat, T # {}
    PROVE  \E n \in T : \A m \in T : n <= m
<1>1. IsWellFoundedOn(LessThan, Nat)
  BY NatLessThanWellFounded DEF OpToRel, LessThan
<1>2. PICK n \in T : \A m \in T : <<m, n>> \notin LessThan
  BY <1>1, WFMin
<1>3. ASSUME NEW m \in T PROVE n <= m
  <2>1. m \in Nat /\ n \in Nat /\ <<m, n>> \notin LessThan
    BY <1>2
  <2> QED BY <2>1 DEF LessThan
<1> QED BY <1>3

(* Induction up to N, for the numbers in a set.                            *)
LEMMA UpTo ==
    ASSUME NEW N \in Nat, NEW X, 0 \in X, \A n \in 0 .. N - 1 : n \in X => n + 1 \in X
    PROVE  0 .. N \subseteq X
<1> DEFINE T == {n \in 0 .. N : n \notin X}
<1>1. SUFFICES ASSUME T # {} PROVE FALSE
  OBVIOUS
<1>2. T \subseteq Nat
  OBVIOUS
<1> HIDE DEF T
<1>3. PICK n \in T : \A m \in T : n <= m
  BY <1>1, <1>2, LeastNumber
<1>4. n \in 0 .. N /\ n \notin X /\ n # 0
  BY <1>3 DEF T
<1>5. n - 1 \in 0 .. N - 1 /\ (n - 1) + 1 = n
  BY <1>4
<1>6. n - 1 \notin T
  BY <1>3, <1>4, <1>5
<1> QED BY <1>4, <1>5, <1>6 DEF T

(* A recursive function of the numbers up to N exists.                     *)
Steps(step, N, S) == step \in [(1 .. N) \X S -> S]
Iterates(f, base, step, N, S) ==
    /\ f \in [0 .. N -> S]
    /\ f[0] = base /\ \A i \in 1 .. N : f[i] = step[<<i, f[i - 1]>>]

LEMMA RecursionExists ==
    ASSUME NEW N \in Nat, NEW S, NEW base \in S, NEW step, Steps(step, N, S)
    PROVE  \E f : Iterates(f, base, step, N, S)
<1> USE DEF Steps
<1> DEFINE Begins(g, n) == g[0] = base /\ \A i \in 1 .. n : g[i] = step[<<i, g[i - 1]>>]
           X == {n \in Nat : \E g \in [0 .. n -> S] : Begins(g, n)}
<1>1. 0 \in X
  <2>1. [i \in 0 .. 0 |-> base] \in [0 .. 0 -> S] /\ Begins([i \in 0 .. 0 |-> base], 0)
    OBVIOUS
  <2> QED BY <2>1
<1>2. ASSUME NEW n \in 0 .. N - 1, n \in X PROVE n + 1 \in X
  <2>1. PICK g \in [0 .. n -> S] : Begins(g, n)
    BY <1>2
  <2>2. n + 1 \in 1 .. N /\ n \in 0 .. n /\ n + 1 \in Nat
    OBVIOUS
  <2> DEFINE h == [i \in 0 .. n + 1 |-> IF i = n + 1 THEN step[<<n + 1, g[n]>>] ELSE g[i]]
  <2>3. h \in [0 .. n + 1 -> S]
    BY <2>1, <2>2
  <2>4. \A i \in 0 .. n : h[i] = g[i]
    BY <2>2
  <2>5. h[n + 1] = step[<<n + 1, h[n]>>]
    <3>1. n + 1 \in 0 .. n + 1 /\ h[n + 1] = step[<<n + 1, g[n]>>]
      BY <2>2
    <3> QED BY <2>2, <2>4, <3>1
  <2> HIDE DEF h
  <2>6. ASSUME NEW i \in 1 .. n + 1 PROVE h[i] = step[<<i, h[i - 1]>>]
    <3>1. CASE i = n + 1
      BY <2>2, <2>5, <3>1
    <3>2. CASE i # n + 1
      <4>1. i \in 1 .. n /\ i \in 0 .. n /\ i - 1 \in 0 .. n
        BY <3>2
      <4> QED BY <2>1, <2>4, <4>1
    <3> QED BY <3>1, <3>2
  <2>7. h[0] = base
    BY <2>1, <2>4
  <2>8. \E e \in [0 .. n + 1 -> S] : Begins(e, n + 1)
    BY <2>3, <2>6, <2>7
  <2> QED BY <2>2, <2>8
<1> HIDE DEF X
<1>3. N \in X
  BY <1>1, <1>2, UpTo
<1>4. PICK f \in [0 .. N -> S] : Begins(f, N)
  BY <1>3 DEF X
<1> QED BY <1>4 DEF Iterates

-----------------------------------------------------------------------------
(* Tables                                                                  *)

LEMMA TableFacts ==
    ASSUME NEW tb \in Table
    PROVE  /\ Size(tb) \in Nat /\ DOMAIN tb.node = 0 .. Size(tb) - 1
           /\ tb.node \in [DOMAIN tb.node -> Node]
           /\ \A m \in DOMAIN tb.node : tb.node[m] \in Node /\ m \in Nat
           /\ tb.array \in Seq(Value) /\ Len(tb.array) \in Nat /\ DOMAIN tb.array = 1 .. Len(tb.array)
           /\ \A i \in 1 .. Len(tb.array) : tb.array[i] \in Value
           /\ tb.lastfree \in Nat
<1>1. tb.node \in Nodes /\ tb.array \in Seq(Value) /\ tb.lastfree \in Nat
  BY DEF Table
<1>2. PICK n \in Nat : tb.node \in [0 .. n - 1 -> Node]
  BY <1>1 DEF Nodes
<1>3. DOMAIN tb.node = 0 .. n - 1
  BY <1>2
<1>4. Size(tb) = n
  BY <1>2, <1>3, FS_Interval DEF Size
<1>5. \A m \in 0 .. n - 1 : tb.node[m] \in Node /\ m \in Nat
  BY <1>2
<1> QED BY <1>1, <1>2, <1>3, <1>4, <1>5

LEMMA NodeTyped ==
    ASSUME NEW tb \in Table, NEW m \in DOMAIN tb.node
    PROVE  /\ tb.node[m].key \in Key \cup {Nil} /\ tb.node[m].dead \in BOOLEAN
           /\ tb.node[m].val \in Value /\ tb.node[m].next \in Int
           /\ tb.node[m] \in Node /\ m \in Nat /\ m \in Int
<1>1. tb.node[m] \in Node /\ m \in Nat
  BY TableFacts
<1> QED BY <1>1 DEF Node

LEMMA MainIn ==
    ASSUME NEW tb \in Table, Size(tb) # 0, NEW k \in Key \cup Int
    PROVE  Main(tb, k) \in DOMAIN tb.node
<1>1. Size(tb) \in Nat /\ Size(tb) > 0 /\ DOMAIN tb.node = 0 .. Size(tb) - 1
  BY TableFacts
<1>2. PICK n \in Nat : n = Size(tb) /\ n > 0
  BY <1>1
<1>3. CASE k \in Ptrs \cup Floats
  <2>1. Hash[k] \in Nat
    BY <1>3, TableAssumption DEF Collectable
  <2>2. Main(tb, k) = Hash[k] % (IF n = 1 THEN 1 ELSE n - 1)
    BY <1>2, <1>3 DEF Main, MainPosition
  <2>3. PICK d \in Nat : d = (IF n = 1 THEN 1 ELSE n - 1) /\ d > 0 /\ d <= n
    BY <1>2
  <2>4. Hash[k] % d \in 0 .. d - 1
    BY <2>1, <2>3
  <2> QED BY <1>1, <1>2, <2>2, <2>3, <2>4
<1>4. CASE k \notin Ptrs \cup Floats /\ k \in Strs
  <2>1. Hash[k] \in Nat
    BY <1>4, TableAssumption DEF Collectable
  <2>2. Main(tb, k) = Hash[k] % n
    BY <1>2, <1>4 DEF Main, MainPosition
  <2>4. Hash[k] % n \in 0 .. n - 1
    BY <2>1, <1>2
  <2> QED BY <1>1, <1>2, <2>2, <2>4
<1>5. CASE k \notin Ptrs \cup Floats /\ k \notin Strs
  <2>1. k \in Int
    BY <1>5, TableAssumption DEF Key, Collectable, NotInteger
  <2>2. Main(tb, k) = k % n
    BY <1>2, <1>5 DEF Main, MainPosition
  <2>4. k % n \in 0 .. n - 1
    BY <2>1, <1>2
  <2> QED BY <1>1, <1>2, <2>2, <2>4
<1> QED BY <1>3, <1>4, <1>5

-----------------------------------------------------------------------------
(* Searching                                                               *)

(* The nodes that a search from a passes.                                  *)
Along(nd, chain, order, a) == {m \in DOMAIN nd : chain[m] = chain[a] /\ order[m] <= order[a]}
IsFirst(nd, chain, order, a, hits, s) ==
    \/ s = -1 /\ \A m \in hits : m \notin Along(nd, chain, order, a)
    \/ /\ s \in hits /\ s \in Along(nd, chain, order, a)
       /\ \A m \in hits : m \in Along(nd, chain, order, a) => order[m] <= order[s]
Vector(nd) == DOMAIN nd \subseteq Nat /\ \A m \in DOMAIN nd : nd[m].next \in Int

LEMMA AlongNext ==
    ASSUME NEW nd, Vector(nd), NEW chain, NEW order, InOrder(nd, chain, order), NEW m \in DOMAIN nd
    PROVE  /\ nd[m].next = 0 => Along(nd, chain, order, m) = {m}
           /\ nd[m].next # 0 => /\ Succ(nd, m) \in DOMAIN nd
                                /\ Along(nd, chain, order, m) = {m} \cup Along(nd, chain, order, Succ(nd, m))
                                /\ m \notin Along(nd, chain, order, Succ(nd, m))
<1>1. order[m] \in Nat /\ \A p \in DOMAIN nd : order[p] \in Nat
  BY DEF InOrder
<1>2. CASE nd[m].next = 0
  <2>1. \A p \in DOMAIN nd : chain[p] = chain[m] => order[p] >= order[m]
    BY <1>2 DEF InOrder
  <2>2. \A p \in DOMAIN nd : chain[p] = chain[m] /\ order[p] <= order[m] => p = m
    <3>1. ASSUME NEW p \in DOMAIN nd, chain[p] = chain[m], order[p] <= order[m] PROVE p = m
      <4>1. order[p] = order[m]
        BY <1>1, <2>1, <3>1
      <4> QED BY <3>1, <4>1 DEF InOrder
    <3> QED BY <3>1
  <2>3. Along(nd, chain, order, m) = {m}
    BY <1>1, <2>2 DEF Along
  <2> QED BY <1>2, <2>3
<1>3. CASE nd[m].next # 0
  <2>1. PICK s : s = Succ(nd, m)
    OBVIOUS
  <2>2. /\ s \in DOMAIN nd /\ chain[s] = chain[m] /\ order[s] < order[m]
        /\ \A p \in DOMAIN nd : chain[p] = chain[m] /\ order[p] < order[m] => order[p] <= order[s]
    BY <1>3, <2>1 DEF InOrder
  <2>3. order[s] \in Nat
    BY <1>1, <2>2
  <2>4. ASSUME NEW p \in DOMAIN nd, chain[p] = chain[m], order[p] <= order[m], p # m
        PROVE  order[p] <= order[s]
    <3>1. order[p] # order[m]
      BY <2>4 DEF InOrder
    <3>2. order[p] < order[m]
      BY <1>1, <2>4, <3>1
    <3> QED BY <2>2, <2>4, <3>2
  <2>5. \A p \in DOMAIN nd : p \in Along(nd, chain, order, m) <=> p = m \/ p \in Along(nd, chain, order, s)
    <3>1. ASSUME NEW p \in DOMAIN nd, p \in Along(nd, chain, order, m), p # m
          PROVE  p \in Along(nd, chain, order, s)
      BY <2>2, <2>4, <3>1 DEF Along
    <3>2. ASSUME NEW p \in DOMAIN nd, p \in Along(nd, chain, order, s)
          PROVE  p \in Along(nd, chain, order, m)
      <4>1. order[p] \in Nat /\ order[p] <= order[s] /\ chain[p] = chain[s]
        BY <1>1, <3>2 DEF Along
      <4>2. order[p] <= order[m]
        BY <1>1, <2>2, <2>3, <4>1
      <4> QED BY <2>2, <4>1, <4>2 DEF Along
    <3>3. m \in Along(nd, chain, order, m)
      BY <1>1 DEF Along
    <3> QED BY <3>1, <3>2, <3>3
  <2>6. \A a : Along(nd, chain, order, a) \subseteq DOMAIN nd
    BY DEF Along
  <2>7. Along(nd, chain, order, m) = {m} \cup Along(nd, chain, order, s)
    BY <2>5, <2>6
  <2>8. m \notin Along(nd, chain, order, s)
    BY <1>1, <2>2, <2>3 DEF Along
  <2> QED BY <1>3, <2>1, <2>2, <2>7, <2>8
<1> QED BY <1>2, <1>3

(* How the search goes on from a node.                                     *)
LEMMA FirstStep ==
    ASSUME NEW nd, Vector(nd), NEW chain, NEW order, InOrder(nd, chain, order), NEW m \in DOMAIN nd,
           NEW hits, hits \subseteq DOMAIN nd
    PROVE  /\ m \in hits => IsFirst(nd, chain, order, m, hits, m)
           /\ m \notin hits /\ nd[m].next = 0 => IsFirst(nd, chain, order, m, hits, -1)
           /\ m \notin hits /\ nd[m].next # 0 =>
                \A s : IsFirst(nd, chain, order, m, hits, s) <=> IsFirst(nd, chain, order, Succ(nd, m), hits, s)
<1>1. order[m] \in Nat /\ \A p \in DOMAIN nd : order[p] \in Nat
  BY DEF InOrder
<1>2. ASSUME m \in hits PROVE IsFirst(nd, chain, order, m, hits, m)
  <2>1. m \in Along(nd, chain, order, m) /\ \A p \in Along(nd, chain, order, m) : order[p] <= order[m]
    BY <1>1 DEF Along
  <2> QED BY <1>2, <2>1 DEF IsFirst
<1>3. ASSUME m \notin hits, nd[m].next = 0 PROVE IsFirst(nd, chain, order, m, hits, -1)
  <2>1. Along(nd, chain, order, m) = {m}
    BY <1>3, AlongNext
  <2> QED BY <1>3, <2>1 DEF IsFirst
<1>4. ASSUME m \notin hits, nd[m].next # 0
      PROVE  \A s : IsFirst(nd, chain, order, m, hits, s) <=> IsFirst(nd, chain, order, Succ(nd, m), hits, s)
  <2>1. Along(nd, chain, order, m) = {m} \cup Along(nd, chain, order, Succ(nd, m))
    BY <1>4, AlongNext
  <2>2. \A p \in hits : p \in Along(nd, chain, order, m) <=> p \in Along(nd, chain, order, Succ(nd, m))
    BY <1>4, <2>1
  <2> QED BY <2>2 DEF IsFirst
<1> QED BY <1>2, <1>3, <1>4

LEMMA FirstUnique ==
    ASSUME NEW nd, Vector(nd), NEW chain, NEW order, InOrder(nd, chain, order), NEW a \in DOMAIN nd,
           NEW hits, hits \subseteq DOMAIN nd,
           NEW s, IsFirst(nd, chain, order, a, hits, s), NEW r, IsFirst(nd, chain, order, a, hits, r)
    PROVE  s = r
<1>1. -1 \notin hits
  BY DEF Vector
<1>2. CASE s = -1
  BY <1>1, <1>2 DEF IsFirst
<1>3. CASE s # -1
  <2>1. /\ s \in hits /\ s \in Along(nd, chain, order, a)
        /\ \A m \in hits : m \in Along(nd, chain, order, a) => order[m] <= order[s]
    BY <1>3 DEF IsFirst
  <2>2. /\ r \in hits /\ r \in Along(nd, chain, order, a)
        /\ \A m \in hits : m \in Along(nd, chain, order, a) => order[m] <= order[r]
    BY <2>1 DEF IsFirst
  <2>3. s \in DOMAIN nd /\ r \in DOMAIN nd /\ chain[s] = chain[r]
    BY <2>1, <2>2 DEF Along
  <2>4. order[s] \in Nat /\ order[r] \in Nat /\ order[s] <= order[r] /\ order[r] <= order[s]
    BY <2>1, <2>2, <2>3 DEF InOrder
  <2>5. order[s] = order[r]
    BY <2>4
  <2> QED BY <2>3, <2>5 DEF InOrder
<1> QED BY <1>2, <1>3

(* What f answers is the first, if it does what the search does.           *)
Searches(f, nd, hits) ==
    f = [m \in DOMAIN nd |-> IF m \in hits THEN m ELSE IF nd[m].next = 0 THEN -1 ELSE f[m + nd[m].next]]

LEMMA SearchesFirst ==
    ASSUME NEW nd, Vector(nd), NEW chain, NEW order, InOrder(nd, chain, order),
           NEW hits, hits \subseteq DOMAIN nd, NEW f, Searches(f, nd, hits)
    PROVE  \A m \in DOMAIN nd : IsFirst(nd, chain, order, m, hits, f[m])
<1> DEFINE Wrong == {m \in DOMAIN nd : ~IsFirst(nd, chain, order, m, hits, f[m])}
           T == {order[m] : m \in Wrong}
<1>1. SUFFICES ASSUME Wrong # {} PROVE FALSE
  OBVIOUS
<1>2. T \subseteq Nat /\ T # {}
  BY <1>1 DEF InOrder
<1>3. PICK n \in T : \A l \in T : n <= l
  BY <1>2, LeastNumber
<1>4. PICK m \in Wrong : \A p \in Wrong : order[m] <= order[p]
  BY <1>3
<1>5. m \in DOMAIN nd /\ ~IsFirst(nd, chain, order, m, hits, f[m])
  BY <1>4
<1>6. f[m] = IF m \in hits THEN m ELSE IF nd[m].next = 0 THEN -1 ELSE f[Succ(nd, m)]
  <2> HIDE DEF Wrong, T
  <2> QED BY <1>5, Zenon DEF Searches, Succ
<1>7. m \notin hits /\ nd[m].next # 0
  BY <1>5, <1>6, FirstStep
<1>8. ~IsFirst(nd, chain, order, Succ(nd, m), hits, f[Succ(nd, m)])
  BY <1>5, <1>6, <1>7, FirstStep
<1>9. Succ(nd, m) \in DOMAIN nd /\ order[Succ(nd, m)] < order[m]
  BY <1>5, <1>7 DEF InOrder
<1>10. Succ(nd, m) \in Wrong
  BY <1>8, <1>9
<1>11. order[m] \in Nat /\ order[Succ(nd, m)] \in Nat
  BY <1>5, <1>9 DEF InOrder
<1> QED BY <1>4, <1>9, <1>10, <1>11

LEMMA FirstExists ==
    ASSUME NEW nd, Vector(nd), NEW chain, NEW order, InOrder(nd, chain, order),
           NEW hits, hits \subseteq DOMAIN nd, NEW a \in DOMAIN nd
    PROVE  \E s : IsFirst(nd, chain, order, a, hits, s)
<1> DEFINE Wrong == {m \in DOMAIN nd : ~\E s : IsFirst(nd, chain, order, m, hits, s)}
           T == {order[m] : m \in Wrong}
<1>1. SUFFICES ASSUME Wrong # {} PROVE FALSE
  OBVIOUS
<1>2. T \subseteq Nat /\ T # {}
  BY <1>1 DEF InOrder
<1>3. PICK n \in T : \A l \in T : n <= l
  BY <1>2, LeastNumber
<1>4. PICK m \in Wrong : \A p \in Wrong : order[m] <= order[p]
  BY <1>3
<1>5. m \in DOMAIN nd /\ ~\E s : IsFirst(nd, chain, order, m, hits, s)
  BY <1>4
<1>7. m \notin hits /\ nd[m].next # 0
  BY <1>5, FirstStep
<1>8. ~\E s : IsFirst(nd, chain, order, Succ(nd, m), hits, s)
  BY <1>5, <1>7, FirstStep
<1>9. Succ(nd, m) \in DOMAIN nd /\ order[Succ(nd, m)] < order[m]
  BY <1>5, <1>7 DEF InOrder
<1>10. Succ(nd, m) \in Wrong
  BY <1>8, <1>9
<1>11. order[m] \in Nat /\ order[Succ(nd, m)] \in Nat
  BY <1>5, <1>9 DEF InOrder
<1> QED BY <1>4, <1>9, <1>10, <1>11

Searching(nd, hits) == CHOOSE f : Searches(f, nd, hits)

LEMMA SearchingFirst ==
    ASSUME NEW nd, Vector(nd), NEW chain, NEW order, InOrder(nd, chain, order),
           NEW hits, hits \subseteq DOMAIN nd
    PROVE  \A m \in DOMAIN nd : IsFirst(nd, chain, order, m, hits, Searching(nd, hits)[m])
<1> DEFINE f == [m \in DOMAIN nd |-> CHOOSE s : IsFirst(nd, chain, order, m, hits, s)]
<1>1. \A m \in DOMAIN nd : IsFirst(nd, chain, order, m, hits, f[m])
  BY FirstExists
<1>2. ASSUME NEW m \in DOMAIN nd
      PROVE  f[m] = IF m \in hits THEN m ELSE IF nd[m].next = 0 THEN -1 ELSE f[m + nd[m].next]
  <2>0. DOMAIN f = DOMAIN nd
    OBVIOUS
  <2> HIDE DEF f
  <2>1. CASE m \in hits
    <3>1. f[m] = m
      BY <1>1, <2>1, FirstStep, FirstUnique
    <3> QED BY <2>1, <3>1
  <2>2. CASE m \notin hits /\ nd[m].next = 0
    <3>1. f[m] = -1
      BY <1>1, <2>2, FirstStep, FirstUnique
    <3> QED BY <2>2, <3>1
  <2>3. CASE m \notin hits /\ nd[m].next # 0
    <3>1. Succ(nd, m) \in DOMAIN nd
      BY <2>3 DEF InOrder
    <3>2. IsFirst(nd, chain, order, m, hits, f[Succ(nd, m)])
      BY <1>1, <2>3, <3>1, FirstStep
    <3>3. f[m] = f[Succ(nd, m)]
      BY <1>1, <3>2, FirstUnique
    <3> QED BY <2>3, <3>3 DEF Succ
  <2> QED BY <2>1, <2>2, <2>3
<1>3. f = [m \in DOMAIN nd |-> f[m]]
  OBVIOUS
<1> HIDE DEF f
<1>4. Searches(f, nd, hits)
  BY <1>2, <1>3 DEF Searches
<1>5. Searches(Searching(nd, hits), nd, hits)
  BY <1>4 DEF Searching
<1> QED BY <1>5, SearchesFirst

LEMMA TableVector ==
    ASSUME NEW tb \in Table
    PROVE  Vector(tb.node)
BY TableFacts, NodeTyped DEF Vector

LEMMA SearchFirst ==
    ASSUME NEW tb \in Table, NEW chain, NEW order, InOrder(tb.node, chain, order),
           NEW k \in Key \cup Int, NEW hits, hits \subseteq DOMAIN tb.node
    PROVE  /\ Size(tb) = 0 => Search(tb, k, hits) = -1
           /\ Size(tb) # 0 => IsFirst(tb.node, chain, order, Main(tb, k), hits, Search(tb, k, hits))
<1>1. Search(tb, k, hits) = IF Size(tb) = 0 THEN -1 ELSE Searching(tb.node, hits)[Main(tb, k)]
  BY DEF Search, Searching, Searches, Main
<1>2. CASE Size(tb) # 0
  <2>1. Main(tb, k) \in DOMAIN tb.node
    BY <1>2, MainIn
  <2>2. Vector(tb.node)
    BY TableVector
  <2>3. IsFirst(tb.node, chain, order, Main(tb, k), hits, Searching(tb.node, hits)[Main(tb, k)])
    BY <2>1, <2>2, SearchingFirst
  <2> QED BY <1>1, <1>2, <2>3
<1> QED BY <1>1, <1>2

(* A key that is in a node is found, a live one before a dead one.         *)
LEMMA NodeOfFinds ==
    ASSUME NEW tb \in Table, NEW chain, NEW order, Ordered(tb, chain, order), NEW k \in Key
    PROVE  /\ \A m \in DOMAIN tb.node : tb.node[m].key = k /\ ~tb.node[m].dead => NodeOf(tb, k) = m
           /\ (\A m \in DOMAIN tb.node : tb.node[m].key = k => tb.node[m].dead) => NodeOf(tb, k) = -1
<1> DEFINE hits == {m \in WithKey(tb, k) : ~tb.node[m].dead}
<1>1. hits = {m \in DOMAIN tb.node : tb.node[m].key = k /\ ~tb.node[m].dead} /\ hits \subseteq DOMAIN tb.node
  BY DEF WithKey
<1>2. PICK s : s = Search(tb, k, hits) /\ s = NodeOf(tb, k)
  BY DEF NodeOf
<1>h. PICK H : H = hits
  OBVIOUS
<1> HIDE DEF hits
<1>3. /\ Size(tb) = 0 => s = -1
      /\ Size(tb) # 0 => IsFirst(tb.node, chain, order, Main(tb, k), hits, s)
  BY <1>1, <1>2, <1>h, SearchFirst DEF Ordered
<1>4. k # Nil
  BY TableAssumption
<1>5. ASSUME NEW m \in DOMAIN tb.node, tb.node[m].key = k, ~tb.node[m].dead PROVE s = m
  <2>1. Size(tb) # 0
    BY <1>5, TableFacts
  <2>2. IsFirst(tb.node, chain, order, Main(tb, k), hits, s)
    BY <1>3, <2>1
  <2>3. Reached(tb, chain, order, m)
    BY <1>4, <1>5 DEF Ordered, KeysPlaced
  <2>4. m \in Along(tb.node, chain, order, Main(tb, k)) /\ m \in hits
    BY <1>1, <1>5, <2>3 DEF Along, Reached
  <2>5. s \in hits
    BY <2>2, <2>4 DEF IsFirst
  <2>6. s \in DOMAIN tb.node /\ tb.node[s].key = k /\ ~tb.node[s].dead
    BY <1>1, <2>5
  <2> QED BY <1>4, <1>5, <2>6 DEF Ordered, KeysPlaced
<1>6. ASSUME \A m \in DOMAIN tb.node : tb.node[m].key = k => tb.node[m].dead PROVE s = -1
  <2>1. hits = {}
    BY <1>1, <1>6
  <2> QED BY <1>3, <2>1 DEF IsFirst
<1> QED BY <1>2, <1>5, <1>6

(* The contents of the nodes.                                              *)
Live(tb, k, m) == m \in DOMAIN tb.node /\ tb.node[m].key = k /\ ~tb.node[m].dead

LEMMA PresentFinds ==
    ASSUME NEW tb, Sound(tb), NEW k \in Key
    PROVE  /\ \A m : Live(tb, k, m) => NodeOf(tb, k) = m
           /\ (\A m : ~Live(tb, k, m)) => NodeOf(tb, k) = -1
           /\ Present(tb, k) <=> InArray(tb, k) \/ \E m : Live(tb, k, m)
<1>1. PICK chain, order : Ordered(tb, chain, order)
  BY DEF Sound
<1>2. tb \in Table
  BY DEF Sound
<1>3. \A m : Live(tb, k, m) => NodeOf(tb, k) = m
  BY <1>1, <1>2, NodeOfFinds DEF Live
<1>4. (\A m : ~Live(tb, k, m)) => NodeOf(tb, k) = -1
  BY <1>1, <1>2, NodeOfFinds DEF Live
<1>5. \A m : Live(tb, k, m) => m \in Nat /\ m >= 0
  BY <1>2, TableFacts DEF Live
<1> QED BY <1>3, <1>4, <1>5 DEF Present

(* A value that is there is in its place.                                  *)
LEMMA GetFinds ==
    ASSUME NEW tb, Sound(tb), NEW k \in Key
    PROVE  /\ InArray(tb, k) => Get(tb, k) = tb.array[k]
           /\ ~InArray(tb, k) =>
                /\ \A m : Live(tb, k, m) => Get(tb, k) = tb.node[m].val
                /\ (\A m : ~Live(tb, k, m)) => Get(tb, k) = Nil
           /\ Get(tb, k) \in Value
<1>1. tb \in Table
  BY DEF Sound
<1>2. \A m : Live(tb, k, m) => m \in Nat /\ m >= 0 /\ tb.node[m].val \in Value
  BY <1>1, NodeTyped DEF Live
<1>3. ASSUME ~InArray(tb, k), NEW m, Live(tb, k, m) PROVE Get(tb, k) = tb.node[m].val
  BY <1>2, <1>3, PresentFinds DEF Get
<1>4. ASSUME ~InArray(tb, k), \A m : ~Live(tb, k, m) PROVE Get(tb, k) = Nil
  <2>1. NodeOf(tb, k) = -1
    BY <1>4, PresentFinds
  <2> QED BY <1>4, <2>1 DEF Get
<1>5. ASSUME InArray(tb, k) PROVE Get(tb, k) = tb.array[k] /\ Get(tb, k) \in Value
  <2>1. \A i \in 1 .. Len(tb.array) : tb.array[i] \in Value
    BY <1>1, TableFacts
  <2> QED BY <1>5, <2>1 DEF InArray, Get
<1> QED BY <1>2, <1>3, <1>4, <1>5 DEF Value

-----------------------------------------------------------------------------
(* Values and dead keys change, nothing moves                              *)

LEMMA TableMade ==
    ASSUME NEW a \in Seq(Value), NEW nd \in Nodes, NEW free \in Nat,
           NEW r, r = [array |-> a, node |-> nd, lastfree |-> free]
    PROVE  r.array = a /\ r.node = nd /\ r.lastfree = free /\ r \in Table
BY DEF Table

LEMMA NodesOf ==
    ASSUME NEW tb \in Table, NEW f \in [DOMAIN tb.node -> Node]
    PROVE  f \in Nodes
<1>1. PICK n \in Nat : DOMAIN tb.node = 0 .. n - 1
  BY TableFacts
<1> QED BY <1>1 DEF Nodes

Shape(tb, r) ==
    /\ Len(r.array) = Len(tb.array) /\ DOMAIN r.node = DOMAIN tb.node
    /\ \A m \in DOMAIN tb.node : r.node[m].key = tb.node[m].key /\ r.node[m].next = tb.node[m].next
Keeps(tb, r) ==
    /\ Shape(tb, r)
    /\ \A m \in DOMAIN tb.node : tb.node[m].dead => r.node[m].dead
    /\ \A m \in DOMAIN tb.node : tb.node[m].key = Nil => r.node[m] = tb.node[m] /\ m < r.lastfree

LEMMA OrderKept ==
    ASSUME NEW tb \in Table, NEW r \in Table, Keeps(tb, r), NEW chain, NEW order, Ordered(tb, chain, order)
    PROVE  Ordered(r, chain, order)
<1>1. Size(r) = Size(tb)
  BY DEF Keeps, Shape, Size
<1>2. \A k : Main(r, k) = Main(tb, k)
  BY <1>1 DEF Main
<1>3. DOMAIN r.node = DOMAIN tb.node
  BY DEF Keeps, Shape
<1>4. InOrder(r.node, chain, order)
  <2>1. \A m \in DOMAIN tb.node : r.node[m].next = tb.node[m].next /\ Succ(r.node, m) = Succ(tb.node, m)
    BY DEF Keeps, Shape, Succ
  <2> QED BY <1>3, <2>1 DEF Ordered, InOrder
<1>5. \A m \in DOMAIN r.node : r.node[m].key = Nil => Unused(r, chain, m)
  BY <1>3 DEF Keeps, Shape, Ordered, KeysPlaced, Unused
<1>6. ASSUME NEW m \in DOMAIN r.node, r.node[m].key # Nil PROVE Reached(r, chain, order, m)
  <2>1. Reached(tb, chain, order, m) /\ r.node[m].key = tb.node[m].key
    BY <1>3, <1>6 DEF Keeps, Shape, Ordered, KeysPlaced
  <2>2. tb.node[m].key \in Key /\ Size(tb) # 0
    BY <1>3, <1>6, <2>1, NodeTyped, TableFacts
  <2>3. Main(tb, tb.node[m].key) \in DOMAIN tb.node
    BY <2>2, MainIn
  <2>4. r.node[Main(tb, tb.node[m].key)].key = tb.node[Main(tb, tb.node[m].key)].key
    BY <2>3 DEF Keeps, Shape
  <2> QED BY <1>2, <2>1, <2>4 DEF Reached
<1>7. ASSUME NEW m \in DOMAIN r.node, NEW p \in DOMAIN r.node,
             m # p, r.node[m].key = r.node[p].key, r.node[m].key # Nil, ~r.node[m].dead
      PROVE  r.node[p].dead /\ order[p] < order[m]
  <2>1. /\ tb.node[m].key = tb.node[p].key /\ tb.node[m].key # Nil /\ ~tb.node[m].dead
        /\ tb.node[p].dead => r.node[p].dead
    BY <1>3, <1>7 DEF Keeps, Shape
  <2>2. tb.node[p].dead /\ order[p] < order[m]
    BY <1>3, <1>7, <2>1 DEF Ordered, KeysPlaced
  <2> QED BY <2>1, <2>2
<1> QED BY <1>4, <1>5, <1>6, <1>7 DEF Ordered, KeysPlaced

(* The number of a key in the traversal.                                   *)
LEMMA FindIndexFinds ==
    ASSUME NEW tb, Sound(tb), NEW k \in Key
    PROVE  /\ InArray(tb, k) => FindIndex(tb, k) = k
           /\ \A m : Live(tb, k, m) => FindIndex(tb, k) = m + 1 + Len(tb.array)
           /\ (\E m \in DOMAIN tb.node : tb.node[m].key = k) =>
                \E m \in DOMAIN tb.node : tb.node[m].key = k /\ FindIndex(tb, k) = m + 1 + Len(tb.array)
           /\ ~InArray(tb, k) /\ (\A m \in DOMAIN tb.node : tb.node[m].key # k) => FindIndex(tb, k) = 0
<1>1. PICK chain, order : Ordered(tb, chain, order)
  BY DEF Sound
<1>2. tb \in Table /\ FieldsRight(tb)
  BY DEF Sound
<1>3. k # Nil
  BY TableAssumption
<1>4. PICK hits : hits = WithKey(tb, k)
  OBVIOUS
<1>5. hits = {m \in DOMAIN tb.node : tb.node[m].key = k} /\ hits \subseteq DOMAIN tb.node
  BY <1>4 DEF WithKey
<1>6. PICK s : s = Search(tb, k, hits)
  OBVIOUS
<1>7. /\ Size(tb) = 0 => s = -1
      /\ Size(tb) # 0 => IsFirst(tb.node, chain, order, Main(tb, k), hits, s)
  BY <1>1, <1>2, <1>5, <1>6, SearchFirst DEF Ordered
<1>8. \A m \in DOMAIN tb.node : tb.node[m].key = k => ~InArray(tb, k)
  BY <1>2, <1>3 DEF FieldsRight
<1>9. ~InArray(tb, k) => FindIndex(tb, k) = IF s < 0 THEN 0 ELSE s + 1 + Len(tb.array)
  BY <1>4, <1>6 DEF FindIndex
<1>10. ASSUME NEW m \in DOMAIN tb.node, tb.node[m].key = k
       PROVE  /\ s \in hits /\ s >= 0 /\ m \in Along(tb.node, chain, order, Main(tb, k))
              /\ order[m] <= order[s] /\ ~InArray(tb, k)
  <2>1. Size(tb) # 0
    BY <1>2, <1>10, TableFacts
  <2>2. IsFirst(tb.node, chain, order, Main(tb, k), hits, s)
    BY <1>7, <2>1
  <2>3. Reached(tb, chain, order, m)
    BY <1>1, <1>3, <1>10 DEF Ordered, KeysPlaced
  <2>4. m \in Along(tb.node, chain, order, Main(tb, k)) /\ m \in hits
    BY <1>5, <1>10, <2>3 DEF Along, Reached
  <2>5. s \in hits /\ order[m] <= order[s]
    BY <2>2, <2>4 DEF IsFirst
  <2>6. s >= 0
    BY <1>2, <1>5, <2>5, TableFacts
  <2> QED BY <1>8, <1>10, <2>4, <2>5, <2>6
<1>11. ASSUME NEW m, Live(tb, k, m) PROVE FindIndex(tb, k) = m + 1 + Len(tb.array)
  <2>1. m \in DOMAIN tb.node /\ tb.node[m].key = k /\ ~tb.node[m].dead
    BY <1>11 DEF Live
  <2>2. s \in DOMAIN tb.node /\ tb.node[s].key = k /\ order[m] <= order[s] /\ s >= 0 /\ ~InArray(tb, k)
    BY <1>5, <1>10, <2>1
  <2>3. s = m
    <3>1. order[m] \in Nat /\ order[s] \in Nat
      BY <1>1, <2>1, <2>2 DEF Ordered, InOrder
    <3>2. SUFFICES ASSUME m # s PROVE FALSE
      OBVIOUS
    <3>3. order[s] < order[m]
      BY <1>1, <1>3, <2>1, <2>2, <3>2 DEF Ordered, KeysPlaced
    <3> QED BY <2>2, <3>1, <3>3
  <2> QED BY <1>2, <1>9, <2>2, <2>3, TableFacts
<1>12. ASSUME NEW m \in DOMAIN tb.node, tb.node[m].key = k
       PROVE  \E p \in DOMAIN tb.node : tb.node[p].key = k /\ FindIndex(tb, k) = p + 1 + Len(tb.array)
  <2>1. s \in DOMAIN tb.node /\ tb.node[s].key = k /\ s >= 0 /\ ~InArray(tb, k)
    BY <1>5, <1>10, <1>12
  <2>2. FindIndex(tb, k) = s + 1 + Len(tb.array)
    BY <1>2, <1>9, <2>1, TableFacts
  <2> QED BY <2>1, <2>2
<1>13. ASSUME ~InArray(tb, k), \A m \in DOMAIN tb.node : tb.node[m].key # k PROVE FindIndex(tb, k) = 0
  <2>1. hits = {}
    BY <1>5, <1>13
  <2>2. s = -1
    BY <1>7, <2>1 DEF IsFirst
  <2> QED BY <1>9, <1>13, <2>2
<1>14. InArray(tb, k) => FindIndex(tb, k) = k
  BY DEF FindIndex
<1> QED BY <1>11, <1>12, <1>13, <1>14

LEMMA FindIndexKept ==
    ASSUME NEW tb, Sound(tb), NEW r, Sound(r), Keeps(tb, r), NEW k \in Key
    PROVE  FindIndex(r, k) = FindIndex(tb, k)
<1>1. PICK chain, order : Ordered(tb, chain, order)
  BY DEF Sound
<1>2. tb \in Table /\ r \in Table
  BY DEF Sound
<1>3. Ordered(r, chain, order)
  BY <1>1, <1>2, OrderKept
<1>4. PICK hits : hits = WithKey(tb, k)
  OBVIOUS
<1>5. hits = WithKey(r, k) /\ hits \subseteq DOMAIN tb.node /\ DOMAIN r.node = DOMAIN tb.node
  BY <1>4 DEF WithKey, Keeps, Shape
<1>6. Size(r) = Size(tb) /\ Main(r, k) = Main(tb, k) /\ Len(r.array) = Len(tb.array)
  BY DEF Keeps, Shape, Size, Main
<1>7. Search(r, k, hits) = Search(tb, k, hits)
  <2>1. CASE Size(tb) # 0
    <3>1. PICK a : a = Main(tb, k)
      OBVIOUS
    <3>2. a \in DOMAIN tb.node
      BY <1>2, <2>1, <3>1, MainIn
    <3>3. IsFirst(tb.node, chain, order, a, hits, Search(tb, k, hits))
      BY <1>1, <1>2, <1>5, <2>1, <3>1, SearchFirst DEF Ordered
    <3>4. IsFirst(r.node, chain, order, a, hits, Search(r, k, hits))
      BY <1>2, <1>3, <1>5, <1>6, <2>1, <3>1, SearchFirst DEF Ordered
    <3>5. Along(r.node, chain, order, a) = Along(tb.node, chain, order, a)
      BY <1>5 DEF Along
    <3>6. IsFirst(tb.node, chain, order, a, hits, Search(r, k, hits))
      BY <3>4, <3>5 DEF IsFirst
    <3>7. Vector(tb.node)
      BY <1>2, TableVector
    <3> QED BY <1>1, <1>5, <3>2, <3>3, <3>6, <3>7, FirstUnique DEF Ordered
  <2>2. CASE Size(tb) = 0
    BY <1>1, <1>2, <1>3, <1>5, <1>6, <2>2, SearchFirst DEF Ordered
  <2> QED BY <2>1, <2>2
<1>8. InArray(r, k) <=> InArray(tb, k)
  BY <1>6 DEF InArray
<1> QED BY <1>4, <1>5, <1>6, <1>7, <1>8 DEF FindIndex

(* What an assignment to a field that is there leaves as it was.           *)
LEMMA PutFacts ==
    ASSUME NEW tb, Sound(tb), NEW k \in Key, Present(tb, k), NEW v \in Value, NEW r, r = Put(tb, k, v)
    PROVE  /\ Sound(r) /\ Keeps(tb, r)
           /\ \A m \in DOMAIN tb.node : r.node[m].dead = tb.node[m].dead
           /\ Get(r, k) = v /\ \A x \in Key \ {k} : Get(r, x) = Get(tb, x)
<1>1. tb \in Table /\ FieldsRight(tb)
  BY DEF Sound
<1>2. PICK chain, order : Ordered(tb, chain, order)
  BY DEF Sound
<1>3. k # Nil
  BY TableAssumption
<1>4. \A m \in DOMAIN tb.node : tb.node[m].key = Nil => m < tb.lastfree
  BY <1>2 DEF Ordered, KeysPlaced, Unused
<1>5. CASE InArray(tb, k)
  <2>1. PICK n \in Nat : n = Len(tb.array)
    BY <1>1, TableFacts
  <2>2. r = [tb EXCEPT !.array = [tb.array EXCEPT ![k] = v]]
    BY <1>5 DEF Put
  <2>3. tb.array \in Seq(Value) /\ DOMAIN tb.array = 1 .. n /\ k \in 1 .. n
    BY <1>1, <1>5, <2>1, TableFacts DEF InArray
  <2>4. PICK a : a = [tb.array EXCEPT ![k] = v]
    OBVIOUS
  <2>5. a \in Seq(Value) /\ Len(a) = n /\ a[k] = v /\ \A i \in 1 .. n : i # k => a[i] = tb.array[i]
    BY <2>1, <2>3, <2>4
  <2>6. r = [array |-> a, node |-> tb.node, lastfree |-> tb.lastfree]
    BY <1>1, <2>2, <2>4 DEF Table
  <2>7. r.array = a /\ r.node = tb.node /\ r.lastfree = tb.lastfree /\ r \in Table
    BY <1>1, <2>5, <2>6 DEF Table
  <2>8. Keeps(tb, r)
    BY <1>4, <2>1, <2>5, <2>7 DEF Keeps, Shape
  <2>9. FieldsRight(r)
    BY <1>1, <2>1, <2>3, <2>5, <2>7 DEF FieldsRight, InArray, Size
  <2>10. Sound(r)
    BY <1>1, <1>2, <2>7, <2>8, <2>9, OrderKept DEF Sound
  <2>11. \A x : InArray(r, x) <=> InArray(tb, x)
    BY <2>1, <2>5, <2>7 DEF InArray
  <2>12. Get(r, k) = v
    BY <1>5, <2>5, <2>7, <2>11 DEF Get
  <2>13. \A x \in Key : ~InArray(tb, x) => Get(r, x) = Get(tb, x)
    <3>1. ASSUME NEW x \in Key PROVE NodeOf(r, x) = NodeOf(tb, x)
      <4>1. \A m : Live(r, x, m) <=> Live(tb, x, m)
        BY <2>7 DEF Live
      <4> QED BY <2>10, <4>1, PresentFinds
    <3> QED BY <2>7, <2>11, <3>1 DEF Get
  <2>14. \A x \in Key \ {k} : InArray(tb, x) => Get(r, x) = Get(tb, x)
    BY <2>1, <2>5, <2>7, <2>11 DEF Get, InArray
  <2> QED BY <2>7, <2>8, <2>10, <2>12, <2>13, <2>14
<1>6. CASE ~InArray(tb, k)
  <2>1. PICK m : Live(tb, k, m)
    BY <1>6, PresentFinds
  <2>2. r = [tb EXCEPT !.node = [tb.node EXCEPT ![m] = [tb.node[m] EXCEPT !.val = v]]]
    BY <1>6, <2>1, PresentFinds DEF Put
  <2>3. m \in DOMAIN tb.node /\ tb.node[m].key = k /\ ~tb.node[m].dead /\ tb.node[m] \in Node
    BY <1>1, <2>1, NodeTyped DEF Live
  <2>4. PICK e : e = [tb.node[m] EXCEPT !.val = v]
    OBVIOUS
  <2>5. e \in Node /\ e.key = k /\ ~e.dead /\ e.dead = tb.node[m].dead /\ e.val = v /\ e.next = tb.node[m].next
    BY <2>3, <2>4 DEF Node
  <2>6. PICK nd : nd = [tb.node EXCEPT ![m] = e]
    OBVIOUS
  <2>7. nd \in [DOMAIN tb.node -> Node] /\ nd[m] = e /\ \A p \in DOMAIN tb.node : p # m => nd[p] = tb.node[p]
    BY <1>1, <2>3, <2>5, <2>6, TableFacts
  <2>8. nd \in Nodes /\ DOMAIN nd = DOMAIN tb.node
    BY <1>1, <2>7, NodesOf
  <2>9. r = [array |-> tb.array, node |-> nd, lastfree |-> tb.lastfree]
    BY <1>1, <2>2, <2>4, <2>6 DEF Table
  <2>10. r.array = tb.array /\ r.node = nd /\ r.lastfree = tb.lastfree /\ r \in Table
    BY <1>1, <2>8, <2>9 DEF Table
  <2>11. Keeps(tb, r)
    BY <1>3, <1>4, <2>3, <2>5, <2>7, <2>8, <2>10 DEF Keeps, Shape
  <2>12. \A x : InArray(r, x) <=> InArray(tb, x)
    BY <2>10 DEF InArray
  <2>13. FieldsRight(r)
    BY <1>1, <2>3, <2>5, <2>7, <2>8, <2>10, <2>12 DEF FieldsRight, Size
  <2>14. Sound(r)
    BY <1>1, <1>2, <2>10, <2>11, <2>13, OrderKept DEF Sound
  <2>15. \A x, p : Live(r, x, p) <=> Live(tb, x, p)
    BY <2>3, <2>5, <2>7, <2>8, <2>10 DEF Live
  <2>16. Get(r, k) = v
    <3>1. Live(r, k, m) /\ ~InArray(r, k)
      BY <1>6, <2>1, <2>12, <2>15
    <3> QED BY <2>5, <2>7, <2>10, <2>14, <3>1, GetFinds
  <2>17. ASSUME NEW x \in Key, x # k PROVE Get(r, x) = Get(tb, x)
    <3>1. CASE InArray(tb, x)
      BY <2>10, <2>12, <3>1 DEF Get
    <3>2. CASE ~InArray(tb, x) /\ \E p : Live(tb, x, p)
      <4>1. PICK p : Live(tb, x, p)
        BY <3>2
      <4>2. p # m /\ p \in DOMAIN tb.node
        BY <2>3, <2>17, <4>1 DEF Live
      <4>3. Get(tb, x) = tb.node[p].val /\ Get(r, x) = r.node[p].val
        BY <2>12, <2>14, <2>15, <3>2, <4>1, GetFinds
      <4> QED BY <2>7, <2>10, <4>2, <4>3
    <3>3. CASE ~InArray(tb, x) /\ \A p : ~Live(tb, x, p)
      BY <2>12, <2>14, <2>15, <3>3, GetFinds
    <3> QED BY <3>1, <3>2, <3>3
  <2>18. \A p \in DOMAIN tb.node : r.node[p].dead = tb.node[p].dead
    BY <2>5, <2>7, <2>10
  <2> QED BY <2>11, <2>14, <2>16, <2>17, <2>18
<1> QED BY <1>5, <1>6

(* The collector leaves dead keys, and a failed assignment gives up        *)
(* looking for free nodes: all fields are as they were.                    *)
Dies(tb, D, free, r) == r = [Dying(tb, D) EXCEPT !.lastfree = free]

LEMMA DyingFacts ==
    ASSUME NEW tb, Sound(tb), NEW D, D \subseteq Collectable, NEW free \in 0 .. tb.lastfree,
           \A m \in DOMAIN tb.node : tb.node[m].key = Nil => m < free,
           NEW r, Dies(tb, D, free, r)
    PROVE  /\ Sound(r) /\ Keeps(tb, r) /\ Len(r.array) = Len(tb.array)
           /\ \A x \in Key : Get(r, x) = Get(tb, x)
<1>1. tb \in Table /\ FieldsRight(tb)
  BY DEF Sound
<1>2. PICK chain, order : Ordered(tb, chain, order)
  BY DEF Sound
<1>3. Nil \notin Collectable
  BY TableAssumption DEF Key
<1>4. PICK nd : nd = [m \in DOMAIN tb.node |->
        IF tb.node[m].key \in D /\ tb.node[m].val = Nil
        THEN [tb.node[m] EXCEPT !.dead = TRUE] ELSE tb.node[m]]
  OBVIOUS
<1>5. ASSUME NEW m \in DOMAIN tb.node
      PROVE  /\ nd[m] \in Node /\ nd[m].key = tb.node[m].key /\ nd[m].next = tb.node[m].next
             /\ nd[m].val = tb.node[m].val
             /\ nd[m].dead <=> tb.node[m].dead \/ (tb.node[m].key \in D /\ tb.node[m].val = Nil)
             /\ nd[m].key = Nil => nd[m] = tb.node[m]
  <2>1. tb.node[m] \in Node
    BY <1>1, NodeTyped
  <2>2. CASE tb.node[m].key \in D /\ tb.node[m].val = Nil
    <3>1. nd[m] = [tb.node[m] EXCEPT !.dead = TRUE]
      BY <1>4, <2>2
    <3>2. nd[m].key = tb.node[m].key /\ tb.node[m].key # Nil
      BY <1>3, <2>1, <2>2, <3>1 DEF Node
    <3> QED BY <2>1, <2>2, <3>1, <3>2 DEF Node
  <2>3. CASE ~(tb.node[m].key \in D /\ tb.node[m].val = Nil)
    BY <1>4, <2>1, <2>3
  <2> QED BY <2>2, <2>3
<1>6. nd \in [DOMAIN tb.node -> Node] /\ DOMAIN nd = DOMAIN tb.node
  BY <1>4, <1>5
<1>7. nd \in Nodes /\ free \in Nat
  <2>1. tb.lastfree \in Nat
    BY <1>1, TableFacts
  <2> QED BY <1>1, <1>6, <2>1, NodesOf
<1>8. r = [array |-> tb.array, node |-> nd, lastfree |-> free]
  BY <1>1, <1>4 DEF Dies, Dying, Table
<1>9. r.array = tb.array /\ r.node = nd /\ r.lastfree = free /\ r \in Table
  <2>1. tb.array \in Seq(Value)
    BY <1>1, TableFacts
  <2> QED BY <1>7, <1>8, <2>1, TableMade
<1>10. Keeps(tb, r)
  BY <1>5, <1>6, <1>9 DEF Keeps, Shape
<1>11. \A x : InArray(r, x) <=> InArray(tb, x)
  BY <1>9 DEF InArray
<1>12. FieldsRight(r)
  <2>1. r.lastfree <= Size(r)
    <3>1. Size(r) = Size(tb) /\ tb.lastfree \in Nat /\ Size(tb) \in Nat /\ tb.lastfree <= Size(tb)
      BY <1>1, <1>6, <1>9, TableFacts DEF FieldsRight, Size
    <3> QED BY <1>9, <3>1
  <2> QED BY <1>1, <1>5, <1>6, <1>9, <1>11, <2>1 DEF FieldsRight
<1>13. Sound(r)
  BY <1>1, <1>2, <1>9, <1>10, <1>12, OrderKept DEF Sound
<1>14. ASSUME NEW x \in Key PROVE Get(r, x) = Get(tb, x)
  <2>1. CASE InArray(tb, x)
    BY <1>9, <1>11, <2>1 DEF Get
  <2>2. CASE ~InArray(tb, x) /\ \E p : Live(r, x, p)
    <3>1. PICK p : Live(r, x, p)
      BY <2>2
    <3>2. Live(tb, x, p) /\ p \in DOMAIN tb.node
      BY <1>5, <1>6, <1>9, <3>1 DEF Live
    <3>3. Get(tb, x) = tb.node[p].val /\ Get(r, x) = r.node[p].val
      BY <1>11, <1>13, <2>2, <3>1, <3>2, GetFinds
    <3> QED BY <1>5, <1>9, <3>2, <3>3
  <2>3. CASE ~InArray(tb, x) /\ \A p : ~Live(r, x, p)
    <3>1. Get(r, x) = Nil
      BY <1>11, <1>13, <2>3, GetFinds
    <3>2. ASSUME NEW p, Live(tb, x, p) PROVE tb.node[p].val = Nil
      BY <1>5, <1>6, <1>9, <2>3, <3>2 DEF Live
    <3> QED BY <2>3, <3>1, <3>2, GetFinds
  <2> QED BY <2>1, <2>2, <2>3
<1> QED BY <1>9, <1>10, <1>13, <1>14

-----------------------------------------------------------------------------
(* A new key                                                               *)

Holds(tb, x, v) == \E m \in DOMAIN tb.node : tb.node[m].key = x /\ tb.node[m].val = v

LEMMA GetHolds ==
    ASSUME NEW tb, Sound(tb), NEW x \in Key, ~InArray(tb, x), NEW v \in Val
    PROVE  Get(tb, x) = v <=> Holds(tb, x, v)
<1>1. v # Nil
  BY TableAssumption
<1>2. FieldsRight(tb)
  BY DEF Sound
<1>3. ASSUME Holds(tb, x, v) PROVE Get(tb, x) = v
  <2>1. PICK m \in DOMAIN tb.node : tb.node[m].key = x /\ tb.node[m].val = v
    BY <1>3 DEF Holds
  <2>2. Live(tb, x, m)
    BY <1>1, <1>2, <2>1 DEF Live, FieldsRight
  <2> QED BY <2>1, <2>2, GetFinds
<1>4. ASSUME Get(tb, x) = v PROVE Holds(tb, x, v)
  <2>1. PICK m : Live(tb, x, m)
    BY <1>1, <1>4, GetFinds
  <2> QED BY <1>4, <2>1, GetFinds DEF Live, Holds
<1> QED BY <1>3, <1>4

LEMMA GetSame ==
    ASSUME NEW tb, Sound(tb), NEW r, Sound(r), r.array = tb.array,
           \A x \in Key, v \in Val : Holds(r, x, v) <=> Holds(tb, x, v)
    PROVE  \A x \in Key : Get(r, x) = Get(tb, x)
<1> SUFFICES ASSUME NEW x \in Key PROVE Get(r, x) = Get(tb, x)
  OBVIOUS
<1>1. InArray(r, x) <=> InArray(tb, x)
  BY DEF InArray
<1>2. CASE InArray(tb, x)
  BY <1>1, <1>2 DEF Get
<1>3. CASE ~InArray(tb, x)
  <2>1. Get(r, x) \in Val \cup {Nil} /\ Get(tb, x) \in Val \cup {Nil}
    BY GetFinds DEF Value
  <2>2. \A v \in Val : Get(r, x) = v <=> Get(tb, x) = v
    BY <1>1, <1>3, GetHolds
  <2> QED BY <2>1, <2>2
<1> QED BY <1>2, <1>3

(* What luaH_newkey is given.                                              *)
Inserting(tb, chain, order, k, mp) ==
    /\ tb \in Table /\ FieldsRight(tb) /\ Ordered(tb, chain, order)
    /\ k \in Key /\ ~InArray(tb, k) /\ \A m : ~Live(tb, k, m)
    /\ Size(tb) # 0 /\ mp = Main(tb, k) /\ mp \in DOMAIN tb.node

(* What it makes of it: k has a node, all values are where they were or    *)
(* with their key in another node.                                         *)
Inserted(tb, k, r) ==
    /\ Sound(r)
    /\ r.array = tb.array /\ DOMAIN r.node = DOMAIN tb.node
    /\ \E m : Live(r, k, m)
    /\ \A x \in Key, v \in Val : Holds(r, x, v) <=> Holds(tb, x, v)
    /\ (\A m \in DOMAIN tb.node : ~tb.node[m].dead) => \A m \in DOMAIN r.node : ~r.node[m].dead
    /\ \A m \in DOMAIN r.node : r.node[m].key \in {k, Nil} \cup {tb.node[p].key : p \in DOMAIN tb.node}

LEMMA InsertingFacts ==
    ASSUME NEW tb, NEW chain, NEW order, NEW k, NEW mp, Inserting(tb, chain, order, k, mp)
    PROVE  /\ k # Nil /\ mp \in Nat
           /\ \A m \in DOMAIN tb.node : tb.node[m].key = k =>
                tb.node[m].dead /\ chain[m] = chain[mp] /\ order[m] <= order[mp]
           /\ \A m \in DOMAIN tb.node : order[m] \in Nat /\ chain[m] \in Int
<1>1. k # Nil
  BY TableAssumption DEF Inserting
<1>2. mp \in Nat
  BY NodeTyped DEF Inserting
<1>3. ASSUME NEW m \in DOMAIN tb.node, tb.node[m].key = k
      PROVE  tb.node[m].dead /\ chain[m] = chain[mp] /\ order[m] <= order[mp]
  <2>1. tb.node[m].dead
    BY <1>3 DEF Inserting, Live
  <2>2. Reached(tb, chain, order, m)
    BY <1>1, <1>3 DEF Inserting, Ordered, KeysPlaced
  <2> QED BY <1>3, <2>1, <2>2 DEF Inserting, Reached
<1>4. \A m \in DOMAIN tb.node : order[m] \in Nat /\ chain[m] \in Int
  BY DEF Inserting, Ordered, InOrder
<1> QED BY <1>1, <1>2, <1>3, <1>4

(* The main position has no value: it becomes the node of k, where it is.  *)
LEMMA MainFreeInserts ==
    ASSUME NEW tb, NEW chain, NEW order, NEW k, NEW mp, Inserting(tb, chain, order, k, mp),
           tb.node[mp].val = Nil,
           NEW r, r = [tb EXCEPT !.node[mp] = Keyed(@, k)]
    PROVE  Inserted(tb, k, r)
<1>1. /\ tb \in Table /\ FieldsRight(tb) /\ InOrder(tb.node, chain, order) /\ KeysPlaced(tb, chain, order)
      /\ k \in Key /\ ~InArray(tb, k) /\ mp = Main(tb, k) /\ mp \in DOMAIN tb.node
  BY DEF Inserting, Ordered
<1>2. k # Nil /\ \A m \in DOMAIN tb.node : tb.node[m].key = k =>
                    tb.node[m].dead /\ chain[m] = chain[mp] /\ order[m] <= order[mp]
  BY InsertingFacts
<1>3. PICK e : e = Keyed(tb.node[mp], k)
  OBVIOUS
<1>4. e \in Node /\ e.key = k /\ ~e.dead /\ e.val = Nil /\ e.next = tb.node[mp].next
  <2>1. tb.node[mp] \in Node
    BY <1>1, NodeTyped
  <2> QED BY <1>1, <1>3, <2>1 DEF Keyed, Node
<1>5. PICK nd : nd = [tb.node EXCEPT ![mp] = e]
  OBVIOUS
<1>6. nd \in [DOMAIN tb.node -> Node] /\ nd[mp] = e /\ \A p \in DOMAIN tb.node : p # mp => nd[p] = tb.node[p]
  BY <1>1, <1>4, <1>5, TableFacts
<1>7. nd \in Nodes /\ DOMAIN nd = DOMAIN tb.node
  BY <1>1, <1>6, NodesOf
<1>8. r = [array |-> tb.array, node |-> nd, lastfree |-> tb.lastfree]
  BY <1>1, <1>3, <1>5 DEF Table
<1>9. r.array = tb.array /\ r.node = nd /\ r.lastfree = tb.lastfree /\ r \in Table
  BY <1>1, <1>7, <1>8 DEF Table
<1>10. Size(r) = Size(tb) /\ \A x : Main(r, x) = Main(tb, x)
  BY <1>7, <1>9 DEF Size, Main
<1>11. \A x : InArray(r, x) <=> InArray(tb, x)
  BY <1>9 DEF InArray
<1>12. InOrder(nd, chain, order)
  <2>1. \A m \in DOMAIN tb.node : nd[m].next = tb.node[m].next /\ Succ(nd, m) = Succ(tb.node, m)
    BY <1>4, <1>6 DEF Succ
  <2> QED BY <1>1, <1>7, <2>1 DEF InOrder
<1>13. \A m \in DOMAIN r.node : r.node[m].key = Nil => Unused(r, chain, m)
  BY <1>1, <1>2, <1>4, <1>6, <1>7, <1>9 DEF KeysPlaced, Unused
<1>14. ASSUME NEW m \in DOMAIN r.node, r.node[m].key # Nil PROVE Reached(r, chain, order, m)
  <2>1. CASE m = mp
    <3>1. order[mp] <= order[mp]
      BY <1>1 DEF InOrder
    <3> QED BY <1>1, <1>2, <1>4, <1>6, <1>9, <1>10, <2>1, <3>1 DEF Reached
  <2>2. CASE m # mp
    <3>1. Reached(tb, chain, order, m) /\ r.node[m].key = tb.node[m].key
      BY <1>1, <1>6, <1>7, <1>9, <1>14, <2>2 DEF KeysPlaced
    <3>2. PICK a : a = Main(tb, tb.node[m].key)
      OBVIOUS
    <3>3. a \in DOMAIN tb.node
      <4>1. tb.node[m].key \in Key /\ Size(tb) # 0
        BY <1>1, <1>7, <1>9, <1>14, <3>1, NodeTyped, TableFacts
      <4> QED BY <1>1, <3>2, <4>1, MainIn
    <3>4. r.node[a].key # Nil /\ Main(tb, r.node[a].key) = a
      BY <1>1, <1>2, <1>4, <1>6, <1>9, <3>1, <3>2, <3>3 DEF Reached
    <3> QED BY <1>10, <3>1, <3>2, <3>4 DEF Reached
  <2> QED BY <2>1, <2>2
<1>15. ASSUME NEW m \in DOMAIN r.node, NEW p \in DOMAIN r.node,
              m # p, r.node[m].key = r.node[p].key, r.node[m].key # Nil, ~r.node[m].dead
       PROVE  r.node[p].dead /\ order[p] < order[m]
  <2>1. CASE m = mp
    <3>1. tb.node[p].key = k /\ r.node[p] = tb.node[p]
      BY <1>4, <1>6, <1>7, <1>9, <1>15, <2>1
    <3>2. tb.node[p].dead /\ chain[p] = chain[mp] /\ order[p] <= order[mp]
      BY <1>2, <1>7, <1>9, <3>1
    <3>3. order[p] # order[mp] /\ order[p] \in Nat /\ order[mp] \in Nat
      BY <1>1, <1>7, <1>9, <1>15, <2>1, <3>2 DEF InOrder
    <3> QED BY <2>1, <3>1, <3>2, <3>3
  <2>2. CASE m # mp
    <3>1. r.node[m] = tb.node[m] /\ p # mp
      BY <1>2, <1>4, <1>6, <1>7, <1>9, <1>15, <2>2
    <3> QED BY <1>1, <1>6, <1>7, <1>9, <1>15, <2>2, <3>1 DEF KeysPlaced
  <2> QED BY <2>1, <2>2
<1>16. Ordered(r, chain, order)
  BY <1>9, <1>12, <1>13, <1>14, <1>15 DEF Ordered, KeysPlaced
<1>17. FieldsRight(r)
  BY <1>1, <1>4, <1>6, <1>7, <1>9, <1>10, <1>11 DEF FieldsRight
<1>18. Sound(r)
  BY <1>9, <1>16, <1>17 DEF Sound
<1>19. Live(r, k, mp)
  BY <1>1, <1>4, <1>6, <1>7, <1>9 DEF Live
<1>20. ASSUME NEW x \in Key, NEW v \in Val PROVE Holds(r, x, v) <=> Holds(tb, x, v)
  <2>1. v # Nil
    BY TableAssumption
  <2> QED BY <1>4, <1>6, <1>7, <1>9, <2>1 DEF Holds
<1>21. (\A m \in DOMAIN tb.node : ~tb.node[m].dead) => \A m \in DOMAIN r.node : ~r.node[m].dead
  BY <1>4, <1>6, <1>7, <1>9
<1>22. \A m \in DOMAIN r.node : r.node[m].key \in {k, Nil} \cup {tb.node[p].key : p \in DOMAIN tb.node}
  BY <1>4, <1>6, <1>7, <1>9
<1> QED BY <1>7, <1>9, <1>18, <1>19, <1>20, <1>21, <1>22 DEF Inserted

(* The free node that getfreepos finds.                                    *)
IsFree(tb, f) ==
    /\ f \in DOMAIN tb.node /\ tb.node[f] = FreeNode /\ f < tb.lastfree
    /\ \A m \in DOMAIN tb.node : tb.node[m].key = Nil => m <= f

LEMMA FreeFound ==
    ASSUME NEW tb, NEW chain, NEW order, NEW k, NEW mp, Inserting(tb, chain, order, k, mp),
           FreeBelow(tb) # {}, NEW f, f = Highest(FreeBelow(tb))
    PROVE  IsFree(tb, f) /\ \A m \in DOMAIN tb.node \ {f} : chain[m] # chain[f]
<1>1. tb \in Table /\ KeysPlaced(tb, chain, order) /\ tb.lastfree <= Size(tb)
  BY DEF Inserting, Ordered, FieldsRight
<1>2. PICK n \in Nat : n = tb.lastfree /\ 0 .. n - 1 \subseteq DOMAIN tb.node
  BY <1>1, TableFacts
<1>3. PICK F : F = FreeBelow(tb)
  OBVIOUS
<1>4. F = {m \in 0 .. n - 1 : tb.node[m].key = Nil} /\ F # {} /\ F \subseteq Nat
  BY <1>2, <1>3 DEF FreeBelow
<1>5. PICK T : T = {n - m : m \in F}
  OBVIOUS
<1>6. T \subseteq Nat /\ T # {}
  BY <1>2, <1>4, <1>5
<1>7. PICK l \in T : \A j \in T : l <= j
  BY <1>6, LeastNumber
<1>8. PICK h \in F : l = n - h
  BY <1>5
<1>9. \A i \in F : i <= h
  <2>1. ASSUME NEW i \in F PROVE i <= h
    <3>1. n - i \in T
      BY <1>5
    <3>2. n - h <= n - i
      BY <1>7, <1>8, <3>1
    <3> QED BY <1>2, <1>4, <3>2
  <2> QED BY <2>1
<1>10. f \in F /\ \A i \in F : i <= f
  BY <1>3, <1>9 DEF Highest
<1>11. \A m \in DOMAIN tb.node : tb.node[m].key = Nil => m \in F
  BY <1>1, <1>2, <1>4, TableFacts DEF KeysPlaced, Unused
<1>12. f \in DOMAIN tb.node /\ tb.node[f].key = Nil /\ f < n
  BY <1>2, <1>4, <1>10
<1>13. Unused(tb, chain, f)
  BY <1>1, <1>12 DEF KeysPlaced
<1> QED BY <1>2, <1>10, <1>11, <1>12, <1>13 DEF IsFree, Unused

LEMMA KeyedFields ==
    ASSUME NEW e \in Node, NEW k \in Key, NEW w, w = Keyed(e, k)
    PROVE  w \in Node /\ w.key = k /\ ~w.dead /\ w.val = e.val /\ w.next = e.next
BY DEF Keyed, Node

LEMMA Parity ==
    ASSUME NEW a \in Nat, NEW b \in Nat
    PROVE  2 * a # 2 * b + 1
OBVIOUS

(* The colliding node is where it belongs: k goes next to it.              *)
LEMMA ChainFreeInserts ==
    ASSUME NEW tb, NEW chain, NEW order, NEW k, NEW mp, Inserting(tb, chain, order, k, mp),
           tb.node[mp].val # Nil, Main(tb, tb.node[mp].key) = mp,
           NEW f, IsFree(tb, f), \A m \in DOMAIN tb.node \ {f} : chain[m] # chain[f],
           NEW r, r = ChainFree(tb, k, mp, f)
    PROVE  Inserted(tb, k, r)
<1>1. /\ tb \in Table /\ FieldsRight(tb) /\ InOrder(tb.node, chain, order) /\ KeysPlaced(tb, chain, order)
      /\ k \in Key /\ ~InArray(tb, k) /\ mp = Main(tb, k) /\ mp \in DOMAIN tb.node
  BY DEF Inserting, Ordered
<1>2. k # Nil /\ \A m \in DOMAIN tb.node : tb.node[m].key = k =>
                    tb.node[m].dead /\ chain[m] = chain[mp] /\ order[m] <= order[mp]
  BY InsertingFacts
<1>3. /\ f \in DOMAIN tb.node /\ tb.node[f] = FreeNode /\ f < tb.lastfree
      /\ \A m \in DOMAIN tb.node : tb.node[m].key = Nil => m <= f
      /\ tb.node[f].key = Nil /\ tb.node[f].val = Nil /\ ~tb.node[f].dead /\ tb.node[f].next = 0
  BY DEF IsFree, FreeNode
<1>4. f # mp /\ ~tb.node[mp].dead /\ tb.node[mp].key # Nil
  <2>1. f # mp /\ ~tb.node[mp].dead
    BY <1>1, <1>3 DEF FieldsRight
  <2>2. tb.node[mp].key # Nil
    BY <1>1 DEF KeysPlaced, Unused, FreeNode
  <2> QED BY <2>1, <2>2
<1>5. f \in Nat /\ mp \in Nat /\ tb.node[mp].next \in Int
  BY <1>1, <1>3, NodeTyped
<1>6. PICK w : w = Keyed(tb.node[f], k)
  OBVIOUS
<1>a. PICK nx : nx = IF tb.node[mp].next = 0 THEN w.next ELSE mp + tb.node[mp].next - f
  OBVIOUS
<1>b. PICK ef : ef = [w EXCEPT !.next = nx]
  OBVIOUS
<1>7. PICK em : em = [tb.node[mp] EXCEPT !.next = f - mp]
  OBVIOUS
<1>8. /\ ef \in Node /\ ef.key = k /\ ~ef.dead /\ ef.val = Nil
      /\ ef.next = IF tb.node[mp].next = 0 THEN 0 ELSE mp + tb.node[mp].next - f
  <2>1. w \in Node /\ w.key = k /\ ~w.dead /\ w.val = Nil /\ w.next = 0
    BY <1>1, <1>3, <1>6, NodeTyped, KeyedFields
  <2>2. nx \in Int /\ nx = IF tb.node[mp].next = 0 THEN 0 ELSE mp + tb.node[mp].next - f
    BY <1>5, <1>a, <2>1
  <2>3. ef \in Node /\ ef.key = w.key /\ (ef.dead <=> w.dead) /\ ef.val = w.val /\ ef.next = nx
    BY <1>b, <2>1, <2>2 DEF Node
  <2> QED BY <2>1, <2>2, <2>3
<1>9. /\ em \in Node /\ em.key = tb.node[mp].key /\ em.dead = tb.node[mp].dead /\ em.val = tb.node[mp].val
      /\ em.next = f - mp /\ em.next # 0
  <2>1. tb.node[mp] \in Node /\ f - mp \in Int /\ f - mp # 0
    BY <1>1, <1>4, <1>5, NodeTyped
  <2> QED BY <1>7, <2>1 DEF Node
<1>10. PICK nd : nd = [tb.node EXCEPT ![f] = ef, ![mp] = em]
  OBVIOUS
<1>11. /\ nd \in [DOMAIN tb.node -> Node] /\ nd[f] = ef /\ nd[mp] = em
       /\ \A p \in DOMAIN tb.node : p # mp /\ p # f => nd[p] = tb.node[p]
  BY <1>1, <1>3, <1>4, <1>8, <1>9, <1>10, TableFacts
<1>12. nd \in Nodes /\ DOMAIN nd = DOMAIN tb.node
  BY <1>1, <1>11, NodesOf
<1>13. r = [array |-> tb.array, node |-> nd, lastfree |-> f]
  <2>1. [Keyed(tb.node[f], k) EXCEPT !.next = IF tb.node[mp].next = 0 THEN @ ELSE mp + tb.node[mp].next - f] = ef
    BY <1>6, <1>a, <1>b
  <2>2. r = [tb EXCEPT !.node = nd, !.lastfree = f]
    BY <1>4, <1>7, <1>10, <2>1 DEF ChainFree
  <2> QED BY <1>1, <2>2 DEF Table
<1>14. r.array = tb.array /\ r.node = nd /\ r.lastfree = f /\ r \in Table
  <2>1. tb.array \in Seq(Value)
    BY <1>1, TableFacts
  <2> QED BY <1>5, <1>12, <1>13, <2>1, TableMade
<1>15. Size(r) = Size(tb) /\ \A x : Main(r, x) = Main(tb, x)
  BY <1>12, <1>14 DEF Size, Main
<1>16. \A x : InArray(r, x) <=> InArray(tb, x)
  BY <1>14 DEF InArray
<1>17. PICK chain2 : chain2 = [chain EXCEPT ![f] = chain[mp]]
  OBVIOUS
<1>18. PICK order2 : order2 = [m \in DOMAIN tb.node |-> IF m = f THEN 2 * order[mp] ELSE 2 * order[m] + 1]
  OBVIOUS
<1>19. \A m \in DOMAIN tb.node : order[m] \in Nat /\ chain[m] \in Int
  BY InsertingFacts
<1>20. /\ chain2 \in [DOMAIN nd -> Int] /\ chain2[f] = chain[mp]
       /\ \A m \in DOMAIN tb.node : m # f => chain2[m] = chain[m]
  BY <1>1, <1>3, <1>12, <1>17, <1>19 DEF InOrder
<1>21. /\ order2 \in [DOMAIN nd -> Nat] /\ order2[f] = 2 * order[mp]
       /\ \A m \in DOMAIN tb.node : m # f => order2[m] = 2 * order[m] + 1
  <2>1. \A m \in DOMAIN tb.node : (IF m = f THEN 2 * order[mp] ELSE 2 * order[m] + 1) \in Nat
    BY <1>1, <1>19
  <2> QED BY <1>3, <1>12, <1>18, <2>1
<1>22. \A m \in DOMAIN tb.node : m # f => chain[m] # chain[f]
  OBVIOUS
<1>23. InOrder(nd, chain2, order2)
  <2>1. ASSUME NEW m \in DOMAIN nd, NEW p \in DOMAIN nd, chain2[m] = chain2[p], order2[m] = order2[p]
        PROVE  m = p
    <3>1. CASE m = f /\ p # f
      <4>1. order2[m] = 2 * order[mp] /\ order2[p] = 2 * order[p] + 1 /\ order[mp] \in Nat /\ order[p] \in Nat
        BY <1>1, <1>12, <1>19, <1>21, <3>1
      <4> QED BY <2>1, <4>1, Parity
    <3>2. CASE m # f /\ p = f
      <4>1. order2[p] = 2 * order[mp] /\ order2[m] = 2 * order[m] + 1 /\ order[mp] \in Nat /\ order[m] \in Nat
        BY <1>1, <1>12, <1>19, <1>21, <3>2
      <4> QED BY <2>1, <4>1, Parity
    <3>3. CASE m # f /\ p # f
      <4>1. order[p] \in Nat /\ order[m] \in Nat /\ 2 * order[p] + 1 = 2 * order[m] + 1 /\ chain[p] = chain[m]
        BY <1>12, <1>19, <1>20, <1>21, <2>1, <3>3
      <4>2. order[p] = order[m]
        BY <4>1
      <4> QED BY <1>1, <1>12, <4>1, <4>2 DEF InOrder
    <3> QED BY <3>1, <3>2, <3>3
  <2>2. ASSUME NEW m \in DOMAIN nd, nd[m].next # 0
        PROVE  /\ Succ(nd, m) \in DOMAIN nd
               /\ chain2[Succ(nd, m)] = chain2[m] /\ order2[Succ(nd, m)] < order2[m]
               /\ \A p \in DOMAIN nd : chain2[p] = chain2[m] /\ order2[p] < order2[m] => order2[p] <= order2[Succ(nd, m)]
    <3>1. CASE m = mp
      <4>1. Succ(nd, m) = f
        BY <1>5, <1>9, <1>11, <3>1 DEF Succ
      <4>2. order2[f] < order2[m]
        BY <1>1, <1>4, <1>19, <1>21, <3>1
      <4>3. ASSUME NEW p \in DOMAIN nd, chain2[p] = chain2[m], order2[p] < order2[m] PROVE order2[p] <= order2[f]
        <5>1. order[mp] \in Nat /\ order[p] \in Nat
          BY <1>1, <1>12, <1>19
        <5> QED BY <1>4, <1>12, <1>21, <3>1, <4>3, <5>1
      <4> QED BY <1>3, <1>4, <1>12, <1>20, <3>1, <4>1, <4>2, <4>3
    <3>2. CASE m = f
      <4>1. tb.node[mp].next # 0 /\ Succ(nd, m) = Succ(tb.node, mp)
        BY <1>5, <1>8, <1>11, <2>2, <3>2 DEF Succ
      <4>2. PICK s : s = Succ(tb.node, mp)
        OBVIOUS
      <4>3. /\ s \in DOMAIN tb.node /\ chain[s] = chain[mp] /\ order[s] < order[mp] /\ s # f
            /\ \A p \in DOMAIN tb.node : chain[p] = chain[mp] /\ order[p] < order[mp] => order[p] <= order[s]
        BY <1>1, <1>4, <1>22, <4>1, <4>2 DEF InOrder
      <4>4. order[s] \in Nat /\ order[mp] \in Nat /\ order2[s] = 2 * order[s] + 1 /\ order2[m] = 2 * order[mp]
        BY <1>1, <1>19, <1>21, <3>2, <4>3
      <4>5. ASSUME NEW p \in DOMAIN nd, chain2[p] = chain2[m], order2[p] < order2[m] PROVE order2[p] <= order2[s]
        <5>1. p # f /\ p \in DOMAIN tb.node
          BY <1>12, <3>2, <4>4, <4>5
        <5>2. order[p] \in Nat /\ order2[p] = 2 * order[p] + 1 /\ chain[p] = chain[mp]
          BY <1>19, <1>20, <1>21, <3>2, <4>5, <5>1
        <5>3. order[p] < order[mp]
          BY <4>4, <4>5, <5>2
        <5>4. order[p] <= order[s]
          BY <4>3, <5>1, <5>2, <5>3
        <5> QED BY <4>4, <5>2, <5>4
      <4>6. chain2[s] = chain2[m]
        BY <1>20, <3>2, <4>3
      <4>7. order2[s] < order2[m]
        BY <4>3, <4>4
      <4> QED BY <1>12, <4>1, <4>2, <4>3, <4>5, <4>6, <4>7
    <3>3. CASE m # mp /\ m # f
      <4>1. tb.node[m].next # 0 /\ Succ(nd, m) = Succ(tb.node, m) /\ m \in DOMAIN tb.node
        BY <1>11, <1>12, <2>2, <3>3 DEF Succ
      <4>2. PICK s : s = Succ(tb.node, m)
        OBVIOUS
      <4>3. /\ s \in DOMAIN tb.node /\ chain[s] = chain[m] /\ order[s] < order[m] /\ s # f
            /\ \A p \in DOMAIN tb.node : chain[p] = chain[m] /\ order[p] < order[m] => order[p] <= order[s]
        BY <1>1, <1>22, <3>3, <4>1, <4>2 DEF InOrder
      <4>4. order[s] \in Nat /\ order[m] \in Nat /\ order2[s] = 2 * order[s] + 1 /\ order2[m] = 2 * order[m] + 1
        BY <1>19, <1>21, <3>3, <4>1, <4>3
      <4>5. ASSUME NEW p \in DOMAIN nd, chain2[p] = chain2[m], order2[p] < order2[m] PROVE order2[p] <= order2[s]
        <5>1. CASE p # f
          <6>1. order[p] \in Nat /\ order2[p] = 2 * order[p] + 1 /\ chain[p] = chain[m] /\ p \in DOMAIN tb.node
            BY <1>12, <1>19, <1>20, <1>21, <3>3, <4>1, <4>5, <5>1
          <6>2. order[p] < order[m]
            BY <4>4, <4>5, <6>1
          <6>3. order[p] <= order[s]
            BY <4>3, <6>1, <6>2
          <6> QED BY <4>4, <6>1, <6>3
        <5>2. CASE p = f
          <6>1. chain[mp] = chain[m] /\ order2[p] = 2 * order[mp] /\ order[mp] \in Nat
            BY <1>1, <1>19, <1>20, <1>21, <3>3, <4>1, <4>5, <5>2
          <6>2. order[mp] # order[m]
            BY <1>1, <3>3, <4>1, <6>1 DEF InOrder
          <6>3. order[mp] < order[m]
            BY <4>4, <4>5, <6>1, <6>2
          <6>4. order[mp] <= order[s]
            BY <1>1, <4>3, <6>1, <6>3
          <6> QED BY <4>4, <6>1, <6>4
        <5> QED BY <5>1, <5>2
      <4>6. chain2[s] = chain2[m]
        BY <1>20, <3>3, <4>1, <4>3
      <4>7. order2[s] < order2[m]
        BY <4>3, <4>4
      <4> QED BY <1>12, <4>1, <4>2, <4>3, <4>5, <4>6, <4>7
    <3> QED BY <3>1, <3>2, <3>3
  <2>3. ASSUME NEW m \in DOMAIN nd, nd[m].next = 0, NEW p \in DOMAIN nd, chain2[p] = chain2[m]
        PROVE  order2[p] >= order2[m]
    <3>1. m # mp
      BY <1>9, <1>11, <2>3
    <3>2. CASE m = f
      <4>1. tb.node[mp].next = 0
        <5>1. SUFFICES ASSUME tb.node[mp].next # 0 PROVE FALSE
          OBVIOUS
        <5>2. Succ(tb.node, mp) = f
          BY <1>5, <1>8, <1>11, <2>3, <3>2, <5>1 DEF Succ
        <5>3. chain[f] = chain[mp]
          BY <1>1, <5>1, <5>2 DEF InOrder
        <5> QED BY <1>1, <1>4, <1>22, <5>3
      <4>2. CASE p # f
        <5>1. chain[p] = chain[mp] /\ p \in DOMAIN tb.node
          BY <1>12, <1>20, <2>3, <3>2, <4>2
        <5>2. order[p] >= order[mp]
          BY <1>1, <4>1, <5>1 DEF InOrder
        <5>3. order[p] \in Nat /\ order[mp] \in Nat
          BY <1>1, <1>19, <5>1
        <5> QED BY <1>21, <3>2, <4>2, <5>1, <5>2, <5>3
      <4>3. CASE p = f
        BY <1>1, <1>19, <1>21, <3>2, <4>3
      <4> QED BY <4>2, <4>3
    <3>3. CASE m # f
      <4>1. tb.node[m].next = 0 /\ m \in DOMAIN tb.node
        BY <1>11, <1>12, <2>3, <3>1, <3>3
      <4>2. \A q \in DOMAIN tb.node : chain[q] = chain[m] => order[q] >= order[m]
        BY <1>1, <4>1 DEF InOrder
      <4>3. CASE p # f
        <5>1. chain[p] = chain[m] /\ p \in DOMAIN tb.node
          BY <1>12, <1>20, <2>3, <3>3, <4>1, <4>3
        <5>2. order[p] >= order[m] /\ order[p] \in Nat /\ order[m] \in Nat
          BY <1>19, <4>1, <4>2, <5>1
        <5> QED BY <1>21, <3>3, <4>1, <4>3, <5>1, <5>2
      <4>4. CASE p = f
        <5>1. chain[mp] = chain[m]
          BY <1>20, <2>3, <3>3, <4>1, <4>4
        <5>2. order[mp] >= order[m] /\ order[mp] # order[m]
          BY <1>1, <3>1, <4>1, <4>2, <5>1 DEF InOrder
        <5>3. order[mp] \in Nat /\ order[m] \in Nat
          BY <1>1, <1>19, <4>1
        <5> QED BY <1>21, <3>3, <4>1, <4>4, <5>2, <5>3
      <4> QED BY <4>3, <4>4
    <3> QED BY <3>2, <3>3
  <2> QED BY <1>20, <1>21, <2>1, <2>2, <2>3 DEF InOrder
<1>24. \A m \in DOMAIN r.node : r.node[m].key = Nil => Unused(r, chain2, m)
  <2>1. ASSUME NEW m \in DOMAIN r.node, r.node[m].key = Nil PROVE Unused(r, chain2, m)
    <3>1. m # f /\ m # mp /\ r.node[m] = tb.node[m] /\ m \in DOMAIN tb.node
      BY <1>2, <1>4, <1>8, <1>9, <1>11, <1>12, <1>14, <2>1
    <3>2. Unused(tb, chain, m)
      BY <1>1, <2>1, <3>1 DEF KeysPlaced
    <3>3. m < f
      <4>1. m <= f /\ m \in Nat
        BY <1>1, <1>3, <2>1, <3>1, NodeTyped
      <4> QED BY <1>5, <3>1, <4>1
    <3>4. ASSUME NEW p \in DOMAIN r.node \ {m} PROVE chain2[p] # chain2[m]
      <4>1. \A q \in DOMAIN tb.node \ {m} : chain[q] # chain[m]
        BY <3>2 DEF Unused
      <4>2. chain2[m] = chain[m]
        BY <1>20, <3>1
      <4>3. CASE p = f
        BY <1>1, <1>20, <3>1, <4>1, <4>2, <4>3
      <4>4. CASE p # f
        BY <1>12, <1>14, <1>20, <4>1, <4>2, <4>4
      <4> QED BY <4>3, <4>4
    <3> QED BY <1>14, <3>1, <3>2, <3>3, <3>4 DEF Unused
  <2> QED BY <2>1
<1>25. \A m \in DOMAIN tb.node : m # f => r.node[m].key = tb.node[m].key /\ (r.node[m].dead <=> tb.node[m].dead)
                                         /\ r.node[m].val = tb.node[m].val
  BY <1>9, <1>11, <1>14
<1>26. \A m, p \in DOMAIN tb.node : m # f /\ p # f =>
          /\ chain[m] = chain[p] <=> chain2[m] = chain2[p]
          /\ order[m] <= order[p] => order2[m] <= order2[p]
          /\ order[m] < order[p] => order2[m] < order2[p]
  <2>1. ASSUME NEW m \in DOMAIN tb.node, NEW p \in DOMAIN tb.node, m # f, p # f
        PROVE  /\ order[m] <= order[p] => order2[m] <= order2[p]
               /\ order[m] < order[p] => order2[m] < order2[p]
    <3>1. order[m] \in Nat /\ order[p] \in Nat /\ order2[m] = 2 * order[m] + 1 /\ order2[p] = 2 * order[p] + 1
      BY <1>19, <1>21, <2>1
    <3> QED BY <3>1
  <2> QED BY <1>20, <2>1
<1>27. ASSUME NEW m \in DOMAIN r.node, r.node[m].key # Nil PROVE Reached(r, chain2, order2, m)
  <2>1. CASE m = f
    <3>1. Main(r, r.node[m].key) = mp
      BY <1>1, <1>8, <1>11, <1>14, <1>15, <2>1
    <3>2. chain2[mp] = chain2[m]
      BY <1>1, <1>4, <1>20, <2>1
    <3>3. order2[m] <= order2[mp]
      BY <1>1, <1>4, <1>19, <1>21, <2>1
    <3>4. r.node[mp].key # Nil /\ Main(r, r.node[mp].key) = mp
      BY <1>1, <1>4, <1>15, <1>25
    <3> QED BY <3>1, <3>2, <3>3, <3>4 DEF Reached
  <2>2. CASE m # f
    <3>1. m \in DOMAIN tb.node /\ Reached(tb, chain, order, m) /\ r.node[m].key = tb.node[m].key
      BY <1>1, <1>12, <1>14, <1>25, <1>27, <2>2 DEF KeysPlaced
    <3>2. PICK a : a = Main(tb, tb.node[m].key)
      OBVIOUS
    <3>3. a \in DOMAIN tb.node
      <4>1. tb.node[m].key \in Key /\ Size(tb) # 0
        BY <1>1, <1>27, <3>1, NodeTyped, TableFacts
      <4> QED BY <1>1, <3>2, <4>1, MainIn
    <3>4. chain[a] = chain[m] /\ order[m] <= order[a] /\ tb.node[a].key # Nil /\ Main(tb, tb.node[a].key) = a
      BY <3>1, <3>2 DEF Reached
    <3>5. a # f
      BY <1>3, <3>4
    <3>6. chain2[a] = chain2[m] /\ order2[m] <= order2[a]
      BY <1>26, <2>2, <3>1, <3>3, <3>4, <3>5
    <3>7. r.node[a].key = tb.node[a].key
      BY <1>25, <3>3, <3>5
    <3> QED BY <1>15, <3>1, <3>2, <3>4, <3>6, <3>7 DEF Reached
  <2> QED BY <2>1, <2>2
<1>28. ASSUME NEW m \in DOMAIN r.node, NEW p \in DOMAIN r.node,
              m # p, r.node[m].key = r.node[p].key, r.node[m].key # Nil, ~r.node[m].dead
       PROVE  r.node[p].dead /\ order2[p] < order2[m]
  <2>1. CASE m = f
    <3>1. p \in DOMAIN tb.node /\ p # f /\ tb.node[p].key = k /\ (r.node[p].dead <=> tb.node[p].dead)
      BY <1>8, <1>11, <1>12, <1>14, <1>25, <1>28, <2>1
    <3>2. tb.node[p].dead /\ chain[p] = chain[mp] /\ order[p] <= order[mp] /\ p # mp
      BY <1>2, <1>4, <3>1
    <3>3. order[p] # order[mp] /\ order[p] \in Nat /\ order[mp] \in Nat
      BY <1>1, <1>19, <3>1, <3>2 DEF InOrder
    <3>4. order2[p] = 2 * order[p] + 1 /\ order2[m] = 2 * order[mp]
      BY <1>21, <2>1, <3>1
    <3>5. order2[p] < order2[m]
      BY <3>2, <3>3, <3>4
    <3> QED BY <3>1, <3>2, <3>5
  <2>2. CASE m # f
    <3>1. m \in DOMAIN tb.node /\ tb.node[m].key = r.node[m].key /\ ~tb.node[m].dead
      BY <1>12, <1>14, <1>25, <1>28, <2>2
    <3>2. p # f
      BY <1>2, <1>8, <1>11, <1>14, <1>28, <3>1
    <3>3. p \in DOMAIN tb.node /\ tb.node[p].key = r.node[p].key /\ (r.node[p].dead <=> tb.node[p].dead)
      BY <1>12, <1>14, <1>25, <3>2
    <3>4. tb.node[p].dead /\ order[p] < order[m]
      BY <1>1, <1>28, <3>1, <3>3 DEF KeysPlaced
    <3> QED BY <1>26, <2>2, <3>1, <3>2, <3>3, <3>4
  <2> QED BY <2>1, <2>2
<1>29. Ordered(r, chain2, order2)
  BY <1>14, <1>23, <1>24, <1>27, <1>28 DEF Ordered, KeysPlaced
<1>30. FieldsRight(r)
  <2>1. r.lastfree <= Size(r)
    <3>1. tb.lastfree <= Size(tb) /\ tb.lastfree \in Nat /\ Size(tb) \in Nat
      BY <1>1, TableFacts DEF FieldsRight
    <3> QED BY <1>3, <1>5, <1>14, <1>15, <3>1
  <2>2. ASSUME NEW m \in DOMAIN r.node
        PROVE  /\ r.node[m].dead => r.node[m].val = Nil /\ r.node[m].key \in Collectable
               /\ r.node[m].key # Nil => ~InArray(r, r.node[m].key)
    <3>1. CASE m = f
      BY <1>1, <1>8, <1>11, <1>14, <1>16, <3>1
    <3>2. CASE m # f
      BY <1>1, <1>12, <1>14, <1>16, <1>25, <3>2 DEF FieldsRight
    <3> QED BY <3>1, <3>2
  <2> QED BY <1>1, <1>14, <2>1, <2>2 DEF FieldsRight
<1>31. Sound(r)
  BY <1>14, <1>29, <1>30 DEF Sound
<1>32. Live(r, k, f)
  BY <1>3, <1>8, <1>11, <1>12, <1>14 DEF Live
<1>33. ASSUME NEW x \in Key, NEW v \in Val PROVE Holds(r, x, v) <=> Holds(tb, x, v)
  <2>1. v # Nil
    BY TableAssumption
  <2> QED BY <1>3, <1>8, <1>11, <1>12, <1>14, <1>25, <2>1 DEF Holds
<1>34. (\A m \in DOMAIN tb.node : ~tb.node[m].dead) => \A m \in DOMAIN r.node : ~r.node[m].dead
  BY <1>8, <1>11, <1>12, <1>14, <1>25
<1>35. \A m \in DOMAIN r.node : r.node[m].key \in {k, Nil} \cup {tb.node[p].key : p \in DOMAIN tb.node}
  BY <1>8, <1>11, <1>12, <1>14, <1>25
<1> QED BY <1>12, <1>14, <1>31, <1>32, <1>33, <1>34, <1>35 DEF Inserted

(* Who is before a node that is not the first of its chain.                *)
IsBefore(nd, chain, order, mp, prev) ==
    /\ prev \in DOMAIN nd /\ nd[prev].next # 0 /\ Succ(nd, prev) = mp
    /\ chain[prev] = chain[mp] /\ order[mp] < order[prev]
    /\ \A m \in DOMAIN nd : nd[m].next # 0 /\ Succ(nd, m) = mp => m = prev
    /\ \A m \in DOMAIN nd : chain[m] = chain[mp] /\ order[mp] < order[m] => order[prev] <= order[m]

LEMMA BeforeExists ==
    ASSUME NEW nd, Vector(nd), NEW chain, NEW order, InOrder(nd, chain, order),
           NEW mp \in DOMAIN nd, NEW a \in DOMAIN nd, chain[a] = chain[mp], order[mp] < order[a]
    PROVE  \E prev : IsBefore(nd, chain, order, mp, prev)
<1>1. \A m \in DOMAIN nd : order[m] \in Nat
  BY DEF InOrder
<1>2. PICK Above : Above = {m \in DOMAIN nd : chain[m] = chain[mp] /\ order[mp] < order[m]}
  OBVIOUS
<1>3. PICK T : T = {order[m] : m \in Above}
  OBVIOUS
<1>4. T \subseteq Nat /\ T # {}
  BY <1>1, <1>2, <1>3
<1>5. PICK l \in T : \A j \in T : l <= j
  BY <1>4, LeastNumber
<1>6. PICK prev \in Above : l = order[prev]
  BY <1>3
<1>7. \A m \in DOMAIN nd : chain[m] = chain[mp] /\ order[mp] < order[m] => order[prev] <= order[m]
  BY <1>2, <1>3, <1>5, <1>6
<1>8. prev \in DOMAIN nd /\ chain[prev] = chain[mp] /\ order[mp] < order[prev]
  BY <1>2
<1>9. nd[prev].next # 0
  <2>1. SUFFICES ASSUME nd[prev].next = 0 PROVE FALSE
    OBVIOUS
  <2>2. order[mp] >= order[prev]
    BY <1>8, <2>1 DEF InOrder
  <2> QED BY <1>1, <1>8, <2>2
<1>10. ASSUME NEW m \in DOMAIN nd, nd[m].next # 0, chain[m] = chain[mp], order[mp] < order[m], order[m] <= order[prev]
       PROVE  Succ(nd, m) = mp
  <2>1. PICK s : s = Succ(nd, m)
    OBVIOUS
  <2>2. s \in DOMAIN nd /\ chain[s] = chain[m] /\ order[s] < order[m] /\ order[mp] <= order[s]
    BY <1>10, <2>1 DEF InOrder
  <2>3. order[s] \in Nat /\ order[mp] \in Nat /\ order[m] \in Nat /\ order[prev] \in Nat
    BY <1>1, <1>8, <2>2
  <2>4. ~(order[mp] < order[s])
    BY <1>7, <1>10, <2>2, <2>3
  <2>5. order[s] = order[mp]
    BY <2>2, <2>3, <2>4
  <2>6. s = mp
    BY <1>10, <2>2, <2>5 DEF InOrder
  <2> QED BY <2>1, <2>6
<1>11. Succ(nd, prev) = mp
  BY <1>1, <1>8, <1>9, <1>10
<1>12. ASSUME NEW m \in DOMAIN nd, nd[m].next # 0, Succ(nd, m) = mp PROVE m = prev
  <2>1. chain[mp] = chain[m] /\ order[mp] < order[m]
    BY <1>12 DEF InOrder
  <2>2. order[prev] <= order[m]
    BY <1>7, <2>1
  <2>3. ~(order[prev] < order[m])
    <3>1. SUFFICES ASSUME order[prev] < order[m] PROVE FALSE
      OBVIOUS
    <3>2. order[prev] <= order[Succ(nd, m)]
      BY <1>8, <1>12, <2>1, <3>1 DEF InOrder
    <3> QED BY <1>1, <1>8, <1>12, <3>2
  <2>4. order[prev] = order[m]
    BY <1>1, <1>8, <2>2, <2>3
  <2> QED BY <1>8, <2>1, <2>4 DEF InOrder
<1> QED BY <1>7, <1>8, <1>9, <1>11, <1>12 DEF IsBefore

LooksFor(f, nd, mp) == f = [m \in DOMAIN nd |-> IF m + nd[m].next = mp THEN m ELSE f[m + nd[m].next]]
LookingFor(nd, mp) == CHOOSE f : LooksFor(f, nd, mp)

LEMMA BeforeFound ==
    ASSUME NEW nd, Vector(nd), NEW chain, NEW order, InOrder(nd, chain, order), NEW mp \in DOMAIN nd,
           NEW prev, IsBefore(nd, chain, order, mp, prev),
           NEW a \in DOMAIN nd, chain[a] = chain[mp], order[mp] < order[a]
    PROVE  LookingFor(nd, mp)[a] = prev
<1>1. \A m \in DOMAIN nd : order[m] \in Nat /\ m \in Nat /\ nd[m].next \in Int
  BY DEF InOrder, Vector
<1> DEFINE Above(m) == chain[m] = chain[mp] /\ order[mp] < order[m]
           f == [m \in DOMAIN nd |-> IF Above(m) THEN prev ELSE IF m = mp /\ nd[m].next = 0 THEN mp ELSE -1]
<1>2. ASSUME NEW m \in DOMAIN nd
      PROVE  f[m] = IF Succ(nd, m) = mp THEN m ELSE f[Succ(nd, m)]
  <2>1. CASE nd[m].next = 0
    <3>1. Succ(nd, m) = m
      BY <1>1, <2>1 DEF Succ
    <3>2. ~Above(mp)
      BY <1>1
    <3> QED BY <2>1, <3>1, <3>2
  <2>2. CASE nd[m].next # 0 /\ Succ(nd, m) = mp
    <3>1. m = prev
      BY <2>2 DEF IsBefore
    <3>2. Above(m)
      BY <3>1 DEF IsBefore
    <3> QED BY <2>2, <3>1, <3>2
  <2>3. CASE nd[m].next # 0 /\ Succ(nd, m) # mp
    <3>1. PICK s : s = Succ(nd, m)
      OBVIOUS
    <3>2. /\ s \in DOMAIN nd /\ s # mp /\ chain[s] = chain[m] /\ order[s] < order[m]
          /\ \A p \in DOMAIN nd : chain[p] = chain[m] /\ order[p] < order[m] => order[p] <= order[s]
      BY <2>3, <3>1 DEF InOrder
    <3>3. CASE Above(m)
      <4>1. order[mp] <= order[s]
        BY <3>2, <3>3
      <4>2. order[mp] # order[s]
        BY <3>2, <3>3 DEF InOrder
      <4>3. order[mp] < order[s] /\ chain[s] = chain[mp]
        BY <1>1, <3>2, <3>3, <4>1, <4>2
      <4> QED BY <2>3, <3>1, <3>2, <3>3, <4>3
    <3>4. CASE ~Above(m)
      <4>1. ~Above(s)
        BY <1>1, <3>2, <3>4
      <4> QED BY <2>3, <3>1, <3>2, <3>4, <4>1
    <3> QED BY <3>3, <3>4
  <2> QED BY <2>1, <2>2, <2>3
<1>3. f = [m \in DOMAIN nd |-> f[m]]
  OBVIOUS
<1> HIDE DEF f
<1>4. LooksFor(f, nd, mp)
  BY <1>2, <1>3 DEF LooksFor, Succ
<1>5. PICK g : g = LookingFor(nd, mp)
  OBVIOUS
<1>6. LooksFor(g, nd, mp)
  BY <1>4, <1>5 DEF LookingFor
<1>7. \A m \in DOMAIN nd : g[m] = IF Succ(nd, m) = mp THEN m ELSE g[Succ(nd, m)]
  <2> HIDE DEF Above
  <2> QED BY <1>6, Zenon DEF LooksFor, Succ
<1> DEFINE Wrong == {m \in DOMAIN nd : Above(m) /\ g[m] # prev}
           T == {order[m] : m \in Wrong}
<1>8. ASSUME Wrong # {} PROVE FALSE
  <2>1. T \subseteq Nat /\ T # {}
    BY <1>1, <1>8
  <2>2. PICK l \in T : \A j \in T : l <= j
    BY <2>1, LeastNumber
  <2>3. PICK m \in Wrong : \A p \in Wrong : order[m] <= order[p]
    BY <2>2
  <2>4. m \in DOMAIN nd /\ Above(m) /\ g[m] # prev
    BY <2>3
  <2>5. nd[m].next # 0
    <3>1. SUFFICES ASSUME nd[m].next = 0 PROVE FALSE
      OBVIOUS
    <3>2. order[mp] >= order[m]
      BY <2>4, <3>1 DEF InOrder
    <3> QED BY <1>1, <2>4, <3>2
  <2>6. Succ(nd, m) # mp
    BY <1>7, <2>4, <2>5 DEF IsBefore
  <2>7. PICK s : s = Succ(nd, m)
    OBVIOUS
  <2>8. /\ s \in DOMAIN nd /\ s # mp /\ chain[s] = chain[m] /\ order[s] < order[m]
        /\ \A p \in DOMAIN nd : chain[p] = chain[m] /\ order[p] < order[m] => order[p] <= order[s]
    BY <2>4, <2>5, <2>6, <2>7 DEF InOrder
  <2>9. order[mp] <= order[s]
    BY <2>4, <2>8
  <2>10. order[mp] # order[s]
    BY <2>4, <2>8 DEF InOrder
  <2>11. Above(s)
    BY <1>1, <2>4, <2>8, <2>9, <2>10
  <2>12. g[s] # prev
    BY <1>7, <2>4, <2>6, <2>7
  <2>13. s \in Wrong
    BY <2>8, <2>11, <2>12
  <2> QED BY <1>1, <2>3, <2>4, <2>8, <2>13
<1> QED BY <1>5, <1>8

(* Two nodes change places in the chains.                                  *)
Swap(f, mp, D) == [m \in D |-> IF m = f THEN mp ELSE IF m = mp THEN f ELSE m]
Relabel(h, s, D) == [m \in D |-> h[s[m]]]

(* Each node does what its counterpart did.                                *)
Mirrors(nd2, nd, s) ==
    /\ DOMAIN nd2 = DOMAIN nd
    /\ s \in [DOMAIN nd -> DOMAIN nd] /\ \A m \in DOMAIN nd : s[s[m]] = m
    /\ \A m \in DOMAIN nd : nd2[m].next = 0 <=> nd[s[m]].next = 0
    /\ \A m \in DOMAIN nd : nd[s[m]].next # 0 => Succ(nd2, m) = s[Succ(nd, s[m])]

LEMMA OrderMoved ==
    ASSUME NEW nd, NEW chain, NEW order, InOrder(nd, chain, order), NEW nd2, NEW s, Mirrors(nd2, nd, s)
    PROVE  InOrder(nd2, Relabel(chain, s, DOMAIN nd), Relabel(order, s, DOMAIN nd))
<1>1. PICK chain2, order2 : /\ chain2 = Relabel(chain, s, DOMAIN nd) /\ order2 = Relabel(order, s, DOMAIN nd)
  OBVIOUS
<1>2. \A m \in DOMAIN nd : chain2[m] = chain[s[m]] /\ order2[m] = order[s[m]] /\ s[m] \in DOMAIN nd /\ s[s[m]] = m
  BY <1>1 DEF Relabel, Mirrors
<1>3. \A m \in DOMAIN nd : chain[m] \in Int /\ order[m] \in Nat
  BY DEF InOrder
<1>4. chain2 \in [DOMAIN nd -> Int] /\ order2 \in [DOMAIN nd -> Nat]
  BY <1>1, <1>2, <1>3 DEF Relabel
<1>5. DOMAIN nd2 = DOMAIN nd
  BY DEF Mirrors
<1>6. \A m, p \in DOMAIN nd : chain2[m] = chain2[p] /\ order2[m] = order2[p] => m = p
  <2>1. ASSUME NEW m \in DOMAIN nd, NEW p \in DOMAIN nd, chain2[m] = chain2[p], order2[m] = order2[p]
        PROVE  m = p
    <3>1. s[m] = s[p]
      BY <1>2, <2>1 DEF InOrder
    <3> QED BY <1>2, <3>1
  <2> QED BY <2>1
<1>7. ASSUME NEW m \in DOMAIN nd, nd2[m].next # 0
      PROVE  /\ Succ(nd2, m) \in DOMAIN nd
             /\ chain2[Succ(nd2, m)] = chain2[m] /\ order2[Succ(nd2, m)] < order2[m]
             /\ \A p \in DOMAIN nd :
                 chain2[p] = chain2[m] /\ order2[p] < order2[m] => order2[p] <= order2[Succ(nd2, m)]
  <2>1. PICK n \in DOMAIN nd : n = s[m]
    BY <1>2
  <2>2. nd[n].next # 0
    BY <1>7, <2>1 DEF Mirrors
  <2>3. PICK q : q = Succ(nd, n)
    OBVIOUS
  <2>4. /\ q \in DOMAIN nd /\ chain[q] = chain[n] /\ order[q] < order[n]
        /\ \A p \in DOMAIN nd : chain[p] = chain[n] /\ order[p] < order[n] => order[p] <= order[q]
    BY <2>2, <2>3 DEF InOrder
  <2>5. Succ(nd2, m) = s[q]
    BY <2>1, <2>2, <2>3 DEF Mirrors
  <2>6. s[q] \in DOMAIN nd /\ s[s[q]] = q
    BY <1>2, <2>4
  <2>7. chain2[s[q]] = chain[q] /\ order2[s[q]] = order[q]
    BY <1>2, <2>6
  <2> QED BY <1>2, <2>1, <2>4, <2>5, <2>6, <2>7
<1>8. ASSUME NEW m \in DOMAIN nd, nd2[m].next = 0, NEW p \in DOMAIN nd, chain2[p] = chain2[m]
      PROVE  order2[p] >= order2[m]
  <2>1. nd[s[m]].next = 0
    BY <1>8 DEF Mirrors
  <2>2. order[s[p]] >= order[s[m]]
    BY <1>2, <1>8, <2>1 DEF InOrder
  <2> QED BY <1>2, <1>8, <2>2
<1> QED BY <1>1, <1>4, <1>5, <1>6, <1>7, <1>8 DEF InOrder

(* What luaH_newkey writes when it moves the colliding node mp to f.       *)
Moved(nd, nd2, k, mp, f, prev) ==
    nd2 = [nd EXCEPT
             ![prev].next = f - prev,
             ![f] = [nd[mp] EXCEPT !.next = IF nd[mp].next = 0 THEN 0 ELSE nd[mp].next + mp - f],
             ![mp] = [FreeNode EXCEPT !.key = k]]

LEMMA MovedNodes ==
    ASSUME NEW tb \in Table, NEW k \in Key,
           NEW mp \in DOMAIN tb.node, NEW f \in DOMAIN tb.node, NEW prev \in DOMAIN tb.node,
           f # mp, prev # f, prev # mp, NEW nd2, Moved(tb.node, nd2, k, mp, f, prev)
    PROVE  /\ nd2 \in [DOMAIN tb.node -> Node]
           /\ nd2[prev].next = f - prev /\ nd2[prev].key = tb.node[prev].key
           /\ nd2[prev].dead = tb.node[prev].dead /\ nd2[prev].val = tb.node[prev].val
           /\ nd2[f].next = IF tb.node[mp].next = 0 THEN 0 ELSE tb.node[mp].next + mp - f
           /\ nd2[f].key = tb.node[mp].key /\ nd2[f].dead = tb.node[mp].dead /\ nd2[f].val = tb.node[mp].val
           /\ nd2[mp].next = 0 /\ nd2[mp].key = k /\ ~nd2[mp].dead /\ nd2[mp].val = Nil
           /\ \A m \in DOMAIN tb.node : m # prev /\ m # f /\ m # mp => nd2[m] = tb.node[m]
<1>1. PICK nd : nd = tb.node
  OBVIOUS
<1>2. nd \in [DOMAIN nd -> Node] /\ nd[mp] \in Node /\ nd[prev] \in Node /\ mp \in Int /\ f \in Int /\ prev \in Int
  BY <1>1, NodeTyped, TableFacts
<1>3. PICK x : x = IF nd[mp].next = 0 THEN 0 ELSE nd[mp].next + mp - f
  OBVIOUS
<1>4. x \in Int
  BY <1>2, <1>3 DEF Node
<1>5. PICK e : e = [nd[prev] EXCEPT !.next = f - prev]
  OBVIOUS
<1>6. /\ e \in Node /\ e.next = f - prev /\ e.key = nd[prev].key
      /\ e.dead = nd[prev].dead /\ e.val = nd[prev].val
  BY <1>2, <1>5 DEF Node
<1>7. PICK g : g = [nd[mp] EXCEPT !.next = x]
  OBVIOUS
<1>8. g \in Node /\ g.next = x /\ g.key = nd[mp].key /\ g.dead = nd[mp].dead /\ g.val = nd[mp].val
  BY <1>2, <1>4, <1>7 DEF Node
<1>9. PICK h : h = [FreeNode EXCEPT !.key = k]
  OBVIOUS
<1>10. h \in Node /\ h.next = 0 /\ h.key = k /\ ~h.dead /\ h.val = Nil
  <2>1. FreeNode \in Node
    BY DEF Node, FreeNode, Value
  <2>2. FreeNode.next = 0 /\ ~FreeNode.dead /\ FreeNode.val = Nil
    BY DEF FreeNode
  <2> QED BY <1>9, <2>1, <2>2 DEF Node
<1>11. nd2 = [nd EXCEPT ![prev] = e, ![f] = g, ![mp] = h]
  BY <1>1, <1>3, <1>5, <1>7, <1>9 DEF Moved
<1>12. /\ nd2 \in [DOMAIN nd -> Node] /\ nd2[prev] = e /\ nd2[f] = g /\ nd2[mp] = h
       /\ \A m \in DOMAIN nd : m # prev /\ m # f /\ m # mp => nd2[m] = nd[m]
  BY <1>1, <1>2, <1>6, <1>8, <1>10, <1>11
<1> QED BY <1>1, <1>3, <1>6, <1>8, <1>10, <1>12

(* The colliding node is out of place: k takes its node, it goes to f.     *)
LEMMA MoveCollidingInserts ==
    ASSUME NEW tb, NEW chain, NEW order, NEW k, NEW mp, Inserting(tb, chain, order, k, mp),
           tb.node[mp].val # Nil, Main(tb, tb.node[mp].key) # mp,
           NEW f, IsFree(tb, f), \A m \in DOMAIN tb.node \ {f} : chain[m] # chain[f],
           NEW r, r = MoveColliding(tb, k, mp, f)
    PROVE  Inserted(tb, k, r)
<1>1. /\ tb \in Table /\ FieldsRight(tb) /\ InOrder(tb.node, chain, order) /\ KeysPlaced(tb, chain, order)
      /\ k \in Key /\ ~InArray(tb, k) /\ mp = Main(tb, k) /\ mp \in DOMAIN tb.node
  BY DEF Inserting, Ordered
<1>2. k # Nil /\ \A m \in DOMAIN tb.node : order[m] \in Nat /\ chain[m] \in Int
  BY InsertingFacts
<1>3. /\ f \in DOMAIN tb.node /\ tb.node[f] = FreeNode /\ f < tb.lastfree
      /\ \A m \in DOMAIN tb.node : tb.node[m].key = Nil => m <= f
  BY DEF IsFree
<1>4. tb.node[f].key = Nil /\ tb.node[f].next = 0 /\ tb.node[f].val = Nil
  BY <1>3 DEF FreeNode
<1>5. tb.node[mp].key \in Key /\ tb.node[mp].key # Nil /\ ~tb.node[mp].dead
  <2>1. tb.node[mp].key # Nil
    BY <1>1 DEF KeysPlaced, Unused, FreeNode
  <2> QED BY <1>1, <2>1, NodeTyped DEF FieldsRight
<1>6. PICK a : a = Main(tb, tb.node[mp].key)
  OBVIOUS
<1>7. /\ chain[a] = chain[mp] /\ order[mp] <= order[a] /\ a # mp /\ a # f
  BY <1>1, <1>4, <1>5, <1>6 DEF KeysPlaced, Reached
<1>8. a \in DOMAIN tb.node /\ order[mp] < order[a]
  <2>1. a \in DOMAIN tb.node
    <3>1. Size(tb) # 0
      BY DEF Inserting
    <3> QED BY <1>1, <1>5, <1>6, <3>1, MainIn
  <2>2. order[a] # order[mp]
    BY <1>1, <1>7, <2>1 DEF InOrder
  <2> QED BY <1>1, <1>2, <1>7, <2>1, <2>2
<1>9. Vector(tb.node)
  BY <1>1, TableVector
<1>10. PICK prev : IsBefore(tb.node, chain, order, mp, prev)
  BY <1>1, <1>7, <1>8, <1>9, BeforeExists
<1>11. LookingFor(tb.node, mp)[a] = prev
  BY <1>1, <1>7, <1>8, <1>9, <1>10, BeforeFound
<1>12. f # mp /\ chain[f] # chain[mp]
  BY <1>1, <1>4, <1>5
<1>13. /\ prev \in DOMAIN tb.node /\ prev # f /\ prev # mp
       /\ tb.node[prev].next # 0 /\ Succ(tb.node, prev) = mp
       /\ \A m \in DOMAIN tb.node : tb.node[m].next # 0 /\ Succ(tb.node, m) = mp => m = prev
  BY <1>1, <1>2, <1>10, <1>12 DEF IsBefore
<1>14. PICK nd : Moved(tb.node, nd, k, mp, f, prev)
  BY DEF Moved
<1>15. r = [tb EXCEPT !.node = nd, !.lastfree = f]
  <2>1. LookingFor(tb.node, mp)[MainPosition(Size(tb), tb.node[mp].key)] = prev
    BY <1>6, <1>11 DEF Main
  <2> QED BY <1>14, <2>1 DEF MoveColliding, Moved, LookingFor, LooksFor
<1>16. /\ nd \in [DOMAIN tb.node -> Node]
       /\ nd[prev].next = f - prev /\ nd[prev].key = tb.node[prev].key
       /\ nd[prev].dead = tb.node[prev].dead /\ nd[prev].val = tb.node[prev].val
       /\ nd[f].next = IF tb.node[mp].next = 0 THEN 0 ELSE tb.node[mp].next + mp - f
       /\ nd[f].key = tb.node[mp].key /\ nd[f].dead = tb.node[mp].dead /\ nd[f].val = tb.node[mp].val
       /\ nd[mp].next = 0 /\ nd[mp].key = k /\ ~nd[mp].dead /\ nd[mp].val = Nil
       /\ \A m \in DOMAIN tb.node : m # prev /\ m # f /\ m # mp => nd[m] = tb.node[m]
  BY <1>1, <1>3, <1>12, <1>13, <1>14, MovedNodes
<1>17. nd \in Nodes /\ DOMAIN nd = DOMAIN tb.node
  BY <1>1, <1>16, NodesOf
<1>18. r.array = tb.array /\ r.node = nd /\ r.lastfree = f /\ r \in Table
  <2>1. tb.array \in Seq(Value) /\ f \in Nat
    BY <1>1, <1>3, TableFacts
  <2>2. r = [array |-> tb.array, node |-> nd, lastfree |-> f]
    BY <1>1, <1>15 DEF Table
  <2> QED BY <1>17, <2>1, <2>2, TableMade
<1>19. Size(r) = Size(tb) /\ \A x : Main(r, x) = Main(tb, x)
  BY <1>17, <1>18 DEF Size, Main
<1>20. \A x : InArray(r, x) <=> InArray(tb, x)
  BY <1>18 DEF InArray
<1>21. PICK s : s = Swap(f, mp, DOMAIN tb.node)
  OBVIOUS
<1>22. /\ s \in [DOMAIN tb.node -> DOMAIN tb.node] /\ s[f] = mp /\ s[mp] = f
       /\ \A m \in DOMAIN tb.node : m # f /\ m # mp => s[m] = m
  BY <1>1, <1>3, <1>12, <1>21 DEF Swap
<1>23. \A m \in DOMAIN tb.node : m # mp =>
          nd[m].key = tb.node[s[m]].key /\ nd[m].dead = tb.node[s[m]].dead /\ nd[m].val = tb.node[s[m]].val
  BY <1>1, <1>3, <1>13, <1>16, <1>22
<1>24. Mirrors(nd, tb.node, s)
  <2>1. \A m \in DOMAIN tb.node : s[s[m]] = m
    BY <1>1, <1>3, <1>22
  <2>2. \A m \in DOMAIN tb.node : m \in Int /\ tb.node[m].next \in Int
    BY <1>1, NodeTyped
  <2>3. \A m \in DOMAIN tb.node : tb.node[m].next # 0 => Succ(tb.node, m) # f /\ Succ(tb.node, m) # m
    <3>1. ASSUME NEW m \in DOMAIN tb.node, tb.node[m].next # 0, Succ(tb.node, m) = f PROVE FALSE
      <4>1. chain[f] = chain[m] /\ order[f] < order[m]
        BY <1>1, <3>1 DEF InOrder
      <4>2. m # f
        BY <1>4, <3>1
      <4> QED BY <4>1, <4>2
    <3> QED BY <2>2, <3>1 DEF Succ
  <2>4. ASSUME NEW m \in DOMAIN tb.node
        PROVE  /\ nd[m].next = 0 <=> tb.node[s[m]].next = 0
               /\ tb.node[s[m]].next # 0 => Succ(nd, m) = s[Succ(tb.node, s[m])]
    <3>1. CASE m = prev
      <4>1. nd[m].next = f - m /\ f # m /\ s[m] = m
        BY <1>13, <1>16, <1>22, <3>1
      <4>2. Succ(nd, m) = f /\ nd[m].next # 0
        BY <1>3, <2>2, <4>1 DEF Succ
      <4> QED BY <1>13, <1>22, <3>1, <4>1, <4>2
    <3>2. CASE m = mp
      BY <1>4, <1>16, <1>22, <3>2
    <3>3. CASE m = f
      <4>1. s[m] = mp /\ nd[m].next = IF tb.node[mp].next = 0 THEN 0 ELSE tb.node[mp].next + mp - f
        BY <1>16, <1>22, <3>3
      <4>2. CASE tb.node[mp].next = 0
        BY <4>1, <4>2
      <4>3. CASE tb.node[mp].next # 0
        <5>1. PICK q : q = Succ(tb.node, mp)
          OBVIOUS
        <5>2. q \in DOMAIN tb.node /\ q # f /\ q # mp
          BY <1>1, <2>3, <4>3, <5>1 DEF InOrder
        <5>3. nd[m].next # 0 /\ Succ(nd, m) = q
          BY <1>1, <1>3, <2>2, <3>3, <4>1, <4>3, <5>1, <5>2 DEF Succ
        <5> QED BY <1>22, <4>1, <4>3, <5>1, <5>2, <5>3
      <4> QED BY <4>2, <4>3
    <3>4. CASE m # prev /\ m # mp /\ m # f
      <4>1. nd[m] = tb.node[m] /\ s[m] = m /\ Succ(nd, m) = Succ(tb.node, m)
        BY <1>16, <1>22, <3>4 DEF Succ
      <4>2. ASSUME tb.node[m].next # 0 PROVE s[Succ(tb.node, m)] = Succ(tb.node, m)
        <5>1. Succ(tb.node, m) \in DOMAIN tb.node
          BY <1>1, <4>2 DEF InOrder
        <5>2. Succ(tb.node, m) # f /\ Succ(tb.node, m) # mp
          BY <1>13, <2>3, <3>4, <4>2
        <5> QED BY <1>22, <5>1, <5>2
      <4> QED BY <4>1, <4>2
    <3> QED BY <3>1, <3>2, <3>3, <3>4
  <2> QED BY <1>17, <1>22, <2>1, <2>4 DEF Mirrors
<1>25. PICK chain2, order2 : /\ chain2 = Relabel(chain, s, DOMAIN tb.node)
                             /\ order2 = Relabel(order, s, DOMAIN tb.node)
  OBVIOUS
<1>26. InOrder(nd, chain2, order2)
  BY <1>1, <1>24, <1>25, OrderMoved
<1>27. \A m \in DOMAIN tb.node : chain2[m] = chain[s[m]] /\ order2[m] = order[s[m]]
  BY <1>25 DEF Relabel
<1>28. \A m \in DOMAIN tb.node : tb.node[m].key # k
  <2>1. ASSUME NEW m \in DOMAIN tb.node, tb.node[m].key = k PROVE FALSE
    <3>1. Reached(tb, chain, order, m)
      BY <1>1, <1>2, <2>1 DEF KeysPlaced
    <3> QED BY <1>1, <2>1, <3>1 DEF Reached
  <2> QED BY <2>1
<1>29. ASSUME NEW m \in DOMAIN tb.node, nd[m].key = Nil PROVE Unused(r, chain2, m)
  <2>1. m # mp /\ m # f /\ s[m] = m /\ tb.node[m].key = Nil
    BY <1>2, <1>5, <1>16, <1>22, <1>23, <1>29
  <2>2. Unused(tb, chain, m)
    BY <1>1, <2>1 DEF KeysPlaced
  <2>3. tb.node[m] = FreeNode /\ \A p \in DOMAIN tb.node \ {m} : chain[p] # chain[m]
    BY <2>2 DEF Unused
  <2>4. nd[m] = FreeNode
    <3>1. m # prev
      BY <1>13, <2>3 DEF FreeNode
    <3> QED BY <1>16, <2>1, <2>3, <3>1
  <2>5. m < f
    <3>1. m <= f /\ m \in Int /\ f \in Int
      BY <1>1, <1>3, <2>1, NodeTyped
    <3> QED BY <2>1, <3>1
  <2>6. ASSUME NEW p \in DOMAIN tb.node \ {m} PROVE chain2[p] # chain2[m]
    <3>1. s[p] \in DOMAIN tb.node \ {m}
      BY <1>1, <1>3, <1>22, <2>1
    <3> QED BY <1>27, <2>1, <2>3, <3>1
  <2> QED BY <1>17, <1>18, <2>4, <2>5, <2>6 DEF Unused
<1>30. ASSUME NEW m \in DOMAIN tb.node, nd[m].key # Nil PROVE Reached(r, chain2, order2, m)
  <2>1. CASE m = mp
    <3>1. order2[mp] <= order2[mp]
      BY <1>1, <1>2, <1>3, <1>22, <1>27
    <3> QED BY <1>1, <1>2, <1>16, <1>18, <1>19, <2>1, <3>1 DEF Reached
  <2>2. CASE m # mp
    <3>1. s[m] \in DOMAIN tb.node /\ tb.node[s[m]].key = nd[m].key
      BY <1>22, <1>23, <2>2
    <3>2. PICK b : b = Main(tb, tb.node[s[m]].key)
      OBVIOUS
    <3>3. chain[b] = chain[s[m]] /\ order[s[m]] <= order[b] /\ tb.node[b].key # Nil /\ Main(tb, tb.node[b].key) = b
      BY <1>1, <1>30, <3>1, <3>2 DEF KeysPlaced, Reached
    <3>4. b \in DOMAIN tb.node
      <4>1. tb.node[s[m]].key \in Key /\ Size(tb) # 0
        BY <1>1, <1>30, <3>1, NodeTyped DEF Inserting
      <4> QED BY <1>1, <3>2, <4>1, MainIn
    <3>5. b # mp /\ b # f
      BY <1>4, <3>3
    <3>6. s[b] = b /\ nd[b].key = tb.node[b].key
      BY <1>22, <1>23, <3>4, <3>5
    <3>7. chain2[b] = chain2[m] /\ order2[m] <= order2[b]
      BY <1>27, <3>3, <3>4, <3>6
    <3> QED BY <1>18, <1>19, <3>1, <3>2, <3>3, <3>6, <3>7 DEF Reached
  <2> QED BY <2>1, <2>2
<1>31. ASSUME NEW m \in DOMAIN tb.node, NEW p \in DOMAIN tb.node,
              m # p, nd[m].key = nd[p].key, nd[m].key # Nil, ~nd[m].dead
       PROVE  nd[p].dead /\ order2[p] < order2[m]
  <2>1. m # mp /\ p # mp
    BY <1>16, <1>22, <1>23, <1>28, <1>31
  <2>2. s[m] \in DOMAIN tb.node /\ s[p] \in DOMAIN tb.node /\ s[m] # s[p]
    BY <1>1, <1>3, <1>22, <1>31
  <2>3. tb.node[s[m]].key = tb.node[s[p]].key /\ tb.node[s[m]].key # Nil /\ ~tb.node[s[m]].dead
    BY <1>23, <1>31, <2>1
  <2>4. tb.node[s[p]].dead /\ order[s[p]] < order[s[m]]
    BY <1>1, <2>2, <2>3 DEF KeysPlaced
  <2> QED BY <1>23, <1>27, <2>1, <2>4
<1>32. Ordered(r, chain2, order2)
  BY <1>17, <1>18, <1>26, <1>29, <1>30, <1>31 DEF Ordered, KeysPlaced
<1>33. FieldsRight(r)
  <2>1. r.lastfree <= Size(r)
    <3>1. tb.lastfree <= Size(tb) /\ tb.lastfree \in Nat /\ Size(tb) \in Nat /\ f \in Nat
      BY <1>1, <1>3, TableFacts DEF FieldsRight
    <3> QED BY <1>3, <1>18, <1>19, <3>1
  <2>2. ASSUME NEW m \in DOMAIN tb.node
        PROVE  /\ nd[m].dead => nd[m].val = Nil /\ nd[m].key \in Collectable
               /\ nd[m].key # Nil => ~InArray(tb, nd[m].key)
    <3>1. CASE m = mp
      BY <1>1, <1>16, <3>1
    <3>2. CASE m # mp
      BY <1>1, <1>22, <1>23, <3>2 DEF FieldsRight
    <3> QED BY <3>1, <3>2
  <2> QED BY <1>1, <1>17, <1>18, <1>20, <2>1, <2>2 DEF FieldsRight
<1>34. Sound(r)
  BY <1>18, <1>32, <1>33 DEF Sound
<1>35. Live(r, k, mp)
  BY <1>1, <1>16, <1>17, <1>18 DEF Live
<1>36. ASSUME NEW x \in Key, NEW v \in Val PROVE Holds(r, x, v) <=> Holds(tb, x, v)
  <2>1. v # Nil
    BY TableAssumption
  <2>2. ASSUME Holds(r, x, v) PROVE Holds(tb, x, v)
    <3>1. PICK m \in DOMAIN tb.node : nd[m].key = x /\ nd[m].val = v
      BY <1>17, <1>18, <2>2 DEF Holds
    <3>2. m # mp
      BY <1>16, <2>1, <3>1
    <3> QED BY <1>22, <1>23, <3>1, <3>2 DEF Holds
  <2>3. ASSUME Holds(tb, x, v) PROVE Holds(r, x, v)
    <3>1. PICK m \in DOMAIN tb.node : tb.node[m].key = x /\ tb.node[m].val = v
      BY <2>3 DEF Holds
    <3>2. m # f
      BY <1>4, <2>1, <3>1
    <3>3. s[m] # mp /\ s[m] \in DOMAIN tb.node /\ s[s[m]] = m
      BY <1>1, <1>3, <1>22, <3>2
    <3>4. nd[s[m]].key = x /\ nd[s[m]].val = v
      BY <1>23, <3>1, <3>3
    <3> QED BY <1>17, <1>18, <3>3, <3>4 DEF Holds
  <2> QED BY <2>2, <2>3
<1>37. (\A m \in DOMAIN tb.node : ~tb.node[m].dead) => \A m \in DOMAIN r.node : ~r.node[m].dead
  BY <1>16, <1>17, <1>18, <1>22, <1>23
<1>38. \A m \in DOMAIN r.node : r.node[m].key \in {k, Nil} \cup {tb.node[p].key : p \in DOMAIN tb.node}
  BY <1>16, <1>17, <1>18, <1>22, <1>23
<1> QED BY <1>17, <1>18, <1>34, <1>35, <1>36, <1>37, <1>38 DEF Inserted

LEMMA PlaceFacts ==
    ASSUME NEW tb, Sound(tb), NEW k \in Key, ~Present(tb, k), CanPlace(tb, k), NEW r, r = Place(tb, k)
    PROVE  Inserted(tb, k, r)
<1>1. tb \in Table /\ FieldsRight(tb) /\ Size(tb) \in Nat /\ tb.lastfree \in Nat
  BY TableFacts DEF Sound
<1>2. PICK chain, order : Ordered(tb, chain, order)
  BY DEF Sound
<1>3. ~InArray(tb, k) /\ \A m : ~Live(tb, k, m)
  BY PresentFinds
<1>4. Size(tb) # 0
  <2>1. CASE MainFree(tb, k)
    BY <1>1, <2>1 DEF MainFree
  <2>2. CASE FreeBelow(tb) # {}
    <3>1. tb.lastfree > 0
      BY <1>1, <2>2 DEF FreeBelow
    <3> QED BY <1>1, <3>1 DEF FieldsRight
  <2> QED BY <2>1, <2>2 DEF CanPlace
<1>5. PICK mp : mp = Main(tb, k)
  OBVIOUS
<1>6. mp \in DOMAIN tb.node
  BY <1>1, <1>4, <1>5, MainIn
<1>7. Inserting(tb, chain, order, k, mp)
  BY <1>1, <1>2, <1>3, <1>4, <1>5, <1>6 DEF Inserting
<1>8. MainFree(tb, k) <=> tb.node[mp].val = Nil
  BY <1>1, <1>4, <1>5 DEF MainFree, Main
<1>9. CASE tb.node[mp].val = Nil
  <2>1. r = [tb EXCEPT !.node[mp] = Keyed(@, k)]
    BY <1>5, <1>8, <1>9 DEF Place, Main
  <2> QED BY <1>7, <1>9, <2>1, MainFreeInserts
<1>10. CASE tb.node[mp].val # Nil
  <2>1. PICK f : f = Highest(FreeBelow(tb))
    OBVIOUS
  <2>2. IsFree(tb, f) /\ \A m \in DOMAIN tb.node \ {f} : chain[m] # chain[f]
    BY <1>7, <1>8, <1>10, <2>1, FreeFound DEF CanPlace
  <2>3. CASE Main(tb, tb.node[mp].key) # mp
    <3>1. r = MoveColliding(tb, k, mp, f)
      BY <1>5, <1>8, <1>10, <2>1, <2>3 DEF Place, Main
    <3> QED BY <1>7, <1>10, <2>2, <2>3, <3>1, MoveCollidingInserts
  <2>4. CASE Main(tb, tb.node[mp].key) = mp
    <3>1. r = ChainFree(tb, k, mp, f)
      BY <1>5, <1>8, <1>10, <2>1, <2>4 DEF Place, Main
    <3> QED BY <1>7, <1>10, <2>2, <2>4, <3>1, ChainFreeInserts
  <2> QED BY <2>3, <2>4
<1> QED BY <1>9, <1>10

(* k is there, without a value, and nothing else has changed.              *)
LEMMA InsertedFacts ==
    ASSUME NEW tb, Sound(tb), NEW k \in Key, NEW r, Inserted(tb, k, r)
    PROVE  Sound(r) /\ Present(r, k) /\ \A x \in Key : Get(r, x) = Get(tb, x)
<1>1. Sound(r) /\ r.array = tb.array /\ \A x \in Key, v \in Val : Holds(r, x, v) <=> Holds(tb, x, v)
  BY DEF Inserted
<1>2. Present(r, k)
  BY <1>1, PresentFinds DEF Inserted
<1> QED BY <1>1, <1>2, GetSame

-----------------------------------------------------------------------------
(* Powers of two                                                           *)

Doubles(g, N) == g \in [0 .. N -> Nat] /\ g[0] = 1 /\ \A i \in 1 .. N : g[i] = 2 * g[i - 1]
Doubling(f) == f = [n \in Nat |-> IF n = 0 THEN 1 ELSE 2 * f[n - 1]]

LEMMA DoublesUnique ==
    ASSUME NEW n \in Nat, NEW N \in Nat, n <= N, NEW g, Doubles(g, n), NEW h, Doubles(h, N)
    PROVE  \A i \in 0 .. n : g[i] = h[i]
<1> DEFINE X == {i \in 0 .. n : g[i] = h[i]}
<1>1. 0 \in X
  BY DEF Doubles
<1>2. ASSUME NEW i \in 0 .. n - 1, i \in X PROVE i + 1 \in X
  <2>1. i + 1 \in 1 .. n /\ i + 1 \in 1 .. N /\ (i + 1) - 1 = i /\ i + 1 \in 0 .. n
    OBVIOUS
  <2>2. g[i + 1] = 2 * g[i] /\ h[i + 1] = 2 * h[i]
    BY <2>1 DEF Doubles
  <2> QED BY <1>2, <2>1, <2>2
<1> HIDE DEF X
<1>3. 0 .. n \subseteq X
  BY <1>1, <1>2, UpTo
<1> QED BY <1>3 DEF X

LEMMA DoublesExist ==
    ASSUME NEW N \in Nat
    PROVE  \E g : Doubles(g, N)
<1>1. PICK step : step = [p \in (1 .. N) \X Nat |-> 2 * p[2]]
  OBVIOUS
<1>2. step \in [(1 .. N) \X Nat -> Nat]
  <2>1. \A p \in (1 .. N) \X Nat : 2 * p[2] \in Nat
    OBVIOUS
  <2> QED BY <1>1, <2>1
<1>3. PICK g : Iterates(g, 1, step, N, Nat)
  BY <1>2, RecursionExists DEF Steps
<1>4. ASSUME NEW i \in 1 .. N PROVE g[i] = 2 * g[i - 1]
  <2>1. g[i] = step[<<i, g[i - 1]>>] /\ g[i - 1] \in Nat
    BY <1>3 DEF Iterates
  <2> QED BY <1>1, <2>1
<1> QED BY <1>3, <1>4 DEF Iterates, Doubles

LEMMA TwoToDoubles ==
    TwoTo \in [Nat -> Nat] /\ TwoTo[0] = 1 /\ \A n \in Nat : TwoTo[n + 1] = 2 * TwoTo[n]
<1>1. PICK G : G = [n \in Nat |-> CHOOSE g : Doubles(g, n)]
  OBVIOUS
<1>2. \A n \in Nat : Doubles(G[n], n)
  BY <1>1, DoublesExist
<1>3. PICK F : F = [n \in Nat |-> G[n][n]]
  OBVIOUS
<1>4. F[0] = 1
  BY <1>2, <1>3 DEF Doubles
<1>5. ASSUME NEW n \in Nat PROVE F[n] \in Nat /\ F[n + 1] = 2 * F[n]
  <2>1. Doubles(G[n], n) /\ Doubles(G[n + 1], n + 1) /\ n + 1 \in Nat
    BY <1>2
  <2>2. G[n + 1][n] = G[n][n]
    BY <2>1, DoublesUnique
  <2>3. n + 1 \in 1 .. n + 1 /\ (n + 1) - 1 = n
    OBVIOUS
  <2>4. G[n + 1][n + 1] = 2 * G[n + 1][n]
    BY <2>1, <2>3 DEF Doubles
  <2>5. F[n] = G[n][n] /\ F[n + 1] = G[n + 1][n + 1]
    BY <1>3
  <2>6. G[n][n] \in Nat
    BY <2>1 DEF Doubles
  <2> QED BY <2>2, <2>4, <2>5, <2>6
<1>6. ASSUME NEW n \in Nat PROVE F[n] = IF n = 0 THEN 1 ELSE 2 * F[n - 1]
  <2>1. CASE n # 0
    <3>1. n - 1 \in Nat /\ (n - 1) + 1 = n
      BY <2>1
    <3> QED BY <1>5, <2>1, <3>1
  <2> QED BY <1>4, <2>1
<1>7. Doubling(F)
  <2>1. F = [n \in Nat |-> F[n]]
    BY <1>3
  <2> QED BY <1>6, <2>1 DEF Doubling
<1>8. Doubling(TwoTo)
  BY <1>7 DEF TwoTo, Doubling
<1>9. PICK f : f = TwoTo
  OBVIOUS
<1>10. \A n \in Nat : f[n] = IF n = 0 THEN 1 ELSE 2 * f[n - 1]
  BY <1>8, <1>9, Zenon DEF Doubling
<1>11. f[0] = 1
  BY <1>10
<1>12. ASSUME NEW n \in Nat PROVE f[n + 1] = 2 * f[n]
  <2>1. n + 1 \in Nat /\ n + 1 # 0 /\ (n + 1) - 1 = n
    OBVIOUS
  <2> QED BY <1>10, <2>1
<1>13. ASSUME NEW n \in Nat PROVE f[n] \in Nat
  <2> DEFINE X == {i \in Nat : f[i] \in Nat}
  <2>1. 0 \in X
    BY <1>11
  <2>2. \A i \in 0 .. n - 1 : i \in X => i + 1 \in X
    BY <1>12
  <2> HIDE DEF X
  <2>3. n \in X
    BY <2>1, <2>2, UpTo
  <2> QED BY <2>3 DEF X
<1>14. \E e : f = [n \in Nat |-> e[n]]
  BY <1>8, <1>9, Zenon DEF Doubling
<1> QED BY <1>9, <1>11, <1>12, <1>13, <1>14

LEMMA PowersGrow ==
    /\ \A n \in Nat : TwoTo[n] \in Nat /\ TwoTo[n] > n
    /\ \A m, n \in Nat : m < n => 2 * TwoTo[m] <= TwoTo[n]
<1>1. TwoTo[0] = 1 /\ \A n \in Nat : TwoTo[n] \in Nat /\ TwoTo[n + 1] = 2 * TwoTo[n]
  BY TwoToDoubles
<1>2. ASSUME NEW n \in Nat PROVE TwoTo[n] > n
  <2> DEFINE X == {i \in Nat : TwoTo[i] > i}
  <2>1. 0 \in X
    BY <1>1
  <2>2. ASSUME NEW i \in 0 .. n - 1, i \in X PROVE i + 1 \in X
    <3>1. i \in Nat /\ TwoTo[i] > i /\ TwoTo[i] \in Nat /\ TwoTo[i + 1] = 2 * TwoTo[i]
      BY <1>1, <2>2
    <3>2. TwoTo[i + 1] > i + 1
      BY <3>1
    <3> QED BY <3>1, <3>2
  <2> HIDE DEF X
  <2>3. n \in X
    BY <2>1, <2>2, UpTo
  <2> QED BY <2>3 DEF X
<1>3. ASSUME NEW m \in Nat, NEW n \in Nat, m < n PROVE 2 * TwoTo[m] <= TwoTo[n]
  <2>1. PICK d \in Nat : n = m + 1 + d
    <3>1. n - m - 1 \in Nat /\ n = m + 1 + (n - m - 1)
      BY <1>3
    <3> QED BY <3>1
  <2> DEFINE X == {i \in Nat : 2 * TwoTo[m] <= TwoTo[m + 1 + i]}
  <2>2. 0 \in X
    <3>1. m + 1 + 0 = m + 1 /\ TwoTo[m + 1] = 2 * TwoTo[m] /\ 2 * TwoTo[m] \in Nat
      BY <1>1
    <3> QED BY <3>1
  <2>3. ASSUME NEW i \in 0 .. d - 1, i \in X PROVE i + 1 \in X
    <3>1. PICK j \in Nat : j = m + 1 + i /\ m + 1 + (i + 1) = j + 1
      OBVIOUS
    <3>2. TwoTo[j + 1] = 2 * TwoTo[j] /\ TwoTo[j] \in Nat /\ TwoTo[m] \in Nat /\ 2 * TwoTo[m] <= TwoTo[j]
      BY <1>1, <2>3, <3>1
    <3>3. 2 * TwoTo[m] <= TwoTo[j + 1]
      BY <3>2
    <3> QED BY <3>1, <3>3
  <2> HIDE DEF X
  <2>4. d \in X
    BY <2>2, <2>3, UpTo
  <2> QED BY <2>1, <2>4 DEF X
<1> QED BY <1>1, <1>2, <1>3

(* luaO_ceillog2.                                                          *)
LEMMA CeilLog2Facts ==
    ASSUME NEW n \in Nat
    PROVE  CeilLog2(n) \in 0 .. n /\ TwoTo[CeilLog2(n)] >= n
<1>1. PICK T : T = {i \in 0 .. n : TwoTo[i] >= n}
  OBVIOUS
<1>2. TwoTo[n] >= n
  BY PowersGrow
<1>3. T \subseteq Nat /\ T # {}
  BY <1>1, <1>2
<1>4. PICK l \in T : \A i \in T : l <= i
  BY <1>3, LeastNumber
<1>5. \E i \in 0 .. n : TwoTo[i] >= n /\ \A j \in 0 .. n : TwoTo[j] >= n => i <= j
  BY <1>1, <1>4
<1> QED BY <1>5 DEF CeilLog2

LEMMA NodesForFacts ==
    ASSUME NEW n \in Nat
    PROVE  NodesFor(n) \in Nat /\ NodesFor(n) >= n /\ IsSize(NodesFor(n))
<1>1. CASE n = 0
  BY <1>1 DEF NodesFor, IsSize
<1>2. CASE n # 0
  <2>1. PICK l \in Nat : l = CeilLog2(n) /\ TwoTo[l] >= n
    BY CeilLog2Facts
  <2>2. TwoTo[l] \in Nat /\ TwoTo[l] > l /\ NodesFor(n) = TwoTo[l]
    BY <1>2, <2>1, PowersGrow DEF NodesFor
  <2>3. l \in 0 .. NodesFor(n)
    BY <2>2
  <2> QED BY <2>1, <2>2, <2>3 DEF IsSize
<1> QED BY <1>1, <1>2

-----------------------------------------------------------------------------
(* Room: a hash part with as many nodes as there are keys for it           *)

LEMMA InjectionBound ==
    ASSUME NEW S, NEW T, IsFiniteSet(T), NEW f \in [S -> T], \A x, y \in S : f[x] = f[y] => x = y
    PROVE  Cardinality(S) <= Cardinality(T)
<1>1. f \in Injection(S, T)
  BY DEF Injection, IsInjective
<1> QED BY <1>1, FS_Injection

(* Every key is one of F, and no key is dead.                              *)
Roomy(tb, F) ==
    /\ F \subseteq Key /\ IsFiniteSet(F) /\ Cardinality(F) <= Size(tb)
    /\ \A m \in DOMAIN tb.node : ~tb.node[m].dead /\ tb.node[m].key \in F \cup {Nil}

LEMMA RoomLeft ==
    ASSUME NEW tb, Sound(tb), NEW F, Roomy(tb, F), NEW k \in F, ~Present(tb, k)
    PROVE  CanPlace(tb, k)
<1>1. tb \in Table /\ FieldsRight(tb) /\ Size(tb) \in Nat /\ DOMAIN tb.node = 0 .. Size(tb) - 1 /\ tb.lastfree \in Nat
  BY TableFacts DEF Sound
<1>2. PICK chain, order : KeysPlaced(tb, chain, order) /\ InOrder(tb.node, chain, order)
  BY DEF Sound, Ordered
<1>3. F \subseteq Key /\ IsFiniteSet(F) /\ Cardinality(F) <= Size(tb)
  BY DEF Roomy
<1>4. \A m \in DOMAIN tb.node : ~tb.node[m].dead /\ tb.node[m].key \in F \cup {Nil} /\ tb.node[m].key # k
  BY <1>3, PresentFinds DEF Roomy, Live
<1>5. CASE \E m \in DOMAIN tb.node : tb.node[m].key = Nil
  <2>1. PICK m \in DOMAIN tb.node : tb.node[m].key = Nil
    BY <1>5
  <2>2. m < tb.lastfree /\ m \in 0 .. tb.lastfree - 1
    BY <1>1, <1>2, <2>1 DEF KeysPlaced, Unused
  <2> QED BY <2>1, <2>2 DEF CanPlace, FreeBelow
<1>6. CASE \A m \in DOMAIN tb.node : tb.node[m].key # Nil
  <2>1. PICK keys : keys = [m \in DOMAIN tb.node |-> tb.node[m].key]
    OBVIOUS
  <2>2. keys \in [DOMAIN tb.node -> F \ {k}]
    BY <1>4, <1>6, <2>1
  <2>3. ASSUME NEW m \in DOMAIN tb.node, NEW p \in DOMAIN tb.node, keys[m] = keys[p], m # p PROVE FALSE
    BY <1>2, <1>4, <1>6, <2>1, <2>3 DEF KeysPlaced
  <2>4. IsFiniteSet(F \ {k}) /\ Cardinality(F \ {k}) = Cardinality(F) - 1 /\ Cardinality(F) \in Nat
    BY <1>3, FS_RemoveElement, FS_CardinalityType
  <2>5. Cardinality(DOMAIN tb.node) <= Cardinality(F \ {k})
    BY <2>2, <2>3, <2>4, InjectionBound
  <2>6. Cardinality(DOMAIN tb.node) = Size(tb)
    BY DEF Size
  <2> QED BY <1>1, <1>3, <2>4, <2>5, <2>6
<1> QED BY <1>5, <1>6

(* What an assignment leaves in place while luaH_resize moves the fields.  *)
Assigns(tb, F, k, v, r) ==
    /\ Sound(r) /\ Roomy(r, F)
    /\ Len(r.array) = Len(tb.array) /\ DOMAIN r.node = DOMAIN tb.node
    /\ Get(r, k) = v /\ \A x \in Key \ {k} : Get(r, x) = Get(tb, x)

LEMMA PutAssigns ==
    ASSUME NEW tb, Sound(tb), NEW F, Roomy(tb, F), NEW k \in Key, Present(tb, k), NEW v \in Value,
           NEW r, r = Put(tb, k, v)
    PROVE  Assigns(tb, F, k, v, r)
<1>1. /\ Sound(r) /\ Shape(tb, r) /\ \A m \in DOMAIN tb.node : r.node[m].dead = tb.node[m].dead
      /\ Get(r, k) = v /\ \A x \in Key \ {k} : Get(r, x) = Get(tb, x)
  BY PutFacts DEF Keeps
<1>2. Size(r) = Size(tb) /\ DOMAIN r.node = DOMAIN tb.node /\ Len(r.array) = Len(tb.array)
  BY <1>1 DEF Shape, Size
<1>3. Roomy(r, F)
  BY <1>1, <1>2 DEF Roomy, Shape
<1> QED BY <1>1, <1>2, <1>3 DEF Assigns

LEMMA PlaceAssigns ==
    ASSUME NEW tb, Sound(tb), NEW F, Roomy(tb, F), NEW k \in F, ~Present(tb, k), CanPlace(tb, k), NEW v \in Value,
           NEW r, r = Put(Place(tb, k), k, v)
    PROVE  Assigns(tb, F, k, v, r)
<1>1. k \in Key /\ F \subseteq Key
  BY DEF Roomy
<1>2. PICK q : q = Place(tb, k)
  OBVIOUS
<1>3. Inserted(tb, k, q)
  BY <1>1, <1>2, PlaceFacts
<1>4. Sound(q) /\ Present(q, k) /\ \A x \in Key : Get(q, x) = Get(tb, x)
  BY <1>1, <1>3, InsertedFacts
<1>5. q.array = tb.array /\ DOMAIN q.node = DOMAIN tb.node /\ Size(q) = Size(tb)
  BY <1>3 DEF Inserted, Size
<1>6. Roomy(q, F)
  BY <1>3, <1>5 DEF Inserted, Roomy
<1>7. Assigns(q, F, k, v, r)
  BY <1>1, <1>2, <1>4, <1>6, PutAssigns
<1> QED BY <1>4, <1>5, <1>7 DEF Assigns

LEMMA ReinsertFacts ==
    ASSUME NEW tb, Sound(tb), NEW F, Roomy(tb, F), NEW k \in Key, NEW v \in Val, InArray(tb, k) \/ k \in F,
           NEW kv, kv[1] = k, kv[2] = v, NEW r, r = Reinsert(tb, kv)
    PROVE  Assigns(tb, F, k, v, r)
<1>1. v # Nil /\ v \in Value
  BY TableAssumption DEF Value
<1>2. CASE Present(tb, k)
  <2>1. r = Put(tb, k, v)
    BY <1>1, <1>2 DEF Reinsert
  <2> QED BY <1>1, <1>2, <2>1, PutAssigns
<1>3. CASE ~Present(tb, k)
  <2>1. k \in F
    BY <1>3 DEF Present
  <2>2. CanPlace(tb, k)
    BY <1>3, <2>1, RoomLeft
  <2>3. r = Put(Place(tb, k), k, v)
    BY <1>1, <1>3, <2>2 DEF Reinsert
  <2> QED BY <1>1, <1>3, <2>1, <2>2, <2>3, PlaceAssigns
<1> QED BY <1>2, <1>3

-----------------------------------------------------------------------------
(* luaH_resize                                                             *)

Lowest(tb, n, x) == x \in 1 .. Len(tb.array) /\ x <= n

Emptied(tb, n, h, e) == e = SetNodeVector(SetArrayVector(tb, n), h)

LEMMA EmptyFacts ==
    ASSUME NEW tb, Sound(tb), NEW n \in Nat, NEW h \in Nat, NEW e, Emptied(tb, n, h, e)
    PROVE  /\ Sound(e) /\ Len(e.array) = n /\ Size(e) = NodesFor(h) /\ DOMAIN e.node = 0 .. NodesFor(h) - 1
           /\ \A m \in DOMAIN e.node : e.node[m].key = Nil /\ ~e.node[m].dead
           /\ \A x \in Key : Get(e, x) = IF Lowest(tb, n, x) THEN tb.array[x] ELSE Nil
<1>1. tb \in Table /\ FieldsRight(tb)
  BY DEF Sound
<1>2. PICK l : l = Len(tb.array) /\ l \in Nat /\ \A i \in 1 .. l : tb.array[i] \in Value
  BY <1>1, TableFacts
<1>3. PICK s \in Nat : s = NodesFor(h)
  BY NodesForFacts
<1>4. PICK a : a = [i \in 1 .. n |-> IF i <= l THEN tb.array[i] ELSE Nil]
  OBVIOUS
<1>5. a \in [1 .. n -> Value] /\ \A i \in 1 .. n : a[i] = IF i <= l THEN tb.array[i] ELSE Nil
  BY <1>2, <1>4 DEF Value
<1>6. a \in Seq(Value) /\ Len(a) = n
  BY <1>5
<1>7. PICK nd : nd = [m \in 0 .. s - 1 |-> FreeNode]
  OBVIOUS
<1>8. FreeNode \in Node /\ FreeNode.key = Nil /\ ~FreeNode.dead /\ FreeNode.next = 0
  BY DEF FreeNode, Node, Value
<1>9. nd \in [0 .. s - 1 -> Node] /\ DOMAIN nd = 0 .. s - 1 /\ \A m \in 0 .. s - 1 : nd[m] = FreeNode
  BY <1>7, <1>8
<1>10. nd \in Nodes
  BY <1>9 DEF Nodes
<1>11. e = [array |-> a, node |-> nd, lastfree |-> s]
  BY <1>1, <1>2, <1>3, <1>4, <1>7 DEF Emptied, SetNodeVector, SetArrayVector, Table
<1>12. e.array = a /\ e.node = nd /\ e.lastfree = s /\ e \in Table
  BY <1>6, <1>10, <1>11, TableMade
<1>13. Size(e) = s
  <2>1. Cardinality(0 .. s - 1) = s
    BY FS_Interval
  <2> QED BY <1>9, <1>12, <2>1 DEF Size
<1>14. FieldsRight(e)
  <2>1. \A i \in 1 .. n : a[i] # Nil => i \in Key
    BY <1>1, <1>2, <1>5 DEF FieldsRight
  <2> QED BY <1>6, <1>8, <1>9, <1>12, <1>13, <2>1 DEF FieldsRight
<1>15. PICK chain, order : chain = [m \in DOMAIN nd |-> m] /\ order = [m \in DOMAIN nd |-> 0]
  OBVIOUS
<1>16. InOrder(nd, chain, order)
  BY <1>8, <1>9, <1>15 DEF InOrder
<1>17. KeysPlaced(e, chain, order)
  BY <1>8, <1>9, <1>12, <1>15 DEF KeysPlaced, Unused
<1>18. Sound(e)
  BY <1>12, <1>14, <1>16, <1>17 DEF Sound, Ordered
<1>19. \A m \in DOMAIN e.node : e.node[m].key = Nil /\ ~e.node[m].dead
  BY <1>8, <1>9, <1>12
<1>20. ASSUME NEW x \in Key PROVE Get(e, x) = IF Lowest(tb, n, x) THEN tb.array[x] ELSE Nil
  <2>1. InArray(e, x) <=> x \in 1 .. n
    BY <1>6, <1>12 DEF InArray
  <2>2. CASE x \in 1 .. n
    BY <1>2, <1>5, <1>12, <1>18, <2>1, <2>2, GetFinds DEF Lowest
  <2>3. CASE x \notin 1 .. n
    <3>1. \A m : ~Live(e, x, m)
      BY <1>19, TableAssumption DEF Live
    <3>2. Get(e, x) = Nil
      BY <1>18, <2>1, <2>3, <3>1, GetFinds
    <3>3. ~Lowest(tb, n, x)
      BY <1>2, <2>3 DEF Lowest
    <3> QED BY <3>2, <3>3
  <2> QED BY <2>2, <2>3
<1> QED BY <1>3, <1>6, <1>9, <1>12, <1>13, <1>18, <1>19, <1>20

LEMMA NewTableSound ==
    Sound(NewTable) /\ Len(NewTable.array) = 0 /\ Size(NewTable) = 0 /\ \A x \in Key : Get(NewTable, x) = Nil
<1>1. PICK e : e = NewTable
  OBVIOUS
<1>2. PICK nd : nd = e.node
  OBVIOUS
<1>3. nd = << >> /\ DOMAIN nd = {} /\ 0 .. 0 - 1 = {}
  BY <1>1, <1>2 DEF NewTable
<1>4. nd \in [0 .. 0 - 1 -> Node]
  BY <1>3
<1>5. nd \in Nodes
  BY <1>4 DEF Nodes
<1>6. e = [array |-> << >>, node |-> nd, lastfree |-> 0]
  BY <1>1, <1>3 DEF NewTable
<1>7. e.array = << >> /\ e.node = nd /\ e.lastfree = 0 /\ e \in Table
  <2>1. << >> \in Seq(Value)
    OBVIOUS
  <2>2. e.array = << >> /\ e.node = nd /\ e.lastfree = 0
    BY <1>6
  <2> QED BY <1>5, <1>6, <2>1, <2>2 DEF Table
<1>8. Size(e) = 0 /\ Len(e.array) = 0
  BY <1>3, <1>7, FS_EmptySet DEF Size
<1>9. PICK chain, order : chain = [m \in DOMAIN nd |-> m] /\ order = [m \in DOMAIN nd |-> 0]
  OBVIOUS
<1>10. InOrder(nd, chain, order) /\ KeysPlaced(e, chain, order)
  BY <1>3, <1>7, <1>9 DEF InOrder, KeysPlaced
<1>11. FieldsRight(e)
  BY <1>3, <1>7, <1>8 DEF FieldsRight
<1>12. Sound(e)
  BY <1>7, <1>10, <1>11 DEF Sound, Ordered
<1>13. \A x \in Key : ~InArray(e, x) /\ \A m : ~Live(e, x, m)
  BY <1>3, <1>7, <1>8 DEF InArray, Live
<1> QED BY <1>1, <1>8, <1>12, <1>13, GetFinds

(* The fields to move: every field that is not in the part of the array    *)
(* that stays, each one once.                                              *)
Fields(mv, x, v, j) == \E i \in 1 .. j : mv[i][1] = x /\ mv[i][2] = v
MovesRight(tb, n, mv) ==
    /\ Len(mv) \in Nat
    /\ \A i \in 1 .. Len(mv) : mv[i][2] \in Value /\ (mv[i][2] # Nil => mv[i][1] \in Key)
    /\ \A i, j \in 1 .. Len(mv) : mv[i][2] # Nil /\ mv[j][2] # Nil /\ mv[i][1] = mv[j][1] => i = j
    /\ \A x \in Key, v \in Val : Fields(mv, x, v, Len(mv)) <=> Get(tb, x) = v /\ ~Lowest(tb, n, x)

LEMMA MovingFacts ==
    ASSUME NEW tb, Sound(tb), NEW n \in Nat, NEW mv, mv = Moving(tb, n)
    PROVE  MovesRight(tb, n, mv)
<1>1. tb \in Table /\ FieldsRight(tb)
  BY DEF Sound
<1>2. PICK chain, order : KeysPlaced(tb, chain, order) /\ InOrder(tb.node, chain, order)
  BY DEF Sound, Ordered
<1>3. PICK l : l = Len(tb.array) /\ l \in Nat /\ \A i \in 1 .. l : tb.array[i] \in Value
  BY <1>1, TableFacts
<1>4. PICK z : z = Size(tb) /\ z \in Nat /\ DOMAIN tb.node = 0 .. z - 1
  BY <1>1, TableFacts
<1>5. PICK s : s = IF n < l THEN l - n ELSE 0
  OBVIOUS
<1>6. s \in Nat /\ s + z \in Nat
  BY <1>3, <1>4, <1>5
<1>7. mv = [i \in 1 .. s + z |->
          IF i <= s THEN <<n + i, tb.array[n + i]>>
          ELSE <<tb.node[s + z - i].key, tb.node[s + z - i].val>>]
  BY <1>3, <1>4, <1>5 DEF Moving
<1>8. Len(mv) = s + z
  <2>1. PICK S : S = {mv[i] : i \in 1 .. s + z}
    OBVIOUS
  <2>2. mv \in [1 .. s + z -> S]
    BY <1>7, <2>1
  <2> QED BY <1>6, <2>2
<1>9. \A i \in 1 .. s : mv[i][1] = n + i /\ mv[i][2] = tb.array[n + i] /\ n + i \in 1 .. l /\ i \in 1 .. s + z
  BY <1>3, <1>4, <1>5, <1>6, <1>7
<1>10. \A i \in s + 1 .. s + z : /\ mv[i][1] = tb.node[s + z - i].key /\ mv[i][2] = tb.node[s + z - i].val
                                 /\ s + z - i \in DOMAIN tb.node /\ i \in 1 .. s + z
  BY <1>4, <1>6, <1>7
<1>11. \A m \in DOMAIN tb.node : tb.node[m].val \in Value /\ tb.node[m].key \in Key \cup {Nil}
  BY <1>1, NodeTyped
<1>12. \A m \in DOMAIN tb.node : tb.node[m].val # Nil =>
          ~tb.node[m].dead /\ tb.node[m].key \in Key /\ tb.node[m].key # Nil /\ tb.node[m].key \notin 1 .. l
  <2>1. ASSUME NEW m \in DOMAIN tb.node, tb.node[m].val # Nil
        PROVE  ~tb.node[m].dead /\ tb.node[m].key \in Key /\ tb.node[m].key # Nil /\ tb.node[m].key \notin 1 .. l
    <3>1. ~tb.node[m].dead
      BY <1>1, <2>1 DEF FieldsRight
    <3>2. tb.node[m].key # Nil
      BY <1>2, <2>1 DEF KeysPlaced, Unused, FreeNode
    <3> QED BY <1>1, <1>3, <1>11, <3>1, <3>2 DEF FieldsRight, InArray
  <2> QED BY <2>1
<1>13. ASSUME NEW i \in 1 .. s + z
       PROVE  mv[i][2] \in Value /\ (mv[i][2] # Nil => mv[i][1] \in Key)
  <2>1. CASE i <= s
    <3>1. i \in 1 .. s
      BY <1>6, <2>1
    <3> QED BY <1>1, <1>3, <1>9, <3>1 DEF FieldsRight
  <2>2. CASE ~(i <= s)
    <3>1. i \in s + 1 .. s + z
      BY <1>6, <2>2
    <3> QED BY <1>10, <1>11, <1>12, <3>1
  <2> QED BY <2>1, <2>2
<1>14. ASSUME NEW i \in 1 .. s + z, NEW j \in 1 .. s + z, mv[i][2] # Nil, mv[j][2] # Nil, mv[i][1] = mv[j][1]
       PROVE  i = j
  <2>1. CASE i \in 1 .. s /\ j \in 1 .. s
    BY <1>9, <1>14, <2>1
  <2>2. CASE i \in s + 1 .. s + z /\ j \in s + 1 .. s + z
    <3>1. PICK m, p \in DOMAIN tb.node : m = s + z - i /\ p = s + z - j
      BY <1>10, <2>2
    <3>2. tb.node[m].val # Nil /\ tb.node[p].val # Nil /\ tb.node[m].key = tb.node[p].key
      BY <1>10, <1>14, <2>2, <3>1
    <3>3. m = p
      BY <1>2, <1>12, <3>2 DEF KeysPlaced
    <3>4. PICK w \in Int : w = s + z
      BY <1>6
    <3>5. i \in Int /\ j \in Int
      BY <1>4, <1>6
    <3>6. w - i = w - j
      BY <1>4, <1>6, <3>1, <3>3, <3>4, <3>5
    <3> QED BY <3>5, <3>6
  <2>3. CASE i \in 1 .. s /\ j \in s + 1 .. s + z
    BY <1>9, <1>10, <1>12, <1>14, <2>3
  <2>4. CASE i \in s + 1 .. s + z /\ j \in 1 .. s
    BY <1>9, <1>10, <1>12, <1>14, <2>4
  <2> QED BY <1>6, <2>1, <2>2, <2>3, <2>4
<1>15. ASSUME NEW x \in Key, NEW v \in Val
       PROVE  Fields(mv, x, v, s + z) <=> Get(tb, x) = v /\ ~Lowest(tb, n, x)
  <2>0. v # Nil
    BY TableAssumption
  <2>1. ASSUME Fields(mv, x, v, s + z) PROVE Get(tb, x) = v /\ ~Lowest(tb, n, x)
    <3>1. PICK i \in 1 .. s + z : mv[i][1] = x /\ mv[i][2] = v
      BY <2>1 DEF Fields
    <3>2. CASE i \in 1 .. s
      <4>1. x = n + i /\ x \in 1 .. l /\ tb.array[x] = v
        BY <1>9, <3>1, <3>2
      <4>2. InArray(tb, x) /\ ~(x <= n)
        BY <1>3, <1>6, <3>2, <4>1 DEF InArray
      <4> QED BY <4>1, <4>2, GetFinds DEF Lowest
    <3>3. CASE i \in s + 1 .. s + z
      <4>1. PICK m \in DOMAIN tb.node : tb.node[m].key = x /\ tb.node[m].val = v
        BY <1>10, <3>1, <3>3
      <4>2. Live(tb, x, m) /\ x \notin 1 .. l
        BY <1>12, <2>0, <4>1 DEF Live
      <4> QED BY <1>3, <4>1, <4>2, GetFinds DEF InArray, Lowest
    <3> QED BY <1>6, <3>2, <3>3
  <2>2. ASSUME Get(tb, x) = v, ~Lowest(tb, n, x) PROVE Fields(mv, x, v, s + z)
    <3>1. CASE InArray(tb, x)
      <4>1. x \in 1 .. l /\ tb.array[x] = v /\ x > n
        BY <1>3, <2>2, <3>1, GetFinds DEF InArray, Lowest
      <4>2. x - n \in 1 .. s /\ n + (x - n) = x
        BY <1>3, <1>5, <4>1
      <4>3. mv[x - n][1] = x /\ mv[x - n][2] = v /\ x - n \in 1 .. s + z
        BY <1>9, <4>1, <4>2
      <4> QED BY <4>3 DEF Fields
    <3>2. CASE ~InArray(tb, x)
      <4>1. Holds(tb, x, v)
        BY <2>2, <3>2, GetHolds
      <4>2. PICK m \in DOMAIN tb.node : tb.node[m].key = x /\ tb.node[m].val = v
        BY <4>1 DEF Holds
      <4>3. m \in 0 .. z - 1
        BY <1>4
      <4>4. PICK i \in s + 1 .. s + z : s + z - i = m
        <5>1. s + z - m \in s + 1 .. s + z /\ s + z - (s + z - m) = m
          BY <1>4, <1>6, <4>3
        <5> QED BY <5>1
      <4>5. mv[i][1] = x /\ mv[i][2] = v /\ i \in 1 .. s + z
        BY <1>10, <4>2, <4>4
      <4> QED BY <4>5 DEF Fields
    <3> QED BY <3>1, <3>2
  <2> QED BY <2>1, <2>2
<1> QED BY <1>6, <1>8, <1>13, <1>14, <1>15 DEF MovesRight

Puts(f, e, mv) == f = [i \in 0 .. Len(mv) |-> IF i = 0 THEN e ELSE Reinsert(f[i - 1], mv[i])]
Putting(e, mv) == CHOOSE f : Puts(f, e, mv)
PutsEach(f, e, mv) == f[0] = e /\ \A i \in 1 .. Len(mv) : f[i] = Reinsert(f[i - 1], mv[i])

(* The tables on the way: all of one shape.                                *)
Midway(F, n, D) == {x \in Table : Sound(x) /\ Roomy(x, F) /\ Len(x.array) = n /\ DOMAIN x.node = D}
ForNodes(mv, F, n) == \A i \in 1 .. Len(mv) : mv[i][2] # Nil => mv[i][1] \in 1 .. n \/ mv[i][1] \in F

Brings(mv, i, x, r) ==
    /\ mv[i][2] = Nil => r = x
    /\ mv[i][2] # Nil => Get(r, mv[i][1]) = mv[i][2] /\ \A y \in Key \ {mv[i][1]} : Get(r, y) = Get(x, y)

LEMMA ReinsertStep ==
    ASSUME NEW tb, NEW n \in Nat, NEW mv, MovesRight(tb, n, mv), NEW F, ForNodes(mv, F, n), NEW D,
           NEW i \in 1 .. Len(mv), NEW x \in Midway(F, n, D), NEW r, r = Reinsert(x, mv[i])
    PROVE  r \in Midway(F, n, D) /\ Brings(mv, i, x, r)
<1>1. x \in Table /\ Sound(x) /\ Roomy(x, F) /\ Len(x.array) = n /\ DOMAIN x.node = D
  BY DEF Midway
<1>2. CASE mv[i][2] = Nil
  BY <1>2 DEF Reinsert, Brings
<1>3. CASE mv[i][2] # Nil
  <2>1. PICK k, v : k = mv[i][1] /\ v = mv[i][2]
    OBVIOUS
  <2>2. k \in Key /\ v \in Val /\ (k \in 1 .. n \/ k \in F)
    BY <1>3, <2>1 DEF MovesRight, ForNodes, Value
  <2>3. InArray(x, k) \/ k \in F
    BY <1>1, <2>2 DEF InArray
  <2>4. Assigns(x, F, k, v, r)
    BY <1>1, <2>1, <2>2, <2>3, ReinsertFacts
  <2>5. r \in Midway(F, n, D)
    BY <1>1, <2>4 DEF Assigns, Midway, Sound
  <2> QED BY <1>3, <2>1, <2>4, <2>5 DEF Assigns, Brings
<1> QED BY <1>2, <1>3

LEMMA PuttingFound ==
    ASSUME NEW tb, NEW n \in Nat, NEW mv, MovesRight(tb, n, mv), NEW F, ForNodes(mv, F, n), NEW D,
           NEW e \in Midway(F, n, D)
    PROVE  \E f : f = Putting(e, mv) /\ PutsEach(f, e, mv)
<1>1. PICK N \in Nat : N = Len(mv)
  BY DEF MovesRight
<1>2. PICK S : S = Midway(F, n, D)
  OBVIOUS
<1>3. PICK step : step = [p \in (1 .. N) \X S |-> Reinsert(p[2], mv[p[1]])]
  OBVIOUS
<1>4. step \in [(1 .. N) \X S -> S]
  <2>1. ASSUME NEW p \in (1 .. N) \X S PROVE Reinsert(p[2], mv[p[1]]) \in S
    <3>1. PICK i \in 1 .. Len(mv), x \in Midway(F, n, D) : i = p[1] /\ x = p[2]
      BY <1>1, <1>2
    <3>2. PICK r : r = Reinsert(x, mv[i])
      OBVIOUS
    <3>3. r \in Midway(F, n, D)
      BY <3>2, ReinsertStep
    <3> QED BY <1>2, <3>1, <3>2, <3>3
  <2> QED BY <1>3, <2>1
<1>5. PICK g : Iterates(g, e, step, N, S)
  BY <1>2, <1>4, RecursionExists DEF Steps
<1>6. DOMAIN g = 0 .. N /\ g[0] = e /\ \A i \in 1 .. N : g[i] = Reinsert(g[i - 1], mv[i])
  <2>1. ASSUME NEW i \in 1 .. N PROVE g[i] = Reinsert(g[i - 1], mv[i])
    <3>1. i - 1 \in 0 .. N /\ g[i - 1] \in S /\ g[i] = step[<<i, g[i - 1]>>]
      BY <1>5 DEF Iterates
    <3> QED BY <1>3, <3>1
  <2> QED BY <1>5, <2>1 DEF Iterates
<1>7. Puts(g, e, mv)
  <2>1. g = [i \in 0 .. N |-> g[i]]
    BY <1>5 DEF Iterates
  <2>2. \A i \in 0 .. N : g[i] = IF i = 0 THEN e ELSE Reinsert(g[i - 1], mv[i])
    <3>1. \A i \in 0 .. N : i # 0 => i \in 1 .. N
      OBVIOUS
    <3> QED BY <1>6, <3>1
  <2> QED BY <1>1, <2>1, <2>2 DEF Puts
<1>8. PICK f : f = Putting(e, mv)
  OBVIOUS
<1>9. Puts(f, e, mv)
  BY <1>7, <1>8 DEF Putting
<1>10. \A i \in 0 .. N : f[i] = IF i = 0 THEN e ELSE Reinsert(f[i - 1], mv[i])
  BY <1>1, <1>9, Zenon DEF Puts
<1>11. \A i \in 1 .. N : i \in 0 .. N /\ i # 0 /\ 0 \in 0 .. N
  OBVIOUS
<1>12. 0 \in 0 .. N
  OBVIOUS
<1> QED BY <1>1, <1>8, <1>10, <1>11, <1>12 DEF PutsEach

(* What has been put so far.                                               *)
HasFields(e, mv, j, x) ==
    \A y \in Key, v \in Val : Get(x, y) = v <=> Get(e, y) = v \/ Fields(mv, y, v, j)

LEMMA FieldsStep ==
    ASSUME NEW tb, NEW n \in Nat, NEW mv, MovesRight(tb, n, mv), NEW j \in 0 .. Len(mv) - 1,
           NEW e, \A y \in Key, v \in Val : Fields(mv, y, v, Len(mv)) => Get(e, y) = Nil,
           NEW x, HasFields(e, mv, j, x),
           NEW r, Brings(mv, j + 1, x, r)
    PROVE  HasFields(e, mv, j + 1, r)
<1>1. PICK N \in Nat : N = Len(mv)
  BY DEF MovesRight
<1>2. Nil \notin Val
  BY TableAssumption
<1>3. j \in Nat /\ j + 1 \in 1 .. N /\ \A i : i \in 1 .. j + 1 <=> i \in 1 .. j \/ i = j + 1
  BY <1>1
<1>4. \A i \in 1 .. j + 1 : i \in 1 .. N
  BY <1>1, <1>3
<1>5. \A y, v : Fields(mv, y, v, j + 1) <=> Fields(mv, y, v, j) \/ (mv[j + 1][1] = y /\ mv[j + 1][2] = v)
  BY <1>3 DEF Fields
<1>6. SUFFICES ASSUME NEW y \in Key, NEW v \in Val
               PROVE  Get(r, y) = v <=> Get(e, y) = v \/ Fields(mv, y, v, j + 1)
  BY DEF HasFields
<1>7. Get(x, y) = v <=> Get(e, y) = v \/ Fields(mv, y, v, j)
  BY DEF HasFields
<1>8. CASE mv[j + 1][2] = Nil \/ mv[j + 1][1] # y
  BY <1>2, <1>5, <1>7, <1>8 DEF Brings
<1>9. CASE mv[j + 1][2] # Nil /\ mv[j + 1][1] = y
  <2>1. mv[j + 1][2] \in Val
    BY <1>1, <1>3, <1>9 DEF MovesRight, Value
  <2>2. Fields(mv, y, mv[j + 1][2], Len(mv))
    BY <1>1, <1>3, <1>9 DEF Fields
  <2>3. Get(e, y) = Nil
    BY <2>1, <2>2
  <2>4. ~Fields(mv, y, v, j)
    <3>1. ASSUME NEW i \in 1 .. j, mv[i][1] = y, mv[i][2] = v PROVE FALSE
      <4>1. i \in 1 .. N /\ i # j + 1 /\ mv[i][2] # Nil
        BY <1>2, <1>3, <1>4, <3>1
      <4> QED BY <1>1, <1>3, <1>9, <3>1, <4>1 DEF MovesRight
    <3> QED BY <3>1 DEF Fields
  <2> QED BY <1>2, <1>5, <1>9, <2>3, <2>4 DEF Brings
<1> QED BY <1>8, <1>9

(* F has room in h nodes for all the fields outside the array.             *)
Suffices(tb, n, h, F) ==
    /\ F \subseteq Key /\ IsFiniteSet(F) /\ Cardinality(F) <= h
    /\ \A x \in Key : Get(tb, x) # Nil /\ x \notin 1 .. n => x \in F

LEMMA ResizeFacts ==
    ASSUME NEW tb, Sound(tb), NEW n \in Nat, NEW h \in Nat, NEW F, Suffices(tb, n, h, F),
           NEW r, r = Resize(tb, n, h)
    PROVE  /\ Sound(r) /\ Roomy(r, F)
           /\ Len(r.array) = n /\ Size(r) = NodesFor(h)
           /\ \A x \in Key : Get(r, x) = Get(tb, x)
<1>1. PICK e : Emptied(tb, n, h, e)
  BY DEF Emptied
<1>2. PICK mv : mv = Moving(tb, n)
  OBVIOUS
<1>3. PICK D : D = DOMAIN e.node
  OBVIOUS
<1>4. /\ Sound(e) /\ Len(e.array) = n /\ Size(e) = NodesFor(h)
      /\ \A m \in DOMAIN e.node : e.node[m].key = Nil /\ ~e.node[m].dead
      /\ \A x \in Key : Get(e, x) = IF Lowest(tb, n, x) THEN tb.array[x] ELSE Nil
  BY <1>1, EmptyFacts
<1>5. MovesRight(tb, n, mv)
  BY <1>2, MovingFacts
<1>6. PICK N \in Nat : N = Len(mv)
  BY <1>5 DEF MovesRight
<1>7. Roomy(e, F)
  <2>1. Cardinality(F) \in Nat /\ Cardinality(F) <= h /\ NodesFor(h) \in Nat /\ h <= NodesFor(h)
    BY FS_CardinalityType, NodesForFacts DEF Suffices
  <2>2. Cardinality(F) <= Size(e)
    BY <1>4, <2>1
  <2> QED BY <1>4, <2>2 DEF Roomy, Suffices
<1>8. e \in Midway(F, n, D)
  BY <1>3, <1>4, <1>7 DEF Midway, Sound
<1>9. \A y \in Key, v \in Val : Fields(mv, y, v, Len(mv)) => Get(tb, y) = v /\ ~Lowest(tb, n, y)
  BY <1>5 DEF MovesRight
<1>10. ForNodes(mv, F, n)
  <2>1. ASSUME NEW i \in 1 .. N, mv[i][2] # Nil, mv[i][1] \notin 1 .. n PROVE mv[i][1] \in F
    <3>1. mv[i][1] \in Key /\ mv[i][2] \in Val
      BY <1>5, <1>6, <2>1 DEF MovesRight, Value
    <3>2. Fields(mv, mv[i][1], mv[i][2], N)
      BY DEF Fields
    <3>3. Get(tb, mv[i][1]) = mv[i][2]
      BY <1>6, <1>9, <3>1, <3>2
    <3> QED BY <2>1, <3>1, <3>3 DEF Suffices
  <2> QED BY <1>6, <2>1 DEF ForNodes
<1>11. \A y \in Key, v \in Val : Fields(mv, y, v, Len(mv)) => Get(e, y) = Nil
  BY <1>4, <1>9
<1>12. PICK f : f = Putting(e, mv) /\ PutsEach(f, e, mv)
  BY <1>5, <1>8, <1>10, PuttingFound
<1>13. f[0] = e /\ \A i \in 1 .. N : f[i] = Reinsert(f[i - 1], mv[i])
  BY <1>6, <1>12 DEF PutsEach
<1>14. r = f[N]
  BY <1>1, <1>2, <1>6, <1>12 DEF Resize, Putting, Puts, Emptied
<1> DEFINE X == {j \in 0 .. N : f[j] \in Midway(F, n, D) /\ HasFields(e, mv, j, f[j])}
<1>15. 0 \in X
  <2>1. \A y, v : ~Fields(mv, y, v, 0)
    BY DEF Fields
  <2> QED BY <1>8, <1>13, <2>1 DEF HasFields
<1>16. ASSUME NEW j \in 0 .. N - 1, j \in X PROVE j + 1 \in X
  <2>1. j + 1 \in 1 .. Len(mv) /\ j + 1 \in 0 .. N /\ (j + 1) - 1 = j /\ j \in 0 .. Len(mv) - 1
    BY <1>6
  <2>2. f[j] \in Midway(F, n, D) /\ HasFields(e, mv, j, f[j])
    BY <1>16
  <2>3. PICK x, g : x = f[j] /\ g = f[j + 1] /\ g = Reinsert(x, mv[j + 1])
    BY <1>6, <1>13, <2>1
  <2>4. PICK i \in 1 .. Len(mv) : i = j + 1
    BY <2>1
  <2>6. x \in Midway(F, n, D) /\ g = Reinsert(x, mv[i])
    BY <2>2, <2>3, <2>4
  <2>7. g \in Midway(F, n, D) /\ Brings(mv, i, x, g)
    BY <1>5, <1>10, <2>6, ReinsertStep
  <2>5. HasFields(e, mv, j + 1, g)
    BY <1>5, <1>11, <2>1, <2>2, <2>3, <2>4, <2>7, FieldsStep
  <2> QED BY <2>1, <2>3, <2>5, <2>7
<1> HIDE DEF X
<1>17. N \in X
  BY <1>15, <1>16, UpTo
<1>18. r \in Midway(F, n, D) /\ HasFields(e, mv, N, r)
  BY <1>14, <1>17 DEF X
<1>19. Sound(r) /\ Roomy(r, F) /\ Len(r.array) = n /\ Size(r) = NodesFor(h)
  BY <1>3, <1>4, <1>18 DEF Midway, Size
<1>20. ASSUME NEW x \in Key PROVE Get(r, x) = Get(tb, x)
  <2>1. Get(r, x) \in Val \cup {Nil} /\ Get(tb, x) \in Val \cup {Nil}
    BY <1>19, GetFinds DEF Value
  <2>2. Lowest(tb, n, x) => Get(tb, x) = tb.array[x]
    BY GetFinds DEF Lowest, InArray
  <2>3. ASSUME NEW v \in Val PROVE Get(r, x) = v <=> Get(tb, x) = v
    <3>1. Get(r, x) = v <=> Get(e, x) = v \/ Fields(mv, x, v, N)
      BY <1>18 DEF HasFields
    <3>2. Fields(mv, x, v, N) <=> Get(tb, x) = v /\ ~Lowest(tb, n, x)
      BY <1>5, <1>6 DEF MovesRight
    <3>3. v # Nil
      BY TableAssumption
    <3> QED BY <1>4, <2>2, <3>1, <3>2, <3>3
  <2> QED BY <2>1, <2>3
<1> QED BY <1>19, <1>20

-----------------------------------------------------------------------------
(* computesizes                                                            *)

Count(S, n) == Cardinality({k \in S : k <= n})
Totals == [a : Nat, na : Nat, optimal : Nat]
Zero == [a |-> 0, na |-> 0, optimal |-> 0]
Body(S, i, s) ==
    LET a == s.a + Cardinality(Slice(S, i))
    IN IF 2 * Cardinality(S) > TwoTo[i] /\ Slice(S, i) # {}
       THEN IF 2 * a > TwoTo[i] THEN [a |-> a, na |-> a, optimal |-> TwoTo[i]]
            ELSE [s EXCEPT !.a = a]
       ELSE s
Last == CeilLog2(2 * MaxSize + 1)
Loops(f, S) == f = [i \in 0 .. Last |-> Body(S, i, IF i = 0 THEN Zero ELSE f[i - 1])]
LoopOf(S) == CHOOSE f : Loops(f, S)

MoreThanHalf(S, n) == 2 * Count(S, n) > n
Indices(S) == IsFiniteSet(S) /\ S \subseteq 1 .. MaxSize

LEMMA CountFacts ==
    ASSUME NEW S, Indices(S), NEW n \in Nat
    PROVE  /\ Count(S, n) \in Nat /\ Count(S, n) <= Cardinality(S) /\ Cardinality(S) \in Nat
           /\ Count(S, n) <= n
<1>1. {k \in S : k <= n} \in SUBSET S /\ IsFiniteSet(S)
  BY DEF Indices
<1>2. IsFiniteSet({k \in S : k <= n}) /\ Count(S, n) <= Cardinality(S)
  BY <1>1, FS_Subset DEF Count
<1>3. Count(S, n) \in Nat /\ Cardinality(S) \in Nat
  BY <1>1, <1>2, FS_CardinalityType DEF Count
<1>4. IsFiniteSet(1 .. n) /\ Cardinality(1 .. n) = n
  <2>1. 1 \in Int /\ n \in Int /\ (IF 1 > n THEN 0 ELSE n - 1 + 1) = n
    OBVIOUS
  <2> QED BY <2>1, FS_Interval
<1>5. {k \in S : k <= n} \in SUBSET (1 .. n)
  <2>1. MaxSize \in Nat
    BY TableAssumption
  <2>2. \A k \in S : k \in 1 .. MaxSize
    BY DEF Indices
  <2>3. \A k \in S : k <= n => k \in 1 .. n
    BY <2>1, <2>2
  <2> QED BY <2>3
<1>6. Count(S, n) <= n
  BY <1>4, <1>5, FS_Subset DEF Count
<1> QED BY <1>2, <1>3, <1>6

LEMMA SliceFacts ==
    ASSUME NEW S, Indices(S), NEW i \in Nat
    PROVE  /\ Cardinality(Slice(S, i)) \in Nat
           /\ i = 0 => Count(S, TwoTo[i]) = Cardinality(Slice(S, i))
           /\ i # 0 => Count(S, TwoTo[i]) = Count(S, TwoTo[i - 1]) + Cardinality(Slice(S, i))
           /\ Slice(S, i) = {} => Cardinality(Slice(S, i)) = 0
<1>1. IsFiniteSet(S) /\ S \subseteq Nat
  BY TableAssumption DEF Indices
<1>2. Slice(S, i) \in SUBSET S
  BY DEF Slice
<1>3. IsFiniteSet(Slice(S, i)) /\ Cardinality(Slice(S, i)) \in Nat
  BY <1>1, <1>2, FS_Subset, FS_CardinalityType
<1>4. i = 0 => {k \in S : k <= TwoTo[i]} = Slice(S, i)
  BY DEF Slice
<1>5. ASSUME i # 0 PROVE Count(S, TwoTo[i]) = Count(S, TwoTo[i - 1]) + Cardinality(Slice(S, i))
  <2>1. PICK m, n \in Nat : m = TwoTo[i - 1] /\ n = TwoTo[i] /\ m <= n
    <3>1. i - 1 \in Nat /\ i - 1 < i
      BY <1>5
    <3>2. TwoTo[i - 1] \in Nat /\ TwoTo[i] \in Nat /\ 2 * TwoTo[i - 1] <= TwoTo[i]
      BY <3>1, PowersGrow
    <3> QED BY <3>2
  <2>2. PICK A, B : A = {k \in S : k <= m} /\ B = Slice(S, i)
    OBVIOUS
  <2>3. {k \in S : k <= n} = A \cup B /\ A \cap B = {}
    <3>1. B = {k \in S : m < k /\ k <= n}
      BY <1>5, <2>1, <2>2 DEF Slice
    <3>2. \A k \in S : k <= n <=> k \in A \/ k \in B
      BY <1>1, <2>1, <2>2, <3>1
    <3>3. \A k \in S : ~(k \in A /\ k \in B)
      BY <1>1, <2>1, <2>2, <3>1
    <3> QED BY <2>2, <3>1, <3>2, <3>3
  <2>4. A \in SUBSET S
    BY <2>2
  <2>5. IsFiniteSet(A) /\ Cardinality(A) \in Nat
    BY <1>1, <2>4, FS_Subset, FS_CardinalityType
  <2>6. IsFiniteSet(B) /\ Cardinality(B) \in Nat
    BY <1>3, <2>2
  <2>7. Cardinality(A \cup B) = Cardinality(A) + Cardinality(B) - Cardinality(A \cap B)
    BY <2>5, <2>6, FS_Union
  <2>8. Cardinality(A \cap B) = 0
    BY <2>3, FS_EmptySet
  <2>9. Cardinality(A \cup B) = Cardinality(A) + Cardinality(B)
    BY <2>5, <2>6, <2>7, <2>8
  <2> QED BY <2>1, <2>2, <2>3, <2>9 DEF Count
<1> QED BY <1>3, <1>4, <1>5, FS_EmptySet DEF Count

(* The loop before and after slice i.                                      *)
Best(S, i, s) ==
    /\ s \in Totals
    /\ s.na = Count(S, s.optimal) /\ s.optimal <= MaxSize
    /\ s.optimal = 0 \/ \E j \in 0 .. i : s.optimal = TwoTo[j] /\ MoreThanHalf(S, TwoTo[j])
    /\ \A j \in 0 .. i : MoreThanHalf(S, TwoTo[j]) => TwoTo[j] <= s.optimal
Before(S, i, s) ==
    /\ Best(S, i - 1, s)
    /\ 2 * Cardinality(S) > TwoTo[i] => s.a = IF i = 0 THEN 0 ELSE Count(S, TwoTo[i - 1])
After(S, i, s) ==
    /\ Best(S, i, s)
    /\ 2 * Cardinality(S) > TwoTo[i] => s.a = Count(S, TwoTo[i])

LEMMA BestStays ==
    ASSUME NEW S, NEW i \in Nat, NEW s, Best(S, i - 1, s), ~MoreThanHalf(S, TwoTo[i]),
           NEW r \in Totals, r.na = s.na, r.optimal = s.optimal
    PROVE  Best(S, i, r)
<1>1. \A j : j \in 0 .. i <=> j \in 0 .. i - 1 \/ j = i
  OBVIOUS
<1> QED BY <1>1 DEF Best

LEMMA SliceBound ==
    ASSUME NEW S, Indices(S), NEW i \in Nat, Slice(S, i) # {}
    PROVE  TwoTo[i] <= MaxSize
<1>1. PICK n \in 0 .. MaxSize : MaxSize = TwoTo[n]
  BY TableAssumption
<1>2. n \in Nat /\ MaxSize \in Nat
  BY <1>1, TableAssumption
<1>3. PICK k \in Slice(S, i) : TRUE
  OBVIOUS
<1>4. k \in 1 .. MaxSize /\ (i = 0 \/ TwoTo[i - 1] < k)
  BY <1>3 DEF Slice, Indices
<1>5. CASE i = 0
  <2>1. TwoTo[0] = 1
    BY TwoToDoubles
  <2> QED BY <1>2, <1>4, <1>5, <2>1
<1>6. CASE i # 0 /\ n < i
  <2>1. TwoTo[i - 1] < TwoTo[n] /\ i - 1 \in Nat
    <3>1. i - 1 \in Nat /\ TwoTo[i - 1] \in Nat
      BY <1>6, PowersGrow
    <3> QED BY <1>1, <1>2, <1>4, <1>6, <3>1
  <2>2. n = i - 1 \/ n < i - 1
    BY <1>2, <1>6
  <2>3. TwoTo[n] <= TwoTo[i - 1] /\ TwoTo[n] \in Nat /\ TwoTo[i - 1] \in Nat
    <3>1. n < i - 1 => 2 * TwoTo[n] <= TwoTo[i - 1]
      BY <1>2, <2>1, PowersGrow
    <3>2. TwoTo[n] \in Nat /\ TwoTo[i - 1] \in Nat
      BY <1>2, <2>1, PowersGrow
    <3> QED BY <2>2, <3>1, <3>2
  <2> QED BY <2>1, <2>3
<1>7. CASE i <= n
  <2>1. i < n => 2 * TwoTo[i] <= TwoTo[n]
    BY <1>2, PowersGrow
  <2>2. TwoTo[n] \in Nat /\ TwoTo[i] \in Nat
    BY <1>2, PowersGrow
  <2> QED BY <1>1, <1>2, <1>7, <2>1, <2>2
<1> QED BY <1>2, <1>5, <1>6, <1>7

LEMMA BodyFacts ==
    ASSUME NEW S, Indices(S), NEW i \in Nat, NEW s, Before(S, i, s), NEW r, r = Body(S, i, s)
    PROVE  After(S, i, r)
<1>1. PICK w, c, d, z : w = TwoTo[i] /\ c = Count(S, w) /\ d = Cardinality(Slice(S, i)) /\ z = Cardinality(S)
  OBVIOUS
<1>2. w \in Nat /\ w > 0
  BY <1>1, PowersGrow
<1>3. c \in Nat /\ d \in Nat /\ z \in Nat /\ c <= z
  BY <1>1, <1>2, CountFacts, SliceFacts
<1>4. s \in Totals /\ s.a \in Nat /\ s.na \in Nat /\ s.optimal \in Nat /\ Best(S, i - 1, s)
  BY DEF Before, Best, Totals
<1>5. 2 * z > w => s.a + d = c
  <2>1. CASE i = 0
    BY <1>1, <1>3, <2>1, SliceFacts DEF Before
  <2>2. CASE i # 0
    BY <1>1, <2>2, SliceFacts DEF Before
  <2> QED BY <2>1, <2>2
<1>6. MoreThanHalf(S, w) <=> 2 * c > w
  BY <1>1 DEF MoreThanHalf
<1>7. CASE ~(2 * z > w)
  <2>1. r = s
    BY <1>1, <1>7 DEF Body
  <2>2. ~MoreThanHalf(S, w)
    BY <1>2, <1>3, <1>6, <1>7
  <2> QED BY <1>1, <1>4, <1>7, <2>1, <2>2, BestStays DEF After
<1>8. CASE 2 * z > w /\ Slice(S, i) = {}
  <2>1. r = s
    BY <1>8 DEF Body
  <2>2. d = 0 /\ s.a = c
    <3>1. d = 0
      BY <1>1, <1>8, SliceFacts
    <3> QED BY <1>3, <1>4, <1>5, <1>8, <3>1
  <2>3. ~(2 * c > w)
    <3>1. CASE i = 0
      <4>1. c = d
        BY <1>1, <3>1, SliceFacts
      <4> QED BY <1>2, <2>2, <4>1
    <3>2. CASE i # 0
      <4>1. i - 1 \in Nat /\ i - 1 < i
        BY <3>2
      <4>2. PICK h : h = TwoTo[i - 1]
        OBVIOUS
      <4>3. h \in Nat /\ 2 * h <= w
        BY <1>1, <4>1, <4>2, PowersGrow
      <4>4. Count(S, h) \in Nat /\ Count(S, h) <= h
        BY <4>3, CountFacts
      <4>5. c = Count(S, h) + d
        BY <1>1, <3>2, <4>2, SliceFacts
      <4> QED BY <1>2, <1>3, <2>2, <4>3, <4>4, <4>5
    <3> QED BY <3>1, <3>2
  <2>4. ~MoreThanHalf(S, w)
    BY <1>6, <2>3
  <2> QED BY <1>1, <1>4, <2>1, <2>2, <2>4, BestStays DEF After
<1>9. CASE 2 * z > w /\ Slice(S, i) # {} /\ ~(2 * c > w)
  <2>1. r = [s EXCEPT !.a = c]
    BY <1>1, <1>5, <1>9 DEF Body
  <2>2. r \in Totals /\ r.a = c /\ r.na = s.na /\ r.optimal = s.optimal
    BY <1>3, <1>4, <2>1 DEF Totals
  <2>3. ~MoreThanHalf(S, w)
    BY <1>6, <1>9
  <2> QED BY <1>1, <1>4, <2>2, <2>3, BestStays DEF After
<1>10. CASE 2 * z > w /\ Slice(S, i) # {} /\ 2 * c > w
  <2>1. r = [a |-> c, na |-> c, optimal |-> w]
    BY <1>1, <1>5, <1>10 DEF Body
  <2>2. r \in Totals /\ r.a = c /\ r.na = c /\ r.optimal = w
    BY <1>2, <1>3, <2>1 DEF Totals
  <2>3. w <= MaxSize
    BY <1>1, <1>10, SliceBound
  <2>4. ASSUME NEW j \in 0 .. i PROVE TwoTo[j] <= w
    <3>1. j \in Nat /\ (j = i \/ j < i)
      OBVIOUS
    <3>2. TwoTo[j] \in Nat /\ (j < i => 2 * TwoTo[j] <= w)
      BY <1>1, <3>1, PowersGrow
    <3> QED BY <1>1, <1>2, <3>1, <3>2
  <2>5. i \in 0 .. i /\ MoreThanHalf(S, TwoTo[i])
    BY <1>1, <1>6, <1>10
  <2> QED BY <1>1, <2>2, <2>3, <2>4, <2>5 DEF After, Best
<1> QED BY <1>7, <1>8, <1>9, <1>10

LEMMA LoopGoesOn ==
    ASSUME NEW S, Indices(S), NEW i \in Nat, NEW s, After(S, i, s)
    PROVE  Before(S, i + 1, s)
<1>1. TwoTo[i] \in Nat /\ TwoTo[i + 1] = 2 * TwoTo[i]
  BY TwoToDoubles, PowersGrow
<1>2. Cardinality(S) \in Nat
  BY <1>1, CountFacts
<1>3. (i + 1) - 1 = i /\ i + 1 # 0
  OBVIOUS
<1>4. 2 * Cardinality(S) > TwoTo[i + 1] => 2 * Cardinality(S) > TwoTo[i]
  BY <1>1, <1>2
<1> QED BY <1>3, <1>4 DEF After, Before

LEMMA LoopStarts ==
    ASSUME NEW S, Indices(S)
    PROVE  Before(S, 0, Zero)
<1>1. Zero \in Totals /\ Zero.a = 0 /\ Zero.na = 0 /\ Zero.optimal = 0
  BY DEF Zero, Totals
<1>2. Count(S, 0) = 0
  <2>1. Count(S, 0) \in Nat /\ Count(S, 0) <= 0
    BY CountFacts
  <2> QED BY <2>1
<1>3. 0 <= MaxSize /\ 0 .. 0 - 1 = {}
  BY TableAssumption
<1> QED BY <1>1, <1>2, <1>3 DEF Before, Best

LEMMA ComputeSizesFacts ==
    ASSUME NEW S, Indices(S), NEW s, s = ComputeSizes(S)
    PROVE  Best(S, Last, s)
<1>1. PICK N \in Nat : N = Last
  <2>1. MaxSize \in Nat
    BY TableAssumption
  <2>2. 2 * MaxSize + 1 \in Nat
    BY <2>1
  <2> QED BY <2>2, CeilLog2Facts DEF Last
<1>2. ASSUME NEW i \in Nat, NEW x \in Totals PROVE Body(S, i, x) \in Totals
  <2>1. PICK d, w \in Nat : d = Cardinality(Slice(S, i)) /\ w = TwoTo[i]
    BY SliceFacts, PowersGrow
  <2>2. PICK q \in Nat : q = x.a + d
    BY <1>2 DEF Totals
  <2>3. Body(S, i, x) \in {[a |-> q, na |-> q, optimal |-> w], [x EXCEPT !.a = q], x}
    BY <2>1, <2>2 DEF Body
  <2>4. [a |-> q, na |-> q, optimal |-> w] \in Totals /\ [x EXCEPT !.a = q] \in Totals
    BY <1>2 DEF Totals
  <2> QED BY <1>2, <2>3, <2>4
<1>3. PICK step : step = [p \in (1 .. N) \X Totals |-> Body(S, p[1], p[2])]
  OBVIOUS
<1>4. step \in [(1 .. N) \X Totals -> Totals]
  BY <1>2, <1>3
<1>5. PICK base \in Totals : base = Body(S, 0, Zero)
  <2>1. Zero \in Totals
    BY DEF Zero, Totals
  <2> QED BY <1>2, <2>1
<1>6. PICK g : Iterates(g, base, step, N, Totals)
  BY <1>4, RecursionExists DEF Steps
<1>7. ASSUME NEW i \in 0 .. N PROVE g[i] = Body(S, i, IF i = 0 THEN Zero ELSE g[i - 1])
  <2>1. CASE i = 0
    BY <1>5, <1>6, <2>1 DEF Iterates
  <2>2. CASE i # 0
    <3>1. i \in 1 .. N /\ i - 1 \in 0 .. N
      BY <2>2
    <3>2. g[i] = step[<<i, g[i - 1]>>] /\ g[i - 1] \in Totals
      BY <1>6, <3>1 DEF Iterates
    <3> QED BY <1>3, <2>2, <3>1, <3>2
  <2> QED BY <2>1, <2>2
<1>8. Loops(g, S)
  <2>1. g = [i \in 0 .. N |-> g[i]]
    BY <1>6 DEF Iterates
  <2> QED BY <1>1, <1>7, <2>1 DEF Loops
<1>9. PICK f : f = LoopOf(S)
  OBVIOUS
<1>10. Loops(f, S)
  BY <1>8, <1>9 DEF LoopOf
<1>11. \A i \in 0 .. N : f[i] = Body(S, i, IF i = 0 THEN Zero ELSE f[i - 1])
  BY <1>1, <1>10, Zenon DEF Loops
<1>12. s = f[N]
  BY <1>1, <1>9, Zenon DEF ComputeSizes, LoopOf, Loops, Body, Zero, Last
<1> DEFINE X == {i \in 0 .. N : After(S, i, f[i])}
<1>13. 0 \in X
  <2>1. 0 \in 0 .. N /\ f[0] = Body(S, 0, Zero)
    BY <1>11
  <2> QED BY <2>1, LoopStarts, BodyFacts
<1>14. ASSUME NEW i \in 0 .. N - 1, i \in X PROVE i + 1 \in X
  <2>1. i + 1 \in 0 .. N /\ i \in Nat /\ (i + 1) - 1 = i /\ i + 1 # 0 /\ i + 1 \in Nat
    OBVIOUS
  <2>2. After(S, i, f[i]) /\ f[i + 1] = Body(S, i + 1, f[i])
    BY <1>11, <1>14, <2>1
  <2>3. Before(S, i + 1, f[i])
    BY <2>1, <2>2, LoopGoesOn
  <2>4. After(S, i + 1, f[i + 1])
    BY <2>1, <2>2, <2>3, BodyFacts
  <2> QED BY <2>1, <2>4
<1> HIDE DEF X
<1>15. N \in X
  BY <1>13, <1>14, UpTo
<1> QED BY <1>1, <1>12, <1>15 DEF X, After

-----------------------------------------------------------------------------
(* rehash and luaH_newkey                                                  *)

FieldsOf(tb, k) == {x \in Key : Get(tb, x) # Nil \/ x = k}

LEMMA FieldsFacts ==
    ASSUME NEW tb, Sound(tb), NEW k \in Key, NEW S,
           S = UsedArray(tb) \cup {tb.node[m].key : m \in UsedNodes(tb)} \cup {k}
    PROVE  S = FieldsOf(tb, k) /\ IsFiniteSet(S)
<1>1. tb \in Table /\ FieldsRight(tb)
  BY DEF Sound
<1>2. PICK A : A = UsedArray(tb)
  OBVIOUS
<1>3. PICK K : K = {tb.node[m].key : m \in UsedNodes(tb)}
  OBVIOUS
<1>4. A = {i \in 1 .. Len(tb.array) : tb.array[i] # Nil} /\ A \subseteq Key
  BY <1>1, <1>2 DEF UsedArray, FieldsRight
<1>5. \A x \in A : Get(tb, x) # Nil
  BY <1>4, GetFinds DEF InArray
<1>6. ASSUME NEW m \in DOMAIN tb.node, tb.node[m].val # Nil
      PROVE  tb.node[m].key \in Key /\ Get(tb, tb.node[m].key) # Nil
  <2>1. tb.node[m].key # Nil
    <3>1. PICK chain, order : KeysPlaced(tb, chain, order)
      BY DEF Sound, Ordered
    <3> QED BY <1>6, <3>1 DEF KeysPlaced, Unused, FreeNode
  <2>2. tb.node[m].key \in Key
    BY <1>1, <2>1, NodeTyped
  <2>3. Live(tb, tb.node[m].key, m) /\ ~InArray(tb, tb.node[m].key)
    BY <1>1, <1>6, <2>1 DEF Live, FieldsRight
  <2> QED BY <1>6, <2>2, <2>3, GetFinds
<1>7. \A x \in K : x \in Key /\ Get(tb, x) # Nil
  BY <1>3, <1>6 DEF UsedNodes
<1>8. ASSUME NEW x \in Key, Get(tb, x) # Nil PROVE x \in A \cup K
  <2>1. CASE InArray(tb, x)
    BY <1>4, <1>8, <2>1, GetFinds DEF InArray
  <2>2. CASE ~InArray(tb, x)
    <3>1. PICK m : Live(tb, x, m)
      BY <1>8, <2>2, GetFinds
    <3>2. m \in DOMAIN tb.node /\ tb.node[m].key = x /\ tb.node[m].val # Nil
      BY <1>8, <2>2, <3>1, GetFinds DEF Live
    <3> QED BY <1>3, <3>2 DEF UsedNodes
  <2> QED BY <2>1, <2>2
<1>9. S = A \cup K \cup {k}
  BY <1>2, <1>3
<1>10. S = FieldsOf(tb, k)
  BY <1>4, <1>5, <1>7, <1>8, <1>9 DEF FieldsOf
<1>11. IsFiniteSet(A)
  <2>1. Len(tb.array) \in Int
    BY <1>1, TableFacts
  <2>2. IsFiniteSet(1 .. Len(tb.array))
    BY <2>1, FS_Interval
  <2>3. A \in SUBSET (1 .. Len(tb.array))
    BY <1>4
  <2> QED BY <2>2, <2>3, FS_Subset
<1>12. IsFiniteSet(K)
  <2>1. PICK U : U = UsedNodes(tb)
    OBVIOUS
  <2>2. PICK z \in Int : DOMAIN tb.node = 0 .. z
    <3>1. Size(tb) - 1 \in Int
      BY <1>1, TableFacts
    <3> QED BY <1>1, <3>1, TableFacts
  <2>3. IsFiniteSet(DOMAIN tb.node)
    BY <2>2, FS_Interval
  <2>4. U \in SUBSET DOMAIN tb.node
    BY <2>1 DEF UsedNodes
  <2>5. IsFiniteSet(U)
    BY <2>3, <2>4, FS_Subset
  <2>6. PICK f : f = [m \in U |-> tb.node[m].key]
    OBVIOUS
  <2>7. f \in Surjection(U, K)
    BY <1>3, <2>1, <2>6 DEF Surjection
  <2> QED BY <2>5, <2>7, FS_Surjection
<1>13. IsFiniteSet(A \cup K)
  BY <1>11, <1>12, FS_Union
<1>14. IsFiniteSet(S)
  <2>1. PICK U : U = A \cup K
    OBVIOUS
  <2>2. IsFiniteSet(U \cup {k})
    BY <1>13, <2>1, FS_AddElement
  <2> QED BY <1>9, <2>1, <2>2
<1> QED BY <1>10, <1>14

HasArrayFor(tb, k, r) ==
    \E s : Best(ArrayIndices(FieldsOf(tb, k)), Last, s) /\ Len(r.array) = s.optimal

LEMMA RehashFacts ==
    ASSUME NEW tb, Sound(tb), NEW k \in Key, NEW r, r = Rehash(tb, k)
    PROVE  /\ Sound(r) /\ Sized(r) /\ (Present(r, k) \/ CanPlace(r, k))
           /\ HasArrayFor(tb, k, r)
           /\ \A x \in Key : Get(r, x) = Get(tb, x)
<1>1. PICK fields : fields = UsedArray(tb) \cup {tb.node[m].key : m \in UsedNodes(tb)} \cup {k}
  OBVIOUS
<1>2. fields = FieldsOf(tb, k) /\ IsFiniteSet(fields)
  BY <1>1, FieldsFacts
<1>3. fields \subseteq Key /\ k \in fields /\ \A x \in Key : Get(tb, x) # Nil => x \in fields
  BY <1>2 DEF FieldsOf
<1>4. PICK S : S = ArrayIndices(fields)
  OBVIOUS
<1>5. S \in SUBSET fields /\ Indices(S)
  <2>1. S \in SUBSET fields
    BY <1>4 DEF ArrayIndices
  <2>2. S \subseteq 1 .. MaxSize
    <3>1. Ints \subseteq Int /\ MaxSize \in Nat
      BY TableAssumption
    <3>2. \A x \in S : x \in Ints /\ 0 < x /\ x <= MaxSize
      BY <1>4 DEF ArrayIndices
    <3>3. \A x \in S : x \in Int /\ 0 < x /\ x <= MaxSize
      BY <3>1, <3>2
    <3> QED BY <3>1, <3>3
  <2> QED BY <1>2, <2>1, <2>2, FS_Subset DEF Indices
<1>6. PICK s : s = ComputeSizes(S)
  OBVIOUS
<1>7. Best(S, Last, s)
  BY <1>5, <1>6, ComputeSizesFacts
<1>8. s.optimal \in Nat /\ s.na = Count(S, s.optimal) /\ s.optimal <= MaxSize
  BY <1>7 DEF Best, Totals
<1>9. PICK n \in Nat : n = s.optimal
  BY <1>8
<1>10. PICK T : T = {x \in S : x <= n}
  OBVIOUS
<1>11. T \in SUBSET fields /\ \A x \in T : x \in 1 .. n
  <2>1. MaxSize \in Nat /\ \A x \in S : x \in 1 .. MaxSize
    BY <1>5, TableAssumption DEF Indices
  <2> QED BY <1>5, <1>10, <2>1
<1>12. PICK F : F = fields \ T
  OBVIOUS
<1>13. PICK h \in Nat : /\ h = Cardinality(fields) - s.na /\ h = Cardinality(F)
                        /\ IsFiniteSet(F)
  <2>1. fields \cap T = T
    BY <1>11
  <2>2. IsFiniteSet(F) /\ Cardinality(F) = Cardinality(fields) - Cardinality(T)
    BY <1>2, <1>12, <2>1, FS_Difference
  <2>3. Cardinality(F) \in Nat
    BY <2>2, FS_CardinalityType
  <2>4. Cardinality(T) = s.na
    BY <1>8, <1>9, <1>10 DEF Count
  <2> QED BY <2>2, <2>3, <2>4
<1>14. Suffices(tb, n, h, F)
  <2>1. Cardinality(F) <= h
    BY <1>13
  <2>2. F \subseteq Key
    BY <1>3, <1>12
  <2>3. \A x \in Key : Get(tb, x) # Nil /\ x \notin 1 .. n => x \in F
    BY <1>3, <1>11, <1>12
  <2> QED BY <1>13, <2>1, <2>2, <2>3 DEF Suffices
<1>15. r = Resize(tb, n, h)
  BY <1>1, <1>4, <1>6, <1>9, <1>13 DEF Rehash
<1>16. /\ Sound(r) /\ Roomy(r, F) /\ Len(r.array) = n /\ Size(r) = NodesFor(h)
       /\ \A x \in Key : Get(r, x) = Get(tb, x)
  BY <1>14, <1>15, ResizeFacts
<1>17. Present(r, k) \/ CanPlace(r, k)
  <2>1. CASE k \in T
    <3>1. InArray(r, k)
      BY <1>11, <1>16, <2>1 DEF InArray
    <3> QED BY <3>1 DEF Present
  <2>2. CASE k \notin T
    <3>1. k \in F
      BY <1>3, <1>12, <2>2
    <3> QED BY <1>16, <3>1, RoomLeft
  <2> QED BY <2>1, <2>2
<1>18. Sized(r)
  BY <1>8, <1>9, <1>16, NodesForFacts DEF Sized
<1>19. HasArrayFor(tb, k, r)
  BY <1>2, <1>4, <1>7, <1>9, <1>16 DEF HasArrayFor
<1> QED BY <1>16, <1>17, <1>18, <1>19

(* An assignment, whatever it takes: one field changes.                    *)
Stores(tb, k, v, r) ==
    /\ Sound(r) /\ Sized(r)
    /\ Get(r, k) = v /\ \A x \in Key \ {k} : Get(r, x) = Get(tb, x)
    /\ ~Present(tb, k) /\ ~CanPlace(tb, k) => HasArrayFor(tb, k, r)

LEMMA StoredFacts ==
    ASSUME NEW tb, Sound(tb), Sized(tb), NEW k \in Key, NEW v \in Value, NEW r, r = Stored(tb, k, v)
    PROVE  Stores(tb, k, v, r) /\ (Present(tb, k) => Keeps(tb, r))
<1>1. ASSUME NEW x, Sound(x), Present(x, k), NEW y, y = Put(x, k, v)
      PROVE  /\ Sound(y) /\ Len(y.array) = Len(x.array) /\ Size(y) = Size(x) /\ Keeps(x, y)
             /\ Get(y, k) = v /\ \A z \in Key \ {k} : Get(y, z) = Get(x, z)
  <2>1. /\ Sound(y) /\ Keeps(x, y)
        /\ Get(y, k) = v /\ \A z \in Key \ {k} : Get(y, z) = Get(x, z)
    BY <1>1, PutFacts
  <2> QED BY <2>1 DEF Keeps, Shape, Size
<1>2. ASSUME NEW x, Sound(x), ~Present(x, k), CanPlace(x, k), NEW y, y = Place(x, k)
      PROVE  /\ Sound(y) /\ Present(y, k) /\ Len(y.array) = Len(x.array) /\ Size(y) = Size(x)
             /\ \A z \in Key : Get(y, z) = Get(x, z)
  <2>1. Inserted(x, k, y)
    BY <1>2, PlaceFacts
  <2>2. Sound(y) /\ Present(y, k) /\ \A z \in Key : Get(y, z) = Get(x, z)
    BY <1>2, <2>1, InsertedFacts
  <2> QED BY <2>1, <2>2 DEF Inserted, Size
<1>3. CASE Present(tb, k)
  <2>1. r = Put(tb, k, v)
    BY <1>3 DEF Stored
  <2> QED BY <1>1, <1>3, <2>1 DEF Stores, Sized
<1>4. CASE ~Present(tb, k) /\ CanPlace(tb, k)
  <2>1. PICK y : y = Place(tb, k)
    OBVIOUS
  <2>2. /\ Sound(y) /\ Present(y, k) /\ Len(y.array) = Len(tb.array) /\ Size(y) = Size(tb)
        /\ \A z \in Key : Get(y, z) = Get(tb, z)
    BY <1>2, <1>4, <2>1
  <2>3. r = Put(y, k, v)
    BY <1>4, <2>1 DEF Stored, NewKey
  <2>4. /\ Sound(r) /\ Len(r.array) = Len(y.array) /\ Size(r) = Size(y)
        /\ Get(r, k) = v /\ \A z \in Key \ {k} : Get(r, z) = Get(y, z)
    BY <1>1, <2>2, <2>3
  <2> QED BY <1>4, <2>2, <2>4 DEF Stores, Sized
<1>5. CASE ~Present(tb, k) /\ ~CanPlace(tb, k)
  <2>1. PICK w : w = Rehash(tb, k)
    OBVIOUS
  <2>2. /\ Sound(w) /\ Sized(w) /\ (Present(w, k) \/ CanPlace(w, k)) /\ HasArrayFor(tb, k, w)
        /\ \A x \in Key : Get(w, x) = Get(tb, x)
    BY <2>1, RehashFacts
  <2>3. PICK y : y = IF Present(w, k) THEN w ELSE Place(w, k)
    OBVIOUS
  <2>4. /\ Sound(y) /\ Present(y, k) /\ Len(y.array) = Len(w.array) /\ Size(y) = Size(w)
        /\ \A z \in Key : Get(y, z) = Get(w, z)
    <3>1. CASE Present(w, k)
      BY <2>2, <2>3, <3>1
    <3>2. CASE ~Present(w, k)
      BY <1>2, <2>2, <2>3, <3>2
    <3> QED BY <3>1, <3>2
  <2>5. r = Put(y, k, v)
    BY <1>5, <2>1, <2>3 DEF Stored, NewKey
  <2>6. /\ Sound(r) /\ Len(r.array) = Len(y.array) /\ Size(r) = Size(y)
        /\ Get(r, k) = v /\ \A z \in Key \ {k} : Get(r, z) = Get(y, z)
    BY <1>1, <2>4, <2>5
  <2>7. Sized(r) /\ HasArrayFor(tb, k, r)
    BY <2>2, <2>4, <2>6 DEF Sized, HasArrayFor
  <2> QED BY <1>5, <2>2, <2>4, <2>6, <2>7 DEF Stores
<1> QED BY <1>3, <1>4, <1>5

-----------------------------------------------------------------------------
(* The traversal                                                           *)

(* The elements by number, and the numbers of the keys.                    *)
Numbered(tb, i) == i \in 1 .. Len(tb.array) + Size(tb)

LEMMA FieldNumber ==
    ASSUME NEW tb, Sound(tb), NEW k \in Key, Get(tb, k) # Nil
    PROVE  /\ Numbered(tb, FindIndex(tb, k)) /\ FindIndex(tb, k) \in Nat \ {0}
           /\ Element(tb, FindIndex(tb, k))[1] = k
           /\ Element(tb, FindIndex(tb, k))[2] # Nil
<1>1. tb \in Table /\ FieldsRight(tb)
  BY DEF Sound
<1>2. PICK l : l = Len(tb.array) /\ l \in Nat
  BY <1>1, TableFacts
<1>3. PICK z : z = Size(tb) /\ z \in Nat /\ DOMAIN tb.node = 0 .. z - 1
  BY <1>1, TableFacts
<1>4. PICK i : i = FindIndex(tb, k)
  OBVIOUS
<1>5. CASE InArray(tb, k)
  <2>1. i = k /\ k \in 1 .. l /\ tb.array[k] # Nil
    BY <1>2, <1>4, <1>5, FindIndexFinds, GetFinds DEF InArray
  <2>2. Element(tb, i) = <<k, tb.array[k]>>
    BY <1>2, <2>1 DEF Element
  <2>3. i \in 1 .. l + z /\ i \in Nat \ {0}
    BY <1>2, <1>3, <2>1
  <2> QED BY <1>2, <1>3, <1>4, <2>1, <2>2, <2>3 DEF Numbered
<1>6. CASE ~InArray(tb, k)
  <2>1. PICK m : Live(tb, k, m)
    BY <1>6, GetFinds
  <2>2. m \in 0 .. z - 1 /\ tb.node[m].key = k /\ tb.node[m].val # Nil
    BY <1>3, <1>6, <2>1, GetFinds DEF Live
  <2>3. i = m + 1 + l
    BY <1>2, <1>4, <2>1, FindIndexFinds
  <2>4. i \in 1 .. l + z /\ i \in Nat \ {0} /\ ~(i <= l) /\ i - l - 1 = m
    <3>1. l \in Nat /\ z \in Nat /\ m \in Nat /\ m <= z - 1
      BY <1>2, <1>3, <2>2
    <3> QED BY ONLY <3>1, <2>3
  <2>5. Element(tb, i) = <<tb.node[m].key, tb.node[m].val>>
    BY <1>2, <2>4 DEF Element
  <2> QED BY <1>2, <1>3, <1>4, <2>2, <2>4, <2>5 DEF Numbered
<1> QED BY <1>5, <1>6

LEMMA NumberedField ==
    ASSUME NEW tb, Sound(tb), NEW i, Numbered(tb, i), Element(tb, i)[2] # Nil, NEW k, k = Element(tb, i)[1]
    PROVE  k \in Key /\ k # Nil /\ Get(tb, k) # Nil /\ FindIndex(tb, k) = i
<1>1. tb \in Table /\ FieldsRight(tb)
  BY DEF Sound
<1>2. PICK l : l = Len(tb.array) /\ l \in Nat
  BY <1>1, TableFacts
<1>3. PICK z : z = Size(tb) /\ z \in Nat /\ DOMAIN tb.node = 0 .. z - 1
  BY <1>1, TableFacts
<1>4. i \in 1 .. l + z
  BY <1>2, <1>3 DEF Numbered
<1>5. Nil \notin Key
  BY TableAssumption
<1>6. CASE i <= l
  <2>1. k = i /\ i \in 1 .. l /\ tb.array[i] # Nil
    BY <1>2, <1>3, <1>4, <1>6 DEF Element
  <2>2. k \in Key /\ InArray(tb, k)
    BY <1>1, <1>2, <2>1 DEF FieldsRight, InArray
  <2> QED BY <1>5, <2>1, <2>2, GetFinds, FindIndexFinds
<1>7. CASE ~(i <= l)
  <2>1. PICK m : m = i - l - 1
    OBVIOUS
  <2>2. m \in DOMAIN tb.node /\ m + 1 + l = i
    BY <1>2, <1>3, <1>4, <1>7, <2>1
  <2>3. Element(tb, i) = <<tb.node[m].key, tb.node[m].val>>
    BY <1>2, <1>7, <2>1 DEF Element
  <2>4. k = tb.node[m].key /\ tb.node[m].val # Nil
    BY <2>3
  <2>5. k # Nil
    <3>1. PICK chain, order : KeysPlaced(tb, chain, order)
      BY DEF Sound, Ordered
    <3> QED BY <2>2, <2>4, <3>1 DEF KeysPlaced, Unused, FreeNode
  <2>6. k \in Key
    BY <1>1, <2>2, <2>4, <2>5, NodeTyped
  <2>7. Live(tb, k, m) /\ ~InArray(tb, k)
    BY <1>1, <2>2, <2>4, <2>5 DEF Live, FieldsRight
  <2>8. Get(tb, k) # Nil
    BY <2>4, <2>6, <2>7, GetFinds
  <2>9. FindIndex(tb, k) = i
    BY <1>2, <2>2, <2>6, <2>7, FindIndexFinds
  <2> QED BY <2>5, <2>6, <2>8, <2>9
<1> QED BY <1>6, <1>7

LEMMA IndexTyped ==
    ASSUME NEW tb, Sound(tb), NEW k \in Key
    PROVE  FindIndex(tb, k) \in Nat
<1>1. tb \in Table
  BY DEF Sound
<1>2. Len(tb.array) \in Nat /\ \A m \in DOMAIN tb.node : m \in Nat
  BY <1>1, TableFacts
<1>3. CASE InArray(tb, k)
  BY <1>2, <1>3, FindIndexFinds DEF InArray
<1>4. CASE ~InArray(tb, k) /\ \E m \in DOMAIN tb.node : tb.node[m].key = k
  <2>1. PICK m \in DOMAIN tb.node : FindIndex(tb, k) = m + 1 + Len(tb.array)
    BY <1>4, FindIndexFinds
  <2> QED BY <1>2, <2>1
<1>5. CASE ~InArray(tb, k) /\ \A m \in DOMAIN tb.node : tb.node[m].key # k
  BY <1>5, FindIndexFinds
<1> QED BY <1>3, <1>4, <1>5

LEMMA AsKeyIn ==
    ASSUME TableInv, NEW given \in used
    PROVE  AsKey(given) \in Key
<1>1. given \in Key \cup Floats
  BY TableAssumption DEF TableInv
<1>2. CASE given \in Floats \ NotInteger
  <2>1. ToInteger[given] \in Ints \cup {Nil} /\ ToInteger[given] # Nil
    BY <1>2, TableAssumption DEF NotInteger
  <2> QED BY <1>2, <2>1 DEF AsKey, Key
<1>3. CASE ~(given \in Floats \ NotInteger)
  BY <1>1, <1>3 DEF AsKey, Key
<1> QED BY <1>2, <1>3

(* A step after which every key is still found where it was.               *)
LEMMA TraversalKept ==
    ASSUME TableInv, Sound(t'), Sized(t'), UNCHANGED <<control, traversal, returned, used>>,
           traversal = "on" => Keeps(t, t') /\ \A x \in Key : Get(t', x) # Nil => Get(t, x) # Nil
    PROVE  TableInv'
<1>1. ASSUME traversal' = "on"
      PROVE  /\ control' # Nil => FindIndex(t', control') # 0
             /\ \A k \in Key : Get(t', k) # Nil => (k \in returned' <=> FindIndex(t', k) <= Position')
  <2>1. Keeps(t, t') /\ Sound(t) /\ Sound(t') /\ traversal = "on"
    BY <1>1 DEF TableInv
  <2>2. \A k \in Key : FindIndex(t', k) = FindIndex(t, k)
    BY <2>1, FindIndexKept
  <2>3. control' = control /\ control \in Key \cup {Nil} /\ Position' = Position
    BY <2>2 DEF TableInv, Position
  <2>4. control' # Nil => FindIndex(t', control') # 0
    BY <2>1, <2>2, <2>3 DEF TableInv, TraversalRight
  <2>5. ASSUME NEW k \in Key, Get(t', k) # Nil PROVE k \in returned' <=> FindIndex(t', k) <= Position'
    <3>1. Get(t, k) # Nil
      BY <1>1, <2>5
    <3> QED BY <2>1, <2>2, <2>3, <3>1 DEF TableInv, TraversalRight
  <2> QED BY <2>4, <2>5
<1> QED BY <1>1 DEF TableInv, TraversalRight

(* A step that ends the traversal.                                         *)
LEMMA TraversalEnds ==
    ASSUME TableInv, Sound(t'), Sized(t'), control' = Nil, traversal' = "off", returned' = {}, used' = used
    PROVE  TableInv'
BY DEF TableInv, TraversalRight

LEMMA InitRight ==
    ASSUME Init
    PROVE  TableInv
<1>1. PICK na \in Asked, nh \in Asked : t = Resize(NewTable, na, nh)
  BY DEF Init
<1>2. na \in Nat /\ nh \in Nat /\ na <= MaxSize
  BY TableAssumption
<1>3. PICK tb : tb = NewTable /\ Sound(tb) /\ \A x \in Key : Get(tb, x) = Nil
  BY NewTableSound
<1>4. PICK F : F = {}
  OBVIOUS
<1>5. IsFiniteSet(F) /\ Cardinality(F) = 0
  BY <1>4, FS_EmptySet
<1>6. Suffices(tb, na, nh, F)
  BY <1>2, <1>3, <1>4, <1>5 DEF Suffices
<1>7. Sound(t) /\ Len(t.array) = na /\ Size(t) = NodesFor(nh)
  BY <1>1, <1>2, <1>3, <1>6, ResizeFacts
<1>8. Sized(t)
  BY <1>2, <1>7, NodesForFacts DEF Sized
<1> QED BY <1>7, <1>8 DEF Init, TableInv, TraversalRight

(* What an assignment is, in the program's steps.                          *)
SetsKey(k, v) == k \in Key /\ v \in Value /\ t' = Stored(t, k, v) /\ Assigned(k) /\ used' = used
LEMMA SetRight ==
    ASSUME TableInv, NEW k, NEW v, SetsKey(k, v)
    PROVE  TableInv' /\ Stores(t, k, v, t')
<1>1. Sound(t) /\ Sized(t) /\ k \in Key /\ v \in Value /\ t' = Stored(t, k, v)
  BY DEF TableInv, SetsKey
<1>2. Stores(t, k, v, t') /\ (Present(t, k) => Keeps(t, t'))
  BY <1>1, StoredFacts
<1>3. Sound(t') /\ Sized(t') /\ Get(t', k) = v /\ \A x \in Key \ {k} : Get(t', x) = Get(t, x)
  BY <1>2 DEF Stores
<1>4. CASE Get(t, k) = Nil
  BY <1>2, <1>3, <1>4, TraversalEnds DEF SetsKey, Assigned
<1>5. CASE Get(t, k) # Nil
  <2>1. Present(t, k)
    BY <1>1, <1>5, GetFinds, PresentFinds
  <2>2. \A x \in Key : Get(t', x) # Nil => Get(t, x) # Nil
    BY <1>3, <1>5
  <2>3. UNCHANGED <<control, traversal, returned, used>>
    BY <1>5 DEF SetsKey, Assigned
  <2> QED BY <1>2, <1>3, <2>1, <2>2, <2>3, TraversalKept
<1> QED BY <1>4, <1>5

LEMMA SetIs ==
    ASSUME TableInv, Set
    PROVE  \E k, v : SetsKey(k, v)
<1>1. PICK given \in used, v \in Val \cup {Nil} : t' = Stored(t, AsKey(given), v) /\ Assigned(AsKey(given))
  BY DEF Set
<1>2. PICK k : k = AsKey(given)
  OBVIOUS
<1>3. k \in Key
  BY <1>2, AsKeyIn
<1>4. SetsKey(k, v)
  BY <1>1, <1>2, <1>3 DEF Set, SetsKey, Value
<1> QED BY <1>4

LEMMA PresentField ==
    ASSUME NEW tb, Sound(tb), NEW k \in Key, ~Present(tb, k)
    PROVE  Get(tb, k) = Nil
BY PresentFinds, GetFinds

(* What a failed assignment is.                                            *)
FailsKey(k, D) ==
    /\ k \in Key /\ ~Present(t, k) /\ ~CanPlace(t, k) /\ D \subseteq Collectable
    /\ Dies(t, D, 0, t') /\ Assigned(k) /\ used' = used

LEMMA SetFailsIs ==
    ASSUME TableInv, SetFails
    PROVE  \E k, D : FailsKey(k, D)
<1>1. PICK given \in used, D \in SUBSET Removed(t) :
        /\ ~Present(t, AsKey(given)) /\ ~CanPlace(t, AsKey(given))
        /\ t' = [Dying(t, D) EXCEPT !.lastfree = 0] /\ Assigned(AsKey(given))
  BY DEF SetFails
<1>2. PICK k : k = AsKey(given)
  OBVIOUS
<1>3. k \in Key
  BY <1>2, AsKeyIn
<1>4. D \subseteq Collectable
  BY DEF Removed
<1>5. Dies(t, D, 0, t')
  BY <1>1 DEF Dies
<1>6. FailsKey(k, D)
  BY <1>1, <1>2, <1>3, <1>4, <1>5 DEF SetFails, FailsKey
<1> QED BY <1>6

LEMMA SetFailsRight ==
    ASSUME TableInv, NEW k, NEW D, FailsKey(k, D)
    PROVE  /\ TableInv' /\ \A x \in Key : Get(t', x) = Get(t, x)
           /\ Get(t, k) = Nil
<1>1. Sound(t) /\ Sized(t) /\ k \in Key /\ D \subseteq Collectable /\ ~Present(t, k) /\ FreeBelow(t) = {}
  BY DEF TableInv, FailsKey, CanPlace
<1>2. t \in Table /\ t.lastfree \in Nat /\ 0 \in 0 .. t.lastfree
  BY <1>1, TableFacts DEF Sound
<1>3. ASSUME NEW m \in DOMAIN t.node, t.node[m].key = Nil PROVE m < 0
  <2>1. PICK chain, order : KeysPlaced(t, chain, order)
    BY <1>1 DEF Sound, Ordered
  <2>2. m < t.lastfree /\ m \in Nat
    BY <1>2, <1>3, <2>1, TableFacts DEF KeysPlaced, Unused
  <2>3. m \in FreeBelow(t)
    BY <1>2, <1>3, <2>2 DEF FreeBelow
  <2> QED BY <1>1, <2>3
<1>4. Dies(t, D, 0, t')
  BY DEF FailsKey
<1>5. Sound(t') /\ Keeps(t, t') /\ Len(t'.array) = Len(t.array) /\ \A x \in Key : Get(t', x) = Get(t, x)
  BY <1>1, <1>2, <1>3, <1>4, DyingFacts
<1>6. Sized(t')
  BY <1>1, <1>5 DEF Sized, Keeps, Shape, Size
<1>7. Get(t, k) = Nil
  BY <1>1, PresentField
<1>8. control' = Nil /\ traversal' = "off" /\ returned' = {} /\ used' = used
  BY <1>7 DEF FailsKey, Assigned
<1> QED BY <1>5, <1>6, <1>7, <1>8, TraversalEnds

LEMMA CollectRight ==
    ASSUME TableInv, Collect
    PROVE  TableInv' /\ \A x \in Key : Get(t', x) = Get(t, x)
<1>1. PICK D : D \subseteq Removed(t) /\ t' = Dying(t, D)
  BY DEF Collect
<1>2. D \subseteq Collectable /\ Sound(t) /\ Sized(t)
  BY <1>1 DEF Removed, TableInv
<1>3. t \in Table /\ t.lastfree \in Nat
  BY <1>2, TableFacts DEF Sound
<1>4. PICK free : free = t.lastfree
  OBVIOUS
<1>5. free \in 0 .. t.lastfree
  BY <1>3, <1>4
<1>6. \A m \in DOMAIN t.node : t.node[m].key = Nil => m < free
  <2>1. PICK chain, order : KeysPlaced(t, chain, order)
    BY <1>2 DEF Sound, Ordered
  <2> QED BY <1>4, <2>1 DEF KeysPlaced, Unused
<1>7. Dies(t, D, free, t')
  <2>1. t.lastfree = free /\ Dying(t, D) = [Dying(t, D) EXCEPT !.lastfree = free]
    BY <1>3, <1>4 DEF Dying, Table
  <2> QED BY <1>1, <2>1 DEF Dies
<1>8. Sound(t') /\ Keeps(t, t') /\ Len(t'.array) = Len(t.array) /\ \A x \in Key : Get(t', x) = Get(t, x)
  BY <1>2, <1>5, <1>6, <1>7, DyingFacts
<1>9. Sized(t')
  BY <1>2, <1>8 DEF Sized, Keeps, Shape, Size
<1>10. UNCHANGED <<control, traversal, returned, used>>
  BY DEF Collect
<1> QED BY <1>8, <1>9, <1>10, TraversalKept

(* The fields that are in nodes have nodes of their own.                   *)
LEMMA FieldsInNodes ==
    ASSUME NEW tb, Sound(tb), NEW n \in Nat, n >= Len(tb.array),
           NEW F, F = {x \in Key : Get(tb, x) # Nil /\ x \notin 1 .. n}
    PROVE  IsFiniteSet(F) /\ Cardinality(F) <= Size(tb)
<1>1. tb \in Table /\ Size(tb) \in Nat /\ DOMAIN tb.node = 0 .. Size(tb) - 1 /\ Len(tb.array) \in Nat
  BY TableFacts DEF Sound
<1>2. PICK T : T = DOMAIN tb.node
  OBVIOUS
<1>3. IsFiniteSet(T) /\ Cardinality(T) = Size(tb)
  BY <1>1, <1>2, FS_Interval DEF Size
<1>4. ASSUME NEW x \in F
      PROVE  NodeOf(tb, x) \in T /\ tb.node[NodeOf(tb, x)].key = x
  <2>1. x \in Key /\ Get(tb, x) # Nil /\ x \notin 1 .. n
    BY <1>4
  <2>2. ~InArray(tb, x)
    BY <1>1, <2>1 DEF InArray
  <2>3. PICK m : Live(tb, x, m)
    BY <2>1, <2>2, GetFinds
  <2>4. NodeOf(tb, x) = m
    BY <2>1, <2>3, PresentFinds
  <2> QED BY <1>2, <2>3, <2>4 DEF Live
<1>5. PICK f : f = [x \in F |-> NodeOf(tb, x)]
  OBVIOUS
<1>6. f \in [F -> T] /\ \A x, y \in F : f[x] = f[y] => x = y
  BY <1>4, <1>5
<1>7. f \in Injection(F, T)
  BY <1>6 DEF Injection, IsInjective
<1> QED BY <1>3, <1>7, FS_Injection

LEMMA ResizeArrayRight ==
    ASSUME TableInv, ResizeArray
    PROVE  TableInv' /\ \A x \in Key : Get(t', x) = Get(t, x)
<1>1. PICK n \in Asked : n > Len(t.array) /\ t' = Resize(t, n, Size(t))
  BY DEF ResizeArray
<1>2. n \in Nat /\ n <= MaxSize
  BY TableAssumption
<1>3. Sound(t) /\ t \in Table /\ Size(t) \in Nat /\ Len(t.array) \in Nat
  BY TableFacts DEF TableInv, Sound
<1>4. PICK F : F = {x \in Key : Get(t, x) # Nil /\ x \notin 1 .. n}
  OBVIOUS
<1>5. n >= Len(t.array)
  BY <1>1, <1>2, <1>3
<1>6. IsFiniteSet(F) /\ Cardinality(F) <= Size(t)
  BY <1>2, <1>3, <1>4, <1>5, FieldsInNodes
<1>7. Suffices(t, n, Size(t), F)
  BY <1>4, <1>6 DEF Suffices
<1>8. PICK h : h = Size(t)
  OBVIOUS
<1>9. /\ Sound(t') /\ Len(t'.array) = n /\ Size(t') = NodesFor(h)
      /\ \A x \in Key : Get(t', x) = Get(t, x)
  BY <1>1, <1>2, <1>3, <1>7, <1>8, ResizeFacts
<1>10. Sized(t')
  BY <1>2, <1>3, <1>8, <1>9, NodesForFacts DEF Sized
<1> QED BY <1>9, <1>10, TraversalEnds DEF ResizeArray

LEMMA StartRight ==
    ASSUME TableInv, Start
    PROVE  TableInv'
<1>1. t' = t /\ control' = Nil /\ returned' = {} /\ traversal' = "on" /\ used' = used
  BY DEF Start
<1>2. Position' = 0
  BY <1>1 DEF Position
<1>3. \A k \in Key : Get(t', k) # Nil => ~(FindIndex(t', k) <= 0)
  <2>1. ASSUME NEW k \in Key, Get(t, k) # Nil PROVE ~(FindIndex(t, k) <= 0)
    <3>1. FindIndex(t, k) \in Nat \ {0}
      BY <2>1, FieldNumber DEF TableInv
    <3> QED BY <3>1
  <2> QED BY <1>1, <2>1
<1>4. TraversalRight'
  BY <1>1, <1>2, <1>3 DEF TraversalRight
<1> QED BY <1>1, <1>4 DEF TableInv

(* What a step of the traversal is.                                        *)
VisitsKey(k, j) ==
    /\ traversal = "on" /\ Numbered(t, j) /\ j \in NextFrom(t, Position)
    /\ k = Element(t, j)[1] /\ control' = k /\ returned' = returned \cup {k}
    /\ t' = t /\ traversal' = traversal /\ used' = used

LEMMA PositionTyped ==
    ASSUME TableInv
    PROVE  Position \in Nat
BY IndexTyped DEF TableInv, Position

LEMMA VisitIs ==
    ASSUME TableInv, Visit
    PROVE  \E k, j : VisitsKey(k, j)
<1>1. PICK j \in NextFrom(t, Position) :
        control' = Element(t, j)[1] /\ returned' = returned \cup {Element(t, j)[1]}
  BY DEF Visit
<1>2. Position \in Nat
  BY PositionTyped
<1>3. Len(t.array) \in Nat /\ Size(t) \in Nat
  BY TableFacts DEF TableInv, Sound
<1>4. j \in Position + 1 .. Len(t.array) + Size(t)
  BY <1>1 DEF NextFrom
<1>5. Numbered(t, j)
  BY <1>2, <1>3, <1>4 DEF Numbered
<1>6. PICK k : k = Element(t, j)[1]
  OBVIOUS
<1>7. VisitsKey(k, j)
  BY <1>1, <1>5, <1>6 DEF Visit, VisitsKey
<1> QED BY <1>7

LEMMA VisitRight ==
    ASSUME TableInv, NEW k, NEW j, VisitsKey(k, j)
    PROVE  TableInv' /\ k \in Key /\ Get(t, k) # Nil /\ k \notin returned
<1>1. Sound(t) /\ Position \in Nat /\ Len(t.array) \in Nat /\ Size(t) \in Nat
  BY PositionTyped, TableFacts DEF TableInv, Sound
<1>2. /\ j \in Position + 1 .. Len(t.array) + Size(t) /\ Element(t, j)[2] # Nil
      /\ \A i \in Position + 1 .. j - 1 : Element(t, i)[2] = Nil
  BY DEF VisitsKey, NextFrom
<1>3. k \in Key /\ k # Nil /\ Get(t, k) # Nil /\ FindIndex(t, k) = j
  BY <1>1, <1>2, NumberedField DEF VisitsKey
<1>4. ~(j <= Position)
  BY <1>1, <1>2
<1>5. k \notin returned
  BY <1>3, <1>4 DEF VisitsKey, TableInv, TraversalRight
<1>6. Position' = j
  BY <1>3 DEF VisitsKey, Position
<1>7. ASSUME NEW x \in Key, Get(t, x) # Nil
      PROVE  x \in returned \cup {k} <=> FindIndex(t, x) <= j
  <2>1. /\ FindIndex(t, x) \in Nat \ {0} /\ Element(t, FindIndex(t, x))[1] = x
        /\ Element(t, FindIndex(t, x))[2] # Nil
    BY <1>1, <1>7, FieldNumber
  <2>2. x \in returned <=> FindIndex(t, x) <= Position
    BY <1>7 DEF VisitsKey, TableInv, TraversalRight
  <2>3. PICK i \in Nat : i = FindIndex(t, x)
    BY <2>1
  <2>4. i \notin Position + 1 .. j - 1
    BY <1>2, <2>1, <2>3
  <2>5. j \in Nat
    BY <1>1, <1>2
  <2>6. i = j => x = k
    BY <2>1, <2>3 DEF VisitsKey
  <2>7. i <= j <=> i <= Position \/ i = j
    BY <1>1, <1>4, <2>4, <2>5
  <2> QED BY <1>3, <2>2, <2>3, <2>6, <2>7
<1>8. TraversalRight'
  BY <1>3, <1>6, <1>7, <1>1, <1>2 DEF TraversalRight, VisitsKey
<1>9. t' = t /\ control' = k /\ returned' = returned \cup {k} /\ traversal' = traversal /\ used' = used
  BY DEF VisitsKey
<1> QED BY <1>3, <1>5, <1>8, <1>9 DEF TableInv

LEMMA FinishRight ==
    ASSUME TableInv, Finish
    PROVE  TableInv' /\ \A k \in Key : Get(t, k) # Nil => k \in returned
<1>1. Sound(t) /\ Position \in Nat /\ Len(t.array) \in Nat /\ Size(t) \in Nat
  BY PositionTyped, TableFacts DEF TableInv, Sound
<1>2. PICK p \in Nat : p = Position
  BY <1>1
<1>3. NextFrom(t, p) = {} /\ traversal = "on"
  BY <1>2 DEF Finish
<1>4. ASSUME NEW k \in Key, Get(t, k) # Nil, k \notin returned
      PROVE  FALSE
  <2>1. PICK i : i = FindIndex(t, k)
    OBVIOUS
  <2>2. i \in Nat /\ Numbered(t, i) /\ Element(t, i)[2] # Nil
    BY <1>1, <1>4, <2>1, FieldNumber
  <2>3. ~(i <= p)
    BY <1>2, <1>3, <1>4, <2>1 DEF TableInv, TraversalRight
  <2>4. PICK l \in Nat : l = Len(t.array) + Size(t)
    BY <1>1
  <2>5. PICK T : T = {n \in p + 1 .. l : Element(t, n)[2] # Nil}
    OBVIOUS
  <2>6. i \in p + 1 .. l
    BY <2>2, <2>3, <2>4 DEF Numbered
  <2>7. T \subseteq Nat /\ i \in T
    BY <2>2, <2>5, <2>6
  <2>8. PICK j \in T : \A n \in T : j <= n
    BY <2>7, LeastNumber
  <2>9. \A n \in p + 1 .. j - 1 : Element(t, n)[2] = Nil
    BY <2>5, <2>8
  <2>10. j \in NextFrom(t, p)
    BY <2>4, <2>5, <2>8, <2>9 DEF NextFrom
  <2> QED BY <1>3, <2>10
<1>5. t' = t /\ control' = Nil /\ traversal' = "finished" /\ returned' = {} /\ used' = used
  BY DEF Finish
<1>6. TraversalRight'
  BY <1>5 DEF TraversalRight
<1> QED BY <1>4, <1>5, <1>6 DEF TableInv

-----------------------------------------------------------------------------
(* The invariant of the specification                                      *)

LEMMA StepRight ==
    ASSUME TableInv, [Next]_vars
    PROVE  TableInv'
<1>1. CASE Set
  BY <1>1, SetIs, SetRight
<1>2. CASE SetFails
  BY <1>2, SetFailsIs, SetFailsRight
<1>3. CASE Collect
  BY <1>3, CollectRight
<1>4. CASE ResizeArray
  BY <1>4, ResizeArrayRight
<1>5. CASE Start
  BY <1>5, StartRight
<1>6. CASE Visit
  BY <1>6, VisitIs, VisitRight
<1>7. CASE Finish
  BY <1>7, FinishRight
<1>8. CASE UNCHANGED vars
  BY <1>8 DEF vars, TableInv, TraversalRight, Position
<1> QED BY <1>1, <1>2, <1>3, <1>4, <1>5, <1>6, <1>7, <1>8 DEF Next

(* The nodes stay in their chains, every key where a search from its main  *)
(* position finds it, and a traversal where it says it is.                 *)
THEOREM TableRight == Spec => []TableInv
<1>1. Init => TableInv
  BY InitRight
<1>2. TableInv /\ [Next]_vars => TableInv'
  BY StepRight
<1> QED BY <1>1, <1>2, PTL DEF Spec

LEMMA SuccIn ==
    ASSUME NEW tb, Sound(tb), NEW m \in DOMAIN tb.node
    PROVE  m + tb.node[m].next \in DOMAIN tb.node
<1>1. PICK chain, order : InOrder(tb.node, chain, order)
  BY DEF Sound, Ordered
<1>2. tb.node[m].next = 0 => m + tb.node[m].next = m
  <2>1. m \in Nat
    BY TableFacts DEF Sound
  <2> QED BY <2>1
<1> QED BY <1>1, <1>2 DEF InOrder, Succ

LEMMA TypeRight ==
    ASSUME TableInv
    PROVE  TypeOK
<1>1. /\ Sound(t) /\ Sized(t) /\ t \in Table /\ FieldsRight(t)
      /\ control \in Key \cup {Nil} /\ traversal \in {"on", "off", "finished"}
      /\ returned \subseteq Key /\ used \in KeySets
  BY DEF TableInv, Sound
<1>2. t.array \in Seq(Val \cup {Nil}) /\ Len(t.array) <= MaxSize
  BY <1>1, TableFacts DEF Sized, Value
<1>3. /\ DOMAIN t.node = 0 .. Size(t) - 1
      /\ Size(t) = 0 \/ \E n \in 0 .. Size(t) : Size(t) = TwoTo[n]
  BY <1>1, TableFacts DEF Sized, IsSize
<1>4. t.lastfree \in 0 .. Size(t)
  <2>1. t.lastfree \in Nat /\ Size(t) \in Nat /\ t.lastfree <= Size(t)
    BY <1>1, TableFacts DEF FieldsRight
  <2> QED BY <2>1
<1>5. ASSUME NEW m \in DOMAIN t.node
      PROVE  /\ t.node[m].key \in Key \cup {Nil} /\ t.node[m].val \in Val \cup {Nil}
             /\ t.node[m].dead \in BOOLEAN
             /\ (t.node[m].dead => t.node[m].key \in Collectable)
             /\ m + t.node[m].next \in DOMAIN t.node
  BY <1>1, NodeTyped, SuccIn DEF FieldsRight, Value
<1> QED BY <1>1, <1>2, <1>3, <1>4, <1>5 DEF TypeOK

(* The table is what its declaration says: a vector of a power of two of   *)
(* nodes, whose links stay inside it.                                      *)
THEOREM TableTypeOK == Spec => []TypeOK
<1>1. TableInv => TypeOK
  BY TypeRight
<1> QED BY <1>1, TableRight, PTL

(* next finds the key it stopped at, as long as only fields that exist     *)
(* are assigned to.                                                        *)
THEOREM NextNeverFails == Spec => []TraversalGoesOn
<1>1. TableInv => TraversalGoesOn
  BY DEF TableInv, TraversalRight, TraversalGoesOn, CanGoOn
<1> QED BY <1>1, TableRight, PTL

LEMMA NodesLeft ==
    ASSUME TableInv
    PROVE  FreeNodes
<1>1. Sound(t)
  BY DEF TableInv
<1>2. PICK chain, order : InOrder(t.node, chain, order) /\ KeysPlaced(t, chain, order)
  BY <1>1 DEF Sound, Ordered
<1>3. ASSUME NEW m \in DOMAIN t.node, t.node[m].key = Nil
      PROVE  /\ m < t.lastfree /\ t.node[m].next = 0
             /\ \A p \in DOMAIN t.node \ {m} : p + t.node[p].next # m
  <2>1. Unused(t, chain, m)
    BY <1>2, <1>3 DEF KeysPlaced
  <2>2. t.node[m].next = 0
    BY <2>1 DEF Unused, FreeNode
  <2>3. ASSUME NEW p \in DOMAIN t.node, p # m PROVE p + t.node[p].next # m
    <3>1. p \in Nat /\ t.node[p].next \in Int
      BY <1>1, NodeTyped DEF Sound
    <3>2. CASE t.node[p].next = 0
      BY <2>3, <3>1, <3>2
    <3>3. CASE t.node[p].next # 0
      BY <1>2, <2>1, <2>3, <3>3 DEF InOrder, Succ, Unused
    <3> QED BY <3>2, <3>3
  <2> QED BY <2>1, <2>2, <2>3 DEF Unused
<1> QED BY <1>3 DEF FreeNodes

(* getfreepos loses no node, and the node it finds is in no chain: the     *)
(* assertion of luaH_newkey.                                               *)
THEOREM FreeNodesFound == Spec => []FreeNodes
<1>1. TableInv => FreeNodes
  BY NodesLeft
<1> QED BY <1>1, TableRight, PTL

-----------------------------------------------------------------------------
(* A rehash                                                                *)

LEMMA ChangesByAssignment ==
    ASSUME TableInv, [Next]_vars, NEW k \in Key, Get(t', k) # Get(t, k)
    PROVE  \E v : SetsKey(k, v)
<1>1. Set
  <2>1. CASE SetFails
    BY <2>1, SetFailsIs, SetFailsRight
  <2>2. CASE Collect
    BY <2>2, CollectRight
  <2>3. CASE ResizeArray
    BY <2>3, ResizeArrayRight
  <2>4. ASSUME t' = t PROVE FALSE
    BY <2>4
  <2>5. Start \/ Visit \/ Finish \/ UNCHANGED vars => t' = t
    BY DEF Start, Visit, Finish, vars
  <2> QED BY <2>1, <2>2, <2>3, <2>4, <2>5 DEF Next
<1>2. PICK x, v : SetsKey(x, v)
  BY <1>1, SetIs
<1>3. \A z \in Key \ {x} : Get(t', z) = Get(t, z)
  BY <1>2, SetRight DEF Stores
<1>4. k = x
  BY <1>3
<1> QED BY <1>2, <1>4

LEMMA RehashHalf ==
    ASSUME TableInv, [Next]_vars, NEW k \in Key, ~Present(t, k), ~CanPlace(t, k), Get(t', k) # Nil,
           NEW fields, fields = {i \in ArrayIndices(Key) : Get(t, i) # Nil \/ i = k}
    PROVE  /\ Len(t'.array) = 0 \/ \E j \in 0 .. Last : Len(t'.array) = TwoTo[j] /\ MoreThanHalf(fields, TwoTo[j])
           /\ \A j \in 0 .. Last : MoreThanHalf(fields, TwoTo[j]) => TwoTo[j] <= Len(t'.array)
<1>1. Get(t, k) = Nil
  BY PresentField DEF TableInv
<1>2. PICK v : SetsKey(k, v)
  BY <1>1, ChangesByAssignment
<1>3. HasArrayFor(t, k, t')
  BY <1>2, SetRight DEF Stores
<1>4. fields = ArrayIndices(FieldsOf(t, k))
  BY DEF ArrayIndices, FieldsOf
<1>5. PICK s : Best(fields, Last, s) /\ Len(t'.array) = s.optimal
  BY <1>3, <1>4 DEF HasArrayFor
<1> QED BY <1>5 DEF Best

(* A rehash makes the array part as large as it can be with more than half *)
(* of it in use.                                                           *)
THEOREM ArrayInUse == Spec => ArrayMoreThanHalf
<1> DEFINE Wanted(k) == {i \in ArrayIndices(Key) : Get(t, i) # Nil \/ i = k}
           Sizes == {TwoTo[i] : i \in 0 .. Last}
           Good(k) == /\ Len(t'.array) \in {n \in Sizes : MoreThanHalf(Wanted(k), n)} \cup {0}
                      /\ \A n \in Sizes : MoreThanHalf(Wanted(k), n) => n <= Len(t'.array)
<1>1. ASSUME TableInv, [Next]_vars, NEW k \in Key, ~Present(t, k), ~CanPlace(t, k), Get(t', k) # Nil
      PROVE  Good(k)
  <2>1. PICK fields : fields = Wanted(k)
    OBVIOUS
  <2>2. /\ Len(t'.array) = 0 \/ \E j \in 0 .. Last : Len(t'.array) = TwoTo[j] /\ MoreThanHalf(fields, TwoTo[j])
        /\ \A j \in 0 .. Last : MoreThanHalf(fields, TwoTo[j]) => TwoTo[j] <= Len(t'.array)
    BY <1>1, <2>1, RehashHalf
  <2>3. Len(t'.array) \in {n \in Sizes : MoreThanHalf(fields, n)} \cup {0}
    BY <2>2
  <2>4. \A n \in Sizes : MoreThanHalf(fields, n) => n <= Len(t'.array)
    BY <2>2
  <2> QED BY <2>1, <2>3, <2>4
<1>2. TableInv /\ [Next]_vars =>
        [\A k \in Key : ~Present(t, k) /\ ~CanPlace(t, k) /\ Get(t', k) # Nil => Good(k)]_vars
  BY <1>1
<1>3. TableInv /\ [Next]_vars =>
        [\A k \in Key :
            LET fields == {i \in ArrayIndices(Key) : Get(t, i) # Nil \/ i = k}
                Half(n) == 2 * Cardinality({i \in fields : i <= n}) > n
                sizes == {TwoTo[i] : i \in 0..CeilLog2(2 * MaxSize + 1)}
            IN (~Present(t, k) /\ ~CanPlace(t, k) /\ Get(t', k) # Nil) =>
                 /\ Len(t'.array) \in {n \in sizes : Half(n)} \cup {0}
                 /\ \A n \in sizes : Half(n) => n <= Len(t'.array)]_vars
  BY <1>2 DEF MoreThanHalf, Count, Last
<1> QED BY <1>3, TableRight, PTL DEF Spec, ArrayMoreThanHalf

-----------------------------------------------------------------------------
(* The refinement of LuaMap                                                *)

MapOf(tb) == [k \in Key |-> Get(tb, k)]

LEMMA SameMap ==
    ASSUME \A x \in Key : Get(t', x) = Get(t, x)
    PROVE  MapOf(t)' = MapOf(t)
BY DEF MapOf

LEMMA SetImplements ==
    ASSUME TableInv, NEW k, NEW v, SetsKey(k, v)
    PROVE  Map!Set \/ Map!Abandon \/ UNCHANGED <<MapOf(t), traversal, returned>>
<1>1. k \in Key /\ v \in Value /\ Assigned(k)
  BY DEF SetsKey
<1>2. Get(t', k) = v /\ \A x \in Key \ {k} : Get(t', x) = Get(t, x)
  BY SetRight DEF Stores
<1>3. CASE v = Get(t, k)
  <2>1. MapOf(t)' = MapOf(t)
    <3>1. \A x \in Key : Get(t', x) = Get(t, x)
      BY <1>2, <1>3
    <3> QED BY <3>1, SameMap
  <2>2. CASE v = Nil
    BY <1>1, <1>3, <2>1, <2>2 DEF Assigned, Map!Abandon, MapOf
  <2>3. CASE v # Nil
    BY <1>1, <1>3, <2>1, <2>3 DEF Assigned
  <2> QED BY <2>2, <2>3
<1>4. CASE v # Get(t, k)
  <2>1. {x \in Key : MapOf(t)'[x] # MapOf(t)[x]} = {k}
    <3>1. \A x \in Key : MapOf(t)'[x] = Get(t', x) /\ MapOf(t)[x] = Get(t, x)
      BY DEF MapOf
    <3> QED BY <1>1, <1>2, <1>4, <3>1
  <2>2. DOMAIN MapOf(t)' = Key /\ MapOf(t)'[k] = v /\ MapOf(t)[k] = Get(t, k)
    BY <1>1, <1>2 DEF MapOf
  <2>3. Map!Set
    BY <1>1, <2>1, <2>2 DEF Map!Set, MapOf, Assigned, Value
  <2> QED BY <2>3
<1> QED BY <1>3, <1>4

(* Assignments, traversals, the collector and failures, step by step: the  *)
(* table is the map it promises to be.                                     *)
THEOREM TableIsMap == Spec => ImplementsMap
<1>1. Init => Map!Init
  <2>1. ASSUME Init PROVE \A x \in Key : Get(t, x) = Nil
    <3>1. PICK na \in Asked, nh \in Asked : t = Resize(NewTable, na, nh)
      BY <2>1 DEF Init
    <3>2. na \in Nat /\ nh \in Nat
      BY TableAssumption
    <3>3. PICK tb : tb = NewTable /\ Sound(tb) /\ \A x \in Key : Get(tb, x) = Nil
      BY NewTableSound
    <3>4. PICK F : F = {}
      OBVIOUS
    <3>5. IsFiniteSet(F) /\ Cardinality(F) = 0
      BY <3>4, FS_EmptySet
    <3>6. Suffices(tb, na, nh, F)
      BY <3>2, <3>3, <3>4, <3>5 DEF Suffices
    <3> QED BY <3>1, <3>2, <3>3, <3>6, ResizeFacts
  <2> QED BY <2>1 DEF Init, Map!Init
<1>2. ASSUME TableInv, [Next]_vars
      PROVE  Map!Next \/ UNCHANGED <<MapOf(t), traversal, returned>>
  <2>1. CASE Set
    BY <1>2, <2>1, SetIs, SetImplements DEF Map!Next
  <2>2. CASE SetFails
    <3>1. PICK k, D : FailsKey(k, D)
      BY <1>2, <2>2, SetFailsIs
    <3>2. (\A x \in Key : Get(t', x) = Get(t, x)) /\ Get(t, k) = Nil
      BY <1>2, <3>1, SetFailsRight
    <3>3. MapOf(t)' = MapOf(t) /\ traversal' = "off" /\ returned' = {}
      BY <3>1, <3>2, SameMap DEF FailsKey, Assigned
    <3> QED BY <3>3 DEF Map!Next, Map!Abandon, MapOf
  <2>3. CASE Collect
    <3>1. MapOf(t)' = MapOf(t)
      BY <1>2, <2>3, CollectRight, SameMap
    <3> QED BY <2>3, <3>1 DEF Collect
  <2>4. CASE ResizeArray
    <3>1. MapOf(t)' = MapOf(t)
      BY <1>2, <2>4, ResizeArrayRight, SameMap
    <3> QED BY <2>4, <3>1 DEF ResizeArray, Map!Next, Map!Abandon, MapOf
  <2>5. CASE Start
    BY <2>5 DEF Start, Map!Next, Map!Start
  <2>6. CASE Visit
    <3>1. PICK k, j : VisitsKey(k, j)
      BY <1>2, <2>6, VisitIs
    <3>2. k \in Key /\ Get(t, k) # Nil /\ k \notin returned
      BY <1>2, <3>1, VisitRight
    <3>3. Map!Visit(k)
      BY <3>1, <3>2 DEF VisitsKey, Map!Visit
    <3> QED BY <3>2, <3>3 DEF Map!Next
  <2>7. CASE Finish
    <3>1. \A k \in Key : Get(t, k) # Nil => k \in returned
      BY <1>2, <2>7, FinishRight
    <3> QED BY <2>7, <3>1 DEF Finish, Map!Next, Map!Finish
  <2>8. CASE UNCHANGED vars
    BY <2>8 DEF vars, MapOf
  <2> QED BY <1>2, <2>1, <2>2, <2>3, <2>4, <2>5, <2>6, <2>7, <2>8 DEF Next
<1>3. TableInv /\ [Next]_vars => [Map!Next]_<<[k \in Key |-> Get(t, k)], traversal, returned>>
  BY <1>2 DEF MapOf
<1> QED BY <1>1, <1>3, TableRight, PTL DEF Spec, ImplementsMap, Map!Spec

-----------------------------------------------------------------------------
(* luaH_getn                                                               *)

(* A loop that does the same to a state, N + 1 times.                      *)
Repeats(g, b, zero, N) == g = [n \in 0 .. N |-> b[IF n = 0 THEN zero ELSE g[n - 1]]]

LEMMA RepeatsExists ==
    ASSUME NEW N \in Nat, NEW S, NEW zero \in S, NEW b \in [S -> S]
    PROVE  \E g \in [0 .. N -> S] : Repeats(g, b, zero, N)
<1>1. PICK step : step = [p \in (1 .. N) \X S |-> b[p[2]]]
  OBVIOUS
<1>2. step \in [(1 .. N) \X S -> S]
  BY <1>1
<1>3. PICK base \in S : base = b[zero]
  OBVIOUS
<1>4. PICK g : Iterates(g, base, step, N, S)
  BY <1>2, RecursionExists DEF Steps
<1>5. ASSUME NEW n \in 0 .. N PROVE g[n] = b[IF n = 0 THEN zero ELSE g[n - 1]]
  <2>1. CASE n = 0
    BY <1>3, <1>4, <2>1 DEF Iterates
  <2>2. CASE n # 0
    <3>1. n \in 1 .. N /\ n - 1 \in 0 .. N
      BY <2>2
    <3>2. g[n] = step[<<n, g[n - 1]>>] /\ g[n - 1] \in S
      BY <1>4, <3>1 DEF Iterates
    <3> QED BY <1>1, <2>2, <3>1, <3>2
  <2> QED BY <2>1, <2>2
<1>6. g \in [0 .. N -> S]
  BY <1>4 DEF Iterates
<1>7. Repeats(g, b, zero, N)
  BY <1>5, <1>6 DEF Repeats
<1> QED BY <1>6, <1>7

(* Binary search: a present and an absent index, closer at every step.     *)
Pair == Nat \X Nat
HalfStep(tb, s) ==
    LET m == (s[1] + s[2]) \div 2
    IN IF s[2] - s[1] <= 1 THEN s
       ELSE IF Absent(tb, m) THEN <<s[1], m>> ELSE <<m, s[2]>>
Halves(f, tb, i, j) == f = [n \in 0 .. j |-> HalfStep(tb, IF n = 0 THEN <<i, j>> ELSE f[n - 1])]
Halving(tb, i, j) == CHOOSE f : Halves(f, tb, i, j)

Starts(tb, i) == i = 0 \/ ~Absent(tb, i)
Between(tb, i, j, s) ==
    /\ s \in Pair /\ i <= s[1] /\ s[1] < s[2] /\ s[2] <= j
    /\ Starts(tb, s[1]) /\ Absent(tb, s[2])

LEMMA HalfStepFacts ==
    ASSUME NEW tb, NEW i \in Nat, NEW j \in Nat, NEW s, Between(tb, i, j, s), NEW r, r = HalfStep(tb, s)
    PROVE  /\ Between(tb, i, j, r)
           /\ r[2] - r[1] <= 1 \/ r[2] - r[1] <= s[2] - s[1] - 1
<1>1. PICK a, b \in Nat : s = <<a, b>>
  BY DEF Between, Pair
<1>2. i <= a /\ a < b /\ b <= j /\ Starts(tb, a) /\ Absent(tb, b)
  BY <1>1 DEF Between
<1>3. PICK m : m = (a + b) \div 2
  OBVIOUS
<1>4. r = IF b - a <= 1 THEN s ELSE IF Absent(tb, m) THEN <<a, m>> ELSE <<m, b>>
  BY <1>1, <1>3 DEF HalfStep
<1>5. CASE b - a <= 1
  BY <1>1, <1>4, <1>5
<1>6. CASE ~(b - a <= 1)
  <2>1. m \in Nat /\ a < m /\ m < b
    BY <1>2, <1>3, <1>6
  <2>2. CASE Absent(tb, m)
    <3>1. r = <<a, m>>
      BY <1>4, <1>6, <2>2
    <3>2. i <= a /\ a < m /\ m <= j /\ m - a <= b - a - 1
      BY <1>2, <2>1
    <3> QED BY <1>1, <1>2, <2>1, <2>2, <3>1, <3>2 DEF Between, Pair
  <2>3. CASE ~Absent(tb, m)
    <3>1. r = <<m, b>>
      BY <1>4, <1>6, <2>3
    <3>2. i <= m /\ m < b /\ b <= j /\ b - m <= b - a - 1
      BY <1>2, <2>1
    <3> QED BY <1>1, <1>2, <2>1, <2>3, <3>1, <3>2 DEF Between, Pair, Starts
  <2> QED BY <2>2, <2>3
<1> QED BY <1>5, <1>6

LEMMA HalfStepTyped ==
    ASSUME NEW tb, NEW s \in Pair
    PROVE  HalfStep(tb, s) \in Pair
<1>1. PICK a, b \in Nat : s = <<a, b>>
  BY DEF Pair
<1>2. PICK m : m = (a + b) \div 2
  OBVIOUS
<1>3. m \in Nat
  BY <1>2
<1>4. HalfStep(tb, s) \in {s, <<a, m>>, <<m, b>>}
  BY <1>1, <1>2 DEF HalfStep
<1> QED BY <1>3, <1>4 DEF Pair

LEMMA BinarySearchFacts ==
    ASSUME NEW tb, NEW i \in Nat, NEW j \in Nat, i < j, Starts(tb, i), Absent(tb, j),
           NEW r, r = BinarySearch(tb, i, j)
    PROVE  r \in Nat /\ r < j /\ Starts(tb, r) /\ Absent(tb, r + 1)
<1>1. PICK s0 : s0 = <<i, j>>
  OBVIOUS
<1>2. s0 \in Pair /\ Between(tb, i, j, s0) /\ s0[2] - s0[1] = j - i
  BY <1>1 DEF Pair, Between
<1>3. PICK b : b = [s \in Pair |-> HalfStep(tb, s)]
  OBVIOUS
<1>4. b \in [Pair -> Pair]
  BY <1>3, HalfStepTyped
<1>5. PICK g \in [0 .. j -> Pair] : Repeats(g, b, s0, j)
  BY <1>2, <1>4, RepeatsExists
<1>6. ASSUME NEW n \in 0 .. j PROVE g[n] = HalfStep(tb, IF n = 0 THEN s0 ELSE g[n - 1])
  <2>1. PICK s : s = IF n = 0 THEN s0 ELSE g[n - 1]
    OBVIOUS
  <2>2. s \in Pair
    <3>1. n # 0 => n - 1 \in 0 .. j
      OBVIOUS
    <3> QED BY <1>2, <2>1, <3>1
  <2>3. g[n] = b[s]
    BY <1>5, <2>1, Zenon DEF Repeats
  <2> QED BY <1>3, <2>1, <2>2, <2>3
<1>7. Halves(g, tb, i, j)
  <2>1. g = [n \in 0 .. j |-> g[n]]
    OBVIOUS
  <2> QED BY <1>1, <1>6, <2>1 DEF Halves
<1>8. PICK f : f = Halving(tb, i, j)
  OBVIOUS
<1>9. Halves(f, tb, i, j)
  BY <1>7, <1>8 DEF Halving
<1>10. \A n \in 0 .. j : f[n] = HalfStep(tb, IF n = 0 THEN s0 ELSE f[n - 1])
  BY <1>1, <1>9, Zenon DEF Halves
<1>11. r = f[j][1]
  BY <1>8, Zenon DEF BinarySearch, Halving, Halves, HalfStep
<1> DEFINE X == {n \in 0 .. j : /\ Between(tb, i, j, f[n])
                                /\ f[n][2] - f[n][1] <= 1 \/ f[n][2] - f[n][1] <= j - n}
<1>12. 0 \in X
  <2>1. f[0] = HalfStep(tb, s0) /\ 0 \in 0 .. j
    BY <1>10
  <2>2. /\ Between(tb, i, j, f[0])
        /\ f[0][2] - f[0][1] <= 1 \/ f[0][2] - f[0][1] <= s0[2] - s0[1] - 1
    BY <1>2, <2>1, HalfStepFacts
  <2>3. PICK w \in Int : w = f[0][2] - f[0][1]
    BY <2>2 DEF Between, Pair
  <2>4. w <= 1 \/ w <= j - 0
    BY <1>2, <2>2, <2>3
  <2> QED BY <2>1, <2>2, <2>3, <2>4
<1>13. ASSUME NEW n \in 0 .. j - 1, n \in X PROVE n + 1 \in X
  <2>1. PICK q \in 0 .. j : q = n + 1 /\ q # 0 /\ q - 1 = n
    OBVIOUS
  <2>2. f[q] = HalfStep(tb, f[n]) /\ Between(tb, i, j, f[n])
    BY <1>10, <1>13, <2>1
  <2>3. /\ Between(tb, i, j, f[q])
        /\ f[q][2] - f[q][1] <= 1 \/ f[q][2] - f[q][1] <= f[n][2] - f[n][1] - 1
    BY <2>2, HalfStepFacts
  <2>4. PICK w \in Int : w = f[n][2] - f[n][1]
    <3>1. f[n] \in Nat \X Nat
      BY <2>2 DEF Between, Pair
    <3>2. f[n][1] \in Nat /\ f[n][2] \in Nat
      BY <3>1
    <3> QED BY <3>2
  <2>8. PICK w2 \in Int : w2 = f[q][2] - f[q][1]
    <3>1. f[q] \in Nat \X Nat
      BY <2>3 DEF Between, Pair
    <3>2. f[q][1] \in Nat /\ f[q][2] \in Nat
      BY <3>1
    <3> QED BY <3>2
  <2>5. (w <= 1 \/ w <= j - n) /\ (w2 <= 1 \/ w2 <= w - 1)
    BY <1>13, <2>3, <2>4, <2>8
  <2>6. w2 <= 1 \/ w2 <= j - q
    BY <2>1, <2>5
  <2>7. q \in X
    BY <2>3, <2>8, <2>6
  <2> QED BY <2>1, <2>7
<1> HIDE DEF X
<1>14. j \in X
  <2>1. 0 .. j \subseteq X
    BY <1>12, <1>13, UpTo
  <2>2. j \in 0 .. j
    OBVIOUS
  <2> QED BY <2>1, <2>2
<1>15. PICK a, c \in Nat : f[j] = <<a, c>>
  <2>1. f[j] \in Nat \X Nat
    BY <1>14 DEF X, Between, Pair
  <2> QED BY <2>1
<1>16. a < c /\ c <= j /\ Starts(tb, a) /\ Absent(tb, c) /\ (c - a <= 1 \/ c - a <= j - j)
  BY <1>14, <1>15 DEF X, Between
<1>17. c = a + 1 /\ a < j
  BY <1>16
<1> QED BY <1>11, <1>15, <1>16, <1>17

(* Doubling: the search goes on from a present index, or gives up.         *)
Double(tb, s) ==
    IF s = <<>> \/ Absent(tb, s[2]) THEN s
    ELSE IF s[2] > MaxInteger \div 2 THEN <<>> ELSE <<s[2], Wrap(2 * s[2])>>
Doublings(f, tb, j0) == f = [n \in 0 .. MaxInteger |-> Double(tb, IF n = 0 THEN <<j0, j0 + 1>> ELSE f[n - 1])]
DoublingOf(tb, j0) == CHOOSE f : Doublings(f, tb, j0)

Reach(tb, s) ==
    /\ s \in Pair /\ s[1] < s[2] /\ s[2] <= MaxInteger + 1 /\ Starts(tb, s[1])
Goes(tb, s, n) == s = <<>> \/ (Reach(tb, s) /\ (Absent(tb, s[2]) \/ n <= s[2]))

LEMMA DoubleFacts ==
    ASSUME NEW tb, NEW n \in Nat, NEW s, Goes(tb, s, n), NEW r, r = Double(tb, s)
    PROVE  /\ Goes(tb, r, n + 1)
           /\ r # <<>> /\ ~Absent(tb, r[2]) => r[2] <= MaxInteger
<1>1. CASE s = <<>>
  BY <1>1 DEF Double, Goes
<1>2. CASE s # <<>>
  <2>1. PICK a, b \in Nat : s = <<a, b>>
    BY <1>2 DEF Goes, Reach, Pair
  <2>2. a < b /\ b <= MaxInteger + 1 /\ Starts(tb, a) /\ (Absent(tb, b) \/ n <= b)
    BY <1>2, <2>1 DEF Goes, Reach
  <2>3. CASE Absent(tb, b)
    <3>1. r = s
      BY <2>1, <2>3 DEF Double
    <3> QED BY <2>1, <2>3, <3>1, <1>2 DEF Goes
  <2>4. CASE ~Absent(tb, b) /\ b > MaxInteger \div 2
    <3>1. r = <<>>
      BY <2>1, <2>4, <1>2 DEF Double
    <3> QED BY <3>1 DEF Goes
  <2>5. CASE ~Absent(tb, b) /\ ~(b > MaxInteger \div 2)
    <3>1. MaxInteger \in Nat
      BY TableAssumption
    <3>2. 2 * b <= MaxInteger
      BY <2>5, <3>1
    <3>3. PICK q, d \in Nat : q = 2 * b /\ d = 2 * (MaxInteger + 1)
      BY <3>1
    <3>4. q < d /\ q <= MaxInteger /\ b < q /\ n + 1 <= q
      BY <2>2, <2>5, <3>1, <3>2, <3>3
    <3>5. q % d = q
      BY <3>3, <3>4
    <3>6. r = <<b, q>>
      BY <2>1, <2>5, <1>2, <3>3, <3>5 DEF Double, Wrap
    <3>7. r \in Pair /\ r[1] = b /\ r[2] = q /\ r # <<>>
      BY <3>6 DEF Pair
    <3>8. q <= MaxInteger + 1
      BY <3>1, <3>4
    <3> QED BY <2>5, <3>4, <3>7, <3>8 DEF Goes, Reach, Starts
  <2> QED BY <2>3, <2>4, <2>5
<1> QED BY <1>1, <1>2

LEMMA DoubleTyped ==
    ASSUME NEW tb, NEW s \in Pair \cup {<<>>}
    PROVE  Double(tb, s) \in Pair \cup {<<>>}
<1>1. CASE s = <<>>
  BY <1>1 DEF Double
<1>2. CASE s # <<>>
  <2>1. PICK a, b \in Nat : s = <<a, b>>
    BY <1>2 DEF Pair
  <2>2. PICK q, d \in Nat : q = 2 * b /\ d = 2 * (MaxInteger + 1) /\ d > 0
    BY TableAssumption
  <2>3. q % d \in Nat
    BY <2>2
  <2>4. PICK w \in Nat : w = Wrap(2 * b)
    BY <2>2, <2>3 DEF Wrap
  <2>5. Double(tb, s) \in {s, <<>>, <<b, w>>}
    BY <2>1, <2>4 DEF Double
  <2>6. <<b, w>> \in Pair
    BY DEF Pair
  <2> QED BY <2>5, <2>6
<1> QED BY <1>1, <1>2

LEMMA DoublingFacts ==
    ASSUME NEW tb, NEW j0 \in Nat, j0 <= MaxInteger, Starts(tb, j0), NEW s, s = DoublingOf(tb, j0)[MaxInteger]
    PROVE  s = <<>> \/ (Reach(tb, s) /\ Absent(tb, s[2]))
<1>1. PICK N \in Nat : N = MaxInteger /\ N > 0
  BY TableAssumption
<1>2. PICK s0 : s0 = <<j0, j0 + 1>>
  OBVIOUS
<1>3. PICK S : S = Pair \cup {<<>>}
  OBVIOUS
<1>4. s0 \in Pair /\ s0 \in S /\ Goes(tb, s0, 0)
  BY <1>1, <1>2, <1>3 DEF Pair, Goes, Reach
<1>5. PICK b : b = [x \in S |-> Double(tb, x)]
  OBVIOUS
<1>6. b \in [S -> S]
  BY <1>3, <1>5, DoubleTyped
<1>7. PICK g \in [0 .. N -> S] : Repeats(g, b, s0, N)
  BY <1>4, <1>6, RepeatsExists
<1>8. ASSUME NEW n \in 0 .. N PROVE g[n] = Double(tb, IF n = 0 THEN s0 ELSE g[n - 1])
  <2>1. PICK x : x = IF n = 0 THEN s0 ELSE g[n - 1]
    OBVIOUS
  <2>2. x \in S
    <3>1. n # 0 => n - 1 \in 0 .. N
      OBVIOUS
    <3> QED BY <1>4, <2>1, <3>1
  <2>3. g[n] = b[x]
    BY <1>7, <2>1, Zenon DEF Repeats
  <2> QED BY <1>5, <2>1, <2>2, <2>3
<1>9. Doublings(g, tb, j0)
  <2>1. g = [n \in 0 .. N |-> g[n]]
    OBVIOUS
  <2> QED BY <1>1, <1>2, <1>8, <2>1 DEF Doublings
<1>10. PICK f : f = DoublingOf(tb, j0)
  OBVIOUS
<1>11. Doublings(f, tb, j0)
  BY <1>9, <1>10 DEF DoublingOf
<1>12. \A n \in 0 .. N : f[n] = Double(tb, IF n = 0 THEN s0 ELSE f[n - 1])
  BY <1>1, <1>2, <1>11, Zenon DEF Doublings
<1> DEFINE X == {n \in 0 .. N : /\ Goes(tb, f[n], n + 1)
                                /\ f[n] # <<>> /\ ~Absent(tb, f[n][2]) => f[n][2] <= MaxInteger}
<1>13. 0 \in X
  <2>1. f[0] = Double(tb, s0) /\ 0 \in 0 .. N
    BY <1>12
  <2> QED BY <1>4, <2>1, DoubleFacts
<1>14. ASSUME NEW n \in 0 .. N - 1, n \in X PROVE n + 1 \in X
  <2>1. PICK q \in 0 .. N : q = n + 1 /\ q # 0 /\ q - 1 = n /\ q \in Nat
    OBVIOUS
  <2>2. f[q] = Double(tb, f[n]) /\ Goes(tb, f[n], q)
    BY <1>12, <1>14, <2>1
  <2>3. q \in X
    BY <2>1, <2>2, DoubleFacts
  <2> QED BY <2>1, <2>3
<1> HIDE DEF X
<1>15. N \in X
  <2>1. 0 .. N \subseteq X
    BY <1>13, <1>14, UpTo
  <2>2. N \in 0 .. N
    OBVIOUS
  <2> QED BY <2>1, <2>2
<1>16. s = f[N]
  BY <1>1, <1>10
<1>17. /\ Goes(tb, s, N + 1)
       /\ s # <<>> /\ ~Absent(tb, s[2]) => s[2] <= MaxInteger
  BY <1>15, <1>16 DEF X
<1>18. ASSUME s # <<>>, ~Absent(tb, s[2]) PROVE FALSE
  <2>1. s \in Nat \X Nat /\ N + 1 <= s[2] /\ s[2] <= N
    BY <1>1, <1>17, <1>18 DEF Goes, Reach, Pair
  <2>2. PICK w \in Nat : w = s[2]
    BY <2>1
  <2> QED BY <2>1, <2>2
<1> QED BY <1>17, <1>18 DEF Goes

(* An index the program has no field for is absent.                        *)
LEMMA OutsideAbsent ==
    ASSUME NEW tb, Sound(tb), NEW i \in Int, i \notin Key
    PROVE  Get(tb, i) = Nil
<1>1. tb \in Table /\ FieldsRight(tb)
  BY DEF Sound
<1>2. PICK chain, order : InOrder(tb.node, chain, order) /\ KeysPlaced(tb, chain, order)
  BY DEF Sound, Ordered
<1>3. CASE InArray(tb, i)
  BY <1>1, <1>3 DEF FieldsRight, InArray, Get
<1>4. CASE ~InArray(tb, i)
  <2>1. PICK hits : hits = {m \in WithKey(tb, i) : ~tb.node[m].dead}
    OBVIOUS
  <2>2. hits \subseteq DOMAIN tb.node /\ \A m \in hits : tb.node[m].key = i
    BY <2>1 DEF WithKey
  <2>3. PICK s : s = Search(tb, i, hits)
    OBVIOUS
  <2>4. s = -1 \/ s \in hits
    <3>1. i \in Key \cup Int
      OBVIOUS
    <3>2. Size(tb) = 0 \/ IsFirst(tb.node, chain, order, Main(tb, i), hits, s)
      BY <1>1, <1>2, <2>2, <2>3, <3>1, SearchFirst
    <3>3. Size(tb) = 0 => s = -1
      BY <1>1, <1>2, <2>2, <2>3, <3>1, SearchFirst
    <3> QED BY <3>2, <3>3 DEF IsFirst
  <2>5. Get(tb, i) = IF s >= 0 THEN tb.node[s].val ELSE Nil
    BY <1>4, <2>1, <2>3 DEF Get, NodeOf
  <2>6. ASSUME s \in hits PROVE tb.node[s].val = Nil
    <3>1. s \in DOMAIN tb.node /\ tb.node[s].key = i
      BY <2>2, <2>6
    <3>2. tb.node[s].key = Nil
      BY <1>1, <3>1, NodeTyped
    <3> QED BY <1>2, <3>1, <3>2 DEF KeysPlaced, Unused, FreeNode
  <2>7. s = -1 => ~(s >= 0)
    OBVIOUS
  <2> QED BY <2>4, <2>5, <2>6, <2>7
<1> QED BY <1>3, <1>4

LEMMA AbsentIndex ==
    ASSUME NEW tb, NEW i \in Int, i <= MaxInteger
    PROVE  Absent(tb, i) <=> Get(tb, i) = Nil
<1>1. Signed(i) = i
  BY TableAssumption DEF Signed
<1> QED BY <1>1 DEF Absent

(* What luaH_getn promises.                                                *)
Border(tb, r) ==
    /\ r \in 0 .. MaxInteger
    /\ r > 0 => ~Absent(tb, r)
    /\ r < MaxInteger => Absent(tb, r + 1)

LEMMA LinearSearchFacts ==
    ASSUME NEW tb, Sound(tb), NEW r, r = LinearSearch(tb)
    PROVE  Border(tb, r)
<1>1. PICK N \in Nat : N = MaxInteger
  BY TableAssumption
<1>2. PICK out \in 1 .. N : out \notin Key
  BY <1>1, TableAssumption
<1>3. Absent(tb, out)
  <2>1. out \in Int /\ out <= MaxInteger
    BY <1>1
  <2> QED BY <1>2, <2>1, OutsideAbsent, AbsentIndex
<1>4. PICK T : T = {i \in 1 .. N : Absent(tb, i)}
  OBVIOUS
<1>5. T \subseteq Nat /\ T # {}
  BY <1>2, <1>3, <1>4
<1>6. PICK least \in T : \A i \in T : least <= i
  BY <1>5, LeastNumber
<1>7. least \in 1 .. N + 1 /\ Absent(tb, least) /\ \A n \in 1 .. least - 1 : ~Absent(tb, n)
  BY <1>4, <1>6
<1>8. PICK c \in 1 .. N + 1 : r = c - 1 /\ Absent(tb, c) /\ \A n \in 1 .. c - 1 : ~Absent(tb, n)
  BY <1>1, <1>7 DEF LinearSearch
<1>9. c <= N
  <2>1. ~(out \in 1 .. c - 1)
    BY <1>3, <1>8
  <2> QED BY <1>2, <2>1
<1>10. r \in 0 .. N /\ r + 1 = c /\ (r > 0 => r \in 1 .. c - 1)
  BY <1>8, <1>9
<1> QED BY <1>1, <1>8, <1>10 DEF Border

LEMMA BinaryBorder ==
    ASSUME NEW tb, NEW i \in Nat, NEW j \in Nat, i < j, j <= MaxInteger + 1, Starts(tb, i), Absent(tb, j),
           NEW r, r = BinarySearch(tb, i, j)
    PROVE  Border(tb, r)
<1>1. r \in Nat /\ r < j /\ Starts(tb, r) /\ Absent(tb, r + 1)
  BY BinarySearchFacts
<1>2. MaxInteger \in Nat
  BY TableAssumption
<1>3. r \in 0 .. MaxInteger
  BY <1>1, <1>2
<1> QED BY <1>1, <1>3 DEF Border, Starts

LEMMA UnboundSearchFacts ==
    ASSUME NEW tb, Sound(tb), NEW j0 \in Nat, j0 <= MaxInteger, Starts(tb, j0), NEW r, r = UnboundSearch(tb, j0)
    PROVE  Border(tb, r)
<1>1. PICK s : s = DoublingOf(tb, j0)[MaxInteger]
  OBVIOUS
<1>2. s = <<>> \/ (Reach(tb, s) /\ Absent(tb, s[2]))
  BY <1>1, DoublingFacts
<1>3. r = IF s = <<>> THEN LinearSearch(tb) ELSE BinarySearch(tb, s[1], s[2])
  <2>1. UnboundSearch(tb, j0) =
          IF DoublingOf(tb, j0)[MaxInteger] = <<>> THEN LinearSearch(tb)
          ELSE BinarySearch(tb, DoublingOf(tb, j0)[MaxInteger][1], DoublingOf(tb, j0)[MaxInteger][2])
    BY ONLY Zenon DEF UnboundSearch, DoublingOf, Doublings, Double
  <2> QED BY <1>1, <2>1
<1>4. CASE s = <<>>
  BY <1>3, <1>4, LinearSearchFacts
<1>5. CASE s # <<>>
  <2>1. PICK a, b \in Nat : s = <<a, b>>
    BY <1>2, <1>5 DEF Reach, Pair
  <2>2. a < b /\ b <= MaxInteger + 1 /\ Starts(tb, a) /\ Absent(tb, b)
    BY <1>2, <1>5, <2>1 DEF Reach
  <2>3. r = BinarySearch(tb, a, b)
    BY <1>3, <1>5, <2>1
  <2> QED BY <2>2, <2>3, BinaryBorder
<1> QED BY <1>4, <1>5

LEMMA GetnFacts ==
    ASSUME NEW tb, Sound(tb), Sized(tb), NEW r, r = Getn(tb)
    PROVE  Border(tb, r)
<1>1. tb \in Table
  BY DEF Sound
<1>2. PICK j \in Nat : j = Len(tb.array) /\ j <= MaxInteger /\ Len(tb.array) <= MaxSize
  <2>1. Len(tb.array) \in Nat
    BY <1>1, TableFacts
  <2> QED BY <2>1, TableAssumption DEF Sized
<1>3. ASSUME j > 0 PROVE Get(tb, j) = tb.array[j] /\ (Absent(tb, j) <=> Get(tb, j) = Nil)
  <2>1. j \in 1 .. Len(tb.array)
    BY <1>2, <1>3
  <2> QED BY <1>2, <2>1, AbsentIndex DEF Get, InArray
<1>4. CASE j > 0 /\ tb.array[j] = Nil
  <2>1. r = BinarySearch(tb, 0, j)
    BY <1>2, <1>4 DEF Getn
  <2>2. j <= MaxInteger + 1 /\ 0 < j
    BY <1>2, <1>4, TableAssumption
  <2>3. Absent(tb, j)
    BY <1>3, <1>4
  <2> QED BY <2>1, <2>2, <2>3, BinaryBorder DEF Starts
<1>5. CASE ~(j > 0 /\ tb.array[j] = Nil)
  <2>1. Starts(tb, j)
    BY <1>2, <1>3, <1>5 DEF Starts
  <2>2. CASE Size(tb) = 0
    <3>1. r = j
      BY <1>2, <1>5, <2>2 DEF Getn
    <3>2. ASSUME j < MaxInteger PROVE Absent(tb, j + 1)
      <4>1. ~InArray(tb, j + 1)
        BY <1>2 DEF InArray
      <4>2. NodeOf(tb, j + 1) = -1
        BY <2>2 DEF NodeOf, Search
      <4>3. Get(tb, j + 1) = Nil
        BY <4>1, <4>2 DEF Get
      <4>4. j + 1 \in Int /\ j + 1 <= MaxInteger
        BY <3>2, TableAssumption
      <4> QED BY <4>3, <4>4, AbsentIndex
    <3>3. j \in 0 .. MaxInteger
      BY <1>2, TableAssumption
    <3> QED BY <2>1, <3>1, <3>2, <3>3 DEF Border, Starts
  <2>3. CASE Size(tb) # 0
    <3>1. r = UnboundSearch(tb, j)
      BY <1>2, <1>5, <2>3 DEF Getn
    <3> QED BY <1>2, <2>1, <3>1, UnboundSearchFacts
  <2> QED BY <2>2, <2>3
<1> QED BY <1>4, <1>5

(* The length operator returns a border, whatever the array part and the   *)
(* nodes hold, and up to the largest integer.                              *)
THEOREM LengthIsBorder == Spec => []BorderFound
<1>1. ASSUME TableInv PROVE BorderFound
  <2>1. PICK r : r = Getn(t)
    OBVIOUS
  <2>2. Border(t, r)
    BY <1>1, <2>1, GetnFacts DEF TableInv
  <2>3. r \in 0 .. MaxInteger /\ r \in Int /\ MaxInteger \in Nat
    BY <2>2, TableAssumption DEF Border
  <2>4. r > 0 => Get(t, r) # Nil
    <3>1. r <= MaxInteger
      BY <2>3
    <3> QED BY <2>2, <2>3, <3>1, AbsentIndex DEF Border
  <2>5. ASSUME r < MaxInteger PROVE Get(t, r + 1) = Nil
    <3>1. r + 1 <= MaxInteger /\ r + 1 \in Int
      BY <2>3, <2>5
    <3> QED BY <2>2, <2>5, <3>1, AbsentIndex DEF Border
  <2> QED BY <2>1, <2>3, <2>4, <2>5 DEF BorderFound
<1> QED BY <1>1, TableRight, PTL
===============================================================================
