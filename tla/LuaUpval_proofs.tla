--------------------------- MODULE LuaUpval_proofs ---------------------------
(***************************************************************************)
(* Theorems about upvalues for any threads, closures and prototypes.       *)
(*                                                                         *)
(* The invariant IInv says what the lists are (ListRight, OpenRight,       *)
(* TwupsRight, FreedEmpty), that references are counted (CountsRight),     *)
(* that who is alive refers to nobody who is not (AliveClosed), and, for   *)
(* that to survive the end of marking, what black objects have done        *)
(* (ColorsRight): the closed values of a black closure are marked and its  *)
(* open upvalues touched.  Then remarkupvals and the last traversal of     *)
(* all marked threads reach everything that an open upvalue holds.         *)
(*                                                                         *)
(* From the same invariant, each step is one of LuaCells, or none: slots   *)
(* and captures are references, what they refer to is an address, and two  *)
(* share a cell when their addresses are equal.                            *)
(***************************************************************************)
EXTENDS LuaUpval, SequenceTheorems, FiniteSetTheorems, WellFoundedInduction, TLAPS

-----------------------------------------------------------------------------
(* Numbers                                                                 *)

LessThan == {p \in Nat \X Nat : p[1] < p[2]}

LEMMA LeastNumber ==
    ASSUME NEW T, T \subseteq Nat, T # {}
    PROVE  \E n \in T : \A m \in T : n <= m
<1>1. IsWellFoundedOn(LessThan, Nat)
  BY NatLessThanWellFounded DEF OpToRel, LessThan
<1>2. PICK n \in T : \A m \in T : <<m, n>> \notin LessThan
  BY <1>1, WFMin
<1>3. ASSUME NEW m \in T PROVE n <= m
  <2>1. m \in Nat /\ n \in Nat /\ <<m, n>> \notin LessThan
    BY <1>2
  <2> QED BY <2>1 DEF LessThan
<1> QED BY <1>3

(* Induction up to N, for the numbers in a set.                            *)
LEMMA UpTo ==
    ASSUME NEW N \in Nat, NEW X, 0 \in X, \A n \in 0 .. N - 1 : n \in X => n + 1 \in X
    PROVE  0 .. N \subseteq X
<1> DEFINE T == {n \in 0 .. N : n \notin X}
<1>1. SUFFICES ASSUME T # {} PROVE FALSE
  OBVIOUS
<1>2. T \subseteq Nat
  OBVIOUS
<1> HIDE DEF T
<1>3. PICK n \in T : \A m \in T : n <= m
  BY <1>1, <1>2, LeastNumber
<1>4. n \in 0 .. N /\ n \notin X /\ n # 0
  BY <1>3 DEF T
<1>5. n - 1 \in 0 .. N - 1 /\ (n - 1) + 1 = n
  BY <1>4
<1>6. n - 1 \notin T
  BY <1>3, <1>4, <1>5
<1> QED BY <1>4, <1>5, <1>6 DEF T

(* A recursive function of the numbers up to N exists.                     *)
Steps(step, N, S) == step \in [(1 .. N) \X S -> S]
Iterates(f, base, step, N, S) ==
    /\ f \in [0 .. N -> S]
    /\ f[0] = base /\ \A i \in 1 .. N : f[i] = step[<<i, f[i - 1]>>]

LEMMA RecursionExists ==
    ASSUME NEW N \in Nat, NEW S, NEW base \in S, NEW step, Steps(step, N, S)
    PROVE  \E f : Iterates(f, base, step, N, S)
<1> USE DEF Steps
<1> DEFINE Begins(g, n) == g[0] = base /\ \A i \in 1 .. n : g[i] = step[<<i, g[i - 1]>>]
           X == {n \in Nat : \E g \in [0 .. n -> S] : Begins(g, n)}
<1>1. 0 \in X
  <2>1. [i \in 0 .. 0 |-> base] \in [0 .. 0 -> S] /\ Begins([i \in 0 .. 0 |-> base], 0)
    OBVIOUS
  <2> QED BY <2>1
<1>2. ASSUME NEW n \in 0 .. N - 1, n \in X PROVE n + 1 \in X
  <2>1. PICK g \in [0 .. n -> S] : Begins(g, n)
    BY <1>2
  <2>2. n + 1 \in 1 .. N /\ n \in 0 .. n /\ n + 1 \in Nat
    OBVIOUS
  <2> DEFINE h == [i \in 0 .. n + 1 |-> IF i = n + 1 THEN step[<<n + 1, g[n]>>] ELSE g[i]]
  <2>3. h \in [0 .. n + 1 -> S]
    BY <2>1, <2>2
  <2>4. \A i \in 0 .. n : h[i] = g[i]
    BY <2>2
  <2>5. h[n + 1] = step[<<n + 1, h[n]>>]
    <3>1. n + 1 \in 0 .. n + 1 /\ h[n + 1] = step[<<n + 1, g[n]>>]
      BY <2>2
    <3> QED BY <2>2, <2>4, <3>1
  <2> HIDE DEF h
  <2>6. ASSUME NEW i \in 1 .. n + 1 PROVE h[i] = step[<<i, h[i - 1]>>]
    <3>1. CASE i = n + 1
      BY <2>2, <2>5, <3>1
    <3>2. CASE i # n + 1
      <4>1. i \in 1 .. n /\ i \in 0 .. n /\ i - 1 \in 0 .. n
        BY <3>2
      <4> QED BY <2>1, <2>4, <4>1
    <3> QED BY <3>1, <3>2
  <2>7. h[0] = base
    BY <2>1, <2>4
  <2>8. \E e \in [0 .. n + 1 -> S] : Begins(e, n + 1)
    BY <2>3, <2>6, <2>7
  <2> QED BY <2>2, <2>8
<1> HIDE DEF X
<1>3. N \in X
  BY <1>1, <1>2, UpTo
<1>4. PICK f \in [0 .. N -> S] : Begins(f, N)
  BY <1>3 DEF X
<1> QED BY <1>4 DEF Iterates

-----------------------------------------------------------------------------
(* Sequences                                                               *)

LEMMA InSeq ==
    ASSUME NEW S, NEW s \in Seq(S)
    PROVE  /\ Len(s) \in Nat /\ DOMAIN s = 1 .. Len(s) /\ ToSet(s) \subseteq S
           /\ \A i \in DOMAIN s : s[i] \in S /\ s[i] \in ToSet(s)
           /\ \A x \in ToSet(s) : \E i \in DOMAIN s : s[i] = x
<1>1. Len(s) \in Nat /\ DOMAIN s = 1 .. Len(s) /\ \A i \in DOMAIN s : s[i] \in S
  OBVIOUS
<1> QED BY <1>1, Zenon DEF ToSet

LEMMA EmptyDomain ==
    ASSUME NEW S, NEW s \in Seq(S), DOMAIN s = {}
    PROVE  s = <<>>
<1>1. Len(s) \in Nat /\ DOMAIN s = 1 .. Len(s)
  OBVIOUS
<1>2. 1 \notin 1 .. Len(s)
  BY <1>1
<1>3. Len(s) = 0
  BY <1>1, <1>2
<1> QED BY <1>3

LEMMA PrefixFacts ==
    ASSUME NEW S, NEW s \in Seq(S), NEW k \in 0 .. Len(s)
    PROVE  /\ SubSeq(s, 1, k) \in Seq(S) /\ Len(SubSeq(s, 1, k)) = k
           /\ \A p \in 1 .. k : SubSeq(s, 1, k)[p] = s[p]
<1>1. /\ Len(s) \in Nat /\ k \in Int /\ 1 \in Int /\ k >= 0
      /\ \A p \in 1 .. k : s[p] \in S
  OBVIOUS
<1>2. /\ SubSeq(s, 1, k) \in Seq(S)
      /\ Len(SubSeq(s, 1, k)) = IF 1 <= k THEN k - 1 + 1 ELSE 0
      /\ \A i \in 1 .. k - 1 + 1 : SubSeq(s, 1, k)[i] = s[1 + i - 1]
  BY <1>1, SubSeqProperties
<1>3. k - 1 + 1 = k /\ \A i \in 1 .. k : 1 + i - 1 = i
  BY <1>1
<1> QED BY <1>1, <1>2, <1>3

LEMMA SuffixFacts ==
    ASSUME NEW S, NEW s \in Seq(S), NEW k \in 1 .. Len(s) + 1
    PROVE  /\ SubSeq(s, k, Len(s)) \in Seq(S) /\ Len(SubSeq(s, k, Len(s))) = Len(s) + 1 - k
           /\ \A p \in 1 .. Len(s) + 1 - k : SubSeq(s, k, Len(s))[p] = s[p + (k - 1)]
<1> DEFINE n == Len(s)
<1>1. n \in Nat /\ k \in Int /\ n \in Int /\ \A p \in k .. n : s[p] \in S
  OBVIOUS
<1> HIDE DEF n
<1>2. /\ SubSeq(s, k, n) \in Seq(S)
      /\ Len(SubSeq(s, k, n)) = IF k <= n THEN n - k + 1 ELSE 0
      /\ \A i \in 1 .. n - k + 1 : SubSeq(s, k, n)[i] = s[k + i - 1]
  BY <1>1, SubSeqProperties
<1>3. k <= n + 1 /\ k >= 1
  BY DEF n
<1>4. n - k + 1 = n + 1 - k /\ \A i \in 1 .. n + 1 - k : k + i - 1 = i + (k - 1)
  BY <1>1
<1>5. Len(SubSeq(s, k, n)) = n + 1 - k
  BY <1>1, <1>2, <1>3
<1>6. \A p \in 1 .. n + 1 - k : SubSeq(s, k, n)[p] = s[p + (k - 1)]
  BY <1>2, <1>4
<1> QED BY <1>2, <1>5, <1>6 DEF n

LEMMA PutFacts ==
    ASSUME NEW S, NEW s \in Seq(S), NEW k \in 1 .. Len(s) + 1, NEW x \in S
    PROVE  /\ Put(s, k, x) \in Seq(S)
           /\ k \in DOMAIN Put(s, k, x) /\ Put(s, k, x)[k] = x
           /\ \A i \in DOMAIN s : i \in DOMAIN Put(s, k, x) /\ (i # k => Put(s, k, x)[i] = s[i])
           /\ \A i \in DOMAIN Put(s, k, x) : i # k => i \in DOMAIN s
<1>1. Len(s) \in Nat /\ DOMAIN s = 1 .. Len(s)
  OBVIOUS
<1>2. CASE k > Len(s)
  <2>1. k = Len(s) + 1 /\ Put(s, k, x) = Append(s, x)
    BY <1>1, <1>2 DEF Put
  <2>2. /\ Append(s, x) \in Seq(S) /\ Len(Append(s, x)) = Len(s) + 1
        /\ \A i \in 1 .. Len(s) : Append(s, x)[i] = s[i]
        /\ Append(s, x)[Len(s) + 1] = x
    BY AppendProperties
  <2>3. DOMAIN Append(s, x) = 1 .. Len(s) + 1
    BY <2>2
  <2> QED BY <1>1, <2>1, <2>2, <2>3
<1>3. CASE ~(k > Len(s))
  <2>1. k \in 1 .. Len(s) /\ Put(s, k, x) = [s EXCEPT ![k] = x]
    BY <1>1, <1>3 DEF Put
  <2> QED BY <1>1, <2>1
<1> QED BY <1>2, <1>3

LEMMA InsertFacts ==
    ASSUME NEW S, NEW s \in Seq(S), NEW k \in 1 .. Len(s) + 1, NEW x \in S
    PROVE  /\ InsertAt(s, k, x) \in Seq(S) /\ Len(InsertAt(s, k, x)) = Len(s) + 1
           /\ \A i \in 1 .. Len(s) + 1 :
                  InsertAt(s, k, x)[i] = IF i < k THEN s[i] ELSE IF i = k THEN x ELSE s[i - 1]
<1> DEFINE a == SubSeq(s, 1, k - 1)
           b == SubSeq(s, k, Len(s))
           c == a \o <<x>>
<1>1. Len(s) \in Nat /\ k - 1 \in 0 .. Len(s)
  OBVIOUS
<1>2. a \in Seq(S) /\ Len(a) = k - 1 /\ \A p \in 1 .. k - 1 : a[p] = s[p]
  BY <1>1, PrefixFacts
<1>3. /\ b \in Seq(S) /\ Len(b) = Len(s) + 1 - k
      /\ \A p \in 1 .. Len(s) + 1 - k : b[p] = s[p + (k - 1)]
  BY SuffixFacts
<1>4. <<x>> \in Seq(S) /\ Len(<<x>>) = 1 /\ <<x>>[1] = x
  OBVIOUS
<1> HIDE DEF a, b
<1>5. /\ c \in Seq(S) /\ Len(c) = Len(a) + Len(<<x>>)
      /\ \A i \in 1 .. Len(a) + Len(<<x>>) :
             c[i] = IF i <= Len(a) THEN a[i] ELSE <<x>>[i - Len(a)]
  BY <1>2, <1>4, ConcatProperties
<1>6. Len(c) = k /\ \A i \in 1 .. k : c[i] = IF i < k THEN s[i] ELSE x
  <2>1. Len(c) = k
    BY <1>1, <1>2, <1>4, <1>5
  <2>2. \A i \in 1 .. k : i < k => i \in 1 .. k - 1 /\ i <= Len(a)
    BY <1>1, <1>2
  <2>3. ASSUME NEW i \in 1 .. k PROVE c[i] = IF i < k THEN s[i] ELSE x
    <3>1. c[i] = IF i <= Len(a) THEN a[i] ELSE <<x>>[i - Len(a)]
      BY <1>2, <1>4, <1>5
    <3>2. CASE i < k
      BY <1>2, <2>2, <3>1, <3>2
    <3>3. CASE i = k
      <4>1. ~(i <= Len(a)) /\ i - Len(a) = 1
        BY <1>1, <1>2, <3>3
      <4> QED BY <1>4, <3>1, <3>3, <4>1
    <3>4. i < k \/ i = k
      BY <1>1
    <3> QED BY <3>2, <3>3, <3>4
  <2> QED BY <2>1, <2>3
<1> HIDE DEF c
<1>61. c \in Seq(S) /\ b \in Seq(S)
  BY <1>3, <1>5
<1>7. /\ c \o b \in Seq(S) /\ Len(c \o b) = Len(c) + Len(b)
      /\ \A i \in 1 .. Len(c) + Len(b) : (c \o b)[i] = IF i <= Len(c) THEN c[i] ELSE b[i - Len(c)]
  BY <1>61, ConcatProperties
<1>8. InsertAt(s, k, x) = c \o b
  BY DEF InsertAt, a, b, c
<1>9. Len(c) + Len(b) = Len(s) + 1
  BY <1>1, <1>3, <1>6
<1>10. ASSUME NEW i \in 1 .. Len(s) + 1
       PROVE  (c \o b)[i] = IF i < k THEN s[i] ELSE IF i = k THEN x ELSE s[i - 1]
  <2>1. (c \o b)[i] = IF i <= k THEN c[i] ELSE b[i - k]
    BY <1>6, <1>7, <1>9
  <2>2. CASE i <= k
    BY <1>6, <2>1, <2>2
  <2>3. CASE i > k
    <3>1. i - k \in 1 .. Len(s) + 1 - k /\ (i - k) + (k - 1) = i - 1 /\ ~(i <= k) /\ ~(i < k) /\ i # k
      BY <1>1, <2>3
    <3> QED BY <1>3, <2>1, <3>1
  <2>4. i <= k \/ i > k
    BY <1>1
  <2> QED BY <2>2, <2>3, <2>4
<1> QED BY <1>7, <1>8, <1>9, <1>10

LEMMA RemoveFacts ==
    ASSUME NEW S, NEW s \in Seq(S), NEW k \in 1 .. Len(s)
    PROVE  /\ RemoveAt(s, k) \in Seq(S) /\ Len(RemoveAt(s, k)) = Len(s) - 1
           /\ \A i \in 1 .. Len(s) - 1 : RemoveAt(s, k)[i] = IF i < k THEN s[i] ELSE s[i + 1]
<1> DEFINE a == SubSeq(s, 1, k - 1)
           b == SubSeq(s, k + 1, Len(s))
<1>1. Len(s) \in Nat /\ k - 1 \in 0 .. Len(s) /\ k + 1 \in 1 .. Len(s) + 1
  OBVIOUS
<1>2. a \in Seq(S) /\ Len(a) = k - 1 /\ \A p \in 1 .. k - 1 : a[p] = s[p]
  BY <1>1, PrefixFacts
<1>3. /\ b \in Seq(S) /\ Len(b) = Len(s) + 1 - (k + 1)
      /\ \A p \in 1 .. Len(s) + 1 - (k + 1) : b[p] = s[p + ((k + 1) - 1)]
  BY <1>1, SuffixFacts
<1> HIDE DEF a, b
<1>4. /\ a \o b \in Seq(S) /\ Len(a \o b) = Len(a) + Len(b)
      /\ \A i \in 1 .. Len(a) + Len(b) : (a \o b)[i] = IF i <= Len(a) THEN a[i] ELSE b[i - Len(a)]
  BY <1>2, <1>3, ConcatProperties
<1>5. RemoveAt(s, k) = a \o b
  BY DEF RemoveAt, a, b
<1>6. Len(a) + Len(b) = Len(s) - 1
  BY <1>1, <1>2, <1>3
<1>7. ASSUME NEW i \in 1 .. Len(s) - 1
      PROVE  (a \o b)[i] = IF i < k THEN s[i] ELSE s[i + 1]
  <2>1. (a \o b)[i] = IF i <= k - 1 THEN a[i] ELSE b[i - (k - 1)]
    BY <1>2, <1>4, <1>6
  <2>2. CASE i < k
    BY <1>1, <1>2, <2>1, <2>2
  <2>3. CASE i >= k
    <3>1. i - (k - 1) \in 1 .. Len(s) + 1 - (k + 1) /\ (i - (k - 1)) + ((k + 1) - 1) = i + 1
          /\ ~(i <= k - 1) /\ ~(i < k)
      BY <1>1, <2>3
    <3> QED BY <1>3, <2>1, <3>1
  <2>4. i < k \/ i >= k
    BY <1>1
  <2> QED BY <2>2, <2>3, <2>4
<1> QED BY <1>4, <1>5, <1>6, <1>7

(* What a list has after something was put before it.                      *)
LEMMA ConcatElements ==
    ASSUME NEW S, NEW a \in Seq(S), NEW b \in Seq(S)
    PROVE  a \o b \in Seq(S) /\ ToSet(a \o b) = ToSet(a) \cup ToSet(b)
<1>1. /\ a \o b \in Seq(S) /\ Len(a \o b) = Len(a) + Len(b)
      /\ \A i \in 1 .. Len(a) + Len(b) : (a \o b)[i] = IF i <= Len(a) THEN a[i] ELSE b[i - Len(a)]
  BY ConcatProperties
<1>2. Len(a) \in Nat /\ Len(b) \in Nat
  OBVIOUS
<1>3. ASSUME NEW x \in ToSet(a \o b) PROVE x \in ToSet(a) \cup ToSet(b)
  <2>1. PICK i \in 1 .. Len(a) + Len(b) : (a \o b)[i] = x
    BY <1>1, InSeq
  <2>2. CASE i <= Len(a)
    <3>1. i \in DOMAIN a /\ a[i] = x
      BY <1>1, <1>2, <2>1, <2>2
    <3> QED BY <3>1, InSeq
  <2>3. CASE ~(i <= Len(a))
    <3>1. i - Len(a) \in DOMAIN b /\ b[i - Len(a)] = x
      BY <1>1, <1>2, <2>1, <2>3
    <3> QED BY <3>1, InSeq
  <2> QED BY <2>2, <2>3
<1>4. ASSUME NEW x \in ToSet(a) PROVE x \in ToSet(a \o b)
  <2>1. PICK i \in DOMAIN a : a[i] = x
    BY InSeq
  <2>2. i \in DOMAIN (a \o b) /\ (a \o b)[i] = x
    BY <1>1, <1>2, <2>1
  <2> QED BY <1>1, <2>2, InSeq
<1>5. ASSUME NEW x \in ToSet(b) PROVE x \in ToSet(a \o b)
  <2>1. PICK i \in DOMAIN b : b[i] = x
    BY InSeq
  <2>2. Len(a) + i \in 1 .. Len(a) + Len(b) /\ ~(Len(a) + i <= Len(a)) /\ (Len(a) + i) - Len(a) = i
    BY <1>2, <2>1
  <2>3. Len(a) + i \in DOMAIN (a \o b) /\ (a \o b)[Len(a) + i] = x
    BY <1>1, <2>1, <2>2
  <2> QED BY <1>1, <2>3, InSeq
<1> QED BY <1>1, <1>3, <1>4, <1>5

-----------------------------------------------------------------------------
(* The inductive invariant, in named parts.                                *)

Alive == Objects \ dead
Values(S) == S \cup {Nil}

(* allgc is a list of different objects, the dead ones are in it.          *)
ListRight ==
    /\ \A i, j \in DOMAIN allgc : i # j => allgc[i] # allgc[j]
    /\ mainthread \notin ToSet(allgc) /\ dead \subseteq ToSet(allgc)

(* openupval of a thread are the upvalues whose v is one of its slots.     *)
OpenRight ==
    /\ \A t \in Thread : \A i \in DOMAIN openupval[t] :
           /\ v[openupval[t][i]] = <<t, Level(openupval[t][i])>>
           /\ Level(openupval[t][i]) \in DOMAIN stack[t]
    /\ \A t \in Thread : \A i, j \in DOMAIN openupval[t] :
           i < j => Level(openupval[t][i]) > Level(openupval[t][j])
    /\ \A u \in UpVal : upisopen(u) => u \in ToSet(openupval[v[u][1]])

(* Nothing is left of what was freed.                                      *)
FreedEmpty ==
    /\ \A t \in Thread \ Objects : openupval[t] = <<>> /\ stack[t] = <<>>
    /\ \A c \in LClosure \ Objects : upvals[c] = <<>>

CountsRight ==
    \A u \in UpVal :
        /\ refcount[u] = Uses(LClosure)[u]
        /\ v[u] = Own => refcount[u] > 0
        /\ v[u] = Free => refcount[u] = 0

(* Who is alive refers to nobody who is not.                               *)
AliveClosed ==
    /\ chain[1] = mainthread /\ ToSet(chain) \subseteq Alive
    /\ \A o \in Alive : Refers(o) \subseteq Values(Alive)

TwupsRight ==
    /\ ToSet(twups) \subseteq Alive
    /\ \A t \in Thread \cap Alive : openupval[t] # <<>> => t \in ToSet(twups)

CacheRight ==
    \A p \in Proto : cache[p] # None => p \in bound.protos /\ cache[p] \in Alive

(* A black closure has its closed values marked and its open upvalues      *)
(* touched; a black prototype has a marked closure in its cache.           *)
ColorsRight ==
    /\ gcstate # "sweep" => dead = {}
    /\ gcstate # "propagate" => marked = {} /\ black \cap LClosure = {}
    /\ gcstate = "pause" => black = {}
    /\ gcstate = "propagate" =>
        /\ mainthread \in marked /\ marked \subseteq Objects /\ black \cap LClosure \subseteq marked
        /\ \A c \in black \cap LClosure : \A u \in Upvals(c) :
               IF upisopen(u) THEN touched[u] ELSE value[u] \in Values(marked)
        /\ \A p \in black \cap Proto : cache[p] \in marked \cup {None}

(* The closure that is being made is where the program has put it, and     *)
(* what it captures still exists.                                          *)
MakingRight ==
    Working =>
        /\ making.ra \in DOMAIN stack[L] /\ stack[L][making.ra] = making.cl
        /\ making.cl \notin black /\ proto[making.cl] \in bound.protos
        /\ Len(upvals[making.cl]) = Len(upvalues[proto[making.cl]])
        /\ making.enc # None => making.enc \in InSlots
        /\ Allowed(proto[making.cl], making.enc, making.base)


IInv ==
    /\ TypeOK /\ ListRight /\ OpenRight /\ FreedEmpty /\ CountsRight /\ AliveClosed
    /\ TwupsRight /\ CacheRight /\ ColorsRight /\ MakingRight

-----------------------------------------------------------------------------
(* Open upvalues                                                           *)

LEMMA OpenAddress ==
    ASSUME TypeOK, NEW u \in UpVal
    PROVE  /\ v[u] \in {Own, Free} \cup (Thread \X Nat)
           /\ upisopen(u) => /\ v[u][1] \in Thread /\ v[u][2] \in Nat /\ Level(u) = v[u][2]
                             /\ v[u] = <<v[u][1], v[u][2]>>
<1>1. v[u] \in {Own, Free} \cup (Thread \X Nat)
  BY DEF TypeOK
<1> QED BY <1>1 DEF upisopen, Level

LEMMA AddressOpen ==
    ASSUME NEW t \in Thread, NEW l \in Nat
    PROVE  <<t, l>> \notin {Own, Free} /\ <<t, l>>[1] = t /\ <<t, l>>[2] = l
  BY UpvalAssumption

(* The elements of openupval[t] are open and in t, and no others are.      *)
LEMMA ListedOpen ==
    ASSUME TypeOK, OpenRight, NEW t \in Thread
    PROVE  /\ openupval[t] \in Seq(UpVal)
           /\ \A i \in DOMAIN openupval[t] :
                 /\ openupval[t][i] \in UpVal /\ upisopen(openupval[t][i])
                 /\ v[openupval[t][i]][1] = t /\ v[openupval[t][i]][2] = Level(openupval[t][i])
                 /\ Level(openupval[t][i]) \in DOMAIN stack[t] /\ Level(openupval[t][i]) \in Nat
           /\ \A u \in UpVal : upisopen(u) /\ v[u][1] = t =>
                 \E i \in DOMAIN openupval[t] : openupval[t][i] = u
<1>1. openupval[t] \in Seq(UpVal) /\ stack[t] \in Seq(Value)
  BY DEF TypeOK
<1>2. ASSUME NEW i \in DOMAIN openupval[t]
      PROVE  /\ openupval[t][i] \in UpVal /\ upisopen(openupval[t][i])
             /\ v[openupval[t][i]][1] = t /\ v[openupval[t][i]][2] = Level(openupval[t][i])
             /\ Level(openupval[t][i]) \in DOMAIN stack[t] /\ Level(openupval[t][i]) \in Nat
  <2>1. PICK u : u = openupval[t][i]
    OBVIOUS
  <2>2. PICK l : l = Level(u)
    OBVIOUS
  <2>3. v[u] = <<t, l>> /\ l \in DOMAIN stack[t]
    BY <2>1, <2>2 DEF OpenRight
  <2>4. l \in Nat /\ u \in UpVal
    BY <1>1, <2>1, <2>3, InSeq
  <2> QED BY <2>1, <2>2, <2>3, <2>4, AddressOpen DEF upisopen
<1>3. ASSUME NEW u \in UpVal, upisopen(u), v[u][1] = t
      PROVE  \E i \in DOMAIN openupval[t] : openupval[t][i] = u
  <2>1. u \in ToSet(openupval[t])
    BY <1>3 DEF OpenRight
  <2> QED BY <1>1, <2>1, InSeq
<1> QED BY <1>1, <1>2, <1>3

LEMMA StopFacts ==
    ASSUME TypeOK, OpenRight, NEW t \in Thread, NEW l \in Nat
    PROVE  /\ Stop(t, l) \in 1 .. Len(openupval[t]) + 1
           /\ \A i \in DOMAIN openupval[t] : i < Stop(t, l) <=> Level(openupval[t][i]) >= l
<1> DEFINE list == openupval[t]
           lower == {i \in DOMAIN list : Level(list[i]) < l}
<1>1. /\ Len(list) \in Nat /\ DOMAIN list = 1 .. Len(list)
      /\ \A i \in DOMAIN list : Level(list[i]) \in Nat
      /\ \A i, j \in DOMAIN list : i < j => Level(list[i]) > Level(list[j])
  <2>1. list \in Seq(UpVal) /\ \A i \in DOMAIN list : Level(list[i]) \in Nat
    BY ListedOpen
  <2> QED BY <2>1, InSeq DEF OpenRight
<1>2. Stop(t, l) = IF lower = {} THEN Len(list) + 1
                   ELSE CHOOSE i \in lower : \A j \in lower : i <= j
  BY DEF Stop
<1> HIDE DEF list
<1>3. lower \subseteq Nat /\ lower \subseteq 1 .. Len(list)
  BY <1>1
<1>4. CASE lower = {}
  <2>1. \A i \in DOMAIN list : i < Len(list) + 1 /\ Level(list[i]) >= l
    BY <1>1, <1>4
  <2>2. Stop(t, l) = Len(list) + 1 /\ Len(list) + 1 \in 1 .. Len(list) + 1
    BY <1>1, <1>2, <1>4
  <2> QED BY <2>1, <2>2 DEF list
<1>5. CASE lower # {}
  <2>1. \E i \in lower : \A j \in lower : i <= j
    BY <1>3, <1>5, LeastNumber
  <2>2. PICK k : k = Stop(t, l)
    OBVIOUS
  <2>3. k \in lower /\ \A j \in lower : k <= j
    <3>1. k = CHOOSE i \in lower : \A j \in lower : i <= j
      BY <1>2, <1>5, <2>2
    <3> HIDE DEF lower
    <3> QED BY <2>1, <3>1
  <2>4. k \in 1 .. Len(list) /\ k \in DOMAIN list /\ Level(list[k]) < l
    BY <1>1, <1>3, <2>3
  <2>5. ASSUME NEW i \in DOMAIN list PROVE i < k <=> Level(list[i]) >= l
    <3>1. i \in Nat /\ k \in Nat /\ Level(list[i]) \in Nat /\ Level(list[k]) \in Nat
      BY <1>1, <2>4
    <3>2. CASE i < k
      <4>1. i \notin lower
        BY <2>3, <3>1, <3>2
      <4> QED BY <3>1, <3>2, <4>1
    <3>3. CASE i = k
      BY <2>4, <3>1, <3>3
    <3>4. CASE k < i
      <4>1. Level(list[k]) > Level(list[i])
        BY <1>1, <2>4, <3>4
      <4> QED BY <2>4, <3>1, <3>4, <4>1
    <3> QED BY <3>1, <3>2, <3>3, <3>4
  <2>6. Len(list) \in Nat
    BY <1>1
  <2> QED BY <2>2, <2>4, <2>5, <2>6 DEF list
<1> QED BY <1>4, <1>5

(* The open upvalues of t from a level on.                                 *)
Above(t, l) == {u \in UpVal : upisopen(u) /\ v[u][1] = t /\ v[u][2] >= l}

LEMMA ClosingAbove ==
    ASSUME TypeOK, OpenRight, NEW t \in Thread, NEW l \in Nat
    PROVE  /\ Closing(t, l) = Above(t, l)
           /\ Kept(t, l) = {u \in Above(t, l) : refcount[u] > 0}
           /\ Found(t, l) = {u \in Above(t, l) : v[u][2] = l}
<1> DEFINE list == openupval[t]
           k == Stop(t, l)
           first == SubSeq(list, 1, k - 1)
<1>1. list \in Seq(UpVal) /\ Len(list) \in Nat /\ DOMAIN list = 1 .. Len(list)
  BY ListedOpen, InSeq
<1>2. k \in 1 .. Len(list) + 1 /\ \A i \in DOMAIN list : i < k <=> Level(list[i]) >= l
  BY StopFacts
<1> HIDE DEF list, k
<1>3. k - 1 \in 0 .. Len(list) /\ k \in Nat
  BY <1>1, <1>2
<1>4. /\ first \in Seq(UpVal) /\ Len(first) = k - 1
      /\ \A p \in 1 .. k - 1 : first[p] = list[p]
  BY <1>1, <1>3, PrefixFacts
<1> HIDE DEF first
<1>5. DOMAIN first = 1 .. k - 1 /\ ToSet(first) = {first[i] : i \in DOMAIN first}
  BY <1>4, InSeq DEF ToSet
<1>6. ASSUME NEW u \in ToSet(first) PROVE u \in Above(t, l) /\ Level(u) = v[u][2]
  <2>1. PICK i \in 1 .. k - 1 : u = first[i]
    BY <1>5
  <2>2. i \in DOMAIN list /\ u = list[i] /\ i < k
    BY <1>1, <1>3, <1>4, <2>1
  <2>3. u \in UpVal /\ upisopen(u) /\ v[u][1] = t /\ v[u][2] = Level(u)
    BY <2>2, ListedOpen DEF list
  <2>4. Level(u) >= l
    BY <1>2, <2>2
  <2> QED BY <2>3, <2>4 DEF Above
<1>7. ASSUME NEW u \in Above(t, l) PROVE u \in ToSet(first)
  <2>1. u \in UpVal /\ upisopen(u) /\ v[u][1] = t /\ v[u][2] >= l
    BY DEF Above
  <2>2. PICK i \in DOMAIN list : list[i] = u
    BY <2>1, ListedOpen DEF list
  <2>3. i < k
    BY <1>2, <2>1, <2>2 DEF Level
  <2>4. i \in 1 .. k - 1
    BY <1>1, <1>3, <2>2, <2>3
  <2> QED BY <1>4, <1>5, <2>2, <2>4
<1>8. ToSet(first) = Above(t, l)
  BY <1>6, <1>7
<1>9. Closing(t, l) = ToSet(first)
  BY DEF Closing, first, k, list
<1>10. Found(t, l) = {u \in ToSet(first) : Level(u) = l}
  BY DEF Found, first, k, list
<1>11. Found(t, l) = {u \in Above(t, l) : v[u][2] = l}
  BY <1>6, <1>8, <1>10
<1> QED BY <1>8, <1>9, <1>11 DEF Kept

LEMMA AtFacts ==
    ASSUME TypeOK, OpenRight, NEW u \in UpVal
    PROVE  /\ At(u) \in Value
           /\ upisopen(u) => /\ At(u) = stack[v[u][1]][v[u][2]]
                             /\ v[u][2] \in DOMAIN stack[v[u][1]] /\ v[u][1] \in Thread
           /\ ~upisopen(u) => At(u) = value[u]
<1>1. CASE upisopen(u)
  <2>1. v[u][1] \in Thread
    BY <1>1, OpenAddress
  <2>2. PICK t \in Thread : t = v[u][1]
    BY <2>1
  <2>3. PICK i \in DOMAIN openupval[t] : openupval[t][i] = u
    BY <1>1, <2>2, ListedOpen
  <2>4. v[u][2] \in DOMAIN stack[t]
    BY <2>3, ListedOpen
  <2>5. stack[t] \in Seq(Value)
    BY DEF TypeOK
  <2>6. stack[t][v[u][2]] \in Value
    BY <2>4, <2>5
  <2> QED BY <1>1, <2>2, <2>4, <2>6 DEF At
<1>2. CASE ~upisopen(u)
  BY <1>2 DEF At, TypeOK
<1> QED BY <1>1, <1>2

LEMMA CloseFacts ==
    ASSUME TypeOK, OpenRight, NEW t \in Thread, NEW l \in Nat, luaF_close(t, l)
    PROVE  /\ openupval' \in [Thread -> Seq(UpVal)]
           /\ v' \in [UpVal -> {Own, Free} \cup (Thread \X Nat)] /\ value' \in [UpVal -> Value]
           /\ touched' \in [UpVal -> BOOLEAN]
           /\ \A u \in UpVal :
                 IF u \notin Above(t, l)
                 THEN v'[u] = v[u] /\ value'[u] = value[u] /\ touched'[u] = touched[u]
                 ELSE IF refcount[u] > 0 THEN v'[u] = Own /\ value'[u] = At(u)
                 ELSE v'[u] = Free /\ value'[u] = value[u]
           /\ \A s \in Thread : openupval'[s] =
                 IF s = t THEN SubSeq(openupval[t], Stop(t, l), Len(openupval[t])) ELSE openupval[s]
<1>1. Closing(t, l) = Above(t, l) /\ Kept(t, l) = {u \in Above(t, l) : refcount[u] > 0}
  BY ClosingAbove
<1>2. PICK k : k = Stop(t, l)
  OBVIOUS
<1>3. openupval' = [openupval EXCEPT ![t] = SubSeq(@, k, Len(@))]
  BY <1>2 DEF luaF_close
<1>4. SubSeq(openupval[t], k, Len(openupval[t])) \in Seq(UpVal) /\ openupval \in [Thread -> Seq(UpVal)]
  BY <1>2, ListedOpen, StopFacts, SuffixFacts DEF TypeOK
<1>5. openupval' \in [Thread -> Seq(UpVal)]
  BY <1>3, <1>4
<1>6. \A s \in Thread : openupval'[s] =
          IF s = t THEN SubSeq(openupval[t], k, Len(openupval[t])) ELSE openupval[s]
  BY <1>3, <1>4
<1>7. /\ v' = [u \in UpVal |-> IF u \in Above(t, l) /\ refcount[u] > 0 THEN Own
                               ELSE IF u \in Above(t, l) THEN Free ELSE v[u]]
      /\ value' = [u \in UpVal |-> IF u \in Above(t, l) /\ refcount[u] > 0 THEN At(u) ELSE value[u]]
      /\ touched' = [u \in UpVal |-> IF u \in Above(t, l) THEN FALSE ELSE touched[u]]
  BY <1>1 DEF luaF_close
<1>8. /\ \A u \in UpVal : At(u) \in Value
      /\ v \in [UpVal -> {Own, Free} \cup (Thread \X Nat)] /\ value \in [UpVal -> Value]
      /\ touched \in [UpVal -> BOOLEAN]
  BY AtFacts DEF TypeOK
<1>9. v' \in [UpVal -> {Own, Free} \cup (Thread \X Nat)] /\ value' \in [UpVal -> Value]
  BY <1>7, <1>8
<1>10. touched' \in [UpVal -> BOOLEAN]
  BY <1>7, <1>8, Zenon
<1>11. \A u \in UpVal :
          IF u \notin Above(t, l)
          THEN v'[u] = v[u] /\ value'[u] = value[u] /\ touched'[u] = touched[u]
          ELSE IF refcount[u] > 0 THEN v'[u] = Own /\ value'[u] = At(u)
          ELSE v'[u] = Free /\ value'[u] = value[u]
  BY <1>7
<1> QED BY <1>2, <1>5, <1>6, <1>9, <1>10, <1>11

(* The slots that remain below a level of t, and those of other threads.   *)
Leaves(t, l) ==
    /\ t \in Thread /\ l \in Nat /\ luaF_close(t, l)
    /\ \A s \in Thread : \A i \in DOMAIN stack[s] : s # t \/ i < l =>
           i \in DOMAIN stack'[s] /\ stack'[s][i] = stack[s][i]

LEMMA CloseOpenRight ==
    ASSUME TypeOK, OpenRight, NEW t, NEW l, Leaves(t, l)
    PROVE  OpenRight'
<1>0. t \in Thread /\ l \in Nat /\ luaF_close(t, l)
  BY DEF Leaves
<1>1. /\ \A u \in UpVal : u \notin Above(t, l) => v'[u] = v[u]
      /\ \A u \in Above(t, l) : v'[u] \in {Own, Free}
      /\ \A s \in Thread : openupval'[s] =
            IF s = t THEN SubSeq(openupval[t], Stop(t, l), Len(openupval[t])) ELSE openupval[s]
  <2>1. Above(t, l) \subseteq UpVal
    BY DEF Above
  <2> QED BY <1>0, <2>1, CloseFacts
<1>2. PICK k : k = Stop(t, l)
  OBVIOUS
<1>3. /\ openupval[t] \in Seq(UpVal) /\ Len(openupval[t]) \in Nat
      /\ DOMAIN openupval[t] = 1 .. Len(openupval[t])
      /\ k \in 1 .. Len(openupval[t]) + 1
      /\ \A i \in DOMAIN openupval[t] : i < k <=> Level(openupval[t][i]) >= l
  BY <1>0, <1>2, ListedOpen, StopFacts, InSeq
<1>4. /\ openupval'[t] = SubSeq(openupval[t], k, Len(openupval[t]))
      /\ openupval'[t] \in Seq(UpVal) /\ Len(openupval'[t]) = Len(openupval[t]) + 1 - k
      /\ \A p \in 1 .. Len(openupval[t]) + 1 - k : openupval'[t][p] = openupval[t][p + (k - 1)]
  <2>1. PICK list : list = openupval[t]
    OBVIOUS
  <2>2. PICK rest : rest = SubSeq(list, k, Len(list))
    OBVIOUS
  <2>3. /\ rest \in Seq(UpVal) /\ Len(rest) = Len(list) + 1 - k
        /\ \A p \in 1 .. Len(list) + 1 - k : rest[p] = list[p + (k - 1)]
    BY <1>3, <2>1, <2>2, SuffixFacts
  <2>4. openupval'[t] = rest
    BY <1>0, <1>1, <1>2, <2>1, <2>2
  <2> QED BY <2>1, <2>2, <2>3, <2>4
<1>5. ASSUME NEW i \in DOMAIN openupval'[t]
      PROVE  /\ i + (k - 1) \in DOMAIN openupval[t] /\ openupval'[t][i] = openupval[t][i + (k - 1)]
             /\ Level(openupval'[t][i]) < l
  <2>1. i \in 1 .. Len(openupval[t]) + 1 - k
    BY <1>4
  <2>2. PICK j : j = i + (k - 1)
    OBVIOUS
  <2>3. j \in DOMAIN openupval[t] /\ ~(j < k) /\ openupval'[t][i] = openupval[t][j]
    BY <1>3, <1>4, <2>1, <2>2
  <2>4. Level(openupval[t][j]) \in Nat
    BY <1>0, <2>3, ListedOpen
  <2>5. Level(openupval[t][j]) < l
    BY <1>0, <1>3, <2>3, <2>4
  <2> QED BY <2>2, <2>3, <2>5
<1>6. ASSUME NEW s \in Thread, NEW i \in DOMAIN openupval'[s]
      PROVE  /\ \E j \in DOMAIN openupval[s] :
                   openupval'[s][i] = openupval[s][j] /\ j = IF s = t THEN i + (k - 1) ELSE i
             /\ openupval'[s][i] \in UpVal /\ v'[openupval'[s][i]] = v[openupval'[s][i]]
             /\ s = t => Level(openupval'[s][i]) < l
  <2>1. PICK j \in DOMAIN openupval[s] :
            openupval'[s][i] = openupval[s][j] /\ j = IF s = t THEN i + (k - 1) ELSE i
    BY <1>1, <1>5
  <2>2. PICK u : u = openupval[s][j]
    OBVIOUS
  <2>3. u \in UpVal /\ v[u][1] = s /\ v[u][2] = Level(u) /\ Level(u) \in Nat
    BY <2>1, <2>2, ListedOpen
  <2>4. s = t => Level(u) < l
    BY <1>5, <2>1, <2>2
  <2>5. u \notin Above(t, l)
    BY <1>0, <2>3, <2>4 DEF Above
  <2> QED BY <1>1, <2>1, <2>2, <2>3, <2>4, <2>5
<1>7. ASSUME NEW s \in Thread, NEW i \in DOMAIN openupval'[s]
      PROVE  /\ v'[openupval'[s][i]] = <<s, v'[openupval'[s][i]][2]>>
             /\ v'[openupval'[s][i]][2] \in DOMAIN stack'[s]
             /\ v'[openupval'[s][i]][2] = Level(openupval'[s][i])
  <2>1. PICK j \in DOMAIN openupval[s] : openupval'[s][i] = openupval[s][j]
    BY <1>6
  <2>2. PICK u : u = openupval[s][j]
    OBVIOUS
  <2>3. v'[u] = v[u] /\ (s = t => Level(u) < l)
    BY <1>6, <2>1, <2>2
  <2>4. v[u] = <<s, Level(u)>> /\ Level(u) \in DOMAIN stack[s]
    BY <2>2 DEF OpenRight
  <2>5. Level(u) \in DOMAIN stack'[s]
    BY <2>3, <2>4 DEF Leaves
  <2>6. v'[u][2] = v[u][2]
    BY <2>3
  <2> QED BY <2>1, <2>2, <2>3, <2>4, <2>5, <2>6 DEF Level
<1>8. ASSUME NEW s \in Thread, NEW i \in DOMAIN openupval'[s], NEW j \in DOMAIN openupval'[s], i < j
      PROVE  v'[openupval'[s][i]][2] > v'[openupval'[s][j]][2]
  <2>1. PICK i2 \in DOMAIN openupval[s] :
            openupval'[s][i] = openupval[s][i2] /\ i2 = IF s = t THEN i + (k - 1) ELSE i
    BY <1>6
  <2>2. PICK j2 \in DOMAIN openupval[s] :
            openupval'[s][j] = openupval[s][j2] /\ j2 = IF s = t THEN j + (k - 1) ELSE j
    BY <1>6
  <2>3. openupval'[s] \in Seq(UpVal)
    BY <1>0, CloseFacts
  <2>4. i \in Nat /\ j \in Nat /\ k \in Nat
    BY <1>3, <2>3
  <2>5. i2 < j2
    BY <1>8, <2>1, <2>2, <2>4
  <2>6. Level(openupval[s][i2]) > Level(openupval[s][j2])
    BY <2>5 DEF OpenRight
  <2> QED BY <1>7, <2>1, <2>2, <2>6
<1>9. ASSUME NEW u \in UpVal, upisopen(u)' PROVE u \in ToSet(openupval'[v'[u][1]])
  <2>1. v'[u] = v[u] /\ upisopen(u) /\ u \notin Above(t, l)
    BY <1>1, <1>9 DEF upisopen
  <2>2. PICK s \in Thread : s = v[u][1]
    BY <2>1, OpenAddress
  <2>3. PICK i \in DOMAIN openupval[s] : openupval[s][i] = u
    BY <2>1, <2>2, ListedOpen
  <2>4. \E j \in DOMAIN openupval'[s] : openupval'[s][j] = u
    <3>1. CASE s # t
      BY <1>1, <2>3, <3>1
    <3>2. CASE s = t
      <4>1. ~(v[u][2] >= l)
        BY <2>1, <2>2, <3>2 DEF Above
      <4>2. ~(Level(openupval[t][i]) >= l)
        BY <2>3, <3>2, <4>1 DEF Level
      <4>3. ~(i < k) /\ i \in 1 .. Len(openupval[t])
        BY <1>3, <2>3, <3>2, <4>2
      <4>4. i - (k - 1) \in 1 .. Len(openupval[t]) + 1 - k /\ (i - (k - 1)) + (k - 1) = i
        BY <1>3, <4>3
      <4>5. PICK j : j = i - (k - 1)
        OBVIOUS
      <4>6. j \in 1 .. Len(openupval'[t]) /\ openupval'[t][j] = openupval[t][i]
        BY <1>4, <4>4, <4>5
      <4>7. j \in DOMAIN openupval'[t]
        BY <1>4, <4>6
      <4> QED BY <2>3, <3>2, <4>6, <4>7
    <3> QED BY <3>1, <3>2
  <2> QED BY <2>1, <2>2, <2>4 DEF ToSet
<1> QED BY <1>7, <1>8, <1>9 DEF OpenRight, Level

-----------------------------------------------------------------------------
(* References to upvalues                                                  *)

PlacesOf(ups, S) == UNION {{<<c, i>> : i \in DOMAIN ups[c]} : c \in S}
PlacesIn(ups, S, u) == {p \in PlacesOf(ups, S) : ups[p[1]][p[2]] = u}
UpvalLists == [LClosure -> Seq(UpVal \cup {None})]

LEMMA PlaceIn ==
    ASSUME NEW ups, NEW S, NEW u, NEW p
    PROVE  p \in PlacesIn(ups, S, u) <=>
             \E c \in S : \E i \in DOMAIN ups[c] : p = <<c, i>> /\ ups[c][i] = u
<1>1. p \in PlacesOf(ups, S) <=> \E c \in S : \E i \in DOMAIN ups[c] : p = <<c, i>>
  <2>1. ASSUME NEW c \in S, NEW i \in DOMAIN ups[c] PROVE <<c, i>> \in PlacesOf(ups, S)
    <3>1. <<c, i>> \in {<<c, j>> : j \in DOMAIN ups[c]}
      OBVIOUS
    <3> QED BY <3>1, Zenon DEF PlacesOf
  <2>2. ASSUME p \in PlacesOf(ups, S) PROVE \E c \in S : \E i \in DOMAIN ups[c] : p = <<c, i>>
    <3>1. PICK c \in S : p \in {<<c, i>> : i \in DOMAIN ups[c]}
      BY <2>2 DEF PlacesOf
    <3> QED BY <3>1
  <2> QED BY <2>1, <2>2
<1>2. p \in PlacesIn(ups, S, u) <=> p \in PlacesOf(ups, S) /\ ups[p[1]][p[2]] = u
  BY DEF PlacesIn
<1>3. \A c, i : p = <<c, i>> => p[1] = c /\ p[2] = i
  OBVIOUS
<1> QED BY <1>1, <1>2, <1>3

LEMMA PlacesFinite ==
    ASSUME NEW ups \in UpvalLists, NEW S, S \subseteq LClosure, NEW u
    PROVE  IsFiniteSet(PlacesIn(ups, S, u)) /\ Cardinality(PlacesIn(ups, S, u)) \in Nat
<1> DEFINE At1(c) == {<<c, i>> : i \in DOMAIN ups[c]}
           f == [c \in S |-> At1(c)]
<1>1. IsFiniteSet(S)
  BY UpvalAssumption, FS_Subset
<1>2. f \in Surjection(S, {At1(c) : c \in S})
  BY DEF Surjection
<1>3. IsFiniteSet({At1(c) : c \in S})
  BY <1>1, <1>2, FS_Surjection
<1>4. ASSUME NEW c \in S PROVE IsFiniteSet(At1(c))
  <2>1. ups[c] \in Seq(UpVal \cup {None})
    BY DEF UpvalLists
  <2>2. DOMAIN ups[c] = 1 .. Len(ups[c]) /\ Len(ups[c]) \in Nat
    BY <2>1
  <2>3. IsFiniteSet(DOMAIN ups[c])
    BY <2>2, FS_Interval
  <2> DEFINE g == [i \in DOMAIN ups[c] |-> <<c, i>>]
  <2>4. g \in Surjection(DOMAIN ups[c], At1(c))
    BY DEF Surjection
  <2> QED BY <2>3, <2>4, FS_Surjection
<1>5. \A X \in {At1(c) : c \in S} : IsFiniteSet(X)
  BY <1>4
<1>6. IsFiniteSet(UNION {At1(c) : c \in S})
  BY <1>3, <1>5, FS_UNION
<1>7. IsFiniteSet(PlacesOf(ups, S))
  BY <1>6 DEF PlacesOf
<1>8. PlacesIn(ups, S, u) \in SUBSET PlacesOf(ups, S)
  BY DEF PlacesIn
<1> QED BY <1>7, <1>8, FS_Subset, FS_CardinalityType

LEMMA UsesPlaces ==
    ASSUME NEW S, NEW u \in UpVal
    PROVE  /\ Uses(S)[u] = Cardinality(PlacesIn(upvals, S, u))
           /\ Uses(S)'[u] = Cardinality(PlacesIn(upvals', S, u))
  BY DEF Uses, PlacesIn, PlacesOf

(* The places of u are the same in both, or there is one more in ups2.     *)
LEMMA SamePlaces ==
    ASSUME NEW ups \in UpvalLists, NEW ups2 \in UpvalLists, NEW u,
           \A c \in LClosure : \A i \in Nat :
               (i \in DOMAIN ups[c] /\ ups[c][i] = u) <=> (i \in DOMAIN ups2[c] /\ ups2[c][i] = u)
    PROVE  PlacesIn(ups, LClosure, u) = PlacesIn(ups2, LClosure, u)
<1>1. \A c \in LClosure : DOMAIN ups[c] \subseteq Nat /\ DOMAIN ups2[c] \subseteq Nat
  BY DEF UpvalLists
<1>2. ASSUME NEW p PROVE p \in PlacesIn(ups, LClosure, u) <=> p \in PlacesIn(ups2, LClosure, u)
  <2>1. p \in PlacesIn(ups, LClosure, u) <=>
           \E c \in LClosure : \E i \in DOMAIN ups[c] : p = <<c, i>> /\ ups[c][i] = u
    BY PlaceIn
  <2>2. p \in PlacesIn(ups2, LClosure, u) <=>
           \E c \in LClosure : \E i \in DOMAIN ups2[c] : p = <<c, i>> /\ ups2[c][i] = u
    BY PlaceIn
  <2> QED BY <1>1, <2>1, <2>2
<1> QED BY <1>2

LEMMA OneMorePlace ==
    ASSUME NEW ups \in UpvalLists, NEW ups2 \in UpvalLists, NEW u,
           NEW d \in LClosure, NEW k \in DOMAIN ups2[d], ups2[d][k] = u,
           ~(k \in DOMAIN ups[d] /\ ups[d][k] = u),
           \A c \in LClosure : \A i \in Nat : <<c, i>> # <<d, k>> =>
               ((i \in DOMAIN ups[c] /\ ups[c][i] = u) <=> (i \in DOMAIN ups2[c] /\ ups2[c][i] = u))
    PROVE  Cardinality(PlacesIn(ups2, LClosure, u)) = Cardinality(PlacesIn(ups, LClosure, u)) + 1
<1>1. \A c \in LClosure : DOMAIN ups[c] \subseteq Nat /\ DOMAIN ups2[c] \subseteq Nat
  BY DEF UpvalLists
<1>2. ASSUME NEW p
      PROVE  p \in PlacesIn(ups2, LClosure, u) <=> p \in PlacesIn(ups, LClosure, u) \/ p = <<d, k>>
  <2>1. p \in PlacesIn(ups, LClosure, u) <=>
           \E c \in LClosure : \E i \in DOMAIN ups[c] : p = <<c, i>> /\ ups[c][i] = u
    BY PlaceIn
  <2>2. p \in PlacesIn(ups2, LClosure, u) <=>
           \E c \in LClosure : \E i \in DOMAIN ups2[c] : p = <<c, i>> /\ ups2[c][i] = u
    BY PlaceIn
  <2>3. p \in PlacesIn(ups2, LClosure, u) => p \in PlacesIn(ups, LClosure, u) \/ p = <<d, k>>
    BY <1>1, <2>1, <2>2
  <2>4. p \in PlacesIn(ups, LClosure, u) => p \in PlacesIn(ups2, LClosure, u)
    BY <1>1, <2>1, <2>2
  <2>5. p = <<d, k>> => p \in PlacesIn(ups2, LClosure, u)
    BY <2>2
  <2> QED BY <2>3, <2>4, <2>5
<1>3. PlacesIn(ups2, LClosure, u) = PlacesIn(ups, LClosure, u) \cup {<<d, k>>}
  BY <1>2
<1>4. <<d, k>> \notin PlacesIn(ups, LClosure, u)
  <2>1. PICK p : p = <<d, k>>
    OBVIOUS
  <2>2. SUFFICES ASSUME p \in PlacesIn(ups, LClosure, u) PROVE FALSE
    BY <2>1
  <2>3. PICK c \in LClosure : \E i \in DOMAIN ups[c] : p = <<c, i>> /\ ups[c][i] = u
    BY <2>2, PlaceIn
  <2>4. PICK i \in DOMAIN ups[c] : p = <<c, i>> /\ ups[c][i] = u
    BY <2>3
  <2>5. c = d /\ i = k
    BY <2>1, <2>4
  <2> QED BY <2>4, <2>5
<1>5. IsFiniteSet(PlacesIn(ups, LClosure, u))
  BY PlacesFinite
<1>6. PICK A : A = PlacesIn(ups, LClosure, u)
  OBVIOUS
<1>7. PICK x : x = <<d, k>>
  OBVIOUS
<1>8. IsFiniteSet(A) /\ x \notin A
  BY <1>4, <1>5, <1>6, <1>7
<1>9. Cardinality(A \cup {x}) = Cardinality(A) + 1
  BY <1>8, FS_AddElement
<1> QED BY <1>3, <1>6, <1>7, <1>9

(* The places of u are those in the closures of S and those in others.     *)
Emptied(ups, ups2, S) ==
    /\ ups \in UpvalLists /\ ups2 \in UpvalLists /\ S \subseteq LClosure
    /\ \A c \in S : ups2[c] = <<>>
    /\ \A c \in LClosure \ S : ups2[c] = ups[c]

Fewer(ups, ups2, S, u) ==
    Cardinality(PlacesIn(ups2, LClosure, u))
      = Cardinality(PlacesIn(ups, LClosure, u)) - Cardinality(PlacesIn(ups, S, u))

LEMMA PartPlaces ==
    ASSUME NEW ups, NEW ups2, NEW u, NEW S, Emptied(ups, ups2, S)
    PROVE  /\ Fewer(ups, ups2, S, u)
           /\ Cardinality(PlacesIn(ups2, LClosure, u)) = Cardinality(PlacesIn(ups, LClosure \ S, u))
<1> USE DEF Emptied, Fewer
<1> DEFINE A == PlacesIn(ups, S, u)
           B == PlacesIn(ups, LClosure \ S, u)
<1>1. ASSUME NEW p
      PROVE  /\ p \in PlacesIn(ups, LClosure, u) <=> p \in A \/ p \in B
             /\ p \in PlacesIn(ups2, LClosure, u) <=> p \in B
             /\ ~(p \in A /\ p \in B)
  <2>1. p \in PlacesIn(ups, LClosure, u) <=>
           \E c \in LClosure : \E i \in DOMAIN ups[c] : p = <<c, i>> /\ ups[c][i] = u
    BY PlaceIn
  <2>2. p \in PlacesIn(ups2, LClosure, u) <=>
           \E c \in LClosure : \E i \in DOMAIN ups2[c] : p = <<c, i>> /\ ups2[c][i] = u
    BY PlaceIn
  <2>3. p \in A <=> \E c \in S : \E i \in DOMAIN ups[c] : p = <<c, i>> /\ ups[c][i] = u
    BY PlaceIn
  <2>4. p \in B <=> \E c \in LClosure \ S : \E i \in DOMAIN ups[c] : p = <<c, i>> /\ ups[c][i] = u
    BY PlaceIn
  <2>5. DOMAIN <<>> = {}
    OBVIOUS
  <2>6. p \in PlacesIn(ups, LClosure, u) <=> p \in A \/ p \in B
    BY <2>1, <2>3, <2>4
  <2>7. p \in PlacesIn(ups2, LClosure, u) <=> p \in B
    BY <2>2, <2>4, <2>5
  <2>8. ~(p \in A /\ p \in B)
    BY <2>3, <2>4
  <2> QED BY <2>6, <2>7, <2>8
<1>2. /\ PlacesIn(ups, LClosure, u) = A \cup B /\ PlacesIn(ups2, LClosure, u) = B
      /\ A \cap B = {}
  BY <1>1
<1>3. IsFiniteSet(A) /\ IsFiniteSet(B) /\ Cardinality(A) \in Nat /\ Cardinality(B) \in Nat
  BY PlacesFinite
<1> HIDE DEF A, B
<1>4. Cardinality(A \cup B) = Cardinality(A) + Cardinality(B) - Cardinality(A \cap B)
  BY <1>3, FS_Union
<1>5. Cardinality(A \cap B) = 0
  BY <1>2, FS_EmptySet
<1>6. Cardinality(B) = Cardinality(A \cup B) - Cardinality(A)
  BY <1>3, <1>4, <1>5
<1> QED BY <1>2, <1>6 DEF A, B

(* An upvalue that a closure has is counted, and in use.                   *)
LEMMA CountedInUse ==
    ASSUME TypeOK, CountsRight, NEW c \in LClosure, NEW i \in DOMAIN upvals[c],
           upvals[c][i] # None
    PROVE  /\ upvals[c][i] \in UpVal /\ refcount[upvals[c][i]] > 0 /\ v[upvals[c][i]] # Free
           /\ upvals[c][i] \in Upvals(c)
<1>1. PICK u : u = upvals[c][i]
  OBVIOUS
<1>2. upvals \in UpvalLists /\ upvals[c] \in Seq(UpVal \cup {None})
  BY DEF TypeOK, UpvalLists
<1>3. u \in UpVal /\ u \in Upvals(c)
  BY <1>1, <1>2, InSeq DEF Upvals
<1>4. <<c, i>> \in PlacesIn(upvals, LClosure, u)
  BY <1>1, PlaceIn
<1>5. IsFiniteSet(PlacesIn(upvals, LClosure, u)) /\ Cardinality(PlacesIn(upvals, LClosure, u)) \in Nat
  BY <1>2, PlacesFinite
<1>6. Cardinality(PlacesIn(upvals, LClosure, u)) # 0
  BY <1>4, <1>5, FS_EmptySet
<1>7. refcount[u] = Cardinality(PlacesIn(upvals, LClosure, u)) /\ (v[u] = Free => refcount[u] = 0)
  BY <1>3, UsesPlaces DEF CountsRight
<1> QED BY <1>1, <1>3, <1>5, <1>6, <1>7

LEMMA UpvalsInUse ==
    ASSUME TypeOK, CountsRight, NEW c \in LClosure, NEW u \in Upvals(c)
    PROVE  u \in UpVal /\ refcount[u] > 0 /\ v[u] # Free
<1>1. upvals[c] \in Seq(UpVal \cup {None})
  BY DEF TypeOK
<1>2. PICK i \in DOMAIN upvals[c] : upvals[c][i] = u
  BY <1>1, InSeq DEF Upvals
<1>3. u # None
  BY DEF Upvals
<1> QED BY <1>2, <1>3, CountedInUse

-----------------------------------------------------------------------------
(* What most operations of the program do                                  *)

(* One object is created, at most.                                         *)
Grows == dead' = dead /\ (allgc' = allgc \/ \E o : New(o))

LEMMA GrowsFacts ==
    ASSUME TypeOK, ListRight, Grows
    PROVE  /\ allgc' \in Seq(GCObject) /\ ListRight'
           /\ Objects \subseteq Objects' /\ Alive \subseteq Alive'
           /\ \A o : New(o) => Objects' = Objects \cup {o} /\ Alive' = Alive \cup {o} /\ o \in GCObject
           /\ Alive' \ Alive \subseteq Objects' \ Objects
           /\ dead \subseteq Objects
<1>1. allgc \in Seq(GCObject) /\ dead \subseteq ToSet(allgc)
  BY DEF TypeOK, ListRight
<1>2. CASE allgc' = allgc
  <2>1. ToSet(allgc') = ToSet(allgc) /\ dead' = dead
    BY <1>2 DEF Grows
  <2>2. ASSUME NEW o, New(o) PROVE FALSE
    <3>1. allgc = <<o>> \o allgc /\ o \in GCObject
      BY <1>2, <2>2 DEF New
    <3>2. <<o>> \in Seq(GCObject) /\ Len(<<o>>) = 1
      BY <3>1
    <3>3. Len(<<o>> \o allgc) = Len(<<o>>) + Len(allgc) /\ Len(allgc) \in Nat
      BY <1>1, <3>2, ConcatProperties
    <3> QED BY <3>1, <3>2, <3>3
  <2>3. ListRight'
    BY <1>2, <2>1 DEF ListRight
  <2> QED BY <1>1, <1>2, <2>1, <2>2, <2>3 DEF Objects, Alive
<1>3. ASSUME NEW o, New(o)
      PROVE  /\ allgc' \in Seq(GCObject) /\ ListRight'
             /\ Objects' = Objects \cup {o} /\ Alive' = Alive \cup {o}
             /\ o \in GCObject \ Objects
  <2>1. o \in GCObject \ Objects /\ allgc' = <<o>> \o allgc
    BY <1>3 DEF New
  <2>2. <<o>> \in Seq(GCObject) /\ Len(<<o>>) = 1 /\ <<o>>[1] = o /\ ToSet(<<o>>) = {o}
    <3>1. <<o>> \in Seq(GCObject) /\ Len(<<o>>) = 1 /\ <<o>>[1] = o
      BY <2>1
    <3>2. \A i \in DOMAIN <<o>> : <<o>>[i] = o
      OBVIOUS
    <3>3. 1 \in DOMAIN <<o>>
      OBVIOUS
    <3>4. ASSUME NEW x \in ToSet(<<o>>) PROVE x = o
      <4>1. PICK i \in DOMAIN <<o>> : <<o>>[i] = x
        BY <3>1, InSeq
      <4> QED BY <3>2, <4>1
    <3>5. o \in ToSet(<<o>>)
      <4>1. <<o>>[1] \in ToSet(<<o>>)
        BY <3>1, <3>3, InSeq
      <4> QED BY <3>1, <4>1
    <3>6. ToSet(<<o>>) = {o}
      BY <3>4, <3>5
    <3> QED BY <3>1, <3>6
  <2>3. allgc' \in Seq(GCObject) /\ ToSet(allgc') = {o} \cup ToSet(allgc)
    <3>1. PICK one : one = <<o>>
      OBVIOUS
    <3>2. one \in Seq(GCObject) /\ ToSet(one) = {o} /\ allgc' = one \o allgc
      BY <2>1, <2>2, <3>1
    <3> QED BY <1>1, <3>2, ConcatElements
  <2>4. /\ Len(allgc') = 1 + Len(allgc) /\ Len(allgc) \in Nat
        /\ \A i \in 1 .. 1 + Len(allgc) : allgc'[i] = IF i <= 1 THEN o ELSE allgc[i - 1]
    <3>1. /\ Len(<<o>> \o allgc) = Len(<<o>>) + Len(allgc)
          /\ \A i \in 1 .. Len(<<o>>) + Len(allgc) : (<<o>> \o allgc)[i] =
                IF i <= Len(<<o>>) THEN <<o>>[i] ELSE allgc[i - Len(<<o>>)]
      BY <1>1, <2>2, ConcatProperties
    <3>2. Len(allgc) \in Nat
      BY <1>1
    <3>3. ASSUME NEW i \in 1 .. 1 + Len(allgc)
          PROVE  allgc'[i] = IF i <= 1 THEN o ELSE allgc[i - 1]
      <4>1. allgc'[i] = IF i <= Len(<<o>>) THEN <<o>>[i] ELSE allgc[i - Len(<<o>>)]
        BY <2>1, <2>2, <3>1
      <4>2. i <= 1 => i = 1
        BY <3>2
      <4> QED BY <2>2, <4>1, <4>2
    <3> QED BY <2>1, <2>2, <3>1, <3>2, <3>3
  <2>5. ASSUME NEW i \in DOMAIN allgc', NEW j \in DOMAIN allgc', i # j PROVE allgc'[i] # allgc'[j]
    <3>1. i \in 1 .. 1 + Len(allgc) /\ j \in 1 .. 1 + Len(allgc)
      BY <2>3, <2>4
    <3>2. \A m \in 1 .. 1 + Len(allgc) : m > 1 =>
              m - 1 \in DOMAIN allgc /\ allgc[m - 1] # o
      <4> TAKE m \in 1 .. 1 + Len(allgc)
      <4> HAVE m > 1
      <4>1. m - 1 \in DOMAIN allgc
        BY <1>1, <2>4
      <4>2. allgc[m - 1] \in ToSet(allgc)
        BY <1>1, <4>1, InSeq
      <4> QED BY <2>1, <4>1, <4>2 DEF Objects
    <3>3. CASE i > 1 /\ j > 1
      <4>1. i - 1 # j - 1
        BY <2>5, <3>1
      <4>2. allgc[i - 1] # allgc[j - 1]
        BY <3>1, <3>2, <3>3, <4>1 DEF ListRight
      <4> QED BY <2>4, <3>1, <3>3, <4>2
    <3>4. CASE i <= 1 /\ j > 1
      BY <2>4, <3>1, <3>2, <3>4
    <3>5. CASE i > 1 /\ j <= 1
      BY <2>4, <3>1, <3>2, <3>5
    <3>6. ~(i <= 1 /\ j <= 1)
      BY <2>5, <3>1
    <3> QED BY <3>1, <3>3, <3>4, <3>5, <3>6
  <2>6. ListRight' /\ dead' = dead
    BY <1>1, <2>1, <2>3, <2>5 DEF ListRight, Objects, Grows
  <2>7. Objects' = Objects \cup {o} /\ o \notin dead
    BY <1>1, <2>1, <2>3 DEF Objects
  <2> QED BY <2>1, <2>3, <2>6, <2>7 DEF Alive
<1>4. dead \subseteq Objects
  BY <1>1 DEF Objects
<1>5. CASE \E o : New(o)
  <2>1. PICK o : New(o)
    BY <1>5
  <2> QED BY <1>3, <1>4, <2>1
<1> QED BY <1>2, <1>4, <1>5 DEF Grows

(* The slots of the threads get what is alive, and no slot is lost.        *)
StackKept ==
    /\ stack' \in [Thread -> Seq(Value)]
    /\ \A t \in Thread : \A i \in DOMAIN stack[t] : i \in DOMAIN stack'[t]
    /\ \A t \in Thread : \A i \in DOMAIN stack'[t] :
           stack'[t][i] \in Values(Alive') \/ (i \in DOMAIN stack[t] /\ stack'[t][i] = stack[t][i])
    /\ \A t \in Thread \ Objects : stack'[t] = stack[t]

Program ==
    /\ Grows
    /\ UNCHANGED <<bound, openupval, v, value, refcount, touched, twups, cache, marked, black,
                   gcstate, emergency>>
    /\ StackKept
    /\ upvals' \in UpvalLists
    /\ \A c \in LClosure :
           upvals'[c] = upvals[c] \/ (c \in Objects' \ Objects /\ ToSet(upvals'[c]) \subseteq {None})

LEMMA ProgramKeeps ==
    ASSUME IInv, Program
    PROVE  /\ ListRight' /\ OpenRight' /\ FreedEmpty' /\ CountsRight' /\ TwupsRight' /\ CacheRight'
           /\ ColorsRight'
           /\ \A o \in Alive' : Refers(o)' \subseteq Values(Alive')
<1>0. TypeOK /\ ListRight /\ OpenRight /\ FreedEmpty /\ CountsRight /\ AliveClosed /\ TwupsRight
      /\ CacheRight /\ ColorsRight
  BY DEF IInv
<1>1. /\ ListRight' /\ Objects \subseteq Objects' /\ Alive \subseteq Alive'
      /\ Alive' \ Alive \subseteq Objects' \ Objects
  BY <1>0, GrowsFacts DEF Program
<1>2. UNCHANGED <<bound, openupval, v, value, refcount, touched, twups, cache, marked, black,
                  gcstate, dead>>
  BY DEF Program, Grows
<1>3. ASSUME NEW c \in LClosure
      PROVE  /\ Upvals(c)' \subseteq Upvals(c)
             /\ c \in Objects => upvals'[c] = upvals[c] /\ Upvals(c)' = Upvals(c)
  <2>1. CASE upvals'[c] = upvals[c]
    BY <2>1 DEF Upvals
  <2>2. CASE c \in Objects' \ Objects /\ ToSet(upvals'[c]) \subseteq {None}
    <3>1. Upvals(c)' = {}
      BY <2>2 DEF Upvals
    <3> QED BY <2>2, <3>1
  <2> QED BY <2>1, <2>2 DEF Program
<1>4. OpenRight'
  <2>1. \A t \in Thread : \A i \in DOMAIN openupval[t] :
            Level(openupval[t][i]) \in DOMAIN stack'[t]
    BY <1>0 DEF OpenRight, Program, StackKept
  <2> QED BY <1>0, <1>2, <2>1 DEF OpenRight, Level, upisopen
<1>5. FreedEmpty'
  <2>1. ASSUME NEW t \in Thread \ Objects' PROVE openupval'[t] = <<>> /\ stack'[t] = <<>>
    BY <1>0, <1>1, <1>2 DEF FreedEmpty, Program, StackKept
  <2>2. ASSUME NEW c \in LClosure \ Objects' PROVE upvals'[c] = <<>>
    BY <1>0, <1>1 DEF FreedEmpty, Program, StackKept
  <2> QED BY <2>1, <2>2 DEF FreedEmpty
<1>6. CountsRight'
  <2>1. ASSUME NEW u \in UpVal PROVE Uses(LClosure)'[u] = Uses(LClosure)[u]
    <3>1. upvals \in UpvalLists /\ upvals' \in UpvalLists /\ u # None
      BY <1>0, UpvalAssumption DEF TypeOK, UpvalLists, Program
    <3>2. ASSUME NEW c \in LClosure, NEW i \in Nat
          PROVE  (i \in DOMAIN upvals[c] /\ upvals[c][i] = u) <=> (i \in DOMAIN upvals'[c] /\ upvals'[c][i] = u)
      <4>1. CASE upvals'[c] = upvals[c]
        BY <4>1
      <4>2. CASE c \in Objects' \ Objects /\ ToSet(upvals'[c]) \subseteq {None}
        <5>1. upvals[c] = <<>>
          BY <1>0, <4>2 DEF FreedEmpty
        <5>2. \A j \in DOMAIN upvals'[c] : upvals'[c][j] = None
          BY <4>2 DEF ToSet
        <5> QED BY <3>1, <5>1, <5>2
      <4> QED BY <4>1, <4>2 DEF Program
    <3>3. PlacesIn(upvals, LClosure, u) = PlacesIn(upvals', LClosure, u)
      BY <3>1, <3>2, SamePlaces
    <3> QED BY <3>3, UsesPlaces
  <2> QED BY <1>0, <1>2, <2>1 DEF CountsRight
<1>7. TwupsRight'
  <2>1. ASSUME NEW t \in Thread \cap Alive', openupval'[t] # <<>> PROVE t \in ToSet(twups')
    <3>1. t \in Objects
      BY <1>0, <1>2, <2>1 DEF FreedEmpty
    <3>2. t \in Alive
      BY <1>1, <2>1, <3>1
    <3> QED BY <1>0, <1>2, <2>1, <3>2 DEF TwupsRight
  <2> QED BY <1>0, <1>1, <1>2, <2>1 DEF TwupsRight
<1>8. CacheRight'
  BY <1>0, <1>1, <1>2 DEF CacheRight
<1>9. ColorsRight'
  <2>1. ASSUME gcstate = "propagate", NEW c \in black \cap LClosure
        PROVE  Upvals(c)' = Upvals(c)
    BY <1>0, <1>3, <2>1 DEF ColorsRight
  <2>2. ASSUME gcstate = "propagate", NEW c \in black \cap LClosure, NEW u \in Upvals(c)'
        PROVE  IF upisopen(u)' THEN touched'[u] ELSE value'[u] \in Values(marked)'
    <3>1. IF upisopen(u) THEN touched[u] ELSE value[u] \in Values(marked)
      BY <1>0, <2>1, <2>2 DEF ColorsRight
    <3> QED BY <1>2, <3>1 DEF upisopen, Values
  <2> QED BY <1>0, <1>1, <1>2, <2>2 DEF ColorsRight
<1>10. ASSUME NEW o \in Alive' PROVE Refers(o)' \subseteq Values(Alive')
  <2>1. CASE o \in Thread
    <3>1. ASSUME NEW i \in DOMAIN stack'[o] PROVE stack'[o][i] \in Values(Alive')
      <4>1. CASE i \in DOMAIN stack[o] /\ stack'[o][i] = stack[o][i]
        <5>1. o \in Objects
          BY <1>0, <2>1, <4>1 DEF FreedEmpty
        <5>2. o \in Alive
          BY <1>1, <1>10, <5>1
        <5>3. stack[o][i] \in Refers(o)
          BY <2>1, <4>1 DEF Refers, ToSet
        <5> QED BY <1>0, <1>1, <4>1, <5>2, <5>3 DEF AliveClosed, Values
      <4> QED BY <2>1, <4>1 DEF Program, StackKept
    <3> QED BY <2>1, <3>1 DEF Refers, ToSet
  <2>2. CASE o \notin Thread
    <3>1. o \in LClosure
      <4>1. allgc' \in Seq(GCObject)
        BY <1>0, GrowsFacts DEF Program
      <4> QED BY <2>2, <4>1, InSeq, UpvalAssumption DEF Alive, Objects, GCObject
    <3>2. ASSUME NEW u \in Upvals(o)' PROVE At(u)' \in Values(Alive')
      <4>1. u \in Upvals(o)
        BY <1>3, <3>1, <3>2
      <4>2. upvals[o] # <<>>
        BY <4>1 DEF Upvals, ToSet
      <4>3. o \in Alive
        BY <1>0, <1>1, <1>10, <3>1, <4>2 DEF FreedEmpty
      <4>4. At(u) \in Values(Alive)
        BY <1>0, <2>2, <4>1, <4>3 DEF AliveClosed, Refers
      <4>5. At(u) \in Values(Alive')
        BY <1>1, <4>4 DEF Values
      <4>6. u \in UpVal
        BY <1>0, <3>1, <4>1, UpvalsInUse
      <4>7. CASE upisopen(u)
        <5>1. At(u) = stack[v[u][1]][v[u][2]] /\ v[u][2] \in DOMAIN stack[v[u][1]] /\ v[u][1] \in Thread
          BY <1>0, <4>6, <4>7, AtFacts
        <5>2. At(u)' = stack'[v[u][1]][v[u][2]]
          BY <1>2, <4>7 DEF At, upisopen
        <5>3. v[u][2] \in DOMAIN stack'[v[u][1]]
          BY <5>1 DEF Program, StackKept
        <5> QED BY <4>5, <5>1, <5>2, <5>3 DEF Program, StackKept
      <4>8. CASE ~upisopen(u)
        <5>1. At(u)' = At(u)
          BY <1>2, <4>8 DEF At, upisopen
        <5> QED BY <4>5, <5>1
      <4> QED BY <4>7, <4>8
    <3> QED BY <2>2, <3>2 DEF Refers
  <2> QED BY <2>1, <2>2
<1> QED BY <1>1, <1>4, <1>5, <1>6, <1>7, <1>8, <1>9, <1>10

-----------------------------------------------------------------------------
(* The steps of the program                                                *)

LEMMA RunningFacts ==
    ASSUME IInv
    PROVE  /\ L \in Thread /\ L \in Alive /\ stack[L] \in Seq(Value)
           /\ Len(chain) \in Nat /\ Len(chain) > 0 /\ DOMAIN chain = 1 .. Len(chain)
           /\ \A i \in DOMAIN chain : chain[i] \in Thread /\ chain[i] \in Alive
           /\ mainthread \in Thread /\ mainthread \in Alive
           /\ InSlots \subseteq Value /\ InSlots \subseteq Values(Alive)
           /\ Nil \in Value /\ Nil \notin GCObject /\ Objects \subseteq GCObject
           /\ \A t \in Thread : t \in GCObject
<1>0. TypeOK /\ AliveClosed
  BY DEF IInv
<1>1. chain \in Seq(Thread) /\ chain # <<>> /\ allgc \in Seq(GCObject)
      /\ stack \in [Thread -> Seq(Value)]
  BY <1>0 DEF TypeOK
<1>2. Len(chain) \in Nat /\ Len(chain) > 0 /\ DOMAIN chain = 1 .. Len(chain)
      /\ \A i \in DOMAIN chain : chain[i] \in Thread /\ chain[i] \in ToSet(chain)
  BY <1>1, InSeq
<1>3. 1 \in DOMAIN chain /\ Len(chain) \in DOMAIN chain
  BY <1>2
<1>4. \A i \in DOMAIN chain : chain[i] \in Thread /\ chain[i] \in Alive
  BY <1>0, <1>2 DEF AliveClosed
<1>5. L \in Thread /\ L \in Alive /\ mainthread \in Thread /\ mainthread \in Alive
  BY <1>0, <1>3, <1>4 DEF L, Last, AliveClosed
<1>6. InSlots = Refers(L) /\ InSlots \subseteq Value
  BY <1>1, <1>5, InSeq DEF InSlots, Refers
<1>7. \A t \in Thread : t \in GCObject
  BY DEF GCObject
<1>8. Objects \subseteq GCObject
  BY <1>1, <1>5, <1>7, InSeq DEF Objects
<1> QED BY <1>0, <1>1, <1>2, <1>4, <1>5, <1>6, <1>7, <1>8, UpvalAssumption DEF AliveClosed, Value

ChainKept ==
    chain' \in Seq(Thread) /\ chain' # <<>> /\ chain'[1] = mainthread /\ ToSet(chain') \subseteq Alive'

LEMMA ProgramRuns ==
    ASSUME IInv, Program, ChainKept, ~Working, UNCHANGED <<proto, making>>
    PROVE  IInv'
<1>1. TypeOK /\ ListRight /\ AliveClosed
  BY DEF IInv
<1>2. allgc' \in Seq(GCObject) /\ dead' = dead
  BY <1>1, GrowsFacts DEF Program, Grows
<1>3. TypeOK'
  BY <1>1, <1>2 DEF TypeOK, Program, ChainKept, StackKept, UpvalLists, Values
<1>4. /\ ListRight' /\ OpenRight' /\ FreedEmpty' /\ CountsRight' /\ TwupsRight' /\ CacheRight'
      /\ ColorsRight' /\ \A o \in Alive' : Refers(o)' \subseteq Values(Alive')
  BY ProgramKeeps
<1>5. AliveClosed'
  BY <1>4 DEF AliveClosed, ChainKept
<1>6. MakingRight'
  BY DEF MakingRight, Working
<1> QED BY <1>3, <1>4, <1>5, <1>6 DEF IInv

LEMMA SameChain ==
    ASSUME IInv, Grows, chain' = chain
    PROVE  ChainKept
<1>1. Alive \subseteq Alive'
  BY GrowsFacts DEF IInv
<1> QED BY <1>1 DEF IInv, TypeOK, AliveClosed, ChainKept

(* A value is put in a slot of a thread, maybe a new one.                  *)
PutIn(t, k, x) ==
    /\ t \in Thread /\ t \in Objects /\ k \in 1 .. Len(stack[t]) + 1 /\ x \in Value
    /\ x \in Values(Alive')
    /\ stack' = [stack EXCEPT ![t] = Put(@, k, x)]

LEMMA PutKept ==
    ASSUME TypeOK, NEW t, NEW k, NEW x, PutIn(t, k, x)
    PROVE  StackKept
<1>1. t \in Thread /\ stack[t] \in Seq(Value) /\ k \in 1 .. Len(stack[t]) + 1 /\ x \in Value
      /\ stack \in [Thread -> Seq(Value)]
  BY DEF PutIn, TypeOK
<1>2. PICK s : s = Put(stack[t], k, x)
  OBVIOUS
<1>3. /\ s \in Seq(Value) /\ k \in DOMAIN s /\ s[k] = x
      /\ \A i \in DOMAIN stack[t] : i \in DOMAIN s /\ (i # k => s[i] = stack[t][i])
      /\ \A i \in DOMAIN s : i # k => i \in DOMAIN stack[t]
  BY <1>1, <1>2, PutFacts
<1>4. stack' \in [Thread -> Seq(Value)] /\ stack'[t] = s /\ \A r \in Thread \ {t} : stack'[r] = stack[r]
  BY <1>1, <1>2, <1>3 DEF PutIn
<1>5. ASSUME NEW r \in Thread, NEW i \in DOMAIN stack'[r]
      PROVE  stack'[r][i] \in Values(Alive') \/ (i \in DOMAIN stack[r] /\ stack'[r][i] = stack[r][i])
  BY <1>3, <1>4 DEF PutIn
<1>6. \A r \in Thread : \A i \in DOMAIN stack[r] : i \in DOMAIN stack'[r]
  BY <1>3, <1>4
<1>7. \A r \in Thread \ Objects : stack'[r] = stack[r]
  BY <1>4 DEF PutIn
<1> QED BY <1>4, <1>5, <1>6, <1>7 DEF StackKept

LEMMA StorePuts ==
    ASSUME IInv, NEW k \in Target, NEW x \in Value, x \in Values(Alive'), Store(k, x)
    PROVE  StackKept /\ stack'[L] = Put(stack[L], k, x)
           /\ \A t \in Thread \ {L} : stack'[t] = stack[t]
<1>1. L \in Thread /\ L \in Objects /\ TypeOK /\ stack \in [Thread -> Seq(Value)]
  BY RunningFacts DEF IInv, Alive, TypeOK
<1>2. k \in 1 .. Len(stack[L]) + 1
  <2>1. MaxTop[L] \in Nat /\ Len(stack[L]) \in Nat
    <3>1. bound \in [slots : [Thread -> Nat], closures : Nat, upvals : Nat, protos : SUBSET Proto]
      BY <1>1, UpvalAssumption DEF TypeOK
    <3>2. bound.slots \in [Thread -> Nat]
      BY <3>1
    <3> QED BY <1>1, <3>2 DEF MaxTop
  <2> QED BY <2>1 DEF Target
<1>3. PutIn(L, k, x)
  BY <1>1, <1>2 DEF PutIn, Store
<1>4. StackKept
  BY <1>1, <1>3, PutKept
<1> QED BY <1>1, <1>4 DEF Store

(* Only slots change.                                                      *)
LEMMA SlotsOnly ==
    ASSUME IInv, ~Working, StackKept, ChainKept,
           UNCHANGED <<bound, openupval, closures, upv, twups, allgc, colors, gcstate, emergency>>
    PROVE  IInv'
<1>1. Program
  BY DEF Program, Grows, IInv, TypeOK, UpvalLists, closures, upv, colors
<1> QED BY <1>1, ProgramRuns DEF closures

LEMMA UnchangedGrows ==
    ASSUME UNCHANGED <<allgc, colors>>
    PROVE  Grows /\ Alive' = Alive /\ Values(Alive') = Values(Alive)
  BY DEF Grows, Alive, Objects, colors, Values

LEMMA MoveKeeps == ASSUME IInv, Move PROVE IInv'
<1>1. PICK k \in Target, x \in InSlots \cup {Nil} : Store(k, x)
  BY DEF Move
<1>2. UNCHANGED <<bound, chain, openupval, closures, upv, twups, allgc, colors, gcstate, emergency>>
      /\ ~Working
  BY DEF Move, Running
<1>3. x \in Value /\ x \in Values(Alive')
  BY <1>2, RunningFacts, UnchangedGrows DEF Values
<1>4. StackKept
  BY <1>1, <1>3, StorePuts
<1>5. ChainKept
  BY <1>2, UnchangedGrows, SameChain
<1> QED BY <1>2, <1>4, <1>5, SlotsOnly

LEMMA YieldKeeps == ASSUME IInv, lua_yield PROVE IInv'
<1> DEFINE from == chain[Len(chain) - 1]
<1>1. PICK k \in 1 .. MaxTop[from], x \in InSlots \cup {Nil} :
          k <= Len(stack[from]) + 1 /\ stack' = [stack EXCEPT ![from] = Put(@, k, x)]
  BY DEF lua_yield
<1>2. UNCHANGED <<bound, openupval, closures, upv, twups, allgc, colors, gcstate, emergency>>
      /\ ~Working /\ Len(chain) > 1 /\ chain' = Front(chain)
  BY DEF lua_yield, Running
<1>3. Alive' = Alive /\ Values(Alive') = Values(Alive)
  BY <1>2, UnchangedGrows
<1>4. x \in Value /\ x \in Values(Alive')
  BY <1>3, RunningFacts DEF Values
<1>5. Len(chain) \in Nat /\ Len(chain) - 1 \in DOMAIN chain /\ Len(chain) - 1 \in 0 .. Len(chain)
      /\ 1 \in 1 .. Len(chain) - 1
  BY <1>2, RunningFacts
<1>6. from \in Thread /\ from \in Objects
  BY <1>5, RunningFacts DEF Alive
<1> HIDE DEF from
<1>7. StackKept
  <2>1. TypeOK /\ stack[from] \in Seq(Value)
    BY <1>6 DEF IInv, TypeOK
  <2>2. k \in 1 .. Len(stack[from]) + 1
    <3>1. Len(stack[from]) \in Nat
      BY <2>1
    <3>2. bound \in [slots : [Thread -> Nat], closures : Nat, upvals : Nat, protos : SUBSET Proto]
      BY <2>1, UpvalAssumption DEF TypeOK
    <3>3. bound.slots \in [Thread -> Nat]
      BY <3>2
    <3>4. MaxTop[from] \in Nat
      BY <1>6, <3>3 DEF MaxTop
    <3> QED BY <1>1, <3>1, <3>4
  <2>3. PutIn(from, k, x)
    BY <1>1, <1>4, <1>6, <2>2 DEF PutIn
  <2> QED BY <2>1, <2>3, PutKept
<1>8. ChainKept
  <2>1. chain \in Seq(Thread) /\ chain[1] = mainthread /\ ToSet(chain) \subseteq Alive
    BY DEF IInv, TypeOK, AliveClosed
  <2>2. PICK n : n = Len(chain) - 1
    OBVIOUS
  <2>3. n \in 0 .. Len(chain) /\ chain' = SubSeq(chain, 1, n) /\ n \in Nat /\ 1 \in 1 .. n
    BY <1>2, <1>5, <2>2 DEF Front
  <2>4. chain' \in Seq(Thread) /\ Len(chain') = n /\ \A p \in 1 .. n : chain'[p] = chain[p]
    BY <2>1, <2>3, PrefixFacts
  <2>5. chain' # <<>> /\ chain'[1] = mainthread
    BY <2>1, <2>3, <2>4
  <2>6. \A p \in 1 .. n : p \in DOMAIN chain
    BY <1>5, <2>3, RunningFacts
  <2>7. ASSUME NEW t \in ToSet(chain') PROVE t \in Alive
    <3>1. PICK p \in DOMAIN chain' : chain'[p] = t
      BY <2>4, InSeq
    <3>2. p \in 1 .. n
      BY <2>4
    <3> QED BY <2>4, <2>6, <3>1, <3>2, RunningFacts
  <2> QED BY <1>3, <2>4, <2>5, <2>7 DEF ChainKept
<1> QED BY <1>2, <1>7, <1>8, SlotsOnly

LEMMA ResumeKeeps == ASSUME IInv, lua_resume PROVE IInv'
<1>1. PICK t \in (Thread \cap InSlots) \ ToSet(chain), x \in InSlots :
          /\ stack' = [stack EXCEPT ![t] = Append(@, x)]
          /\ chain' = Append(chain, t)
  BY DEF lua_resume
<1>2. UNCHANGED <<bound, openupval, closures, upv, twups, allgc, colors, gcstate, emergency>>
      /\ ~Working
  BY DEF lua_resume, Running
<1>3. Alive' = Alive /\ Values(Alive') = Values(Alive)
  BY <1>2, UnchangedGrows
<1>4. x \in Value /\ x \in Values(Alive')
  BY <1>3, RunningFacts DEF Values
<1>5. t \in Thread /\ t \in Alive /\ t \in Objects
  BY RunningFacts DEF Values, Alive
<1>6. StackKept
  <2>1. TypeOK /\ stack[t] \in Seq(Value) /\ Len(stack[t]) \in Nat
    BY <1>5 DEF IInv, TypeOK
  <2>2. PICK k : k = Len(stack[t]) + 1
    OBVIOUS
  <2>3. k \in 1 .. Len(stack[t]) + 1 /\ Put(stack[t], k, x) = Append(stack[t], x)
    BY <2>1, <2>2 DEF Put
  <2>4. PutIn(t, k, x)
    BY <1>1, <1>4, <1>5, <2>1, <2>3 DEF PutIn, TypeOK
  <2> QED BY <2>1, <2>4, PutKept
<1>7. ChainKept
  <2>1. chain \in Seq(Thread) /\ chain[1] = mainthread /\ ToSet(chain) \subseteq Alive
    BY DEF IInv, TypeOK, AliveClosed
  <2>2. /\ chain' \in Seq(Thread) /\ Len(chain') = Len(chain) + 1
        /\ \A i \in 1 .. Len(chain) : chain'[i] = chain[i]
        /\ chain'[Len(chain) + 1] = t
    BY <1>1, <1>5, <2>1, AppendProperties
  <2>3. Len(chain) \in Nat /\ Len(chain) > 0 /\ DOMAIN chain = 1 .. Len(chain)
    BY RunningFacts
  <2>4. chain' # <<>> /\ chain'[1] = mainthread
    BY <2>1, <2>2, <2>3
  <2>5. ASSUME NEW r \in ToSet(chain') PROVE r \in Alive
    <3>1. PICK p \in DOMAIN chain' : chain'[p] = r
      BY <2>2, InSeq
    <3>2. p \in 1 .. Len(chain) \/ p = Len(chain) + 1
      BY <2>2, <2>3
    <3>3. CASE p \in 1 .. Len(chain)
      BY <2>2, <2>3, <3>1, <3>3, RunningFacts
    <3>4. CASE p = Len(chain) + 1
      BY <1>5, <2>2, <3>1, <3>4
    <3> QED BY <3>2, <3>3, <3>4
  <2> QED BY <1>3, <2>2, <2>4, <2>5 DEF ChainKept
<1> QED BY <1>2, <1>6, <1>7, SlotsOnly

LEMMA NewThreadKeeps == ASSUME IInv, lua_newthread PROVE IInv'
<1>1. PICK t \in Thread, k \in Target : New(t) /\ Store(k, t)
  BY DEF lua_newthread
<1>2. UNCHANGED <<bound, chain, openupval, closures, upv, twups, colors, gcstate, emergency>>
      /\ ~Working
  BY DEF lua_newthread, Running
<1>3. Grows
  BY <1>1, <1>2 DEF Grows, colors
<1>4. t \in Value /\ t \in Values(Alive')
  <2>1. TypeOK /\ ListRight
    BY DEF IInv
  <2>2. t \in Alive' /\ t \in GCObject
    BY <1>1, <1>3, <2>1, GrowsFacts
  <2> QED BY <2>2 DEF Value, Values
<1>5. StackKept
  BY <1>1, <1>4, StorePuts
<1>6. Program
  BY <1>2, <1>3, <1>5 DEF Program, IInv, TypeOK, UpvalLists, closures, upv, colors
<1>7. ChainKept
  BY <1>2, <1>3, SameChain
<1> QED BY <1>2, <1>6, <1>7, ProgramRuns DEF closures

(* A closure that the running function has, and its upvalues.              *)
LEMMA ClosureInSlots ==
    ASSUME IInv, NEW c \in LClosure \cap InSlots, NEW u \in Upvals(c)
    PROVE  /\ c \in Alive /\ u \in UpVal /\ v[u] # Free
           /\ At(u) \in Value /\ At(u) \in Values(Alive)
<1>1. c \in Alive
  BY RunningFacts DEF Values, GCObject
<1>2. u \in UpVal /\ v[u] # Free
  BY UpvalsInUse DEF IInv
<1>3. At(u) \in Value
  BY <1>2, AtFacts DEF IInv
<1>4. c \notin Thread
  BY UpvalAssumption
<1>5. At(u) \in Values(Alive)
  BY <1>1, <1>4 DEF IInv, AliveClosed, Refers
<1> QED BY <1>1, <1>2, <1>3, <1>5

LEMMA GetUpvalKeeps == ASSUME IInv, OP_GETUPVAL PROVE IInv'
<1>1. PICK c \in LClosure \cap InSlots : \E u \in Upvals(c), k \in Target : Store(k, At(u))
  BY DEF OP_GETUPVAL
<1>2. PICK u \in Upvals(c), k \in Target : Store(k, At(u))
  BY <1>1
<1>3. UNCHANGED <<bound, chain, openupval, closures, upv, twups, allgc, colors, gcstate, emergency>>
      /\ ~Working
  BY DEF OP_GETUPVAL, Running
<1>4. PICK x : x = At(u)
  OBVIOUS
<1>5. x \in Value /\ x \in Values(Alive')
  BY <1>3, <1>4, ClosureInSlots, UnchangedGrows
<1>6. StackKept
  BY <1>2, <1>4, <1>5, StorePuts
<1>7. ChainKept
  BY <1>3, UnchangedGrows, SameChain
<1> QED BY <1>3, <1>6, <1>7, SlotsOnly

(* What a barrier does to the marks.                                       *)
LEMMA BarrierFacts ==
    ASSUME IInv, NEW S, S \subseteq Values(Alive), UpvalBarrier(S)
    PROVE  /\ UNCHANGED <<black, dead>>
           /\ marked \subseteq marked' /\ marked' \subseteq GCObject
           /\ gcstate = "propagate" => marked' \subseteq Objects /\ S \subseteq Values(marked')
           /\ gcstate # "propagate" => marked' = marked
<1>1. UNCHANGED <<black, dead>>
  BY DEF UpvalBarrier, Mark, colors
<1>2. Objects \subseteq GCObject /\ marked \subseteq GCObject
  BY RunningFacts DEF IInv, TypeOK
<1>3. CASE keepinvariant
  <2>1. gcstate = "propagate" /\ marked' = marked \cup (S \cap GCObject)
    BY <1>3 DEF keepinvariant, UpvalBarrier, Mark
  <2>2. marked \subseteq Objects
    BY <2>1 DEF IInv, ColorsRight
  <2>3. \A x \in S : x \in Values(Alive)
    OBVIOUS
  <2>4. \A x \in S : x = Nil \/ (x \in Objects /\ x \in GCObject)
    BY <1>2, <2>3 DEF Values, Alive
  <2>5. Nil \notin GCObject
    BY UpvalAssumption
  <2> QED BY <1>1, <1>2, <2>1, <2>2, <2>4, <2>5 DEF Values
<1>4. CASE ~keepinvariant
  BY <1>1, <1>2, <1>4 DEF keepinvariant, UpvalBarrier, colors
<1> QED BY <1>3, <1>4

(* A closed upvalue is assigned to.                                        *)
LEMMA SetClosedKeeps ==
    ASSUME IInv, ~Working, NEW u \in UpVal, ~upisopen(u), NEW x \in Value, x \in Values(Alive),
           value' = [value EXCEPT ![u] = x], UpvalBarrier({x}),
           UNCHANGED <<bound, chain, stack, openupval, closures, v, refcount, touched, twups, allgc,
                       gcstate, emergency>>
    PROVE  IInv'
<1>0. UNCHANGED <<bound, chain, stack, openupval, upvals, proto, cache, making, v, refcount, touched,
                  twups, allgc, gcstate, emergency>>
  BY DEF closures
<1>1. TypeOK /\ ListRight /\ OpenRight /\ FreedEmpty /\ CountsRight /\ AliveClosed /\ TwupsRight
      /\ CacheRight /\ ColorsRight
  BY DEF IInv
<1>2. /\ UNCHANGED <<black, dead>> /\ marked \subseteq marked' /\ marked' \subseteq GCObject
      /\ gcstate = "propagate" => marked' \subseteq Objects /\ x \in Values(marked')
      /\ gcstate # "propagate" => marked' = marked
  BY BarrierFacts
<1>3. value' \in [UpVal -> Value] /\ value'[u] = x /\ \A w \in UpVal \ {u} : value'[w] = value[w]
  BY <1>1 DEF TypeOK
<1>4. TypeOK'
  BY <1>0, <1>1, <1>2, <1>3 DEF TypeOK
<1>5. Objects' = Objects /\ Alive' = Alive /\ Uses(LClosure)' = Uses(LClosure)
  BY <1>0, <1>2 DEF Objects, Alive, Uses
<1>6. ListRight' /\ FreedEmpty' /\ TwupsRight' /\ CacheRight' /\ OpenRight' /\ CountsRight'
  BY <1>0, <1>1, <1>2, <1>5 DEF ListRight, FreedEmpty, TwupsRight, CacheRight, OpenRight, CountsRight,
     Level, upisopen
<1>7. ASSUME NEW c \in LClosure, NEW w \in Upvals(c)
      PROVE  w \in UpVal /\ Upvals(c)' = Upvals(c) /\ upisopen(w)' = upisopen(w)
  BY <1>0, <1>1, UpvalsInUse DEF Upvals, upisopen
<1>8. AliveClosed'
  <2>1. ASSUME NEW o \in Alive PROVE Refers(o)' \subseteq Values(Alive)
    <3>1. CASE o \in Thread
      BY <1>0, <1>1, <2>1, <3>1 DEF Refers, AliveClosed
    <3>2. CASE o \notin Thread
      <4>1. o \in LClosure
        BY <2>1, <3>2, RunningFacts DEF Alive, GCObject
      <4>2. ASSUME NEW w \in Upvals(o)' PROVE At(w)' \in Values(Alive)
        <5>1. w \in Upvals(o) /\ w \in UpVal /\ upisopen(w)' = upisopen(w)
          BY <1>0, <1>7, <4>1, <4>2 DEF Upvals
        <5>2. At(w) \in Values(Alive)
          BY <1>1, <2>1, <3>2, <5>1 DEF AliveClosed, Refers
        <5>3. CASE w = u
          <6>1. At(w)' = x
            BY <1>3, <5>1, <5>3 DEF At
          <6> QED BY <6>1
        <5>4. CASE w # u
          <6>1. At(w)' = At(w)
            BY <1>0, <1>3, <5>1, <5>4 DEF At
          <6> QED BY <5>2, <6>1
        <5> QED BY <5>3, <5>4
      <4> QED BY <3>2, <4>2 DEF Refers
    <3> QED BY <3>1, <3>2
  <2> QED BY <1>0, <1>1, <1>5, <2>1 DEF AliveClosed, Values
<1>9. ColorsRight'
  <2>1. ASSUME gcstate = "propagate", NEW c \in black \cap LClosure, NEW w \in Upvals(c)'
        PROVE  IF upisopen(w)' THEN touched'[w] ELSE value'[w] \in Values(marked')
    <3>1. w \in Upvals(c) /\ w \in UpVal /\ upisopen(w)' = upisopen(w)
      BY <1>0, <1>7, <2>1 DEF Upvals
    <3>2. IF upisopen(w) THEN touched[w] ELSE value[w] \in Values(marked)
      BY <1>1, <2>1, <3>1 DEF ColorsRight
    <3> QED BY <1>0, <1>2, <1>3, <2>1, <3>1, <3>2 DEF Values
  <2>2. \A p \in black \cap Proto : gcstate = "propagate" => cache'[p] \in marked' \cup {None}
    BY <1>0, <1>1, <1>2 DEF ColorsRight
  <2>3. Values(marked)' = Values(marked')
    BY DEF Values
  <2> QED BY <1>0, <1>1, <1>2, <1>5, <2>1, <2>2, <2>3 DEF ColorsRight
<1>10. MakingRight'
  BY <1>0 DEF MakingRight, Working
<1> QED BY <1>4, <1>6, <1>8, <1>9, <1>10 DEF IInv

LEMMA SetUpvalKeeps == ASSUME IInv, OP_SETUPVAL PROVE IInv'
<1>1. PICK c \in LClosure \cap InSlots, x \in InSlots \cup {Nil} : \E u \in Upvals(c) :
        IF upisopen(u)
        THEN /\ stack' = [stack EXCEPT ![v[u][1]][v[u][2]] = x]
             /\ UNCHANGED <<value, colors>>
        ELSE /\ value' = [value EXCEPT ![u] = x]
             /\ UpvalBarrier({x})
             /\ UNCHANGED stack
  BY DEF OP_SETUPVAL
<1>2. PICK u \in Upvals(c) :
        IF upisopen(u)
        THEN /\ stack' = [stack EXCEPT ![v[u][1]][v[u][2]] = x]
             /\ UNCHANGED <<value, colors>>
        ELSE /\ value' = [value EXCEPT ![u] = x]
             /\ UpvalBarrier({x})
             /\ UNCHANGED stack
  BY <1>1
<1>3. UNCHANGED <<bound, chain, openupval, closures, v, refcount, touched, twups, allgc, gcstate, emergency>>
      /\ ~Working
  BY DEF OP_SETUPVAL, Running
<1>4. u \in UpVal
  BY ClosureInSlots
<1>5. x \in Value /\ x \in Values(Alive)
  BY RunningFacts DEF Values
<1>6. CASE upisopen(u)
  <2>1. stack' = [stack EXCEPT ![v[u][1]][v[u][2]] = x] /\ UNCHANGED <<value, colors>>
    BY <1>2, <1>6
  <2>2. PICK t \in Thread : t = v[u][1]
    BY <1>4, <1>6, OpenAddress DEF IInv
  <2>3. PICK k : k = v[u][2]
    OBVIOUS
  <2>4. k \in DOMAIN stack[t] /\ stack[t] \in Seq(Value) /\ k \in 1 .. Len(stack[t])
    <3>1. TypeOK /\ OpenRight
      BY DEF IInv
    <3>2. v[u][2] \in DOMAIN stack[v[u][1]]
      BY <1>4, <1>6, <3>1, AtFacts
    <3>3. stack[t] \in Seq(Value)
      BY <3>1 DEF TypeOK
    <3> QED BY <2>2, <2>3, <3>2, <3>3
  <2>5. t \in Objects
    BY <2>2, <2>4 DEF IInv, FreedEmpty
  <2>6. Put(stack[t], k, x) = [stack[t] EXCEPT ![k] = x] /\ k \in 1 .. Len(stack[t]) + 1
    <3>1. Len(stack[t]) \in Nat
      BY <2>4
    <3>2. ~(k > Len(stack[t]))
      BY <2>4, <3>1
    <3> QED BY <2>4, <3>1, <3>2 DEF Put
  <2>7. stack' = [stack EXCEPT ![t] = Put(@, k, x)]
    BY <2>1, <2>2, <2>3, <2>6
  <2>8. Alive' = Alive /\ Values(Alive') = Values(Alive)
    BY <1>3, <2>1, UnchangedGrows
  <2>9. StackKept
    <3>1. PutIn(t, k, x)
      BY <1>5, <2>5, <2>6, <2>7, <2>8 DEF PutIn
    <3> QED BY <3>1, PutKept DEF IInv
  <2>10. ChainKept
    BY <1>3, <2>1, UnchangedGrows, SameChain
  <2>11. UNCHANGED <<bound, openupval, closures, upv, twups, allgc, colors, gcstate, emergency>>
    BY <1>3, <2>1 DEF upv
  <2> QED BY <1>3, <2>9, <2>10, <2>11, SlotsOnly
<1>7. CASE ~upisopen(u)
  BY <1>2, <1>3, <1>4, <1>5, <1>7, SetClosedKeeps
<1> QED BY <1>6, <1>7

(* What the program can execute OP_CLOSURE for.                            *)
Capturable(p, enc, base, k) ==
    /\ p \in Proto /\ p \in bound.protos /\ enc \in {None} \cup (LClosure \cap InSlots) /\ k \in Target
    /\ base \in Nat /\ Allowed(p, enc, base)
    /\ enc # None => enc \in {stack[L][j] : j \in DOMAIN stack[L] \ {k}}

LEMMA NewClosureKeeps ==
    ASSUME IInv, NEW p, NEW enc, NEW k, NEW base, NEW ncl, Capturable(p, enc, base, k),
           ncl \in LClosure, New(ncl), Store(k, ncl),
           proto' = [proto EXCEPT ![ncl] = p],
           upvals' = [upvals EXCEPT ![ncl] = [i \in DOMAIN upvalues[p] |-> None]],
           making' = [cl |-> ncl, enc |-> enc, base |-> base, ra |-> k],
           UNCHANGED <<bound, chain, openupval, upv, twups, cache, colors, gcstate, emergency>>
    PROVE  IInv'
<1>0. p \in Proto /\ k \in Target /\ base \in Nat /\ enc \in LClosure \cup {None}
  BY DEF Capturable
<1>1. TypeOK /\ ListRight /\ AliveClosed
  BY DEF IInv
<1>2. Grows
  BY DEF Grows, colors
<1>3. ncl \in Alive' /\ ncl \in Objects' \ Objects /\ ncl \in GCObject
  <2>1. Objects' = Objects \cup {ncl} /\ Alive' = Alive \cup {ncl} /\ ncl \in GCObject
    BY <1>1, <1>2, GrowsFacts
  <2>2. ncl \notin Objects
    BY DEF New
  <2> QED BY <2>1, <2>2
<1>4. StackKept /\ stack'[L] = Put(stack[L], k, ncl)
  <2>1. ncl \in Value /\ ncl \in Values(Alive')
    BY <1>3 DEF Value, Values
  <2> QED BY <1>0, <2>1, StorePuts
<1>5. PICK none : none = [i \in DOMAIN upvalues[p] |-> None]
  OBVIOUS
<1>6. none \in Seq(UpVal \cup {None}) /\ Len(none) = Len(upvalues[p]) /\ ToSet(none) \subseteq {None}
  <2>1. upvalues[p] \in Seq([instack : BOOLEAN, idx : Nat \ {0}])
    BY <1>0, UpvalAssumption
  <2>2. DOMAIN upvalues[p] = 1 .. Len(upvalues[p]) /\ Len(upvalues[p]) \in Nat
    BY <2>1
  <2>3. PICK n \in Nat : n = Len(upvalues[p])
    BY <2>2
  <2>4. none = [i \in 1 .. n |-> None]
    BY <1>5, <2>2, <2>3
  <2>5. none \in Seq(UpVal \cup {None}) /\ Len(none) = n
    BY <2>4
  <2>6. \A i \in DOMAIN none : none[i] = None
    BY <2>4
  <2> QED BY <2>3, <2>5, <2>6, InSeq
<1>7. upvals' \in UpvalLists /\ upvals'[ncl] = none /\ \A c \in LClosure \ {ncl} : upvals'[c] = upvals[c]
  BY <1>1, <1>5, <1>6 DEF TypeOK, UpvalLists
<1>8. proto' \in [LClosure -> Proto] /\ proto'[ncl] = p
  BY <1>0, <1>1 DEF TypeOK
<1>9. Program
  BY <1>2, <1>3, <1>4, <1>6, <1>7 DEF Program, upv, colors
<1>10. ChainKept
  BY <1>2, SameChain
<1>11. allgc' \in Seq(GCObject) /\ dead' = dead
  BY <1>1, <1>2, GrowsFacts DEF Grows
<1>12. making' \in [cl : LClosure, enc : LClosure \cup {None}, base : Nat, ra : Nat]
  <2>1. k \in Nat
    BY <1>0 DEF Target
  <2> QED BY <1>0, <2>1
<1>13. TypeOK'
  BY <1>1, <1>8, <1>9, <1>10, <1>11, <1>12 DEF TypeOK, Program, ChainKept, StackKept, UpvalLists
<1>14. /\ ListRight' /\ OpenRight' /\ FreedEmpty' /\ CountsRight' /\ TwupsRight' /\ CacheRight'
       /\ ColorsRight' /\ \A o \in Alive' : Refers(o)' \subseteq Values(Alive')
  BY <1>9, ProgramKeeps
<1>15. AliveClosed'
  BY <1>10, <1>14 DEF AliveClosed, ChainKept
<1>16. MakingRight'
  <2>1. making'.cl = ncl /\ making'.enc = enc /\ making'.base = base /\ making'.ra = k
    OBVIOUS
  <2>2. L' = L
    BY DEF L
  <2>3. stack[L] \in Seq(Value) /\ L \in Thread
    BY RunningFacts
  <2>4. k \in DOMAIN stack'[L] /\ stack'[L][k] = ncl
        /\ \A j \in DOMAIN stack[L] : j \in DOMAIN stack'[L] /\ (j # k => stack'[L][j] = stack[L][j])
    <3>1. k \in 1 .. Len(stack[L]) + 1
      <4>1. bound \in [slots : [Thread -> Nat], closures : Nat, upvals : Nat, protos : SUBSET Proto]
        BY <1>1, UpvalAssumption DEF TypeOK
      <4>2. bound.slots \in [Thread -> Nat]
        BY <4>1
      <4>3. MaxTop[L] \in Nat /\ Len(stack[L]) \in Nat
        BY <2>3, <4>2 DEF MaxTop
      <4> QED BY <1>0, <4>3 DEF Target
    <3>2. ncl \in Value
      BY <1>3 DEF Value
    <3> QED BY <1>4, <2>3, <3>1, <3>2, PutFacts
  <2>5. ncl \notin black'
    <3>1. black' = black
      BY DEF colors
    <3>2. black \cap LClosure \subseteq Objects
      BY DEF IInv, ColorsRight, TypeOK
    <3> QED BY <1>3, <3>1, <3>2
  <2>6. enc # None => /\ enc \in InSlots' /\ enc \in LClosure /\ enc # ncl
                      /\ upvals'[enc] = upvals[enc]
    <3>1. SUFFICES ASSUME enc # None
                   PROVE  enc \in InSlots' /\ enc \in LClosure /\ enc # ncl /\ upvals'[enc] = upvals[enc]
      OBVIOUS
    <3>2. PICK j \in DOMAIN stack[L] : j # k /\ stack[L][j] = enc
      BY <3>1 DEF Capturable
    <3>3. enc \in InSlots'
      BY <2>2, <2>4, <3>2 DEF InSlots, ToSet
    <3>4. enc \in LClosure /\ enc \in InSlots
      BY <3>1 DEF Capturable
    <3>5. enc \in Alive
      BY <3>4, RunningFacts DEF Values, GCObject
    <3>6. enc # ncl
      BY <1>3, <3>5 DEF Alive
    <3> QED BY <1>7, <3>3, <3>4, <3>6
  <2>7. Allowed(p, enc, base)'
    <3>1. ASSUME NEW i \in DOMAIN upvalues[p]
          PROVE  IF upvalues[p][i].instack THEN base + upvalues[p][i].idx \in DOMAIN stack'[L]
                 ELSE /\ enc # None /\ upvalues[p][i].idx \in DOMAIN upvals'[enc]
                      /\ upvals'[enc][upvalues[p][i].idx] # None
      <4>1. IF upvalues[p][i].instack THEN base + upvalues[p][i].idx \in DOMAIN stack[L]
            ELSE /\ enc # None /\ upvalues[p][i].idx \in DOMAIN upvals[enc]
                 /\ upvals[enc][upvalues[p][i].idx] # None
        BY DEF Capturable, Allowed
      <4> QED BY <2>4, <2>6, <4>1
    <3> QED BY <2>2, <3>1 DEF Allowed
  <2>8. Len(upvals'[ncl]) = Len(upvalues[proto'[ncl]])
    BY <1>6, <1>7, <1>8
  <2>9. Allowed(proto[making.cl], making.enc, making.base)'
    BY <1>8, <2>1, <2>7 DEF Allowed
  <2>10. proto'[ncl] \in bound'.protos
    BY <1>8 DEF Capturable
  <2> QED BY <2>1, <2>2, <2>4, <2>5, <2>6, <2>8, <2>9, <2>10 DEF MakingRight
<1> QED BY <1>13, <1>14, <1>15, <1>16 DEF IInv

LEMMA ClosureKeeps == ASSUME IInv, OP_CLOSURE PROVE IInv'
<1>1. PICK p \in bound.protos, enc \in {None} \cup (LClosure \cap InSlots), k \in Target :
       \E base \in 0 .. MaxTop[L] - 1 :
        /\ Allowed(p, enc, base)
        /\ enc # None => enc \in {stack[L][j] : j \in DOMAIN stack[L] \ {k}}
        /\ \/ /\ getcached(p, enc, base)
              /\ Store(k, cache[p])
              /\ UNCHANGED <<closures, allgc>>
           \/ /\ ~getcached(p, enc, base)
              /\ \E ncl \in LClosure :
                  /\ Cardinality(LClosure \cap Objects) < bound.closures
                  /\ New(ncl) /\ Store(k, ncl)
                  /\ proto' = [proto EXCEPT ![ncl] = p]
                  /\ upvals' = [upvals EXCEPT ![ncl] = [i \in DOMAIN upvalues[p] |-> None]]
                  /\ making' = [cl |-> ncl, enc |-> enc, base |-> base, ra |-> k]
              /\ UNCHANGED cache
  BY Zenon DEF OP_CLOSURE
<1>2. PICK base \in 0 .. MaxTop[L] - 1 :
        /\ Allowed(p, enc, base)
        /\ enc # None => enc \in {stack[L][j] : j \in DOMAIN stack[L] \ {k}}
        /\ \/ /\ getcached(p, enc, base)
              /\ Store(k, cache[p])
              /\ UNCHANGED <<closures, allgc>>
           \/ /\ ~getcached(p, enc, base)
              /\ \E ncl \in LClosure :
                  /\ Cardinality(LClosure \cap Objects) < bound.closures
                  /\ New(ncl) /\ Store(k, ncl)
                  /\ proto' = [proto EXCEPT ![ncl] = p]
                  /\ upvals' = [upvals EXCEPT ![ncl] = [i \in DOMAIN upvalues[p] |-> None]]
                  /\ making' = [cl |-> ncl, enc |-> enc, base |-> base, ra |-> k]
              /\ UNCHANGED cache
  BY <1>1, Zenon
<1>3. UNCHANGED <<bound, chain, openupval, upv, twups, colors, gcstate, emergency>> /\ ~Working
  BY DEF OP_CLOSURE, Running
<1>4. p \in Proto
  <2>1. bound \in [slots : [Thread -> Nat], closures : Nat, upvals : Nat, protos : SUBSET Proto]
    BY UpvalAssumption DEF IInv, TypeOK
  <2>2. bound.protos \in SUBSET Proto
    BY <2>1
  <2> QED BY <2>2
<1>5. CASE /\ getcached(p, enc, base)
           /\ Store(k, cache[p])
           /\ UNCHANGED <<closures, allgc>>
  <2>1. PICK x : x = cache[p]
    OBVIOUS
  <2>2. x # None /\ Store(k, x)
    BY <1>5, <2>1 DEF getcached
  <2>3. x \in LClosure /\ x \in Alive
    BY <1>4, <2>1, <2>2 DEF IInv, TypeOK, CacheRight
  <2>4. x \in Value /\ x \in Values(Alive')
    BY <1>3, <1>5, <2>3, UnchangedGrows DEF Value, GCObject, Values
  <2>5. StackKept
    BY <2>2, <2>4, StorePuts
  <2>6. ChainKept
    BY <1>3, <1>5, UnchangedGrows, SameChain
  <2> QED BY <1>3, <1>5, <2>5, <2>6, SlotsOnly
<1>6. CASE \E ncl \in LClosure :
              /\ Cardinality(LClosure \cap Objects) < bound.closures
              /\ New(ncl) /\ Store(k, ncl)
              /\ proto' = [proto EXCEPT ![ncl] = p]
              /\ upvals' = [upvals EXCEPT ![ncl] = [i \in DOMAIN upvalues[p] |-> None]]
              /\ making' = [cl |-> ncl, enc |-> enc, base |-> base, ra |-> k]
              /\ UNCHANGED cache
  <2>1. PICK ncl \in LClosure :
              /\ New(ncl) /\ Store(k, ncl)
              /\ proto' = [proto EXCEPT ![ncl] = p]
              /\ upvals' = [upvals EXCEPT ![ncl] = [i \in DOMAIN upvalues[p] |-> None]]
              /\ making' = [cl |-> ncl, enc |-> enc, base |-> base, ra |-> k]
              /\ UNCHANGED cache
    BY <1>6
  <2>2. base \in Nat
    OBVIOUS
  <2>3. Capturable(p, enc, base, k)
    BY <1>2, <1>4, <2>2 DEF Capturable
  <2> QED BY <1>3, <2>1, <2>3, NewClosureKeeps
<1> QED BY <1>2, <1>5, <1>6, Zenon

-----------------------------------------------------------------------------
(* Slots go away                                                           *)

(* Who still uses an upvalue finds the same value in it.                   *)
LEMMA CloseAt ==
    ASSUME TypeOK, OpenRight, NEW t, NEW l, Leaves(t, l), NEW u \in UpVal, refcount[u] > 0
    PROVE  At(u)' = At(u)
<1>0. t \in Thread /\ l \in Nat /\ luaF_close(t, l)
  BY DEF Leaves
<1>1. CASE u \in Above(t, l)
  <2>1. v'[u] = Own /\ value'[u] = At(u)
    BY <1>0, <1>1, CloseFacts
  <2> QED BY <2>1 DEF At, upisopen
<1>2. CASE u \notin Above(t, l)
  <2>1. v'[u] = v[u] /\ value'[u] = value[u]
    BY <1>0, <1>2, CloseFacts
  <2>2. CASE upisopen(u)
    <3>1. /\ At(u) = stack[v[u][1]][v[u][2]] /\ v[u][2] \in DOMAIN stack[v[u][1]]
          /\ v[u][1] \in Thread /\ v[u][2] \in Nat
      BY <2>2, AtFacts, OpenAddress
    <3>2. v[u][1] # t \/ v[u][2] < l
      BY <1>0, <1>2, <2>2, <3>1 DEF Above
    <3>3. stack'[v[u][1]][v[u][2]] = stack[v[u][1]][v[u][2]]
      BY <3>1, <3>2 DEF Leaves
    <3>4. At(u)' = stack'[v'[u][1]][v'[u][2]]
      BY <2>1, <2>2 DEF At, upisopen
    <3> QED BY <2>1, <3>1, <3>3, <3>4
  <2>3. CASE ~upisopen(u)
    BY <2>1, <2>3 DEF At, upisopen
  <2> QED BY <2>2, <2>3
<1> QED BY <1>1, <1>2

Cut(l) ==
    /\ l \in DOMAIN stack[L]
    /\ luaF_close(L, l)
    /\ UpvalBarrier({At(u) : u \in Kept(L, l)})
    /\ stack' = [stack EXCEPT ![L] = SubSeq(@, 1, l - 1)]

(* The slots below a level are left.                                       *)
LEMMA CutLeaves ==
    ASSUME IInv, NEW l, Cut(l)
    PROVE  /\ Leaves(L, l) /\ stack' \in [Thread -> Seq(Value)]
           /\ \A t \in Thread : ToSet(stack'[t]) \subseteq ToSet(stack[t])
           /\ \A t \in Thread \ {L} : stack'[t] = stack[t]
<1>1. L \in Thread /\ stack[L] \in Seq(Value) /\ stack \in [Thread -> Seq(Value)]
  BY RunningFacts DEF IInv, TypeOK
<1>2. DOMAIN stack[L] = 1 .. Len(stack[L]) /\ Len(stack[L]) \in Nat /\ l \in 1 .. Len(stack[L])
  BY <1>1 DEF Cut
<1>3. l - 1 \in 0 .. Len(stack[L]) /\ l \in Nat
  BY <1>2
<1>4. PICK s : s = SubSeq(stack[L], 1, l - 1)
  OBVIOUS
<1>5. s \in Seq(Value) /\ Len(s) = l - 1 /\ \A p \in 1 .. l - 1 : s[p] = stack[L][p]
  BY <1>1, <1>3, <1>4, PrefixFacts
<1>6. stack' \in [Thread -> Seq(Value)] /\ stack'[L] = s /\ \A t \in Thread \ {L} : stack'[t] = stack[t]
  BY <1>1, <1>4, <1>5 DEF Cut
<1>7. \A i \in DOMAIN stack[L] : i < l => i \in DOMAIN s /\ s[i] = stack[L][i]
  BY <1>2, <1>5
<1>8. Leaves(L, l)
  BY <1>1, <1>3, <1>6, <1>7 DEF Leaves, Cut
<1>9. ToSet(s) \subseteq ToSet(stack[L])
  <2>1. ASSUME NEW x \in ToSet(s) PROVE x \in ToSet(stack[L])
    <3>1. PICK p \in DOMAIN s : s[p] = x
      BY <1>5, InSeq
    <3>2. p \in 1 .. l - 1 /\ p \in DOMAIN stack[L]
      BY <1>2, <1>5
    <3> QED BY <1>1, <1>5, <3>1, <3>2, InSeq
  <2> QED BY <2>1
<1> QED BY <1>6, <1>8, <1>9

LEMMA CutKeeps ==
    ASSUME IInv, NEW l, Cut(l), making' = None, emergency' \in {"no", "finish", "done"},
           UNCHANGED <<bound, chain, upvals, proto, cache, refcount, twups, allgc, gcstate>>
    PROVE  IInv'
<1>1. TypeOK /\ ListRight /\ OpenRight /\ FreedEmpty /\ CountsRight /\ AliveClosed /\ TwupsRight
      /\ CacheRight /\ ColorsRight
  BY DEF IInv
<1>2. /\ Leaves(L, l) /\ L \in Thread /\ l \in Nat /\ L \in Objects /\ luaF_close(L, l)
      /\ stack' \in [Thread -> Seq(Value)]
      /\ \A t \in Thread : ToSet(stack'[t]) \subseteq ToSet(stack[t])
      /\ \A t \in Thread \ {L} : stack'[t] = stack[t]
  BY CutLeaves, RunningFacts DEF Leaves, Alive
<1>3. ASSUME NEW c \in LClosure, NEW u \in Upvals(c)
      PROVE  /\ u \in UpVal /\ refcount[u] > 0 /\ At(u)' = At(u)
             /\ Upvals(c)' = Upvals(c)
  <2>1. u \in UpVal /\ refcount[u] > 0
    BY <1>1, UpvalsInUse
  <2> QED BY <1>1, <1>2, <2>1, CloseAt DEF Upvals
<1>4. ASSUME NEW u \in Kept(L, l)
      PROVE  u \in UpVal /\ At(u) \in Values(Alive)
  <2>1. u \in UpVal /\ upisopen(u) /\ v[u][1] = L
    BY <1>1, <1>2, <1>4, ClosingAbove DEF Above
  <2>2. At(u) = stack[v[u][1]][v[u][2]] /\ v[u][2] \in DOMAIN stack[v[u][1]]
    BY <1>1, <2>1, AtFacts
  <2>3. At(u) \in InSlots
    BY <2>1, <2>2, RunningFacts, InSeq DEF InSlots
  <2> QED BY <2>1, <2>3, RunningFacts
<1>5. PICK S : S = {At(u) : u \in Kept(L, l)}
  OBVIOUS
<1>6. S \subseteq Values(Alive) /\ UpvalBarrier(S)
  BY <1>4, <1>5 DEF Cut
<1>7. /\ UNCHANGED <<black, dead>> /\ marked \subseteq marked' /\ marked' \subseteq GCObject
      /\ gcstate = "propagate" => marked' \subseteq Objects /\ S \subseteq Values(marked')
      /\ gcstate # "propagate" => marked' = marked
  BY <1>6, BarrierFacts
<1>8. TypeOK'
  <2>1. /\ openupval' \in [Thread -> Seq(UpVal)]
        /\ v' \in [UpVal -> {Own, Free} \cup (Thread \X Nat)] /\ value' \in [UpVal -> Value]
        /\ touched' \in [UpVal -> BOOLEAN]
    BY <1>1, <1>2, CloseFacts
  <2> QED BY <1>1, <1>2, <1>7, <2>1 DEF TypeOK
<1>9. Objects' = Objects /\ Alive' = Alive /\ Uses(LClosure)' = Uses(LClosure)
  BY <1>7 DEF Objects, Alive, Uses
<1>10. ListRight' /\ CacheRight'
  BY <1>1, <1>7, <1>9 DEF ListRight, CacheRight
<1>11. OpenRight'
  BY <1>1, <1>2, CloseOpenRight
<1>12. FreedEmpty' /\ TwupsRight'
  <2>1. ASSUME NEW t \in Thread, openupval[t] = <<>> PROVE openupval'[t] = <<>>
    <3>1. CASE t = L
      <4>1. openupval'[t] = SubSeq(openupval[t], Stop(t, l), Len(openupval[t]))
        BY <1>1, <1>2, <3>1, CloseFacts
      <4>2. openupval[t] \in Seq(UpVal) /\ Len(openupval[t]) = 0
        BY <1>1, <2>1 DEF TypeOK
      <4>3. Stop(t, l) \in 1 .. 0 + 1
        BY <1>1, <1>2, <4>2, StopFacts
      <4>4. PICK k : k = Stop(t, l)
        OBVIOUS
      <4>5. k = 1 /\ openupval'[t] = SubSeq(openupval[t], k, Len(openupval[t]))
        BY <4>1, <4>3, <4>4
      <4>6. openupval'[t] \in Seq(UpVal) /\ Len(openupval'[t]) = 0
        BY <4>2, <4>5, SuffixFacts
      <4> QED BY <4>6
    <3>2. CASE t # L
      BY <1>1, <1>2, <2>1, <3>2, CloseFacts
    <3> QED BY <3>1, <3>2
  <2>2. FreedEmpty'
    BY <1>1, <1>2, <1>9, <2>1 DEF FreedEmpty
  <2> QED BY <1>1, <1>9, <2>1, <2>2 DEF TwupsRight
<1>13. CountsRight'
  <2>1. ASSUME NEW u \in UpVal
        PROVE  (v'[u] = Own => refcount[u] > 0) /\ (v'[u] = Free => refcount[u] = 0)
    <3>1. IF u \notin Above(L, l) THEN v'[u] = v[u]
          ELSE IF refcount[u] > 0 THEN v'[u] = Own ELSE v'[u] = Free
      BY <1>1, <1>2, CloseFacts
    <3>2. refcount[u] \in Nat /\ (v[u] = Own => refcount[u] > 0) /\ (v[u] = Free => refcount[u] = 0)
      BY <1>1 DEF TypeOK, CountsRight
    <3> QED BY <3>1, <3>2, UpvalAssumption
  <2> QED BY <1>1, <1>9, <2>1 DEF CountsRight
<1>14. AliveClosed'
  <2>1. ASSUME NEW o \in Alive PROVE Refers(o)' \subseteq Values(Alive)
    <3>1. CASE o \in Thread
      BY <1>1, <1>2, <2>1, <3>1 DEF Refers, AliveClosed
    <3>2. CASE o \notin Thread
      <4>1. o \in LClosure
        BY <2>1, <3>2, RunningFacts DEF Alive, GCObject
      <4>2. ASSUME NEW w \in Upvals(o)' PROVE At(w)' \in Values(Alive)
        <5>1. w \in Upvals(o)
          BY <4>1, <4>2 DEF Upvals
        <5>2. At(w) \in Values(Alive)
          BY <1>1, <2>1, <3>2, <5>1 DEF AliveClosed, Refers
        <5> QED BY <1>3, <4>1, <5>1, <5>2
      <4> QED BY <3>2, <4>2 DEF Refers
    <3> QED BY <3>1, <3>2
  <2> QED BY <1>1, <1>9, <2>1 DEF AliveClosed, Values
<1>15. ColorsRight'
  <2>1. ASSUME gcstate = "propagate", NEW c \in black \cap LClosure, NEW w \in Upvals(c)'
        PROVE  IF upisopen(w)' THEN touched'[w] ELSE value'[w] \in Values(marked')
    <3>1. w \in Upvals(c)
      BY <2>1 DEF Upvals
    <3>2. w \in UpVal /\ refcount[w] > 0
      BY <1>3, <3>1
    <3>3. IF upisopen(w) THEN touched[w] ELSE value[w] \in Values(marked)
      BY <1>1, <2>1, <3>1 DEF ColorsRight
    <3>4. CASE w \notin Above(L, l)
      <4>1. v'[w] = v[w] /\ value'[w] = value[w] /\ touched'[w] = touched[w]
        BY <1>1, <1>2, <3>2, <3>4, CloseFacts
      <4> QED BY <1>7, <3>3, <4>1 DEF upisopen, Values
    <3>5. CASE w \in Above(L, l)
      <4>1. v'[w] = Own /\ value'[w] = At(w)
        BY <1>1, <1>2, <3>2, <3>5, CloseFacts
      <4>2. w \in Kept(L, l)
        BY <1>1, <1>2, <3>2, <3>5, ClosingAbove
      <4> QED BY <1>5, <1>7, <2>1, <4>1, <4>2 DEF upisopen
    <3> QED BY <3>4, <3>5
  <2>2. \A p \in black \cap Proto : gcstate = "propagate" => cache'[p] \in marked' \cup {None}
    BY <1>1, <1>7 DEF ColorsRight
  <2>3. Values(marked)' = Values(marked')
    BY DEF Values
  <2> QED BY <1>1, <1>7, <1>9, <2>1, <2>2, <2>3 DEF ColorsRight
<1>16. MakingRight'
  BY DEF MakingRight, Working
<1> QED BY <1>8, <1>10, <1>11, <1>12, <1>13, <1>14, <1>15, <1>16 DEF IInv

LEMMA LeaveKeeps == ASSUME IInv, Leave PROVE IInv'
<1>1. PICK l \in DOMAIN stack[L] :
        /\ luaF_close(L, l)
        /\ UpvalBarrier({At(u) : u \in Kept(L, l)})
        /\ stack' = [stack EXCEPT ![L] = SubSeq(@, 1, l - 1)]
  BY DEF Leave
<1>2. Cut(l)
  BY <1>1 DEF Cut
<1>3. UNCHANGED <<bound, chain, closures, refcount, twups, allgc, gcstate, emergency>> /\ making = None
  BY DEF Leave, Running, Working
<1>4. making' = None /\ emergency' \in {"no", "finish", "done"}
  BY <1>3 DEF closures, IInv, TypeOK
<1> QED BY <1>2, <1>3, <1>4, CutKeeps DEF closures

LEMMA MemoryErrorKeeps == ASSUME IInv, MemoryError PROVE IInv'
<1>1. PICK l \in 1 .. making.ra :
        /\ luaF_close(L, l)
        /\ UpvalBarrier({At(u) : u \in Kept(L, l)})
        /\ stack' = [stack EXCEPT ![L] = SubSeq(@, 1, l - 1)]
  BY DEF MemoryError
<1>2. making' = None /\ emergency' = "no" /\ Working
      /\ UNCHANGED <<bound, chain, upvals, proto, cache, refcount, twups, allgc, gcstate>>
  BY DEF MemoryError
<1>3. l \in DOMAIN stack[L]
  <2>1. making.ra \in DOMAIN stack[L] /\ stack[L] \in Seq(Value)
    BY <1>2, RunningFacts DEF IInv, MakingRight
  <2>2. DOMAIN stack[L] = 1 .. Len(stack[L]) /\ Len(stack[L]) \in Nat
    BY <2>1
  <2> QED BY <2>1, <2>2
<1>4. Cut(l)
  BY <1>1, <1>3 DEF Cut
<1> QED BY <1>2, <1>4, CutKeeps

-----------------------------------------------------------------------------
(* lua_upvaluejoin                                                         *)

Joins(c1, n1, c2, up1, up2) ==
    /\ c1 \in LClosure \cap InSlots /\ c2 \in LClosure \cap InSlots
    /\ n1 \in DOMAIN upvals[c1] /\ up1 = upvals[c1][n1]
    /\ up1 \in UpVal /\ up2 \in UpVal /\ up2 \in Upvals(c2) /\ up1 # up2
    /\ luaC_upvdeccount([u \in UpVal |-> IF u = up1 THEN 1 ELSE 0])
    /\ upvals' = [upvals EXCEPT ![c1][n1] = up2]
    /\ refcount' = [refcount EXCEPT ![up1] = @ - 1, ![up2] = @ + 1]
    /\ touched' = [touched EXCEPT ![up2] = @ \/ upisopen(up2)]
    /\ UpvalBarrier(IF upisopen(up2) THEN {} ELSE {value[up2]})
    /\ UNCHANGED <<program, openupval, proto, cache, making, twups, allgc, gcstate, emergency>>

(* The references are counted again.                                       *)
LEMMA JoinCounts ==
    ASSUME IInv, NEW c1, NEW n1, NEW c2, NEW up1, NEW up2, Joins(c1, n1, c2, up1, up2)
    PROVE  /\ upvals' \in UpvalLists /\ refcount' \in [UpVal -> Nat]
           /\ upvals'[c1][n1] = up2 /\ \A c \in LClosure : DOMAIN upvals'[c] = DOMAIN upvals[c]
           /\ \A c \in LClosure : \A i \in DOMAIN upvals[c] :
                  c # c1 \/ i # n1 => upvals'[c][i] = upvals[c][i]
           /\ \A u \in UpVal : refcount'[u] = Uses(LClosure)'[u]
           /\ \A u \in UpVal \ {up1} : refcount'[u] >= refcount[u]
           /\ refcount'[up1] = refcount[up1] - 1
<1>1. TypeOK /\ CountsRight /\ upvals \in UpvalLists /\ c1 \in LClosure /\ n1 \in DOMAIN upvals[c1]
      /\ up1 = upvals[c1][n1] /\ up1 \in UpVal /\ up2 \in UpVal /\ up1 # up2
  BY DEF IInv, TypeOK, UpvalLists, Joins
<1>2. upvals[c1] \in Seq(UpVal \cup {None})
  BY <1>1 DEF UpvalLists
<1>3. PICK s : s = [upvals[c1] EXCEPT ![n1] = up2]
  OBVIOUS
<1>4. /\ s \in Seq(UpVal \cup {None}) /\ DOMAIN s = DOMAIN upvals[c1] /\ s[n1] = up2
      /\ \A i \in DOMAIN upvals[c1] : i # n1 => s[i] = upvals[c1][i]
  BY <1>1, <1>2, <1>3
<1>5. upvals' = [upvals EXCEPT ![c1] = s]
  BY <1>3 DEF Joins
<1>6. upvals' \in UpvalLists /\ upvals'[c1] = s /\ \A c \in LClosure \ {c1} : upvals'[c] = upvals[c]
  BY <1>1, <1>4, <1>5 DEF UpvalLists
<1>7. \A c \in LClosure : \A i \in Nat : <<c, i>> # <<c1, n1>> =>
          (i \in DOMAIN upvals[c] <=> i \in DOMAIN upvals'[c])
          /\ (i \in DOMAIN upvals[c] => upvals'[c][i] = upvals[c][i])
  BY <1>4, <1>6
<1>8. n1 \in DOMAIN upvals'[c1] /\ upvals'[c1][n1] = up2
  BY <1>1, <1>4, <1>6
<1>9. /\ \A u \in UpVal : refcount[u] = Cardinality(PlacesIn(upvals, LClosure, u))
      /\ \A u \in UpVal : Uses(LClosure)'[u] = Cardinality(PlacesIn(upvals', LClosure, u))
      /\ \A u \in UpVal : Cardinality(PlacesIn(upvals', LClosure, u)) \in Nat
  BY <1>1, <1>6, UsesPlaces, PlacesFinite DEF CountsRight
<1>10. Cardinality(PlacesIn(upvals', LClosure, up2)) = Cardinality(PlacesIn(upvals, LClosure, up2)) + 1
  <2>1. ~(n1 \in DOMAIN upvals[c1] /\ upvals[c1][n1] = up2)
    BY <1>1
  <2>2. \A c \in LClosure : \A i \in Nat : <<c, i>> # <<c1, n1>> =>
            ((i \in DOMAIN upvals[c] /\ upvals[c][i] = up2)
                <=> (i \in DOMAIN upvals'[c] /\ upvals'[c][i] = up2))
    BY <1>7
  <2>3. PICK w : w = upvals'
    OBVIOUS
  <2> QED BY <1>1, <1>6, <1>8, <2>1, <2>2, <2>3, OneMorePlace
<1>11. Cardinality(PlacesIn(upvals, LClosure, up1)) = Cardinality(PlacesIn(upvals', LClosure, up1)) + 1
  <2>1. ~(n1 \in DOMAIN upvals'[c1] /\ upvals'[c1][n1] = up1)
    BY <1>1, <1>8
  <2>2. \A c \in LClosure : \A i \in Nat : <<c, i>> # <<c1, n1>> =>
            ((i \in DOMAIN upvals'[c] /\ upvals'[c][i] = up1)
                <=> (i \in DOMAIN upvals[c] /\ upvals[c][i] = up1))
    BY <1>7
  <2>3. PICK w : w = upvals'
    OBVIOUS
  <2> QED BY <1>1, <1>6, <2>1, <2>2, <2>3, OneMorePlace
<1>12. ASSUME NEW u \in UpVal, u # up1, u # up2
       PROVE  Cardinality(PlacesIn(upvals', LClosure, u)) = Cardinality(PlacesIn(upvals, LClosure, u))
  <2>1. ASSUME NEW c \in LClosure, NEW i \in Nat
        PROVE  (i \in DOMAIN upvals[c] /\ upvals[c][i] = u) <=> (i \in DOMAIN upvals'[c] /\ upvals'[c][i] = u)
    <3>1. CASE <<c, i>> = <<c1, n1>>
      BY <1>1, <1>8, <1>12, <3>1
    <3>2. CASE <<c, i>> # <<c1, n1>>
      BY <1>7, <3>2
    <3> QED BY <3>1, <3>2
  <2> QED BY <1>1, <1>6, <2>1, SamePlaces
<1>13. refcount \in [UpVal -> Nat]
  BY <1>1 DEF TypeOK
<1>14. refcount' = [refcount EXCEPT ![up1] = @ - 1, ![up2] = @ + 1]
  BY DEF Joins
<1>15. /\ refcount'[up1] = refcount[up1] - 1 /\ refcount'[up2] = refcount[up2] + 1
       /\ \A u \in UpVal : u # up1 /\ u # up2 => refcount'[u] = refcount[u]
       /\ DOMAIN refcount' = UpVal /\ refcount' = [u \in UpVal |-> refcount'[u]]
  BY <1>1, <1>13, <1>14
<1>16. \A u \in UpVal : refcount'[u] = Cardinality(PlacesIn(upvals', LClosure, u))
  BY <1>1, <1>9, <1>10, <1>11, <1>12, <1>15
<1>17. refcount' \in [UpVal -> Nat]
  BY <1>9, <1>15, <1>16
<1>18. \A u \in UpVal \ {up1} : refcount'[u] >= refcount[u]
  BY <1>1, <1>13, <1>15
<1>19. \A c \in LClosure : DOMAIN upvals'[c] = DOMAIN upvals[c]
  BY <1>1, <1>4, <1>6
<1>20. \A c \in LClosure : \A i \in DOMAIN upvals[c] : c # c1 \/ i # n1 => upvals'[c][i] = upvals[c][i]
  BY <1>4, <1>6
<1> QED BY <1>6, <1>8, <1>9, <1>15, <1>16, <1>17, <1>18, <1>19, <1>20

LEMMA JoinsKeep ==
    ASSUME IInv, NEW c1, NEW n1, NEW c2, NEW up1, NEW up2, Joins(c1, n1, c2, up1, up2), ~Working
    PROVE  IInv'
<1>1. TypeOK /\ ListRight /\ OpenRight /\ FreedEmpty /\ CountsRight /\ AliveClosed /\ TwupsRight
      /\ CacheRight /\ ColorsRight
  BY DEF IInv
<1>2. /\ c1 \in LClosure /\ c1 \in Alive /\ up1 \in UpVal /\ up2 \in UpVal /\ up1 # up2
      /\ v[up2] # Free /\ At(up2) \in Value /\ At(up2) \in Values(Alive)
  <2>1. c1 \in LClosure /\ c1 \in Alive
    BY RunningFacts DEF Values, GCObject, Joins
  <2> QED BY <2>1, ClosureInSlots DEF Joins
<1>3. UNCHANGED <<bound, chain, stack, openupval, proto, cache, making, twups, allgc, gcstate, emergency>>
  BY DEF Joins, program
<1>4. /\ upvals' \in UpvalLists /\ refcount' \in [UpVal -> Nat]
      /\ upvals'[c1][n1] = up2 /\ \A c \in LClosure : DOMAIN upvals'[c] = DOMAIN upvals[c]
      /\ \A c \in LClosure : \A i \in DOMAIN upvals[c] : c # c1 \/ i # n1 => upvals'[c][i] = upvals[c][i]
      /\ \A u \in UpVal : refcount'[u] = Uses(LClosure)'[u]
      /\ \A u \in UpVal \ {up1} : refcount'[u] >= refcount[u]
      /\ refcount'[up1] = refcount[up1] - 1
  BY JoinCounts
<1>5. v \in [UpVal -> {Own, Free} \cup (Thread \X Nat)] /\ value \in [UpVal -> Value]
      /\ refcount \in [UpVal -> Nat] /\ touched \in [UpVal -> BOOLEAN] /\ Own # Free
  BY <1>1, UpvalAssumption DEF TypeOK
<1>6. ASSUME NEW u \in UpVal
      PROVE  IF u = up1 /\ v[u] = Own /\ refcount[u] = 1
             THEN v'[u] = Free /\ value'[u] = Nil
             ELSE v'[u] = v[u] /\ value'[u] = value[u]
  <2> DEFINE freed == {w \in UpVal : v[w] = Own /\ refcount[w] > 0
                         /\ refcount[w] = [x \in UpVal |-> IF x = up1 THEN 1 ELSE 0][w]}
  <2>1. u \in freed <=> u = up1 /\ v[u] = Own /\ refcount[u] = 1
    BY <1>5
  <2>2. /\ v' = [w \in UpVal |-> IF w \in freed THEN Free ELSE v[w]]
        /\ value' = [w \in UpVal |-> IF w \in freed THEN Nil ELSE value[w]]
    BY DEF Joins, luaC_upvdeccount
  <2> HIDE DEF freed
  <2> QED BY <2>1, <2>2
<1>7. v' \in [UpVal -> {Own, Free} \cup (Thread \X Nat)] /\ value' \in [UpVal -> Value]
  <2>1. /\ v' = [u \in UpVal |-> v'[u]] /\ value' = [u \in UpVal |-> value'[u]]
    BY DEF Joins, luaC_upvdeccount
  <2>2. \A u \in UpVal : v'[u] \in {Own, Free} \cup (Thread \X Nat) /\ value'[u] \in Value
    BY <1>5, <1>6, RunningFacts
  <2> QED BY <2>1, <2>2
<1>8. /\ touched' \in [UpVal -> BOOLEAN]
      /\ \A u \in UpVal : touched[u] => touched'[u]
      /\ upisopen(up2) => touched'[up2]
  <2>1. PICK b \in BOOLEAN : b = (touched[up2] \/ upisopen(up2))
    BY <1>2, <1>5, Zenon
  <2>2. touched' = [touched EXCEPT ![up2] = b]
    BY <2>1, Zenon DEF Joins
  <2>3. touched' \in [UpVal -> BOOLEAN] /\ touched'[up2] = b
        /\ \A u \in UpVal \ {up2} : touched'[u] = touched[u]
    BY <1>2, <1>5, <2>2
  <2> QED BY <2>1, <2>3, Zenon
<1>9. PICK S : S = IF upisopen(up2) THEN {} ELSE {value[up2]}
  OBVIOUS
<1>10. S \subseteq Values(Alive) /\ UpvalBarrier(S)
  <2>1. ~upisopen(up2) => value[up2] = At(up2)
    BY DEF At
  <2> QED BY <1>2, <1>9, <2>1 DEF Joins
<1>11. /\ UNCHANGED <<black, dead>> /\ marked \subseteq marked' /\ marked' \subseteq GCObject
       /\ gcstate = "propagate" => marked' \subseteq Objects /\ S \subseteq Values(marked')
       /\ gcstate # "propagate" => marked' = marked
  BY <1>10, BarrierFacts
<1>12. TypeOK'
  BY <1>1, <1>3, <1>4, <1>7, <1>8, <1>11 DEF TypeOK, UpvalLists
<1>13. Objects' = Objects /\ Alive' = Alive
  BY <1>3, <1>11 DEF Objects, Alive
<1>14. ASSUME NEW u \in UpVal
       PROVE  /\ (v'[u] = Own => refcount'[u] > 0) /\ (v'[u] = Free => refcount'[u] = 0)
              /\ upisopen(u)' = upisopen(u) /\ (upisopen(u) => v'[u] = v[u])
              /\ v'[u] # Free => v'[u] = v[u] /\ value'[u] = value[u] /\ At(u)' = At(u)
  <2>1. refcount[u] \in Nat /\ (v[u] = Own => refcount[u] > 0) /\ (v[u] = Free => refcount[u] = 0)
    BY <1>1, <1>5 DEF CountsRight
  <2>2. u = up1 => refcount'[u] = refcount[u] - 1 /\ v[u] # Free /\ refcount[u] > 0
    <3>1. upvals[c1] \in Seq(UpVal \cup {None}) /\ up1 = upvals[c1][n1] /\ n1 \in DOMAIN upvals[c1]
          /\ up1 # None
      BY <1>1, <1>2, UpvalAssumption DEF TypeOK, Joins
    <3> QED BY <1>1, <1>2, <1>4, <3>1, CountedInUse
  <2>3. u # up1 => v'[u] = v[u] /\ refcount'[u] >= refcount[u] /\ refcount'[u] \in Nat
    BY <1>4, <1>6
  <2>4. u # up1 /\ v[u] = Free => refcount'[u] = 0
    <3>1. SUFFICES ASSUME u # up1, v[u] = Free PROVE refcount'[u] = 0
      OBVIOUS
    <3>2. u # up2
      BY <1>2, <3>1
    <3>3. refcount'[u] = refcount[u]
      BY <1>2, <1>5, <3>1, <3>2 DEF Joins
    <3> QED BY <2>1, <3>1, <3>3
  <2>5. v'[u] = Own => refcount'[u] > 0
    BY <1>5, <1>6, <2>1, <2>2, <2>3
  <2>6. v'[u] = Free => refcount'[u] = 0
    BY <1>5, <1>6, <2>1, <2>2, <2>3, <2>4
  <2>7. upisopen(u)' = upisopen(u) /\ (upisopen(u) => v'[u] = v[u])
    BY <1>6 DEF upisopen
  <2>8. v'[u] # Free => v'[u] = v[u] /\ value'[u] = value[u]
    BY <1>6
  <2>9. v'[u] # Free => At(u)' = At(u)
    BY <1>3, <2>8 DEF At, upisopen
  <2> QED BY <2>5, <2>6, <2>7, <2>8, <2>9
<1>15. CountsRight'
  BY <1>4, <1>14 DEF CountsRight
<1>16. OpenRight'
  <2>1. ASSUME NEW t \in Thread, NEW i \in DOMAIN openupval[t]
        PROVE  v'[openupval[t][i]] = v[openupval[t][i]]
    <3>1. openupval[t][i] \in UpVal /\ upisopen(openupval[t][i])
      BY <1>1, <2>1, ListedOpen
    <3> QED BY <1>14, <3>1
  <2>2. ASSUME NEW u \in UpVal, upisopen(u)' PROVE upisopen(u) /\ v'[u] = v[u]
    BY <1>14, <2>2
  <2> QED BY <1>1, <1>3, <2>1, <2>2 DEF OpenRight, Level
<1>17. ASSUME NEW c \in LClosure, NEW w \in Upvals(c)'
       PROVE  /\ w \in UpVal /\ v'[w] # Free
              /\ w \in Upvals(c) \/ (c = c1 /\ w = up2)
  <2>1. w \in ToSet(upvals'[c]) /\ w # None /\ upvals'[c] \in Seq(UpVal \cup {None})
    BY <1>4 DEF Upvals, UpvalLists
  <2>2. PICK i \in DOMAIN upvals'[c] : upvals'[c][i] = w
    BY <2>1, InSeq
  <2>3. w \in UpVal
    BY <2>1, <2>2, InSeq
  <2>4. <<c, i>> \in PlacesIn(upvals', LClosure, w)
    BY <2>2, PlaceIn
  <2>5. IsFiniteSet(PlacesIn(upvals', LClosure, w)) /\ Cardinality(PlacesIn(upvals', LClosure, w)) \in Nat
    BY <1>4, PlacesFinite
  <2>6. Cardinality(PlacesIn(upvals', LClosure, w)) # 0
    BY <2>4, <2>5, FS_EmptySet
  <2>7. refcount'[w] # 0
    BY <1>4, <2>3, <2>6, UsesPlaces
  <2>8. v'[w] # Free
    BY <1>14, <2>3, <2>7
  <2>9. w \in Upvals(c) \/ (c = c1 /\ w = up2)
    <3>1. CASE c = c1 /\ i = n1
      BY <1>4, <2>2, <3>1
    <3>2. CASE c # c1 \/ i # n1
      <4>1. i \in DOMAIN upvals[c] /\ upvals[c][i] = w
        BY <1>4, <2>2, <3>2
      <4>2. upvals[c] \in Seq(UpVal \cup {None})
        BY <1>1 DEF TypeOK
      <4> QED BY <2>1, <4>1, <4>2, InSeq DEF Upvals
    <3> QED BY <3>1, <3>2
  <2> QED BY <2>3, <2>8, <2>9
<1>18. AliveClosed'
  <2>1. ASSUME NEW o \in Alive PROVE Refers(o)' \subseteq Values(Alive)
    <3>1. CASE o \in Thread
      BY <1>1, <1>3, <2>1, <3>1 DEF Refers, AliveClosed
    <3>2. CASE o \notin Thread
      <4>1. o \in LClosure
        BY <2>1, <3>2, RunningFacts DEF Alive, GCObject
      <4>2. ASSUME NEW w \in Upvals(o)' PROVE At(w)' \in Values(Alive)
        <5>1. At(w)' = At(w) /\ (w \in Upvals(o) \/ w = up2)
          BY <1>14, <1>17, <4>1, <4>2
        <5>2. w \in Upvals(o) => At(w) \in Values(Alive)
          BY <1>1, <2>1, <3>2 DEF AliveClosed, Refers
        <5> QED BY <1>2, <5>1, <5>2
      <4> QED BY <3>2, <4>2 DEF Refers
    <3> QED BY <3>1, <3>2
  <2> QED BY <1>1, <1>3, <1>13, <2>1 DEF AliveClosed, Values
<1>19. FreedEmpty'
  <2>1. ASSUME NEW c \in LClosure \ Objects PROVE upvals'[c] = <<>>
    <3>1. c # c1
      BY <1>2, <2>1 DEF Alive
    <3>2. upvals'[c] = upvals[c]
      BY <1>1, <1>2, <3>1 DEF Joins, TypeOK
    <3> QED BY <1>1, <2>1, <3>2 DEF FreedEmpty
  <2> QED BY <1>1, <1>3, <1>13, <2>1 DEF FreedEmpty
<1>20. ListRight' /\ TwupsRight' /\ CacheRight'
  BY <1>1, <1>3, <1>11, <1>13 DEF ListRight, TwupsRight, CacheRight
<1>21. ColorsRight'
  <2>1. ASSUME gcstate = "propagate", NEW c \in black \cap LClosure, NEW w \in Upvals(c)'
        PROVE  IF upisopen(w)' THEN touched'[w] ELSE value'[w] \in Values(marked')
    <3>1. /\ w \in UpVal /\ upisopen(w)' = upisopen(w) /\ value'[w] = value[w]
          /\ w \in Upvals(c) \/ w = up2
      BY <1>14, <1>17, <2>1
    <3>2. CASE w \in Upvals(c)
      <4>1. IF upisopen(w) THEN touched[w] ELSE value[w] \in Values(marked)
        BY <1>1, <2>1, <3>2 DEF ColorsRight
      <4> QED BY <1>8, <1>11, <3>1, <4>1 DEF Values
    <3>3. CASE w = up2
      BY <1>8, <1>9, <1>11, <2>1, <3>1, <3>3 DEF Values
    <3> QED BY <3>1, <3>2, <3>3
  <2>2. \A p \in black \cap Proto : gcstate = "propagate" => cache'[p] \in marked' \cup {None}
    BY <1>1, <1>3, <1>11 DEF ColorsRight
  <2>3. Values(marked)' = Values(marked')
    BY DEF Values
  <2> QED BY <1>1, <1>3, <1>11, <1>13, <2>1, <2>2, <2>3 DEF ColorsRight
<1>22. MakingRight'
  BY <1>3 DEF MakingRight, Working
<1> QED BY <1>12, <1>15, <1>16, <1>18, <1>19, <1>20, <1>21, <1>22 DEF IInv

LEMMA JoinsFacts ==
    ASSUME IInv, lua_upvaluejoin
    PROVE  \E c1, n1, c2, up1, up2 : Joins(c1, n1, c2, up1, up2) /\ up1 # None
<1>1. PICK c1 \in LClosure \cap InSlots, c2 \in LClosure \cap InSlots :
       \E n1 \in DOMAIN upvals[c1], n2 \in DOMAIN upvals[c2] :
        LET up1 == upvals[c1][n1] up2 == upvals[c2][n2] IN
        /\ None \notin {up1, up2} /\ up1 # up2
        /\ luaC_upvdeccount([u \in UpVal |-> IF u = up1 THEN 1 ELSE 0])
        /\ upvals' = [upvals EXCEPT ![c1][n1] = up2]
        /\ refcount' = [refcount EXCEPT ![up1] = @ - 1, ![up2] = @ + 1]
        /\ touched' = [touched EXCEPT ![up2] = @ \/ upisopen(up2)]
        /\ UpvalBarrier(IF upisopen(up2) THEN {} ELSE {value[up2]})
  BY Zenon DEF lua_upvaluejoin
<1>2. PICK n1 \in DOMAIN upvals[c1], n2 \in DOMAIN upvals[c2] :
        /\ None \notin {upvals[c1][n1], upvals[c2][n2]} /\ upvals[c1][n1] # upvals[c2][n2]
        /\ luaC_upvdeccount([u \in UpVal |-> IF u = upvals[c1][n1] THEN 1 ELSE 0])
        /\ upvals' = [upvals EXCEPT ![c1][n1] = upvals[c2][n2]]
        /\ refcount' = [refcount EXCEPT ![upvals[c1][n1]] = @ - 1, ![upvals[c2][n2]] = @ + 1]
        /\ touched' = [touched EXCEPT ![upvals[c2][n2]] = @ \/ upisopen(upvals[c2][n2])]
        /\ UpvalBarrier(IF upisopen(upvals[c2][n2]) THEN {} ELSE {value[upvals[c2][n2]]})
  BY <1>1, Zenon
<1>3. PICK up1 : up1 = upvals[c1][n1]
  OBVIOUS
<1>4. PICK up2 : up2 = upvals[c2][n2]
  OBVIOUS
<1>5. up1 # None /\ up2 # None /\ up1 # up2
  BY <1>2, <1>3, <1>4
<1>6. up1 \in UpVal /\ up2 \in UpVal /\ up2 \in Upvals(c2)
  <2>1. upvals[c1] \in Seq(UpVal \cup {None}) /\ upvals[c2] \in Seq(UpVal \cup {None})
    BY DEF IInv, TypeOK
  <2>2. up1 \in UpVal \cup {None} /\ up2 \in UpVal \cup {None} /\ up2 \in ToSet(upvals[c2])
    BY <1>3, <1>4, <2>1, InSeq
  <2> QED BY <1>5, <2>2 DEF Upvals
<1>7. UNCHANGED <<program, openupval, proto, cache, making, twups, allgc, gcstate, emergency>> /\ ~Working
  BY DEF lua_upvaluejoin, Running
<1>8. Joins(c1, n1, c2, up1, up2)
  BY <1>2, <1>3, <1>4, <1>5, <1>6, <1>7, Zenon DEF Joins
<1> QED BY <1>5, <1>8

LEMMA JoinKeeps == ASSUME IInv, lua_upvaluejoin PROVE IInv'
<1>1. PICK c1, n1, c2, up1, up2 : Joins(c1, n1, c2, up1, up2)
  BY JoinsFacts
<1>2. ~Working
  BY DEF lua_upvaluejoin, Running
<1> QED BY <1>1, <1>2, JoinsKeep

-----------------------------------------------------------------------------
(* pushclosure fills in the upvalues                                       *)

LEMMA MakingFacts ==
    ASSUME IInv, Working
    PROVE  /\ making.cl \in LClosure /\ making.cl \in Alive /\ making.enc \in LClosure \cup {None}
           /\ making.base \in Nat /\ proto[making.cl] \in Proto
           /\ upvals[making.cl] \in Seq(UpVal \cup {None})
           /\ upvalues[proto[making.cl]] \in Seq([instack : BOOLEAN, idx : Nat \ {0}])
           /\ DOMAIN upvals[making.cl] = DOMAIN upvalues[proto[making.cl]]
           /\ making.enc # None => making.enc \in LClosure \cap InSlots
           /\ Allowed(proto[making.cl], making.enc, making.base)
<1>1. TypeOK /\ MakingRight
  BY DEF IInv
<1>2. making \in [cl : LClosure, enc : LClosure \cup {None}, base : Nat, ra : Nat]
  BY <1>1 DEF TypeOK, Working
<1>3. making.cl \in LClosure /\ making.enc \in LClosure \cup {None} /\ making.base \in Nat
  BY <1>2
<1>4. PICK c \in LClosure : c = making.cl
  BY <1>3
<1>5. c \in Alive
  <2>1. c \in InSlots
    BY <1>1, <1>4, RunningFacts, InSeq DEF MakingRight, InSlots
  <2> QED BY <2>1, RunningFacts DEF Values, GCObject
<1>6. proto[c] \in Proto /\ upvals[c] \in Seq(UpVal \cup {None})
      /\ upvalues[proto[c]] \in Seq([instack : BOOLEAN, idx : Nat \ {0}])
  BY <1>1, UpvalAssumption DEF TypeOK
<1>7. DOMAIN upvals[c] = DOMAIN upvalues[proto[c]]
  <2>1. Len(upvals[c]) = Len(upvalues[proto[c]])
    BY <1>1, <1>4 DEF MakingRight
  <2> QED BY <1>6, <2>1, InSeq
<1> QED BY <1>1, <1>3, <1>4, <1>5, <1>6, <1>7 DEF MakingRight

LEMMA NextFacts ==
    ASSUME IInv, Working, Unfilled # {}
    PROVE  /\ Next_i \in DOMAIN upvals[making.cl] /\ upvals[making.cl][Next_i] = None
           /\ Next_i \in DOMAIN upvalues[proto[making.cl]]
           /\ Desc.instack \in BOOLEAN /\ Desc.idx \in Nat /\ level \in Nat
           /\ IF Desc.instack THEN level \in DOMAIN stack[L]
              ELSE /\ making.enc \in LClosure \cap InSlots
                   /\ Desc.idx \in DOMAIN upvals[making.enc] /\ upvals[making.enc][Desc.idx] # None
<1>1. PICK S : S = Unfilled
  OBVIOUS
<1>2. S \subseteq Nat /\ \A i \in S : i \in DOMAIN upvals[making.cl] /\ upvals[making.cl][i] = None
  <2>1. DOMAIN upvals[making.cl] = 1 .. Len(upvals[making.cl])
    BY MakingFacts, InSeq
  <2> QED BY <1>1, <2>1 DEF Unfilled
<1>3. \E n \in S : \A m \in S : n <= m
  BY <1>1, <1>2, LeastNumber
<1>4. Next_i \in S
  <2>1. Next_i = CHOOSE n \in S : \A m \in S : n <= m
    BY <1>1 DEF Next_i
  <2> QED BY <1>3, <2>1
<1>5. Next_i \in DOMAIN upvalues[proto[making.cl]]
  BY <1>2, <1>4, MakingFacts
<1>6. Desc \in [instack : BOOLEAN, idx : Nat \ {0}]
  <2>1. PICK q : q = upvalues[proto[making.cl]]
    OBVIOUS
  <2>2. q \in Seq([instack : BOOLEAN, idx : Nat \ {0}]) /\ Next_i \in DOMAIN q
    BY <1>5, <2>1, MakingFacts
  <2>3. q[Next_i] \in [instack : BOOLEAN, idx : Nat \ {0}]
    BY <2>2, InSeq
  <2> QED BY <2>1, <2>3 DEF Desc
<1>7. level \in Nat
  BY <1>6, MakingFacts DEF level
<1>8. IF Desc.instack THEN level \in DOMAIN stack[L]
      ELSE /\ making.enc # None
           /\ Desc.idx \in DOMAIN upvals[making.enc] /\ upvals[making.enc][Desc.idx] # None
  BY <1>5, MakingFacts DEF Allowed, Desc, level
<1> QED BY <1>2, <1>4, <1>5, <1>6, <1>7, <1>8, MakingFacts

LEMMA FillCounts ==
    ASSUME IInv, Working, Unfilled # {}, NEW u \in UpVal, Fill(u)
    PROVE  /\ upvals' \in UpvalLists /\ refcount' \in [UpVal -> Nat]
           /\ upvals'[making.cl][Next_i] = u /\ \A c \in LClosure : DOMAIN upvals'[c] = DOMAIN upvals[c]
           /\ \A c \in LClosure : \A i \in DOMAIN upvals[c] :
                  c # making.cl \/ i # Next_i => upvals'[c][i] = upvals[c][i]
           /\ \A w \in UpVal : refcount'[w] = Uses(LClosure)'[w]
           /\ \A w \in UpVal \ {u} : refcount'[w] = refcount[w]
           /\ refcount'[u] = refcount[u] + 1
<1>1. PICK d : d = making.cl
  OBVIOUS
<1>2. PICK k : k = Next_i
  OBVIOUS
<1>3. TypeOK /\ CountsRight /\ upvals \in UpvalLists /\ d \in LClosure /\ k \in DOMAIN upvals[d]
      /\ upvals[d][k] = None /\ u # None /\ upvals[d] \in Seq(UpVal \cup {None})
  BY <1>1, <1>2, MakingFacts, NextFacts, UpvalAssumption DEF IInv, TypeOK, UpvalLists
<1>4. PICK s : s = [upvals[d] EXCEPT ![k] = u]
  OBVIOUS
<1>5. /\ s \in Seq(UpVal \cup {None}) /\ DOMAIN s = DOMAIN upvals[d] /\ s[k] = u
      /\ \A i \in DOMAIN upvals[d] : i # k => s[i] = upvals[d][i]
  BY <1>3, <1>4
<1>6. upvals' = [upvals EXCEPT ![d] = s] /\ refcount' = [refcount EXCEPT ![u] = @ + 1]
  BY <1>1, <1>2, <1>4 DEF Fill
<1>7. upvals' \in UpvalLists /\ upvals'[d] = s /\ \A c \in LClosure \ {d} : upvals'[c] = upvals[c]
  BY <1>3, <1>5, <1>6 DEF UpvalLists
<1>8. \A c \in LClosure : \A i \in Nat : <<c, i>> # <<d, k>> =>
          (i \in DOMAIN upvals[c] <=> i \in DOMAIN upvals'[c])
          /\ (i \in DOMAIN upvals[c] => upvals'[c][i] = upvals[c][i])
  BY <1>5, <1>7
<1>9. k \in DOMAIN upvals'[d] /\ upvals'[d][k] = u
  BY <1>3, <1>5, <1>7
<1>10. /\ \A w \in UpVal : refcount[w] = Cardinality(PlacesIn(upvals, LClosure, w))
       /\ \A w \in UpVal : Uses(LClosure)'[w] = Cardinality(PlacesIn(upvals', LClosure, w))
  BY <1>3, UsesPlaces DEF CountsRight
<1>11. Cardinality(PlacesIn(upvals', LClosure, u)) = Cardinality(PlacesIn(upvals, LClosure, u)) + 1
  <2>1. ~(k \in DOMAIN upvals[d] /\ upvals[d][k] = u)
    BY <1>3
  <2>2. \A c \in LClosure : \A i \in Nat : <<c, i>> # <<d, k>> =>
            ((i \in DOMAIN upvals[c] /\ upvals[c][i] = u)
                <=> (i \in DOMAIN upvals'[c] /\ upvals'[c][i] = u))
    BY <1>8
  <2>3. PICK w : w = upvals'
    OBVIOUS
  <2> QED BY <1>3, <1>7, <1>9, <2>1, <2>2, <2>3, OneMorePlace
<1>12. ASSUME NEW w \in UpVal, w # u
       PROVE  Cardinality(PlacesIn(upvals', LClosure, w)) = Cardinality(PlacesIn(upvals, LClosure, w))
  <2>1. w # None
    BY UpvalAssumption
  <2>2. ASSUME NEW c \in LClosure, NEW i \in Nat
        PROVE  (i \in DOMAIN upvals[c] /\ upvals[c][i] = w) <=> (i \in DOMAIN upvals'[c] /\ upvals'[c][i] = w)
    <3>1. CASE <<c, i>> = <<d, k>>
      BY <1>3, <1>9, <1>12, <2>1, <3>1
    <3>2. CASE <<c, i>> # <<d, k>>
      BY <1>8, <3>2
    <3> QED BY <3>1, <3>2
  <2> QED BY <1>3, <1>7, <2>2, SamePlaces
<1>13. refcount \in [UpVal -> Nat]
  BY <1>3 DEF TypeOK
<1>14. /\ refcount' \in [UpVal -> Nat] /\ refcount'[u] = refcount[u] + 1
       /\ \A w \in UpVal \ {u} : refcount'[w] = refcount[w]
  BY <1>6, <1>13
<1>15. \A w \in UpVal : refcount'[w] = Uses(LClosure)'[w]
  BY <1>10, <1>11, <1>12, <1>14
<1>16. \A c \in LClosure : DOMAIN upvals'[c] = DOMAIN upvals[c]
  BY <1>3, <1>5, <1>7
<1>17. \A c \in LClosure : \A i \in DOMAIN upvals[c] : c # d \/ i # k => upvals'[c][i] = upvals[c][i]
  BY <1>5, <1>7
<1> QED BY <1>1, <1>2, <1>7, <1>9, <1>14, <1>15, <1>16, <1>17

(* The upvalue u has a value that is alive, and is open if it is new; the  *)
(* others stay as they are.                                                *)
Fills(u) ==
    /\ u \in UpVal /\ Fill(u)
    /\ openupval' \in [Thread -> Seq(UpVal)] /\ v' \in [UpVal -> {Own, Free} \cup (Thread \X Nat)]
    /\ touched' \in [UpVal -> BOOLEAN] /\ \A w \in UpVal : touched[w] => touched'[w]
    /\ \A w \in UpVal : v[w] # Free => v'[w] = v[w]
    /\ \A w \in UpVal \ {u} : v'[w] = v[w]
    /\ v'[u] # Free /\ At(u)' \in Values(Alive)
    /\ \A t \in Thread \ {L} : openupval'[t] = openupval[t]

LEMMA FillsKeep ==
    ASSUME IInv, Working, Unfilled # {}, NEW u, Fills(u), OpenRight', TwupsRight', twups' \in Seq(Thread)
    PROVE  IInv'
<1>1. TypeOK /\ ListRight /\ OpenRight /\ FreedEmpty /\ CountsRight /\ AliveClosed /\ TwupsRight
      /\ CacheRight /\ ColorsRight /\ MakingRight
  BY DEF IInv
<1>2. u \in UpVal /\ Fill(u)
  BY DEF Fills
<1>3. /\ UNCHANGED <<bound, chain, stack, value, proto, cache, making, allgc, marked, black, dead, gcstate>>
      /\ emergency' = "no"
  BY <1>2 DEF Fill, program, colors
<1>4. /\ upvals' \in UpvalLists /\ refcount' \in [UpVal -> Nat]
      /\ upvals'[making.cl][Next_i] = u /\ \A c \in LClosure : DOMAIN upvals'[c] = DOMAIN upvals[c]
      /\ \A c \in LClosure : \A i \in DOMAIN upvals[c] :
             c # making.cl \/ i # Next_i => upvals'[c][i] = upvals[c][i]
      /\ \A w \in UpVal : refcount'[w] = Uses(LClosure)'[w]
      /\ \A w \in UpVal \ {u} : refcount'[w] = refcount[w]
      /\ refcount'[u] = refcount[u] + 1
  BY <1>2, FillCounts
<1>5. /\ openupval' \in [Thread -> Seq(UpVal)] /\ v' \in [UpVal -> {Own, Free} \cup (Thread \X Nat)]
      /\ touched' \in [UpVal -> BOOLEAN] /\ \A w \in UpVal : touched[w] => touched'[w]
      /\ \A w \in UpVal : v[w] # Free => v'[w] = v[w]
      /\ \A w \in UpVal \ {u} : v'[w] = v[w]
      /\ v'[u] # Free /\ At(u)' \in Values(Alive)
      /\ \A t \in Thread \ {L} : openupval'[t] = openupval[t]
  BY DEF Fills
<1>6. TypeOK'
  BY <1>1, <1>3, <1>4, <1>5 DEF TypeOK, UpvalLists
<1>7. Objects' = Objects /\ Alive' = Alive
  BY <1>3 DEF Objects, Alive
<1>8. making.cl \in LClosure /\ making.cl \in Alive /\ making.cl \notin black
  BY <1>1, MakingFacts DEF MakingRight
<1>9. CountsRight'
  <2>1. ASSUME NEW w \in UpVal
        PROVE  (v'[w] = Own => refcount'[w] > 0) /\ (v'[w] = Free => refcount'[w] = 0)
    <3>1. refcount[w] \in Nat /\ (v[w] = Own => refcount[w] > 0) /\ (v[w] = Free => refcount[w] = 0)
      BY <1>1 DEF TypeOK, CountsRight
    <3>2. CASE w = u
      BY <1>4, <1>5, <3>1, <3>2
    <3>3. CASE w # u
      BY <1>4, <1>5, <3>1, <3>3
    <3> QED BY <3>2, <3>3
  <2> QED BY <1>4, <2>1 DEF CountsRight
<1>10. ASSUME NEW c \in LClosure, NEW w \in Upvals(c)'
       PROVE  w \in Upvals(c) \/ (c = making.cl /\ w = u)
  <2>1. w \in ToSet(upvals'[c]) /\ w # None /\ upvals'[c] \in Seq(UpVal \cup {None})
    BY <1>4 DEF Upvals, UpvalLists
  <2>2. PICK i \in DOMAIN upvals'[c] : upvals'[c][i] = w
    BY <2>1, InSeq
  <2>3. CASE c = making.cl /\ i = Next_i
    BY <1>4, <2>2, <2>3
  <2>4. CASE c # making.cl \/ i # Next_i
    <3>1. i \in DOMAIN upvals[c] /\ upvals[c][i] = w
      BY <1>4, <2>2, <2>4
    <3>2. upvals[c] \in Seq(UpVal \cup {None})
      BY <1>1 DEF TypeOK
    <3> QED BY <2>1, <3>1, <3>2, InSeq DEF Upvals
  <2> QED BY <2>3, <2>4
<1>11. ASSUME NEW c \in LClosure, NEW w \in Upvals(c)
       PROVE  w \in UpVal /\ v'[w] = v[w] /\ At(w)' = At(w) /\ upisopen(w)' = upisopen(w)
  <2>1. w \in UpVal /\ v'[w] = v[w]
    BY <1>1, <1>5, UpvalsInUse
  <2> QED BY <1>3, <2>1 DEF At, upisopen
<1>12. AliveClosed'
  <2>1. ASSUME NEW o \in Alive PROVE Refers(o)' \subseteq Values(Alive)
    <3>1. CASE o \in Thread
      BY <1>1, <1>3, <2>1, <3>1 DEF Refers, AliveClosed
    <3>2. CASE o \notin Thread
      <4>1. o \in LClosure
        BY <2>1, <3>2, RunningFacts DEF Alive, GCObject
      <4>2. ASSUME NEW w \in Upvals(o)' PROVE At(w)' \in Values(Alive)
        <5>1. w \in Upvals(o) => At(w) \in Values(Alive) /\ At(w)' = At(w)
          BY <1>1, <1>11, <2>1, <3>2, <4>1 DEF AliveClosed, Refers
        <5> QED BY <1>5, <1>10, <4>1, <4>2, <5>1
      <4> QED BY <3>2, <4>2 DEF Refers
    <3> QED BY <3>1, <3>2
  <2> QED BY <1>1, <1>3, <1>7, <2>1 DEF AliveClosed, Values
<1>13. FreedEmpty'
  <2>1. ASSUME NEW c \in LClosure \ Objects PROVE upvals'[c] = <<>>
    <3>1. c # making.cl
      BY <1>8, <2>1 DEF Alive
    <3>2. upvals'[c] = upvals[c]
      BY <1>1, <1>2, <3>1 DEF Fill, TypeOK
    <3> QED BY <1>1, <2>1, <3>2 DEF FreedEmpty
  <2>2. L \in Objects
    BY RunningFacts DEF Alive
  <2> QED BY <1>1, <1>3, <1>5, <1>7, <2>1, <2>2 DEF FreedEmpty
<1>14. ListRight' /\ CacheRight'
  BY <1>1, <1>3, <1>7 DEF ListRight, CacheRight
<1>15. ColorsRight'
  <2>1. ASSUME gcstate = "propagate", NEW c \in black \cap LClosure, NEW w \in Upvals(c)'
        PROVE  IF upisopen(w)' THEN touched'[w] ELSE value'[w] \in Values(marked')
    <3>1. w \in Upvals(c) /\ c # making.cl
      BY <1>8, <1>10, <2>1
    <3>2. IF upisopen(w) THEN touched[w] ELSE value[w] \in Values(marked)
      BY <1>1, <2>1, <3>1 DEF ColorsRight
    <3> QED BY <1>3, <1>5, <1>11, <3>1, <3>2 DEF Values
  <2>2. Values(marked)' = Values(marked')
    BY DEF Values
  <2> QED BY <1>1, <1>3, <1>7, <2>1, <2>2 DEF ColorsRight
<1>16. MakingRight'
  <2>1. upvals' \in UpvalLists /\ upvals \in UpvalLists
    BY <1>1, <1>4 DEF TypeOK, UpvalLists
  <2>2. Len(upvals'[making.cl]) = Len(upvals[making.cl])
    <3>1. /\ upvals'[making.cl] \in Seq(UpVal \cup {None}) /\ upvals[making.cl] \in Seq(UpVal \cup {None})
          /\ DOMAIN upvals'[making.cl] = DOMAIN upvals[making.cl]
      BY <1>4, <1>8, <2>1 DEF UpvalLists
    <3>2. PICK a \in Seq(UpVal \cup {None}) : a = upvals'[making.cl]
      BY <3>1
    <3>3. PICK b \in Seq(UpVal \cup {None}) : b = upvals[making.cl]
      BY <3>1
    <3>4. DOMAIN a = 1 .. Len(a) /\ DOMAIN b = 1 .. Len(b) /\ Len(a) \in Nat /\ Len(b) \in Nat
      OBVIOUS
    <3>5. DOMAIN a = DOMAIN b
      BY <3>1, <3>2, <3>3
    <3>6. Len(a) = Len(b)
      <4>1. PICK m \in Nat, n \in Nat : m = Len(a) /\ n = Len(b)
        BY <3>4
      <4>2. 1 .. m = 1 .. n
        BY <3>4, <3>5, <4>1
      <4>3. \A i \in Nat : (1 <= i /\ i <= m) <=> (1 <= i /\ i <= n)
        BY <4>2
      <4>4. (1 <= m => m <= n) /\ (1 <= n => n <= m)
        BY <4>3
      <4> QED BY <4>1, <4>4
    <3> QED BY <3>2, <3>3, <3>6
  <2>3. Allowed(proto[making.cl], making.enc, making.base)'
    <3>1. \A i \in DOMAIN upvalues[proto[making.cl]] :
              LET d == upvalues[proto[making.cl]][i] IN
              IF d.instack THEN making.base + d.idx \in DOMAIN stack[L]
              ELSE making.enc # None /\ d.idx \in DOMAIN upvals[making.enc]
                   /\ upvals[making.enc][d.idx] # None
      BY MakingFacts DEF Allowed
    <3>2. making.enc \in LClosure \cup {None} /\ u # None
      BY <1>2, MakingFacts, UpvalAssumption
    <3>3. \A j \in DOMAIN upvals[making.enc] : making.enc # None =>
              j \in DOMAIN upvals'[making.enc]
              /\ (upvals[making.enc][j] # None => upvals'[making.enc][j] # None)
      BY <1>4, <3>2
    <3>4. making' = making /\ proto' = proto /\ stack' = stack /\ L' = L
      BY <1>3 DEF L
    <3>5. ASSUME NEW i \in DOMAIN upvalues[proto[making.cl]]
          PROVE  LET d == upvalues[proto[making.cl]][i] IN
                 IF d.instack THEN making.base + d.idx \in DOMAIN stack'[L']
                 ELSE making.enc # None /\ d.idx \in DOMAIN upvals'[making.enc]
                      /\ upvals'[making.enc][d.idx] # None
      BY <3>1, <3>3, <3>4
    <3> QED BY <3>4, <3>5 DEF Allowed
  <2>4. L' = L /\ InSlots' = InSlots
    BY <1>3 DEF L, InSlots
  <2> QED BY <1>1, <1>3, <2>2, <2>3, <2>4 DEF MakingRight, Working
<1> QED BY <1>1, <1>6, <1>9, <1>12, <1>13, <1>14, <1>15, <1>16 DEF IInv

LEMMA ShareUpvalKeeps == ASSUME IInv, ShareUpval PROVE IInv'
<1>1. Working /\ Unfilled # {} /\ ~Allocates /\ UNCHANGED <<openupval, v, touched, twups>>
  BY DEF ShareUpval, Ready
<1>2. PICK u \in IF Desc.instack THEN Found(L, level) ELSE {upvals[making.enc][Desc.idx]} : Fill(u)
  BY DEF ShareUpval
<1>3. TypeOK /\ OpenRight /\ TwupsRight /\ CountsRight
  BY DEF IInv
<1>4. u \in UpVal /\ v[u] # Free /\ At(u) \in Values(Alive)
  <2>1. CASE Desc.instack
    <3>1. u \in Found(L, level) /\ level \in Nat /\ L \in Thread
      BY <1>1, <1>2, <2>1, NextFacts, RunningFacts
    <3>2. u \in UpVal /\ upisopen(u) /\ v[u][1] = L
      BY <1>3, <3>1, ClosingAbove DEF Above
    <3>3. At(u) = stack[L][v[u][2]] /\ v[u][2] \in DOMAIN stack[L]
      BY <1>3, <3>2, AtFacts
    <3>4. At(u) \in InSlots
      BY <3>3, RunningFacts, InSeq DEF InSlots
    <3> QED BY <3>2, <3>4, RunningFacts DEF upisopen
  <2>2. CASE ~Desc.instack
    <3>1. /\ making.enc \in LClosure \cap InSlots /\ u = upvals[making.enc][Desc.idx]
          /\ Desc.idx \in DOMAIN upvals[making.enc] /\ u # None
      BY <1>1, <1>2, <2>2, NextFacts
    <3>2. u \in Upvals(making.enc)
      BY <1>3, <3>1, CountedInUse
    <3> QED BY <3>1, <3>2, ClosureInSlots
  <2> QED BY <2>1, <2>2
<1>5. UNCHANGED <<stack, value, allgc, dead>>
  BY <1>2 DEF Fill, program, colors
<1>6. At(u)' = At(u)
  BY <1>1, <1>5 DEF At, upisopen
<1>7. Fills(u)
  BY <1>1, <1>2, <1>3, <1>4, <1>6 DEF Fills, TypeOK
<1>8. OpenRight' /\ TwupsRight' /\ twups' \in Seq(Thread)
  BY <1>1, <1>3, <1>5 DEF OpenRight, Level, upisopen, TwupsRight, Alive, Objects, TypeOK
<1> QED BY <1>1, <1>7, <1>8, FillsKeep

(* The list of a thread with one more open upvalue for a slot of it.       *)
LEMMA InsertOpenRight ==
    ASSUME TypeOK, OpenRight, NEW t \in Thread, NEW l \in Nat, NEW u \in UpVal, l \in DOMAIN stack[t],
           v[u] = Free, Found(t, l) = {}, stack' = stack,
           v' = [v EXCEPT ![u] = <<t, l>>],
           openupval' = [openupval EXCEPT ![t] = InsertAt(@, Stop(t, l), u)]
    PROVE  OpenRight' /\ openupval' \in [Thread -> Seq(UpVal)]
<1>1. PICK k : k = Stop(t, l)
  OBVIOUS
<1>2. PICK list : list = openupval[t]
  OBVIOUS
<1>3. PICK new : new = InsertAt(list, k, u)
  OBVIOUS
<1>4. /\ list \in Seq(UpVal) /\ Len(list) \in Nat /\ DOMAIN list = 1 .. Len(list)
      /\ k \in 1 .. Len(list) + 1
      /\ \A i \in DOMAIN list : i < k <=> Level(list[i]) >= l
  BY <1>1, <1>2, ListedOpen, StopFacts, InSeq
<1>5. /\ new \in Seq(UpVal) /\ Len(new) = Len(list) + 1
      /\ \A i \in 1 .. Len(list) + 1 : new[i] = IF i < k THEN list[i] ELSE IF i = k THEN u ELSE list[i - 1]
  <2>1. /\ InsertAt(list, k, u) \in Seq(UpVal) /\ Len(InsertAt(list, k, u)) = Len(list) + 1
        /\ \A i \in 1 .. Len(list) + 1 : InsertAt(list, k, u)[i] =
               IF i < k THEN list[i] ELSE IF i = k THEN u ELSE list[i - 1]
    <3>1. list \in Seq(UpVal) /\ k \in 1 .. Len(list) + 1
      BY <1>4
    <3> QED BY <3>1, InsertFacts
  <2> QED BY <1>3, <2>1
<1>6. DOMAIN new = 1 .. Len(list) + 1
  BY <1>4, <1>5
<1>7. openupval' = [openupval EXCEPT ![t] = new]
  BY <1>1, <1>2, <1>3
<1>8. openupval' \in [Thread -> Seq(UpVal)] /\ openupval'[t] = new
      /\ \A s \in Thread \ {t} : openupval'[s] = openupval[s]
  BY <1>5, <1>7 DEF TypeOK
<1>9. PICK a : a = <<t, l>>
  OBVIOUS
<1>10. v'[u] = a /\ \A w \in UpVal \ {u} : v'[w] = v[w]
  BY <1>9 DEF TypeOK
<1>11. a[1] = t /\ a[2] = l /\ a \notin {Own, Free} /\ ~upisopen(u)
  BY <1>9, AddressOpen DEF upisopen
<1>12. ASSUME NEW s \in Thread, NEW i \in DOMAIN openupval[s]
       PROVE  /\ v'[openupval[s][i]] = v[openupval[s][i]] /\ openupval[s][i] # u
              /\ openupval[s][i] \in UpVal
              /\ v[openupval[s][i]] = <<s, v[openupval[s][i]][2]>>
              /\ v[openupval[s][i]][2] = Level(openupval[s][i])
              /\ Level(openupval[s][i]) \in DOMAIN stack[s] /\ Level(openupval[s][i]) \in Nat
  <2>1. PICK w : w = openupval[s][i]
    OBVIOUS
  <2>2. w \in UpVal /\ upisopen(w) /\ Level(w) \in DOMAIN stack[s] /\ Level(w) \in Nat
        /\ v[w][2] = Level(w)
    BY <2>1, ListedOpen
  <2>3. v[w] = <<s, Level(w)>>
    BY <2>1 DEF OpenRight
  <2> QED BY <1>10, <1>11, <2>1, <2>2, <2>3
<1>13. ASSUME NEW i \in DOMAIN list PROVE Level(list[i]) # l /\ Level(list[i]) \in Nat
  <2>1. list[i] \in UpVal /\ upisopen(list[i]) /\ v[list[i]][1] = t /\ v[list[i]][2] = Level(list[i])
        /\ Level(list[i]) \in Nat
    BY <1>2, ListedOpen
  <2>2. Found(t, l) = {w \in Above(t, l) : v[w][2] = l}
    BY ClosingAbove
  <2> QED BY <2>1, <2>2 DEF Above
<1>14. ASSUME NEW i \in DOMAIN new
       PROVE  \/ i < k /\ i \in DOMAIN list /\ new[i] = list[i]
              \/ i = k /\ new[i] = u
              \/ i > k /\ i - 1 \in DOMAIN list /\ new[i] = list[i - 1] /\ ~(i - 1 < k)
  <2>1. i \in 1 .. Len(list) + 1
    BY <1>6
  <2>2. new[i] = IF i < k THEN list[i] ELSE IF i = k THEN u ELSE list[i - 1]
    BY <1>5, <2>1
  <2>3. CASE i < k
    BY <1>4, <2>1, <2>2, <2>3
  <2>4. CASE i = k
    BY <1>4, <2>1, <2>2, <2>4
  <2>5. CASE i > k
    BY <1>4, <2>1, <2>2, <2>5
  <2>6. i < k \/ i = k \/ i > k
    BY <1>4, <2>1
  <2> QED BY <2>3, <2>4, <2>5, <2>6
<1>15. ASSUME NEW i \in DOMAIN new
       PROVE  /\ v'[new[i]] = <<t, v'[new[i]][2]>> /\ v'[new[i]][2] \in DOMAIN stack[t]
              /\ v'[new[i]][2] \in Nat
              /\ i < k => v'[new[i]][2] > l
              /\ i = k => v'[new[i]][2] = l
              /\ i > k => v'[new[i]][2] < l
  <2>1. CASE i = k /\ new[i] = u
    <3>1. ~(i < k) /\ ~(i > k)
      BY <1>4, <2>1
    <3> QED BY <1>9, <1>10, <1>11, <2>1, <3>1
  <2>2. CASE i < k /\ i \in DOMAIN list /\ new[i] = list[i]
    <3>1. PICK w : w = list[i]
      OBVIOUS
    <3>2. v'[w] = v[w] /\ v[w] = <<t, v[w][2]>> /\ v[w][2] = Level(w) /\ Level(w) \in DOMAIN stack[t]
      BY <1>2, <1>12, <2>2, <3>1
    <3>3. Level(w) # l /\ Level(w) \in Nat /\ Level(w) >= l
      BY <1>4, <1>13, <2>2, <3>1
    <3> QED BY <1>4, <2>2, <3>1, <3>2, <3>3
  <2>3. CASE i > k /\ i - 1 \in DOMAIN list /\ new[i] = list[i - 1] /\ ~(i - 1 < k)
    <3>1. PICK w : w = list[i - 1]
      OBVIOUS
    <3>2. v'[w] = v[w] /\ v[w] = <<t, v[w][2]>> /\ v[w][2] = Level(w) /\ Level(w) \in DOMAIN stack[t]
      BY <1>2, <1>12, <2>3, <3>1
    <3>3. Level(w) \in Nat /\ ~(Level(w) >= l)
      BY <1>4, <1>13, <2>3, <3>1
    <3>4. ~(i < k) /\ i # k
      BY <1>4, <1>6, <2>3
    <3> QED BY <2>3, <3>1, <3>2, <3>3, <3>4
  <2> QED BY <1>14, <2>1, <2>2, <2>3
<1>16. ASSUME NEW i \in DOMAIN new, NEW j \in DOMAIN new, i < j
       PROVE  v'[new[i]][2] > v'[new[j]][2]
  <2>1. i \in Nat /\ j \in Nat /\ k \in Nat /\ v'[new[i]][2] \in Nat /\ v'[new[j]][2] \in Nat
    BY <1>4, <1>6, <1>15
  <2>2. \A m, n \in DOMAIN list : m < n => v'[list[m]][2] > v'[list[n]][2]
    <3>1. \A m \in DOMAIN list : v'[list[m]][2] = Level(list[m])
      BY <1>2, <1>12
    <3> QED BY <1>2, <3>1 DEF OpenRight
  <2>3. CASE j < k \/ i > k
    <3>1. CASE j < k
      <4>1. i < k
        BY <1>16, <2>1, <3>1
      <4>2. i \in DOMAIN list /\ j \in DOMAIN list /\ new[i] = list[i] /\ new[j] = list[j]
        BY <1>14, <2>1, <3>1, <4>1
      <4> QED BY <1>16, <2>2, <4>2
    <3>2. CASE i > k
      <4>1. j > k
        BY <1>16, <2>1, <3>2
      <4>2. i - 1 \in DOMAIN list /\ j - 1 \in DOMAIN list /\ new[i] = list[i - 1] /\ new[j] = list[j - 1]
        BY <1>14, <2>1, <3>2, <4>1
      <4>3. i - 1 < j - 1
        BY <1>16, <2>1
      <4> QED BY <2>2, <4>2, <4>3
    <3> QED BY <2>3, <3>1, <3>2
  <2>4. CASE i <= k /\ k <= j
    <3>1. i < k \/ (i = k /\ k < j)
      BY <1>16, <2>1, <2>4
    <3>2. CASE i < k
      <4>1. v'[new[i]][2] > l /\ v'[new[j]][2] <= l
        BY <1>15, <2>1, <2>4, <3>2
      <4> QED BY <2>1, <4>1
    <3>3. CASE i = k /\ k < j
      BY <1>15, <2>1, <3>3
    <3> QED BY <3>1, <3>2, <3>3
  <2>5. (j < k \/ i > k) \/ (i <= k /\ k <= j)
    BY <2>1
  <2> QED BY <2>3, <2>4, <2>5
<1>17. ASSUME NEW s \in Thread, NEW i \in DOMAIN openupval'[s]
       PROVE  /\ v'[openupval'[s][i]] = <<s, v'[openupval'[s][i]][2]>>
              /\ v'[openupval'[s][i]][2] \in DOMAIN stack'[s]
  <2>1. CASE s = t
    BY <1>8, <1>15, <2>1
  <2>2. CASE s # t
    BY <1>8, <1>12, <2>2
  <2> QED BY <2>1, <2>2
<1>18. ASSUME NEW s \in Thread, NEW i \in DOMAIN openupval'[s], NEW j \in DOMAIN openupval'[s], i < j
       PROVE  v'[openupval'[s][i]][2] > v'[openupval'[s][j]][2]
  <2>1. CASE s = t
    BY <1>8, <1>16, <1>18, <2>1
  <2>2. CASE s # t
    <3>1. openupval'[s] = openupval[s] /\ i \in DOMAIN openupval[s] /\ j \in DOMAIN openupval[s]
      BY <1>8, <2>2
    <3>2. Level(openupval[s][i]) > Level(openupval[s][j])
      BY <1>18, <3>1 DEF OpenRight
    <3> QED BY <1>12, <3>1, <3>2
  <2> QED BY <2>1, <2>2
<1>19. ASSUME NEW w \in UpVal, upisopen(w)' PROVE w \in ToSet(openupval'[v'[w][1]])
  <2>1. CASE w = u
    <3>1. k \in DOMAIN new /\ new[k] = u
      BY <1>4, <1>5, <1>6
    <3>2. u \in ToSet(new)
      BY <1>5, <3>1, InSeq
    <3> QED BY <1>8, <1>10, <1>11, <2>1, <3>2
  <2>2. CASE w # u
    <3>1. v'[w] = v[w] /\ upisopen(w)
      BY <1>10, <1>19, <2>2 DEF upisopen
    <3>2. PICK s \in Thread : s = v[w][1]
      BY <3>1, OpenAddress
    <3>3. PICK i \in DOMAIN openupval[s] : openupval[s][i] = w
      BY <3>1, <3>2, ListedOpen
    <3>4. CASE s # t
      <4>1. openupval'[s] = openupval[s] /\ openupval'[s] \in Seq(UpVal)
        BY <1>8, <3>4
      <4>2. w \in ToSet(openupval'[s])
        BY <3>3, <4>1, InSeq
      <4> QED BY <3>1, <3>2, <4>2
    <3>5. CASE s = t
      <4>1. \E j \in DOMAIN new : new[j] = w
        <5>1. i \in 1 .. Len(list) /\ list[i] = w
          BY <1>2, <1>4, <3>3, <3>5
        <5>2. CASE i < k
          <6>1. i \in DOMAIN new /\ new[i] = list[i]
            BY <1>4, <1>5, <1>6, <5>1, <5>2
          <6> QED BY <5>1, <6>1
        <5>3. CASE ~(i < k)
          <6>1. i + 1 \in DOMAIN new /\ ~(i + 1 < k) /\ i + 1 # k /\ (i + 1) - 1 = i
            BY <1>4, <1>6, <5>1, <5>3
          <6>2. new[i + 1] = list[i]
            BY <1>5, <1>6, <6>1
          <6> QED BY <5>1, <6>1, <6>2
        <5> QED BY <5>2, <5>3
      <4>2. w \in ToSet(new)
        BY <1>5, <4>1, InSeq
      <4> QED BY <1>8, <3>1, <3>2, <3>5, <4>2
    <3> QED BY <3>4, <3>5
  <2> QED BY <2>1, <2>2
<1> QED BY <1>8, <1>17, <1>18, <1>19 DEF OpenRight, Level

LEMMA FindUpvalKeeps == ASSUME IInv, luaF_findupval PROVE IInv'
<1>1. Working /\ Unfilled # {} /\ Desc.instack /\ Found(L, level) = {}
  BY DEF luaF_findupval, Ready, Allocates
<1>2. PICK u \in UpVal :
        /\ v[u] = Free
        /\ v' = [v EXCEPT ![u] = <<L, level>>] /\ touched' = [touched EXCEPT ![u] = TRUE]
        /\ openupval' = [openupval EXCEPT ![L] = InsertAt(@, Stop(L, level), u)]
        /\ Fill(u)
  BY DEF luaF_findupval
<1>3. TypeOK /\ OpenRight /\ TwupsRight
  BY DEF IInv
<1>4. PICK t \in Thread : t = L
  BY RunningFacts
<1>5. PICK l \in Nat : l = level
  BY <1>1, NextFacts
<1>6. UNCHANGED <<stack, value, allgc, dead>>
  BY <1>2 DEF Fill, program, colors
<1>7. t \in Alive /\ l \in DOMAIN stack[t] /\ stack[t] \in Seq(Value)
  BY <1>1, <1>4, <1>5, NextFacts, RunningFacts
<1>8. OpenRight' /\ openupval' \in [Thread -> Seq(UpVal)]
  <2>1. /\ v' = [v EXCEPT ![u] = <<t, l>>] /\ Found(t, l) = {}
        /\ openupval' = [openupval EXCEPT ![t] = InsertAt(@, Stop(t, l), u)]
    BY <1>1, <1>2, <1>4, <1>5
  <2> QED BY <1>2, <1>3, <1>6, <1>7, <2>1, InsertOpenRight
<1>9. PICK a : a = <<t, l>>
  OBVIOUS
<1>10. a[1] = t /\ a[2] = l /\ a \notin {Own, Free} /\ a \in Thread \X Nat
  BY <1>9, AddressOpen
<1>11. v' = [v EXCEPT ![u] = a]
  BY <1>2, <1>4, <1>5, <1>9
<1>12. v' \in [UpVal -> {Own, Free} \cup (Thread \X Nat)] /\ v'[u] = a
       /\ \A w \in UpVal \ {u} : v'[w] = v[w]
  BY <1>3, <1>10, <1>11 DEF TypeOK
<1>13. At(u)' = stack[t][l]
  BY <1>6, <1>10, <1>12 DEF At, upisopen
<1>14. stack[t][l] \in Values(Alive)
  <2>1. stack[t][l] \in ToSet(stack[t])
    BY <1>7, InSeq
  <2> QED BY <1>4, <2>1, RunningFacts DEF InSlots
<1>15. touched' \in [UpVal -> BOOLEAN] /\ \A w \in UpVal : touched[w] => touched'[w]
  BY <1>2, <1>3, Zenon DEF TypeOK
<1>16. \A s \in Thread \ {L} : openupval'[s] = openupval[s]
  BY <1>2, <1>3 DEF TypeOK
<1>17. Fills(u)
  BY <1>2, <1>8, <1>10, <1>12, <1>13, <1>14, <1>15, <1>16 DEF Fills
<1>18. twups' \in Seq(Thread) /\ ToSet(twups') = ToSet(twups) \cup {t}
  <2>1. twups \in Seq(Thread)
    BY <1>3 DEF TypeOK
  <2>2. CASE t \in ToSet(twups)
    <3>1. twups' = twups
      BY <1>4, <2>2 DEF luaF_findupval
    <3> QED BY <2>1, <2>2, <3>1
  <2>3. CASE t \notin ToSet(twups)
    <3>1. PICK one : one = <<t>>
      OBVIOUS
    <3>2. one \in Seq(Thread) /\ twups' = one \o twups
      BY <1>4, <2>3, <3>1 DEF luaF_findupval
    <3>3. ToSet(one) = {t}
      <4>1. DOMAIN one = {1} /\ one[1] = t
        BY <3>1
      <4> QED BY <4>1 DEF ToSet
    <3> QED BY <2>1, <3>2, <3>3, ConcatElements
  <2> QED BY <2>2, <2>3
<1>19. TwupsRight'
  <2>1. Alive' = Alive
    BY <1>6 DEF Alive, Objects
  <2> QED BY <1>3, <1>4, <1>7, <1>16, <1>18, <2>1 DEF TwupsRight
<1> QED BY <1>1, <1>8, <1>17, <1>18, <1>19, FillsKeep

LEMMA PushClosureKeeps == ASSUME IInv, pushclosure PROVE IInv'
<1>1. /\ UNCHANGED <<bound, chain, stack, openupval, upvals, proto, v, value, refcount, touched, twups,
                     allgc, marked, black, dead, gcstate, emergency>>
      /\ Working /\ making' = None
  BY DEF pushclosure, Ready, program, upv, colors
<1>2. TypeOK /\ ListRight /\ OpenRight /\ FreedEmpty /\ CountsRight /\ AliveClosed /\ TwupsRight
      /\ CacheRight /\ ColorsRight /\ MakingRight
  BY DEF IInv
<1>3. PICK p : p = proto[making.cl]
  OBVIOUS
<1>4. making.cl \in LClosure /\ making.cl \in Alive /\ p \in Proto /\ p \in bound.protos
  BY <1>1, <1>2, <1>3, MakingFacts DEF MakingRight
<1>5. cache' = IF p \in black THEN cache ELSE [cache EXCEPT ![p] = making.cl]
  BY <1>3 DEF pushclosure
<1>6. /\ cache' \in [Proto -> LClosure \cup {None}]
      /\ \A q \in Proto : cache'[q] = cache[q] \/ (q = p /\ cache'[q] = making.cl /\ q \notin black)
  BY <1>2, <1>4, <1>5 DEF TypeOK
<1>7. TypeOK'
  BY <1>1, <1>2, <1>6 DEF TypeOK
<1>8. Objects' = Objects /\ Alive' = Alive
  BY <1>1 DEF Objects, Alive
<1>9. ListRight' /\ OpenRight' /\ FreedEmpty' /\ TwupsRight'
  BY <1>1, <1>2, <1>8 DEF ListRight, OpenRight, FreedEmpty, TwupsRight, Level, upisopen
<1>10. CountsRight'
  BY <1>1, <1>2 DEF CountsRight, Uses
<1>11. AliveClosed'
  BY <1>1, <1>2, <1>8 DEF AliveClosed, Refers, Upvals, At, upisopen, Values
<1>12. CacheRight'
  BY <1>1, <1>2, <1>4, <1>6, <1>8 DEF CacheRight
<1>13. ColorsRight'
  <2>1. \A q \in black \cap Proto : gcstate = "propagate" => cache'[q] \in marked \cup {None}
    BY <1>2, <1>6 DEF ColorsRight
  <2> QED BY <1>1, <1>2, <1>8, <2>1 DEF ColorsRight, Upvals, upisopen, Values
<1>14. MakingRight'
  BY <1>1 DEF MakingRight, Working
<1> QED BY <1>7, <1>9, <1>10, <1>11, <1>12, <1>13, <1>14 DEF IInv

-----------------------------------------------------------------------------
(* Steps of the collector that only mark                                   *)

LEMMA ColorsOnly ==
    ASSUME IInv, CacheRight', ColorsRight',
           UNCHANGED <<program, openupval, upvals, proto, making, v, value, refcount, twups, allgc, dead>>,
           touched' \in [UpVal -> BOOLEAN], cache' \in [Proto -> LClosure \cup {None}],
           marked' \subseteq GCObject, black' \subseteq LClosure \cup Proto,
           gcstate' \in {"pause", "propagate", "sweep"}, emergency' \in {"no", "finish", "done"},
           Working => black' \subseteq black
    PROVE  IInv'
<1>1. TypeOK /\ ListRight /\ OpenRight /\ FreedEmpty /\ CountsRight /\ AliveClosed /\ TwupsRight
      /\ MakingRight
  BY DEF IInv
<1>2. UNCHANGED <<bound, chain, stack>>
  BY DEF program
<1>3. TypeOK'
  BY <1>1, <1>2 DEF TypeOK
<1>4. Objects' = Objects /\ Alive' = Alive
  BY DEF Objects, Alive
<1>5. ListRight' /\ OpenRight' /\ FreedEmpty' /\ TwupsRight'
  BY <1>1, <1>2, <1>4 DEF ListRight, OpenRight, FreedEmpty, TwupsRight, Level, upisopen
<1>6. CountsRight'
  BY <1>1 DEF CountsRight, Uses
<1>7. AliveClosed'
  BY <1>1, <1>2, <1>4 DEF AliveClosed, Refers, Upvals, At, upisopen, Values
<1>8. MakingRight'
  BY <1>1, <1>2 DEF MakingRight, Working, L, InSlots, Allowed
<1> QED BY <1>3, <1>5, <1>6, <1>7, <1>8 DEF IInv

(* What an object refers to is alive.                                      *)
LEMMA RefsAlive ==
    ASSUME IInv, NEW o \in Alive, NEW insideatomic \in BOOLEAN
    PROVE  /\ Refs(o, insideatomic) \subseteq Alive /\ Refs(o, insideatomic) \subseteq GCObject
           /\ o \in Thread \/ o \in LClosure
<1>1. TypeOK /\ AliveClosed /\ Refers(o) \subseteq Values(Alive) /\ Alive \subseteq GCObject
  BY RunningFacts DEF IInv, AliveClosed, Alive
<1>2. o \in Thread \/ o \in LClosure
  BY <1>1 DEF GCObject
<1>3. CASE o \in Thread
  <2>1. Resumed(o) \subseteq Alive
    <3>1. \A i \in {j \in DOMAIN chain : chain[j] = o /\ j < Len(chain)} : chain[i + 1] \in Alive
      <4>1. \A i \in DOMAIN chain : i < Len(chain) => i + 1 \in DOMAIN chain
        BY RunningFacts
      <4> QED BY <4>1, RunningFacts
    <3> QED BY <3>1 DEF Resumed
  <2>2. Refs(o, insideatomic) = (ToSet(stack[o]) \cup Resumed(o)) \ {Nil}
    BY <1>3 DEF Refs
  <2>3. ToSet(stack[o]) \subseteq Values(Alive)
    BY <1>1, <1>3 DEF Refers
  <2> QED BY <1>1, <1>2, <2>1, <2>2, <2>3 DEF Values
<1>4. CASE o \notin Thread
  <2>1. ASSUME NEW x \in Refs(o, insideatomic) PROVE x \in Refers(o) /\ x # Nil
    BY <1>4 DEF Refs, Refers
  <2> QED BY <1>1, <1>2, <2>1 DEF Values
<1> QED BY <1>3, <1>4

LEMMA StartCycleKeeps == ASSUME IInv, StartCycle PROVE IInv'
<1>1. /\ UNCHANGED <<program, openupval, upvals, proto, making, v, value, refcount, twups, allgc, dead>>
      /\ UNCHANGED <<touched, cache, black, emergency>>
      /\ gcstate = "pause" /\ gcstate' = "propagate" /\ marked' = {mainthread} /\ ~Working
  BY DEF StartCycle, closures, upv
<1>2. TypeOK /\ ColorsRight /\ CacheRight /\ mainthread \in Alive
  BY RunningFacts DEF IInv
<1>3. black = {} /\ dead = {}
  BY <1>1, <1>2 DEF ColorsRight
<1>4. Objects' = Objects /\ Alive' = Alive /\ mainthread \in Objects
  BY <1>1, <1>2 DEF Objects, Alive
<1>5. ColorsRight'
  BY <1>1, <1>3, <1>4 DEF ColorsRight
<1>6. CacheRight'
  BY <1>1, <1>2, <1>4 DEF CacheRight, program
<1>7. /\ touched' \in [UpVal -> BOOLEAN] /\ cache' \in [Proto -> LClosure \cup {None}]
      /\ marked' \subseteq GCObject /\ black' \subseteq LClosure \cup Proto
      /\ gcstate' \in {"pause", "propagate", "sweep"} /\ emergency' \in {"no", "finish", "done"}
  BY <1>1, <1>2, RunningFacts DEF TypeOK
<1> QED BY <1>1, <1>5, <1>6, <1>7, ColorsOnly

LEMMA PropagateThreadKeeps == ASSUME IInv, PropagateThread PROVE IInv'
<1>1. /\ UNCHANGED <<program, openupval, upvals, proto, making, v, value, refcount, twups, allgc, dead>>
      /\ UNCHANGED <<touched, cache, black, emergency, gcstate>>
      /\ gcstate = "propagate" /\ ~Working
  BY DEF PropagateThread, Mark, closures, upv
<1>2. PICK t \in marked \cap Thread : Mark(Refs(t, FALSE))
  BY DEF PropagateThread
<1>3. TypeOK /\ ColorsRight /\ CacheRight
  BY DEF IInv
<1>4. t \in Alive /\ Objects' = Objects /\ Alive' = Alive /\ Alive \subseteq Objects
  BY <1>1, <1>3 DEF ColorsRight, Alive, Objects
<1>5. marked' = marked \cup Refs(t, FALSE) /\ Refs(t, FALSE) \subseteq Alive
      /\ Refs(t, FALSE) \subseteq GCObject
  BY <1>2, <1>4, RefsAlive DEF Mark
<1>6. ColorsRight'
  <2>1. \A c \in black \cap LClosure : \A u \in Upvals(c) :
            IF upisopen(u) THEN touched[u] ELSE value[u] \in Values(marked')
    BY <1>1, <1>3, <1>5 DEF ColorsRight, Values
  <2> QED BY <1>1, <1>3, <1>4, <1>5, <2>1 DEF ColorsRight, Upvals, upisopen, Values
<1>7. CacheRight'
  BY <1>1, <1>3, <1>4 DEF CacheRight, program
<1>8. /\ touched' \in [UpVal -> BOOLEAN] /\ cache' \in [Proto -> LClosure \cup {None}]
      /\ marked' \subseteq GCObject /\ black' \subseteq LClosure \cup Proto
      /\ gcstate' \in {"pause", "propagate", "sweep"} /\ emergency' \in {"no", "finish", "done"}
  BY <1>1, <1>3, <1>5 DEF TypeOK
<1> QED BY <1>1, <1>6, <1>7, <1>8, ColorsOnly

LEMMA PropagateLclosureKeeps == ASSUME IInv, PropagateLclosure PROVE IInv'
<1>1. /\ UNCHANGED <<program, openupval, upvals, proto, making, v, value, refcount, twups, allgc, dead>>
      /\ UNCHANGED <<cache, emergency, gcstate>>
      /\ gcstate = "propagate" /\ ~Working
  BY DEF PropagateLclosure, closures
<1>2. PICK c \in (marked \cap LClosure) \ black :
        /\ marked' = marked \cup Refs(c, FALSE) /\ black' = black \cup {c}
        /\ touched' = Touching({c})
  BY DEF PropagateLclosure
<1>3. TypeOK /\ ColorsRight /\ CacheRight /\ CountsRight
  BY DEF IInv
<1>4. c \in Alive /\ Objects' = Objects /\ Alive' = Alive /\ Alive \subseteq Objects
  BY <1>1, <1>3 DEF ColorsRight, Alive, Objects
<1>5. Refs(c, FALSE) \subseteq Alive /\ Refs(c, FALSE) \subseteq GCObject
  BY <1>4, RefsAlive
<1>6. /\ touched' = [u \in UpVal |-> touched[u] \/ \E d \in {c} \cap LClosure : u \in Open(d)]
      /\ touched' \in [UpVal -> BOOLEAN]
  BY <1>2, <1>3, Zenon DEF Touching
<1>7. \A u \in UpVal : touched'[u] <=> touched[u] \/ u \in Open(c)
  BY <1>6, Zenon
<1>8. \A u \in Upvals(c) : u \in UpVal /\
          IF upisopen(u) THEN touched'[u] ELSE value[u] \in Values(marked')
  <2>1. ASSUME NEW u \in Upvals(c), upisopen(u) PROVE u \in UpVal /\ touched'[u]
    BY <1>3, <1>7, <2>1, UpvalsInUse DEF Open
  <2>2. ASSUME NEW u \in Upvals(c), ~upisopen(u) PROVE u \in UpVal /\ value[u] \in Values(marked')
    <3>1. At(u) = value[u] /\ u \in UpVal
      BY <1>3, <2>2, UpvalsInUse DEF At
    <3>2. c \notin Thread
      BY UpvalAssumption
    <3>3. value[u] # Nil => value[u] \in Refs(c, FALSE)
      BY <2>2, <3>1, <3>2 DEF Refs, Open
    <3> QED BY <1>2, <3>1, <3>3 DEF Values
  <2> QED BY <2>1, <2>2
<1>9. ColorsRight'
  <2>1. ASSUME NEW d \in black' \cap LClosure, NEW u \in Upvals(d)
        PROVE  IF upisopen(u) THEN touched'[u] ELSE value[u] \in Values(marked')
    <3>1. CASE d = c
      BY <1>8, <2>1, <3>1
    <3>2. CASE d # c
      <4>1. d \in black \cap LClosure
        BY <1>2, <3>2
      <4>2. u \in UpVal
        BY <1>3, <2>1, UpvalsInUse
      <4>3. IF upisopen(u) THEN touched[u] ELSE value[u] \in Values(marked)
        BY <1>1, <1>3, <2>1, <4>1 DEF ColorsRight
      <4> QED BY <1>2, <1>7, <4>2, <4>3 DEF Values
    <3> QED BY <3>1, <3>2
  <2>2. \A d \in black' \cap LClosure : Upvals(d)' = Upvals(d) /\ \A u : upisopen(u)' = upisopen(u)
    BY <1>1 DEF Upvals, upisopen
  <2>3. \A p \in black' \cap Proto : cache'[p] \in marked' \cup {None}
    <3>1. \A p \in black' \cap Proto : p \in black
      BY <1>2, UpvalAssumption
    <3> QED BY <1>1, <1>2, <1>3, <3>1 DEF ColorsRight
  <2>4. marked' \subseteq Objects' /\ black' \cap LClosure \subseteq marked' /\ mainthread \in marked'
    BY <1>1, <1>2, <1>3, <1>4, <1>5 DEF ColorsRight
  <2>5. Values(marked)' = Values(marked')
    BY DEF Values
  <2> QED BY <1>1, <1>3, <2>1, <2>2, <2>3, <2>4, <2>5 DEF ColorsRight
<1>10. CacheRight'
  BY <1>1, <1>3, <1>4 DEF CacheRight, program
<1>11. /\ cache' \in [Proto -> LClosure \cup {None}]
       /\ marked' \subseteq GCObject /\ black' \subseteq LClosure \cup Proto
       /\ gcstate' \in {"pause", "propagate", "sweep"} /\ emergency' \in {"no", "finish", "done"}
  BY <1>1, <1>2, <1>3, <1>5 DEF TypeOK
<1> QED BY <1>1, <1>6, <1>9, <1>10, <1>11, ColorsOnly

LEMMA PropagateProtoKeeps == ASSUME IInv, PropagateProto PROVE IInv'
<1>1. /\ UNCHANGED <<program, openupval, upvals, proto, making, v, value, refcount, twups, allgc, dead>>
      /\ UNCHANGED <<touched, marked, emergency, gcstate>>
      /\ gcstate = "propagate" /\ ~Working
  BY DEF PropagateProto, upv
<1>2. PICK p \in bound.protos \ black :
        /\ cache' = IF cache[p] \in marked THEN cache ELSE [cache EXCEPT ![p] = None]
        /\ black' = black \cup {p}
  BY DEF PropagateProto
<1>3. TypeOK /\ ColorsRight /\ CacheRight
  BY DEF IInv
<1>4. p \in Proto
  <2>1. bound \in [slots : [Thread -> Nat], closures : Nat, upvals : Nat, protos : SUBSET Proto]
    BY <1>3, UpvalAssumption DEF TypeOK
  <2>2. bound.protos \in SUBSET Proto
    BY <2>1
  <2> QED BY <2>2
<1>5. /\ cache' \in [Proto -> LClosure \cup {None}]
      /\ \A q \in Proto : cache'[q] = cache[q] \/ cache'[q] = None
      /\ cache'[p] \in marked \cup {None}
  BY <1>2, <1>3, <1>4 DEF TypeOK
<1>6. Objects' = Objects /\ Alive' = Alive
  BY <1>1 DEF Objects, Alive
<1>7. ColorsRight'
  <2>1. black' \cap LClosure = black \cap LClosure
    BY <1>2, <1>4, UpvalAssumption
  <2>2. \A q \in black' \cap Proto : cache'[q] \in marked' \cup {None}
    BY <1>1, <1>2, <1>3, <1>5 DEF ColorsRight
  <2> QED BY <1>1, <1>3, <1>6, <2>1, <2>2 DEF ColorsRight, Upvals, upisopen, Values
<1>8. CacheRight'
  BY <1>1, <1>3, <1>5, <1>6 DEF CacheRight, program
<1>9. /\ touched' \in [UpVal -> BOOLEAN]
      /\ marked' \subseteq GCObject /\ black' \subseteq LClosure \cup Proto
      /\ gcstate' \in {"pause", "propagate", "sweep"} /\ emergency' \in {"no", "finish", "done"}
  BY <1>1, <1>2, <1>3, <1>4 DEF TypeOK
<1> QED BY <1>1, <1>5, <1>7, <1>8, <1>9, ColorsOnly

LEMMA SweepEndsKeeps == ASSUME IInv, SweepEnds PROVE IInv'
<1>1. /\ UNCHANGED <<program, openupval, upvals, proto, making, v, value, refcount, twups, allgc, dead>>
      /\ UNCHANGED <<touched, cache, marked, emergency>>
      /\ gcstate = "sweep" /\ dead = {} /\ gcstate' = "pause" /\ black' = {}
  BY DEF SweepEnds, upv, closures
<1>2. TypeOK /\ ColorsRight /\ CacheRight
  BY DEF IInv
<1>3. Objects' = Objects /\ Alive' = Alive
  BY <1>1 DEF Objects, Alive
<1>4. ColorsRight' /\ CacheRight'
  BY <1>1, <1>2, <1>3 DEF ColorsRight, CacheRight, program
<1>5. /\ touched' \in [UpVal -> BOOLEAN] /\ cache' \in [Proto -> LClosure \cup {None}]
      /\ marked' \subseteq GCObject /\ black' \subseteq LClosure \cup Proto /\ black' \subseteq black
      /\ gcstate' \in {"pause", "propagate", "sweep"} /\ emergency' \in {"no", "finish", "done"}
  BY <1>1, <1>2 DEF TypeOK
<1> QED BY <1>1, <1>4, <1>5, ColorsOnly

LEMMA EmergencyKeeps == ASSUME IInv, Emergency PROVE IInv'
<1>1. /\ UNCHANGED <<program, openupval, upvals, proto, making, v, value, refcount, twups, allgc, dead>>
      /\ UNCHANGED <<touched, cache>> /\ emergency' = "finish"
      /\ IF gcstate = "propagate" THEN gcstate' = "pause" /\ marked' = {} /\ black' = {}
         ELSE UNCHANGED <<gcstate, marked, black>>
  BY DEF Emergency, upv, closures, keepinvariant
<1>2. TypeOK /\ ColorsRight /\ CacheRight
  BY DEF IInv
<1>3. Objects' = Objects /\ Alive' = Alive
  BY <1>1 DEF Objects, Alive
<1>4. ColorsRight' /\ CacheRight'
  BY <1>1, <1>2, <1>3 DEF ColorsRight, CacheRight, program
<1>5. /\ touched' \in [UpVal -> BOOLEAN] /\ cache' \in [Proto -> LClosure \cup {None}]
      /\ marked' \subseteq GCObject /\ black' \subseteq LClosure \cup Proto /\ black' \subseteq black
      /\ gcstate' \in {"pause", "propagate", "sweep"} /\ emergency' \in {"no", "finish", "done"}
  BY <1>1, <1>2 DEF TypeOK
<1> QED BY <1>1, <1>4, <1>5, ColorsOnly

-----------------------------------------------------------------------------
(* The sweep                                                               *)

LEMMA SweepList ==
    ASSUME TypeOK, ListRight, NEW k \in DOMAIN allgc, NEW o, o = allgc[k], o \in dead,
           allgc' = RemoveAt(allgc, k), dead' = dead \ {o}
    PROVE  /\ allgc' \in Seq(GCObject) /\ ToSet(allgc') = ToSet(allgc) \ {o} /\ ListRight'
           /\ Objects' = Objects \ {o} /\ Alive' = Alive
           /\ o \in GCObject /\ o \in Objects /\ o \notin Alive /\ o # mainthread
<1>1. /\ allgc \in Seq(GCObject) /\ Len(allgc) \in Nat /\ DOMAIN allgc = 1 .. Len(allgc)
      /\ k \in 1 .. Len(allgc)
      /\ \A i, j \in DOMAIN allgc : i # j => allgc[i] # allgc[j]
      /\ mainthread \notin ToSet(allgc) /\ dead \subseteq ToSet(allgc)
  BY DEF TypeOK, ListRight
<1>2. PICK s : s = RemoveAt(allgc, k)
  OBVIOUS
<1>3. /\ s \in Seq(GCObject) /\ Len(s) = Len(allgc) - 1
      /\ \A i \in 1 .. Len(allgc) - 1 : s[i] = IF i < k THEN allgc[i] ELSE allgc[i + 1]
  <2>1. allgc \in Seq(GCObject) /\ k \in 1 .. Len(allgc)
    BY <1>1
  <2>2. /\ RemoveAt(allgc, k) \in Seq(GCObject) /\ Len(RemoveAt(allgc, k)) = Len(allgc) - 1
        /\ \A i \in 1 .. Len(allgc) - 1 :
               RemoveAt(allgc, k)[i] = IF i < k THEN allgc[i] ELSE allgc[i + 1]
    BY <2>1, RemoveFacts
  <2> QED BY <1>2, <2>2
<1>4. DOMAIN s = 1 .. Len(allgc) - 1
  BY <1>3
<1>5. ASSUME NEW i \in DOMAIN s
      PROVE  \E m \in DOMAIN allgc : s[i] = allgc[m] /\ m # k /\ m = IF i < k THEN i ELSE i + 1
  <2>1. i \in 1 .. Len(allgc) - 1
    BY <1>4
  <2>2. CASE i < k
    <3>1. i \in DOMAIN allgc /\ i # k /\ s[i] = allgc[i]
      BY <1>1, <1>3, <2>1, <2>2
    <3> QED BY <2>2, <3>1
  <2>3. CASE ~(i < k)
    <3>1. i + 1 \in DOMAIN allgc /\ i + 1 # k /\ s[i] = allgc[i + 1]
      BY <1>1, <1>3, <2>1, <2>3
    <3> QED BY <2>3, <3>1
  <2> QED BY <2>2, <2>3
<1>6. ASSUME NEW m \in DOMAIN allgc, m # k PROVE \E i \in DOMAIN s : s[i] = allgc[m]
  <2>1. m \in 1 .. Len(allgc)
    BY <1>1
  <2>2. CASE m < k
    <3>1. m \in 1 .. Len(allgc) - 1
      BY <1>1, <2>1, <2>2
    <3> QED BY <1>3, <1>4, <2>2, <3>1
  <2>3. CASE m > k
    <3>1. m - 1 \in 1 .. Len(allgc) - 1 /\ ~(m - 1 < k) /\ (m - 1) + 1 = m
      BY <1>1, <2>1, <2>3
    <3> QED BY <1>3, <1>4, <3>1
  <2>4. m < k \/ m > k
    BY <1>1, <1>6, <2>1
  <2> QED BY <2>2, <2>3, <2>4
<1>7. ToSet(s) = ToSet(allgc) \ {o}
  <2>1. ASSUME NEW x \in ToSet(s) PROVE x \in ToSet(allgc) \ {o}
    <3>1. PICK i \in DOMAIN s : s[i] = x
      BY <1>3, InSeq
    <3>2. PICK m \in DOMAIN allgc : s[i] = allgc[m] /\ m # k
      BY <1>5
    <3> QED BY <1>1, <3>1, <3>2, InSeq
  <2>2. ASSUME NEW x \in ToSet(allgc) \ {o} PROVE x \in ToSet(s)
    <3>1. PICK m \in DOMAIN allgc : allgc[m] = x
      BY <1>1, InSeq
    <3>2. m # k
      BY <2>2, <3>1
    <3>3. PICK i \in DOMAIN s : s[i] = x
      BY <1>6, <3>1, <3>2
    <3> QED BY <1>3, <3>3, InSeq
  <2> QED BY <2>1, <2>2
<1>8. ASSUME NEW i \in DOMAIN s, NEW j \in DOMAIN s, i # j PROVE s[i] # s[j]
  <2>1. PICK m \in DOMAIN allgc : s[i] = allgc[m] /\ m = IF i < k THEN i ELSE i + 1
    BY <1>5
  <2>2. PICK n \in DOMAIN allgc : s[j] = allgc[n] /\ n = IF j < k THEN j ELSE j + 1
    BY <1>5
  <2>3. m # n
    BY <1>1, <1>4, <1>8, <2>1, <2>2
  <2> QED BY <1>1, <2>1, <2>2, <2>3
<1>9. allgc' = s
  BY <1>2
<1>10. ListRight'
  BY <1>1, <1>7, <1>8, <1>9 DEF ListRight
<1>11. o \in ToSet(allgc) /\ o # mainthread /\ o \in GCObject
  BY <1>1, InSeq
<1>12. Objects' = Objects \ {o}
  BY <1>7, <1>9, <1>11 DEF Objects
<1>13. Alive' = Alive /\ o \notin Alive /\ o \in Objects
  BY <1>11, <1>12 DEF Alive, Objects
<1> QED BY <1>3, <1>7, <1>9, <1>10, <1>11, <1>12, <1>13

Frees(k, o) ==
    /\ k \in DOMAIN allgc /\ o = allgc[k] /\ o \in dead
    /\ allgc' = RemoveAt(allgc, k) /\ dead' = dead \ {o}
    /\ UNCHANGED <<bound, chain, proto, cache, making, twups, marked, black, gcstate, emergency>>

(* In the sweep there are no other colors.                                 *)
LEMMA FreesColors ==
    ASSUME IInv, NEW k, NEW o, Frees(k, o)
    PROVE  gcstate = "sweep" /\ ColorsRight' /\ CacheRight'
<1>1. TypeOK /\ ColorsRight /\ CacheRight /\ Alive' = Alive
  BY SweepList DEF IInv, Frees
<1>2. gcstate = "sweep" /\ marked = {} /\ black \cap LClosure = {}
  BY <1>1 DEF ColorsRight, Frees
<1> QED BY <1>1, <1>2 DEF ColorsRight, CacheRight, Frees

LEMMA FreeThreadKeeps ==
    ASSUME IInv, NEW k, NEW o \in Thread, Frees(k, o), FreeThread(o)
    PROVE  IInv'
<1>1. TypeOK /\ ListRight /\ OpenRight /\ FreedEmpty /\ CountsRight /\ AliveClosed /\ TwupsRight
      /\ MakingRight
  BY DEF IInv
<1>2. /\ allgc' \in Seq(GCObject) /\ ListRight' /\ Objects' = Objects \ {o} /\ Alive' = Alive
      /\ o \notin Alive /\ dead' \subseteq GCObject
  BY <1>1, SweepList DEF Frees, TypeOK
<1>3. ColorsRight' /\ CacheRight'
  BY FreesColors
<1>4. /\ stack' \in [Thread -> Seq(Value)] /\ stack'[o] = <<>>
      /\ \A t \in Thread \ {o} : stack'[t] = stack[t]
  BY <1>1 DEF FreeThread, TypeOK
<1>5. UNCHANGED <<refcount, upvals, bound, chain, proto, cache, making, twups, marked, black, gcstate, emergency>>
  BY DEF FreeThread, Frees
<1>6. Leaves(o, 0)
  <2>1. ASSUME NEW s \in Thread, NEW i \in DOMAIN stack[s], s # o \/ i < 0
        PROVE  i \in DOMAIN stack'[s] /\ stack'[s][i] = stack[s][i]
    <3>1. stack[s] \in Seq(Value)
      BY <1>1 DEF TypeOK
    <3>2. i \in Nat
      BY <3>1
    <3>3. s # o
      BY <2>1, <3>2
    <3> QED BY <1>4, <3>3
  <2> QED BY <2>1 DEF Leaves, FreeThread
<1>7. OpenRight'
  BY <1>1, <1>6, CloseOpenRight
<1>8. /\ openupval' \in [Thread -> Seq(UpVal)]
      /\ v' \in [UpVal -> {Own, Free} \cup (Thread \X Nat)] /\ value' \in [UpVal -> Value]
      /\ touched' \in [UpVal -> BOOLEAN]
      /\ \A u \in UpVal :
            IF u \notin Above(o, 0)
            THEN v'[u] = v[u] /\ value'[u] = value[u] /\ touched'[u] = touched[u]
            ELSE IF refcount[u] > 0 THEN v'[u] = Own /\ value'[u] = At(u)
            ELSE v'[u] = Free /\ value'[u] = value[u]
      /\ \A s \in Thread \ {o} : openupval'[s] = openupval[s]
  BY <1>1, <1>6, CloseFacts DEF Leaves
<1>9. TypeOK'
  BY <1>1, <1>2, <1>4, <1>5, <1>8 DEF TypeOK
<1>10. openupval'[o] = <<>>
  <2>1. openupval'[o] \in Seq(UpVal)
    BY <1>8
  <2>2. \A i \in DOMAIN openupval'[o] : v'[openupval'[o][i]][2] \in DOMAIN stack'[o]
    BY <1>7 DEF OpenRight, Level
  <2>3. DOMAIN stack'[o] = {}
    BY <1>4
  <2>4. DOMAIN openupval'[o] = {}
    BY <2>2, <2>3
  <2>5. PICK list \in Seq(UpVal) : list = openupval'[o]
    BY <2>1
  <2> QED BY <2>4, <2>5, EmptyDomain
<1>11. FreedEmpty'
  BY <1>1, <1>2, <1>4, <1>5, <1>8, <1>10, UpvalAssumption DEF FreedEmpty
<1>12. CountsRight'
  <2>1. ASSUME NEW u \in UpVal
        PROVE  (v'[u] = Own => refcount[u] > 0) /\ (v'[u] = Free => refcount[u] = 0)
    <3>1. refcount[u] \in Nat /\ (v[u] = Own => refcount[u] > 0) /\ (v[u] = Free => refcount[u] = 0)
      BY <1>1 DEF TypeOK, CountsRight
    <3> QED BY <1>8, <3>1, UpvalAssumption
  <2> QED BY <1>1, <1>5, <2>1 DEF CountsRight, Uses
<1>13. AliveClosed'
  <2>1. ASSUME NEW a \in Alive PROVE Refers(a)' \subseteq Values(Alive)
    <3>1. CASE a \in Thread
      BY <1>1, <1>2, <1>4, <2>1, <3>1 DEF Refers, AliveClosed
    <3>2. CASE a \notin Thread
      <4>1. a \in LClosure
        BY <2>1, <3>2, RunningFacts DEF Alive, GCObject
      <4>2. ASSUME NEW w \in Upvals(a)' PROVE At(w)' \in Values(Alive)
        <5>1. w \in Upvals(a)
          BY <1>5, <4>2 DEF Upvals
        <5>2. w \in UpVal /\ refcount[w] > 0
          BY <1>1, <4>1, <5>1, UpvalsInUse
        <5>3. At(w)' = At(w)
          BY <1>1, <1>6, <5>2, CloseAt
        <5>4. At(w) \in Values(Alive)
          BY <1>1, <2>1, <3>2, <5>1 DEF AliveClosed, Refers
        <5> QED BY <5>3, <5>4
      <4> QED BY <3>2, <4>2 DEF Refers
    <3> QED BY <3>1, <3>2
  <2> QED BY <1>1, <1>2, <1>5, <2>1 DEF AliveClosed, Values
<1>14. TwupsRight'
  BY <1>1, <1>2, <1>5, <1>8 DEF TwupsRight
<1>15. MakingRight'
  <2>1. L' = L /\ L # o /\ L \in Thread
    BY <1>2, <1>5, RunningFacts DEF L
  <2>2. stack'[L] = stack[L] /\ InSlots' = InSlots
    BY <1>4, <2>1 DEF InSlots
  <2> QED BY <1>1, <1>5, <2>1, <2>2 DEF MakingRight, Working, Allowed
<1> QED BY <1>2, <1>3, <1>7, <1>9, <1>11, <1>12, <1>13, <1>14, <1>15 DEF IInv

LEMMA PlaceCounted ==
    ASSUME NEW ups \in UpvalLists, NEW c \in LClosure, NEW u \in ToSet(ups[c])
    PROVE  Cardinality(PlacesIn(ups, LClosure, u)) \in Nat /\ Cardinality(PlacesIn(ups, LClosure, u)) > 0
<1>1. ups[c] \in Seq(UpVal \cup {None})
  BY DEF UpvalLists
<1>2. PICK i \in DOMAIN ups[c] : ups[c][i] = u
  BY <1>1, InSeq
<1>3. <<c, i>> \in PlacesIn(ups, LClosure, u)
  BY <1>2, PlaceIn
<1>4. IsFiniteSet(PlacesIn(ups, LClosure, u)) /\ Cardinality(PlacesIn(ups, LClosure, u)) \in Nat
  BY PlacesFinite
<1>5. Cardinality(PlacesIn(ups, LClosure, u)) # 0
  BY <1>3, <1>4, FS_EmptySet
<1> QED BY <1>4, <1>5

LEMMA FreedLclosureKeeps ==
    ASSUME IInv, NEW k, NEW o \in LClosure, Frees(k, o), FreeLclosure(o)
    PROVE  IInv'
<1>1. TypeOK /\ ListRight /\ OpenRight /\ FreedEmpty /\ CountsRight /\ AliveClosed /\ TwupsRight
      /\ MakingRight
  BY DEF IInv
<1>2. /\ allgc' \in Seq(GCObject) /\ ListRight' /\ Objects' = Objects \ {o} /\ Alive' = Alive
      /\ o \notin Alive /\ dead' \subseteq GCObject
  BY <1>1, SweepList DEF Frees, TypeOK
<1>3. ColorsRight' /\ CacheRight'
  BY FreesColors
<1>4. UNCHANGED <<openupval, touched, stack, bound, chain, proto, cache, making, twups, marked, black, gcstate,
                  emergency>>
  BY DEF FreeLclosure, Frees
<1>5. upvals \in UpvalLists /\ upvals' \in UpvalLists /\ upvals'[o] = <<>>
      /\ \A c \in LClosure \ {o} : upvals'[c] = upvals[c]
  BY <1>1 DEF FreeLclosure, TypeOK, UpvalLists
<1>6. ASSUME NEW u \in UpVal
      PROVE  /\ Uses({o})[u] \in Nat /\ refcount'[u] = refcount[u] - Uses({o})[u] /\ refcount'[u] \in Nat
             /\ refcount'[u] = Uses(LClosure)'[u] /\ refcount[u] \in Nat
  <2>1. {o} \subseteq LClosure
    OBVIOUS
  <2>2. Cardinality(PlacesIn(upvals', LClosure, u))
          = Cardinality(PlacesIn(upvals, LClosure, u)) - Cardinality(PlacesIn(upvals, {o}, u))
    <3>1. (\A c \in {o} : upvals'[c] = <<>>) /\ \A c \in LClosure \ {o} : upvals'[c] = upvals[c]
      BY <1>5
    <3>2. PICK S : S = {o}
      OBVIOUS
    <3>3. PICK w : w = upvals'
      OBVIOUS
    <3>4. Emptied(upvals, w, S)
      BY <1>5, <2>1, <3>1, <3>2, <3>3 DEF Emptied
    <3>5. Fewer(upvals, w, S, u)
      BY <3>4, PartPlaces
    <3> QED BY <3>2, <3>3, <3>5 DEF Fewer
  <2>3. Cardinality(PlacesIn(upvals', LClosure, u)) \in Nat /\ Cardinality(PlacesIn(upvals, {o}, u)) \in Nat
    BY <1>5, <2>1, PlacesFinite
  <2>4. /\ Uses({o})[u] = Cardinality(PlacesIn(upvals, {o}, u))
        /\ Uses(LClosure)[u] = Cardinality(PlacesIn(upvals, LClosure, u))
        /\ Uses(LClosure)'[u] = Cardinality(PlacesIn(upvals', LClosure, u))
    BY UsesPlaces
  <2>5. refcount'[u] = refcount[u] - Uses({o})[u] /\ refcount[u] = Uses(LClosure)[u] /\ refcount[u] \in Nat
    BY <1>1 DEF FreeLclosure, CountsRight, TypeOK
  <2> QED BY <2>2, <2>3, <2>4, <2>5
<1>7. ASSUME NEW u \in UpVal
      PROVE  IF v[u] = Own /\ refcount[u] > 0 /\ refcount'[u] = 0
             THEN v'[u] = Free /\ value'[u] = Nil
             ELSE v'[u] = v[u] /\ value'[u] = value[u]
  <2> DEFINE freed == {w \in UpVal : v[w] = Own /\ refcount[w] > 0 /\ refcount[w] = Uses({o})[w]}
  <2>1. u \in freed <=> v[u] = Own /\ refcount[u] > 0 /\ refcount'[u] = 0
    <3>1. PICK n : n = Uses({o})[u]
      OBVIOUS
    <3>2. n \in Nat /\ refcount[u] \in Nat /\ refcount'[u] = refcount[u] - n
      BY <1>6, <3>1
    <3>3. refcount[u] = n <=> refcount'[u] = 0
      BY <3>2
    <3>4. u \in freed <=> v[u] = Own /\ refcount[u] > 0 /\ refcount[u] = n
      BY <3>1
    <3> QED BY <3>3, <3>4
  <2>2. /\ v' = [w \in UpVal |-> IF w \in freed THEN Free ELSE v[w]]
        /\ value' = [w \in UpVal |-> IF w \in freed THEN Nil ELSE value[w]]
    BY DEF FreeLclosure, luaC_upvdeccount
  <2> HIDE DEF freed
  <2> QED BY <2>1, <2>2
<1>8. /\ v' \in [UpVal -> {Own, Free} \cup (Thread \X Nat)] /\ value' \in [UpVal -> Value]
      /\ refcount' \in [UpVal -> Nat]
  <2>1. /\ v' = [u \in UpVal |-> v'[u]] /\ value' = [u \in UpVal |-> value'[u]]
        /\ refcount' = [u \in UpVal |-> refcount'[u]]
    BY DEF FreeLclosure, luaC_upvdeccount
  <2>2. \A u \in UpVal : v[u] \in {Own, Free} \cup (Thread \X Nat) /\ value[u] \in Value
    BY <1>1 DEF TypeOK
  <2>3. \A u \in UpVal : v'[u] \in {Own, Free} \cup (Thread \X Nat) /\ value'[u] \in Value
    BY <1>7, <2>2, RunningFacts
  <2> QED BY <1>6, <2>1, <2>3
<1>9. TypeOK'
  BY <1>1, <1>2, <1>4, <1>5, <1>8 DEF TypeOK, UpvalLists
<1>10. ASSUME NEW u \in UpVal
       PROVE  /\ (v'[u] = Own => refcount'[u] > 0) /\ (v'[u] = Free => refcount'[u] = 0)
              /\ upisopen(u)' = upisopen(u) /\ (upisopen(u) => v'[u] = v[u])
              /\ refcount'[u] > 0 => At(u)' = At(u)
  <2>1. refcount[u] \in Nat /\ (v[u] = Own => refcount[u] > 0) /\ (v[u] = Free => refcount[u] = 0)
    BY <1>1 DEF TypeOK, CountsRight
  <2>2. refcount'[u] \in Nat /\ refcount'[u] <= refcount[u]
    BY <1>6
  <2>3. v'[u] = Own => refcount'[u] > 0
    BY <1>7, <2>1, <2>2, UpvalAssumption
  <2>4. v'[u] = Free => refcount'[u] = 0
    BY <1>7, <2>1, <2>2
  <2>5. upisopen(u)' = upisopen(u) /\ (upisopen(u) => v'[u] = v[u])
    BY <1>7 DEF upisopen
  <2>6. refcount'[u] > 0 => v'[u] = v[u] /\ value'[u] = value[u]
    BY <1>7, <2>2
  <2>7. refcount'[u] > 0 => At(u)' = At(u)
    BY <1>4, <2>6 DEF At, upisopen
  <2> QED BY <2>3, <2>4, <2>5, <2>7
<1>11. CountsRight'
  BY <1>6, <1>10 DEF CountsRight
<1>12. OpenRight'
  <2>1. ASSUME NEW t \in Thread, NEW i \in DOMAIN openupval[t]
        PROVE  v'[openupval[t][i]] = v[openupval[t][i]]
    <3>1. openupval[t][i] \in UpVal /\ upisopen(openupval[t][i])
      BY <1>1, <2>1, ListedOpen
    <3> QED BY <1>10, <3>1
  <2>2. ASSUME NEW u \in UpVal, upisopen(u)' PROVE upisopen(u) /\ v'[u] = v[u]
    BY <1>10, <2>2
  <2>3. OpenRight /\ openupval' = openupval /\ stack' = stack
    BY <1>1, <1>4
  <2>4. ASSUME NEW t \in Thread, NEW i \in DOMAIN openupval[t]
        PROVE  /\ v'[openupval[t][i]] = <<t, v'[openupval[t][i]][2]>>
               /\ v'[openupval[t][i]][2] \in DOMAIN stack[t]
    BY <2>1, <2>3 DEF OpenRight, Level
  <2>5. ASSUME NEW t \in Thread, NEW i \in DOMAIN openupval[t], NEW j \in DOMAIN openupval[t], i < j
        PROVE  v'[openupval[t][i]][2] > v'[openupval[t][j]][2]
    BY <2>1, <2>3, <2>5 DEF OpenRight, Level
  <2>6. \A u \in UpVal : upisopen(u)' => u \in ToSet(openupval[v'[u][1]])
    BY <2>2, <2>3 DEF OpenRight
  <2> QED BY <2>3, <2>4, <2>5, <2>6 DEF OpenRight, Level
<1>13. FreedEmpty'
  BY <1>1, <1>2, <1>4, <1>5, UpvalAssumption DEF FreedEmpty
<1>14. AliveClosed'
  <2>1. ASSUME NEW a \in Alive PROVE Refers(a)' \subseteq Values(Alive)
    <3>1. CASE a \in Thread
      BY <1>1, <1>4, <2>1, <3>1 DEF Refers, AliveClosed
    <3>2. CASE a \notin Thread
      <4>1. a \in LClosure /\ a # o /\ upvals'[a] = upvals[a]
        BY <1>2, <1>5, <2>1, <3>2, RunningFacts DEF Alive, GCObject
      <4>2. ASSUME NEW w \in Upvals(a)' PROVE At(w)' \in Values(Alive)
        <5>1. w \in Upvals(a) /\ w \in ToSet(upvals'[a])
          BY <4>1, <4>2 DEF Upvals
        <5>2. w \in UpVal
          BY <1>1, <4>1, <5>1, UpvalsInUse
        <5>3. refcount'[w] > 0
          BY <1>5, <1>6, <4>1, <5>1, <5>2, PlaceCounted, UsesPlaces
        <5>4. At(w)' = At(w)
          BY <1>10, <5>2, <5>3
        <5>5. At(w) \in Values(Alive)
          BY <1>1, <2>1, <3>2, <5>1 DEF AliveClosed, Refers
        <5> QED BY <5>4, <5>5
      <4> QED BY <3>2, <4>2 DEF Refers
    <3> QED BY <3>1, <3>2
  <2> QED BY <1>1, <1>2, <1>4, <2>1 DEF AliveClosed, Values
<1>15. TwupsRight'
  BY <1>1, <1>2, <1>4 DEF TwupsRight
<1>16. MakingRight'
  <2>1. SUFFICES ASSUME Working PROVE MakingRight'
    BY <1>4 DEF MakingRight, Working
  <2>2. making.cl # o /\ making.cl \in LClosure /\ (making.enc # None => making.enc # o /\ making.enc \in LClosure)
    <3>1. making.cl \in Alive /\ making.cl \in LClosure
          /\ (making.enc # None => making.enc \in LClosure \cap InSlots)
      BY <2>1, MakingFacts
    <3>2. making.enc # None => making.enc \in Alive
      BY <3>1, RunningFacts DEF Values, GCObject
    <3> QED BY <1>2, <3>1, <3>2
  <2>3. upvals'[making.cl] = upvals[making.cl] /\ (making.enc # None => upvals'[making.enc] = upvals[making.enc])
    BY <1>5, <2>2
  <2>4. L' = L /\ InSlots' = InSlots
    BY <1>4 DEF L, InSlots
  <2>5. Allowed(proto[making.cl], making.enc, making.base)'
    <3>1. Allowed(proto[making.cl], making.enc, making.base)
      BY <2>1, MakingFacts
    <3> QED BY <1>4, <2>3, <2>4, <3>1 DEF Allowed
  <2> QED BY <1>1, <1>4, <2>1, <2>3, <2>4, <2>5 DEF MakingRight, Working
<1> QED BY <1>2, <1>3, <1>9, <1>11, <1>12, <1>13, <1>14, <1>15, <1>16 DEF IInv

LEMMA SweepKeeps == ASSUME IInv, Sweep PROVE IInv'
<1>1. PICK k \in DOMAIN allgc :
        LET o == allgc[k] IN
        /\ o \in dead /\ \A j \in 1 .. k - 1 : allgc[j] \notin dead
        /\ allgc' = RemoveAt(allgc, k) /\ dead' = dead \ {o}
        /\ \/ o \in Thread /\ FreeThread(o)
           \/ o \in LClosure /\ FreeLclosure(o)
  BY DEF Sweep
<1>2. PICK o : o = allgc[k]
  OBVIOUS
<1>3. Frees(k, o)
  BY <1>1, <1>2 DEF Frees, Sweep
<1>4. (o \in Thread /\ FreeThread(o)) \/ (o \in LClosure /\ FreeLclosure(o))
  BY <1>1, <1>2
<1> QED BY <1>3, <1>4, FreeThreadKeeps, FreedLclosureKeeps

-----------------------------------------------------------------------------
(* Marking until nothing is left                                           *)

(* The smallest set that contains S and is closed exists.                  *)
LEMMA ReachableFacts ==
    ASSUME NEW S, NEW edges, S \subseteq GCObject, \A o \in GCObject : edges[o] \subseteq GCObject
    PROVE  /\ S \subseteq Reachable(S, edges) /\ Reachable(S, edges) \subseteq GCObject
           /\ Closed(Reachable(S, edges), edges)
           /\ \A W : S \subseteq W /\ Closed(W, edges) => Reachable(S, edges) \subseteq W
<1> DEFINE R == Reachable(S, edges)
           In(o) == \A W \in SUBSET GCObject : S \subseteq W /\ Closed(W, edges) => o \in W
<1>1. \A o : o \in R <=> o \in GCObject /\ In(o)
  BY DEF Reachable
<1>2. S \subseteq R
  BY <1>1
<1>3. R \subseteq GCObject
  BY <1>1
<1>4. ASSUME NEW o \in R, NEW x \in edges[o] PROVE x \in R
  <2>1. x \in GCObject
    BY <1>3, <1>4
  <2>2. ASSUME NEW W \in SUBSET GCObject, S \subseteq W, Closed(W, edges) PROVE x \in W
    <3>1. o \in W
      BY <1>1, <1>4, <2>2
    <3> QED BY <1>4, <2>2, <3>1 DEF Closed
  <2> QED BY <1>1, <2>1, <2>2
<1>5. ASSUME NEW W, S \subseteq W, Closed(W, edges) PROVE R \subseteq W
  <2> DEFINE X == W \cap GCObject
  <2>1. X \in SUBSET GCObject /\ S \subseteq X
    BY <1>5
  <2>2. Closed(X, edges)
    BY <1>5 DEF Closed
  <2> HIDE DEF X
  <2>3. ASSUME NEW o \in R PROVE o \in X
    BY <1>1, <2>1, <2>2, <2>3
  <2> QED BY <2>3 DEF X
<1>6. Closed(R, edges)
  BY <1>4 DEF Closed
<1> QED BY <1>2, <1>3, <1>5, <1>6

LEMMA RefsTyped ==
    ASSUME IInv, NEW o \in GCObject, NEW insideatomic \in BOOLEAN
    PROVE  Refs(o, insideatomic) \subseteq GCObject
<1>1. TypeOK /\ OpenRight /\ CountsRight
  BY DEF IInv
<1>2. CASE o \in Thread
  <2>1. ToSet(stack[o]) \subseteq Value
    <3>1. stack[o] \in Seq(Value)
      BY <1>1, <1>2 DEF TypeOK
    <3> QED BY <3>1, InSeq
  <2>2. ASSUME NEW x \in Resumed(o) PROVE x \in GCObject
    <3>1. PICK i \in DOMAIN chain : i < Len(chain) /\ x = chain[i + 1]
      BY <2>2 DEF Resumed
    <3>2. i + 1 \in DOMAIN chain
      BY <3>1, RunningFacts
    <3> QED BY <3>1, <3>2, RunningFacts DEF GCObject
  <2> QED BY <1>2, <2>1, <2>2 DEF Refs, Value
<1>3. CASE o \notin Thread
  <2>1. o \in LClosure
    BY <1>3 DEF GCObject
  <2>2. \A u \in Upvals(o) : At(u) \in Value
    BY <1>1, <2>1, UpvalsInUse, AtFacts
  <2> QED BY <1>3, <2>2 DEF Refs, Value
<1> QED BY <1>2, <1>3

LEMMA SpreadFacts ==
    ASSUME IInv, dead = {}, NEW M, NEW S, M \subseteq Objects, S \subseteq M, NEW insideatomic \in BOOLEAN
    PROVE  /\ S \subseteq Spread(M, S, insideatomic) /\ Spread(M, S, insideatomic) \subseteq Objects
           /\ \A o \in Spread(M, S, insideatomic) :
                 Refs(o, insideatomic) \subseteq M \cup Spread(M, S, insideatomic)
<1> DEFINE edges == [o \in GCObject |-> Refs(o, insideatomic) \ M]
           R == Reachable(S, edges)
<1>1. Alive = Objects /\ Objects \subseteq GCObject
  BY RunningFacts DEF Alive
<1>2. \A o \in GCObject : edges[o] = Refs(o, insideatomic) \ M
  OBVIOUS
<1>3. \A o \in GCObject : edges[o] \subseteq GCObject
  BY <1>2, RefsTyped
<1>4. S \subseteq Objects /\ S \subseteq GCObject
  BY <1>1
<1>5. R = Spread(M, S, insideatomic)
  BY DEF Spread
<1> HIDE DEF edges, R
<1>6. /\ S \subseteq R /\ R \subseteq GCObject /\ Closed(R, edges)
      /\ \A W : S \subseteq W /\ Closed(W, edges) => R \subseteq W
  BY <1>3, <1>4, ReachableFacts DEF R
<1>7. Closed(Objects, edges)
  <2>1. ASSUME NEW o \in Objects PROVE edges[o] \subseteq Objects
    <3>1. Refs(o, insideatomic) \subseteq Objects
      BY <1>1, <2>1, RefsAlive
    <3> QED BY <1>1, <1>2, <2>1, <3>1
  <2> QED BY <2>1 DEF Closed
<1>8. ASSUME NEW o \in R PROVE Refs(o, insideatomic) \subseteq M \cup R
  BY <1>2, <1>6, <1>8 DEF Closed
<1> QED BY <1>4, <1>5, <1>6, <1>7, <1>8

-----------------------------------------------------------------------------
(* remarkupvals                                                            *)

Remarked == [marked : SUBSET GCObject, touched : [UpVal -> BOOLEAN], twups : Seq(Thread)]

(* What the first n threads of twups did to what was marked and touched:   *)
(* the value of each open upvalue that was touched is marked, or its       *)
(* thread is.                                                              *)
Remarks(r, M, touch, n) ==
    /\ r \in Remarked
    /\ M \subseteq r.marked /\ r.marked \subseteq Objects
    /\ ToSet(r.twups) \subseteq r.marked
    /\ \A u \in UpVal : touch[u] /\ ~r.touched[u] => At(u) \in Values(r.marked)
    /\ \A u \in UpVal : \A m \in 1 .. n :
           touch[u] /\ upisopen(u) /\ v[u][1] = twups[m] =>
               At(u) \in Values(r.marked) \/ v[u][1] \in r.marked

(* The values of the open upvalues of a thread that may still run.         *)
LEMMA ListedAlive ==
    ASSUME IInv, NEW t \in Thread \cap Alive, NEW u \in ToSet(openupval[t])
    PROVE  u \in UpVal /\ At(u) \in Value /\ At(u) \in Values(Alive)
<1>1. TypeOK /\ OpenRight /\ AliveClosed
  BY DEF IInv
<1>2. openupval[t] \in Seq(UpVal) /\ stack[t] \in Seq(Value)
  BY <1>1 DEF TypeOK
<1>3. PICK i \in DOMAIN openupval[t] : openupval[t][i] = u
  BY <1>2, InSeq
<1>4. u \in UpVal /\ upisopen(u) /\ v[u][1] = t
  BY <1>1, <1>3, ListedOpen
<1>5. At(u) \in Value /\ At(u) = stack[t][v[u][2]] /\ v[u][2] \in DOMAIN stack[t]
  BY <1>1, <1>4, AtFacts
<1>6. At(u) \in ToSet(stack[t])
  BY <1>2, <1>5, InSeq
<1>7. ToSet(stack[t]) \subseteq Values(Alive)
  BY <1>1 DEF AliveClosed, Refers
<1> QED BY <1>4, <1>5, <1>6, <1>7

LEMMA VisitStays ==
    ASSUME IInv, NEW M, NEW touch \in [UpVal -> BOOLEAN], NEW n \in 1 .. Len(twups), NEW r,
           Remarks(r, M, touch, n - 1), Stays(twups[n], r.marked)
    PROVE  Remarks(Visit(r, twups[n]), M, touch, n)
<1> DEFINE t == twups[n]
           r2 == [r EXCEPT !.twups = Append(@, t)]
<1>1. t \in Thread /\ t \in r.marked /\ n \in Nat
  <2>1. twups \in Seq(Thread)
    BY DEF IInv, TypeOK
  <2> QED BY <2>1 DEF Stays
<1>2. Visit(r, t) = r2
  BY DEF Visit
<1>3. r \in Remarked
  BY DEF Remarks
<1> HIDE DEF t
<1>4. r2.marked = r.marked /\ r2.touched = r.touched /\ r2.twups = Append(r.twups, t)
  BY <1>3 DEF Remarked
<1>5. Append(r.twups, t) \in Seq(Thread) /\ ToSet(Append(r.twups, t)) \subseteq r.marked
  <2>1. r.twups \in Seq(Thread) /\ ToSet(r.twups) \subseteq r.marked
    BY <1>3 DEF Remarks, Remarked
  <2>2. PICK q \in Seq(Thread) : q = r.twups
    BY <2>1
  <2>3. /\ Append(q, t) \in Seq(Thread) /\ Len(Append(q, t)) = Len(q) + 1
        /\ \A i \in 1 .. Len(q) : Append(q, t)[i] = q[i]
        /\ Append(q, t)[Len(q) + 1] = t
    BY <1>1, AppendProperties
  <2>4. ASSUME NEW x \in ToSet(Append(q, t)) PROVE x \in r.marked
    <3>1. PICK i \in DOMAIN Append(q, t) : Append(q, t)[i] = x
      BY <2>3, InSeq
    <3>2. Len(q) \in Nat /\ i \in 1 .. Len(q) + 1
      BY <2>3
    <3>3. CASE i = Len(q) + 1
      BY <1>1, <2>3, <3>1, <3>3
    <3>4. CASE i # Len(q) + 1
      <4>1. i \in DOMAIN q /\ q[i] = x
        BY <2>3, <3>1, <3>2, <3>4
      <4> QED BY <2>1, <2>2, <4>1, InSeq
    <3> QED BY <3>3, <3>4
  <2> QED BY <2>2, <2>3, <2>4
<1>6. r2 \in Remarked
  BY <1>3, <1>5 DEF Remarked
<1> HIDE DEF r2
<1>7. ASSUME NEW u \in UpVal, NEW m \in 1 .. n, touch[u], upisopen(u), v[u][1] = twups[m]
      PROVE  At(u) \in Values(r.marked) \/ v[u][1] \in r.marked
  <2>1. CASE m = n
    BY <1>1, <1>7, <2>1 DEF t
  <2>2. CASE m # n
    <3>1. m \in 1 .. n - 1
      BY <1>1, <2>2
    <3> QED BY <1>7, <3>1 DEF Remarks
  <2> QED BY <2>1, <2>2
<1>8. /\ M \subseteq r.marked /\ r.marked \subseteq Objects
      /\ \A u \in UpVal : touch[u] /\ ~r.touched[u] => At(u) \in Values(r.marked)
  BY DEF Remarks
<1>9. Remarks(r2, M, touch, n)
  BY <1>4, <1>5, <1>6, <1>7, <1>8 DEF Remarks
<1> QED BY <1>2, <1>9 DEF t

LEMMA VisitLeaves ==
    ASSUME IInv, dead = {}, NEW M, NEW touch \in [UpVal -> BOOLEAN], NEW n \in 1 .. Len(twups), NEW r,
           Remarks(r, M, touch, n - 1), ~Stays(twups[n], r.marked)
    PROVE  Remarks(Visit(r, twups[n]), M, touch, n)
<1> DEFINE t == twups[n]
           T == {u \in ToSet(openupval[t]) : r.touched[u]}
           A == {At(u) : u \in T} \cap GCObject
           t2 == [u \in UpVal |-> r.touched[u] /\ u \notin T]
           r2 == [r EXCEPT !.marked = @ \cup A, !.touched = t2]
<1>1. t \in Thread /\ t \in Alive /\ n \in Nat /\ Alive = Objects
  <2>1. twups \in Seq(Thread) /\ ToSet(twups) \subseteq Alive
    BY DEF IInv, TypeOK, TwupsRight
  <2>2. n \in DOMAIN twups
    BY <2>1
  <2> QED BY <2>1, <2>2, InSeq DEF Alive
<1>2. Visit(r, t) = r2
  BY DEF Visit
<1>3. r \in Remarked
  BY DEF Remarks
<1>4. T \subseteq ToSet(openupval[t]) /\ \A u \in ToSet(openupval[t]) : u \in T <=> r.touched[u]
  OBVIOUS
<1>5. A = {At(u) : u \in T} \cap GCObject
  OBVIOUS
<1> HIDE DEF t, T, A
<1>6. r2.marked = r.marked \cup A /\ r2.touched = t2 /\ r2.twups = r.twups
  BY <1>3 DEF Remarked
<1>7. A \subseteq Objects /\ A \subseteq GCObject /\ \A u \in T : At(u) \in Values(A)
  <2>1. ASSUME NEW u \in T PROVE At(u) \in Value /\ At(u) \in Values(Objects)
    BY <1>1, <1>4, <2>1, ListedAlive
  <2>2. A \subseteq Objects
    <3>1. Nil \notin GCObject
      BY UpvalAssumption
    <3> QED BY <1>5, <2>1, <3>1 DEF Values
  <2>3. \A u \in T : At(u) \in Values(A)
    BY <1>5, <2>1 DEF Values, Value
  <2> QED BY <1>5, <2>2, <2>3
<1>8. t2 \in [UpVal -> BOOLEAN] /\ \A u \in UpVal : ~t2[u] => ~r.touched[u] \/ u \in T
  <2>1. \A u \in UpVal : t2[u] = (r.touched[u] /\ u \notin T)
    OBVIOUS
  <2>2. t2 \in [UpVal -> BOOLEAN]
    BY Zenon
  <2>3. ASSUME NEW u \in UpVal, ~t2[u] PROVE ~r.touched[u] \/ u \in T
    BY <2>1, <2>3, Zenon
  <2> QED BY <2>2, <2>3
<1> HIDE DEF t2
<1>9. r2 \in Remarked
  <2>1. r.marked \cup A \in SUBSET GCObject
    BY <1>3, <1>7 DEF Remarked
  <2> QED BY <1>3, <1>8, <2>1 DEF Remarked
<1> HIDE DEF r2
<1>10. /\ M \subseteq r.marked /\ r.marked \subseteq Objects /\ ToSet(r.twups) \subseteq r.marked
       /\ \A u \in UpVal : touch[u] /\ ~r.touched[u] => At(u) \in Values(r.marked)
  BY DEF Remarks
<1>11. ASSUME NEW u \in UpVal, touch[u], ~t2[u] PROVE At(u) \in Values(r.marked \cup A)
  BY <1>7, <1>8, <1>10, <1>11 DEF Values
<1>12. ASSUME NEW u \in UpVal, NEW m \in 1 .. n, touch[u], upisopen(u), v[u][1] = twups[m]
       PROVE  At(u) \in Values(r.marked \cup A) \/ v[u][1] \in r.marked \cup A
  <2>1. CASE m = n
    <3>1. v[u][1] = t
      BY <1>12, <2>1 DEF t
    <3>2. u \in ToSet(openupval[t])
      BY <1>12, <3>1 DEF IInv, OpenRight
    <3>3. CASE r.touched[u]
      BY <1>4, <1>7, <3>2, <3>3 DEF Values
    <3>4. CASE ~r.touched[u]
      BY <1>10, <1>12, <3>4 DEF Values
    <3> QED BY <3>3, <3>4
  <2>2. CASE m # n
    <3>1. m \in 1 .. n - 1
      BY <1>1, <2>2
    <3>2. At(u) \in Values(r.marked) \/ v[u][1] \in r.marked
      BY <1>12, <3>1 DEF Remarks
    <3> QED BY <3>2 DEF Values
  <2> QED BY <2>1, <2>2
<1>13. r.marked \cup A \subseteq Objects /\ M \subseteq r.marked \cup A /\ ToSet(r.twups) \subseteq r.marked \cup A
  BY <1>7, <1>10
<1>14. Remarks(r2, M, touch, n)
  BY <1>6, <1>9, <1>11, <1>12, <1>13 DEF Remarks
<1> QED BY <1>2, <1>14 DEF t

LEMMA VisitTyped ==
    ASSUME NEW t \in Thread, NEW r \in Remarked
    PROVE  Visit(r, t) \in Remarked
<1> DEFINE T == {u \in ToSet(openupval[t]) : r.touched[u]}
           t2 == [u \in UpVal |-> r.touched[u] /\ u \notin T]
           A == {At(u) : u \in T} \cap GCObject
<1>1. CASE Stays(t, r.marked)
  <2>1. Append(r.twups, t) \in Seq(Thread)
    BY DEF Remarked
  <2>2. Visit(r, t) = [r EXCEPT !.twups = Append(@, t)]
    BY <1>1 DEF Visit
  <2> QED BY <2>1, <2>2 DEF Remarked
<1>2. CASE ~Stays(t, r.marked)
  <2>1. Visit(r, t) = [r EXCEPT !.marked = @ \cup A, !.touched = t2]
    BY <1>2 DEF Visit
  <2>2. t2 \in [UpVal -> BOOLEAN]
    BY Zenon
  <2>3. r.marked \cup A \in SUBSET GCObject
    BY DEF Remarked
  <2> HIDE DEF t2, A
  <2> QED BY <2>1, <2>2, <2>3 DEF Remarked
<1> QED BY <1>1, <1>2

(* The recursive function that remarkupvals is the last value of.          *)
Begin(M, touch) == [marked |-> M, touched |-> touch, twups |-> <<>>]
Recursion(f, M, touch) ==
    f = [n \in 0 .. Len(twups) |-> IF n = 0 THEN Begin(M, touch) ELSE Visit(f[n - 1], twups[n])]
After(M, touch) == CHOOSE f : Recursion(f, M, touch)

LEMMA RemarkFacts ==
    ASSUME IInv, dead = {}, NEW M, M \subseteq Objects, NEW touch \in [UpVal -> BOOLEAN]
    PROVE  Remarks(remarkupvals(M, touch), M, touch, Len(twups))
<1> DEFINE N == Len(twups)
           base == Begin(M, touch)
           step == [p \in (1 .. N) \X Remarked |-> Visit(p[2], twups[p[1]])]
<1>1. N \in Nat /\ \A n \in 1 .. N : twups[n] \in Thread
  <2>1. twups \in Seq(Thread)
    BY DEF IInv, TypeOK
  <2> QED BY <2>1
<1>2. base \in Remarked
  <2>1. M \in SUBSET GCObject
    BY RunningFacts
  <2> QED BY <2>1 DEF Begin, Remarked
<1>3. Steps(step, N, Remarked)
  <2>1. ASSUME NEW p \in (1 .. N) \X Remarked PROVE Visit(p[2], twups[p[1]]) \in Remarked
    BY <1>1, <2>1, VisitTyped
  <2> QED BY <2>1 DEF Steps
<1>4. \A n \in 1 .. N : \A r \in Remarked : step[<<n, r>>] = Visit(r, twups[n])
  OBVIOUS
<1>5. Len(twups) = N
  OBVIOUS
<1> HIDE DEF base, step, N
<1>6. PICK g : Iterates(g, base, step, N, Remarked)
  BY <1>1, <1>2, <1>3, RecursionExists
<1>7. Recursion(g, M, touch)
  <2>1. g \in [0 .. N -> Remarked] /\ g[0] = base /\ \A n \in 1 .. N : g[n] = step[<<n, g[n - 1]>>]
    BY <1>6 DEF Iterates
  <2>2. ASSUME NEW n \in 0 .. N
        PROVE  g[n] = IF n = 0 THEN Begin(M, touch) ELSE Visit(g[n - 1], twups[n])
    <3>1. CASE n = 0
      BY <2>1, <3>1 DEF base
    <3>2. CASE n # 0
      <4>1. n \in 1 .. N /\ n - 1 \in 0 .. N
        BY <1>1, <3>2
      <4>2. g[n - 1] \in Remarked
        BY <2>1, <4>1
      <4> QED BY <1>4, <2>1, <3>2, <4>1, <4>2
    <3> QED BY <3>1, <3>2
  <2>3. g = [n \in 0 .. N |-> g[n]]
    BY <2>1
  <2>4. g = [n \in 0 .. N |-> IF n = 0 THEN Begin(M, touch) ELSE Visit(g[n - 1], twups[n])]
    BY <2>2, <2>3
  <2> QED BY <1>5, <2>4 DEF Recursion
<1>8. PICK f : f = After(M, touch)
  OBVIOUS
<1>9. Recursion(f, M, touch)
  BY <1>7, <1>8 DEF After
<1>10. f[0] = Begin(M, touch) /\ \A n \in 1 .. N : f[n] = Visit(f[n - 1], twups[n])
  <2>1. f = [n \in 0 .. N |-> IF n = 0 THEN Begin(M, touch) ELSE Visit(f[n - 1], twups[n])]
    BY <1>5, <1>9 DEF Recursion
  <2>2. 0 \in 0 .. N /\ \A n \in 1 .. N : n \in 0 .. N /\ n # 0
    BY <1>1
  <2> QED BY <2>1, <2>2
<1> DEFINE X == {n \in 0 .. N : Remarks(f[n], M, touch, n)}
<1>11. 0 \in X
  <2>1. PICK b : b = Begin(M, touch)
    OBVIOUS
  <2>2. b.marked = M /\ b.touched = touch /\ b.twups = <<>> /\ b \in Remarked
    BY <1>2, <2>1 DEF Begin, base
  <2>3. ToSet(b.twups) = {}
    BY <2>2 DEF ToSet
  <2>4. Remarks(b, M, touch, 0)
    BY <2>2, <2>3 DEF Remarks
  <2> QED BY <1>1, <1>10, <2>1, <2>4
<1>12. ASSUME NEW n \in 0 .. N - 1, n \in X PROVE n + 1 \in X
  <2>1. n + 1 \in 1 .. N /\ n + 1 \in 0 .. N /\ (n + 1) - 1 = n
    BY <1>1
  <2>2. PICK k \in 1 .. Len(twups) : k = n + 1 /\ k - 1 = n
    BY <1>5, <2>1
  <2>3. Remarks(f[n], M, touch, k - 1)
    BY <1>12, <2>2
  <2>4. Remarks(Visit(f[n], twups[k]), M, touch, k)
    BY <2>3, VisitStays, VisitLeaves
  <2>5. f[k] = Visit(f[n], twups[k])
    BY <1>5, <1>10, <2>2
  <2> QED BY <2>1, <2>2, <2>4, <2>5
<1> HIDE DEF X
<1>13. 0 .. N \subseteq X
  BY <1>1, <1>11, <1>12, UpTo
<1>14. Remarks(f[N], M, touch, N)
  BY <1>1, <1>13 DEF X
<1>15. remarkupvals(M, touch) = After(M, touch)[Len(twups)]
  BY DEF remarkupvals, After, Begin, Recursion
<1> QED BY <1>5, <1>8, <1>14, <1>15

-----------------------------------------------------------------------------
(* How marking ends                                                        *)

(* What has to hold of the marked and the traversed objects before.        *)
Begins(M, done) ==
    /\ dead = {} /\ M \subseteq Objects /\ mainthread \in M
    /\ done \cap Thread = {} /\ done \cap LClosure \subseteq M
    /\ \A c \in done \cap LClosure : \A u \in Upvals(c) :
           IF upisopen(u) THEN touched[u] ELSE value[u] \in Values(M)

(* What holds of everything marked in the end: nobody in it refers to      *)
(* anybody who is not.                                                     *)
Ends(m, M) ==
    /\ M \subseteq m.live /\ mainthread \in m.live /\ m.live \subseteq Objects
    /\ \A o \in m.live : Refers(o) \subseteq Values(m.live)
    /\ ToSet(chain) \subseteq m.live
    /\ m.twups \in Seq(Thread) /\ ToSet(m.twups) \subseteq m.live
    /\ m.back \subseteq m.live \cap Thread
    /\ \A t \in m.live \cap Thread : openupval[t] # <<>> => t \in m.back \cup ToSet(m.twups)
    /\ m.touched \in [UpVal -> BOOLEAN]

(* The first part of it: propagateall.  ME are the objects with a mark     *)
(* after it, touch the upvalues that were touched.                         *)
Early(ME, touch) ==
    /\ ME \subseteq Objects /\ touch \in [UpVal -> BOOLEAN]
    /\ \A c \in ME \cap LClosure : \A u \in Upvals(c) :
           IF upisopen(u) THEN touch[u] ELSE value[u] \in Values(ME)

LEMMA EarlyFacts ==
    ASSUME IInv, NEW M, NEW done, Begins(M, done)
    PROVE  Early(M \cup Spread(M, M \ done, FALSE), Touching(Spread(M, M \ done, FALSE)))
<1>1. PICK E : E = Spread(M, M \ done, FALSE)
  OBVIOUS
<1>2. PICK touch : touch = Touching(E)
  OBVIOUS
<1>3. M \ done \subseteq E /\ E \subseteq Objects /\ \A o \in E : Refs(o, FALSE) \subseteq M \cup E
  <2>1. M \subseteq Objects /\ M \ done \subseteq M /\ FALSE \in BOOLEAN /\ dead = {}
    BY DEF Begins
  <2> QED BY <1>1, <2>1, SpreadFacts
<1>4. touch \in [UpVal -> BOOLEAN]
  BY <1>2, Zenon DEF Touching
<1>5. \A u \in UpVal : touch[u] = (touched[u] \/ \E c \in E \cap LClosure : u \in Open(c))
  BY <1>2, Zenon DEF Touching
<1>6. ASSUME NEW c \in (M \cup E) \cap LClosure, NEW u \in Upvals(c)
      PROVE  IF upisopen(u) THEN touch[u] ELSE value[u] \in Values(M \cup E)
  <2>1. u \in UpVal
    BY <1>6, UpvalsInUse DEF IInv
  <2>2. CASE c \in E
    <3>1. CASE upisopen(u)
      <4>1. u \in Open(c)
        BY <1>6, <3>1 DEF Open
      <4> QED BY <1>5, <1>6, <2>1, <2>2, <3>1, <4>1, Zenon
    <3>2. CASE ~upisopen(u)
      <4>1. u \in Upvals(c) \ Open(c) /\ At(u) = value[u] /\ c \notin Thread
        BY <1>6, <3>2, UpvalAssumption DEF Open, At
      <4>2. value[u] \in Refs(c, FALSE) \cup {Nil}
        BY <4>1 DEF Refs
      <4> QED BY <1>3, <2>2, <3>2, <4>2 DEF Values
    <3> QED BY <3>1, <3>2
  <2>3. CASE c \notin E
    <3>1. c \in done \cap LClosure
      BY <1>3, <1>6, <2>3
    <3>2. IF upisopen(u) THEN touched[u] ELSE value[u] \in Values(M)
      BY <1>6, <3>1 DEF Begins
    <3>3. CASE upisopen(u)
      BY <1>5, <2>1, <3>2, <3>3, Zenon
    <3>4. CASE ~upisopen(u)
      BY <3>2, <3>4 DEF Values
    <3> QED BY <3>3, <3>4
  <2> QED BY <2>2, <2>3
<1>7. M \cup E \subseteq Objects
  BY <1>3 DEF Begins
<1> QED BY <1>1, <1>2, <1>4, <1>6, <1>7 DEF Early

(* The thread of an open upvalue is in twups.                              *)
LEMMA OpenInTwups ==
    ASSUME IInv, dead = {}, NEW u \in UpVal, upisopen(u)
    PROVE  v[u][1] \in Thread /\ \E n \in 1 .. Len(twups) : twups[n] = v[u][1]
<1>1. TypeOK /\ OpenRight /\ FreedEmpty /\ TwupsRight
  BY DEF IInv
<1>2. PICK t : t = v[u][1]
  OBVIOUS
<1>3. t \in Thread /\ v[u][2] \in DOMAIN stack[t] /\ u \in ToSet(openupval[t])
  BY <1>1, <1>2, AtFacts DEF OpenRight
<1>4. t \in Objects
  BY <1>1, <1>3 DEF FreedEmpty
<1>5. openupval[t] # <<>>
  BY <1>3 DEF ToSet
<1>6. t \in ToSet(twups) /\ twups \in Seq(Thread)
  BY <1>1, <1>3, <1>4, <1>5 DEF TwupsRight, Alive, TypeOK
<1> QED BY <1>2, <1>3, <1>6, InSeq

LEMMA FinishFacts ==
    ASSUME IInv, NEW M, NEW done, Begins(M, done)
    PROVE  Ends(Finish(M, done), M)
<1>1. PICK E : E = Spread(M, M \ done, FALSE)
  OBVIOUS
<1>2. PICK ME : ME = M \cup E
  OBVIOUS
<1>3. PICK touch : touch = Touching(E)
  OBVIOUS
<1>4. Early(ME, touch)
  BY <1>1, <1>2, <1>3, EarlyFacts
<1>5. PICK r : r = remarkupvals(ME \cup {L}, touch)
  OBVIOUS
<1>6. PICK R : R = r.marked
  OBVIOUS
<1>7. PICK late : late = Spread(R, (R \cap Thread) \cup (R \ ME), TRUE)
  OBVIOUS
<1>8. PICK live : live = R \cup late
  OBVIOUS
<1>9. PICK m : m = Finish(M, done)
  OBVIOUS
<1>10. /\ m.live = live /\ m.touched = r.touched /\ m.twups = r.twups
       /\ m.back = {t \in late \cap Thread : openupval[t] # <<>>} \ ToSet(r.twups)
  BY <1>1, <1>2, <1>3, <1>5, <1>6, <1>7, <1>8, <1>9 DEF Finish
<1>11. dead = {} /\ Alive = Objects /\ L \in Thread /\ L \in Objects /\ mainthread \in M
  BY RunningFacts DEF Begins, Alive
<1>12. Remarks(r, ME \cup {L}, touch, Len(twups))
  <2>1. ME \cup {L} \subseteq Objects /\ touch \in [UpVal -> BOOLEAN]
    BY <1>4, <1>11 DEF Early
  <2> QED BY <1>5, <1>11, <2>1, RemarkFacts
<1>13. /\ r \in Remarked /\ ME \subseteq R /\ R \subseteq Objects /\ ToSet(r.twups) \subseteq R
  BY <1>6, <1>12 DEF Remarks
<1>14. /\ (R \cap Thread) \cup (R \ ME) \subseteq late /\ late \subseteq Objects
       /\ \A o \in late : Refs(o, TRUE) \subseteq live
  <2>1. PICK S : S = (R \cap Thread) \cup (R \ ME)
    OBVIOUS
  <2>2. S \subseteq R /\ R \subseteq Objects /\ TRUE \in BOOLEAN /\ dead = {}
    BY <1>11, <1>13, <2>1
  <2>3. late = Spread(R, S, TRUE)
    BY <1>7, <2>1
  <2>4. S \subseteq late /\ late \subseteq Objects /\ \A o \in late : Refs(o, TRUE) \subseteq R \cup late
    BY <2>2, <2>3, SpreadFacts
  <2> QED BY <1>8, <2>1, <2>4
<1>15. \A t \in live \cap Thread : t \in late
  BY <1>8, <1>14
<1>16. ASSUME NEW u \in UpVal, upisopen(u), touch[u] PROVE At(u) \in Values(R) \/ v[u][1] \in R
  <2>1. PICK n \in 1 .. Len(twups) : twups[n] = v[u][1]
    BY <1>11, <1>16, OpenInTwups
  <2> QED BY <1>6, <1>12, <1>16, <2>1 DEF Remarks
<1>17. ASSUME NEW t \in live \cap Thread
       PROVE  ToSet(stack[t]) \subseteq Values(live) /\ Resumed(t) \subseteq Values(live)
  <2>1. Refs(t, TRUE) \subseteq live
    BY <1>14, <1>15, <1>17
  <2> QED BY <1>17, <2>1 DEF Refs, Values
<1>18. ASSUME NEW c \in live \cap LClosure, NEW u \in Upvals(c) PROVE At(u) \in Values(live)
  <2>1. u \in UpVal /\ c \notin Thread
    BY <1>18, UpvalsInUse, UpvalAssumption DEF IInv
  <2>2. CASE c \in late
    <3>1. At(u) \in Refs(c, TRUE) \cup {Nil}
      BY <1>18, <2>1 DEF Refs
    <3> QED BY <1>14, <2>2, <3>1 DEF Values
  <2>3. CASE c \notin late
    <3>1. c \in ME \cap LClosure
      BY <1>8, <1>14, <1>18, <2>3
    <3>2. IF upisopen(u) THEN touch[u] ELSE value[u] \in Values(ME)
      BY <1>4, <1>18, <3>1 DEF Early
    <3>3. CASE ~upisopen(u)
      BY <1>8, <1>13, <3>2, <3>3 DEF At, Values
    <3>4. CASE upisopen(u)
      <4>1. At(u) \in Values(R) \/ v[u][1] \in R
        BY <1>16, <2>1, <3>2, <3>4
      <4>2. CASE At(u) \in Values(R)
        BY <1>8, <4>2 DEF Values
      <4>3. CASE v[u][1] \in R
        <5>1. PICK t : t = v[u][1]
          OBVIOUS
        <5>2. t \in Thread /\ At(u) = stack[t][v[u][2]] /\ v[u][2] \in DOMAIN stack[t]
          BY <2>1, <3>4, <5>1, AtFacts DEF IInv
        <5>3. stack[t] \in Seq(Value)
          BY <5>2 DEF IInv, TypeOK
        <5>4. At(u) \in ToSet(stack[t])
          BY <5>2, <5>3, InSeq
        <5> QED BY <1>8, <1>17, <4>3, <5>1, <5>2, <5>4
      <4> QED BY <4>1, <4>2, <4>3
    <3> QED BY <3>3, <3>4
  <2> QED BY <2>2, <2>3
<1>19. live \subseteq Objects /\ M \subseteq live /\ mainthread \in live
  BY <1>2, <1>8, <1>11, <1>13, <1>14
<1>20. ASSUME NEW o \in live PROVE Refers(o) \subseteq Values(live)
  <2>1. o \in Thread \/ o \in LClosure
    BY <1>19, <1>20, RunningFacts DEF GCObject
  <2> QED BY <1>17, <1>18, <1>20, <2>1 DEF Refers
<1>21. ToSet(chain) \subseteq live
  <2> DEFINE X == {n \in Nat : n + 1 \in DOMAIN chain => chain[n + 1] \in live}
  <2>1. 0 \in X
    BY <1>19 DEF IInv, AliveClosed
  <2>2. Len(chain) \in Nat /\ Len(chain) > 0 /\ DOMAIN chain = 1 .. Len(chain)
    BY RunningFacts
  <2>3. ASSUME NEW n \in 0 .. Len(chain) - 1, n \in X PROVE n + 1 \in X
    <3>1. SUFFICES ASSUME (n + 1) + 1 \in DOMAIN chain PROVE chain[(n + 1) + 1] \in live
      OBVIOUS
    <3>2. PICK i : i = n + 1
      OBVIOUS
    <3>3. i \in DOMAIN chain /\ i < Len(chain) /\ i + 1 \in DOMAIN chain
      BY <2>2, <3>1, <3>2
    <3>4. chain[i] \in live /\ chain[i] \in Thread
      BY <2>3, <3>2, <3>3, RunningFacts
    <3>5. chain[i + 1] \in Resumed(chain[i])
      BY <3>3 DEF Resumed
    <3>6. chain[i + 1] \in GCObject
      BY <3>3, RunningFacts
    <3>7. chain[i + 1] \in live
      BY <1>17, <3>4, <3>5, <3>6, UpvalAssumption DEF Values
    <3> QED BY <3>2, <3>7
  <2> HIDE DEF X
  <2>4. 0 .. Len(chain) \subseteq X
    BY <2>1, <2>2, <2>3, UpTo
  <2>5. ASSUME NEW i \in DOMAIN chain PROVE chain[i] \in live
    <3>1. i - 1 \in 0 .. Len(chain) /\ (i - 1) + 1 = i
      BY <2>2, <2>5
    <3>2. i - 1 \in X
      BY <2>4, <3>1
    <3> QED BY <2>5, <3>1, <3>2 DEF X
  <2> QED BY <2>5 DEF ToSet
<1>22. r.twups \in Seq(Thread) /\ r.touched \in [UpVal -> BOOLEAN] /\ ToSet(r.twups) \subseteq live
  BY <1>8, <1>13 DEF Remarked
<1>23. /\ m.back \subseteq live \cap Thread
       /\ \A t \in live \cap Thread : openupval[t] # <<>> => t \in m.back \cup ToSet(r.twups)
  BY <1>8, <1>10, <1>15
<1>24. Ends(m, M)
  BY <1>10, <1>19, <1>20, <1>21, <1>22, <1>23 DEF Ends
<1> QED BY <1>9, <1>24

LEMMA RelinkFacts ==
    ASSUME NEW m, m.back \subseteq Thread, m.twups \in Seq(Thread), Relink(m)
    PROVE  twups' \in Seq(Thread) /\ ToSet(twups') = m.back \cup ToSet(m.twups)
<1>1. Cardinality(m.back) \in Nat
  BY FS_Subset, FS_CardinalityType, UpvalAssumption
<1>2. PICK q \in [1 .. Cardinality(m.back) -> m.back] : ToSet(q) = m.back /\ twups' = q \o m.twups
  BY DEF Relink
<1>3. q \in Seq(Thread)
  BY <1>1, <1>2
<1>4. PICK b \in Seq(Thread) : b = m.twups
  OBVIOUS
<1>5. q \o b \in Seq(Thread) /\ ToSet(q \o b) = ToSet(q) \cup ToSet(b)
  BY <1>3, ConcatElements
<1> QED BY <1>2, <1>4, <1>5

LEMMA UncacheFacts ==
    ASSUME IInv, NEW P, NEW M, NEW live, P \subseteq bound.protos, Uncache(P, M, live),
           \A p \in bound.protos \ P : cache[p] \in live \cup {None}
    PROVE  /\ cache' \in [Proto -> LClosure \cup {None}]
           /\ \A p \in Proto : cache'[p] # None => p \in bound.protos /\ cache'[p] \in live
<1>1. PICK Q \in SUBSET P :
        /\ \A p \in P : cache[p] \in M => p \notin Q
        /\ \A p \in P : cache[p] \notin live => p \in Q
        /\ cache' = [p \in Proto |-> IF p \in Q THEN None ELSE cache[p]]
  BY DEF Uncache
<1>2. cache \in [Proto -> LClosure \cup {None}] /\ \A p \in Proto : cache[p] # None => p \in bound.protos
  BY DEF IInv, TypeOK, CacheRight
<1>3. cache' \in [Proto -> LClosure \cup {None}]
  BY <1>1, <1>2
<1>4. ASSUME NEW p \in Proto, cache'[p] # None PROVE p \in bound.protos /\ cache'[p] \in live
  <2>1. p \notin Q /\ cache'[p] = cache[p]
    BY <1>1, <1>4
  <2>2. p \in bound.protos
    BY <1>2, <1>4, <2>1
  <2>3. cache[p] \in live
    BY <1>1, <1>4, <2>1, <2>2
  <2> QED BY <2>1, <2>2, <2>3
<1> QED BY <1>3, <1>4

LEMMA AtomicKeeps == ASSUME IInv, atomic PROVE IInv'
<1>1. PICK m : m = Finish(marked, black)
  OBVIOUS
<1>2. /\ ~Working /\ gcstate = "propagate"
      /\ Relink(m) /\ Uncache(bound.protos \ black, marked, m.live)
      /\ dead' = ToSet(allgc) \ m.live /\ touched' = m.touched
      /\ gcstate' = "sweep" /\ marked' = {} /\ black' = bound.protos
      /\ UNCHANGED <<program, openupval, upvals, proto, making, v, value, refcount, allgc, emergency>>
  BY <1>1 DEF atomic
<1>3. /\ TypeOK /\ ListRight /\ OpenRight /\ FreedEmpty /\ CountsRight /\ AliveClosed
      /\ TwupsRight /\ CacheRight /\ ColorsRight /\ MakingRight
  BY DEF IInv
<1>4. UNCHANGED <<bound, chain, stack, upvals, proto, making, v, value, refcount, openupval, allgc, emergency>>
  BY <1>2 DEF program
<1>5. bound.protos \subseteq Proto
  BY <1>3, UpvalAssumption DEF TypeOK
<1>6. Begins(marked, black)
  <2>1. black \cap Thread = {}
    BY <1>3, UpvalAssumption DEF TypeOK
  <2> QED BY <1>2, <1>3, <2>1 DEF ColorsRight, Begins
<1>7. Ends(m, marked)
  BY <1>1, <1>6, FinishFacts
<1>8. twups' \in Seq(Thread) /\ ToSet(twups') = m.back \cup ToSet(m.twups)
  BY <1>2, <1>7, RelinkFacts DEF Ends
<1>9. /\ cache' \in [Proto -> LClosure \cup {None}]
      /\ \A p \in Proto : cache'[p] # None => p \in bound.protos /\ cache'[p] \in m.live
  <2>1. \A p \in bound.protos \ (bound.protos \ black) : cache[p] \in m.live \cup {None}
    BY <1>2, <1>3, <1>5, <1>7 DEF ColorsRight, Ends
  <2> QED BY <1>2, <2>1, UncacheFacts
<1>10. Objects' = Objects /\ Alive' = m.live /\ m.live \subseteq Objects /\ mainthread \in m.live
  <2>1. Objects' = Objects /\ m.live \subseteq Objects /\ mainthread \in m.live
    BY <1>4, <1>7 DEF Objects, Ends
  <2>2. mainthread \notin ToSet(allgc)
    BY <1>3 DEF ListRight
  <2>3. \A o : o \in Objects <=> o \in ToSet(allgc) \/ o = mainthread
    BY DEF Objects
  <2>4. \A o : o \in Alive' <=> o \in Objects /\ o \notin dead'
    BY <2>1 DEF Alive
  <2> QED BY <1>2, <2>1, <2>2, <2>3, <2>4
<1>11. TypeOK'
  <2>1. dead' \subseteq GCObject
    <3>1. allgc \in Seq(GCObject)
      BY <1>3 DEF TypeOK
    <3> QED BY <1>2, <3>1, InSeq
  <2>2. touched' \in [UpVal -> BOOLEAN]
    BY <1>2, <1>7 DEF Ends
  <2>3. marked' \subseteq GCObject /\ black' \subseteq LClosure \cup Proto
    BY <1>2, <1>5
  <2> QED BY <1>2, <1>3, <1>4, <1>8, <1>9, <2>1, <2>2, <2>3 DEF TypeOK
<1>12. ListRight'
  BY <1>2, <1>3, <1>4 DEF ListRight
<1>13. OpenRight'
  BY <1>3, <1>4 DEF OpenRight, Level, upisopen
<1>14. FreedEmpty'
  BY <1>3, <1>4, <1>10 DEF FreedEmpty
<1>15. CountsRight'
  BY <1>3, <1>4 DEF CountsRight, Uses
<1>16. AliveClosed'
  <2>1. \A o : Refers(o)' = Refers(o)
    BY <1>4 DEF Refers, Upvals, At, upisopen
  <2>2. ToSet(chain) \subseteq m.live /\ \A o \in m.live : Refers(o) \subseteq Values(m.live)
    BY <1>7 DEF Ends
  <2>3. chain[1] = mainthread
    BY <1>3 DEF AliveClosed
  <2> QED BY <1>4, <1>10, <2>1, <2>2, <2>3 DEF AliveClosed, Values
<1>17. TwupsRight'
  BY <1>4, <1>7, <1>8, <1>10 DEF TwupsRight, Ends
<1>18. CacheRight'
  BY <1>4, <1>9, <1>10 DEF CacheRight
<1>19. ColorsRight'
  BY <1>2, <1>5, UpvalAssumption DEF ColorsRight
<1>20. MakingRight'
  BY <1>2, <1>4 DEF MakingRight, Working
<1> QED BY <1>11, <1>12, <1>13, <1>14, <1>15, <1>16, <1>17, <1>18, <1>19, <1>20 DEF IInv

(* What is left of allgc is a list of different objects again.             *)
LEMMA SublistFacts ==
    ASSUME TypeOK, ListRight, NEW S, S \subseteq ToSet(allgc), NEW q \in Sublists(S)
    PROVE  /\ q \in Seq(GCObject) /\ ToSet(q) = S
           /\ \A i, j \in DOMAIN q : i # j => q[i] # q[j]
<1>1. allgc \in Seq(GCObject) /\ S \subseteq GCObject
  <2>1. allgc \in Seq(GCObject)
    BY DEF TypeOK
  <2> QED BY <2>1, InSeq
<1>2. Cardinality(S) \in Nat
  <2>1. IsFiniteSet(GCObject)
    BY FS_Union, UpvalAssumption DEF GCObject
  <2> QED BY <1>1, <2>1, FS_Subset, FS_CardinalityType
<1>3. /\ q \in [1 .. Cardinality(S) -> S] /\ ToSet(q) = S
      /\ \A i, j \in DOMAIN q : i < j =>
             \E m, n \in DOMAIN allgc : m < n /\ allgc[m] = q[i] /\ allgc[n] = q[j]
  BY DEF Sublists
<1>4. ASSUME NEW i \in DOMAIN q, NEW j \in DOMAIN q, i < j PROVE q[i] # q[j]
  <2>1. PICK k \in DOMAIN allgc, n \in DOMAIN allgc : k < n /\ allgc[k] = q[i] /\ allgc[n] = q[j]
    BY <1>3, <1>4
  <2>2. k # n
    BY <1>1, <2>1
  <2> QED BY <2>1, <2>2 DEF ListRight
<1>5. ASSUME NEW i \in DOMAIN q, NEW j \in DOMAIN q, i # j PROVE q[i] # q[j]
  <2>1. i < j \/ j < i
    BY <1>2, <1>3, <1>5
  <2> QED BY <1>4, <2>1
<1>6. q \in Seq(GCObject)
  BY <1>1, <1>2, <1>3
<1> QED BY <1>3, <1>5, <1>6

(* The whole cycle, when m is how its marking ended.                       *)
Collected(m) ==
    LET count == Uses(m.live \cap LClosure)
        closed == {u \in UpVal : v[u] = Own \/ (upisopen(u) /\ v[u][1] \notin m.live)}
    IN
    /\ refcount' = [u \in UpVal |-> IF v[u] = Free THEN 0 ELSE count[u]]
    /\ v' = [u \in UpVal |-> IF u \notin closed THEN v[u] ELSE IF count[u] = 0 THEN Free ELSE Own]
    /\ value' = [u \in UpVal |-> IF u \in closed /\ count[u] > 0 THEN At(u) ELSE Nil]
    /\ touched' = [u \in UpVal |-> m.touched[u] /\ u \notin closed]
    /\ openupval' = [t \in Thread |-> IF t \in m.live THEN openupval[t] ELSE <<>>]
    /\ stack' = [t \in Thread |-> IF t \in m.live THEN stack[t] ELSE <<>>]
    /\ upvals' = [c \in LClosure |-> IF c \in m.live THEN upvals[c] ELSE <<>>]

(* The counts afterwards, and what the counted upvalues hold.              *)
LEMMA CollectedCounts ==
    ASSUME IInv, NEW m, Ends(m, {mainthread}), Collected(m)
    PROVE  /\ upvals' \in UpvalLists /\ CountsRight' /\ refcount' \in [UpVal -> Nat]
           /\ v' \in [UpVal -> {Own, Free} \cup (Thread \X Nat)] /\ value' \in [UpVal -> Value]
           /\ \A u \in UpVal :
                 /\ upisopen(u)' => upisopen(u) /\ v'[u] = v[u] /\ v[u][1] \in m.live
                 /\ upisopen(u) /\ v[u][1] \in m.live => v'[u] = v[u]
                 /\ refcount'[u] > 0 => At(u)' = At(u)
<1> DEFINE S == LClosure \ m.live
           count == Uses(m.live \cap LClosure)
           closed == {u \in UpVal : v[u] = Own \/ (upisopen(u) /\ v[u][1] \notin m.live)}
<1>1. TypeOK /\ OpenRight /\ CountsRight
  BY DEF IInv
<1>2. \A u \in UpVal : u \in closed <=> v[u] = Own \/ (upisopen(u) /\ v[u][1] \notin m.live)
  OBVIOUS
<1>3. /\ refcount' = [u \in UpVal |-> IF v[u] = Free THEN 0 ELSE count[u]]
      /\ v' = [u \in UpVal |-> IF u \notin closed THEN v[u] ELSE IF count[u] = 0 THEN Free ELSE Own]
      /\ value' = [u \in UpVal |-> IF u \in closed /\ count[u] > 0 THEN At(u) ELSE Nil]
      /\ stack' = [t \in Thread |-> IF t \in m.live THEN stack[t] ELSE <<>>]
      /\ upvals' = [c \in LClosure |-> IF c \in m.live THEN upvals[c] ELSE <<>>]
  BY DEF Collected
<1>4. upvals \in UpvalLists
  BY <1>1 DEF TypeOK, UpvalLists
<1>5. upvals' \in UpvalLists
  BY <1>3, <1>4 DEF UpvalLists
<1>6. Emptied(upvals, upvals', S)
  BY <1>3, <1>4, <1>5 DEF Emptied
<1>7. LClosure \ S = m.live \cap LClosure /\ S \subseteq LClosure
  OBVIOUS
<1>8. \A u \in UpVal : count[u] = Cardinality(PlacesIn(upvals, m.live \cap LClosure, u))
  BY UsesPlaces
<1> HIDE DEF S, count, closed
<1>9. ASSUME NEW u \in UpVal
      PROVE  /\ count[u] \in Nat /\ count[u] = Uses(LClosure)'[u]
             /\ v[u] = Free => count[u] = 0
  <2>1. PICK ups : ups = upvals'
    OBVIOUS
  <2>2. Fewer(upvals, ups, S, u)
        /\ Cardinality(PlacesIn(ups, LClosure, u)) = Cardinality(PlacesIn(upvals, LClosure \ S, u))
    BY <1>6, <2>1, PartPlaces
  <2>3. count[u] = Cardinality(PlacesIn(ups, LClosure, u))
    BY <1>7, <1>8, <2>2
  <2>4. Uses(LClosure)'[u] = Cardinality(PlacesIn(ups, LClosure, u))
    BY <2>1, UsesPlaces
  <2>5. ups \in UpvalLists
    BY <1>5, <2>1
  <2>6. Cardinality(PlacesIn(ups, LClosure, u)) \in Nat
    BY <2>5, PlacesFinite
  <2>7. Cardinality(PlacesIn(upvals, S, u)) \in Nat /\ Cardinality(PlacesIn(upvals, LClosure, u)) \in Nat
    BY <1>4, <1>7, PlacesFinite
  <2>8. v[u] = Free => Cardinality(PlacesIn(upvals, LClosure, u)) = 0
    BY <1>1, UsesPlaces DEF CountsRight
  <2>9. v[u] = Free => Cardinality(PlacesIn(ups, LClosure, u)) = 0
    BY <2>2, <2>6, <2>7, <2>8 DEF Fewer
  <2> QED BY <2>3, <2>4, <2>6, <2>9
<1>10. refcount' \in [UpVal -> Nat] /\ \A u \in UpVal : refcount'[u] = count[u]
  BY <1>3, <1>9
<1>11. \A u \in UpVal : /\ v[u] \in {Own, Free} \cup (Thread \X Nat) /\ At(u) \in Value /\ Nil \in Value
  BY <1>1, AtFacts DEF TypeOK, Value
<1>12. v' \in [UpVal -> {Own, Free} \cup (Thread \X Nat)]
  BY <1>3, <1>11
<1>13. value' \in [UpVal -> Value]
  BY <1>3, <1>11
<1>14. CountsRight'
  <2>1. ASSUME NEW u \in UpVal, v'[u] = Own PROVE count[u] > 0
    <3>1. u \in closed /\ count[u] # 0
      BY <1>2, <1>3, <2>1, UpvalAssumption
    <3> QED BY <1>9, <3>1
  <2>2. ASSUME NEW u \in UpVal, v'[u] = Free PROVE count[u] = 0
    <3>1. CASE u \in closed
      BY <1>3, <2>2, <3>1, UpvalAssumption
    <3>2. CASE u \notin closed
      BY <1>3, <1>9, <2>2, <3>2
    <3> QED BY <3>1, <3>2
  <2>3. \A u \in UpVal : refcount'[u] = Uses(LClosure)'[u]
    BY <1>9, <1>10
  <2> QED BY <1>10, <2>1, <2>2, <2>3 DEF CountsRight
<1>15. ASSUME NEW u \in UpVal, upisopen(u)'
       PROVE  upisopen(u) /\ v'[u] = v[u] /\ v[u][1] \in m.live
  <2>1. v'[u] # Own /\ v'[u] # Free
    BY <1>15 DEF upisopen
  <2>2. u \notin closed /\ v'[u] = v[u]
    BY <1>3, <2>1
  <2> QED BY <1>2, <2>1, <2>2 DEF upisopen
<1>16. ASSUME NEW u \in UpVal, upisopen(u), v[u][1] \in m.live PROVE v'[u] = v[u] /\ u \notin closed
  BY <1>2, <1>3, <1>16 DEF upisopen
<1>17. ASSUME NEW u \in UpVal, refcount'[u] > 0 PROVE At(u)' = At(u)
  <2>1. count[u] > 0 /\ v[u] # Free
    BY <1>9, <1>10, <1>17
  <2>2. CASE u \in closed
    <3>1. v'[u] = Own /\ value'[u] = At(u)
      BY <1>3, <1>9, <2>1, <2>2
    <3> QED BY <3>1 DEF At, upisopen
  <2>3. CASE u \notin closed
    <3>1. upisopen(u) /\ v[u][1] \in m.live
      BY <1>2, <2>1, <2>3 DEF upisopen
    <3>2. v'[u] = v[u] /\ v[u][1] \in Thread
      BY <1>1, <1>16, <3>1, OpenAddress
    <3>3. stack'[v[u][1]] = stack[v[u][1]]
      BY <1>3, <3>1, <3>2
    <3> QED BY <3>1, <3>2, <3>3 DEF At, upisopen
  <2> QED BY <2>2, <2>3
<1> QED BY <1>5, <1>10, <1>12, <1>13, <1>14, <1>15, <1>16, <1>17

LEMMA FullCycleKeeps == ASSUME IInv, FullCycle PROVE IInv'
<1>1. PICK m : m = Finish({mainthread}, {})
  OBVIOUS
<1>2. /\ gcstate = "pause" /\ emergency' = "done"
      /\ Relink(m) /\ Uncache(bound.protos, {mainthread}, m.live)
      /\ allgc' \in Sublists(ToSet(allgc) \cap m.live)
      /\ UNCHANGED <<bound, chain, proto, making, colors, gcstate>>
  BY <1>1 DEF FullCycle
<1>3. Collected(m)
  BY <1>1 DEF FullCycle, Collected
<1>4. /\ TypeOK /\ ListRight /\ OpenRight /\ FreedEmpty /\ CountsRight /\ AliveClosed
      /\ TwupsRight /\ CacheRight /\ ColorsRight /\ MakingRight
  BY DEF IInv
<1>5. UNCHANGED <<bound, chain, proto, making, marked, black, dead, gcstate>>
  BY <1>2 DEF colors
<1>6. dead = {} /\ Alive = Objects
  BY <1>2, <1>4 DEF ColorsRight, Alive
<1>7. Ends(m, {mainthread})
  <2>1. Begins({mainthread}, {})
    BY <1>6 DEF Begins, Objects
  <2> QED BY <1>1, <2>1, FinishFacts
<1>8. /\ mainthread \in m.live /\ m.live \subseteq Objects /\ ToSet(chain) \subseteq m.live
      /\ \A o \in m.live : Refers(o) \subseteq Values(m.live)
  BY <1>7 DEF Ends
<1>9. /\ upvals' \in UpvalLists /\ CountsRight' /\ refcount' \in [UpVal -> Nat]
      /\ v' \in [UpVal -> {Own, Free} \cup (Thread \X Nat)] /\ value' \in [UpVal -> Value]
      /\ \A u \in UpVal :
            /\ upisopen(u)' => upisopen(u) /\ v'[u] = v[u] /\ v[u][1] \in m.live
            /\ upisopen(u) /\ v[u][1] \in m.live => v'[u] = v[u]
            /\ refcount'[u] > 0 => At(u)' = At(u)
  BY <1>3, <1>7, CollectedCounts
<1>10. /\ openupval' = [t \in Thread |-> IF t \in m.live THEN openupval[t] ELSE <<>>]
       /\ stack' = [t \in Thread |-> IF t \in m.live THEN stack[t] ELSE <<>>]
       /\ upvals' = [c \in LClosure |-> IF c \in m.live THEN upvals[c] ELSE <<>>]
  BY <1>3 DEF Collected
<1>11. touched' \in [UpVal -> BOOLEAN]
  <2>1. \E S : touched' = [u \in UpVal |-> m.touched[u] /\ u \notin S]
    BY <1>3 DEF Collected
  <2> QED BY <2>1, Zenon
<1>12. twups' \in Seq(Thread) /\ ToSet(twups') = m.back \cup ToSet(m.twups)
  BY <1>2, <1>7, RelinkFacts DEF Ends
<1>13. /\ cache' \in [Proto -> LClosure \cup {None}]
       /\ \A p \in Proto : cache'[p] # None => p \in bound.protos /\ cache'[p] \in m.live
  BY <1>2, UncacheFacts
<1>14. /\ allgc' \in Seq(GCObject) /\ ToSet(allgc') = ToSet(allgc) \cap m.live
       /\ \A i, j \in DOMAIN allgc' : i # j => allgc'[i] # allgc'[j]
  <2>1. PICK S : S = ToSet(allgc) \cap m.live
    OBVIOUS
  <2>2. PICK q \in Sublists(S) : q = allgc'
    BY <1>2, <2>1
  <2> QED BY <1>4, <2>1, <2>2, SublistFacts
<1>15. Objects' = m.live /\ Alive' = m.live
  <2>1. \A o : o \in Objects <=> o \in ToSet(allgc) \/ o = mainthread
    BY DEF Objects
  <2>2. \A o : o \in Objects' <=> o \in ToSet(allgc') \/ o = mainthread
    BY DEF Objects
  <2>3. Objects' = m.live
    BY <1>8, <1>14, <2>1, <2>2
  <2> QED BY <1>5, <1>6, <2>3 DEF Alive
<1>16. TypeOK'
  <2>1. stack' \in [Thread -> Seq(Value)] /\ openupval' \in [Thread -> Seq(UpVal)]
    BY <1>4, <1>10 DEF TypeOK
  <2> QED BY <1>2, <1>4, <1>5, <1>9, <1>11, <1>12, <1>13, <1>14, <2>1 DEF TypeOK, UpvalLists
<1>17. ListRight'
  BY <1>4, <1>5, <1>6, <1>14 DEF ListRight
<1>18. OpenRight'
  <2>1. ASSUME NEW t \in Thread, NEW i \in DOMAIN openupval'[t]
        PROVE  /\ t \in m.live /\ openupval'[t] = openupval[t] /\ stack'[t] = stack[t]
               /\ v'[openupval[t][i]] = v[openupval[t][i]]
    <3>1. t \in m.live
      BY <1>10, <2>1
    <3>2. openupval'[t] = openupval[t] /\ stack'[t] = stack[t]
      BY <1>10, <3>1
    <3>3. openupval[t][i] \in UpVal /\ upisopen(openupval[t][i]) /\ v[openupval[t][i]][1] = t
      BY <1>4, <2>1, <3>2, ListedOpen
    <3> QED BY <1>9, <3>1, <3>2, <3>3
  <2>2. ASSUME NEW t \in Thread, NEW i \in DOMAIN openupval'[t]
        PROVE  /\ v'[openupval'[t][i]] = <<t, v'[openupval'[t][i]][2]>>
               /\ v'[openupval'[t][i]][2] \in DOMAIN stack'[t]
    BY <1>4, <2>1, <2>2 DEF OpenRight, Level
  <2>3. ASSUME NEW t \in Thread, NEW i \in DOMAIN openupval'[t], NEW j \in DOMAIN openupval'[t], i < j
        PROVE  v'[openupval'[t][i]][2] > v'[openupval'[t][j]][2]
    BY <1>4, <2>1, <2>3 DEF OpenRight, Level
  <2>4. ASSUME NEW u \in UpVal, upisopen(u)' PROVE u \in ToSet(openupval'[v'[u][1]])
    <3>1. upisopen(u) /\ v'[u] = v[u] /\ v[u][1] \in m.live /\ v[u][1] \in Thread
      BY <1>4, <1>9, <2>4, OpenAddress
    <3>2. openupval'[v[u][1]] = openupval[v[u][1]]
      BY <1>10, <3>1
    <3> QED BY <1>4, <3>1, <3>2 DEF OpenRight
  <2> QED BY <2>2, <2>3, <2>4 DEF OpenRight, Level
<1>19. FreedEmpty'
  BY <1>10, <1>15 DEF FreedEmpty
<1>20. AliveClosed'
  <2>1. ASSUME NEW o \in m.live PROVE Refers(o)' \subseteq Values(m.live)
    <3>1. CASE o \in Thread
      <4>1. stack'[o] = stack[o]
        BY <1>10, <2>1, <3>1
      <4> QED BY <1>8, <2>1, <3>1, <4>1 DEF Refers
    <3>2. CASE o \notin Thread
      <4>1. o \in LClosure /\ upvals'[o] = upvals[o]
        BY <1>8, <1>10, <2>1, <3>2, RunningFacts DEF GCObject
      <4>2. ASSUME NEW w \in Upvals(o)' PROVE At(w)' \in Values(m.live)
        <5>1. w \in Upvals(o) /\ w \in ToSet(upvals'[o])
          BY <4>1, <4>2 DEF Upvals
        <5>2. w \in UpVal
          BY <1>4, <4>1, <5>1, UpvalsInUse
        <5>3. PICK ups : ups = upvals'
          OBVIOUS
        <5>4. ups \in UpvalLists /\ w \in ToSet(ups[o])
          BY <1>9, <5>1, <5>3
        <5>5. Cardinality(PlacesIn(ups, LClosure, w)) > 0
          BY <4>1, <5>4, PlaceCounted
        <5>6. refcount'[w] = Cardinality(PlacesIn(ups, LClosure, w))
          BY <1>9, <5>2, <5>3, UsesPlaces DEF CountsRight
        <5>7. At(w)' = At(w)
          BY <1>9, <5>2, <5>5, <5>6
        <5>8. At(w) \in Values(m.live)
          BY <1>8, <2>1, <3>2, <5>1 DEF Refers
        <5> QED BY <5>7, <5>8
      <4> QED BY <3>2, <4>2 DEF Refers
    <3> QED BY <3>1, <3>2
  <2> QED BY <1>4, <1>5, <1>8, <1>15, <2>1 DEF AliveClosed, Values
<1>21. TwupsRight'
  <2>1. /\ m.back \subseteq m.live /\ ToSet(m.twups) \subseteq m.live
        /\ \A t \in m.live \cap Thread : openupval[t] # <<>> => t \in m.back \cup ToSet(m.twups)
    BY <1>7 DEF Ends
  <2> QED BY <1>10, <1>12, <1>15, <2>1 DEF TwupsRight
<1>22. CacheRight'
  BY <1>5, <1>13, <1>15 DEF CacheRight
<1>23. ColorsRight'
  BY <1>2, <1>4, <1>5 DEF ColorsRight
<1>24. MakingRight'
  <2>1. SUFFICES ASSUME Working PROVE MakingRight'
    BY <1>5 DEF MakingRight, Working
  <2>2. L \in m.live /\ L \in Thread /\ L' = L
    <3>1. Len(chain) \in DOMAIN chain /\ L = chain[Len(chain)] /\ L \in Thread
      BY RunningFacts DEF L, Last
    <3>2. chain \in Seq(Thread)
      BY <1>4 DEF TypeOK
    <3>3. L \in ToSet(chain)
      BY <3>1, <3>2, InSeq
    <3> QED BY <1>5, <1>8, <3>1, <3>3 DEF L
  <2>3. stack'[L] = stack[L] /\ stack[L] \in Seq(Value)
    BY <1>4, <1>10, <2>2 DEF TypeOK
  <2>4. InSlots' = InSlots /\ InSlots \subseteq Values(m.live)
    BY <1>8, <2>2, <2>3 DEF InSlots, Refers
  <2>5. /\ making.cl \in LClosure /\ making.cl \in m.live
        /\ making.enc # None => making.enc \in LClosure /\ making.enc \in m.live
    <3>1. making.ra \in DOMAIN stack[L] /\ stack[L][making.ra] = making.cl
          /\ making.cl \in LClosure /\ (making.enc # None => making.enc \in LClosure \cap InSlots)
      BY <1>4, <2>1, MakingFacts DEF MakingRight
    <3>2. making.cl \in InSlots
      BY <2>3, <3>1, InSeq DEF InSlots
    <3>3. \A c \in LClosure : c # Nil
      BY UpvalAssumption DEF GCObject
    <3> QED BY <2>4, <3>1, <3>2, <3>3 DEF Values
  <2>6. upvals'[making.cl] = upvals[making.cl] /\ (making.enc # None => upvals'[making.enc] = upvals[making.enc])
    BY <1>10, <2>5
  <2>7. Allowed(proto[making.cl], making.enc, making.base)'
    <3>1. Allowed(proto[making.cl], making.enc, making.base)
      BY <2>1, MakingFacts
    <3> QED BY <1>5, <2>2, <2>3, <2>6, <3>1 DEF Allowed
  <2> QED BY <1>4, <1>5, <2>1, <2>2, <2>3, <2>4, <2>6, <2>7 DEF MakingRight, Working
<1> QED BY <1>16, <1>17, <1>18, <1>19, <1>9, <1>20, <1>21, <1>22, <1>23, <1>24 DEF IInv

-----------------------------------------------------------------------------
(* The theorems                                                            *)

LEMMA InitInv == Init => IInv
<1>1. SUFFICES ASSUME Init PROVE IInv
  OBVIOUS
<1>2. TypeOK
  <2>1. mainthread \in Thread /\ Nil \in Value /\ Free \in {Own, Free} \cup (Thread \X Nat)
    BY UpvalAssumption DEF Value
  <2>2. proto \in [LClosure -> Proto]
    <3>1. (CHOOSE p \in Proto : TRUE) \in Proto
      BY UpvalAssumption
    <3> QED BY <1>1, <3>1 DEF Init
  <2>3. touched \in [UpVal -> BOOLEAN]
    BY <1>1, Zenon DEF Init
  <2>4. /\ stack \in [Thread -> Seq(Value)] /\ openupval \in [Thread -> Seq(UpVal)]
        /\ upvals \in [LClosure -> Seq(UpVal \cup {None})]
    BY <1>1 DEF Init
  <2>5. chain \in Seq(Thread) /\ chain # <<>>
    BY <1>1, <2>1 DEF Init
  <2> QED BY <1>1, <2>1, <2>2, <2>3, <2>4, <2>5 DEF Init, TypeOK
<1>3. DOMAIN allgc = {} /\ ToSet(allgc) = {} /\ ToSet(twups) = {} /\ dead = {} /\ marked = {} /\ black = {}
  BY <1>1 DEF Init, ToSet
<1>4. Objects = {mainthread} /\ Alive = {mainthread}
  BY <1>3 DEF Objects, Alive
<1>5. ListRight
  BY <1>3 DEF ListRight
<1>6. /\ \A t \in Thread : openupval[t] = <<>> /\ stack[t] = <<>> /\ DOMAIN openupval[t] = {}
      /\ \A c \in LClosure : upvals[c] = <<>> /\ DOMAIN upvals[c] = {}
      /\ \A u \in UpVal : v[u] = Free /\ refcount[u] = 0 /\ ~upisopen(u)
  BY <1>1 DEF Init, upisopen
<1>7. OpenRight
  BY <1>6 DEF OpenRight
<1>8. FreedEmpty
  BY <1>6 DEF FreedEmpty
<1>9. CountsRight
  <2>1. ASSUME NEW u \in UpVal PROVE Uses(LClosure)[u] = 0
    <3>1. \A p : p \notin PlacesIn(upvals, LClosure, u)
      BY <1>6, PlaceIn
    <3>2. PlacesIn(upvals, LClosure, u) = {}
      BY <3>1
    <3> QED BY <3>2, UsesPlaces, FS_EmptySet
  <2> QED BY <1>6, <2>1, UpvalAssumption DEF CountsRight
<1>10. AliveClosed
  <2>1. chain[1] = mainthread /\ ToSet(chain) \subseteq Alive
    <3>1. chain[1] = mainthread /\ DOMAIN chain = {1}
      BY <1>1 DEF Init
    <3> QED BY <1>4, <3>1 DEF ToSet
  <2>2. Refers(mainthread) = {}
    <3>1. mainthread \in Thread
      BY UpvalAssumption
    <3> QED BY <1>6, <3>1 DEF Refers, ToSet
  <2> QED BY <1>4, <2>1, <2>2 DEF AliveClosed
<1>11. TwupsRight
  BY <1>3, <1>6 DEF TwupsRight
<1>12. CacheRight
  BY <1>1 DEF Init, CacheRight
<1>13. ColorsRight
  BY <1>1, <1>3 DEF Init, ColorsRight
<1>14. MakingRight
  BY <1>1 DEF Init, MakingRight, Working
<1> QED BY <1>2, <1>5, <1>7, <1>8, <1>9, <1>10, <1>11, <1>12, <1>13, <1>14 DEF IInv

LEMMA NextInv == IInv /\ [Next]_vars => IInv'
<1>1. ASSUME IInv, Next PROVE IInv'
  <2>1. CASE Move \/ Leave \/ lua_newthread \/ lua_resume \/ lua_yield
    BY <1>1, <2>1, MoveKeeps, LeaveKeeps, NewThreadKeeps, ResumeKeeps, YieldKeeps, Zenon
  <2>2. CASE OP_GETUPVAL \/ OP_SETUPVAL \/ lua_upvaluejoin
    BY <1>1, <2>2, GetUpvalKeeps, SetUpvalKeeps, JoinKeeps, Zenon
  <2>3. CASE OP_CLOSURE \/ ShareUpval \/ luaF_findupval \/ pushclosure
    BY <1>1, <2>3, ClosureKeeps, ShareUpvalKeeps, FindUpvalKeeps, PushClosureKeeps, Zenon
  <2>4. CASE Emergency \/ FullCycle \/ MemoryError
    BY <1>1, <2>4, EmergencyKeeps, FullCycleKeeps, MemoryErrorKeeps, Zenon
  <2>5. CASE StartCycle \/ PropagateThread \/ PropagateLclosure \/ PropagateProto
    BY <1>1, <2>5, StartCycleKeeps, PropagateThreadKeeps, PropagateLclosureKeeps, PropagateProtoKeeps, Zenon
  <2>6. CASE atomic \/ Sweep \/ SweepEnds
    BY <1>1, <2>6, AtomicKeeps, SweepKeeps, SweepEndsKeeps, Zenon
  <2> QED BY <1>1, <2>1, <2>2, <2>3, <2>4, <2>5, <2>6, Zenon DEF Next
<1>2. ASSUME IInv, UNCHANGED vars PROVE IInv'
  <2>1. /\ UNCHANGED <<bound, chain, stack, openupval, upvals, proto, cache, making>>
        /\ UNCHANGED <<v, value, refcount, touched, twups, allgc>>
        /\ UNCHANGED <<marked, black, dead, gcstate, emergency>>
    BY <1>2 DEF vars, program, closures, upv, colors
  <2>2. TypeOK' /\ ListRight'
    BY <1>2, <2>1 DEF IInv, TypeOK, ListRight
  <2>3. OpenRight' /\ FreedEmpty'
    BY <1>2, <2>1 DEF IInv, OpenRight, Level, upisopen, FreedEmpty, Objects
  <2>4. CountsRight'
    BY <1>2, <2>1 DEF IInv, CountsRight, Uses
  <2>5. AliveClosed' /\ TwupsRight' /\ CacheRight'
    <3>1. Alive' = Alive /\ \A o : Refers(o)' = Refers(o)
      BY <2>1 DEF Alive, Objects, Refers, Upvals, At, upisopen
    <3> QED BY <1>2, <2>1, <3>1 DEF IInv, AliveClosed, TwupsRight, CacheRight, Values
  <2>6. ColorsRight'
    BY <1>2, <2>1 DEF IInv, ColorsRight, Upvals, upisopen, Objects
  <2>7. MakingRight'
    BY <1>2, <2>1 DEF IInv, MakingRight, Working, Allowed, InSlots, L
  <2> QED BY <2>2, <2>3, <2>4, <2>5, <2>6, <2>7 DEF IInv
<1> QED BY <1>1, <1>2, Zenon

LEMMA ReachAlive == ASSUME IInv PROVE Reach \subseteq Alive
<1> DEFINE edges == [o \in GCObject |-> Refers(o) \cap GCObject]
           S == ToSet(chain)
<1>1. AliveClosed /\ Alive \subseteq GCObject /\ S \subseteq Alive
  BY RunningFacts DEF IInv, AliveClosed, Alive
<1>2. \A o \in GCObject : edges[o] = Refers(o) \cap GCObject
  OBVIOUS
<1>3. Reach = Reachable(S, edges)
  BY DEF Reach
<1> HIDE DEF edges, S
<1>4. Closed(Alive, edges)
  <2>1. ASSUME NEW o \in Alive PROVE edges[o] \subseteq Alive
    <3>1. Refers(o) \subseteq Values(Alive) /\ edges[o] = Refers(o) \cap GCObject
      BY <1>1, <1>2, <2>1 DEF AliveClosed
    <3> QED BY <3>1, UpvalAssumption DEF Values
  <2> QED BY <2>1 DEF Closed
<1>5. \A o \in GCObject : edges[o] \subseteq GCObject
  BY <1>2
<1>6. S \subseteq GCObject
  BY <1>1
<1> QED BY <1>1, <1>3, <1>4, <1>5, <1>6, ReachableFacts

(* In every reachable state, what is alive refers only to what is alive,   *)
(* the counts, lists and colors are right and so is a closure being made.  *)
THEOREM UpvalInv == Spec => []IInv
<1>1. Init => IInv
  BY InitInv
<1>2. IInv /\ [Next]_vars => IInv'
  BY NextInv
<1> QED BY <1>1, <1>2, PTL DEF Spec

(* What the program reaches is alive: its threads and closures are not     *)
(* freed, nor about to be, and neither are the upvalues of closures or the *)
(* stacks that the open ones are in (luaF_close, remarkupvals, sweeplist). *)
THEOREM UpvalsNotLost == Spec => []NothingLost
<1>1. ASSUME IInv PROVE NothingLost
  <2>1. TypeOK /\ OpenRight /\ FreedEmpty /\ CountsRight /\ AliveClosed
    BY <1>1 DEF IInv
  <2>2. Reach \subseteq Alive
    BY <1>1, ReachAlive
  <2>3. ASSUME NEW c \in LClosure \cap Objects, NEW u \in Upvals(c)
        PROVE  /\ v[u] # Free
               /\ upisopen(u) => v[u][1] \in Objects /\ v[u] \in Slots(v[u][1])
    <3>1. u \in UpVal /\ v[u] # Free
      BY <2>1, <2>3, UpvalsInUse
    <3>2. ASSUME upisopen(u) PROVE v[u][1] \in Objects /\ v[u] \in Slots(v[u][1])
      <4>1. /\ v[u][1] \in Thread /\ v[u][2] \in DOMAIN stack[v[u][1]]
            /\ v[u] = <<v[u][1], v[u][2]>>
        BY <2>1, <3>1, <3>2, AtFacts, OpenAddress
      <4>2. v[u][1] \in Objects
        BY <2>1, <4>1 DEF FreedEmpty
      <4> QED BY <4>1, <4>2 DEF Slots
    <3> QED BY <3>1, <3>2
  <2> QED BY <2>2, <2>3 DEF NothingLost, Alive
<1> QED BY <1>1, UpvalInv, PTL

(* refcount is the number of references that closures have, through        *)
(* closing, joining, freed closures and full collections.                  *)
THEOREM UpvalsCounted == Spec => []Counted
<1>1. ASSUME IInv PROVE Counted
  <2>1. TypeOK /\ FreedEmpty /\ CountsRight
    BY <1>1 DEF IInv
  <2>2. ASSUME NEW u \in UpVal PROVE Uses(LClosure \cap Objects)[u] = Uses(LClosure)[u]
    <3>1. \A c \in LClosure : DOMAIN upvals[c] # {} => c \in Objects
      BY <2>1 DEF FreedEmpty
    <3>2. \A p : p \in PlacesIn(upvals, LClosure \cap Objects, u) <=> p \in PlacesIn(upvals, LClosure, u)
      BY <3>1, PlaceIn
    <3>3. PlacesIn(upvals, LClosure \cap Objects, u) = PlacesIn(upvals, LClosure, u)
      BY <3>2
    <3> QED BY <3>3, UsesPlaces
  <2> QED BY <2>1, <2>2 DEF Counted, CountsRight
<1> QED BY <1>1, UpvalInv, PTL

(* A thread that may still run is in twups while it has open upvalues, and *)
(* its list of them is sorted (luaF_findupval, remarkupvals,               *)
(* traversethread).                                                        *)
THEOREM ThreadsInTwups == Spec => []InTwups
<1>1. ASSUME IInv PROVE InTwups
  <2>1. OpenRight /\ TwupsRight
    BY <1>1 DEF IInv
  <2>2. Reach \subseteq Alive /\ Alive \subseteq Objects
    BY <1>1, ReachAlive DEF Alive
  <2> QED BY <2>1, <2>2 DEF InTwups, OpenRight, TwupsRight
<1> QED BY <1>1, UpvalInv, PTL

-----------------------------------------------------------------------------
(* The refinement: variables are cells                                     *)

(* A store as references R, where A says what each one refers to and H     *)
(* what that holds.                                                        *)
CellOf(R, A, H, r) == [refs |-> {q \in R : A[q] = A[r]}, holds |-> H[r]]
CellsOf(R, A, H) == {CellOf(R, A, H, r) : r \in R}
Classes(A, B) == {{q \in B : A[q] = A[p]} : p \in B}

LEMMA StoreFacts ==
    ASSUME NEW R, NEW A, NEW H, NEW B, B \subseteq R
    PROVE  /\ Variable!References(CellsOf(R, A, H)) = R
           /\ Variable!Shared(CellsOf(R, A, H), B) = Classes(A, B)
<1> DEFINE S == CellsOf(R, A, H)
           c(r) == CellOf(R, A, H, r)
<1>1. \A x : x \in S <=> \E r \in R : x = c(r)
  BY DEF CellsOf
<1>2. \A r : c(r).refs = {q \in R : A[q] = A[r]}
  BY DEF CellOf
<1> HIDE DEF S, c
<1>3. Variable!References(S) = R
  <2>1. ASSUME NEW q \in R PROVE q \in UNION {x.refs : x \in S}
    <3>1. c(q) \in S /\ q \in c(q).refs
      BY <1>1, <1>2, <2>1
    <3> QED BY <3>1
  <2>2. ASSUME NEW q \in UNION {x.refs : x \in S} PROVE q \in R
    BY <1>1, <1>2, <2>2
  <2> QED BY <2>1, <2>2 DEF Variable!References
<1>4. ASSUME NEW r \in R, NEW p \in c(r).refs \cap B
      PROVE  c(r).refs \cap B = {q \in B : A[q] = A[p]}
  BY <1>2, <1>4
<1>5. \A Y : Y \in Variable!Shared(S, B) <=> Y # {} /\ \E r \in R : Y = c(r).refs \cap B
  BY <1>1 DEF Variable!Shared
<1>6. ASSUME NEW Y \in Variable!Shared(S, B) PROVE Y \in Classes(A, B)
  <2>1. PICK r \in R : Y = c(r).refs \cap B /\ Y # {}
    BY <1>5, <1>6
  <2>2. PICK p \in B : p \in c(r).refs
    BY <2>1
  <2>3. Y = {q \in B : A[q] = A[p]}
    BY <1>4, <2>1, <2>2
  <2> QED BY <2>2, <2>3 DEF Classes
<1>7. ASSUME NEW Y \in Classes(A, B) PROVE Y \in Variable!Shared(S, B)
  <2>1. PICK p \in B : Y = {q \in B : A[q] = A[p]}
    BY <1>7 DEF Classes
  <2>2. p \in R /\ p \in c(p).refs /\ p \in Y
    BY <1>2, <2>1
  <2>3. Y = c(p).refs \cap B
    BY <1>4, <2>1, <2>2
  <2> QED BY <1>5, <2>2, <2>3
<1>8. Variable!Shared(S, B) = Classes(A, B)
  BY <1>6, <1>7
<1> QED BY <1>3, <1>8 DEF S

SameClasses(A, A2, B) == \A p, q \in B : A[p] = A[q] <=> A2[p] = A2[q]

LEMMA ClassesSame ==
    ASSUME NEW A, NEW A2, NEW B, SameClasses(A, A2, B)
    PROVE  Classes(A, B) = Classes(A2, B)
<1>1. \A p \in B : {q \in B : A[q] = A[p]} = {q \in B : A2[q] = A2[p]}
  BY DEF SameClasses
<1> QED BY <1>1 DEF Classes

(* The cell of p in the second store holds what some reference of B to it  *)
(* saw in the first.                                                       *)
Saw(H, A2, H2, B, p) == \E q \in B : A2[q] = A2[p] /\ H[q] = H2[p]

LEMMA SawKeeps ==
    ASSUME NEW R, NEW A, NEW H, NEW R2, NEW A2, NEW H2, NEW B, B \subseteq R, B \subseteq R2,
           NEW p \in R2, Saw(H, A2, H2, B, p)
    PROVE  Variable!Keeps(CellsOf(R, A, H), B, CellOf(R2, A2, H2, p))
<1>1. PICK q \in B : A2[q] = A2[p] /\ H[q] = H2[p]
  BY DEF Saw
<1>2. PICK d : d = CellOf(R, A, H, q)
  OBVIOUS
<1>3. d \in CellsOf(R, A, H) /\ q \in d.refs /\ d.holds = H[q]
  BY <1>1, <1>2 DEF CellsOf, CellOf
<1>4. PICK c : c = CellOf(R2, A2, H2, p)
  OBVIOUS
<1>5. q \in c.refs /\ c.holds = H2[p]
  BY <1>1, <1>4 DEF CellOf
<1>6. d.refs \cap c.refs \cap B # {} /\ d.holds = c.holds
  BY <1>1, <1>3, <1>5
<1> QED BY <1>3, <1>4, <1>6 DEF Variable!Keeps

(* All references share as before, and what x refers to is assigned to.    *)
LEMMA AssignStep ==
    ASSUME NEW R, NEW A, NEW H, NEW R2, NEW A2, NEW H2, NEW x,
           SameClasses(A, A2, R \cap R2),
           \A p, q \in R2 : A2[p] = A2[q] => H2[p] = H2[q],
           \A p \in R2 : A2[p] = x \/ Saw(H, A2, H2, R \cap R2, p)
    PROVE  Variable!Step(CellsOf(R, A, H), CellsOf(R2, A2, H2))
<1>1. PICK s : s = CellsOf(R, A, H)
  OBVIOUS
<1>2. PICK t : t = CellsOf(R2, A2, H2)
  OBVIOUS
<1>3. PICK B : B = R \cap R2 /\ B \subseteq R /\ B \subseteq R2
  OBVIOUS
<1>4. /\ Variable!References(s) = R /\ Variable!References(t) = R2
      /\ Variable!Shared(s, B) = Classes(A, B) /\ Variable!Shared(t, B) = Classes(A2, B)
  BY <1>1, <1>2, <1>3, StoreFacts
<1>5. Classes(A, B) = Classes(A2, B)
  BY <1>3, ClassesSame
<1>6. ASSUME NEW c \in t, NEW d \in t, ~Variable!Keeps(s, B, c), ~Variable!Keeps(s, B, d)
      PROVE  c = d
  <2>1. PICK p \in R2 : c = CellOf(R2, A2, H2, p)
    BY <1>2 DEF CellsOf
  <2>2. PICK q \in R2 : d = CellOf(R2, A2, H2, q)
    BY <1>2 DEF CellsOf
  <2>3. ~Saw(H, A2, H2, B, p) /\ ~Saw(H, A2, H2, B, q)
    BY <1>1, <1>3, <1>6, <2>1, <2>2, SawKeeps
  <2>4. A2[p] = A2[q] /\ H2[p] = H2[q]
    BY <1>3, <2>3
  <2> QED BY <2>1, <2>2, <2>4 DEF CellOf
<1>7. Variable!Step(s, t)
  BY <1>3, <1>4, <1>5, <1>6 DEF Variable!Step
<1> QED BY <1>1, <1>2, <1>7

(* The reference r moves to a cell that another one refers to.             *)
LEMMA MoveStep ==
    ASSUME NEW R, NEW A, NEW H, NEW A2, NEW H2, NEW r \in R,
           SameClasses(A, A2, R \ {r}),
           \A p \in R : Saw(H, A2, H2, R \ {r}, p)
    PROVE  Variable!Step(CellsOf(R, A, H), CellsOf(R, A2, H2))
<1>1. PICK s : s = CellsOf(R, A, H)
  OBVIOUS
<1>2. PICK t : t = CellsOf(R, A2, H2)
  OBVIOUS
<1>3. PICK B : B = R \ {r} /\ B \subseteq R
  OBVIOUS
<1>4. /\ Variable!References(s) = R /\ Variable!References(t) = R
      /\ Variable!Shared(s, B) = Classes(A, B) /\ Variable!Shared(t, B) = Classes(A2, B)
  BY <1>1, <1>2, <1>3, StoreFacts
<1>5. Classes(A, B) = Classes(A2, B)
  BY <1>3, ClassesSame
<1>6. ASSUME NEW c \in t PROVE Variable!Keeps(s, B, c)
  <2>1. PICK p \in R : c = CellOf(R, A2, H2, p)
    BY <1>2 DEF CellsOf
  <2>2. Saw(H, A2, H2, B, p)
    BY <1>3
  <2> QED BY <1>1, <1>3, <2>1, <2>2, SawKeeps
<1>7. (R \cap R) \ {r} = B /\ r \in R \cap R
  BY <1>3
<1>8. Variable!Step(s, t)
  BY <1>4, <1>5, <1>6, <1>7 DEF Variable!Step
<1> QED BY <1>1, <1>2, <1>8

(* The references of the program, what they refer to and what that holds.  *)
SlotRefs == UNION {Slots(t) : t \in Thread}
CaptureRefs == UNION {{<<c, i>> : i \in {j \in DOMAIN upvals[c] : upvals[c][j] # None}} : c \in LClosure}
Refer == SlotRefs \cup CaptureRefs
AddressOf == [r \in Refer |-> IF r \in SlotRefs THEN r ELSE Address(upvals[r[1]][r[2]])]
Content(a) == IF a \in UpVal THEN value[a] ELSE stack[a[1]][a[2]]
Contents == [r \in Refer |-> Content(AddressOf[r])]

LEMMA ReferFacts ==
    /\ \A r : r \in SlotRefs <=> \E t \in Thread : \E l \in DOMAIN stack[t] : r = <<t, l>>
    /\ \A r : r \in CaptureRefs <=>
           \E c \in LClosure : \E i \in DOMAIN upvals[c] : upvals[c][i] # None /\ r = <<c, i>>
    /\ \A r \in SlotRefs : r \notin CaptureRefs
<1>1. \A r : r \in SlotRefs <=> \E t \in Thread : \E l \in DOMAIN stack[t] : r = <<t, l>>
  BY DEF SlotRefs, Slots
<1>2. \A r : r \in CaptureRefs <=>
         \E c \in LClosure : \E i \in DOMAIN upvals[c] : upvals[c][i] # None /\ r = <<c, i>>
  BY DEF CaptureRefs
<1>3. ASSUME NEW r \in SlotRefs, r \in CaptureRefs PROVE FALSE
  <2>1. PICK t \in Thread : \E l \in DOMAIN stack[t] : r = <<t, l>>
    BY <1>1, <1>3
  <2>2. PICK c \in LClosure : \E i \in DOMAIN upvals[c] : r = <<c, i>>
    BY <1>2, <1>3
  <2>3. t = c
    BY <2>1, <2>2
  <2> QED BY <2>3, UpvalAssumption
<1> QED BY <1>1, <1>2, <1>3

LEMMA CellsFacts == Cells = CellsOf(Refer, AddressOf, Contents)
<1> DEFINE refers == {<<r, r>> : r \in SlotRefs}
                       \cup {<<r, Address(upvals[r[1]][r[2]])>> : r \in CaptureRefs}
           c(a) == [refs |-> {p[1] : p \in {q \in refers : q[2] = a}},
                    holds |-> IF a \in UpVal THEN value[a] ELSE stack[a[1]][a[2]]]
<1>1. Cells = {c(a) : a \in {p[2] : p \in refers}}
  BY DEF Cells, SlotRefs, CaptureRefs
<1>2. \A p : p \in refers <=> \E r \in Refer : p = <<r, AddressOf[r]>>
  <2>1. \A r \in SlotRefs : r \in Refer /\ AddressOf[r] = r
    BY DEF AddressOf, Refer
  <2>2. \A r \in CaptureRefs : r \in Refer /\ AddressOf[r] = Address(upvals[r[1]][r[2]])
    BY ReferFacts DEF AddressOf, Refer
  <2>3. \A r \in Refer : r \in SlotRefs \/ r \in CaptureRefs
    BY DEF Refer
  <2> QED BY <2>1, <2>2, <2>3
<1>3. ASSUME NEW a
      PROVE  c(a) = [refs |-> {q \in Refer : AddressOf[q] = a}, holds |-> Content(a)]
  <2> HIDE DEF refers
  <2>1. \A x : x \in {p[1] : p \in {q \in refers : q[2] = a}} <=> \E p \in refers : p[2] = a /\ x = p[1]
    OBVIOUS
  <2>2. PICK X : X = {p[1] : p \in {q \in refers : q[2] = a}}
    OBVIOUS
  <2>3. \A r, b : <<r, b>>[1] = r /\ <<r, b>>[2] = b
    OBVIOUS
  <2>4. ASSUME NEW x \in X PROVE x \in Refer /\ AddressOf[x] = a
    <3>1. PICK p \in refers : p[2] = a /\ x = p[1]
      BY <2>1, <2>2, <2>4
    <3>2. PICK r \in Refer : p = <<r, AddressOf[r]>>
      BY <1>2, <3>1
    <3> QED BY <2>3, <3>1, <3>2
  <2>5. ASSUME NEW x \in Refer, AddressOf[x] = a PROVE x \in X
    <3>1. PICK p : p = <<x, AddressOf[x]>>
      OBVIOUS
    <3>2. p \in refers /\ p[2] = a /\ x = p[1]
      BY <1>2, <2>3, <2>5, <3>1
    <3> QED BY <2>1, <2>2, <3>2
  <2>6. X = {q \in Refer : AddressOf[q] = a}
    BY <2>4, <2>5
  <2> QED BY <2>2, <2>6 DEF Content
<1> HIDE DEF refers, c
<1>4. \A a : a \in {p[2] : p \in refers} <=> \E r \in Refer : a = AddressOf[r]
  <2>1. \A a : a \in {p[2] : p \in refers} <=> \E p \in refers : a = p[2]
    OBVIOUS
  <2>2. \A r : <<r, AddressOf[r]>>[2] = AddressOf[r]
    OBVIOUS
  <2>3. ASSUME NEW a \in {p[2] : p \in refers} PROVE \E r \in Refer : a = AddressOf[r]
    BY <1>2, <2>1, <2>2
  <2>4. ASSUME NEW r \in Refer PROVE AddressOf[r] \in {p[2] : p \in refers}
    BY <1>2, <2>1, <2>2
  <2> QED BY <2>3, <2>4
<1>5. ASSUME NEW x \in Cells PROVE x \in CellsOf(Refer, AddressOf, Contents)
  <2>1. PICK r \in Refer : x = c(AddressOf[r])
    BY <1>1, <1>4
  <2>2. Contents[r] = Content(AddressOf[r])
    BY DEF Contents
  <2>3. x = CellOf(Refer, AddressOf, Contents, r)
    BY <1>3, <2>1, <2>2 DEF CellOf
  <2> QED BY <2>3 DEF CellsOf
<1>6. ASSUME NEW x \in CellsOf(Refer, AddressOf, Contents) PROVE x \in Cells
  <2>1. PICK r \in Refer : x = CellOf(Refer, AddressOf, Contents, r)
    BY DEF CellsOf
  <2>2. Contents[r] = Content(AddressOf[r])
    BY DEF Contents
  <2>3. x = c(AddressOf[r])
    BY <1>3, <2>1, <2>2 DEF CellOf
  <2> QED BY <1>1, <1>4, <2>3
<1> QED BY <1>5, <1>6

LEMMA CellsNext == Cells' = CellsOf(Refer', AddressOf', Contents')
<1>1. (Cells = CellsOf(Refer, AddressOf, Contents))'
  BY CellsFacts, PTL
<1> QED BY <1>1 DEF CellsOf, CellOf

LEMMA ReferNext ==
    /\ \A r : r \in SlotRefs' <=> \E t \in Thread : \E l \in DOMAIN stack'[t] : r = <<t, l>>
    /\ \A r : r \in CaptureRefs' <=>
           \E c \in LClosure : \E i \in DOMAIN upvals'[c] : upvals'[c][i] # None /\ r = <<c, i>>
    /\ \A r \in SlotRefs' : r \notin CaptureRefs'
<1>1. (/\ \A r : r \in SlotRefs <=> \E t \in Thread : \E l \in DOMAIN stack[t] : r = <<t, l>>
       /\ \A r : r \in CaptureRefs <=>
              \E c \in LClosure : \E i \in DOMAIN upvals[c] : upvals[c][i] # None /\ r = <<c, i>>
       /\ \A r \in SlotRefs : r \notin CaptureRefs)'
  BY ReferFacts, PTL
<1> QED BY <1>1

(* What the invariant says of the references.                              *)
Located ==
    /\ \A r \in Refer : r \in SlotRefs \/ r \in CaptureRefs
    /\ \A r \in SlotRefs :
           r \in Refer /\ r[1] \in Thread /\ AddressOf[r] = r /\ Contents[r] = stack[r[1]][r[2]]
    /\ \A r \in CaptureRefs :
           /\ r \in Refer /\ r[1] \in LClosure
           /\ upvals[r[1]][r[2]] \in UpVal /\ refcount[upvals[r[1]][r[2]]] > 0
           /\ AddressOf[r] = Address(upvals[r[1]][r[2]]) /\ Contents[r] = At(upvals[r[1]][r[2]])
    /\ \A u, w \in UpVal : Address(u) = Address(w) => u = w
    /\ \A u \in UpVal : \A r \in SlotRefs : Address(u) = r <=> v[u] = r
    /\ \A p, q \in Refer : AddressOf[p] = AddressOf[q] => Contents[p] = Contents[q]

LEMMA LocatedFacts == IInv => Located
<1>1. SUFFICES ASSUME IInv PROVE Located
  OBVIOUS
<1>2. TypeOK /\ OpenRight /\ CountsRight
  BY <1>1 DEF IInv
<1>3. \A r \in Refer : r \in SlotRefs \/ r \in CaptureRefs
  BY DEF Refer
<1>4. ASSUME NEW u \in UpVal
      PROVE  /\ upisopen(u) => Address(u) = v[u] /\ v[u] \in Thread \X Nat /\ v[u] \notin UpVal
                               /\ Content(Address(u)) = At(u)
             /\ ~upisopen(u) => Address(u) = u /\ Content(Address(u)) = At(u)
  <2>1. ASSUME upisopen(u)
        PROVE  Address(u) = v[u] /\ v[u] \in Thread \X Nat /\ v[u] \notin UpVal /\ Content(Address(u)) = At(u)
    <3>1. Address(u) = v[u] /\ v[u] \in Thread \X Nat
      BY <1>2, <2>1, OpenAddress DEF Address, upisopen
    <3>2. v[u] \notin UpVal
      BY <3>1, UpvalAssumption
    <3> QED BY <2>1, <3>1, <3>2 DEF Content, At
  <2>2. ASSUME ~upisopen(u) PROVE Address(u) = u /\ Content(Address(u)) = At(u)
    BY <2>2 DEF Address, Content, At
  <2> QED BY <2>1, <2>2
<1>5. ASSUME NEW r \in SlotRefs
      PROVE  /\ r \in Refer /\ r[1] \in Thread /\ r \in Thread \X Nat /\ r \notin UpVal
             /\ AddressOf[r] = r /\ Contents[r] = stack[r[1]][r[2]]
  <2>1. PICK t \in Thread : \E l \in DOMAIN stack[t] : r = <<t, l>>
    BY <1>5, ReferFacts
  <2>2. stack[t] \in Seq(Value)
    BY <1>2 DEF TypeOK
  <2>3. r \in Thread \X Nat
    <3>1. PICK l \in DOMAIN stack[t] : r = <<t, l>>
      BY <2>1
    <3>2. l \in Nat
      BY <2>2
    <3> QED BY <3>1, <3>2
  <2>4. r \notin UpVal
    BY <2>3, UpvalAssumption
  <2>5. r \in Refer /\ AddressOf[r] = r
    BY <1>5 DEF Refer, AddressOf
  <2>6. Contents[r] = Content(r)
    BY <2>5 DEF Contents
  <2> QED BY <2>3, <2>4, <2>5, <2>6 DEF Content
<1>6. ASSUME NEW r \in CaptureRefs
      PROVE  /\ r \in Refer /\ r[1] \in LClosure
             /\ upvals[r[1]][r[2]] \in UpVal /\ refcount[upvals[r[1]][r[2]]] > 0
             /\ AddressOf[r] = Address(upvals[r[1]][r[2]]) /\ Contents[r] = At(upvals[r[1]][r[2]])
  <2>1. PICK c \in LClosure : \E i \in DOMAIN upvals[c] : upvals[c][i] # None /\ r = <<c, i>>
    BY <1>6, ReferFacts
  <2>2. PICK u : u = upvals[r[1]][r[2]]
    OBVIOUS
  <2>3. u \in UpVal /\ refcount[u] > 0 /\ r[1] = c
    <3>1. PICK i \in DOMAIN upvals[c] : upvals[c][i] # None /\ r = <<c, i>>
      BY <2>1
    <3> QED BY <1>2, <2>2, <3>1, CountedInUse
  <2>4. r \in Refer /\ AddressOf[r] = Address(u)
    BY <1>6, <2>2, ReferFacts DEF Refer, AddressOf
  <2>5. Contents[r] = Content(Address(u))
    BY <2>4 DEF Contents
  <2>6. Contents[r] = At(u)
    BY <1>4, <2>3, <2>5
  <2> QED BY <2>1, <2>2, <2>3, <2>4, <2>6
<1>7. ASSUME NEW u \in UpVal, NEW w \in UpVal, Address(u) = Address(w) PROVE u = w
  <2>1. CASE ~upisopen(u) \/ ~upisopen(w)
    BY <1>4, <1>7, <2>1
  <2>2. CASE upisopen(u) /\ upisopen(w)
    <3>1. v[u] = v[w]
      BY <1>4, <1>7, <2>2
    <3>2. PICK t : t = v[u][1]
      OBVIOUS
    <3>3. t \in Thread /\ v[w][1] = t
      BY <1>2, <2>2, <3>1, <3>2, OpenAddress
    <3>4. PICK i \in DOMAIN openupval[t] : openupval[t][i] = u
      BY <1>2, <2>2, <3>2, <3>3, ListedOpen
    <3>5. PICK j \in DOMAIN openupval[t] : openupval[t][j] = w
      BY <1>2, <2>2, <3>3, ListedOpen
    <3>6. Level(openupval[t][i]) = Level(openupval[t][j]) /\ Level(openupval[t][i]) \in Nat
      BY <1>2, <3>1, <3>3, <3>4, <3>5, ListedOpen DEF Level
    <3>7. ~(i < j) /\ ~(j < i)
      <4>1. i < j => Level(openupval[t][i]) > Level(openupval[t][j])
        BY <1>2, <3>3 DEF OpenRight
      <4>2. j < i => Level(openupval[t][j]) > Level(openupval[t][i])
        BY <1>2, <3>3 DEF OpenRight
      <4> QED BY <3>6, <4>1, <4>2
    <3>8. openupval[t] \in Seq(UpVal)
      BY <1>2, <3>3 DEF TypeOK
    <3>9. i = j
      BY <3>7, <3>8
    <3> QED BY <3>4, <3>5, <3>9
  <2> QED BY <2>1, <2>2
<1>8. ASSUME NEW u \in UpVal, NEW r \in SlotRefs PROVE Address(u) = r <=> v[u] = r
  <2>1. CASE upisopen(u)
    BY <1>4, <2>1
  <2>2. CASE ~upisopen(u)
    <3>1. v[u] # r
      BY <1>5, <2>2, UpvalAssumption DEF upisopen
    <3>2. Address(u) # r
      BY <1>4, <1>5, <2>2
    <3> QED BY <3>1, <3>2
  <2> QED BY <2>1, <2>2
<1>9. \A p, q \in Refer : AddressOf[p] = AddressOf[q] => Contents[p] = Contents[q]
  BY DEF Contents
<1> QED BY <1>3, <1>5, <1>6, <1>7, <1>8, <1>9 DEF Located

LEMMA LocatedNext == IInv' => Located'
  BY LocatedFacts, PTL

(* A step that captures nothing else and closes or opens no counted        *)
(* upvalue's slot, where all but what x refers to holds what it held.      *)
Common == Refer \cap Refer'
Steady(x) ==
    /\ \A r \in CaptureRefs \cap CaptureRefs' : upvals'[r[1]][r[2]] = upvals[r[1]][r[2]]
    /\ \A r \in SlotRefs \cap SlotRefs' : \A u \in UpVal :
           refcount[u] > 0 /\ refcount'[u] > 0 => (v[u] = r <=> v'[u] = r)
    /\ \A r \in SlotRefs' :
           r = x \/ (r \in SlotRefs /\ stack'[r[1]][r[2]] = stack[r[1]][r[2]])
    /\ \A r \in CaptureRefs' : AddressOf'[r] = x \/ Saw(Contents, AddressOf', Contents', Common, r)

LEMMA SteadyStep ==
    ASSUME IInv, IInv', NEW x, Steady(x)
    PROVE  Variable!Step(Cells, Cells')
<1>1. Located /\ Located'
  BY LocatedFacts, LocatedNext
<1>2. SameClasses(AddressOf, AddressOf', Common)
  <2>1. ASSUME NEW p \in Common
        PROVE  \/ p \in SlotRefs /\ p \in SlotRefs'
               \/ p \in CaptureRefs /\ p \in CaptureRefs'
    BY <1>1, UpvalAssumption DEF Common, Located
  <2>2. ASSUME NEW p \in SlotRefs \cap SlotRefs', NEW q \in CaptureRefs \cap CaptureRefs'
        PROVE  AddressOf[p] = AddressOf[q] <=> AddressOf'[p] = AddressOf'[q]
    <3>1. PICK u : u = upvals[q[1]][q[2]]
      OBVIOUS
    <3>2. u \in UpVal /\ refcount[u] > 0 /\ AddressOf[q] = Address(u) /\ AddressOf[p] = p
      BY <1>1, <2>2, <3>1 DEF Located
    <3>3. u = upvals'[q[1]][q[2]]
      BY <2>2, <3>1 DEF Steady
    <3>4. refcount'[u] > 0 /\ AddressOf'[q] = Address(u)' /\ AddressOf'[p] = p
      BY <1>1, <2>2, <3>3 DEF Located
    <3>5. (Address(u) = p <=> v[u] = p) /\ (Address(u)' = p <=> v'[u] = p)
      BY <1>1, <2>2, <3>2 DEF Located
    <3>6. v[u] = p <=> v'[u] = p
      BY <2>2, <3>2, <3>4 DEF Steady
    <3> QED BY <3>2, <3>4, <3>5, <3>6
  <2>3. ASSUME NEW p \in SlotRefs \cap SlotRefs', NEW q \in SlotRefs \cap SlotRefs'
        PROVE  AddressOf[p] = AddressOf[q] <=> AddressOf'[p] = AddressOf'[q]
    BY <1>1, <2>3 DEF Located
  <2>4. ASSUME NEW p \in CaptureRefs \cap CaptureRefs', NEW q \in CaptureRefs \cap CaptureRefs'
        PROVE  AddressOf[p] = AddressOf[q] <=> AddressOf'[p] = AddressOf'[q]
    <3>1. PICK u : u = upvals[p[1]][p[2]]
      OBVIOUS
    <3>2. PICK w : w = upvals[q[1]][q[2]]
      OBVIOUS
    <3>3. u \in UpVal /\ w \in UpVal /\ AddressOf[p] = Address(u) /\ AddressOf[q] = Address(w)
      BY <1>1, <2>4, <3>1, <3>2 DEF Located
    <3>4. u = upvals'[p[1]][p[2]] /\ w = upvals'[q[1]][q[2]]
      BY <2>4, <3>1, <3>2 DEF Steady
    <3>5. AddressOf'[p] = Address(u)' /\ AddressOf'[q] = Address(w)'
      BY <1>1, <2>4, <3>4 DEF Located
    <3>6. (Address(u) = Address(w) => u = w) /\ (Address(u)' = Address(w)' => u = w)
      BY <1>1, <3>3 DEF Located
    <3> QED BY <3>3, <3>5, <3>6
  <2>5. ASSUME NEW p \in Common, NEW q \in Common
        PROVE  AddressOf[p] = AddressOf[q] <=> AddressOf'[p] = AddressOf'[q]
    <3>1. \/ p \in SlotRefs \cap SlotRefs'
          \/ p \in CaptureRefs \cap CaptureRefs'
      BY <2>1, <2>5
    <3>2. \/ q \in SlotRefs \cap SlotRefs'
          \/ q \in CaptureRefs \cap CaptureRefs'
      BY <2>1, <2>5
    <3>3. CASE p \in SlotRefs \cap SlotRefs' /\ q \in SlotRefs \cap SlotRefs'
      BY <2>3, <3>3
    <3>4. CASE p \in SlotRefs \cap SlotRefs' /\ q \in CaptureRefs \cap CaptureRefs'
      BY <2>2, <3>4
    <3>5. CASE p \in CaptureRefs \cap CaptureRefs' /\ q \in SlotRefs \cap SlotRefs'
      BY <2>2, <3>5
    <3>6. CASE p \in CaptureRefs \cap CaptureRefs' /\ q \in CaptureRefs \cap CaptureRefs'
      BY <2>4, <3>6
    <3> QED BY <3>1, <3>2, <3>3, <3>4, <3>5, <3>6
  <2> QED BY <2>5 DEF SameClasses
<1>3. ASSUME NEW p \in Refer'
      PROVE  AddressOf'[p] = x \/ Saw(Contents, AddressOf', Contents', Common, p)
  <2>1. CASE p \in CaptureRefs'
    BY <2>1 DEF Steady
  <2>2. CASE p \in SlotRefs'
    <3>1. AddressOf'[p] = p /\ Contents'[p] = stack'[p[1]][p[2]] /\ p \in Refer'
      BY <1>1, <2>2 DEF Located
    <3>2. ASSUME p # x PROVE Saw(Contents, AddressOf', Contents', Common, p)
      <4>1. p \in SlotRefs /\ stack'[p[1]][p[2]] = stack[p[1]][p[2]]
        BY <2>2, <3>2 DEF Steady
      <4>2. p \in Refer /\ Contents[p] = stack[p[1]][p[2]]
        BY <1>1, <4>1 DEF Located
      <4> QED BY <3>1, <4>1, <4>2 DEF Saw, Common
    <3> QED BY <3>1, <3>2
  <2> QED BY <1>1, <1>3, <2>1, <2>2 DEF Located
<1>4. \A p, q \in Refer' : AddressOf'[p] = AddressOf'[q] => Contents'[p] = Contents'[q]
  BY <1>1 DEF Located
<1>5. PICK A2 : A2 = AddressOf'
  OBVIOUS
<1>6. PICK H2 : H2 = Contents'
  OBVIOUS
<1>7. PICK R2 : R2 = Refer'
  OBVIOUS
<1>8. /\ SameClasses(AddressOf, A2, Refer \cap R2)
      /\ \A p, q \in R2 : A2[p] = A2[q] => H2[p] = H2[q]
      /\ \A p \in R2 : A2[p] = x \/ Saw(Contents, A2, H2, Refer \cap R2, p)
  BY <1>2, <1>3, <1>4, <1>5, <1>6, <1>7 DEF Common
<1>9. Variable!Step(CellsOf(Refer, AddressOf, Contents), CellsOf(R2, A2, H2))
  BY <1>8, AssignStep
<1> QED BY <1>5, <1>6, <1>7, <1>9, CellsFacts, CellsNext

(* The common case: captures stay what they were or go.                    *)
Retains(x) ==
    /\ \A c \in LClosure : \A i \in DOMAIN upvals'[c] :
           upvals'[c][i] # None => i \in DOMAIN upvals[c] /\ upvals[c][i] = upvals'[c][i]
    /\ \A r \in SlotRefs \cap SlotRefs' : \A u \in UpVal :
           refcount[u] > 0 /\ refcount'[u] > 0 => (v[u] = r <=> v'[u] = r)
    /\ \A t \in Thread : \A i \in DOMAIN stack'[t] :
           <<t, i>> = x \/ (i \in DOMAIN stack[t] /\ stack'[t][i] = stack[t][i])
    /\ \A u \in UpVal :
           refcount[u] > 0 /\ refcount'[u] > 0 => At(u)' = At(u) \/ Address(u)' = x

LEMMA RetainsStep ==
    ASSUME IInv, IInv', NEW x, Retains(x)
    PROVE  Variable!Step(Cells, Cells')
<1>1. Located /\ Located'
  BY LocatedFacts, LocatedNext
<1>2. ASSUME NEW r \in CaptureRefs'
      PROVE  r \in CaptureRefs /\ upvals'[r[1]][r[2]] = upvals[r[1]][r[2]]
  <2>1. PICK c \in LClosure : \E i \in DOMAIN upvals'[c] : upvals'[c][i] # None /\ r = <<c, i>>
    BY <1>2, ReferNext
  <2>2. PICK i \in DOMAIN upvals'[c] : upvals'[c][i] # None /\ r = <<c, i>>
    BY <2>1
  <2>3. i \in DOMAIN upvals[c] /\ upvals[c][i] = upvals'[c][i]
    BY <2>2 DEF Retains
  <2> QED BY <2>2, <2>3, ReferFacts
<1>3. ASSUME NEW r \in SlotRefs'
      PROVE  r = x \/ (r \in SlotRefs /\ stack'[r[1]][r[2]] = stack[r[1]][r[2]])
  <2>1. PICK t \in Thread : \E i \in DOMAIN stack'[t] : r = <<t, i>>
    BY <1>3, ReferNext
  <2>2. PICK i \in DOMAIN stack'[t] : r = <<t, i>>
    BY <2>1
  <2>3. <<t, i>> = x \/ (i \in DOMAIN stack[t] /\ stack'[t][i] = stack[t][i])
    BY DEF Retains
  <2> QED BY <2>2, <2>3, ReferFacts
<1>4. ASSUME NEW r \in CaptureRefs'
      PROVE  AddressOf'[r] = x \/ Saw(Contents, AddressOf', Contents', Common, r)
  <2>1. PICK u : u = upvals[r[1]][r[2]]
    OBVIOUS
  <2>2. /\ u \in UpVal /\ refcount[u] > 0 /\ Contents[r] = At(u) /\ r \in Refer
    BY <1>1, <1>2, <1>4, <2>1 DEF Located
  <2>3. u = upvals'[r[1]][r[2]]
    BY <1>2, <1>4, <2>1
  <2>4. refcount'[u] > 0 /\ AddressOf'[r] = Address(u)' /\ Contents'[r] = At(u)' /\ r \in Refer'
    BY <1>1, <1>4, <2>3 DEF Located
  <2>5. At(u)' = At(u) \/ Address(u)' = x
    BY <2>2, <2>4 DEF Retains
  <2> QED BY <2>2, <2>4, <2>5 DEF Saw, Common
<1>5. Steady(x)
  BY <1>2, <1>3, <1>4 DEF Steady, Retains
<1> QED BY <1>5, SteadyStep

LEMMA OpenSlot ==
    IInv => \A u \in UpVal : upisopen(u) =>
        v[u][1] \in Thread /\ v[u][2] \in DOMAIN stack[v[u][1]] /\ v[u] = <<v[u][1], v[u][2]>>
  BY AtFacts, OpenAddress DEF IInv

LEMMA OpenSlotNext ==
    IInv' => \A u \in UpVal : upisopen(u)' =>
        v'[u][1] \in Thread /\ v'[u][2] \in DOMAIN stack'[v'[u][1]] /\ v'[u] = <<v'[u][1], v'[u][2]>>
<1>1. (IInv => \A u \in UpVal : upisopen(u) =>
           v[u][1] \in Thread /\ v[u][2] \in DOMAIN stack[v[u][1]] /\ v[u] = <<v[u][1], v[u][2]>>)'
  BY OpenSlot, PTL
<1> QED BY <1>1

(* A slot is pushed or assigned to.                                        *)
Elsewhere(a) ==
    \A t \in Thread : \A i \in DOMAIN stack'[t] :
        <<t, i>> = a \/ (i \in DOMAIN stack[t] /\ stack'[t][i] = stack[t][i])
Assigns(a) ==
    /\ Elsewhere(a) /\ UNCHANGED <<v, value>>
    /\ \A c \in LClosure : upvals'[c] = upvals[c] \/ \A i \in DOMAIN upvals'[c] : upvals'[c][i] = None

LEMMA AssignsStep ==
    ASSUME IInv, IInv', NEW a, Assigns(a)
    PROVE  Variable!Step(Cells, Cells')
<1>1. ASSUME NEW u \in UpVal PROVE At(u)' = At(u) \/ Address(u)' = a
  <2>1. v' = v /\ value' = value /\ upisopen(u)' = upisopen(u)
    BY DEF Assigns, upisopen
  <2>2. CASE ~upisopen(u)
    BY <2>1, <2>2 DEF At, upisopen
  <2>3. CASE upisopen(u)
    <3>1. PICK t \in Thread : t = v[u][1]
      BY <2>3, OpenSlot
    <3>2. PICK i : i = v[u][2]
      OBVIOUS
    <3>3. i \in DOMAIN stack'[t] /\ v[u] = <<t, i>>
      BY <2>1, <2>3, <3>1, <3>2, OpenSlot, OpenSlotNext
    <3>4. <<t, i>> = a \/ stack'[t][i] = stack[t][i]
      BY <3>3 DEF Assigns, Elsewhere
    <3>5. Address(u)' = v[u]
      BY <2>1, <2>3 DEF Address, upisopen
    <3>6. At(u)' = stack'[t][i] /\ At(u) = stack[t][i]
      BY <2>1, <2>3, <3>1, <3>2 DEF At, upisopen
    <3> QED BY <3>3, <3>4, <3>5, <3>6
  <2> QED BY <2>2, <2>3
<1>2. \A c \in LClosure : \A i \in DOMAIN upvals'[c] :
          upvals'[c][i] # None => i \in DOMAIN upvals[c] /\ upvals[c][i] = upvals'[c][i]
  BY DEF Assigns
<1>3. v' = v /\ Elsewhere(a)
  BY DEF Assigns
<1>4. Retains(a)
  BY <1>1, <1>2, <1>3 DEF Retains, Elsewhere
<1> QED BY <1>4, RetainsStep

LEMMA PutElsewhere ==
    ASSUME IInv, NEW t \in Thread, NEW k \in 1 .. Len(stack[t]) + 1, NEW x,
           stack' = [stack EXCEPT ![t] = Put(@, k, x)]
    PROVE  Elsewhere(<<t, k>>)
<1>1. stack \in [Thread -> Seq(Value)]
  BY DEF IInv, TypeOK
<1>2. PICK S : S = Value \cup {x}
  OBVIOUS
<1>3. stack[t] \in Seq(S) /\ x \in S
  BY <1>1, <1>2
<1>4. \A i \in DOMAIN Put(stack[t], k, x) : i # k => i \in DOMAIN stack[t]
  BY <1>3, PutFacts
<1>5. \A i \in DOMAIN stack[t] : i # k => Put(stack[t], k, x)[i] = stack[t][i]
  BY <1>3, PutFacts
<1>6. stack'[t] = Put(stack[t], k, x) /\ \A s \in Thread \ {t} : stack'[s] = stack[s]
  BY <1>1
<1>7. ASSUME NEW s \in Thread, NEW i \in DOMAIN stack'[s]
      PROVE  <<s, i>> = <<t, k>> \/ (i \in DOMAIN stack[s] /\ stack'[s][i] = stack[s][i])
  <2>1. CASE s # t
    BY <1>6, <1>7, <2>1
  <2>2. CASE s = t
    BY <1>4, <1>5, <1>6, <1>7, <2>2
  <2> QED BY <2>1, <2>2
<1> QED BY <1>7 DEF Elsewhere

LEMMA StoreElsewhere ==
    ASSUME IInv, NEW k \in Target, NEW x, Store(k, x)
    PROVE  \E a : Elsewhere(a)
<1>1. L \in Thread /\ stack[L] \in Seq(Value)
  BY RunningFacts
<1>2. k \in 1 .. Len(stack[L]) + 1
  <2>1. Len(stack[L]) \in Nat
    BY <1>1
  <2>2. bound \in [slots : [Thread -> Nat], closures : Nat, upvals : Nat, protos : SUBSET Proto]
    BY UpvalAssumption DEF IInv, TypeOK
  <2>3. MaxTop[L] \in Nat
    BY <1>1, <2>2 DEF MaxTop
  <2> QED BY <2>1, <2>3 DEF Target
<1>3. stack' = [stack EXCEPT ![L] = Put(@, k, x)]
  BY DEF Store
<1> QED BY <1>1, <1>2, <1>3, PutElsewhere

LEMMA CellsSame ==
    ASSUME UNCHANGED <<stack, upvals, v, value>>
    PROVE  Cells' = Cells
  BY DEF Cells, Slots, Address, upisopen

LEMMA StoreTyped ==
    IInv => /\ stack \in [Thread -> Seq(Value)] /\ upvals \in [LClosure -> Seq(UpVal \cup {None})]
            /\ v \in [UpVal -> {Own, Free} \cup (Thread \X Nat)] /\ value \in [UpVal -> Value]
            /\ refcount \in [UpVal -> Nat] /\ \A t \in Thread : Len(stack[t]) \in Nat
<1>1. SUFFICES ASSUME IInv PROVE TypeOK /\ \A t \in Thread : Len(stack[t]) \in Nat
  BY DEF TypeOK
<1>2. TypeOK
  BY <1>1 DEF IInv
<1>3. ASSUME NEW t \in Thread PROVE Len(stack[t]) \in Nat
  <2>1. stack[t] \in Seq(Value)
    BY <1>2 DEF TypeOK
  <2> QED BY <2>1
<1> QED BY <1>2, <1>3

(* Only slots change.                                                      *)
LEMMA SlotStep ==
    ASSUME IInv, IInv', \E a : Elsewhere(a), UNCHANGED <<upvals, v, value>>
    PROVE  Variable!Step(Cells, Cells')
<1>1. PICK a : Elsewhere(a)
  OBVIOUS
<1>2. Assigns(a)
  BY <1>1 DEF Assigns
<1> QED BY <1>2, AssignsStep

LEMMA MoveSteps == ASSUME IInv, IInv', Move PROVE Variable!Step(Cells, Cells')
<1>1. PICK k \in Target, x \in InSlots \cup {Nil} : Store(k, x)
  BY DEF Move
<1>2. UNCHANGED <<upvals, v, value>>
  BY DEF Move, closures, upv
<1> QED BY <1>1, <1>2, StoreElsewhere, SlotStep

LEMMA NewThreadSteps == ASSUME IInv, IInv', lua_newthread PROVE Variable!Step(Cells, Cells')
<1>1. PICK t \in Thread, k \in Target : New(t) /\ Store(k, t)
  BY DEF lua_newthread
<1>2. UNCHANGED <<upvals, v, value>>
  BY DEF lua_newthread, closures, upv
<1> QED BY <1>1, <1>2, StoreElsewhere, SlotStep

LEMMA GetUpvalSteps == ASSUME IInv, IInv', OP_GETUPVAL PROVE Variable!Step(Cells, Cells')
<1>1. PICK c \in LClosure \cap InSlots : \E u \in Upvals(c), k \in Target : Store(k, At(u))
  BY DEF OP_GETUPVAL
<1>2. PICK u \in Upvals(c), k \in Target : Store(k, At(u))
  BY <1>1
<1>3. PICK x : x = At(u)
  OBVIOUS
<1>4. UNCHANGED <<upvals, v, value>>
  BY DEF OP_GETUPVAL, closures, upv
<1>5. \E a : Elsewhere(a)
  BY <1>2, <1>3, StoreElsewhere
<1> QED BY <1>4, <1>5, SlotStep

LEMMA YieldSteps == ASSUME IInv, IInv', lua_yield PROVE Variable!Step(Cells, Cells')
<1>1. PICK from : from = chain[Len(chain) - 1]
  OBVIOUS
<1>2. PICK k \in 1 .. MaxTop[from], x \in InSlots \cup {Nil} :
          k <= Len(stack[from]) + 1 /\ stack' = [stack EXCEPT ![from] = Put(@, k, x)]
  BY <1>1 DEF lua_yield
<1>3. UNCHANGED <<upvals, v, value>> /\ Len(chain) > 1
  BY DEF lua_yield, closures, upv
<1>4. from \in Thread
  <2>1. Len(chain) \in Nat /\ Len(chain) - 1 \in DOMAIN chain
    BY <1>3, RunningFacts
  <2> QED BY <1>1, <2>1, RunningFacts DEF IInv, TypeOK
<1>5. k \in 1 .. Len(stack[from]) + 1
  <2>1. bound \in Bounds
    BY DEF IInv, TypeOK
  <2>2. Len(stack[from]) \in Nat
    BY <1>4, StoreTyped
  <2>3. bound \in [slots : [Thread -> Nat], closures : Nat, upvals : Nat, protos : SUBSET Proto]
    BY <2>1, UpvalAssumption
  <2>4. bound.slots \in [Thread -> Nat]
    BY <2>3
  <2>5. MaxTop[from] \in Nat
    BY <1>4, <2>4 DEF MaxTop
  <2> QED BY <1>2, <2>2, <2>5
<1>6. Elsewhere(<<from, k>>)
  BY <1>2, <1>4, <1>5, PutElsewhere
<1> QED BY <1>3, <1>6, SlotStep

LEMMA ResumeSteps == ASSUME IInv, IInv', lua_resume PROVE Variable!Step(Cells, Cells')
<1>1. PICK t \in (Thread \cap InSlots) \ ToSet(chain), x \in InSlots :
          stack' = [stack EXCEPT ![t] = Append(@, x)]
  BY DEF lua_resume
<1>2. UNCHANGED <<upvals, v, value>>
  BY DEF lua_resume, closures, upv
<1>3. stack \in [Thread -> Seq(Value)] /\ Len(stack[t]) \in Nat
  BY StoreTyped
<1>4. PICK k : k = Len(stack[t]) + 1
  OBVIOUS
<1>5. k \in 1 .. Len(stack[t]) + 1 /\ Put(stack[t], k, x) = Append(stack[t], x)
  BY <1>3, <1>4 DEF Put
<1>6. stack' = [stack EXCEPT ![t] = Put(@, k, x)]
  BY <1>1, <1>3, <1>5
<1>7. Elsewhere(<<t, k>>)
  BY <1>5, <1>6, PutElsewhere
<1> QED BY <1>2, <1>7, SlotStep

LEMMA SetUpvalSteps == ASSUME IInv, IInv', OP_SETUPVAL PROVE Variable!Step(Cells, Cells')
<1>1. PICK c \in LClosure \cap InSlots, x \in InSlots \cup {Nil} : \E u \in Upvals(c) :
        IF upisopen(u)
        THEN /\ stack' = [stack EXCEPT ![v[u][1]][v[u][2]] = x]
             /\ UNCHANGED <<value, colors>>
        ELSE /\ value' = [value EXCEPT ![u] = x]
             /\ UpvalBarrier({x})
             /\ UNCHANGED stack
  BY DEF OP_SETUPVAL
<1>2. PICK u \in Upvals(c) :
        IF upisopen(u)
        THEN /\ stack' = [stack EXCEPT ![v[u][1]][v[u][2]] = x]
             /\ UNCHANGED <<value, colors>>
        ELSE /\ value' = [value EXCEPT ![u] = x]
             /\ UpvalBarrier({x})
             /\ UNCHANGED stack
  BY <1>1
<1>3. UNCHANGED <<upvals, v, refcount>>
  BY DEF OP_SETUPVAL, closures
<1>4. u \in UpVal
  BY ClosureInSlots
<1>5. CASE upisopen(u)
  <2>1. stack' = [stack EXCEPT ![v[u][1]][v[u][2]] = x] /\ value' = value
    BY <1>2, <1>5
  <2>2. PICK t \in Thread : t = v[u][1]
    BY <1>4, <1>5, OpenSlot
  <2>3. PICK k : k = v[u][2]
    OBVIOUS
  <2>4. stack[t] \in Seq(Value) /\ k \in 1 .. Len(stack[t]) /\ Len(stack[t]) \in Nat
    <3>1. k \in DOMAIN stack[t]
      BY <1>4, <1>5, <2>2, <2>3, OpenSlot
    <3>2. stack[t] \in Seq(Value)
      BY StoreTyped
    <3> QED BY <3>1, <3>2
  <2>5. Put(stack[t], k, x) = [stack[t] EXCEPT ![k] = x] /\ k \in 1 .. Len(stack[t]) + 1
    <3>1. ~(k > Len(stack[t]))
      BY <2>4
    <3> QED BY <2>4, <3>1 DEF Put
  <2>6. stack' = [stack EXCEPT ![t] = Put(@, k, x)]
    BY <2>1, <2>2, <2>3, <2>5
  <2>7. Elsewhere(<<t, k>>)
    BY <2>5, <2>6, PutElsewhere
  <2> QED BY <1>3, <2>1, <2>7, SlotStep
<1>6. CASE ~upisopen(u)
  <2>1. value' = [value EXCEPT ![u] = x] /\ stack' = stack
    BY <1>2, <1>6
  <2>2. \A w \in UpVal : w # u => At(w)' = At(w)
    BY <1>3, <2>1, StoreTyped DEF At, upisopen
  <2>3. Address(u)' = u
    BY <1>3, <1>6 DEF Address, upisopen
  <2>4. Retains(u)
    BY <1>3, <2>1, <2>2, <2>3 DEF Retains
  <2> QED BY <2>4, RetainsStep
<1> QED BY <1>5, <1>6

LEMMA ClosureSteps == ASSUME IInv, IInv', OP_CLOSURE PROVE Variable!Step(Cells, Cells')
<1>1. PICK p \in bound.protos, enc \in {None} \cup (LClosure \cap InSlots), k \in Target :
       \E base \in 0 .. MaxTop[L] - 1 :
           \/ /\ Store(k, cache[p])
              /\ UNCHANGED <<closures, allgc>>
           \/ \E ncl \in LClosure :
                  /\ Store(k, ncl)
                  /\ upvals' = [upvals EXCEPT ![ncl] = [i \in DOMAIN upvalues[p] |-> None]]
  BY Zenon DEF OP_CLOSURE
<1>2. UNCHANGED <<v, value>>
  BY DEF OP_CLOSURE, upv
<1>3. CASE Store(k, cache[p]) /\ UNCHANGED <<closures, allgc>>
  <2>1. PICK x : x = cache[p]
    OBVIOUS
  <2>2. \E a : Elsewhere(a)
    BY <1>3, <2>1, StoreElsewhere
  <2> QED BY <1>2, <1>3, <2>2, SlotStep DEF closures
<1>4. ASSUME NEW ncl \in LClosure, Store(k, ncl),
             upvals' = [upvals EXCEPT ![ncl] = [i \in DOMAIN upvalues[p] |-> None]]
      PROVE  Variable!Step(Cells, Cells')
  <2>1. PICK a : Elsewhere(a)
    BY <1>4, StoreElsewhere
  <2>2. upvals'[ncl] = [i \in DOMAIN upvalues[p] |-> None]
    BY <1>4, StoreTyped
  <2>3. \A c \in LClosure : upvals'[c] = upvals[c] \/ \A i \in DOMAIN upvals'[c] : upvals'[c][i] = None
    <3>1. \A c \in LClosure \ {ncl} : upvals'[c] = upvals[c]
      BY <1>4, StoreTyped
    <3>2. \A i \in DOMAIN upvals'[ncl] : upvals'[ncl][i] = None
      BY <2>2
    <3> QED BY <3>1, <3>2
  <2>4. Assigns(a)
    BY <1>2, <2>1, <2>3 DEF Assigns
  <2> QED BY <2>4, AssignsStep
<1> QED BY <1>1, <1>3, <1>4

(* The slots of t from l on go, and all other slots stay.                  *)
Drops(t, l) ==
    \A s \in Thread : \A i \in DOMAIN stack'[s] :
        i \in DOMAIN stack[s] /\ stack'[s][i] = stack[s][i] /\ (s = t => i < l)

LEMMA LeavesSteps ==
    ASSUME IInv, IInv', NEW t, NEW l, Leaves(t, l), Drops(t, l), UNCHANGED <<upvals, refcount>>
    PROVE  Variable!Step(Cells, Cells')
<1>0. TypeOK /\ OpenRight /\ t \in Thread /\ l \in Nat /\ luaF_close(t, l)
  BY DEF IInv, Leaves
<1>1. ASSUME NEW u \in UpVal, refcount[u] > 0, NEW r \in SlotRefs' PROVE v[u] = r <=> v'[u] = r
  <2>1. PICK s \in Thread : \E i \in DOMAIN stack'[s] : r = <<s, i>>
    BY ReferNext
  <2>2. PICK i \in DOMAIN stack'[s] : r = <<s, i>>
    BY <2>1
  <2>3. i \in DOMAIN stack[s] /\ (s = t => i < l) /\ i \in Nat
    <3>1. i \in DOMAIN stack[s] /\ (s = t => i < l) /\ stack[s] \in Seq(Value)
      BY <2>2, StoreTyped DEF Drops
    <3> QED BY <3>1
  <2>4. CASE u \in Above(t, l)
    <3>1. v'[u] = Own /\ v[u][1] = t /\ v[u][2] >= l
      BY <1>0, <1>1, <2>4, CloseFacts DEF Above
    <3>2. r \notin {Own, Free}
      BY <2>2, <2>3, AddressOpen
    <3>3. ~(s = t /\ i >= l)
      BY <1>0, <2>3
    <3>4. v[u] # r
      BY <2>2, <3>1, <3>3
    <3> QED BY <3>1, <3>2, <3>4
  <2>5. CASE u \notin Above(t, l)
    BY <1>0, <2>5, CloseFacts
  <2> QED BY <2>4, <2>5
<1>2. \A u \in UpVal : refcount[u] > 0 => At(u)' = At(u)
  BY <1>0, CloseAt
<1>3. PICK x : x = Nil
  OBVIOUS
<1>4. Retains(x)
  BY <1>1, <1>2 DEF Retains, Drops
<1> QED BY <1>4, RetainsStep

LEMMA CutSteps ==
    ASSUME IInv, IInv', NEW l, Cut(l), UNCHANGED <<upvals, refcount>>
    PROVE  Variable!Step(Cells, Cells')
<1>1. L \in Thread /\ stack[L] \in Seq(Value) /\ stack \in [Thread -> Seq(Value)]
  BY RunningFacts DEF IInv, TypeOK
<1>2. DOMAIN stack[L] = 1 .. Len(stack[L]) /\ Len(stack[L]) \in Nat /\ l \in 1 .. Len(stack[L])
  BY <1>1 DEF Cut
<1>3. l - 1 \in 0 .. Len(stack[L]) /\ l \in Nat
  BY <1>2
<1>4. PICK s : s = SubSeq(stack[L], 1, l - 1)
  OBVIOUS
<1>5. s \in Seq(Value) /\ Len(s) = l - 1 /\ \A p \in 1 .. l - 1 : s[p] = stack[L][p]
  BY <1>1, <1>3, <1>4, PrefixFacts
<1>6. \A i \in DOMAIN s : i \in DOMAIN stack[L] /\ s[i] = stack[L][i] /\ i < l
  BY <1>2, <1>3, <1>5
<1>7. stack'[L] = s /\ \A t \in Thread \ {L} : stack'[t] = stack[t]
  BY <1>1, <1>4 DEF Cut
<1>8. PICK t : t = L
  OBVIOUS
<1>9. Drops(t, l)
  BY <1>6, <1>7, <1>8 DEF Drops
<1>10. Leaves(t, l)
  BY <1>8, CutLeaves
<1> QED BY <1>9, <1>10, LeavesSteps

LEMMA LeaveSteps == ASSUME IInv, IInv', Leave PROVE Variable!Step(Cells, Cells')
<1>1. PICK l \in DOMAIN stack[L] :
        /\ luaF_close(L, l)
        /\ UpvalBarrier({At(u) : u \in Kept(L, l)})
        /\ stack' = [stack EXCEPT ![L] = SubSeq(@, 1, l - 1)]
  BY DEF Leave
<1>2. Cut(l)
  BY <1>1 DEF Cut
<1>3. UNCHANGED <<upvals, refcount>>
  BY DEF Leave, closures
<1> QED BY <1>2, <1>3, CutSteps

LEMMA MemoryErrorSteps == ASSUME IInv, IInv', MemoryError PROVE Variable!Step(Cells, Cells')
<1>1. PICK l \in 1 .. making.ra :
        /\ luaF_close(L, l)
        /\ UpvalBarrier({At(u) : u \in Kept(L, l)})
        /\ stack' = [stack EXCEPT ![L] = SubSeq(@, 1, l - 1)]
  BY DEF MemoryError
<1>2. Working /\ UNCHANGED <<upvals, refcount>>
  BY DEF MemoryError
<1>3. l \in DOMAIN stack[L]
  <2>1. making.ra \in DOMAIN stack[L] /\ stack[L] \in Seq(Value)
    BY <1>2, RunningFacts DEF IInv, MakingRight
  <2>2. DOMAIN stack[L] = 1 .. Len(stack[L]) /\ Len(stack[L]) \in Nat
    BY <2>1
  <2> QED BY <2>1, <2>2
<1>4. Cut(l)
  BY <1>1, <1>3 DEF Cut
<1> QED BY <1>2, <1>4, CutSteps

LEMMA FreeThreadSteps ==
    ASSUME IInv, IInv', NEW o \in Thread, FreeThread(o)
    PROVE  Variable!Step(Cells, Cells')
<1>1. stack'[o] = <<>> /\ (\A t \in Thread \ {o} : stack'[t] = stack[t]) /\ UNCHANGED <<upvals, refcount>>
  BY StoreTyped DEF FreeThread
<1>2. Drops(o, 0)
  BY <1>1 DEF Drops
<1>3. Leaves(o, 0)
  <2>1. ASSUME NEW s \in Thread, NEW i \in DOMAIN stack[s], s # o \/ i < 0
        PROVE  i \in DOMAIN stack'[s] /\ stack'[s][i] = stack[s][i]
    <3>1. stack[s] \in Seq(Value)
      BY StoreTyped
    <3>2. i \in Nat
      BY <3>1
    <3>3. s # o
      BY <2>1, <3>2
    <3> QED BY <1>1, <3>3
  <2> QED BY <2>1 DEF Leaves, FreeThread
<1> QED BY <1>1, <1>2, <1>3, LeavesSteps

LEMMA FreeLclosureSteps ==
    ASSUME IInv, IInv', NEW o \in LClosure, FreeLclosure(o)
    PROVE  Variable!Step(Cells, Cells')
<1>1. ASSUME NEW u \in UpVal, refcount'[u] > 0 PROVE v'[u] = v[u] /\ value'[u] = value[u]
  <2> DEFINE freed == {w \in UpVal : v[w] = Own /\ refcount[w] > 0 /\ refcount[w] = Uses({o})[w]}
  <2>1. v'[u] # Free
    <3>1. (v[u] = Free => refcount[u] = 0)'
      BY DEF IInv, CountsRight
    <3> QED BY <1>1, <3>1
  <2>2. /\ v' = [w \in UpVal |-> IF w \in freed THEN Free ELSE v[w]]
        /\ value' = [w \in UpVal |-> IF w \in freed THEN Nil ELSE value[w]]
    BY DEF FreeLclosure, luaC_upvdeccount
  <2> HIDE DEF freed
  <2> QED BY <2>1, <2>2
<1>2. stack' = stack /\ upvals'[o] = <<>> /\ \A c \in LClosure \ {o} : upvals'[c] = upvals[c]
  BY StoreTyped DEF FreeLclosure
<1>3. \A u \in UpVal : refcount'[u] > 0 => At(u)' = At(u)
  BY <1>1, <1>2 DEF At, upisopen
<1>4. \A c \in LClosure : \A i \in DOMAIN upvals'[c] : i \in DOMAIN upvals[c] /\ upvals[c][i] = upvals'[c][i]
  BY <1>2
<1>5. PICK x : x = Nil
  OBVIOUS
<1>6. Retains(x)
  BY <1>1, <1>2, <1>3, <1>4 DEF Retains
<1> QED BY <1>6, RetainsStep

LEMMA SweepSteps == ASSUME IInv, IInv', Sweep PROVE Variable!Step(Cells, Cells')
<1>1. PICK k \in DOMAIN allgc :
        LET o == allgc[k] IN
           \/ o \in Thread /\ FreeThread(o)
           \/ o \in LClosure /\ FreeLclosure(o)
  BY DEF Sweep
<1>2. PICK o : o = allgc[k]
  OBVIOUS
<1>3. (o \in Thread /\ FreeThread(o)) \/ (o \in LClosure /\ FreeLclosure(o))
  BY <1>1, <1>2
<1> QED BY <1>3, FreeThreadSteps, FreeLclosureSteps

LEMMA FullCycleSteps == ASSUME IInv, IInv', FullCycle PROVE Variable!Step(Cells, Cells')
<1>1. PICK live : live = Finish({mainthread}, {}).live
  OBVIOUS
<1>2. PICK count : count = Uses(live \cap LClosure)
  OBVIOUS
<1>3. PICK closed : closed = {u \in UpVal : v[u] = Own \/ (upisopen(u) /\ v[u][1] \notin live)}
  OBVIOUS
<1>4. /\ refcount' = [u \in UpVal |-> IF v[u] = Free THEN 0 ELSE count[u]]
      /\ v' = [u \in UpVal |-> IF u \notin closed THEN v[u] ELSE IF count[u] = 0 THEN Free ELSE Own]
      /\ value' = [u \in UpVal |-> IF u \in closed /\ count[u] > 0 THEN At(u) ELSE Nil]
      /\ stack' = [t \in Thread |-> IF t \in live THEN stack[t] ELSE <<>>]
      /\ upvals' = [c \in LClosure |-> IF c \in live THEN upvals[c] ELSE <<>>]
  BY <1>1, <1>2, <1>3 DEF FullCycle
<1>5. ASSUME NEW u \in UpVal, refcount[u] > 0, refcount'[u] > 0
      PROVE  /\ u \notin closed => v'[u] = v[u] /\ upisopen(u) /\ v[u][1] \in live
             /\ u \in closed => v'[u] = Own /\ value'[u] = At(u)
  <2>1. v[u] # Free
    <3>1. v[u] = Free => refcount[u] = 0
      BY DEF IInv, CountsRight
    <3> QED BY <1>5, <3>1
  <2>2. count[u] > 0
    BY <1>4, <1>5, <2>1
  <2>3. CASE u \in closed
    BY <1>4, <2>2, <2>3
  <2>4. CASE u \notin closed
    BY <1>3, <1>4, <2>1, <2>4 DEF upisopen
  <2> QED BY <2>3, <2>4
<1>6. ASSUME NEW u \in UpVal, refcount[u] > 0, refcount'[u] > 0 PROVE At(u)' = At(u)
  <2>1. CASE u \in closed
    BY <1>5, <1>6, <2>1 DEF At, upisopen
  <2>2. CASE u \notin closed
    <3>1. v'[u] = v[u] /\ upisopen(u) /\ v[u][1] \in live /\ v[u][1] \in Thread
      BY <1>5, <1>6, <2>2, OpenSlot
    <3>2. stack'[v[u][1]] = stack[v[u][1]]
      BY <1>4, <3>1
    <3> QED BY <3>1, <3>2 DEF At, upisopen
  <2> QED BY <2>1, <2>2
<1>7. ASSUME NEW r \in SlotRefs', NEW u \in UpVal, refcount[u] > 0, refcount'[u] > 0
      PROVE  v[u] = r <=> v'[u] = r
  <2>1. PICK t \in Thread : \E i \in DOMAIN stack'[t] : r = <<t, i>>
    BY ReferNext
  <2>2. PICK i \in DOMAIN stack'[t] : r = <<t, i>>
    BY <2>1
  <2>3. t \in live /\ i \in DOMAIN stack[t]
    BY <1>4, <2>2
  <2>4. i \in Nat
    <3>1. stack[t] \in Seq(Value)
      BY StoreTyped
    <3> QED BY <2>3, <3>1
  <2>5. r \notin {Own, Free} /\ r[1] = t
    BY <2>2, <2>4, AddressOpen
  <2>6. CASE u \in closed
    <3>1. v'[u] # r
      BY <1>5, <1>7, <2>5, <2>6
    <3>2. v[u] # r
      BY <1>3, <2>3, <2>5, <2>6
    <3> QED BY <3>1, <3>2
  <2>7. CASE u \notin closed
    BY <1>5, <1>7, <2>7
  <2> QED BY <2>6, <2>7
<1>8. \A t \in Thread : \A i \in DOMAIN stack'[t] : i \in DOMAIN stack[t] /\ stack'[t][i] = stack[t][i]
  BY <1>4
<1>9. \A c \in LClosure : \A i \in DOMAIN upvals'[c] : i \in DOMAIN upvals[c] /\ upvals[c][i] = upvals'[c][i]
  BY <1>4
<1>10. PICK x : x = Nil
  OBVIOUS
<1>11. Retains(x)
  BY <1>6, <1>7, <1>8, <1>9 DEF Retains
<1> QED BY <1>11, RetainsStep

(* The new capture refers to the cell of s.                                *)
LEMMA FillsSteps ==
    ASSUME IInv, IInv', Working, Unfilled # {}, NEW u, Fills(u), NEW s,
           \E r \in CaptureRefs' : upvals'[r[1]][r[2]] = u /\ AddressOf'[s] = AddressOf'[r]
                                     /\ Contents[s] = Contents'[r],
           s \in Common
    PROVE  Variable!Step(Cells, Cells')
<1>1. Located /\ Located'
  BY LocatedFacts, LocatedNext
<1>2. PICK d \in LClosure : d = making.cl
  BY MakingFacts
<1>3. PICK k : k = Next_i
  OBVIOUS
<1>4. u \in UpVal /\ Fill(u) /\ (\A w \in UpVal : v[w] # Free => v'[w] = v[w])
  BY DEF Fills
<1>5. k \in DOMAIN upvals[d] /\ upvals[d][k] = None
  BY <1>2, <1>3, NextFacts
<1>6. /\ upvals'[d][k] = u /\ \A c \in LClosure : DOMAIN upvals'[c] = DOMAIN upvals[c]
      /\ \A c \in LClosure : \A i \in DOMAIN upvals[c] : c # d \/ i # k => upvals'[c][i] = upvals[c][i]
  BY <1>2, <1>3, <1>4, FillCounts
<1>7. stack' = stack /\ value' = value
  BY <1>4 DEF Fill, program
<1>8. ASSUME NEW r \in CaptureRefs'
      PROVE  \/ upvals'[r[1]][r[2]] = u
             \/ r \in CaptureRefs /\ upvals'[r[1]][r[2]] = upvals[r[1]][r[2]]
  <2>1. PICK c \in LClosure : \E i \in DOMAIN upvals'[c] : upvals'[c][i] # None /\ r = <<c, i>>
    BY <1>8, ReferNext
  <2>2. PICK i \in DOMAIN upvals'[c] : upvals'[c][i] # None /\ r = <<c, i>>
    BY <2>1
  <2>3. CASE c = d /\ i = k
    BY <1>6, <2>2, <2>3
  <2>4. CASE ~(c = d /\ i = k)
    <3>1. i \in DOMAIN upvals[c] /\ upvals'[c][i] = upvals[c][i]
      BY <1>6, <2>2, <2>4
    <3> QED BY <2>2, <3>1, ReferFacts
  <2> QED BY <2>3, <2>4
<1>9. ASSUME NEW r \in CaptureRefs PROVE upvals'[r[1]][r[2]] = upvals[r[1]][r[2]]
  <2>1. PICK c \in LClosure : \E i \in DOMAIN upvals[c] : upvals[c][i] # None /\ r = <<c, i>>
    BY <1>9, ReferFacts
  <2>2. PICK i \in DOMAIN upvals[c] : upvals[c][i] # None /\ r = <<c, i>>
    BY <2>1
  <2>3. ~(c = d /\ i = k)
    BY <1>5, <2>2
  <2> QED BY <1>6, <2>2, <2>3
<1>10. ASSUME NEW w \in UpVal, refcount[w] > 0 PROVE v'[w] = v[w] /\ At(w)' = At(w)
  <2>1. v[w] # Free
    <3>1. v[w] = Free => refcount[w] = 0
      BY DEF IInv, CountsRight
    <3> QED BY <1>10, <3>1
  <2>2. v'[w] = v[w]
    BY <1>4, <2>1
  <2> QED BY <1>7, <2>2 DEF At, upisopen
<1>11. PICK r0 \in CaptureRefs' : upvals'[r0[1]][r0[2]] = u /\ AddressOf'[s] = AddressOf'[r0]
                                   /\ Contents[s] = Contents'[r0]
  OBVIOUS
<1>12. ASSUME NEW r \in CaptureRefs' PROVE Saw(Contents, AddressOf', Contents', Common, r)
  <2>1. CASE upvals'[r[1]][r[2]] = u
    <3>1. AddressOf'[r] = AddressOf'[r0] /\ Contents'[r] = Contents'[r0]
      BY <1>1, <1>11, <1>12, <2>1 DEF Located
    <3> QED BY <1>11, <3>1 DEF Saw
  <2>2. CASE r \in CaptureRefs /\ upvals'[r[1]][r[2]] = upvals[r[1]][r[2]]
    <3>1. PICK w : w = upvals[r[1]][r[2]]
      OBVIOUS
    <3>2. w \in UpVal /\ refcount[w] > 0 /\ Contents[r] = At(w) /\ r \in Refer
      BY <1>1, <2>2, <3>1 DEF Located
    <3>3. w = upvals'[r[1]][r[2]]
      BY <2>2, <3>1
    <3>4. Contents'[r] = At(w)' /\ r \in Refer'
      BY <1>1, <1>12, <3>3 DEF Located
    <3>5. At(w)' = At(w)
      BY <1>10, <3>2
    <3> QED BY <3>2, <3>4, <3>5 DEF Saw, Common
  <2> QED BY <1>8, <1>12, <2>1, <2>2
<1>13. \A r \in SlotRefs' : r \in SlotRefs /\ stack'[r[1]][r[2]] = stack[r[1]][r[2]]
  BY <1>7, ReferFacts, ReferNext
<1>14. PICK x : x = Nil
  OBVIOUS
<1>15. Steady(x)
  BY <1>9, <1>10, <1>12, <1>13 DEF Steady
<1> QED BY <1>15, SteadyStep

(* The new capture as a reference.                                         *)
LEMMA FillsCapture ==
    ASSUME IInv, IInv', Working, Unfilled # {}, NEW u, Fills(u)
    PROVE  \E r \in CaptureRefs' : /\ upvals'[r[1]][r[2]] = u /\ AddressOf'[r] = Address(u)'
                                   /\ Contents'[r] = At(u)'
<1>1. PICK d \in LClosure : d = making.cl
  BY MakingFacts
<1>2. PICK k : k = Next_i
  OBVIOUS
<1>3. u \in UpVal /\ Fill(u) /\ u # None
  BY UpvalAssumption DEF Fills
<1>4. k \in DOMAIN upvals'[d] /\ upvals'[d][k] = u
  BY <1>1, <1>2, <1>3, NextFacts, FillCounts
<1>5. PICK r : r = <<d, k>>
  OBVIOUS
<1>6. r \in CaptureRefs' /\ upvals'[r[1]][r[2]] = u
  BY <1>3, <1>4, <1>5, ReferNext
<1>7. Located'
  BY LocatedNext
<1> QED BY <1>6, <1>7 DEF Located

(* A slot that the new capture shares.                                     *)
LEMMA FillsFromSlot ==
    ASSUME IInv, IInv', Working, Unfilled # {}, NEW u, Fills(u), NEW t \in Thread, NEW l \in DOMAIN stack[t],
           v'[u] = <<t, l>>
    PROVE  Variable!Step(Cells, Cells')
<1>1. Located /\ Located'
  BY LocatedFacts, LocatedNext
<1>2. stack' = stack /\ u \in UpVal
  BY DEF Fills, Fill, program
<1>3. l \in Nat
  <2>1. stack[t] \in Seq(Value)
    BY StoreTyped
  <2> QED BY <2>1
<1>4. PICK s : s = <<t, l>>
  OBVIOUS
<1>5. s \in SlotRefs /\ s \in SlotRefs' /\ s[1] = t /\ s[2] = l
  BY <1>2, <1>4, ReferFacts, ReferNext
<1>6. Contents[s] = stack[t][l] /\ AddressOf'[s] = s /\ s \in Common
  BY <1>1, <1>5 DEF Located, Common
<1>7. upisopen(u)' /\ Address(u)' = s /\ At(u)' = stack[t][l]
  BY <1>2, <1>3, <1>4, AddressOpen DEF upisopen, Address, At
<1>8. PICK r \in CaptureRefs' : upvals'[r[1]][r[2]] = u /\ AddressOf'[r] = Address(u)' /\ Contents'[r] = At(u)'
  BY FillsCapture
<1> QED BY <1>6, <1>7, <1>8, FillsSteps

LEMMA ShareUpvalSteps == ASSUME IInv, IInv', ShareUpval PROVE Variable!Step(Cells, Cells')
<1>1. Working /\ Unfilled # {} /\ ~Allocates /\ UNCHANGED <<openupval, v, touched, twups>>
  BY DEF ShareUpval, Ready
<1>2. PICK u \in IF Desc.instack THEN Found(L, level) ELSE {upvals[making.enc][Desc.idx]} : Fill(u)
  BY DEF ShareUpval
<1>3. TypeOK /\ OpenRight /\ CountsRight
  BY DEF IInv
<1>4. UNCHANGED <<stack, value>>
  BY <1>2 DEF Fill, program
<1>5. CASE Desc.instack
  <2>1. u \in Found(L, level) /\ level \in Nat /\ L \in Thread /\ level \in DOMAIN stack[L]
    BY <1>1, <1>2, <1>5, NextFacts, RunningFacts
  <2>2. u \in UpVal /\ upisopen(u) /\ v[u][1] = L /\ v[u][2] = level
    BY <1>3, <2>1, ClosingAbove DEF Above
  <2>3. v'[u] = <<L, level>> /\ v[u] # Free
    BY <1>1, <1>3, <2>2, OpenAddress DEF upisopen
  <2>4. At(u)' = At(u) /\ At(u) = stack[L][level]
    BY <1>1, <1>4, <2>2 DEF At, upisopen
  <2>5. stack[L][level] \in InSlots
    BY <2>1, RunningFacts, InSeq DEF InSlots
  <2>6. At(u)' \in Values(Alive)
    BY <2>4, <2>5, RunningFacts
  <2>7. Fills(u)
    BY <1>1, <1>2, <1>3, <2>2, <2>3, <2>6 DEF Fills, TypeOK
  <2> QED BY <1>1, <2>1, <2>3, <2>7, FillsFromSlot
<1>6. CASE ~Desc.instack
  <2>1. PICK e : e = making.enc
    OBVIOUS
  <2>2. PICK i : i = Desc.idx
    OBVIOUS
  <2>3. e \in LClosure \cap InSlots /\ u = upvals[e][i] /\ i \in DOMAIN upvals[e] /\ u # None
    BY <1>1, <1>2, <1>6, <2>1, <2>2, NextFacts
  <2>4. u \in Upvals(e)
    BY <1>3, <2>3, CountedInUse
  <2>5. u \in UpVal /\ v[u] # Free /\ At(u) \in Values(Alive)
    BY <2>3, <2>4, ClosureInSlots
  <2>6. At(u)' = At(u)
    BY <1>1, <1>4 DEF At, upisopen
  <2>7. Fills(u)
    BY <1>1, <1>2, <1>3, <2>5, <2>6 DEF Fills, TypeOK
  <2>8. PICK s : s = <<e, i>>
    OBVIOUS
  <2>9. s \in CaptureRefs /\ s[1] = e /\ s[2] = i
    BY <2>3, <2>8, ReferFacts
  <2>10. i \in DOMAIN upvals'[e] /\ upvals'[e][i] = u
    <3>1. ~(e = making.cl /\ i = Next_i)
      BY <1>1, <2>3, NextFacts
    <3> QED BY <1>1, <1>2, <2>3, <2>5, <3>1, FillCounts
  <2>11. s \in CaptureRefs'
    BY <2>3, <2>8, <2>10, ReferNext
  <2>12. Located /\ Located'
    BY LocatedFacts, LocatedNext
  <2>13. Contents[s] = At(u) /\ AddressOf'[s] = Address(u)' /\ s \in Common
    BY <2>3, <2>9, <2>10, <2>11, <2>12 DEF Located, Common
  <2>14. PICK r \in CaptureRefs' : /\ upvals'[r[1]][r[2]] = u /\ AddressOf'[r] = Address(u)'
                                   /\ Contents'[r] = At(u)'
    BY <1>1, <2>7, FillsCapture
  <2> QED BY <1>1, <2>6, <2>7, <2>13, <2>14, FillsSteps
<1> QED BY <1>5, <1>6

LEMMA FindUpvalSteps == ASSUME IInv, IInv', luaF_findupval PROVE Variable!Step(Cells, Cells')
<1>1. Working /\ Unfilled # {} /\ Desc.instack /\ Found(L, level) = {}
  BY DEF luaF_findupval, Ready, Allocates
<1>2. PICK u \in UpVal :
        /\ v' = [v EXCEPT ![u] = <<L, level>>] /\ touched' = [touched EXCEPT ![u] = TRUE]
        /\ openupval' = [openupval EXCEPT ![L] = InsertAt(@, Stop(L, level), u)]
        /\ Fill(u) /\ v[u] = Free
  BY DEF luaF_findupval
<1>3. PICK t \in Thread : t = L
  BY RunningFacts
<1>4. PICK l \in Nat : l = level
  BY <1>1, NextFacts
<1>5. l \in DOMAIN stack[t] /\ stack' = stack /\ stack[t] \in Seq(Value)
  BY <1>1, <1>2, <1>3, <1>4, NextFacts, StoreTyped DEF Fill, program
<1>6. PICK a : a = <<t, l>>
  OBVIOUS
<1>7. a[1] = t /\ a[2] = l /\ a \notin {Own, Free}
  BY <1>6, AddressOpen
<1>8. v' = [v EXCEPT ![u] = a]
  BY <1>2, <1>3, <1>4, <1>6
<1>9. v'[u] = a /\ \A w \in UpVal \ {u} : v'[w] = v[w]
  BY <1>8, StoreTyped
<1>10. At(u)' = stack[t][l]
  BY <1>5, <1>7, <1>9 DEF At, upisopen
<1>11. stack[t][l] \in Values(Alive)
  <2>1. stack[t][l] \in ToSet(stack[t])
    BY <1>5, InSeq
  <2> QED BY <1>3, <2>1, RunningFacts DEF InSlots
<1>12. touched' \in [UpVal -> BOOLEAN] /\ \A w \in UpVal : touched[w] => touched'[w]
  <2>1. touched \in [UpVal -> BOOLEAN]
    BY DEF IInv, TypeOK
  <2> QED BY <1>2, <2>1, Zenon
<1>13. (openupval \in [Thread -> Seq(UpVal)] /\ v \in [UpVal -> {Own, Free} \cup (Thread \X Nat)])'
  BY DEF IInv, TypeOK
<1>14. \A s \in Thread \ {L} : openupval'[s] = openupval[s]
  <2>1. openupval \in [Thread -> Seq(UpVal)]
    BY DEF IInv, TypeOK
  <2> QED BY <1>2, <2>1
<1>15. Fills(u)
  BY <1>2, <1>7, <1>9, <1>10, <1>11, <1>12, <1>13, <1>14 DEF Fills
<1> QED BY <1>1, <1>5, <1>6, <1>9, <1>15, FillsFromSlot

(* One capture moves to the cell of another.                               *)
LEMMA JoinsStep ==
    ASSUME IInv, IInv', NEW c1, NEW n1, NEW c2, NEW up1, NEW up2, Joins(c1, n1, c2, up1, up2), up1 # None
    PROVE  Variable!Step(Cells, Cells')
<1>1. Located /\ Located'
  BY LocatedFacts, LocatedNext
<1>2. /\ c1 \in LClosure /\ c2 \in LClosure /\ n1 \in DOMAIN upvals[c1] /\ up1 = upvals[c1][n1]
      /\ up1 \in UpVal /\ up2 \in UpVal /\ up2 \in Upvals(c2) /\ up1 # up2 /\ stack' = stack
  BY DEF Joins, program
<1>3. PICK n2 \in DOMAIN upvals[c2] : upvals[c2][n2] = up2
  <2>1. upvals[c2] \in Seq(UpVal \cup {None}) /\ up2 \in ToSet(upvals[c2])
    BY <1>2, StoreTyped DEF Upvals
  <2> QED BY <2>1, InSeq
<1>4. up2 # None
  BY <1>2, UpvalAssumption
<1>5. /\ upvals'[c1][n1] = up2 /\ \A c \in LClosure : DOMAIN upvals'[c] = DOMAIN upvals[c]
      /\ \A c \in LClosure : \A i \in DOMAIN upvals[c] : c # c1 \/ i # n1 => upvals'[c][i] = upvals[c][i]
  BY JoinCounts
<1>6. ASSUME NEW u \in UpVal, refcount'[u] > 0 PROVE v'[u] = v[u] /\ At(u)' = At(u)
  <2> DEFINE freed == {w \in UpVal : v[w] = Own /\ refcount[w] > 0
                         /\ refcount[w] = [x \in UpVal |-> IF x = up1 THEN 1 ELSE 0][w]}
  <2>1. v'[u] # Free
    <3>1. (v[u] = Free => refcount[u] = 0)'
      BY DEF IInv, CountsRight
    <3> QED BY <1>6, <3>1
  <2>2. /\ v' = [w \in UpVal |-> IF w \in freed THEN Free ELSE v[w]]
        /\ value' = [w \in UpVal |-> IF w \in freed THEN Nil ELSE value[w]]
    BY DEF Joins, luaC_upvdeccount
  <2> HIDE DEF freed
  <2>3. v'[u] = v[u] /\ value'[u] = value[u]
    BY <2>1, <2>2
  <2> QED BY <1>2, <2>3 DEF At, upisopen
<1>7. \A r : r \in SlotRefs' <=> r \in SlotRefs
  BY <1>2, ReferFacts, ReferNext
<1>8. \A r : r \in CaptureRefs' <=> r \in CaptureRefs
  <2>1. \A c \in LClosure : \A i \in DOMAIN upvals[c] : upvals'[c][i] = None <=> upvals[c][i] = None
    BY <1>2, <1>4, <1>5
  <2> QED BY <1>5, <2>1, ReferFacts, ReferNext
<1>9. Refer' = Refer
  BY <1>7, <1>8 DEF Refer
<1>10. PICK r : r = <<c1, n1>>
  OBVIOUS
<1>11. PICK s : s = <<c2, n2>>
  OBVIOUS
<1>12. r \in CaptureRefs /\ s \in CaptureRefs /\ r # s /\ s \in Refer \ {r} /\ r \in Refer
       /\ r[1] = c1 /\ r[2] = n1 /\ s[1] = c2 /\ s[2] = n2
  <2>1. r \in CaptureRefs /\ s \in CaptureRefs
    BY <1>2, <1>3, <1>4, <1>10, <1>11, ReferFacts
  <2>2. r # s
    BY <1>2, <1>3, <1>10, <1>11
  <2> QED BY <2>1, <2>2, <1>10, <1>11 DEF Refer
<1>13. ASSUME NEW p \in CaptureRefs, NEW u, u = upvals'[p[1]][p[2]]
       PROVE  /\ u \in UpVal /\ refcount'[u] > 0
              /\ AddressOf'[p] = Address(u)' /\ Contents'[p] = At(u)'
  <2>1. p \in CaptureRefs'
    BY <1>8
  <2> QED BY <1>1, <1>13, <2>1 DEF Located
<1>14. ASSUME NEW p \in CaptureRefs, p # r PROVE AddressOf'[p] = AddressOf[p] /\ Contents'[p] = Contents[p]
  <2>1. PICK c \in LClosure : \E i \in DOMAIN upvals[c] : p = <<c, i>>
    BY <1>14, ReferFacts
  <2>2. PICK i \in DOMAIN upvals[c] : p = <<c, i>>
    BY <2>1
  <2>3. upvals'[c][i] = upvals[c][i]
    BY <1>5, <1>10, <1>14, <2>2
  <2>4. PICK w : w = upvals[c][i]
    OBVIOUS
  <2>5. w \in UpVal /\ AddressOf[p] = Address(w) /\ Contents[p] = At(w)
    BY <1>1, <1>14, <2>2, <2>4 DEF Located
  <2>6. refcount'[w] > 0 /\ AddressOf'[p] = Address(w)' /\ Contents'[p] = At(w)'
    BY <1>13, <1>14, <2>2, <2>3, <2>4
  <2>7. v'[w] = v[w] /\ At(w)' = At(w)
    BY <1>6, <2>5, <2>6
  <2> QED BY <2>5, <2>6, <2>7 DEF Address, upisopen
<1>15. ASSUME NEW p \in SlotRefs PROVE AddressOf'[p] = AddressOf[p] /\ Contents'[p] = Contents[p]
  BY <1>1, <1>2, <1>7, <1>15 DEF Located
<1>16. AddressOf'[s] = AddressOf'[r] /\ Contents[s] = Contents'[r]
  <2>1. upvals'[c2][n2] = up2
    BY <1>2, <1>3, <1>5, <1>10, <1>11, <1>12
  <2>2. AddressOf'[s] = Address(up2)' /\ AddressOf'[r] = Address(up2)' /\ Contents'[r] = At(up2)'
        /\ Contents'[s] = At(up2)'
    BY <1>5, <1>12, <1>13, <2>1
  <2> QED BY <1>12, <1>14, <2>2
<1>17. PICK A2 : A2 = AddressOf'
  OBVIOUS
<1>18. PICK H2 : H2 = Contents'
  OBVIOUS
<1>19. ASSUME NEW p \in Refer \ {r} PROVE A2[p] = AddressOf[p] /\ H2[p] = Contents[p]
  BY <1>14, <1>15, <1>17, <1>18, <1>19 DEF Refer
<1>20. SameClasses(AddressOf, A2, Refer \ {r})
  BY <1>19 DEF SameClasses
<1>21. \A p \in Refer : Saw(Contents, A2, H2, Refer \ {r}, p)
  BY <1>12, <1>16, <1>17, <1>18, <1>19 DEF Saw
<1>22. Variable!Step(CellsOf(Refer, AddressOf, Contents), CellsOf(Refer, A2, H2))
  BY <1>12, <1>20, <1>21, MoveStep
<1> QED BY <1>9, <1>17, <1>18, <1>22, CellsFacts, CellsNext

LEMMA JoinSteps == ASSUME IInv, IInv', lua_upvaluejoin PROVE Variable!Step(Cells, Cells')
<1>1. PICK c1, n1, c2, up1, up2 :
        Joins(c1, n1, c2, up1, up2) /\ up1 # None
  BY JoinsFacts
<1> QED BY <1>1, JoinsStep

LEMMA StepsOfCells ==
    ASSUME IInv, IInv', [Next]_vars
    PROVE  [Variable!Next]_Cells
<1>1. ASSUME Variable!Step(Cells, Cells') PROVE Variable!Next
  BY <1>1 DEF Variable!Next
<1>2. CASE Move \/ Leave \/ lua_newthread \/ lua_resume \/ lua_yield
  <2>1. Variable!Step(Cells, Cells')
    BY <1>2, MoveSteps, LeaveSteps, NewThreadSteps, ResumeSteps, YieldSteps, Zenon
  <2> QED BY <1>1, <2>1
<1>3. CASE OP_GETUPVAL \/ OP_SETUPVAL \/ lua_upvaluejoin
  <2>1. Variable!Step(Cells, Cells')
    BY <1>3, GetUpvalSteps, SetUpvalSteps, JoinSteps, Zenon
  <2> QED BY <1>1, <2>1
<1>4. CASE OP_CLOSURE \/ ShareUpval \/ luaF_findupval
  <2>1. Variable!Step(Cells, Cells')
    BY <1>4, ClosureSteps, ShareUpvalSteps, FindUpvalSteps, Zenon
  <2> QED BY <1>1, <2>1
<1>5. CASE FullCycle \/ MemoryError \/ Sweep
  <2>1. Variable!Step(Cells, Cells')
    BY <1>5, FullCycleSteps, MemoryErrorSteps, SweepSteps, Zenon
  <2> QED BY <1>1, <2>1
<1>6. CASE pushclosure \/ Emergency \/ StartCycle \/ PropagateThread \/ SweepEnds \/ UNCHANGED vars
  <2>1. UNCHANGED <<stack, upvals, v, value>>
    <3>1. CASE pushclosure
      BY <3>1 DEF pushclosure, program, upv
    <3>2. CASE Emergency
      BY <3>2 DEF Emergency, program, closures, upv
    <3>3. CASE StartCycle
      BY <3>3 DEF StartCycle, program, closures, upv
    <3>4. CASE PropagateThread
      BY <3>4 DEF PropagateThread, program, closures, upv
    <3>5. CASE SweepEnds
      BY <3>5 DEF SweepEnds, program, closures, upv
    <3>6. CASE UNCHANGED vars
      BY <3>6 DEF vars, program, closures, upv
    <3> QED BY <1>6, <3>1, <3>2, <3>3, <3>4, <3>5, <3>6, Zenon
  <2> QED BY <2>1, CellsSame
<1>7. CASE PropagateLclosure \/ PropagateProto \/ atomic
  <2>1. UNCHANGED <<stack, upvals, v, value>>
    <3>1. CASE PropagateLclosure
      BY <3>1 DEF PropagateLclosure, program, closures
    <3>2. CASE PropagateProto
      BY <3>2 DEF PropagateProto, program, upv
    <3>3. CASE atomic
      BY <3>3 DEF atomic, program
    <3> QED BY <1>7, <3>1, <3>2, <3>3, Zenon
  <2> QED BY <2>1, CellsSame
<1> QED BY <1>2, <1>3, <1>4, <1>5, <1>6, <1>7, Zenon DEF Next

LEMMA CellsBegin == Init => Cells = {}
<1>1. SUFFICES ASSUME Init PROVE Refer = {}
  BY CellsFacts DEF CellsOf
<1>2. \A r : r \notin SlotRefs
  BY <1>1, ReferFacts DEF Init
<1>3. \A r : r \notin CaptureRefs
  BY <1>1, ReferFacts DEF Init
<1> QED BY <1>2, <1>3 DEF Refer

(* ImplementsCells: the slots and the upvalues of closures are references  *)
(* to cells.  Whatever the program, an error or the collector does, those  *)
(* that shared a variable go on sharing it, open or closed, and see what   *)
(* was assigned to it last; only lua_upvaluejoin makes one refer to the    *)
(* variable of another.                                                    *)
THEOREM VariablesShared == Spec => ImplementsCells
<1>1. Init => Variable!Init
  BY CellsBegin DEF Variable!Init
<1>2. IInv /\ IInv' /\ [Next]_vars => [Variable!Next]_Cells
  BY StepsOfCells
<1> QED BY <1>1, <1>2, UpvalInv, PTL DEF Spec, ImplementsCells, Variable!Spec
=============================================================================
