------------------------------ MODULE LuaTable -------------------------------
(***************************************************************************)
(* One table of ltable.c: an array part, a hash part of chained nodes with *)
(* Brent's variation, rehash, traversal with next, and the collector that  *)
(* kills the keys of removed entries.                                      *)
(*                                                                         *)
(* A collectable key is the address of its object: when the object of a    *)
(* removed entry is freed, the node keeps a dead key and the address may   *)
(* become another object, another key.                                     *)
(***************************************************************************)
EXTENDS Integers, Sequences, FiniteSets

CONSTANTS
    Ints,        \* the integer keys the program uses
    Floats,      \* the float keys it uses
    ToInteger,   \* the integer equal to a float, Nil when there is none
    Strs, Ptrs,  \* its collectable keys: strings, other objects
    Hash,        \* the hash of strings, addresses and floats
    Val, Nil,
    MaxSize,     \* MAXASIZE
    Asked,       \* bound: the sizes of array and hash part the program asks for
    MaxInteger,  \* LUA_MAXINTEGER
    KeySets      \* bound: the sets of keys one behaviour of the program uses

Collectable == Strs \cup Ptrs
NotInteger == {f \in Floats : ToInteger[f] = Nil}
Key == Ints \cup NotInteger \cup Collectable

TwoTo[n \in Nat] == IF n = 0 THEN 1 ELSE 2 * TwoTo[n - 1]

(* MAXASIZE is a power of two.  Not every index of an array is a key of    *)
(* the program: memory is smaller.                                         *)
ASSUME TableAssumption ==
    /\ Ints \subseteq Int
    /\ \A f \in Floats : ToInteger[f] \in Ints \cup {Nil}
    /\ \A k \in Collectable \cup Floats : Hash[k] \in Nat
    /\ Nil \notin Key \cup Val
    /\ MaxSize \in Nat /\ MaxInteger \in Nat \ {0} /\ MaxSize <= MaxInteger
    /\ \E n \in 0..MaxSize : MaxSize = TwoTo[n]
    /\ \E i \in 1..MaxInteger : i \notin Key
    /\ Asked \subseteq 0..MaxSize
    /\ KeySets \subseteq SUBSET (Key \cup Floats)

VARIABLES
    t,          \* the table: array, node, lastfree
    control,    \* the key the traversal goes on from, Nil at its start
    traversal,  \* "on", "off" or "finished"
    returned,   \* the keys it has returned (kept for the properties)
    used        \* the keys the program uses, always the same ones

vars == <<t, control, traversal, returned, used>>

FreeNode == [key |-> Nil, dead |-> FALSE, val |-> Nil, next |-> 0]
Size(tb) == Cardinality(DOMAIN tb.node)
CeilLog2(n) == CHOOSE l \in 0..n : TwoTo[l] >= n /\ \A i \in 0..n : TwoTo[i] >= n => l <= i

(* Nodes 0 to n-1.  The common dummynode stands for n = 0.                 *)
NodesFor(n) == IF n = 0 THEN 0 ELSE TwoTo[CeilLog2(n)]
SetNodeVector(tb, n) ==
    [tb EXCEPT !.node = [m \in 0 .. NodesFor(n) - 1 |-> FreeNode], !.lastfree = NodesFor(n)]

SetArrayVector(tb, n) ==
    [tb EXCEPT !.array = [i \in 1..n |-> IF i <= Len(tb.array) THEN tb.array[i] ELSE Nil]]

NewTable == [array |-> <<>>, node |-> <<>>, lastfree |-> 0]

TypeOK ==
    /\ t.array \in Seq(Val \cup {Nil}) /\ Len(t.array) <= MaxSize
    /\ DOMAIN t.node = 0 .. Size(t) - 1
    /\ Size(t) = 0 \/ \E n \in 0 .. Size(t) : Size(t) = TwoTo[n]
    /\ t.lastfree \in 0..Size(t)
    /\ \A m \in DOMAIN t.node :
        /\ t.node[m].key \in Key \cup {Nil} /\ t.node[m].val \in Val \cup {Nil}
        /\ t.node[m].dead \in BOOLEAN
        /\ t.node[m].dead => t.node[m].key \in Collectable
        /\ m + t.node[m].next \in DOMAIN t.node
    /\ control \in Key \cup {Nil}
    /\ traversal \in {"on", "off", "finished"} /\ returned \subseteq Key
    /\ used \in KeySets

-----------------------------------------------------------------------------
(* Searching                                                               *)

(* A float with an integral value is searched and inserted as its integer. *)
AsKey(k) == IF k \in Floats \ NotInteger THEN ToInteger[k] ELSE k

(* hashmod avoids the power of two for addresses and floats.               *)
MainPosition(n, k) ==
    IF k \in Ptrs \cup Floats THEN Hash[k] % (IF n = 1 THEN 1 ELSE n - 1)
    ELSE IF k \in Strs THEN Hash[k] % n ELSE k % n

(* The first node of hits, from the main position of k along its chain;    *)
(* -1 when there is none.                                                  *)
Search(tb, k, hits) ==
    LET from[m \in DOMAIN tb.node] ==
            IF m \in hits THEN m
            ELSE IF tb.node[m].next = 0 THEN -1 ELSE from[m + tb.node[m].next]
    IN IF Size(tb) = 0 THEN -1 ELSE from[MainPosition(Size(tb), k)]

InArray(tb, k) == k \in 1..Len(tb.array)
WithKey(tb, k) == {m \in DOMAIN tb.node : tb.node[m].key = k}
NodeOf(tb, k) == Search(tb, k, {m \in WithKey(tb, k) : ~tb.node[m].dead})
Present(tb, k) == InArray(tb, k) \/ NodeOf(tb, k) >= 0

(* luaH_get: the value of a key, given as an integer when it is one.       *)
Get(tb, k) ==
    IF InArray(tb, k) THEN tb.array[k]
    ELSE LET m == NodeOf(tb, k) IN IF m >= 0 THEN tb.node[m].val ELSE Nil

(* The place luaH_set returned for a key that is present.                  *)
Put(tb, k, v) ==
    IF InArray(tb, k) THEN [tb EXCEPT !.array[k] = v]
    ELSE [tb EXCEPT !.node[NodeOf(tb, k)].val = v]

-----------------------------------------------------------------------------
(* Inserting                                                               *)

(* getfreepos: lastfree goes down to the first node never used.            *)
FreeBelow(tb) == {m \in 0 .. tb.lastfree - 1 : tb.node[m].key = Nil}
Highest(S) == CHOOSE m \in S : \A i \in S : i <= m

MainFree(tb, k) == Size(tb) > 0 /\ tb.node[MainPosition(Size(tb), k)].val = Nil
CanPlace(tb, k) == MainFree(tb, k) \/ FreeBelow(tb) # {}

Keyed(nd, k) == [nd EXCEPT !.key = k, !.dead = FALSE]

(* The colliding node is out of its main position: it moves to the free    *)
(* node f, behind the same predecessor, and k takes its place.             *)
MoveColliding(tb, k, mp, f) ==
    LET nd == tb.node
        before[m \in DOMAIN nd] == IF m + nd[m].next = mp THEN m ELSE before[m + nd[m].next]
        prev == before[MainPosition(Size(tb), nd[mp].key)]
    IN [tb EXCEPT
          !.node = [nd EXCEPT
             ![prev].next = f - prev,
             ![f] = [nd[mp] EXCEPT !.next = IF nd[mp].next = 0 THEN 0 ELSE nd[mp].next + mp - f],
             ![mp] = [FreeNode EXCEPT !.key = k]],
          !.lastfree = f]

(* Mutant: the free pointer stops below the node before the one taken. *)
ChainFreeSkips(tb, k, mp, f) ==
    LET nd == tb.node IN
    [tb EXCEPT
       !.node = [nd EXCEPT
          ![f] = [Keyed(nd[f], k) EXCEPT
                    !.next = IF nd[mp].next = 0 THEN @ ELSE mp + nd[mp].next - f],
          ![mp].next = f - mp],
       !.lastfree = f - 1]

(* The colliding node is in its main position: k goes to f, next to it.    *)
ChainFree(tb, k, mp, f) ==
    LET nd == tb.node IN
    [tb EXCEPT
       !.node = [nd EXCEPT
          ![f] = [Keyed(nd[f], k) EXCEPT
                    !.next = IF nd[mp].next = 0 THEN @ ELSE mp + nd[mp].next - f],
          ![mp].next = f - mp],
       !.lastfree = f]

(* luaH_newkey when there is a place: k in a node whose value is nil.      *)
Place(tb, k) ==
    LET mp == MainPosition(Size(tb), k)
        f == Highest(FreeBelow(tb))
    IN IF MainFree(tb, k) THEN [tb EXCEPT !.node[mp] = Keyed(@, k)]
       ELSE IF MainPosition(Size(tb), tb.node[mp].key) # mp THEN MoveColliding(tb, k, mp, f)
       ELSE ChainFree(tb, k, mp, f)

-----------------------------------------------------------------------------
(* Rehash                                                                  *)

UsedArray(tb) == {i \in 1..Len(tb.array) : tb.array[i] # Nil}
UsedNodes(tb) == {m \in DOMAIN tb.node : tb.node[m].val # Nil}
UnusedNodes(tb) == DOMAIN tb.node \ UsedNodes(tb)

(* The keys that may live in an array part: arrayindex(k) # 0.             *)
ArrayIndices(S) == {k \in S : k \in Ints /\ 0 < k /\ k <= MaxSize}

(* nums[i]: the keys of S in (2^(i-1), 2^i].                               *)
Slice(S, i) == {k \in S : (i = 0 \/ TwoTo[i - 1] < k) /\ k <= TwoTo[i]}

(* Mutant: half of the slots in use is enough. *)
ComputeSizesHalf(S) ==
    LET loop[i \in 0 .. CeilLog2(2 * MaxSize + 1)] ==
            LET s == IF i = 0 THEN [a |-> 0, na |-> 0, optimal |-> 0] ELSE loop[i - 1]
                a == s.a + Cardinality(Slice(S, i))
            IN IF 2 * Cardinality(S) > TwoTo[i] /\ Slice(S, i) # {}
               THEN IF 2 * a >= TwoTo[i] THEN [a |-> a, na |-> a, optimal |-> TwoTo[i]]
                    ELSE [s EXCEPT !.a = a]
               ELSE s
    IN loop[CeilLog2(2 * MaxSize + 1)]

(* computesizes: the loop over the slices, with a, na and optimal.         *)
ComputeSizes(S) ==
    LET loop[i \in 0 .. CeilLog2(2 * MaxSize + 1)] ==
            LET s == IF i = 0 THEN [a |-> 0, na |-> 0, optimal |-> 0] ELSE loop[i - 1]
                a == s.a + Cardinality(Slice(S, i))
            IN IF 2 * Cardinality(S) > TwoTo[i] /\ Slice(S, i) # {}
               THEN IF 2 * a > TwoTo[i] THEN [a |-> a, na |-> a, optimal |-> TwoTo[i]]
                    ELSE [s EXCEPT !.a = a]
               ELSE s
    IN loop[CeilLog2(2 * MaxSize + 1)]

(* luaH_set on a field being moved: there is room, so no further rehash.   *)
Reinsert(tb, kv) ==
    LET k == kv[1] IN
    IF kv[2] = Nil THEN tb
    ELSE IF Present(tb, k) THEN Put(tb, k, kv[2])
    ELSE IF CanPlace(tb, k) THEN Put(Place(tb, k), k, kv[2])
    ELSE tb

(* luaH_resize: the vanishing slice of the array goes in first, then the   *)
(* old nodes from the last one down.                                       *)
Moving(tb, nasize) ==
    LET slice == IF nasize < Len(tb.array) THEN Len(tb.array) - nasize ELSE 0
    IN [i \in 1 .. slice + Size(tb) |->
          IF i <= slice THEN <<nasize + i, tb.array[nasize + i]>>
          ELSE LET old == tb.node[slice + Size(tb) - i] IN <<old.key, old.val>>]

Resize(tb, nasize, nhsize) ==
    LET empty == SetNodeVector(SetArrayVector(tb, nasize), nhsize)
        moving == Moving(tb, nasize)
        put[i \in 0..Len(moving)] == IF i = 0 THEN empty ELSE Reinsert(put[i - 1], moving[i])
    IN put[Len(moving)]

Rehash(tb, k) ==
    LET fields == UsedArray(tb) \cup {tb.node[m].key : m \in UsedNodes(tb)} \cup {k}
        sizes == ComputeSizes(ArrayIndices(fields))
    IN Resize(tb, sizes.optimal, Cardinality(fields) - sizes.na)

NewKey(tb, k) ==
    IF CanPlace(tb, k) THEN Place(tb, k)
    ELSE LET r == Rehash(tb, k) IN IF Present(r, k) THEN r ELSE Place(r, k)

Stored(tb, k, v) == IF Present(tb, k) THEN Put(tb, k, v) ELSE Put(NewKey(tb, k), k, v)

-----------------------------------------------------------------------------
(* Traversal                                                               *)

(* Mutant: a dead key does not match. *)
FindIndexLive(tb, k) ==
    IF InArray(tb, k) THEN k
    ELSE IF NodeOf(tb, k) < 0 THEN 0 ELSE NodeOf(tb, k) + 1 + Len(tb.array)

(* findindex: the number of a key, elements of the array first; 0 when it  *)
(* is not there.  The first node of the chain with the key counts, whether *)
(* the key is dead or not.                                                 *)
FindIndex(tb, k) ==
    IF InArray(tb, k) THEN k
    ELSE LET m == Search(tb, k, WithKey(tb, k))
         IN IF m < 0 THEN 0 ELSE m + 1 + Len(tb.array)

(* The elements of the table by number, as luaH_next goes through them.    *)
Element(tb, i) ==
    IF i <= Len(tb.array) THEN <<i, tb.array[i]>>
    ELSE LET nd == tb.node[i - Len(tb.array) - 1] IN <<nd.key, nd.val>>
NextFrom(tb, i) ==
    {j \in i + 1 .. Len(tb.array) + Size(tb) : /\ Element(tb, j)[2] # Nil
                                               /\ \A n \in i + 1 .. j - 1 : Element(tb, n)[2] = Nil}

-----------------------------------------------------------------------------
(* luaH_getn                                                               *)

(* Indices are unsigned; luaH_getint takes them as signed.                 *)
Signed(j) == IF j > MaxInteger THEN j - 2 * (MaxInteger + 1) ELSE j
Wrap(j) == j % (2 * (MaxInteger + 1))
Absent(tb, j) == Get(tb, Signed(j)) = Nil

(* Binary search between i, zero or present, and j, absent.                *)
BinarySearch(tb, i, j) ==
    LET search[n \in 0..j] ==
            LET s == IF n = 0 THEN <<i, j>> ELSE search[n - 1]
                m == (s[1] + s[2]) \div 2
            IN IF s[2] - s[1] <= 1 THEN s
               ELSE IF Absent(tb, m) THEN <<s[1], m>> ELSE <<m, s[2]>>
    IN search[j][1]

LinearSearch(tb) ==
    (CHOOSE i \in 1 .. MaxInteger + 1 : Absent(tb, i) /\ \A n \in 1 .. i - 1 : ~Absent(tb, n)) - 1

(* Mutant: nothing stops the doubling. *)
UnboundSearchWraps(tb, j0) ==
    LET double[n \in 0..MaxInteger] ==
            LET s == IF n = 0 THEN <<j0, j0 + 1>> ELSE double[n - 1] IN
            IF Absent(tb, s[2]) THEN s ELSE <<s[2], Wrap(2 * s[2])>>
    IN BinarySearch(tb, double[MaxInteger][1], double[MaxInteger][2])

(* unbound_search: j doubles until it is absent, or until it would pass    *)
(* the largest integer.                                                    *)
UnboundSearch(tb, j0) ==
    LET double[n \in 0..MaxInteger] ==
            LET s == IF n = 0 THEN <<j0, j0 + 1>> ELSE double[n - 1] IN
            IF s = <<>> \/ Absent(tb, s[2]) THEN s
            ELSE IF s[2] > MaxInteger \div 2 THEN <<>> ELSE <<s[2], Wrap(2 * s[2])>>
        s == double[MaxInteger]
    IN IF s = <<>> THEN LinearSearch(tb) ELSE BinarySearch(tb, s[1], s[2])

Getn(tb) ==
    LET j == Len(tb.array) IN
    IF j > 0 /\ tb.array[j] = Nil THEN BinarySearch(tb, 0, j)
    ELSE IF Size(tb) = 0 THEN j
    ELSE UnboundSearch(tb, j)

-----------------------------------------------------------------------------
(* lua_createtable with any hints.                                         *)
Init ==
    /\ \E na, nh \in Asked : t = Resize(NewTable, na, nh)
    /\ control = Nil /\ traversal = "off" /\ returned = {}
    /\ used \in KeySets

(* An assignment to a field that does not exist ends the traversal.        *)
Assigned(k) ==
    /\ traversal' = IF Get(t, k) = Nil THEN "off" ELSE traversal
    /\ control' = IF Get(t, k) = Nil THEN Nil ELSE control
    /\ returned' = IF Get(t, k) = Nil THEN {} ELSE returned

(* t[k] = v with no metamethod.                                            *)
Set ==
    \E given \in used, v \in Val \cup {Nil} :
        LET k == AsKey(given) IN
        /\ t' = Stored(t, k, v)
        /\ Assigned(k)
    /\ UNCHANGED used

(* removeentry, when the table is traversed: a removed entry whose key is  *)
(* white gets a dead key.  The object may still be in use: the stack is    *)
(* marked once more after the tables.                                      *)
Removed(tb) == {nd.key : nd \in {tb.node[m] : m \in UnusedNodes(tb)}} \cap Collectable
Dying(tb, D) ==
    [tb EXCEPT !.node = [m \in DOMAIN tb.node |->
        IF tb.node[m].key \in D /\ tb.node[m].val = Nil
        THEN [tb.node[m] EXCEPT !.dead = TRUE] ELSE tb.node[m]]]

Collect ==
    /\ \E D \in SUBSET Removed(t) \ {{}} : t' = Dying(t, D)
    /\ UNCHANGED <<control, traversal, returned, used>>

(* Mutant: the array part keeps its new size. *)
SetFailsGrown ==
    \E given \in used :
        LET k == AsKey(given)
            n == Len(Rehash(t, k).array)
        IN
        /\ ~Present(t, k) /\ ~CanPlace(t, k)
        /\ t' = [(IF n > Len(t.array) THEN SetArrayVector(t, n) ELSE t) EXCEPT !.lastfree = 0]
        /\ Assigned(k)
        /\ UNCHANGED used

(* t[k] = v when the new array or the new nodes cannot be allocated: after *)
(* the search for a free node and an emergency collection, an error.       *)
SetFails ==
    \E given \in used, D \in SUBSET Removed(t) :
        LET k == AsKey(given) IN
        /\ ~Present(t, k) /\ ~CanPlace(t, k)
        /\ t' = [Dying(t, D) EXCEPT !.lastfree = 0]
        /\ Assigned(k)
    /\ UNCHANGED used

(* luaH_resizearray, called by OP_SETLIST to grow the array part.          *)
ResizeArray ==
    /\ \E n \in {i \in Asked : i > Len(t.array)} : t' = Resize(t, n, Size(t))
    /\ control' = Nil /\ traversal' = "off" /\ returned' = {}
    /\ UNCHANGED used

Start ==
    /\ traversal # "on" /\ traversal' = "on"
    /\ returned' = {} /\ control' = Nil
    /\ UNCHANGED <<t, used>>

CanGoOn == control # Nil => FindIndex(t, control) # 0
Position == IF control = Nil THEN 0 ELSE FindIndex(t, control)

Visit ==
    /\ traversal = "on" /\ CanGoOn
    /\ \E j \in NextFrom(t, Position) :
        /\ control' = Element(t, j)[1]
        /\ returned' = returned \cup {Element(t, j)[1]}
    /\ UNCHANGED <<t, traversal, used>>

Finish ==
    /\ traversal = "on" /\ CanGoOn /\ NextFrom(t, Position) = {}
    /\ traversal' = "finished" /\ control' = Nil /\ returned' = {}
    /\ UNCHANGED <<t, used>>

Next == Set \/ SetFails \/ Collect \/ ResizeArray \/ Start \/ Visit \/ Finish

Spec == Init /\ [][Next]_vars

-----------------------------------------------------------------------------
(* Properties                                                              *)

(* The table implements a map: an assignment changes one field, whatever   *)
(* moves between array, nodes and a new hash part, or when memory runs     *)
(* out half-way; a traversal returns each field once and all of them,      *)
(* through removed entries and dead keys.                                  *)
Map == INSTANCE LuaMap WITH map <- [k \in Key |-> Get(t, k)]
ImplementsMap == Map!Spec

(* next never raises "invalid key to 'next'" in a traversal that only      *)
(* assigns to existing fields: the key it stopped at is still found, dead  *)
(* or not.                                                                 *)
TraversalGoesOn == traversal = "on" => CanGoOn

(* The length operator returns a border, for any holes in the array, any   *)
(* keys in the nodes and up to the largest integer.                        *)
BorderFound ==
    LET n == Getn(t) IN
    /\ n \in 0..MaxInteger
    /\ n > 0 => Get(t, n) # Nil
    /\ n < MaxInteger => Get(t, n + 1) = Nil

(* getfreepos only goes down: the nodes it has passed have all been used,  *)
(* so that none is lost, and a node not used yet is in no chain (the       *)
(* assertion of luaH_newkey).                                              *)
FreeNodes ==
    \A m \in DOMAIN t.node : t.node[m].key = Nil =>
        /\ m < t.lastfree
        /\ t.node[m].next = 0
        /\ \A p \in DOMAIN t.node \ {m} : p + t.node[p].next # m

(* A rehash gives the array part the largest size, a power of two, of      *)
(* which more than half the slots will be in use.                          *)
ArrayMoreThanHalf ==
    [][\A k \in Key :
        LET fields == {i \in ArrayIndices(Key) : Get(t, i) # Nil \/ i = k}
            Half(n) == 2 * Cardinality({i \in fields : i <= n}) > n
            sizes == {TwoTo[i] : i \in 0..CeilLog2(2 * MaxSize + 1)}
        IN (~Present(t, k) /\ ~CanPlace(t, k) /\ Get(t', k) # Nil) =>
             /\ Len(t'.array) \in {n \in sizes : Half(n)} \cup {0}
             /\ \A n \in sizes : Half(n) => n <= Len(t'.array)]_vars

==============================================================================
