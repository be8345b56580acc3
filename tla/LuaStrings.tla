------------------------------ MODULE LuaStrings ------------------------------
(***************************************************************************)
(* The table of short strings and the cache of C strings: lstring.c, with  *)
(* what the collector does to them.                                        *)
(*                                                                         *)
(* Making a string may request memory twice, for a larger table and for    *)
(* the object; either request may run an emergency collection, which frees *)
(* strings of the bucket that the code is about to link the new one in.    *)
(* pc is the request that internshrstr waits for.                          *)
(*                                                                         *)
(* The collector is seen from here only: the strings that the program has  *)
(* (held) are marked at some time before the atomic phase ends, and those  *)
(* not swept yet are unswept.                                              *)
(***************************************************************************)
EXTENDS Integers, FiniteSets

CONSTANTS
    TString,     \* addresses of strings
    Text, Long,  \* what strings say; the texts longer than LUAI_MAXSHORTLEN
    luaS_hash,   \* the hash of a text
    memerrmsg, MEMERRMSG,   \* the string that is never collected, and its text
    Row, STRCACHE_M,   \* the rows of strcache, which the C string's address chooses; their length
    MINSTRTABSIZE, MAX_INT

None == "none"
Slot == 1 .. STRCACHE_M

ASSUME StringsAssumption ==
    /\ IsFiniteSet(TString) /\ memerrmsg \in TString
    /\ Long \subseteq Text /\ MEMERRMSG \in Text \ Long
    /\ luaS_hash \in [Text -> Nat]
    /\ None \notin Row /\ STRCACHE_M \in Nat \ {0}
    /\ MINSTRTABSIZE \in Nat \ {0} /\ MAX_INT \in Nat

VARIABLES
    strings,   \* the strings that exist
    text,      \* address -> its text
    hash, size, nuse,   \* strt: bucket -> its strings
    strcache,  \* row -> place -> string
    held,      \* the strings the program has, memerrmsg among them
    black, dead, unswept, gcstate,
    pc, new, list, row   \* the text to make, its bucket, the row of the cache it goes to

strt == <<hash, size, nuse>>
marks == <<black, dead, unswept, gcstate>>
call == <<pc, new, list, row>>
vars == <<strings, text, strt, strcache, held, marks, call>>

lmod(h, n) == h % n
Bucket(x) == lmod(luaS_hash[x], size)
iswhite(s) == s \notin black \cup {memerrmsg}

TypeOK ==
    /\ strings \subseteq TString /\ text \in [TString -> Text]
    /\ size \in Nat \ {0} /\ nuse \in Nat
    /\ hash \in [0 .. size - 1 -> SUBSET TString]
    /\ strcache \in [Row -> [Slot -> TString]]
    /\ held \subseteq TString
    /\ black \subseteq TString /\ dead \subseteq TString /\ unswept \subseteq TString
    /\ gcstate \in {"propagate", "sweep"}
    /\ pc \in {"idle", "luaS_resize", "createstrobj"}
    /\ new \in Text /\ list \in Nat /\ row \in Row \cup {None}

Init ==
    /\ strings = {memerrmsg} /\ text = [s \in TString |-> MEMERRMSG]
    /\ size = MINSTRTABSIZE /\ nuse = 1
    /\ hash = [i \in 0 .. MINSTRTABSIZE - 1 |->
                  IF i = lmod(luaS_hash[MEMERRMSG], MINSTRTABSIZE) THEN {memerrmsg} ELSE {}]
    /\ strcache = [r \in Row |-> [j \in Slot |-> memerrmsg]]
    /\ held = {memerrmsg}
    /\ black = {} /\ dead = {} /\ unswept = {} /\ gcstate = "propagate"
    /\ pc = "idle" /\ new = MEMERRMSG /\ list = 0 /\ row = None

-----------------------------------------------------------------------------
(* The table                                                               *)

(* The strings that luaS_resize has distributed are where their hash says. *)
Rehash(n) ==
    [i \in 0 .. n - 1 |-> {s \in UNION {hash[j] : j \in DOMAIN hash} : lmod(luaS_hash[text[s]], n) = i}]

(* Mutant: a bucket is not emptied before its strings are moved.           *)
RehashLoopKeeps(n) ==
    LET larger == IF n > size THEN n ELSE size
        grown == [i \in 0 .. larger - 1 |-> IF i < size THEN hash[i] ELSE {}]
        move[i \in 0 .. size] ==
            IF i = 0 THEN grown
            ELSE LET done == move[i - 1] moved == done[i - 1] IN
                 [k \in 0 .. larger - 1 |-> done[k] \cup {s \in moved : lmod(luaS_hash[text[s]], n) = k}]
    IN move[size]

(* The loop itself: bucket after bucket, moved in place.                   *)
RehashLoop(n) ==
    LET larger == IF n > size THEN n ELSE size
        grown == [i \in 0 .. larger - 1 |-> IF i < size THEN hash[i] ELSE {}]
        move[i \in 0 .. size] ==
            IF i = 0 THEN grown
            ELSE LET done == move[i - 1] moved == done[i - 1] IN
                 [k \in 0 .. larger - 1 |->
                     (IF k = i - 1 THEN {} ELSE done[k])
                         \cup {s \in moved : lmod(luaS_hash[text[s]], n) = k}]
    IN move[size]

Short(S) == {s \in S : text[s] \notin Long}

(* luaS_remove.                                                            *)
Remove(S) ==
    /\ strings' = strings \ S
    /\ hash' = [i \in DOMAIN hash |-> hash[i] \ S]
    /\ nuse' = nuse - Cardinality(Short(S))
    /\ text' = [s \in TString |-> IF s \in S THEN MEMERRMSG ELSE text[s]]

(* ts is returned to the program; luaS_new puts it in the cache first.     *)
Return(ts, r, cache) ==
    /\ held' = held \cup {ts}
    /\ strcache' = IF r = None THEN cache ELSE [cache EXCEPT ![r][1] = ts]
    /\ pc' = "idle" /\ new' = MEMERRMSG /\ list' = 0 /\ row' = None

Found(x) == {s \in hash[Bucket(x)] : text[s] = x}

(* Mutant: a dead string is not resurrected.                               *)
NewlstrDead(x, r, cache) ==
    \/ /\ x \notin Long
       /\ \E ts \in Found(x) : Return(ts, r, cache)
       /\ UNCHANGED <<strings, text, strt, marks>>
    \/ /\ x \in Long \/ Found(x) = {}
       /\ pc' = IF x \notin Long /\ nuse >= size /\ size <= MAX_INT \div 2
                THEN "luaS_resize" ELSE "createstrobj"
       /\ new' = x /\ list' = Bucket(x) /\ row' = r /\ strcache' = cache
       /\ UNCHANGED <<strings, text, strt, held, marks>>

(* luaS_newlstr, internshrstr up to its first request; cache is strcache   *)
(* as luaS_new has left it.                                                *)
Newlstr(x, r, cache) ==
    \/ /\ x \notin Long
       /\ \E ts \in Found(x) :
           /\ dead' = dead \ {ts}
           /\ Return(ts, r, cache)
       /\ UNCHANGED <<strings, text, strt, black, unswept, gcstate>>
    \/ /\ x \in Long \/ Found(x) = {}
       /\ pc' = IF x \notin Long /\ nuse >= size /\ size <= MAX_INT \div 2
                THEN "luaS_resize" ELSE "createstrobj"
       /\ new' = x /\ list' = Bucket(x) /\ row' = r /\ strcache' = cache
       /\ UNCHANGED <<strings, text, strt, held, marks>>

luaS_newlstr == pc = "idle" /\ \E x \in Text : Newlstr(x, None, strcache)

Hit(r, x) == {j \in Slot : text[strcache[r][j]] = x /\ \A k \in 1 .. j - 1 : text[strcache[r][k]] # x}

(* luaS_new: the cache first, else its entries move out by one place.      *)
luaS_new ==
    /\ pc = "idle"
    /\ \E r \in Row, x \in Text :
        \/ /\ \E j \in Hit(r, x) : held' = held \cup {strcache[r][j]}
           /\ UNCHANGED <<strings, text, strt, strcache, marks, call>>
        \/ /\ Hit(r, x) = {}
           /\ LET p == strcache[r] IN
              Newlstr(x, r, [strcache EXCEPT ![r] = [j \in Slot |-> IF j = 1 THEN p[1] ELSE p[j - 1]]])

(* Mutant: the bucket is that of the old size.                             *)
ResizeOldBucket ==
    /\ pc = "luaS_resize"
    /\ size' = 2 * size /\ hash' = Rehash(2 * size)
    /\ pc' = "createstrobj"
    /\ UNCHANGED <<strings, text, nuse, strcache, held, marks, new, list, row>>

(* The request of luaS_resize is granted.                                  *)
luaS_resize ==
    /\ pc = "luaS_resize"
    /\ size' = 2 * size /\ hash' = Rehash(2 * size)
    /\ list' = lmod(luaS_hash[new], 2 * size)
    /\ pc' = "createstrobj"
    /\ UNCHANGED <<strings, text, nuse, strcache, held, marks, new, row>>

(* The request of createstrobj is granted; a short string is linked.       *)
createstrobj ==
    /\ pc = "createstrobj"
    /\ \E ts \in TString \ strings :
        /\ strings' = strings \cup {ts}
        /\ text' = [text EXCEPT ![ts] = new]
        /\ hash' = IF new \in Long THEN hash ELSE [hash EXCEPT ![list] = @ \cup {ts}]
        /\ nuse' = IF new \in Long THEN nuse ELSE nuse + 1
        /\ Return(ts, row, strcache)
    /\ UNCHANGED <<size, marks>>

(* The program has no more use for a string.                               *)
Drop ==
    /\ pc = "idle"
    /\ \E ts \in held \ {memerrmsg} : held' = held \ {ts}
    /\ UNCHANGED <<strings, text, strt, strcache, marks, call>>

-----------------------------------------------------------------------------
(* The collector                                                           *)

(* Mutant: the cache is not cleared.                                       *)
ClearCacheNever(keep) == strcache' = strcache

(* luaS_clearcache, when the strings of keep are not white.                *)
ClearCache(keep) ==
    strcache' = [r \in Row |-> [j \in Slot |->
                    IF strcache[r][j] \in keep THEN strcache[r][j] ELSE memerrmsg]]

(* luaM_realloc_ runs luaC_fullgc(L, 1): every string that the program     *)
(* does not have is freed, and the table is not resized.                   *)
FullGC ==
    /\ Remove(strings \ held)
    /\ ClearCache(held)
    /\ black' = {} /\ dead' = {} /\ unswept' = {} /\ gcstate' = "propagate"
    /\ UNCHANGED <<size, held>>

Emergency == pc # "idle" /\ FullGC /\ UNCHANGED call

(* Still no memory: luaD_throw.                                            *)
MemoryError ==
    /\ pc # "idle" /\ FullGC
    /\ pc' = "idle" /\ new' = MEMERRMSG /\ list' = 0 /\ row' = None

Mark ==
    /\ pc = "idle" /\ gcstate = "propagate"
    /\ \E s \in held : iswhite(s) /\ black' = black \cup {s}
    /\ UNCHANGED <<strings, text, strt, strcache, held, dead, unswept, gcstate, call>>

(* The atomic phase marks the rest of what the program has; what is still  *)
(* white is dead from now on.                                              *)
Atomic ==
    LET live == black \cup held IN
    /\ pc = "idle" /\ gcstate = "propagate"
    /\ ClearCache(live)
    /\ black' = live \ {memerrmsg} /\ dead' = strings \ live
    /\ unswept' = strings \ {memerrmsg} /\ gcstate' = "sweep"
    /\ UNCHANGED <<strings, text, strt, held, call>>

Sweep ==
    /\ pc = "idle"
    /\ \E s \in unswept :
        /\ IF s \in dead THEN Remove({s}) ELSE UNCHANGED <<strings, text, hash, nuse>>
        /\ unswept' = unswept \ {s} /\ dead' = dead \ {s} /\ black' = black \ {s}
    /\ UNCHANGED <<size, strcache, held, gcstate, call>>

(* GCSswpend and checkSizes.                                               *)
SweepEnds ==
    /\ pc = "idle" /\ gcstate = "sweep" /\ unswept = {}
    /\ gcstate' = "propagate"
    /\ IF nuse < size \div 4
       THEN size' = size \div 2 /\ hash' = Rehash(size \div 2)
       ELSE UNCHANGED <<size, hash>>
    /\ UNCHANGED <<strings, text, nuse, strcache, held, black, dead, unswept, call>>

Next ==
    \/ luaS_newlstr \/ luaS_new \/ luaS_resize \/ createstrobj \/ Drop
    \/ Emergency \/ MemoryError \/ Mark \/ Atomic \/ Sweep \/ SweepEnds

Spec == Init /\ [][Next]_vars

-----------------------------------------------------------------------------
(* Properties                                                              *)

(* Every short string, dead ones included, is in the bucket of its hash    *)
(* and in no other, whatever the size of the table has become, and nuse    *)
(* counts them.                                                            *)
InBucket ==
    /\ \A i \in DOMAIN hash : hash[i] = {s \in Short(strings) : Bucket(text[s]) = i}
    /\ nuse = Cardinality(Short(strings))

(* The cache has no string that is freed, or is going to be: a hit is      *)
(* returned without a look at its colour.                                  *)
CacheAlive == \A r \in Row, j \in Slot : strcache[r][j] \in strings \ dead

(* The loop of luaS_resize, which moves strings to buckets it may visit    *)
(* again, puts every string where its hash says and empties the slice that *)
(* a smaller table loses.                                                  *)
LoopRehashes ==
    \A n \in {2 * size, size \div 2} \ {0} :
        \A i \in DOMAIN RehashLoop(n) :
            RehashLoop(n)[i] = IF i < n THEN Rehash(n)[i] ELSE {}

(* The strings that the program has keep their text and, if short, are one *)
(* object for each text.                                                   *)
HeldPool == {<<text[s], s>> : s \in held}
Pool == INSTANCE LuaPool WITH pool <- HeldPool
ImplementsPool == Pool!Spec

==============================================================================
