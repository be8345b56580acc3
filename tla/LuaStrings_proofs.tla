-------------------------- MODULE LuaStrings_proofs ---------------------------
(***************************************************************************)
(* Theorems about the string table for any texts and hashes, any number of *)
(* addresses, rows and places of the cache, and any sizes.                 *)
(***************************************************************************)
EXTENDS LuaStrings, FiniteSetTheorems, WellFoundedInduction, TLAPS

-----------------------------------------------------------------------------
(* The inductive invariant.                                                *)

(* Two short strings have different texts, dead ones included.             *)
Unique == \A s, t \in Short(strings) : text[s] = text[t] => s = t

HeldAlive ==
    /\ strings \subseteq TString
    /\ memerrmsg \in held /\ held \subseteq strings \ dead
    /\ text[memerrmsg] = MEMERRMSG

(* Dead strings are ahead of the sweep.                                    *)
Colours ==
    /\ dead \subseteq unswept /\ unswept \subseteq strings \ {memerrmsg} /\ black \subseteq strings
    /\ gcstate = "propagate" => unswept = {}

(* While a request waits, nobody makes the string that is being made, and  *)
(* the bucket stays the one it is to be linked in.                         *)
Requested ==
    /\ pc # "idle" /\ new \notin Long => \A s \in Short(strings) : text[s] # new
    /\ pc = "luaS_resize" => new \notin Long
    /\ pc = "createstrobj" => list = Bucket(new)

Inv == TypeOK /\ InBucket /\ Unique /\ HeldAlive /\ CacheAlive /\ Colours /\ Requested

-----------------------------------------------------------------------------
(* Buckets                                                                 *)

LEMMA ModRange ==
    ASSUME NEW h \in Nat, NEW n \in Nat \ {0}
    PROVE  lmod(h, n) \in 0 .. n - 1
  BY SMT DEF lmod

LEMMA HashOfText ==
    ASSUME NEW x \in Text
    PROVE  luaS_hash[x] \in Nat
  BY StringsAssumption DEF StringsAssumption

(* luaS_resize puts the strings of the table in the buckets of their new   *)
(* size.                                                                   *)
LEMMA Rehashed ==
    ASSUME TypeOK, InBucket, NEW n \in Nat \ {0}
    PROVE  /\ Rehash(n) \in [0 .. n - 1 -> SUBSET TString]
           /\ \A i \in 0 .. n - 1 :
                 Rehash(n)[i] = {s \in Short(strings) : lmod(luaS_hash[text[s]], n) = i}
<1>1. DOMAIN hash = 0 .. size - 1
  BY DEF TypeOK
<1>2. ASSUME NEW s \in Short(strings)
      PROVE  s \in UNION {hash[j] : j \in DOMAIN hash}
  <2>1. text[s] \in Text
    BY DEF Short, TypeOK
  <2>2. Bucket(text[s]) \in DOMAIN hash
    BY <1>1, <2>1, HashOfText, ModRange DEF Bucket, TypeOK
  <2>3. s \in hash[Bucket(text[s])]
    BY <2>2 DEF InBucket
  <2> QED BY <2>2, <2>3
<1>3. UNION {hash[j] : j \in DOMAIN hash} = Short(strings)
  BY <1>2 DEF InBucket
<1>4. Short(strings) \subseteq TString
  BY DEF Short, TypeOK
<1> QED BY <1>3, <1>4 DEF Rehash

-----------------------------------------------------------------------------
(* What the parts of the actions do                                        *)

LEMMA ShortFinite ==
    ASSUME TypeOK
    PROVE  IsFiniteSet(Short(strings))
<1>1. Short(strings) \in SUBSET TString
  BY DEF Short, TypeOK
<1> QED BY <1>1, FS_Subset, StringsAssumption DEF StringsAssumption

(* Freeing strings that the program does not have.                         *)
LEMMA Removed ==
    ASSUME TypeOK, InBucket, Unique, HeldAlive,
           NEW S, S \subseteq strings \ held, Remove(S), size' = size, held' = held
    PROVE  /\ strings' = strings \ S
           /\ text' \in [TString -> Text] /\ \A s \in strings' : text'[s] = text[s]
           /\ nuse' \in Nat /\ hash' \in [0 .. size' - 1 -> SUBSET TString]
           /\ InBucket' /\ Unique'
           /\ Short(strings)' \subseteq Short(strings)
           /\ text'[memerrmsg] = MEMERRMSG
<1>1. text' \in [TString -> Text] /\ \A s \in strings' : text'[s] = text[s]
  BY StringsAssumption DEF StringsAssumption, Remove, TypeOK
<1>2. strings' = strings \ S
  BY DEF Remove
<1>3. Short(strings)' = Short(strings) \ Short(S)
  BY <1>1, <1>2 DEF Short, TypeOK
<1>4. hash' \in [0 .. size' - 1 -> SUBSET TString]
  BY DEF Remove, TypeOK
<1>5. nuse' = Cardinality(Short(strings)')
  <2>1. Short(strings) \cap Short(S) = Short(S)
    BY DEF Short
  <2>2. IsFiniteSet(Short(strings))
    BY ShortFinite
  <2>3. \A T : Cardinality(Short(strings) \ T)
                  = Cardinality(Short(strings)) - Cardinality(Short(strings) \cap T)
    BY <2>2, FS_Difference
  <2>4. Cardinality(Short(strings)') = nuse - Cardinality(Short(S))
    BY <1>3, <2>1, <2>3 DEF InBucket
  <2> QED BY <2>4 DEF Remove
<1>6. nuse' \in Nat
  <2>1. IsFiniteSet(Short(strings)')
    BY <1>3, ShortFinite, FS_Difference
  <2> QED BY <1>5, <2>1, FS_CardinalityType
<1>7. ASSUME NEW i \in DOMAIN hash'
      PROVE  hash'[i] = {s \in Short(strings)' : Bucket(text[s])' = i}
  <2>1. i \in DOMAIN hash /\ hash'[i] = hash[i] \ S
    BY <1>7 DEF Remove
  <2>2. hash[i] = {s \in Short(strings) : Bucket(text[s]) = i}
    BY <2>1 DEF InBucket
  <2>3. \A s \in Short(strings)' : Bucket(text[s])' = Bucket(text[s])
    BY <1>1 DEF Short, Bucket
  <2>4. Short(strings)' = Short(strings) \ S
    BY <1>3 DEF Short
  <2> QED BY <2>1, <2>2, <2>3, <2>4
<1>8. InBucket'
  BY <1>5, <1>7 DEF InBucket
<1>9. Unique'
  BY <1>1, <1>3 DEF Unique, Short
<1>10. text'[memerrmsg] = MEMERRMSG
  BY <1>1, <1>2 DEF HeldAlive, TypeOK
<1> QED BY <1>1, <1>2, <1>3, <1>4, <1>6, <1>8, <1>9, <1>10

(* A string of the right kind is returned.                                 *)
LEMMA Returned ==
    ASSUME NEW ts \in TString, NEW r \in Row \cup {None}, held \subseteq TString,
           NEW cache \in [Row -> [Slot -> TString]], Return(ts, r, cache)
    PROVE  /\ strcache' \in [Row -> [Slot -> TString]]
           /\ held' = held \cup {ts} /\ held' \subseteq TString
           /\ pc' = "idle" /\ new' \in Text /\ list' \in Nat /\ row' \in Row \cup {None}
           /\ \A q \in Row, j \in Slot : strcache'[q][j] \in {ts, cache[q][j]}
<1>1. 1 \in Slot /\ None \notin Row
  BY StringsAssumption DEF StringsAssumption, Slot
<1>2. CASE r = None
  BY <1>1, <1>2, StringsAssumption DEF StringsAssumption, Return
<1>3. CASE r # None
  <2>1. strcache' = [cache EXCEPT ![r][1] = ts] /\ r \in Row
    BY <1>3 DEF Return
  <2>2. strcache' \in [Row -> [Slot -> TString]]
    BY <1>1, <2>1
  <2>3. \A q \in Row, j \in Slot : strcache'[q][j] \in {ts, cache[q][j]}
    BY <1>1, <2>1
  <2> QED BY <2>2, <2>3, StringsAssumption DEF StringsAssumption, Return
<1> QED BY <1>2, <1>3

-----------------------------------------------------------------------------
(* The invariant holds                                                     *)

LEMMA InvInit == Init => Inv
<1> SUFFICES ASSUME Init PROVE Inv
  OBVIOUS
<1> USE StringsAssumption DEF StringsAssumption, Init
<1>1. TypeOK
  BY DEF TypeOK
<1>2. Short(strings) = {memerrmsg}
  BY DEF Short
<1>3. Cardinality(Short(strings)) = 1
  BY <1>2, FS_Singleton
<1>4. ASSUME NEW i \in DOMAIN hash
      PROVE  hash[i] = {s \in Short(strings) : Bucket(text[s]) = i}
  BY <1>2, <1>4 DEF Bucket
<1>5. InBucket
  BY <1>3, <1>4 DEF InBucket
<1>6. Unique /\ HeldAlive /\ CacheAlive /\ Colours /\ Requested
  BY <1>2 DEF Unique, HeldAlive, CacheAlive, Colours, Requested
<1> QED BY <1>1, <1>5, <1>6 DEF Inv

(* What an action that leaves the table alone must still see to.           *)
LEMMA TableUnchanged ==
    ASSUME Inv, UNCHANGED <<strings, text, strt>>
    PROVE  InBucket' /\ Unique' /\ Short(strings)' = Short(strings)
  BY DEF Inv, strt, InBucket, Unique, Short, Bucket

(* A string is found in the table, or a request is to be made.             *)
LEMMA NewlstrInv ==
    ASSUME Inv, pc = "idle", NEW x \in Text, NEW r \in Row \cup {None},
           NEW cache \in [Row -> [Slot -> TString]],
           \A q \in Row, j \in Slot : cache[q][j] \in strings \ dead,
           Newlstr(x, r, cache)
    PROVE  Inv'
<1>1. CASE /\ x \notin Long
           /\ \E ts \in Found(x) : dead' = dead \ {ts} /\ Return(ts, r, cache)
           /\ UNCHANGED <<strings, text, strt, black, unswept, gcstate>>
  <2>1. PICK ts \in Found(x) : dead' = dead \ {ts} /\ Return(ts, r, cache)
    BY <1>1
  <2>2. ts \in strings /\ ts \in TString
    <3>1. Bucket(x) \in DOMAIN hash
      BY HashOfText, ModRange DEF Bucket, Inv, TypeOK
    <3> QED BY <3>1 DEF Found, Inv, InBucket, Short, TypeOK
  <2>3. /\ strcache' \in [Row -> [Slot -> TString]]
        /\ held' = held \cup {ts} /\ held' \subseteq TString
        /\ pc' = "idle" /\ new' \in Text /\ list' \in Nat /\ row' \in Row \cup {None}
        /\ \A q \in Row, j \in Slot : strcache'[q][j] \in {ts, cache[q][j]}
    BY <2>1, <2>2, Returned DEF Inv, TypeOK
  <2>4. TypeOK'
    BY <1>1, <2>1, <2>3 DEF Inv, TypeOK, strt
  <2>5. HeldAlive' /\ CacheAlive' /\ Colours' /\ Requested'
    BY <1>1, <2>1, <2>2, <2>3 DEF Inv, HeldAlive, CacheAlive, Colours, Requested
  <2> QED BY <1>1, <2>4, <2>5, TableUnchanged DEF Inv
<1>2. CASE /\ x \in Long \/ Found(x) = {}
           /\ pc' = IF x \notin Long /\ nuse >= size /\ size <= MAX_INT \div 2
                    THEN "luaS_resize" ELSE "createstrobj"
           /\ new' = x /\ list' = Bucket(x) /\ row' = r /\ strcache' = cache
           /\ UNCHANGED <<strings, text, strt, held, marks>>
  <2>1. Bucket(x) \in DOMAIN hash
    BY HashOfText, ModRange DEF Bucket, Inv, TypeOK
  <2>2. Bucket(x) \in Nat
    BY <2>1 DEF Inv, TypeOK
  <2>3. TypeOK'
    BY <1>2, <2>2 DEF Inv, TypeOK, strt, marks
  <2>4. ASSUME x \notin Long, NEW s \in Short(strings)
        PROVE  text[s] # x
    BY <1>2, <2>1, <2>4 DEF Found, Inv, InBucket
  <2>5. Requested'
    <3>1. Short(strings)' = Short(strings) /\ text' = text
      BY <1>2, TableUnchanged DEF strt
    <3>2. \A s \in Short(strings)' : new' \notin Long => text'[s] # new'
      BY <1>2, <2>4, <3>1
    <3>3. list' = Bucket(new)'
      BY <1>2 DEF Bucket, strt
    <3> QED BY <1>2, <3>2, <3>3 DEF Requested
  <2>6. HeldAlive' /\ CacheAlive' /\ Colours'
    BY <1>2 DEF Inv, HeldAlive, CacheAlive, Colours, marks
  <2> QED BY <1>2, <2>3, <2>5, <2>6, TableUnchanged DEF Inv
<1> QED BY <1>1, <1>2 DEF Newlstr

LEMMA ResizeInv ==
    ASSUME Inv, luaS_resize
    PROVE  Inv'
<1> USE DEF luaS_resize
<1>1. 2 * size \in Nat \ {0}
  BY DEF Inv, TypeOK
<1>2. /\ hash' \in [0 .. size' - 1 -> SUBSET TString]
      /\ \A i \in 0 .. size' - 1 : hash'[i] = {s \in Short(strings) : lmod(luaS_hash[text[s]], size') = i}
  BY <1>1, Rehashed DEF Inv
<1>3. lmod(luaS_hash[new], 2 * size) \in Nat
  <2>1. luaS_hash[new] \in Nat
    BY HashOfText DEF Inv, TypeOK
  <2>2. lmod(luaS_hash[new], 2 * size) \in 0 .. 2 * size - 1
    BY <1>1, <2>1, ModRange
  <2> QED BY <1>1, <2>2
<1>4. TypeOK'
  BY <1>1, <1>2, <1>3 DEF Inv, TypeOK, marks
<1>5. Short(strings)' = Short(strings)
  BY DEF Short
<1>6. InBucket'
  <2>1. DOMAIN hash' = 0 .. size' - 1
    BY <1>2
  <2>2. \A s : Bucket(text[s])' = lmod(luaS_hash[text[s]], size')
    BY DEF Bucket
  <2>3. nuse' = Cardinality(Short(strings)')
    BY <1>5 DEF Inv, InBucket
  <2> HIDE DEF luaS_resize
  <2> QED BY <1>2, <1>5, <2>1, <2>2, <2>3 DEF InBucket
<1>7. Unique' /\ HeldAlive' /\ CacheAlive' /\ Colours' /\ Requested'
  BY <1>5 DEF Inv, Unique, HeldAlive, CacheAlive, Colours, Requested, marks, Bucket
<1> QED BY <1>4, <1>6, <1>7 DEF Inv

LEMMA CreateInv ==
    ASSUME Inv, createstrobj
    PROVE  Inv'
<1>1. PICK ts \in TString \ strings :
        /\ strings' = strings \cup {ts}
        /\ text' = [text EXCEPT ![ts] = new]
        /\ hash' = IF new \in Long THEN hash ELSE [hash EXCEPT ![list] = @ \cup {ts}]
        /\ nuse' = IF new \in Long THEN nuse ELSE nuse + 1
        /\ Return(ts, row, strcache)
  BY DEF createstrobj
<1>2. UNCHANGED <<size, marks>> /\ pc = "createstrobj"
  BY DEF createstrobj
<1>3. /\ strcache' \in [Row -> [Slot -> TString]]
      /\ held' = held \cup {ts} /\ held' \subseteq TString
      /\ pc' = "idle" /\ new' \in Text /\ list' \in Nat /\ row' \in Row \cup {None}
      /\ \A q \in Row, j \in Slot : strcache'[q][j] \in {ts, strcache[q][j]}
  BY <1>1, Returned DEF Inv, TypeOK
<1>4. /\ text' \in [TString -> Text] /\ text'[ts] = new
      /\ \A s \in strings : text'[s] = text[s]
  BY <1>1 DEF Inv, TypeOK
<1>5. TypeOK'
  <2>1. hash' \in [0 .. size' - 1 -> SUBSET TString]
    BY <1>1, <1>2 DEF Inv, TypeOK
  <2>2. nuse' \in Nat
    BY <1>1 DEF Inv, TypeOK
  <2> QED BY <1>1, <1>2, <1>3, <1>4, <2>1, <2>2 DEF Inv, TypeOK, marks
<1>6. Short(strings)' = IF new \in Long THEN Short(strings) ELSE Short(strings) \cup {ts}
  BY <1>1, <1>4 DEF Short
<1>7. InBucket'
  <2>1. nuse' = Cardinality(Short(strings)')
    <3>1. IsFiniteSet(Short(strings)) /\ ts \notin Short(strings)
      BY <1>1, ShortFinite DEF Inv, Short
    <3>2. Cardinality(Short(strings) \cup {ts}) = Cardinality(Short(strings)) + 1
      BY <3>1, FS_AddElement
    <3> QED BY <1>1, <1>6, <3>2 DEF Inv, InBucket
  <2>2. ASSUME NEW i \in DOMAIN hash'
        PROVE  hash'[i] = {s \in Short(strings)' : Bucket(text[s])' = i}
    <3>1. i \in DOMAIN hash
      BY <1>1 DEF Inv, TypeOK
    <3>2. hash[i] = {s \in Short(strings) : Bucket(text[s]) = i}
      BY <3>1 DEF Inv, InBucket
    <3>3. \A s \in Short(strings) : Bucket(text[s])' = Bucket(text[s])
      BY <1>2, <1>4 DEF Bucket, Short
    <3>4. Bucket(text[ts])' = list
      BY <1>2, <1>4 DEF Bucket, Inv, Requested
    <3>5. CASE new \in Long
      BY <1>1, <1>6, <3>2, <3>3, <3>5
    <3>6. CASE new \notin Long
      <4>1. hash'[i] = IF i = list THEN hash[i] \cup {ts} ELSE hash[i]
        BY <1>1, <3>1, <3>6
      <4> QED BY <1>6, <3>2, <3>3, <3>4, <3>6, <4>1
    <3> QED BY <3>5, <3>6
  <2> QED BY <2>1, <2>2 DEF InBucket
<1>8. Unique'
  BY <1>2, <1>4, <1>6 DEF Inv, Unique, Requested, Short
<1>9. HeldAlive'
  <2>1. ts # memerrmsg /\ memerrmsg \in strings
    BY <1>1 DEF Inv, HeldAlive
  <2>2. ts \notin dead
    BY <1>1 DEF Inv, Colours
  <2> QED BY <1>1, <1>2, <1>3, <1>4, <2>1, <2>2 DEF Inv, HeldAlive, marks
<1>10. Colours' /\ CacheAlive' /\ Requested'
  BY <1>1, <1>2, <1>3 DEF Inv, Colours, CacheAlive, Requested, marks
<1> QED BY <1>5, <1>7, <1>8, <1>9, <1>10 DEF Inv

LEMMA NewInv ==
    ASSUME Inv, luaS_new
    PROVE  Inv'
<1>1. PICK r \in Row, x \in Text :
        \/ /\ \E j \in Hit(r, x) : held' = held \cup {strcache[r][j]}
           /\ UNCHANGED <<strings, text, strt, strcache, marks, call>>
        \/ /\ Hit(r, x) = {}
           /\ LET p == strcache[r] IN
              Newlstr(x, r, [strcache EXCEPT ![r] = [j \in Slot |-> IF j = 1 THEN p[1] ELSE p[j - 1]]])
  BY DEF luaS_new
<1>2. CASE /\ \E j \in Hit(r, x) : held' = held \cup {strcache[r][j]}
           /\ UNCHANGED <<strings, text, strt, strcache, marks, call>>
  <2>1. PICK j \in Slot : held' = held \cup {strcache[r][j]}
    BY <1>2 DEF Hit
  <2>2. strcache[r][j] \in strings \ dead
    BY DEF Inv, CacheAlive
  <2>3. TypeOK'
    BY <1>2, <2>1 DEF Inv, TypeOK, strt, marks, call
  <2>4. InBucket' /\ Unique' /\ Short(strings)' = Short(strings)
    BY <1>2, TableUnchanged
  <2>5. HeldAlive' /\ CacheAlive' /\ Colours'
    BY <1>2, <2>1, <2>2 DEF Inv, HeldAlive, CacheAlive, Colours, marks
  <2>6. Requested'
    BY <1>2, <2>4 DEF Inv, Requested, Bucket, call, strt
  <2> QED BY <2>3, <2>4, <2>5, <2>6 DEF Inv
<1>3. CASE /\ Hit(r, x) = {}
           /\ LET p == strcache[r] IN
              Newlstr(x, r, [strcache EXCEPT ![r] = [j \in Slot |-> IF j = 1 THEN p[1] ELSE p[j - 1]]])
  <2> DEFINE moved == [j \in Slot |-> IF j = 1 THEN strcache[r][1] ELSE strcache[r][j - 1]]
             cache == [strcache EXCEPT ![r] = moved]
  <2>1. 1 \in Slot /\ \A j \in Slot : j # 1 => j - 1 \in Slot
    BY StringsAssumption DEF StringsAssumption, Slot
  <2>2. \A j \in Slot : moved[j] \in TString /\ moved[j] \in strings \ dead
    BY <2>1 DEF Inv, TypeOK, CacheAlive
  <2>3. cache \in [Row -> [Slot -> TString]]
    BY <2>2 DEF Inv, TypeOK
  <2>4. \A q \in Row, j \in Slot : cache[q][j] \in strings \ dead
    BY <2>2 DEF Inv, TypeOK, CacheAlive
  <2>5. pc = "idle"
    BY DEF luaS_new
  <2>6. Newlstr(x, r, cache)
    BY <1>3
  <2> HIDE DEF cache
  <2> QED BY <2>3, <2>4, <2>5, <2>6, NewlstrInv
<1> QED BY <1>1, <1>2, <1>3

(* The program and the marking do not touch the table.                     *)
LEMMA DropInv ==
    ASSUME Inv, Drop
    PROVE  Inv'
<1>1. UNCHANGED <<strings, text, strt>> /\ held' \subseteq held /\ memerrmsg \in held'
  BY DEF Drop, Inv, HeldAlive
<1>2. TypeOK'
  BY <1>1 DEF Inv, TypeOK, Drop, strt, marks, call
<1>3. HeldAlive' /\ CacheAlive' /\ Colours' /\ Requested'
  BY <1>1 DEF Inv, HeldAlive, CacheAlive, Colours, Requested, Drop, marks, call
<1> QED BY <1>1, <1>2, <1>3, TableUnchanged DEF Inv

(* An emergency collection, in the middle of the making of a string.       *)
LEMMA FullGCInv ==
    ASSUME Inv, FullGC, pc' \in {pc, "idle"}, new' \in Text,
           pc' # "idle" => UNCHANGED call, list' \in Nat, row' \in Row \cup {None}
    PROVE  Inv'
<1>1. strings \ held \subseteq strings \ held /\ size' = size /\ held' = held
  BY DEF FullGC
<1>2. /\ strings' = strings \ (strings \ held)
      /\ text' \in [TString -> Text] /\ \A s \in strings' : text'[s] = text[s]
      /\ nuse' \in Nat /\ hash' \in [0 .. size' - 1 -> SUBSET TString]
      /\ InBucket' /\ Unique'
      /\ Short(strings)' \subseteq Short(strings)
      /\ text'[memerrmsg] = MEMERRMSG
  <2>1. Remove(strings \ held)
    BY DEF FullGC
  <2> QED BY <1>1, <2>1, Removed DEF Inv
<1>3. strings' = held
  BY <1>2 DEF Inv, HeldAlive
<1>4. \A r \in Row, j \in Slot : strcache'[r][j] \in held
  BY DEF FullGC, ClearCache, Inv, HeldAlive
<1>5. strcache' \in [Row -> [Slot -> TString]]
  BY StringsAssumption DEF StringsAssumption, FullGC, ClearCache, Inv, TypeOK
<1>6. TypeOK'
  BY <1>1, <1>2, <1>3, <1>5 DEF Inv, TypeOK, FullGC
<1>7. HeldAlive' /\ CacheAlive' /\ Colours'
  BY <1>1, <1>2, <1>3, <1>4 DEF Inv, HeldAlive, CacheAlive, Colours, FullGC
<1>8. Requested'
  <2>1. \A s \in Short(strings)' : s \in Short(strings) /\ text'[s] = text[s]
    BY <1>2 DEF Short
  <2> QED BY <1>1, <2>1 DEF Inv, Requested, Bucket, call
<1> QED BY <1>2, <1>6, <1>7, <1>8 DEF Inv

LEMMA RequestInv ==
    ASSUME Inv, Emergency \/ MemoryError
    PROVE  Inv'
<1>1. CASE Emergency
  BY <1>1, FullGCInv DEF Emergency, call, Inv, TypeOK
<1>2. CASE MemoryError
  BY <1>2, FullGCInv, StringsAssumption DEF StringsAssumption, MemoryError
<1> QED BY <1>1, <1>2

LEMMA MarkInv ==
    ASSUME Inv, Mark
    PROVE  Inv'
<1>1. UNCHANGED <<strings, text, strt>>
  BY DEF Mark
<1>2. TypeOK'
  BY <1>1 DEF Inv, TypeOK, Mark, strt, call
<1>3. HeldAlive' /\ CacheAlive' /\ Colours' /\ Requested'
  BY <1>1 DEF Inv, HeldAlive, CacheAlive, Colours, Requested, Mark, call
<1> QED BY <1>1, <1>2, <1>3, TableUnchanged DEF Inv

LEMMA AtomicInv ==
    ASSUME Inv, Atomic
    PROVE  Inv'
<1>1. UNCHANGED <<strings, text, strt, held>>
  BY DEF Atomic
<1>2. black \cup held \subseteq strings /\ memerrmsg \in held
  BY DEF Inv, Colours, HeldAlive
<1>3. strcache' \in [Row -> [Slot -> TString]]
  BY StringsAssumption DEF StringsAssumption, Atomic, ClearCache, Inv, TypeOK
<1>4. \A r \in Row, j \in Slot : strcache'[r][j] \in black \cup held
  BY <1>2 DEF Atomic, ClearCache
<1>5. TypeOK'
  BY <1>1, <1>2, <1>3 DEF Inv, TypeOK, Atomic, strt, call
<1>6. HeldAlive' /\ CacheAlive' /\ Colours' /\ Requested'
  BY <1>1, <1>2, <1>4 DEF Inv, HeldAlive, CacheAlive, Colours, Requested, Atomic, call
<1> QED BY <1>1, <1>5, <1>6, TableUnchanged DEF Inv

LEMMA SweepInv ==
    ASSUME Inv, Sweep
    PROVE  Inv'
<1>1. PICK s \in unswept :
        /\ IF s \in dead THEN Remove({s}) ELSE UNCHANGED <<strings, text, hash, nuse>>
        /\ unswept' = unswept \ {s} /\ dead' = dead \ {s} /\ black' = black \ {s}
  BY DEF Sweep
<1>2. UNCHANGED <<size, strcache, held, gcstate, call>> /\ pc = "idle"
  BY DEF Sweep
<1>3. CASE s \in dead
  <2>1. Remove({s}) /\ {s} \subseteq strings \ held
    BY <1>1, <1>3 DEF Inv, HeldAlive, Colours
  <2>2. /\ strings' = strings \ {s}
        /\ text' \in [TString -> Text] /\ \A t \in strings' : text'[t] = text[t]
        /\ nuse' \in Nat /\ hash' \in [0 .. size' - 1 -> SUBSET TString]
        /\ InBucket' /\ Unique'
        /\ text'[memerrmsg] = MEMERRMSG
    BY <1>2, <2>1, Removed DEF Inv
  <2>3. TypeOK'
    BY <1>1, <1>2, <2>2 DEF Inv, TypeOK, call
  <2>4. HeldAlive' /\ CacheAlive' /\ Colours' /\ Requested'
    BY <1>1, <1>2, <1>3, <2>1, <2>2 DEF Inv, HeldAlive, CacheAlive, Colours, Requested, call
  <2> QED BY <2>2, <2>3, <2>4 DEF Inv
<1>4. CASE s \notin dead
  <2>1. UNCHANGED <<strings, text, strt>>
    BY <1>1, <1>2, <1>4 DEF strt
  <2>2. TypeOK'
    BY <1>1, <1>2, <2>1 DEF Inv, TypeOK, strt, call
  <2>3. HeldAlive' /\ CacheAlive' /\ Colours' /\ Requested'
    BY <1>1, <1>2, <1>4, <2>1 DEF Inv, HeldAlive, CacheAlive, Colours, Requested, call
  <2> QED BY <2>1, <2>2, <2>3, TableUnchanged DEF Inv
<1> QED BY <1>3, <1>4

(* A smaller table still has a bucket.                                     *)
LEMMA SweepEndsInv ==
    ASSUME Inv, SweepEnds
    PROVE  Inv'
<1>1. CASE nuse < size \div 4
  <2>1. size \div 2 \in Nat \ {0}
    BY <1>1 DEF Inv, TypeOK
  <2>2. size' = size \div 2 /\ hash' = Rehash(size \div 2) /\ UNCHANGED <<strings, text, nuse>>
    BY <1>1 DEF SweepEnds
  <2>3. /\ hash' \in [0 .. size' - 1 -> SUBSET TString]
        /\ \A i \in 0 .. size' - 1 :
              hash'[i] = {s \in Short(strings) : lmod(luaS_hash[text[s]], size') = i}
    BY <2>1, <2>2, Rehashed DEF Inv
  <2>4. Short(strings)' = Short(strings)
    BY <2>2 DEF Short
  <2>5. InBucket'
    <3>1. DOMAIN hash' = 0 .. size' - 1
      BY <2>3
    <3>2. \A s : Bucket(text[s])' = lmod(luaS_hash[text[s]], size')
      BY <2>2 DEF Bucket
    <3>3. nuse' = Cardinality(Short(strings)')
      BY <2>2, <2>4 DEF Inv, InBucket
    <3> QED BY <2>3, <2>4, <3>1, <3>2, <3>3 DEF InBucket
  <2>6. TypeOK'
    BY <2>1, <2>2, <2>3 DEF Inv, TypeOK, SweepEnds, call
  <2>7. Unique' /\ HeldAlive' /\ CacheAlive' /\ Colours' /\ Requested'
    BY <2>2, <2>4 DEF Inv, Unique, HeldAlive, CacheAlive, Colours, Requested, SweepEnds, call
  <2> QED BY <2>5, <2>6, <2>7 DEF Inv
<1>2. CASE ~(nuse < size \div 4)
  <2>1. UNCHANGED <<strings, text, strt>>
    BY <1>2 DEF SweepEnds, strt
  <2>2. TypeOK'
    BY <2>1 DEF Inv, TypeOK, SweepEnds, strt, call
  <2>3. HeldAlive' /\ CacheAlive' /\ Colours' /\ Requested'
    BY <2>1 DEF Inv, HeldAlive, CacheAlive, Colours, Requested, SweepEnds, call
  <2> QED BY <2>1, <2>2, <2>3, TableUnchanged DEF Inv
<1> QED BY <1>1, <1>2

LEMMA InvNext == Inv /\ [Next]_vars => Inv'
<1> SUFFICES ASSUME Inv, [Next]_vars PROVE Inv'
  OBVIOUS
<1>1. CASE luaS_newlstr
  BY <1>1, NewlstrInv DEF luaS_newlstr, Inv, TypeOK, CacheAlive
<1>2. CASE luaS_new
  BY <1>2, NewInv
<1>3. CASE luaS_resize
  BY <1>3, ResizeInv
<1>4. CASE createstrobj
  BY <1>4, CreateInv
<1>5. CASE Drop
  BY <1>5, DropInv
<1>6. CASE Emergency \/ MemoryError
  BY <1>6, RequestInv
<1>7. CASE Mark
  BY <1>7, MarkInv
<1>8. CASE Atomic
  BY <1>8, AtomicInv
<1>9. CASE Sweep
  BY <1>9, SweepInv
<1>10. CASE SweepEnds
  BY <1>10, SweepEndsInv
<1>11. CASE UNCHANGED vars
  <2>1. UNCHANGED <<strings, text, strt>>
    BY <1>11 DEF vars
  <2>2. TypeOK'
    BY <1>11 DEF Inv, TypeOK, vars, strt, marks, call
  <2>3. HeldAlive' /\ CacheAlive' /\ Colours'
    BY <1>11 DEF Inv, HeldAlive, CacheAlive, Colours, vars, marks
  <2>4. Requested'
    BY <1>11, <2>1, TableUnchanged DEF Inv, Requested, Bucket, vars, call, strt
  <2> QED BY <2>1, <2>2, <2>3, <2>4, TableUnchanged DEF Inv
<1> QED BY <1>1, <1>2, <1>3, <1>4, <1>5, <1>6, <1>7, <1>8, <1>9, <1>10, <1>11 DEF Next

(* The table, the cache and the collector's marks agree in every state.    *)
THEOREM InvCorrect == Spec => []Inv
<1>1. Init => Inv
  BY InvInit
<1>2. Inv /\ [Next]_vars => Inv'
  BY InvNext
<1> QED BY <1>1, <1>2, PTL DEF Spec

(* The table of short strings: every string is in the bucket of its hash,  *)
(* in any state of the collector, after any resize and any failure.        *)
THEOREM StringsInBuckets == Spec => []InBucket
<1>1. Inv => InBucket
  BY DEF Inv
<1> QED BY <1>1, InvCorrect, PTL

(* The cache of C strings never has a string that was or will be freed.    *)
THEOREM CachedStringsAlive == Spec => []CacheAlive
<1>1. Inv => CacheAlive
  BY DEF Inv
<1> QED BY <1>1, InvCorrect, PTL

-----------------------------------------------------------------------------
(* The loop of luaS_resize                                                 *)

LessThan == {p \in Nat \X Nat : p[1] < p[2]}

LEMMA LeastNumber ==
    ASSUME NEW T, T \subseteq Nat, T # {}
    PROVE  \E n \in T : \A m \in T : n <= m
<1>1. IsWellFoundedOn(LessThan, Nat)
  BY NatLessThanWellFounded DEF OpToRel, LessThan
<1>2. PICK n \in T : \A m \in T : <<m, n>> \notin LessThan
  BY <1>1, WFMin
<1>3. ASSUME NEW m \in T PROVE n <= m
  <2>1. m \in Nat /\ n \in Nat /\ <<m, n>> \notin LessThan
    BY <1>2
  <2> QED BY <2>1 DEF LessThan
<1> QED BY <1>3

(* Induction up to N, for the numbers in a set.                            *)
LEMMA UpTo ==
    ASSUME NEW N \in Nat, NEW X, 0 \in X, \A n \in 0 .. N - 1 : n \in X => n + 1 \in X
    PROVE  0 .. N \subseteq X
<1> DEFINE T == {n \in 0 .. N : n \notin X}
<1>1. SUFFICES ASSUME T # {} PROVE FALSE
  OBVIOUS
<1>2. T \subseteq Nat
  OBVIOUS
<1> HIDE DEF T
<1>3. PICK n \in T : \A m \in T : n <= m
  BY <1>1, <1>2, LeastNumber
<1>4. n \in 0 .. N /\ n \notin X /\ n # 0
  BY <1>3 DEF T
<1>5. n - 1 \in 0 .. N - 1 /\ (n - 1) + 1 = n
  BY <1>4
<1>6. n - 1 \notin T
  BY <1>3, <1>4, <1>5
<1> QED BY <1>4, <1>5, <1>6 DEF T

(* A recursive function of the numbers up to N exists.                     *)
Steps(step, N, S) == step \in [(1 .. N) \X S -> S]
Iterates(f, base, step, N, S) ==
    /\ f \in [0 .. N -> S]
    /\ f[0] = base /\ \A i \in 1 .. N : f[i] = step[<<i, f[i - 1]>>]

LEMMA RecursionExists ==
    ASSUME NEW N \in Nat, NEW S, NEW base \in S, NEW step, Steps(step, N, S)
    PROVE  \E f : Iterates(f, base, step, N, S)
<1> USE DEF Steps
<1> DEFINE Begins(g, n) == g[0] = base /\ \A i \in 1 .. n : g[i] = step[<<i, g[i - 1]>>]
           X == {n \in Nat : \E g \in [0 .. n -> S] : Begins(g, n)}
<1>1. 0 \in X
  <2>1. [i \in 0 .. 0 |-> base] \in [0 .. 0 -> S] /\ Begins([i \in 0 .. 0 |-> base], 0)
    OBVIOUS
  <2> QED BY <2>1
<1>2. ASSUME NEW n \in 0 .. N - 1, n \in X PROVE n + 1 \in X
  <2>1. PICK g \in [0 .. n -> S] : Begins(g, n)
    BY <1>2
  <2>2. n + 1 \in 1 .. N /\ n \in 0 .. n /\ n + 1 \in Nat
    OBVIOUS
  <2> DEFINE h == [i \in 0 .. n + 1 |-> IF i = n + 1 THEN step[<<n + 1, g[n]>>] ELSE g[i]]
  <2>3. h \in [0 .. n + 1 -> S]
    BY <2>1, <2>2
  <2>4. \A i \in 0 .. n : h[i] = g[i]
    BY <2>2
  <2>5. h[n + 1] = step[<<n + 1, h[n]>>]
    <3>1. n + 1 \in 0 .. n + 1 /\ h[n + 1] = step[<<n + 1, g[n]>>]
      BY <2>2
    <3> QED BY <2>2, <2>4, <3>1
  <2> HIDE DEF h
  <2>6. ASSUME NEW i \in 1 .. n + 1 PROVE h[i] = step[<<i, h[i - 1]>>]
    <3>1. CASE i = n + 1
      BY <2>2, <2>5, <3>1
    <3>2. CASE i # n + 1
      <4>1. i \in 1 .. n /\ i \in 0 .. n /\ i - 1 \in 0 .. n
        BY <3>2
      <4> QED BY <2>1, <2>4, <4>1
    <3> QED BY <3>1, <3>2
  <2>7. h[0] = base
    BY <2>1, <2>4
  <2>8. \E e \in [0 .. n + 1 -> S] : Begins(e, n + 1)
    BY <2>3, <2>6, <2>7
  <2> QED BY <2>2, <2>8
<1> HIDE DEF X
<1>3. N \in X
  BY <1>1, <1>2, UpTo
<1>4. PICK f \in [0 .. N -> S] : Begins(f, N)
  BY <1>3 DEF X
<1> QED BY <1>4 DEF Iterates

(* The loop puts every string where its hash says, whatever the sizes.     *)
LEMMA LoopMoves ==
    ASSUME TypeOK, InBucket, NEW n \in Nat \ {0}
    PROVE  \A k \in DOMAIN RehashLoop(n) :
             RehashLoop(n)[k] = IF k < n THEN Rehash(n)[k] ELSE {}
<1> DEFINE larger == IF n > size THEN n ELSE size
           grown == [i \in 0 .. larger - 1 |-> IF i < size THEN hash[i] ELSE {}]
           To(s) == lmod(luaS_hash[text[s]], n)
           From(s) == Bucket(text[s])
           Moves(i, done) == [k \in 0 .. larger - 1 |->
                     (IF k = i - 1 THEN {} ELSE done[k]) \cup {s \in done[i - 1] : To(s) = k}]
           move == CHOOSE m : m = [i \in 0 .. size |-> IF i = 0 THEN grown ELSE Moves(i, m[i - 1])]
           S == [0 .. larger - 1 -> SUBSET TString]
           step == [p \in (1 .. size) \X S |-> Moves(p[1], p[2])]
<1>1. RehashLoop(n) = move[size]
  BY DEF RehashLoop
<1>2. size \in Nat \ {0} /\ larger \in Nat \ {0} /\ size <= larger /\ n <= larger
      /\ hash \in [0 .. size - 1 -> SUBSET TString]
  BY DEF TypeOK
<1>3. \A s \in Short(strings) : To(s) \in 0 .. n - 1 /\ From(s) \in 0 .. size - 1 /\ s \in TString
  <2> TAKE s \in Short(strings)
  <2>1. text[s] \in Text /\ s \in TString
    BY DEF Short, TypeOK
  <2> QED BY <1>2, <2>1, HashOfText, ModRange DEF Bucket
<1> HIDE DEF larger
<1>4. grown \in S
  BY <1>2
<1>5. ASSUME NEW i \in 1 .. size, NEW done \in S PROVE Moves(i, done) \in S
  BY <1>2
<1>6. step \in [(1 .. size) \X S -> S]
  <2> HIDE DEF Moves, S
  <2> QED BY <1>5
<1>7. \E m : m = [i \in 0 .. size |-> IF i = 0 THEN grown ELSE Moves(i, m[i - 1])]
  <2> HIDE DEF grown, S, Moves
  <2>1. PICK f : Iterates(f, grown, step, size, S)
    <3> HIDE DEF step
    <3>1. size \in Nat /\ Steps(step, size, S)
      BY <1>2, <1>6 DEF Steps
    <3> QED BY <3>1, <1>4, RecursionExists
  <2>2. ASSUME NEW i \in 0 .. size
        PROVE  f[i] = IF i = 0 THEN grown ELSE step[<<i, f[i - 1]>>]
    <3>1. i = 0 \/ i \in 1 .. size
      BY <1>2
    <3> HIDE DEF step
    <3> QED BY <2>1, <3>1 DEF Iterates
  <2>3. ASSUME NEW i \in 0 .. size, i # 0
        PROVE  step[<<i, f[i - 1]>>] = Moves(i, f[i - 1])
    <3>1. i \in 1 .. size /\ i - 1 \in 0 .. size
      BY <1>2, <2>3
    <3>2. f[i - 1] \in S
      BY <2>1, <3>1 DEF Iterates
    <3> QED BY <3>1, <3>2
  <2>4. \A i \in 0 .. size : f[i] = IF i = 0 THEN grown ELSE Moves(i, f[i - 1])
    BY <2>2, <2>3
  <2>5. f = [i \in 0 .. size |-> IF i = 0 THEN grown ELSE Moves(i, f[i - 1])]
    BY <2>1, <2>4 DEF Iterates
  <2> QED BY <2>5
<1>8. move = [i \in 0 .. size |-> IF i = 0 THEN grown ELSE Moves(i, move[i - 1])]
  <2> HIDE DEF grown, Moves
  <2> QED BY <1>7
<1> HIDE DEF move
<1> DEFINE Loc(s, i) == IF From(s) < i THEN To(s) ELSE From(s)
           X == {i \in 0 .. size : move[i] = [k \in 0 .. larger - 1 |->
                                      {s \in Short(strings) : Loc(s, i) = k}]}
<1>9. 0 \in X
  <2>1. move[0] = grown
    BY <1>2, <1>8
  <2>2. \A k \in 0 .. larger - 1 : grown[k] = {s \in Short(strings) : From(s) = k}
    BY <1>2, <1>3 DEF InBucket
  <2>3. \A s \in Short(strings) : Loc(s, 0) = From(s)
    BY <1>3
  <2>4. grown = [k \in 0 .. larger - 1 |-> grown[k]]
    OBVIOUS
  <2> HIDE DEF grown
  <2>5. grown = [k \in 0 .. larger - 1 |-> {s \in Short(strings) : Loc(s, 0) = k}]
    BY <2>2, <2>3, <2>4
  <2> QED BY <1>2, <2>1, <2>5
<1>10. ASSUME NEW i \in 0 .. size - 1, i \in X PROVE i + 1 \in X
  <2>1. i + 1 \in 0 .. size /\ i + 1 # 0 /\ (i + 1) - 1 = i /\ i \in 0 .. larger - 1
    BY <1>2
  <2>2. move[i + 1] = Moves(i + 1, move[i])
    <3> HIDE DEF Moves, grown
    <3> QED BY <1>8, <2>1
  <2>3. \A k \in 0 .. larger - 1 : move[i][k] = {s \in Short(strings) : Loc(s, i) = k}
    BY <1>10
  <2>4. move[i + 1] = [k \in 0 .. larger - 1 |->
              (IF k = i THEN {} ELSE move[i][k]) \cup {s \in move[i][i] : To(s) = k}]
    BY <2>1, <2>2
  <2>5. ASSUME NEW k \in 0 .. larger - 1
        PROVE  (IF k = i THEN {} ELSE move[i][k]) \cup {s \in move[i][i] : To(s) = k}
                   = {s \in Short(strings) : Loc(s, i + 1) = k}
    <3>1. move[i][k] = {s \in Short(strings) : Loc(s, i) = k}
          /\ move[i][i] = {s \in Short(strings) : Loc(s, i) = i}
      BY <2>1, <2>3
    <3>2. \A s \in Short(strings) : From(s) < i + 1 <=> From(s) < i \/ From(s) = i
      BY <1>3
    <3> QED BY <3>1, <3>2
  <2>6. move[i + 1] = [k \in 0 .. larger - 1 |-> {s \in Short(strings) : Loc(s, i + 1) = k}]
    BY <2>4, <2>5
  <2> QED BY <2>1, <2>6
<1>11. move[size] = [k \in 0 .. larger - 1 |-> {s \in Short(strings) : To(s) = k}]
  <2>1. size \in X
    <3> HIDE DEF X
    <3> QED BY <1>2, <1>9, <1>10, UpTo
  <2>2. \A s \in Short(strings) : Loc(s, size) = To(s)
    BY <1>2, <1>3
  <2> QED BY <2>1, <2>2
<1>12. ASSUME NEW k \in 0 .. larger - 1
       PROVE  {s \in Short(strings) : To(s) = k} = IF k < n THEN Rehash(n)[k] ELSE {}
  <2>1. CASE k < n
    <3>1. k \in 0 .. n - 1
      BY <1>2, <2>1
    <3> QED BY <2>1, <3>1, Rehashed
  <2>2. CASE ~(k < n)
    BY <1>2, <1>3, <2>2
  <2> QED BY <2>1, <2>2
<1> QED BY <1>1, <1>11, <1>12

(* The loop of luaS_resize, which moves the strings in place and meets     *)
(* again those that it moved forward, always puts every string in the      *)
(* bucket of its hash, and leaves nothing in the slice that a smaller table *)
(* gives back.                                                             *)
THEOREM LoopAlwaysRehashes == Spec => []LoopRehashes
<1>1. ASSUME Inv PROVE LoopRehashes
  <2>1. ASSUME NEW n \in {2 * size, size \div 2} \ {0} PROVE n \in Nat \ {0}
    BY <1>1, <2>1 DEF Inv, TypeOK
  <2> QED BY <1>1, <2>1, LoopMoves DEF Inv, LoopRehashes
<1> QED BY <1>1, InvCorrect, PTL

-----------------------------------------------------------------------------
(* The refinement                                                          *)

(* The program gets a string that exists.                                  *)
LEMMA TakesExisting ==
    ASSUME Inv, NEW ts \in strings, held' = held \cup {ts}, text' = text
    PROVE  [Pool!Next]_HeldPool
<1>1. HeldPool' = HeldPool \cup {<<text[ts], ts>>}
  BY DEF HeldPool
<1>2. CASE ts \in held
  BY <1>1, <1>2 DEF HeldPool
<1>3. CASE ts \notin held
  <2>1. \A p \in HeldPool : p[2] # ts
    BY <1>3 DEF HeldPool
  <2>2. ASSUME text[ts] \notin Long, NEW p \in HeldPool
        PROVE  p[1] # text[ts]
    <3>1. PICK s \in held : p = <<text[s], s>>
      BY DEF HeldPool
    <3>2. text[s] = text[ts] => s = ts
      BY <2>2 DEF Inv, Unique, HeldAlive, Short
    <3> QED BY <1>3, <3>1, <3>2
  <2>3. Pool!New(text[ts], ts)
    BY <1>1, <2>1, <2>2 DEF Pool!New
  <2>4. text[ts] \in Text /\ ts \in TString
    BY DEF Inv, TypeOK
  <2> QED BY <2>3, <2>4 DEF Pool!Next
<1> QED BY <1>2, <1>3

(* The strings of the program and their texts stay.                        *)
LEMMA KeepsHeld ==
    ASSUME held' = held, \A s \in held : text'[s] = text[s]
    PROVE  [Pool!Next]_HeldPool
  BY DEF HeldPool

LEMMA ReturnsString ==
    ASSUME Inv, NEW x \in Text, NEW r, NEW cache, Newlstr(x, r, cache)
    PROVE  [Pool!Next]_HeldPool
<1>1. CASE /\ \E ts \in Found(x) : Return(ts, r, cache)
           /\ text' = text
  <2>1. PICK ts \in Found(x) : held' = held \cup {ts}
    BY <1>1 DEF Return
  <2>2. Bucket(x) \in DOMAIN hash
    BY HashOfText, ModRange DEF Bucket, Inv, TypeOK
  <2>3. ts \in strings
    BY <2>2 DEF Found, Inv, InBucket, Short
  <2> QED BY <1>1, <2>1, <2>3, TakesExisting
<1>2. CASE UNCHANGED <<text, held>>
  BY <1>2, KeepsHeld
<1> QED BY <1>1, <1>2 DEF Newlstr

LEMMA RefinesNext ==
    ASSUME Inv, [Next]_vars
    PROVE  [Pool!Next]_HeldPool
<1>1. CASE luaS_newlstr
  BY <1>1, ReturnsString DEF luaS_newlstr
<1>2. CASE luaS_new
  <2>1. PICK r \in Row, x \in Text :
        \/ /\ \E j \in Hit(r, x) : held' = held \cup {strcache[r][j]}
           /\ text' = text
        \/ \E cache : Newlstr(x, r, cache)
    BY <1>2 DEF luaS_new
  <2>2. ASSUME NEW j \in Hit(r, x), held' = held \cup {strcache[r][j]}, text' = text
        PROVE  [Pool!Next]_HeldPool
    <3>1. strcache[r][j] \in strings
      BY DEF Hit, Inv, CacheAlive
    <3> QED BY <2>2, <3>1, TakesExisting
  <2> QED BY <2>1, <2>2, ReturnsString
<1>3. CASE createstrobj
  <2>1. PICK ts \in TString \ strings :
          /\ text' = [text EXCEPT ![ts] = new]
          /\ held' = held \cup {ts}
    BY <1>3 DEF createstrobj, Return
  <2>2. ts \notin held
    BY <2>1 DEF Inv, HeldAlive
  <2>3. HeldPool' = HeldPool \cup {<<new, ts>>}
    <3>1. \A s \in held : text'[s] = text[s]
      BY <2>1, <2>2
    <3>2. text'[ts] = new
      BY <2>1 DEF Inv, TypeOK
    <3> QED BY <2>1, <3>1, <3>2 DEF HeldPool
  <2>4. \A p \in HeldPool : p[2] # ts
    BY <2>2 DEF HeldPool
  <2>5. new \notin Long => \A p \in HeldPool : p[1] # new
    BY <1>3 DEF createstrobj, HeldPool, Inv, Requested, HeldAlive, Short
  <2>6. Pool!New(new, ts)
    BY <2>3, <2>4, <2>5 DEF Pool!New
  <2>7. new \in Text
    BY DEF Inv, TypeOK
  <2> QED BY <2>6, <2>7 DEF Pool!Next
<1>4. CASE Drop
  <2>1. PICK ts \in held : held' = held \ {ts} /\ text' = text
    BY <1>4 DEF Drop
  <2>2. HeldPool' = HeldPool \ {<<text[ts], ts>>} /\ <<text[ts], ts>> \in HeldPool
    BY <2>1 DEF HeldPool
  <2> QED BY <2>2 DEF Pool!Next, Pool!Forget
<1>5. CASE Emergency \/ MemoryError
  <2>1. Remove(strings \ held) /\ held' = held
    BY <1>5 DEF Emergency, MemoryError, FullGC
  <2>2. \A s \in held : text'[s] = text[s]
    BY <2>1 DEF Remove, Inv, HeldAlive
  <2> QED BY <2>1, <2>2, KeepsHeld
<1>6. CASE Sweep
  <2>1. PICK s \in unswept : IF s \in dead THEN Remove({s}) ELSE UNCHANGED text
    BY <1>6 DEF Sweep
  <2>2. held' = held
    BY <1>6 DEF Sweep
  <2>3. \A t \in held : text'[t] = text[t]
    BY <2>1 DEF Remove, Inv, HeldAlive
  <2> QED BY <2>2, <2>3, KeepsHeld
<1>7. CASE luaS_resize \/ Mark \/ Atomic \/ SweepEnds \/ UNCHANGED vars
  BY <1>7, KeepsHeld DEF luaS_resize, Mark, Atomic, SweepEnds, vars
<1> QED BY <1>1, <1>2, <1>3, <1>4, <1>5, <1>6, <1>7 DEF Next

(* The strings that the program has keep their text, and two short ones    *)
(* with the same text are one object: an address tells a short string.     *)
THEOREM PoolImplemented == Spec => ImplementsPool
<1>1. Init => Pool!Init
  BY StringsAssumption DEF StringsAssumption, Init, Pool!Init, HeldPool
<1>2. Inv /\ [Next]_vars => [Pool!Next]_HeldPool
  BY RefinesNext
<1> QED BY <1>1, <1>2, InvCorrect, PTL DEF Spec, ImplementsPool, Pool!Spec

==============================================================================
