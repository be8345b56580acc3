------------------------------ MODULE MCLuaGC --------------------------------
(* Small heaps for LuaGC: the kind of each object and the cells it has.    *)
EXTENDS LuaGC, TLC

CONSTANTS main, reg, a, b, c

(* A closure (forward barrier), a table with a finalizer (back barrier),   *)
(* also used as a global metatable.                                        *)
KindStrong == main :> "thread" @@ reg :> "table" @@ a :> "closure" @@ c :> "table"
CellStrong == main :> {1, 2} @@ reg :> {1} @@ a :> {1} @@ c :> {1}

(* A weak registry with one entry, another thread, a userdata that may     *)
(* have a finalizer.                                                       *)
KindWeak == main :> "thread" @@ reg :> "table" @@ a :> "thread" @@ c :> "udata"
CellWeak == main :> {1, 2} @@ reg :> {1} @@ a :> {1} @@ c :> {}

(* A registry with two entries and three interchangeable objects: a chain  *)
(* of ephemerons, where the value of one entry is the key of the other.    *)
KindChain == main :> "thread" @@ reg :> "table" @@ a :> "udata" @@ b :> "udata" @@ c :> "udata"
CellChain == main :> {1, 2} @@ reg :> {1, 2} @@ a :> {} @@ b :> {} @@ c :> {}
Interchange == Permutations({a, b, c})

(* The smallest heap with weak entries, for liveness.                      *)
KindLive == main :> "thread" @@ reg :> "table" @@ a :> "closure" @@ c :> "udata"
CellLive == main :> {1, 2} @@ reg :> {1} @@ a :> {} @@ c :> {}

(* Two userdata with finalizers.                                           *)
KindTwo == main :> "thread" @@ reg :> "table" @@ a :> "udata" @@ c :> "udata"

==============================================================================
