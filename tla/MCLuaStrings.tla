---------------------------- MODULE MCLuaStrings -----------------------------
(* Texts, hashes and addresses for LuaStrings.                             *)
EXTENDS LuaStrings, TLC

CONSTANTS mem, ts1, ts2, ts3

HashOf == "not enough memory" :> 0 @@ "a" :> 2 @@ "b" :> 5 @@ "c" :> 7 @@ "long" :> 2
Addresses == Permutations({ts1, ts2, ts3})

==============================================================================
