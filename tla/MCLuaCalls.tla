----------------------------- MODULE MCLuaCalls ------------------------------
(* Programs for LuaCalls.                                                  *)
EXTENDS LuaCalls, TLC

CONSTANTS main, co1, co2

(* All functions with one coroutine, far from the limit of the C stack;    *)
(* two coroutines, or longer chains of calls, that overflow it.            *)
Few == {"lua", "xpcall", "yield", "resume"}
MCBounds ==
    {[fns |-> Functions, calls |-> 20, frames |-> main :> 2 @@ co1 :> 4 @@ co2 :> 0],
     [fns |-> Few, calls |-> 4, frames |-> main :> 2 @@ co1 :> 2 @@ co2 :> 2],
     [fns |-> Few, calls |-> 3, frames |-> main :> 3 @@ co1 :> 2 @@ co2 :> 2]}
Interchange == Permutations({co1, co2})

==============================================================================
