----------------------------- MODULE MCLuaTable ------------------------------
(* Two addresses and a float with one hash, so that they collide in every  *)
(* size, and a string whose main position is the node the second of them   *)
(* moves to; integers on both sides of the limits.                         *)
EXTENDS LuaTable, TLC

CONSTANTS ptr1, ptr2, str, one, half, x

HashOf == ptr1 :> 0 @@ ptr2 :> 0 @@ half :> 0 @@ str :> 2 @@ one :> 1
Integer == {-8, 1, 2, 4}
IntegerOf == one :> 1 @@ half :> Nil

(* A program of objects and one of numbers.                                *)
Programs == {{ptr1, ptr2, half, str}, {-8, 1, 2, 4, one}}
Interchange == Permutations({ptr1, ptr2})

==============================================================================
