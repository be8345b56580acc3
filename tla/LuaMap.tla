------------------------------- MODULE LuaMap --------------------------------
(***************************************************************************)
(* What a table promises: a map from keys to values, and a traversal that  *)
(* returns every field once, in any order, as long as the program assigns  *)
(* only to fields that exist.                                              *)
(***************************************************************************)
CONSTANTS Key, Val, Nil

VARIABLES
    map,        \* the value of every key, Nil when the field does not exist
    traversal,  \* "on", "off", or "finished" once every field was returned
    returned    \* the keys the traversal has returned

Init == map = [k \in Key |-> Nil] /\ traversal = "off" /\ returned = {}

(* An assignment changes one field.  When the field did not exist, the     *)
(* traversal ends: from there on next promises nothing.                    *)
Set ==
    LET changed == {k \in Key : map'[k] # map[k]} IN
    /\ DOMAIN map' = Key
    /\ \E k \in changed :
        /\ changed = {k} /\ map'[k] \in Val \cup {Nil}
        /\ traversal' = IF map[k] = Nil THEN "off" ELSE traversal
        /\ returned' = IF map[k] = Nil THEN {} ELSE returned

(* The program may also stop at any time, after an error for instance.     *)
Abandon == traversal' = "off" /\ returned' = {} /\ UNCHANGED map

Start ==
    /\ traversal # "on" /\ traversal' = "on"
    /\ returned' = {}
    /\ UNCHANGED map

Visit(k) ==
    /\ traversal = "on"
    /\ k \notin returned /\ returned' = returned \cup {k}
    /\ map[k] # Nil
    /\ UNCHANGED <<traversal, map>>

Finish ==
    /\ traversal = "on" /\ traversal' = "finished"
    /\ \A k \in Key : map[k] # Nil => k \in returned
    /\ returned' = {}
    /\ UNCHANGED map

Next ==
    \/ Start \/ Finish
    \/ \E k \in Key : Visit(k)
    \/ Set \/ Abandon

Spec == Init /\ [][Next]_<<map, traversal, returned>>

==============================================================================
