------------------------------- MODULE LuaCells -------------------------------
(***************************************************************************)
(* What a program may expect of its variables: a local variable and every  *)
(* function that captured it are references to one cell, for as long as    *)
(* any of them exists.  store is the set of the cells, each with the       *)
(* references to it and what it holds.                                     *)
(***************************************************************************)
VARIABLE store

References(s) == UNION {c.refs : c \in s}

(* How the references of R share cells in s.                               *)
Shared(s, R) == {c.refs \cap R : c \in s} \ {{}}

(* c holds what some reference of R saw in s.                              *)
Keeps(s, R, c) == \E d \in s : d.refs \cap c.refs \cap R # {} /\ d.holds = c.holds

(* A variable is declared or a cell assigned to, a new function captures   *)
(* cells; or a reference moves to another cell.  References may go, by the *)
(* end of a scope or by a collection, and with the last one the cell.      *)
Step(s, t) ==
    LET both == References(s) \cap References(t) IN
    \/ /\ Shared(s, both) = Shared(t, both)
       /\ \A c, d \in t : Keeps(s, both, c) \/ Keeps(s, both, d) \/ c = d
    \/ /\ References(t) \subseteq References(s)
       /\ \E r \in both :
           /\ Shared(s, both \ {r}) = Shared(t, both \ {r})
           /\ \A c \in t : Keeps(s, both \ {r}, c)

Init == store = {}
Next == \E s \in {store}, t \in {store'} : Step(s, t)
Spec == Init /\ [][Next]_store

==============================================================================
