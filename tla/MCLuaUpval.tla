------------------------------ MODULE MCLuaUpval ------------------------------
(* Prototypes for LuaUpval, and its refinement of LuaCells.                *)
EXTENDS LuaUpval

CONSTANTS main, co, f, g, u, w

Captures ==
    [p \in Proto |-> <<[instack |-> p = "local", idx |-> 1]>>]
Instance(m, c, cls, ups, ps) ==
    [slots |-> main :> m @@ co :> c, closures |-> cls, upvals |-> ups, protos |-> ps]
Instances ==
    {Instance(2, 0, 2, 2, {"local"}), Instance(2, 0, 2, 1, {"local", "nested"}),
     Instance(1, 2, 1, 1, {"local"}), Instance(2, 1, 1, 1, {"local"}), Instance(1, 1, 2, 2, {"local"})}
Interchange == {p @@ q : p \in Permutations({f, g}), q \in Permutations({u, w})}

(* For upval_dead: one instance, where all marking is done in one step, of *)
(* all the objects, there is enough memory and few variables are nil.      *)
Larger == {Instance(2, 2, 2, 2, {"local"})}
MarkAtOnce ==
    /\ gcstate = "propagate" => marked = {mainthread} /\ black = {} /\ Len(allgc) = 3
    /\ emergency = "no"
    /\ Nil \notin ToSet(stack[co]) /\ (Nil \in ToSet(stack[main]) => stack[main] = <<Nil>>)

==============================================================================
