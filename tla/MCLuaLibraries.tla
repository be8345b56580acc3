---------------------------- MODULE MCLuaLibraries ----------------------------
(* The parts that need none of the others, each alone: the libraries' pure    *)
(* functions, table.sort, references and the memory of a stack.               *)
EXTENDS MCLuaLibraryCalls, LuaSort, LuaStack, LuaRefs
VARIABLE part
libraries == <<call, result>>

(* Orders: the strict weak orders of three elements, with the larger elements *)
(* above them; one that contradicts itself, and any.  Arrays: all the short   *)
(* ones, and long ones, one with a partition so uneven that the next pivot is *)
(* taken at random.                                                           *)
MCElement == 1 .. 6
ThreeOf == (1 .. 3) \X (1 .. 3)
Weak(less) ==
  /\ \A x, y \in 1 .. 3 : <<x, y>> \in less => <<y, x>> \notin less
  /\ \A x, y, z \in 1 .. 3 : (<<x, y>> \notin less /\ <<y, z>> \notin less) => <<x, z>> \notin less
Ascending == {x \in MCElement \X MCElement : x[1] < x[2]}
Above == {x \in Ascending : x[2] > 3}
MCOrders ==
  {<<"any">>} \cup {<<"by", less \cup Above>> : less \in {s \in SUBSET ThreeOf : Weak(s)}}
              \cup {<<"by", less>> : less \in {Ascending, {<<1, 2>>, <<2, 3>>, <<3, 1>>}}}
MCArrays == UNION {[1 .. n -> 1 .. 3] : n \in 0 .. 4} \cup {[at \in 1 .. n |-> at] : n \in 5 .. 6}
              \cup {<<1, 4, 6, 2, 5, 3, 4, 6>>}

NoSort ==
  /\ array = <<>> /\ order = <<"any">> /\ comparing = "sorted" /\ interval = [lo |-> 1, up |-> 0, rnd |-> 0]
  /\ p = 0 /\ pivot = 0 /\ i = 0 /\ j = 0 /\ ai = 0 /\ callers = <<>> /\ initial = <<>> /\ from = <<>>

Init ==
  /\ StackInit /\ RefsInit /\ result = <<>>
  /\ \/ part = "library" /\ CallInit /\ NoSort
     \/ part = "sort" /\ SortInit /\ call = <<>>
     \/ part \in {"stack", "refs"} /\ call = <<>> /\ NoSort

Answering == part = "library" /\ Library /\ UNCHANGED <<part, sortvars, stackvars, refsvars>>
Sorting == part = "sort" /\ SortNext /\ UNCHANGED <<part, libraries, stackvars, refsvars>>
Stacking == part = "stack" /\ StackNext /\ UNCHANGED <<part, libraries, sortvars, refsvars>>
Referring == part = "refs" /\ RefsNext /\ UNCHANGED <<part, libraries, sortvars, stackvars>>
Next == Answering \/ Sorting \/ Stacking \/ Referring
Spec == Init /\ [][Next]_<<part, libraries, sortvars, stackvars, refsvars>>
==============================================================================
