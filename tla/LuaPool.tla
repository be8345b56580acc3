------------------------------- MODULE LuaPool --------------------------------
(***************************************************************************)
(* What the string table promises: the program's strings keep their text,  *)
(* and two short strings with the same text are one object, so that they   *)
(* can be compared by their addresses.                                     *)
(***************************************************************************)
CONSTANTS TString, Text, Long, memerrmsg, MEMERRMSG

VARIABLE pool   \* the strings of the program, each a text and an address

Init == pool = {<<MEMERRMSG, memerrmsg>>}

New(x, ts) ==
    /\ \A p \in pool : p[2] # ts
    /\ x \notin Long => \A p \in pool : p[1] # x
    /\ pool' = pool \cup {<<x, ts>>}

Forget(p) == pool' = pool \ {p}

Next == \/ \E x \in Text, ts \in TString : New(x, ts)
        \/ \E p \in pool : Forget(p)

Spec == Init /\ [][Next]_pool

==============================================================================
