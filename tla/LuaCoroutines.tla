---------------------------- MODULE LuaCoroutines -----------------------------
(***************************************************************************)
(* What coroutines promise: they are resumed one inside the other; only    *)
(* the last one runs, control leaves it only towards the one that resumed  *)
(* it, and none is resumed unless it is suspended.                         *)
(***************************************************************************)
CONSTANTS Main, Co

VARIABLES
    running,     \* the thread that runs
    resumer,     \* pairs <<c, t>>: t has resumed c, which has not been left
    suspended, dead

Init == running = Main /\ resumer = {} /\ suspended = Co /\ dead = {}

Resume(c) ==
    /\ c \in suspended
    /\ running' = c /\ resumer' = resumer \cup {<<c, running>>}
    /\ suspended' = suspended \ {c} /\ UNCHANGED dead

(* The running coroutine yields, or ends by a return or by an error.       *)
Leave ==
    /\ \E t \in {Main} \cup Co :
        /\ <<running, t>> \in resumer
        /\ running' = t /\ resumer' = resumer \ {<<running, t>>}
    /\ \/ suspended' = suspended \cup {running} /\ UNCHANGED dead
       \/ dead' = dead \cup {running} /\ UNCHANGED suspended

Next == Leave \/ \E c \in Co : Resume(c)

Spec == Init /\ [][Next]_<<running, resumer, suspended, dead>>

==============================================================================
