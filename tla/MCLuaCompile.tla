---------------------------- MODULE MCLuaCompile ----------------------------
(* The compiler and the virtual machine run the programs of MCLuaPrograms and *)
(* are compared with what the manual says they mean.                          *)
EXTENDS LuaVM, MCLuaPrograms

MCChunks == [p \in Programs |-> Tokens(p)]

(* More calls and closures than any program of MCLuaPrograms makes: what goes *)
(* beyond has run away.                                                       *)
Bounded == Len(trace) <= 20 /\ Len(clos) <= 10

Scoping == {"jumps into the scope of a local", "no visible label for goto", "label already defined"}

(* A program beyond a limit of the compiler gets the error of that limit; one *)
(* with a wrong goto is rejected for it; every other one is accepted, and at  *)
(* its end it has made all the calls that it should make, with the results or *)
(* the error that it should give.  No program makes calls without end.        *)
ComputesMeaning ==
  /\ Bounded
  /\ outcome # <<"run">> =>
       IF chunk \in DOMAIN TooLarge THEN outcome = <<"syntax", TooLarge[chunk]>>
       ELSE \E m \in {Do("Meaning", <<chunk, CFUNCTIONS>>)} :
              IF m.outcome = <<"syntax">> THEN outcome \in {<<"syntax", msg>> : msg \in Scoping}
              ELSE outcome = m.outcome /\ trace = m.trace
==============================================================================
