------------------------------- MODULE LuaRefs -------------------------------
(* References (luaL_ref, luaL_unref of lauxlib.c): values of C kept in a      *)
(* table under integers that it gives out.  The integers given back form a    *)
(* list: t[freelist] is the first, and each element is the number of the next.*)
EXTENDS Integers, Sequences, SequencesExt

CONSTANTS Held,         \* values to keep: numbers, and others
          NIL,
          MaxRefs       \* bound: references in use at a time

ASSUME RefsAssumption == MaxRefs \in Nat /\ NIL \notin Held \cup 0 .. MaxRefs

VARIABLES t,            \* the table, from its key 0 on; all other keys are NIL
          held,         \* what the program keeps: reference -> value
          freed         \* the references given back and not given out again,
                        \* the last one first
refsvars == <<t, held, freed>>

freelist == 0
LUA_REFNIL == -1
Refs == 0 .. MaxRefs

(* A length is any border: the key n + 1 has no value.                        *)
rawlen(n) == (n = 0 \/ t[n] # NIL) /\ t[n + 1] = NIL

(* luaL_ref(v): the reference is ref.                                         *)
luaL_ref(v, ref) ==
  /\ IF t[freelist] # NIL
     THEN /\ ref = t[freelist]
          /\ t' = [t EXCEPT ![freelist] = t[ref], ![ref] = v]
     ELSE /\ ref # freelist /\ rawlen(ref - 1)
          /\ t' = [t EXCEPT ![ref] = v]
  /\ held' = [r \in DOMAIN held \cup {ref} |-> IF r = ref THEN v ELSE held[r]]
  /\ freed' = IF freed # <<>> /\ Head(freed) = ref THEN Tail(freed) ELSE freed

(* Mutant: what was free before is forgotten.                                 *)
luaL_unrefForgets(ref) ==
  /\ t' = [t EXCEPT ![ref] = NIL, ![freelist] = ref]
  /\ held' = [r \in DOMAIN held \ {ref} |-> held[r]]
  /\ freed' = <<ref>> \o freed

luaL_unref(ref) ==
  /\ t' = [t EXCEPT ![ref] = t[freelist], ![freelist] = ref]
  /\ held' = [r \in DOMAIN held \ {ref} |-> held[r]]
  /\ freed' = <<ref>> \o freed

RefsInit ==
  /\ t = [r \in Refs |-> NIL]
  /\ held = <<>> /\ freed = <<>>
Ref == \E v \in Held, ref \in Refs : luaL_ref(v, ref)
Unref == \E ref \in DOMAIN held : luaL_unref(ref)
RefsNext == Ref \/ Unref
RefsSpec == RefsInit /\ [][RefsNext]_refsvars

------------------------------------------------------------------------------
(* A reference keeps its value until it is given back, whatever was taken and *)
(* given back meanwhile; and none is lost: all others are in the list.        *)
RefsKept ==
  /\ \A r \in DOMAIN held : t[r] = held[r]
  /\ \A r \in Refs \ {freelist} : t[r] = NIL \/ r \in DOMAIN held \/ r \in ToSet(freed)
  /\ t[freelist] = IF freed = <<>> THEN NIL ELSE Head(freed)
  /\ \A k \in DOMAIN freed : freed[k] \in Refs \ DOMAIN held
==============================================================================
