---------------------------- MODULE MCAncestorWalk ----------------------------
(***************************************************************************)
(* AncestorWalk for TLC: every graph on a few names, with cycles and with  *)
(* records that cite themselves, under every status.                       *)
(***************************************************************************)
EXTENDS AncestorWalk

CONSTANT MaxName   \* the number of record names

MCName   == 1 .. MaxName
MCPrefix == [n \in MCName |-> n]

AllGraphs == {[n \in MCName |-> [type |-> GENERIC_RECORD, pointers |-> c[n]]] :
                c \in [MCName -> SUBSET MCName]}

==============================================================================
