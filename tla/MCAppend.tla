------------------------------- MODULE MCAppend -------------------------------
(***************************************************************************)
(* Instances of Append for TLC.                                            *)
(***************************************************************************)
EXTENDS Append

CONSTANTS a1, a2, d1, d2, d3

\* The first append submits two Data, the second one.
MCDataOf == [a \in Nonce |-> IF a = a1 THEN {d1, d2} ELSE {d3}]

==============================================================================
