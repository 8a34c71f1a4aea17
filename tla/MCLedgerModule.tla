---------------------------- MODULE MCLedgerModule ----------------------------
(***************************************************************************)
(* Instances of LedgerModule for TLC.                                      *)
(***************************************************************************)
EXTENDS LedgerStatus

CONSTANTS A, B, d1, d2

\* A record is named by its publisher and its sequence number.
MCName   == Node \X (1 .. MaxSeq)
MCPrefix == [m \in MCName |-> m[1]]

\* One Data for each of two instances.
OneEach == {<<A, d1>>, <<B, d2>>}

\* The same Data for both instances, and another for the first.
SameData == {<<A, d1>>, <<B, d1>>, <<A, d2>>}

==============================================================================
