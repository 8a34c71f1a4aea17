----------------------------- MODULE MCDagModule -----------------------------
(***************************************************************************)
(* Instances of DagModule for TLC.  Names are numbered in an order in      *)
(* which the records could have been produced, so a record cites only      *)
(* smaller names; up to renaming that is every acyclic history.            *)
(***************************************************************************)
EXTENDS DagModule

CONSTANTS
  MaxName,      \* the number of record names
  Publishers    \* the number of publishers, taking turns

MCName   == 1 .. MaxName
MCPrefix == [n \in MCName |-> n % Publishers]

\* A record that cites nobody is a genesis record, which cites itself.
HistoryOf(cites) ==
  [n \in MCName |->
     IF cites[n] = {}
     THEN [type |-> GENESIS_RECORD, pointers |-> {n}]
     ELSE [type |-> GENERIC_RECORD, pointers |-> cites[n]]]

\* Every history of MaxName records.
AllHistories ==
  LET citations == {e \in MCName \X MCName : e[2] < e[1]}
  IN  {HistoryOf([n \in MCName |-> {p \in MCName : <<n, p>> \in E}]) :
         E \in SUBSET citations}

\* The history in which every record cites the one before.
ChainHistory ==
  {HistoryOf([n \in MCName |-> IF n = 1 THEN {} ELSE {n - 1}])}

==============================================================================
