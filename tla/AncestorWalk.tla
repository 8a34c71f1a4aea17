----------------------------- MODULE AncestorWalk -----------------------------
(***************************************************************************)
(* The loop of DagModule::getAncestors, as it is written: level by level   *)
(* from the pointers of one record, with a frontier of names to expand, no *)
(* mark on the names that were expanded already, and a list length as the  *)
(* condition to go on.  DagEngine uses the set this loop is meant to       *)
(* compute; here the loop is shown to compute it.                          *)
(*                                                                         *)
(* Lists of names are sets: hasSeen keeps the loop from adding a name      *)
(* twice, and the pointers of a record, made from sets, do not repeat.     *)
(***************************************************************************)
EXTENDS DagEngine

CONSTANT Graphs   \* the citation graphs to consider

VARIABLES
  rec, status,    \* the DAG the walk reads; only desc changes under it
  start,          \* the record whose ancestors are asked for
  pc,             \* "start", "loop" or "done"
  ancestors, frontier, prevAncestors, currAncestors,   \* the loop's locals
  pending         \* placeholders that were given start as a descendant

vars == <<rec, status, start, pc, ancestors, frontier,
          prevAncestors, currAncestors, pending>>

ASSUME GraphsAssumption == \A g \in Graphs : g \in [Name -> Record]

Init == /\ rec \in Graphs
        /\ status \in [Name -> Status]
        /\ start \in Name
        /\ pc = "start"
        /\ ancestors = {} /\ frontier = {} /\ pending = {}
        /\ prevAncestors = 0 /\ currAncestors = 0

\* Mutant: the number of ancestors is computed one short.
MeetCountsShort(ptrs) ==
  /\ ancestors' = ancestors \cup {p \in ptrs : status[p] # INTERLOCKED}
  /\ pending'   = pending \cup {p \in ptrs : status[p] = INITIALIZED}
  /\ frontier'  = {p \in ptrs : status[p] \notin {INITIALIZED, INTERLOCKED}}
  /\ currAncestors' = Cardinality(ancestors') - 1

\* Mutant: interlocked records are kept and expanded like the others.
MeetKeepsInterlocked(ptrs) ==
  /\ ancestors' = ancestors \cup ptrs
  /\ pending'   = pending \cup {p \in ptrs : status[p] = INITIALIZED}
  /\ frontier'  = {p \in ptrs : status[p] # INITIALIZED}
  /\ currAncestors' = Cardinality(ancestors')

\* What one round does with the pointers ptrs it meets.
Meet(ptrs) ==
  /\ ancestors' = ancestors \cup {p \in ptrs : status[p] # INTERLOCKED}
  /\ pending'   = pending \cup {p \in ptrs : status[p] = INITIALIZED}
  /\ frontier'  = {p \in ptrs : status[p] \notin {INITIALIZED, INTERLOCKED}}
  /\ currAncestors' = Cardinality(ancestors')

\* Mutant: the count before the loop starts as the count after the pointers.
StartCounted ==
  /\ pc = "start"
  /\ Meet(rec[start].pointers)
  /\ prevAncestors' = currAncestors'
  /\ pc' = "loop"
  /\ UNCHANGED <<rec, status, start>>

\* The pointers of the record itself.
Start == /\ pc = "start"
         /\ Meet(rec[start].pointers)
         /\ pc' = "loop"
         /\ UNCHANGED <<rec, status, start, prevAncestors>>

\* Mutant: the loop goes on while there is a frontier, seen before or not.
RoundWhileFrontier ==
  /\ pc = "loop" /\ frontier # {}
  /\ Meet(UNION {rec[f].pointers : f \in frontier})
  /\ prevAncestors' = currAncestors
  /\ UNCHANGED <<rec, status, start, pc>>

\* One iteration of the while loop: expand the whole frontier.
Round == /\ pc = "loop" /\ currAncestors > prevAncestors
         /\ Meet(UNION {rec[f].pointers : f \in frontier})
         /\ prevAncestors' = currAncestors
         /\ UNCHANGED <<rec, status, start, pc>>

\* The loop condition fails and the list is returned.
Return == /\ pc = "loop" /\ ~ (currAncestors > prevAncestors)
          /\ pc' = "done"
          /\ UNCHANGED <<rec, status, start, ancestors, frontier,
                         prevAncestors, currAncestors, pending>>

Done == pc = "done" /\ UNCHANGED vars

Next == Start \/ Round \/ Return \/ Done

Spec == Init /\ [][Next]_vars

\* The loop runs in one thread to its end.
FairSpec == Spec /\ WF_vars(Start \/ Round \/ Return)

------------------------------------------------------------------------------
(* Properties. *)

\* The variables keep their types.
TypeOK == /\ rec \in [Name -> Record] /\ status \in [Name -> Status]
          /\ start \in Name /\ pc \in {"start", "loop", "done"}
          /\ ancestors \subseteq Name /\ frontier \subseteq Name
          /\ pending \subseteq Name
          /\ prevAncestors \in Nat /\ currAncestors \in Nat

\* A name the loop has kept is an ancestor.
WalkSound == ancestors \subseteq getAncestors(rec, status, start)

\* The loop returns every ancestor: stopping when a round finds nothing new,
\* and expanding nothing behind a placeholder or an interlocked record, leaves
\* no ancestor out; and every placeholder among them was told of its citation.
WalkCorrect ==
  pc = "done" =>
    /\ ancestors = getAncestors(rec, status, start)
    /\ pending = {a \in ancestors : status[a] = INITIALIZED}

\* The loop ends, on graphs with cycles too: a genesis record cites itself.
WalkTerminates == <>(pc = "done")

==============================================================================
