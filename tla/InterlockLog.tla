----------------------------- MODULE InterlockLog -----------------------------
(***************************************************************************)
(* What a ledger instance promises about interlocks, whatever its policy,  *)
(* its waitlist, its edge states and its timers do: it comes to know more  *)
(* and more records, and it locks a record only when enough of the records *)
(* it knows cite it, directly or through records it knows.  A lock is for  *)
(* ever, and what a known record cites never changes.                      *)
(***************************************************************************)
EXTENDS Naturals

CONSTANTS
  Name,       \* the record names
  Level(_),   \* how much a set of citing records is worth
  Threshold   \* what a lock takes

VARIABLES
  cites,      \* cites[n]: the names record n cites
  known,      \* the records the instance has
  locked      \* the records it has locked

vars == <<cites, known, locked>>

\* The smallest set that holds what n cites and, with a known record, what
\* that one cites.
Closed(n, A) == /\ cites[n] \subseteq A
                /\ \A a \in A \cap known : cites[a] \subseteq A

CitedFrom(n) ==
  LET closed == {A \in SUBSET Name : Closed(n, A)}
  IN  {x \in Name : \A A \in closed : x \in A}

\* The known records that stand behind x.  A record that cites itself opens a
\* ledger and stands behind nothing.
Backers(x) == {d \in known : d \notin cites[d] /\ x \in CitedFrom(d)}

Init == known = {} /\ locked = {}

Step == /\ known \subseteq known' /\ known' \subseteq Name
        /\ locked \subseteq locked' /\ locked' \subseteq known'
        /\ \A n \in known : cites'[n] = cites[n]
        /\ \A x \in locked' \ locked : Level(Backers(x)') >= Threshold

Spec == Init /\ [][Step]_vars

==============================================================================
