------------------------------ MODULE DagModule ------------------------------
(***************************************************************************)
(* One ledger instance's DagModule as a state machine.  The records that   *)
(* exist form an acyclic citation graph; sync hands them to add in any     *)
(* order, any number of times, and the ledger calls harvestAbove at any    *)
(* time.  The questions are what the instance then knows about citations   *)
(* that reached it before the record they cite, and what it interlocks.    *)
(***************************************************************************)
EXTENDS DagEngine

CONSTANTS
  Histories,   \* the citation graphs to consider: functions Name -> Record
  Threshold    \* the configured policy threshold

VARIABLES
  rec,   \* the contents of the records, one of Histories
  dag    \* the DAG state of the instance

vars == <<rec, dag>>

\* A genesis record cites itself and nothing else; every other record cites
\* at least one record and never itself.
PointersOk(h) ==
  \A n \in Name : IF isGenesis(h[n])
                  THEN h[n].pointers = {n}
                  ELSE h[n].pointers # {} /\ n \notin h[n].pointers

ASSUME HistoriesAssumption ==
  \A h \in Histories : h \in [Name -> Record] /\ PointersOk(h) /\ Acyclic(h)

\* With threshold 0 a record is interlocked the moment it arrives.
ASSUME ThresholdAssumption == Threshold \in Nat \ {0}

Init == /\ rec \in Histories
        /\ dag = EmptyDag

\* DagModule::add, called with a record that sync delivers, new or not.
Add(r) == /\ dag' = add(rec, dag, r)
          /\ UNCHANGED rec

\* DagModule::harvestAbove(Threshold, true).
HarvestAbove == /\ dag' = harvestAbove(dag, Threshold)
                /\ UNCHANGED rec

Next == \/ \E r \in Name : Add(r)
        \/ HarvestAbove

Spec == Init /\ [][Next]_vars

------------------------------------------------------------------------------
(* Properties. *)

\* The variables keep their types.
TypeOK == /\ rec \in [Name -> Record]
          /\ dag \in DagState

\* Names whose record has arrived.
Arrived == {n \in Name : dag.status[n] # INITIALIZED}

\* m_waitlist and the stored EdgeStates, updated separately by
\* evaluateWaitlist, update and harvestAbove, never drift apart: the waitlist
\* holds exactly the LOADED records and the placeholders somebody cites, each
\* once, each at the level the policy gives its present descendants.
WaitlistConsistent ==
  dag.wait = {<<evaluate(dag.desc[n]), n>> :
                n \in {m \in Name : \/ dag.status[m] = LOADED
                                    \/ /\ dag.status[m] = INITIALIZED
                                       /\ dag.desc[m] # {}}}

\* The arrived records that cite a so.
Citing(a) ==
  {d \in Arrived : ~ isGenesis(rec[d]) /\ a \in CitedBy(rec, Arrived, d)}

\* A counted citation is a real one: every descendant kept for a record has
\* arrived, is not a genesis record, and cites it along arrived records.
DescendantsSound ==
  \A a \in Name : dag.desc[a] \subseteq Citing(a)

\* No record counts itself as a citation.
NoSelfCitation == \A a \in Name : a \notin dag.desc[a]

\* No citation is forgotten when records arrive before what they cite: every
\* ancestor the walk from an arrived record reaches now, placeholders
\* included, already has that record among its descendants.
DescendantsComplete ==
  \A d \in Arrived : ~ isGenesis(rec[d]) =>
    \A a \in getAncestors(rec, dag.status, d) : d \in dag.desc[a]

\* As long as nothing is interlocked the descendants depend only on which
\* records arrived, not on the order of arrival nor on repeated deliveries.
ArrivalOrderIrrelevant ==
  (\A n \in Name : dag.status[n] # INTERLOCKED) =>
    \A a \in Name : dag.desc[a] = Citing(a)

\* A record is interlocked only on the citations the policy asks for, and
\* those are still kept for it.
InterlockedJustified ==
  \A n \in Name : dag.status[n] = INTERLOCKED =>
                    evaluate(dag.desc[n]) >= Threshold

\* The trust an interlock stands for: at least Threshold arrived records really
\* cite an interlocked record, and under the witness policy at least Threshold
\* different publishers do, whatever arrived late, twice or out of order.
InterlockQuorum ==
  \A n \in Name : dag.status[n] = INTERLOCKED =>
    /\ Cardinality(Citing(n)) >= Threshold
    /\ PolicyType = "policy-witness" =>
         Cardinality({Prefix[d] : d \in Citing(n)}) >= Threshold

\* Once a record has arrived the ledger always has a tip to cite: level 0 of
\* the waitlist, which afterValidation reads to choose between a generic and
\* a genesis record, is not empty and holds only arrived records.
TipsExist ==
  /\ Arrived # {} => getWaitList(dag, 0) # {}
  /\ getWaitList(dag, 0) \subseteq Arrived

\* A step never takes back an arrival or an interlock, never drops a citation,
\* and never adds one to an interlocked record.
Irrevocable ==
  [][\A n \in Name :
       /\ dag.status[n] = INTERLOCKED =>
            dag'.status[n] = INTERLOCKED /\ dag'.desc[n] = dag.desc[n]
       /\ dag.status[n] = LOADED => dag'.status[n] # INITIALIZED
       /\ dag.desc[n] \subseteq dag'.desc[n]]_vars

\* DagModule keeps the abstract log of InterlockLog: its arrived records are
\* the known ones, the INTERLOCKED ones the locked ones, and the policy says
\* what a set of citing records is worth.
Log == INSTANCE InterlockLog WITH
         Level  <- evaluate,
         cites  <- [n \in Name |-> rec[n].pointers],
         known  <- Arrived,
         locked <- {n \in Name : dag.status[n] = INTERLOCKED}

\* Whatever arrives late, twice or out of order, an instance implements that
\* log: no lock without its backing, and none is taken back.
ImplementsLog == Log!Spec

\* What dagHarvest's comment promises: a harvest takes every record that has
\* collected enough citations, direct ones or through records that arrived.
HarvestTakesAllCited ==
  [][HarvestAbove =>
       \A n \in Name :
         dag'.status[n] = LOADED => evaluate(Citing(n)) < Threshold]_vars

==============================================================================
