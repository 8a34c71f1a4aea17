--------------------------- MODULE DagModuleProofs ---------------------------
(***************************************************************************)
(* Proofs about DagModule, for every set of names, every acyclic history,  *)
(* both policies and every threshold above 0.                              *)
(***************************************************************************)
EXTENDS DagModule, DagEngineTheorems

------------------------------------------------------------------------------
(* The inductive invariant: the history is one of those considered, and     *)
(* DagInv holds of the state.                                               *)

IInv == /\ rec \in Histories
        /\ DagInv(rec, dag, Threshold)

\* Histories are what the lemmas about DAG states ask for.
LEMMA HistoryFacts ==
  ASSUME NEW h \in Histories
  PROVE  Points(h) /\ NoSelfPointer(h) /\ Acyclic(h)
BY HistoriesAssumption DEF Points, NoSelfPointer, PointersOk, Record

\* The properties of DagModule that are parts of IInv.
LEMMA IInvParts ==
  ASSUME IInv
  PROVE  /\ dag \in DagState /\ WaitlistConsistent
         /\ DescendantsSound /\ DescendantsComplete /\ InterlockedJustified
<1>1. Arrived = ArrivedIn(dag)
  BY DEF Arrived, ArrivedIn
<1>2. \A a \in Name : Citing(a) = CitingIn(rec, dag, a)
  BY <1>1 DEF Citing, CitingIn
<1>3. dag \in DagState /\ WaitlistPointwise(dag)
  BY DEF IInv, DagInv
<1>4. WaitlistConsistent
  BY <1>3, WaitlistForms DEF WaitlistConsistent, Waiting
<1>5. DescendantsSound
  BY <1>2 DEF IInv, DagInv, Sound, DescendantsSound
<1>6. DescendantsComplete
  BY <1>1 DEF IInv, DagInv, Complete, DescendantsComplete
<1>7. InterlockedJustified
  BY DEF IInv, DagInv, Justified, InterlockedJustified
<1> QED
  BY <1>3, <1>4, <1>5, <1>6, <1>7

\* A DagModule over an empty storage satisfies IInv.
LEMMA InitIInv == Init => IInv
BY EmptyDagInv, ThresholdAssumption DEF Init, IInv

\* Every call of add and of harvestAbove keeps IInv.
LEMMA NextIInv == IInv /\ [Next]_vars => IInv'
<1> SUFFICES ASSUME IInv, [Next]_vars PROVE IInv'
  OBVIOUS
<1>1. rec' = rec /\ Points(rec) /\ rec \in Histories /\ Threshold \in Nat
  BY HistoryFacts, ThresholdAssumption DEF IInv, Next, Add, HarvestAbove, vars
<1>2. CASE dag' = dag
  BY <1>1, <1>2 DEF IInv
<1>3. ASSUME NEW r \in Name, dag.status[r] = INITIALIZED,
             dag' = onNewRecord(rec, dag, r)
      PROVE  IInv'
  <2>1. DagInv(rec, dag', Threshold)
    BY <1>1, <1>3, NewRecordDagInv DEF IInv
  <2> QED
    BY <1>1, <2>1 DEF IInv
<1>4. CASE dag' = harvestAbove(dag, Threshold)
  <2>1. DagInv(rec, dag', Threshold)
    BY <1>1, <1>4, HarvestDagInv DEF IInv
  <2> QED
    BY <1>1, <2>1 DEF IInv
<1> QED
  BY <1>2, <1>3, <1>4 DEF Next, vars, Add, add, HarvestAbove

\* IInv is an invariant of DagModule.
THEOREM Invariance == Spec => []IInv
BY InitIInv, NextIInv, PTL DEF Spec

\* Type correctness of the DAG state, the waitlist's levels included.
THEOREM TypeCorrect == Spec => []TypeOK
<1>1. IInv => TypeOK
  BY HistoriesAssumption, IInvParts DEF IInv, TypeOK
<1> QED
  BY <1>1, Invariance, PTL

\* m_waitlist agrees with the stored edge states after every add and harvest.
THEOREM WaitlistCorrect == Spec => []WaitlistConsistent
BY IInvParts, Invariance, PTL

\* add counts no citation that is not there ...
THEOREM CitationsSound == Spec => []DescendantsSound
BY IInvParts, Invariance, PTL

\* ... and, however records arrive, forgets none that a walk can still reach.
THEOREM CitationsComplete == Spec => []DescendantsComplete
BY IInvParts, Invariance, PTL

\* Nothing is interlocked that real citations of the configured policy and
\* threshold do not justify.
THEOREM InterlockSafe == Spec => []InterlockedJustified
BY IInvParts, Invariance, PTL

\* What an interlock stands for: Threshold arrived records really cite the
\* record harvestAbove took, of Threshold publishers under the witness policy.
THEOREM QuorumCorrect == Spec => []InterlockQuorum
<1>1. IInv => InterlockQuorum
  <2> SUFFICES ASSUME IInv, NEW n \in Name, dag.status[n] = INTERLOCKED
               PROVE  /\ Cardinality(Citing(n)) >= Threshold
                      /\ PolicyType = "policy-witness" =>
                           Cardinality({Prefix[d] : d \in Citing(n)}) >= Threshold
    BY DEF InterlockQuorum
  <2>1. Citing(n) = CitingIn(rec, dag, n) /\ Citing(n) \in SUBSET Name
    BY DEF Citing, CitingIn, Arrived, ArrivedIn
  <2>2. evaluate(Citing(n)) >= Threshold
    BY <2>1, InterlockedIsCited, ThresholdAssumption DEF IInv
  <2>3. {Prefix[d] : d \in Citing(n)} = witnesses(Citing(n))
    BY DEF witnesses
  <2>4. /\ Cardinality(Citing(n)) \in Nat
        /\ Cardinality(witnesses(Citing(n))) \in Nat
        /\ Cardinality(witnesses(Citing(n))) <= Cardinality(Citing(n))
    BY <2>1, EvaluateMonotone
  <2>5. CASE PolicyType = "policy-descendants"
    BY <2>2, <2>5 DEF evaluate
  <2>6. CASE PolicyType = "policy-witness"
    BY <2>2, <2>3, <2>4, <2>6, ThresholdAssumption DEF evaluate
  <2> QED
    BY <2>5, <2>6, PolicyAssumption
<1> QED
  BY <1>1, Invariance, PTL

\* Before anything is interlocked an instance's descendants are a function of
\* the set of records that arrived.
THEOREM OrderIrrelevant == Spec => []ArrivalOrderIrrelevant
<1>1. ASSUME IInv, \A n \in Name : dag.status[n] # INTERLOCKED, NEW a \in Name
      PROVE  dag.desc[a] = Citing(a)
  <2>1. dag.desc[a] \subseteq Citing(a)
    BY <1>1, IInvParts DEF DescendantsSound
  <2>2. ASSUME NEW d \in Citing(a) PROVE d \in dag.desc[a]
    <3>1. d \in Arrived /\ ~ isGenesis(rec[d]) /\ a \in CitedBy(rec, Arrived, d)
      BY DEF Citing
    <3>2. d \in Name
      BY <3>1 DEF Arrived
    <3>3. Points(rec) /\ dag.status \in [Name -> Status]
      BY <1>1, HistoryFacts, IInvParts DEF IInv, DagState
    <3>4. a \in getAncestors(rec, dag.status, d)
      BY <1>1, <3>1, <3>2, <3>3, CitedAreAncestors DEF Arrived
    <3> QED
      BY <1>1, <3>1, <3>4, IInvParts DEF DescendantsComplete
  <2> QED
    BY <2>1, <2>2
<1>2. IInv => ArrivalOrderIrrelevant
  BY <1>1 DEF ArrivalOrderIrrelevant
<1> QED
  BY <1>2, Invariance, PTL

\* Level 0 of the waitlist gives afterValidation a record to cite as soon as
\* one has arrived.
THEOREM TipsCorrect == Spec => []TipsExist
<1>1. IInv => TipsExist
  BY HistoryFacts, TipsOfDag, ThresholdAssumption
     DEF IInv, TipsExist, Arrived, ArrivedIn
<1> QED
  BY <1>1, Invariance, PTL

\* No record is among its own descendants.  Were it, the records on the way
\* from it back to it would form a set in which each is cited by another.
THEOREM NoSelfCitationCorrect == Spec => []NoSelfCitation
<1>1. ASSUME IInv, NEW d \in Name, d \in dag.desc[d] PROVE FALSE
  <2> DEFINE C == CitedBy(rec, Arrived, d)
             S == {x \in C \cap Arrived : d \in CitedBy(rec, Arrived, x)}
             A == {x \in Name : \E k \in C \cap Arrived :
                                  k # x /\ x \in rec[k].pointers}
  <2>1. /\ Points(rec) /\ NoSelfPointer(rec) /\ Acyclic(rec)
        /\ Arrived \in SUBSET Name
    BY <1>1, HistoryFacts DEF IInv, Arrived
  <2>2. d \in Arrived /\ ~ isGenesis(rec[d]) /\ d \in C
    BY <1>1, IInvParts DEF DescendantsSound, Citing
  <2>3. C \in SUBSET Name /\ CitationClosed(rec, Arrived, d, C)
    BY <2>1, CitedByIsLeast
  <2>4. C \subseteq A
    <3>1. rec[d].pointers \subseteq A
      BY <2>1, <2>2 DEF NoSelfPointer, Points
    <3>2. ASSUME NEW x \in A \cap Arrived, NEW p \in rec[x].pointers
          PROVE  p \in A
      <4>1. x \in C
        BY <2>3 DEF CitationClosed
      <4>2. p \in Name
        BY <2>1 DEF Points
      <4> QED
        BY <4>1, <4>2
    <3>3. CitationClosed(rec, Arrived, d, A)
      BY <3>1, <3>2 DEF CitationClosed
    <3>4. A \in SUBSET Name
      OBVIOUS
    <3> HIDE DEF A, C
    <3> QED
      BY <3>3, <3>4, <2>1, CitedByIsLeast DEF C
  <2>5. ASSUME NEW m \in S PROVE \E k \in S : k # m /\ m \in rec[k].pointers
    <3>1. PICK k \in C \cap Arrived : k # m /\ m \in rec[k].pointers
      BY <2>4
    <3>2. CitationClosed(rec, Arrived, m, CitedBy(rec, Arrived, k))
      BY <3>1, <2>1, CitedByIsLeast DEF CitationClosed
    <3>3. d \in CitedBy(rec, Arrived, k)
      BY <3>2, <2>1, <2>3, CitedByIsLeast
    <3> QED
      BY <3>1, <3>3
  <2>6. S \in SUBSET Name /\ d \in S
    BY <2>2, <2>3
  <2> HIDE DEF S
  <2> QED
    BY <2>1, <2>5, <2>6 DEF Acyclic
<1>2. IInv => NoSelfCitation
  BY <1>1 DEF NoSelfCitation
<1> QED
  BY <1>2, Invariance, PTL

\* No step takes back an arrival, an interlock or a citation.
LEMMA NextKeeps == IInv /\ [Next]_vars => [Keeps(dag, dag')]_vars
<1> SUFFICES ASSUME IInv, [Next]_vars PROVE [Keeps(dag, dag')]_vars
  OBVIOUS
<1>1. Points(rec) /\ dag \in DagState
  BY HistoryFacts, IInvParts DEF IInv
<1>2. ASSUME NEW r \in Name, Add(r), dag' # dag PROVE Keeps(dag, dag')
  <2>1. dag.status[r] = INITIALIZED
    BY <1>2 DEF Add, add
  <2>2. dag' = onNewRecord(rec, dag, r)
    BY <1>2, <2>1 DEF Add, add
  <2> QED
    BY <1>1, <2>1, <2>2, NewRecordKeeps
<1>3. ASSUME HarvestAbove PROVE Keeps(dag, dag')
  BY <1>1, <1>3, HarvestKeeps, ThresholdAssumption DEF HarvestAbove
<1> QED
  BY <1>2, <1>3 DEF Next, vars, Add

\* Arrivals, interlocks and citations are never taken back, and an interlocked
\* record's citations are final.
THEOREM IrrevocableCorrect == Spec => Irrevocable
BY Invariance, NextKeeps, PTL DEF Spec, Irrevocable, Keeps

------------------------------------------------------------------------------
(* DagModule implements InterlockLog. *)

\* What the log calls backers are the records DagModule should count.
LEMMA BackersAreCiting ==
  ASSUME rec \in [Name -> Record], PointersOk(rec), NEW x \in Name
  PROVE  Log!Backers(x) = Citing(x)
<1> DEFINE cites == [n \in Name |-> rec[n].pointers]
<1>1. \A n \in Name : cites[n] = rec[n].pointers
  OBVIOUS
<1>2. Arrived \subseteq Name
  BY DEF Arrived
<1>3. ASSUME NEW d \in Arrived PROVE d \notin cites[d] <=> ~ isGenesis(rec[d])
  BY <1>2 DEF PointersOk
<1>4. ASSUME NEW d \in Name, NEW A \in SUBSET Name
      PROVE  Log!Closed(d, A) <=> CitationClosed(rec, Arrived, d, A)
  BY DEF Log!Closed, CitationClosed
<1>5. ASSUME NEW d \in Name PROVE Log!CitedFrom(d) = CitedBy(rec, Arrived, d)
  BY <1>4 DEF Log!CitedFrom, CitedBy
<1> QED
  BY <1>2, <1>3, <1>5 DEF Log!Backers, Citing

\* Every interlocked record has the backing the policy asks for.
Backed == \A n \in Name : dag.status[n] = INTERLOCKED =>
            evaluate(Log!Backers(n)) >= Threshold

\* The backers are the records citing it, and those are enough.
LEMMA LockedIsBacked == IInv => Backed
<1> SUFFICES ASSUME IInv, NEW n \in Name, dag.status[n] = INTERLOCKED
             PROVE  evaluate(Log!Backers(n)) >= Threshold
  BY DEF Backed
<1>1. Log!Backers(n) = CitingIn(rec, dag, n)
  BY BackersAreCiting, HistoriesAssumption
     DEF IInv, Citing, CitingIn, Arrived, ArrivedIn
<1> QED
  BY <1>1, InterlockedIsCited, ThresholdAssumption DEF IInv

\* Every call of add or harvestAbove is a step of the log, or none.
LEMMA StepIsLogStep ==
  IInv /\ Backed' /\ [Next]_vars /\ [Keeps(dag, dag')]_vars => [Log!Step]_(Log!vars)
<1> SUFFICES ASSUME IInv, Backed', [Next]_vars, [Keeps(dag, dag')]_vars
             PROVE  [Log!Step]_(Log!vars)
  OBVIOUS
<1>1. rec' = rec
  BY DEF Next, Add, HarvestAbove, vars
<1>2. CASE dag' = dag
  BY <1>1, <1>2 DEF Log!vars, Arrived
<1>3. CASE Keeps(dag, dag')
  <2> DEFINE locked == {n \in Name : dag.status[n] = INTERLOCKED}
  <2>1. dag.status \in [Name -> Status]
    BY IInvParts DEF DagState
  <2>2. Arrived \subseteq Arrived' /\ Arrived' \subseteq Name
    BY <1>3, <2>1 DEF Keeps, Arrived, Status, INITIALIZED, INTERLOCKED, LOADED
  <2>3. locked \subseteq locked' /\ locked' \subseteq Arrived'
    BY <1>3 DEF Keeps, Arrived, INITIALIZED, INTERLOCKED
  <2>4. \A n \in Name : n \in locked' => evaluate(Log!Backers(n)') >= Threshold
    BY DEF Backed
  <2>5. [n \in Name |-> rec'[n].pointers] = [n \in Name |-> rec[n].pointers]
    BY <1>1
  <2>6. Log!Step
    BY <2>2, <2>3, <2>4, <2>5 DEF Log!Step
  <2> QED
    BY <2>6
<1> QED
  BY <1>2, <1>3 DEF vars

\* An instance's DAG implements the abstract log: whatever arrives late, twice
\* or out of order, harvestAbove interlocks only what is really backed, and
\* nothing add or harvestAbove does takes an interlock back.
THEOREM LogImplemented == Spec => ImplementsLog
<1>1. Init => Log!Init
  BY DEF Init, EmptyDag, Log!Init, Arrived, INITIALIZED, INTERLOCKED
<1> QED
  BY <1>1, Invariance, NextKeeps, LockedIsBacked, StepIsLogStep, PTL
     DEF Spec, ImplementsLog, Log!Spec

==============================================================================
