-------------------------- MODULE AncestorWalkProofs --------------------------
(***************************************************************************)
(* The loop of getAncestors returns the ancestors, for every graph (cycles *)
(* included), every status and every record to start from.                 *)
(***************************************************************************)
EXTENDS AncestorWalk, DagEngineTheorems

\* Between two rounds: what was kept was met; the names still to expand are
\* the frontier; and a round that found nothing new leaves nothing to expand,
\* because every loaded name it kept was on its frontier or expanded before.
WInv == /\ TypeOK
        /\ WalkSound
        /\ frontier \subseteq ancestors
        /\ pending = {a \in ancestors : status[a] = INITIALIZED}
        /\ currAncestors = Cardinality(ancestors)
        /\ pc = "start" => ancestors = {} /\ prevAncestors = 0
        /\ \A a \in frontier : status[a] = LOADED
        /\ pc # "start" => Walkable(rec, status, start) \subseteq ancestors
        /\ \A a \in ancestors : status[a] = LOADED =>
             a \in frontier \/ Walkable(rec, status, a) \subseteq ancestors
        /\ pc # "start" /\ ~ (currAncestors > prevAncestors) =>
             WalkClosed(rec, status, start, ancestors)
        /\ pc = "done" => ~ (currAncestors > prevAncestors)

\* WInv holds before getAncestors has read anything.
LEMMA InitWInv == Init => WInv
<1> SUFFICES ASSUME Init PROVE WInv
  OBVIOUS
<1>1. Cardinality(ancestors) = 0
  BY FS_EmptySet DEF Init
<1> QED
  BY <1>1, GraphsAssumption DEF Init, WInv, TypeOK, WalkSound

\* What Meet does when every pointer it meets is met by the walk.
LEMMA MeetSound ==
  ASSUME WInv, NEW ptrs \in SUBSET Name, Meet(ptrs),
         {p \in ptrs : status[p] # INTERLOCKED} \subseteq
           getAncestors(rec, status, start),
         rec' = rec, status' = status, start' = start
  PROVE  /\ ancestors' \subseteq Name /\ frontier' \subseteq Name
         /\ pending' \subseteq Name /\ currAncestors' \in Nat
         /\ WalkSound'
         /\ frontier' \subseteq ancestors'
         /\ pending' = {a \in ancestors' : status[a] = INITIALIZED}
         /\ currAncestors' = Cardinality(ancestors')
         /\ \A a \in frontier' : status[a] = LOADED
         /\ \A a \in ancestors' \ ancestors : status[a] = LOADED => a \in frontier'
<1>1. ancestors' \subseteq Name
  BY DEF WInv, TypeOK, Meet
<1>2. IsFiniteSet(ancestors')
  BY <1>1, NameAssumption, FS_Subset
<1>3. currAncestors' = Cardinality(ancestors') /\ currAncestors' \in Nat
  BY <1>2, FS_CardinalityType DEF Meet
<1>4. \A p \in ptrs : status[p] \in Status
  BY DEF WInv, TypeOK
<1>5. frontier' = {p \in ptrs : status[p] = LOADED}
  BY <1>4 DEF Meet, Status, INITIALIZED, LOADED, INTERLOCKED
<1>6. ancestors' = ancestors \cup {p \in ptrs : status[p] # INTERLOCKED}
  BY DEF Meet
<1>7. WalkSound'
  BY <1>6 DEF WInv, WalkSound
<1>8. pending' = {a \in ancestors' : status[a] = INITIALIZED}
  BY <1>6 DEF WInv, Meet, INITIALIZED, INTERLOCKED
<1>9. frontier' \subseteq ancestors'
  BY <1>5, <1>6 DEF LOADED, INTERLOCKED
<1>10. frontier' \subseteq Name /\ pending' \subseteq Name
  BY <1>1, <1>8, <1>9
<1> QED
  BY <1>1, <1>3, <1>5, <1>6, <1>7, <1>8, <1>9, <1>10

\* Reading the pointers of the record itself keeps WInv.
LEMMA StartWInv == WInv /\ Start => WInv'
<1> SUFFICES ASSUME WInv, Start PROVE WInv'
  OBVIOUS
<1> DEFINE ptrs == rec[start].pointers
<1>1. /\ rec \in [Name -> Record] /\ status \in [Name -> Status] /\ start \in Name
      /\ rec' = rec /\ status' = status /\ start' = start
  BY DEF WInv, TypeOK, Start
<1>0. Points(rec)
  BY <1>1 DEF Points, Record
<1>2. ptrs \in SUBSET Name
  BY <1>1 DEF Record
<1>3. {p \in ptrs : status[p] # INTERLOCKED} = Walkable(rec, status, start)
  BY DEF Walkable
<1>4. Walkable(rec, status, start) \subseteq getAncestors(rec, status, start)
  BY <1>0, <1>1, AncestorsAreLeast DEF WalkClosed
<1>5. Meet(ptrs)
  BY DEF Start
<1>6. ancestors = {} /\ prevAncestors = 0 /\ prevAncestors' = 0 /\ pc' = "loop"
  BY DEF WInv, Start
<1>7. /\ ancestors' \subseteq Name /\ frontier' \subseteq Name
      /\ pending' \subseteq Name /\ currAncestors' \in Nat
      /\ WalkSound'
      /\ frontier' \subseteq ancestors'
      /\ pending' = {a \in ancestors' : status[a] = INITIALIZED}
      /\ currAncestors' = Cardinality(ancestors')
      /\ \A a \in frontier' : status[a] = LOADED
      /\ \A a \in ancestors' \ ancestors : status[a] = LOADED => a \in frontier'
  <2> HIDE DEF ptrs
  <2> QED BY <1>1, <1>2, <1>3, <1>4, <1>5, MeetSound
<1>8. ancestors' = Walkable(rec, status, start)
  BY <1>3, <1>5, <1>6 DEF Meet
<1>9. ~ (currAncestors' > prevAncestors') => ancestors' = {}
  <2>1. IsFiniteSet(ancestors')
    BY <1>7, NameAssumption, FS_Subset
  <2> QED
    BY <2>1, <1>6, <1>7, FS_EmptySet
<1>10. ~ (currAncestors' > prevAncestors') =>
         WalkClosed(rec, status, start, ancestors')
  BY <1>8, <1>9 DEF WalkClosed
<1>11. TypeOK'
  BY <1>1, <1>6, <1>7 DEF TypeOK
<1> QED
  BY <1>1, <1>6, <1>7, <1>8, <1>10, <1>11 DEF WInv

\* One iteration of getAncestors' while loop keeps WInv.
LEMMA RoundWInv == WInv /\ Round => WInv'
<1> SUFFICES ASSUME WInv, Round PROVE WInv'
  OBVIOUS
<1> DEFINE ptrs == UNION {rec[f].pointers : f \in frontier}
           anc == getAncestors(rec, status, start)
<1>1. /\ rec \in [Name -> Record] /\ status \in [Name -> Status] /\ start \in Name
      /\ rec' = rec /\ status' = status /\ start' = start
      /\ pc = "loop" /\ pc' = "loop" /\ prevAncestors' = currAncestors
      /\ frontier \subseteq Name /\ ancestors \subseteq Name
  BY DEF WInv, TypeOK, Round
<1>0. Points(rec)
  BY <1>1 DEF Points, Record
<1>2. ptrs \in SUBSET Name
  BY <1>1 DEF Record
<1>3. \A f \in frontier : Walkable(rec, status, f) \subseteq anc
  <2>1. WalkClosed(rec, status, start, anc)
    BY <1>0, <1>1, AncestorsAreLeast
  <2> QED
    BY <2>1 DEF WInv, WalkSound, WalkClosed
<1>4. {p \in ptrs : status[p] # INTERLOCKED} \subseteq anc
  BY <1>3 DEF Walkable
<1>5. Meet(ptrs)
  BY DEF Round
<1>6. /\ ancestors' \subseteq Name /\ frontier' \subseteq Name
      /\ pending' \subseteq Name /\ currAncestors' \in Nat
      /\ WalkSound'
      /\ frontier' \subseteq ancestors'
      /\ pending' = {a \in ancestors' : status[a] = INITIALIZED}
      /\ currAncestors' = Cardinality(ancestors')
      /\ \A a \in frontier' : status[a] = LOADED
      /\ \A a \in ancestors' \ ancestors : status[a] = LOADED => a \in frontier'
  <2> HIDE DEF ptrs
  <2> QED BY <1>1, <1>2, <1>4, <1>5, MeetSound
<1>7. ancestors \subseteq ancestors'
  BY <1>5 DEF Meet
<1>8. \A f \in frontier : Walkable(rec, status, f) \subseteq ancestors'
  BY <1>5 DEF Meet, Walkable
<1>9. \A a \in ancestors : status[a] = LOADED =>
        Walkable(rec, status, a) \subseteq ancestors'
  BY <1>7, <1>8 DEF WInv
<1>10. Walkable(rec, status, start) \subseteq ancestors'
  BY <1>1, <1>7 DEF WInv
<1>11. ASSUME ~ (currAncestors' > prevAncestors')
       PROVE  WalkClosed(rec, status, start, ancestors')
  <2>1. IsFiniteSet(ancestors')
    BY <1>6, NameAssumption, FS_Subset
  <2>2. currAncestors = Cardinality(ancestors) /\ currAncestors \in Nat
    BY DEF WInv, TypeOK
  <2>3. Cardinality(ancestors) <= Cardinality(ancestors')
    BY <2>1, <1>7, FS_Subset
  <2>4. Cardinality(ancestors) = Cardinality(ancestors')
    BY <2>2, <2>3, <1>1, <1>6, <1>11
  <2>5. ancestors = ancestors'
    BY <2>1, <2>4, <1>7, FS_Subset
  <2> QED
    BY <2>5, <1>9, <1>10 DEF WalkClosed
<1>12. TypeOK'
  BY <1>1, <1>6 DEF TypeOK, WInv
<1>13. \A a \in ancestors' : status[a] = LOADED =>
         a \in frontier' \/ Walkable(rec, status, a) \subseteq ancestors'
  BY <1>6, <1>9
<1> QED
  BY <1>1, <1>6, <1>10, <1>11, <1>12, <1>13 DEF WInv

\* Every step of the loop keeps WInv.
LEMMA NextWInv == WInv /\ [Next]_vars => WInv'
<1> SUFFICES ASSUME WInv, [Next]_vars PROVE WInv'
  OBVIOUS
<1>1. CASE Return
  BY <1>1 DEF WInv, TypeOK, WalkSound, Return
<1>2. CASE UNCHANGED vars
  BY <1>2 DEF WInv, TypeOK, WalkSound, vars
<1> QED
  BY <1>1, <1>2, StartWInv, RoundWInv DEF Next, Done

\* WInv is an invariant of the loop of getAncestors.
THEOREM WalkInvariance == Spec => []WInv
BY InitWInv, NextWInv, PTL DEF Spec

\* The loop of getAncestors keeps its lists lists of names and its counts
\* natural numbers.
THEOREM WalkTypeCorrect == Spec => []TypeOK
<1>1. WInv => TypeOK
  BY DEF WInv
<1> QED
  BY <1>1, WalkInvariance, PTL

\* getAncestors keeps no name that is not an ancestor, at any point.
THEOREM WalkIsSound == Spec => []WalkSound
<1>1. WInv => WalkSound
  BY DEF WInv
<1> QED
  BY <1>1, WalkInvariance, PTL

\* getAncestors returns all ancestors and marks every placeholder among them.
THEOREM WalkIsCorrect == Spec => []WalkCorrect
<1>1. ASSUME WInv, pc = "done" PROVE ancestors = getAncestors(rec, status, start)
  <2>1. WalkClosed(rec, status, start, ancestors)
    BY <1>1 DEF WInv
  <2>2. Points(rec)
    BY <1>1 DEF WInv, TypeOK, Points, Record
  <2>3. getAncestors(rec, status, start) \subseteq ancestors
    BY <2>1, <2>2, <1>1, AncestorsAreLeast DEF WInv, TypeOK
  <2> QED
    BY <2>3, <1>1 DEF WInv, WalkSound
<1>2. WInv => WalkCorrect
  BY <1>1 DEF WInv, WalkCorrect
<1> QED
  BY <1>2, WalkInvariance, PTL

==============================================================================
