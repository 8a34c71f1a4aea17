-------------------------- MODULE DagEngineTheorems --------------------------
(***************************************************************************)
(* What the operators of DagEngine compute, for every finite set of names, *)
(* every record content and both policies, and the invariant of a DAG:     *)
(* the facts the proofs about the specifications built on DagEngine rest   *)
(* on.                                                                     *)
(***************************************************************************)
EXTENDS DagEngine, FiniteSetTheorems, TLAPS

\* All that is needed of the contents of records: they cite names.
Points(h) == \A m \in Name : h[m].pointers \in SUBSET Name

------------------------------------------------------------------------------
(* The policies. *)

\* Both policies give a level, and level 0 to records nobody cites only.
LEMMA EvaluateLevel ==
  ASSUME NEW D \in SUBSET Name
  PROVE  /\ evaluate(D) \in Nat
         /\ evaluate(D) = 0 <=> D = {}
<1>1. IsFiniteSet(D)
  BY NameAssumption, FS_Subset
<1>2. IsFiniteSet(witnesses(D))
  <2> DEFINE f == [d \in D |-> Prefix[d]]
  <2>1. f \in Surjection(D, witnesses(D))
    BY DEF witnesses, Surjection
  <2> QED
    BY <1>1, <2>1, FS_Surjection
<1>3. witnesses(D) = {} <=> D = {}
  BY DEF witnesses
<1>4. /\ Cardinality(D) \in Nat
      /\ Cardinality(D) = 0 <=> D = {}
  BY <1>1, FS_CardinalityType, FS_EmptySet
<1>5. /\ Cardinality(witnesses(D)) \in Nat
      /\ Cardinality(witnesses(D)) = 0 <=> witnesses(D) = {}
  BY <1>2, FS_CardinalityType, FS_EmptySet
<1> QED
  BY <1>3, <1>4, <1>5 DEF evaluate

\* More descendants are never fewer publishers, and a record has at least as
\* many descendants as they have publishers.
LEMMA EvaluateMonotone ==
  ASSUME NEW D \in SUBSET Name, NEW E \in SUBSET Name, D \subseteq E
  PROVE  /\ Cardinality(D) \in Nat /\ Cardinality(E) \in Nat
         /\ Cardinality(witnesses(D)) \in Nat /\ Cardinality(witnesses(E)) \in Nat
         /\ Cardinality(D) <= Cardinality(E)
         /\ Cardinality(witnesses(D)) <= Cardinality(witnesses(E))
         /\ Cardinality(witnesses(D)) <= Cardinality(D)
<1>1. IsFiniteSet(D) /\ IsFiniteSet(E)
  BY NameAssumption, FS_Subset
<1>2. /\ IsFiniteSet(witnesses(D))
      /\ Cardinality(witnesses(D)) <= Cardinality(D)
  <2> DEFINE f == [d \in D |-> Prefix[d]]
  <2>1. f \in Surjection(D, witnesses(D))
    BY DEF witnesses, Surjection
  <2> QED
    BY <1>1, <2>1, FS_Surjection
<1>3. IsFiniteSet(witnesses(E))
  <2> DEFINE f == [d \in E |-> Prefix[d]]
  <2>1. f \in Surjection(E, witnesses(E))
    BY DEF witnesses, Surjection
  <2> QED
    BY <1>1, <2>1, FS_Surjection
<1>4. witnesses(D) \subseteq witnesses(E)
  BY DEF witnesses
<1>5. Cardinality(D) <= Cardinality(E)
  BY <1>1, FS_Subset
<1>6. Cardinality(witnesses(D)) <= Cardinality(witnesses(E))
  BY <1>3, <1>4, FS_Subset
<1>7. /\ Cardinality(D) \in Nat /\ Cardinality(E) \in Nat
      /\ Cardinality(witnesses(D)) \in Nat /\ Cardinality(witnesses(E)) \in Nat
  BY <1>1, <1>2, <1>3, FS_CardinalityType
<1> QED
  BY <1>2, <1>5, <1>6, <1>7

------------------------------------------------------------------------------
(* getAncestors. *)

\* The result is a set of names the walk may enter, it cannot be left by the
\* walk, and it is the smallest such set.
LEMMA AncestorsAreLeast ==
  ASSUME NEW h, Points(h), NEW status \in [Name -> Status],
         NEW n \in Name
  PROVE  /\ getAncestors(h, status, n) \in SUBSET Name
         /\ \A a \in getAncestors(h, status, n) : status[a] # INTERLOCKED
         /\ WalkClosed(h, status, n, getAncestors(h, status, n))
         /\ \A A \in SUBSET Name :
              WalkClosed(h, status, n, A) => getAncestors(h, status, n) \subseteq A
<1> DEFINE anc == getAncestors(h, status, n)
           Open == {x \in Cited(h) : status[x] # INTERLOCKED}
<1>1. Cited(h) \in SUBSET Name /\ \A m \in Name : h[m].pointers \subseteq Cited(h)
  BY DEF Cited, Points
<1>2. anc \in SUBSET Cited(h)
  BY DEF getAncestors
<1>3. \A m \in Name : Walkable(h, status, m) \subseteq Open
  BY <1>1 DEF Walkable
<1>4. WalkClosed(h, status, n, Open)
  BY <1>3, <1>1 DEF WalkClosed
<1>5. anc \subseteq Open
  BY <1>4 DEF getAncestors
<1>6. WalkClosed(h, status, n, anc)
  <2>1. Walkable(h, status, n) \subseteq anc
    BY <1>3 DEF getAncestors, WalkClosed
  <2>2. ASSUME NEW a \in anc, status[a] = LOADED, NEW p \in Walkable(h, status, a)
        PROVE  p \in anc
    <3>1. p \in Cited(h)
      BY <1>1, <1>2, <1>3
    <3>2. ASSUME NEW A \in SUBSET Cited(h), WalkClosed(h, status, n, A)
          PROVE  p \in A
      <4>1. a \in A
        BY <3>2 DEF getAncestors
      <4> QED
        BY <4>1, <3>2, <2>2 DEF WalkClosed
    <3> QED
      BY <3>1, <3>2 DEF getAncestors
  <2> QED
    BY <2>1, <2>2 DEF WalkClosed
<1>7. ASSUME NEW A \in SUBSET Name, WalkClosed(h, status, n, A)
      PROVE  anc \subseteq A
  <2>1. WalkClosed(h, status, n, A \cap Cited(h))
    BY <1>7, <1>3, <1>1 DEF WalkClosed
  <2> QED
    BY <2>1 DEF getAncestors
<1> QED
  BY <1>1, <1>2, <1>5, <1>6, <1>7

\* A walk that did not meet r does not change when r is loaded ...
LEMMA WalkWithoutLoaded ==
  ASSUME NEW h, Points(h), NEW status \in [Name -> Status],
         NEW n \in Name, NEW r \in Name, status[r] = INITIALIZED,
         r \notin getAncestors(h, status, n),
         NEW after, after = [status EXCEPT ![r] = LOADED]
  PROVE  getAncestors(h, after, n) \subseteq getAncestors(h, status, n)
<1> DEFINE anc == getAncestors(h, status, n)
<1>1. after \in [Name -> Status]
  BY DEF Status
<1>2. \A p \in Name : after[p] = INTERLOCKED <=> status[p] = INTERLOCKED
  BY DEF INITIALIZED, LOADED, INTERLOCKED
<1>3. \A m \in Name : Walkable(h, after, m) = Walkable(h, status, m)
  BY <1>2 DEF Walkable, Points
<1>4. anc \in SUBSET Name /\ WalkClosed(h, status, n, anc)
  BY AncestorsAreLeast
<1>5. WalkClosed(h, after, n, anc)
  BY <1>3, <1>4 DEF WalkClosed
<1> QED
  BY <1>1, <1>4, <1>5, AncestorsAreLeast

\* ... and interlocking more records only shortens walks.
LEMMA WalkAfterInterlock ==
  ASSUME NEW h, Points(h), NEW status \in [Name -> Status],
         NEW after \in [Name -> Status], NEW n \in Name,
         \A p \in Name : after[p] = status[p] \/ after[p] = INTERLOCKED
  PROVE  getAncestors(h, after, n) \subseteq getAncestors(h, status, n)
<1> DEFINE anc == getAncestors(h, status, n)
<1>1. \A m \in Name : Walkable(h, after, m) \subseteq Walkable(h, status, m)
  BY DEF Walkable, Points
<1>2. anc \in SUBSET Name /\ WalkClosed(h, status, n, anc)
  BY AncestorsAreLeast
<1>3. \A a \in Name : after[a] = LOADED => status[a] = LOADED
  BY DEF LOADED, INTERLOCKED
<1>4. WalkClosed(h, after, n, anc)
  BY <1>1, <1>2, <1>3 DEF WalkClosed
<1> QED
  BY <1>2, <1>4, AncestorsAreLeast

------------------------------------------------------------------------------
(* What add and harvestAbove do to a DAG state. *)

\* The records whose ancestors onNewRecord walks.
Walking(h, st, r) == {d \in st.desc[r] \cup {r} : ~ isGenesis(h[d])}

\* The descendants a gains, given the status the walks read.
Citers(h, st, status, r, a) ==
  {d \in Walking(h, st, r) : a \in getAncestors(h, status, d)}

\* The names whose place in the waitlist onNewRecord evaluates.
Visited(h, st, status, r) ==
  {a \in Name : a = r \/ Citers(h, st, status, r, a) # {}}

\* The state new that onNewRecord leaves, name by name.
NewRecordLeaves(h, st, r, new) ==
  /\ new \in DagState
  /\ new.status = [st.status EXCEPT ![r] = LOADED]
  /\ \A a \in Name :
       new.desc[a] = st.desc[a] \cup Citers(h, st, new.status, r, a)
  /\ new.wait = evaluateWaitlist(st.wait, new.status, new.desc,
                                 Visited(h, st, new.status, r))

\* onNewRecord leaves what NewRecordLeaves says, field by field.
LEMMA NewRecordEffect ==
  ASSUME NEW h, Points(h), NEW st \in DagState, NEW r \in Name,
         NEW new, new = onNewRecord(h, st, r)
  PROVE  NewRecordLeaves(h, st, r, new)
<1> DEFINE status == [st.status EXCEPT ![r] = LOADED]
           W == Walking(h, st, r)
           anc == [d \in W |-> getAncestors(h, status, d)]
           citing(a) == {d \in W : a \in anc[d]}
           desc == [a \in Name |-> st.desc[a] \cup citing(a)]
           visited == {a \in Name : a = r \/ citing(a) # {}}
           wait == evaluateWaitlist(st.wait, status, desc, visited)
<1>1. new = [status |-> status, desc |-> desc, wait |-> wait]
  BY DEF onNewRecord, Walking
<1>2. new.status = status /\ new.desc = desc /\ new.wait = wait
  BY <1>1
<1>3. status \in [Name -> Status]
  BY DEF DagState, Status
<1>4. W \in SUBSET Name
  BY DEF Walking, DagState
<1>5. desc \in [Name -> SUBSET Name]
  BY <1>4 DEF DagState
<1>6. wait \in SUBSET (Nat \X Name)
  <2> DEFINE moved == {n \in visited : status[n] # INTERLOCKED}
  <2>1. wait = {e \in st.wait : e[2] \notin moved}
                 \cup {<<evaluate(desc[n]), n>> : n \in moved}
    BY DEF evaluateWaitlist
  <2>2. \A n \in moved : <<evaluate(desc[n]), n>> \in Nat \X Name
    BY <1>5, EvaluateLevel
  <2>3. st.wait \in SUBSET (Nat \X Name)
    BY DEF DagState
  <2> HIDE DEF moved, wait, desc, status
  <2> QED
    BY <2>1, <2>2, <2>3
<1>7. new \in DagState
  <2> HIDE DEF status, desc, wait
  <2> QED BY <1>1, <1>3, <1>5, <1>6 DEF DagState
<1>8. \A a : citing(a) = Citers(h, st, new.status, r, a)
  BY <1>2 DEF Citers
<1>9. \A a \in Name : new.desc[a] = st.desc[a] \cup Citers(h, st, new.status, r, a)
  BY <1>2, <1>8
<1>10. visited = Visited(h, st, new.status, r)
  BY <1>8 DEF Visited
<1> HIDE DEF status, desc, wait, visited, W, anc
<1> QED
  BY <1>2, <1>7, <1>9, <1>10 DEF NewRecordLeaves, status, wait

\* The state harvestAbove leaves: the ripe names, and no others, change their
\* status and lose their places at or above the threshold.
LEMMA HarvestEffect ==
  ASSUME NEW st \in DagState, NEW threshold \in Nat,
         NEW new, new = harvestAbove(st, threshold)
  PROVE  /\ new \in DagState
         /\ new.desc = st.desc
         /\ \A n \in Name :
              new.status[n] = IF n \in ripe(st, threshold) THEN INTERLOCKED
                                                           ELSE st.status[n]
         /\ new.wait = {e \in st.wait :
                          ~ (e[2] \in ripe(st, threshold) /\ e[1] >= threshold)}
<1> DEFINE out == ripe(st, threshold)
           status == [n \in Name |-> IF n \in out THEN INTERLOCKED
                                                  ELSE st.status[n]]
           wait == {e \in st.wait : ~ (e[2] \in out /\ e[1] >= threshold)}
<1>1. st = [status |-> st.status, desc |-> st.desc, wait |-> st.wait]
  BY DEF DagState
<1>2. new = [status |-> status, desc |-> st.desc, wait |-> wait]
  BY <1>1 DEF harvestAbove
<1>3. status \in [Name -> Status]
  BY DEF DagState, Status
<1>4. wait \in SUBSET (Nat \X Name)
  BY DEF DagState
<1>5. new \in DagState
  <2> HIDE DEF status, wait
  <2> QED BY <1>2, <1>3, <1>4 DEF DagState
<1> QED
  BY <1>2, <1>5

------------------------------------------------------------------------------
(* The waitlist. *)

\* The names that belong in the waitlist of st.
Waiting(st) == {m \in Name : \/ st.status[m] = LOADED
                             \/ st.status[m] = INITIALIZED /\ st.desc[m] # {}}

\* WaitlistConsistent, place by place.
WaitlistPointwise(st) ==
  \A n \in Name, l \in Nat :
    <<l, n>> \in st.wait <=> n \in Waiting(st) /\ l = evaluate(st.desc[n])

\* The waitlist is the set WaitlistConsistent asks for just when the two agree
\* on every pair of a level and a name.
LEMMA WaitlistForms ==
  ASSUME NEW st \in DagState
  PROVE  WaitlistPointwise(st) <=>
           st.wait = {<<evaluate(st.desc[n]), n>> : n \in Waiting(st)}
<1>1. st.wait \in SUBSET (Nat \X Name)
  BY DEF DagState
<1>2. \A n \in Name : evaluate(st.desc[n]) \in Nat
  BY EvaluateLevel DEF DagState
<1>3. Waiting(st) \in SUBSET Name
  BY DEF Waiting
<1>4. ASSUME WaitlistPointwise(st)
      PROVE  st.wait = {<<evaluate(st.desc[n]), n>> : n \in Waiting(st)}
  <2>1. ASSUME NEW e \in st.wait
        PROVE  e \in {<<evaluate(st.desc[n]), n>> : n \in Waiting(st)}
    <3>1. PICK l \in Nat, n \in Name : e = <<l, n>>
      BY <1>1
    <3> QED
      BY <3>1, <1>4 DEF WaitlistPointwise
  <2>2. ASSUME NEW n \in Waiting(st)
        PROVE  <<evaluate(st.desc[n]), n>> \in st.wait
    BY <1>2, <1>3, <1>4 DEF WaitlistPointwise
  <2> QED
    BY <2>1, <2>2
<1>5. ASSUME st.wait = {<<evaluate(st.desc[n]), n>> : n \in Waiting(st)}
      PROVE  WaitlistPointwise(st)
  BY <1>5 DEF WaitlistPointwise
<1> QED
  BY <1>4, <1>5

\* add and harvestAbove keep the waitlist in step with the edge states.
LEMMA NewRecordWaitlist ==
  ASSUME NEW h, Points(h), NEW st \in DagState, NEW r \in Name,
         st.status[r] = INITIALIZED, WaitlistPointwise(st),
         NEW new, new = onNewRecord(h, st, r)
  PROVE  WaitlistPointwise(new)
<1> DEFINE citing(a) == Citers(h, st, new.status, r, a)
           visited == Visited(h, st, new.status, r)
           moved == {n \in visited : new.status[n] # INTERLOCKED}
<1>0. NewRecordLeaves(h, st, r, new)
  BY NewRecordEffect
<1>1. /\ new \in DagState
      /\ new.status = [st.status EXCEPT ![r] = LOADED]
      /\ \A a \in Name : new.desc[a] = st.desc[a] \cup citing(a)
      /\ new.wait = evaluateWaitlist(st.wait, new.status, new.desc, visited)
  BY <1>0 DEF NewRecordLeaves
<1>2. Walking(h, st, r) \in SUBSET Name
  BY DEF Walking, DagState
<1>3. \A a \in visited : new.status[a] # INTERLOCKED
  <2>1. new.status[r] # INTERLOCKED
    BY <1>1 DEF DagState, LOADED, INTERLOCKED
  <2>2. ASSUME NEW a \in Name, NEW d \in citing(a)
        PROVE  new.status[a] # INTERLOCKED
    BY <1>1, <1>2, AncestorsAreLeast DEF DagState, Citers
  <2> QED
    BY <2>1, <2>2 DEF Visited
<1>4. new.wait = {e \in st.wait : e[2] \notin visited}
                   \cup {<<evaluate(new.desc[n]), n>> : n \in visited}
  <2>1. moved = visited
    BY <1>3
  <2> QED
    BY <1>1, <2>1 DEF evaluateWaitlist
<1>5. \A n \in visited : n \in Waiting(new)
  <2>1. r \in Waiting(new)
    BY <1>1 DEF Waiting, DagState
  <2>2. ASSUME NEW a \in Name, citing(a) # {}
        PROVE  a \in Waiting(new)
    <3>1. new.desc[a] # {}
      BY <1>1, <2>2
    <3>2. new.status[a] \in Status /\ new.status[a] # INTERLOCKED
      BY <1>1, <1>3, <2>2 DEF DagState, Visited
    <3> QED
      BY <3>1, <3>2 DEF Waiting, Status
  <2> QED
    BY <2>1, <2>2 DEF Visited
<1>6. \A n \in Name \ visited : /\ new.desc[n] = st.desc[n]
                                /\ new.status[n] = st.status[n]
  <2> SUFFICES ASSUME NEW n \in Name, n \notin visited
               PROVE  new.desc[n] = st.desc[n] /\ new.status[n] = st.status[n]
    OBVIOUS
  <2>1. n # r /\ citing(n) = {}
    BY DEF Visited
  <2>2. new.desc[n] = st.desc[n] \cup citing(n)
    BY <1>1
  <2>3. st.status \in [Name -> Status]
    BY DEF DagState
  <2> QED
    BY <1>1, <2>1, <2>2, <2>3
<1>7. \A n \in Name \ visited : n \in Waiting(new) <=> n \in Waiting(st)
  BY <1>6 DEF Waiting
<1>8. \A n \in Name : evaluate(new.desc[n]) \in Nat
  BY <1>1, EvaluateLevel DEF DagState
<1>9. SUFFICES ASSUME NEW n \in Name, NEW l \in Nat
               PROVE  <<l, n>> \in new.wait <=>
                        n \in Waiting(new) /\ l = evaluate(new.desc[n])
  BY DEF WaitlistPointwise
<1> HIDE DEF visited
<1>10. CASE n \in visited
  BY <1>10, <1>4, <1>5, <1>8
<1>11. CASE n \notin visited
  <2>1. <<l, n>> \in new.wait <=> <<l, n>> \in st.wait
    BY <1>4, <1>11
  <2> QED
    BY <2>1, <1>6, <1>7, <1>11 DEF WaitlistPointwise
<1> QED
  BY <1>10, <1>11

\* harvestAbove, which erases the ripe names from m_waitlist and stores them
\* INTERLOCKED, leaves the two in step.
LEMMA HarvestWaitlist ==
  ASSUME NEW st \in DagState, NEW threshold \in Nat, WaitlistPointwise(st),
         NEW new, new = harvestAbove(st, threshold)
  PROVE  WaitlistPointwise(new)
<1> DEFINE out == ripe(st, threshold)
<1>1. /\ new \in DagState
      /\ new.desc = st.desc
      /\ \A n \in Name : new.status[n] = IF n \in out THEN INTERLOCKED
                                                      ELSE st.status[n]
      /\ new.wait = {e \in st.wait : ~ (e[2] \in out /\ e[1] >= threshold)}
  BY HarvestEffect
<1>2. \A n \in out : <<evaluate(st.desc[n]), n>> \in st.wait
                     /\ evaluate(st.desc[n]) >= threshold
  <2> SUFFICES ASSUME NEW n \in out
               PROVE  /\ <<evaluate(st.desc[n]), n>> \in st.wait
                      /\ evaluate(st.desc[n]) >= threshold
    OBVIOUS
  <2>1. n \in Name /\ \E e \in st.wait : e[2] = n /\ e[1] >= threshold
    BY DEF ripe
  <2>2. PICK l \in Nat : <<l, n>> \in st.wait /\ l >= threshold
    BY <2>1 DEF DagState
  <2> QED
    BY <2>1, <2>2 DEF WaitlistPointwise
<1>3. SUFFICES ASSUME NEW n \in Name, NEW l \in Nat
               PROVE  <<l, n>> \in new.wait <=>
                        n \in Waiting(new) /\ l = evaluate(new.desc[n])
  BY DEF WaitlistPointwise
<1>4. CASE n \in out
  <2>1. n \notin Waiting(new)
    BY <1>1, <1>4 DEF Waiting, INTERLOCKED, LOADED, INITIALIZED
  <2>2. <<l, n>> \notin new.wait
    <3>1. <<l, n>> \in st.wait => l = evaluate(st.desc[n])
      BY DEF WaitlistPointwise
    <3> QED
      BY <3>1, <1>1, <1>2, <1>4
  <2> QED
    BY <2>1, <2>2
<1>5. CASE n \notin out
  <2>1. n \in Waiting(new) <=> n \in Waiting(st)
    BY <1>1, <1>5 DEF Waiting
  <2>2. <<l, n>> \in new.wait <=> <<l, n>> \in st.wait
    BY <1>1, <1>5
  <2> QED
    BY <2>1, <2>2, <1>1 DEF WaitlistPointwise
<1> QED
  BY <1>4, <1>5

------------------------------------------------------------------------------
(* What is never taken back. *)

\* What a step keeps of the state st it starts from.
Keeps(st, new) ==
  \A n \in Name :
    /\ st.status[n] = INTERLOCKED =>
         new.status[n] = INTERLOCKED /\ new.desc[n] = st.desc[n]
    /\ st.status[n] = LOADED => new.status[n] # INITIALIZED
    /\ st.desc[n] \subseteq new.desc[n]

\* onNewRecord takes back no arrival, no interlock and no citation.
LEMMA NewRecordKeeps ==
  ASSUME NEW h, Points(h), NEW st \in DagState, NEW r \in Name,
         st.status[r] = INITIALIZED,
         NEW new, new = onNewRecord(h, st, r)
  PROVE  Keeps(st, new)
<1>0. NewRecordLeaves(h, st, r, new)
  BY NewRecordEffect
<1>1. /\ new \in DagState
      /\ new.status = [st.status EXCEPT ![r] = LOADED]
      /\ \A a \in Name :
           new.desc[a] = st.desc[a] \cup Citers(h, st, new.status, r, a)
      /\ new.wait = evaluateWaitlist(st.wait, new.status, new.desc,
                                     Visited(h, st, new.status, r))
  BY <1>0 DEF NewRecordLeaves
<1>2. Walking(h, st, r) \in SUBSET Name /\ st.status \in [Name -> Status]
  BY DEF Walking, DagState
<1>3. ASSUME NEW n \in Name, st.status[n] = INTERLOCKED
      PROVE  new.status[n] = INTERLOCKED /\ new.desc[n] = st.desc[n]
  <2>1. new.status[n] = INTERLOCKED
    BY <1>1, <1>2, <1>3 DEF INTERLOCKED, INITIALIZED
  <2>2. Citers(h, st, new.status, r, n) = {}
    BY <1>1, <1>2, <2>1, AncestorsAreLeast DEF Citers, DagState
  <2>3. new.desc[n] = st.desc[n] \cup Citers(h, st, new.status, r, n)
    BY <1>1
  <2> QED
    BY <2>1, <2>2, <2>3
<1>4. \A n \in Name : st.status[n] = LOADED => new.status[n] # INITIALIZED
  BY <1>1, <1>2 DEF LOADED, INITIALIZED
<1>5. \A n \in Name : st.desc[n] \subseteq new.desc[n]
  BY <1>1
<1> QED
  BY <1>3, <1>4, <1>5 DEF Keeps

\* Nor does harvestAbove.
LEMMA HarvestKeeps ==
  ASSUME NEW st \in DagState, NEW threshold \in Nat,
         NEW new, new = harvestAbove(st, threshold)
  PROVE  Keeps(st, new)
<1>1. /\ new.desc = st.desc
      /\ \A n \in Name : new.status[n] =
           IF n \in ripe(st, threshold) THEN INTERLOCKED ELSE st.status[n]
  BY HarvestEffect
<1> QED
  BY <1>1 DEF Keeps, INTERLOCKED, INITIALIZED, LOADED

------------------------------------------------------------------------------
(* The invariant of a DAG state over the records h: a predicate of h, the   *)
(* state and the threshold, kept by onNewRecord and by harvestAbove, and    *)
(* what follows from it.  DagModule has one such state over records that    *)
(* are there from the start, LedgerModule one for each instance over        *)
(* records that come to be.                                                 *)

\* Names whose record has arrived.
ArrivedIn(st) == {n \in Name : st.status[n] # INITIALIZED}

\* The arrived records that cite a, directly or through arrived records.
CitingIn(h, st, a) ==
  {d \in ArrivedIn(st) : ~ isGenesis(h[d]) /\ a \in CitedBy(h, ArrivedIn(st), d)}

\* The descendants are real, none that a walk reaches is missing, and what is
\* interlocked has enough of them.
Sound(h, st) == \A a \in Name : st.desc[a] \subseteq CitingIn(h, st, a)

Complete(h, st) ==
  \A d \in ArrivedIn(st) : ~ isGenesis(h[d]) =>
    \A a \in getAncestors(h, st.status, d) : d \in st.desc[a]

Justified(st, threshold) ==
  \A n \in Name : st.status[n] = INTERLOCKED => evaluate(st.desc[n]) >= threshold

\* The waitlist must agree with the edge states for a harvest to take only what
\* is cited enough; the descendants must be sound for the tips, and complete for
\* a late record to be counted for those behind it: onNewRecord resumes walks
\* only for the descendants the placeholder has.
DagInv(h, st, threshold) == /\ st \in DagState
                            /\ WaitlistPointwise(st)
                            /\ Sound(h, st)
                            /\ Complete(h, st)
                            /\ Justified(st, threshold)

------------------------------------------------------------------------------
(* Citations. *)

\* CitedBy is the smallest set of names that citations through arrived
\* records do not leave.
LEMMA CitedByIsLeast ==
  ASSUME NEW h, Points(h), NEW arrived \in SUBSET Name, NEW n \in Name
  PROVE  /\ CitedBy(h, arrived, n) \in SUBSET Name
         /\ CitationClosed(h, arrived, n, CitedBy(h, arrived, n))
         /\ \A A \in SUBSET Name : CitationClosed(h, arrived, n, A) =>
              CitedBy(h, arrived, n) \subseteq A
<1> DEFINE C == CitedBy(h, arrived, n)
<1>1. \A m \in Name : h[m].pointers \subseteq Name
  BY DEF Points
<1>2. C \in SUBSET Name
  BY DEF CitedBy
<1>3. \A A \in SUBSET Name : CitationClosed(h, arrived, n, A) => C \subseteq A
  BY DEF CitedBy
<1>4. h[n].pointers \subseteq C
  BY <1>1 DEF CitedBy, CitationClosed
<1>5. ASSUME NEW a \in C \cap arrived, NEW p \in h[a].pointers
      PROVE  p \in C
  <2>1. p \in Name
    BY <1>1, <1>2
  <2>2. ASSUME NEW A \in SUBSET Name, CitationClosed(h, arrived, n, A)
        PROVE  p \in A
    BY <1>3, <1>5, <2>2 DEF CitationClosed
  <2> QED
    BY <2>1, <2>2 DEF CitedBy
<1> QED
  BY <1>2, <1>3, <1>4, <1>5 DEF CitationClosed

\* More arrivals, more citations.
LEMMA CitedByMonotone ==
  ASSUME NEW h, Points(h), NEW S \in SUBSET Name,
         NEW T \in SUBSET Name, S \subseteq T, NEW n \in Name
  PROVE  CitedBy(h, S, n) \subseteq CitedBy(h, T, n)
<1>1. CitationClosed(h, S, n, CitedBy(h, T, n))
  BY CitedByIsLeast DEF CitationClosed
<1> QED
  BY <1>1, CitedByIsLeast

\* A walk only meets cited records ...
LEMMA AncestorsAreCited ==
  ASSUME NEW h, Points(h), NEW status \in [Name -> Status],
         NEW arrived \in SUBSET Name, NEW n \in Name,
         \A a \in Name : status[a] = LOADED => a \in arrived
  PROVE  getAncestors(h, status, n) \subseteq CitedBy(h, arrived, n)
<1>1. WalkClosed(h, status, n, CitedBy(h, arrived, n))
  BY CitedByIsLeast DEF CitationClosed, WalkClosed, Walkable
<1> QED
  BY <1>1, CitedByIsLeast, AncestorsAreLeast

\* ... and, while nothing is interlocked, all of them.
LEMMA CitedAreAncestors ==
  ASSUME NEW h, Points(h), NEW status \in [Name -> Status],
         NEW n \in Name, \A a \in Name : status[a] # INTERLOCKED
  PROVE  CitedBy(h, {a \in Name : status[a] # INITIALIZED}, n)
           \subseteq getAncestors(h, status, n)
<1> DEFINE arrived == {a \in Name : status[a] # INITIALIZED}
           anc == getAncestors(h, status, n)
<1>1. \A a \in arrived : status[a] = LOADED
  BY DEF Status
<1>2. \A m \in Name : Walkable(h, status, m) = h[m].pointers
  BY DEF Walkable, Points
<1>3. WalkClosed(h, status, n, anc) /\ anc \in SUBSET Name
  BY AncestorsAreLeast
<1>4. CitationClosed(h, arrived, n, anc)
  BY <1>1, <1>2, <1>3 DEF CitationClosed, WalkClosed
<1> QED
  BY <1>3, <1>4, CitedByIsLeast

\* Only genesis records cite themselves.
NoSelfPointer(h) == \A n \in Name : n \in h[n].pointers => isGenesis(h[n])

\* A cited record is cited directly, by an arrived record other than itself.
LEMMA CitedDirectly ==
  ASSUME NEW h, Points(h), NoSelfPointer(h), NEW arrived \in SUBSET Name,
         NEW d \in arrived, ~ isGenesis(h[d]), NEW a \in CitedBy(h, arrived, d)
  PROVE  \E k \in arrived : k # a /\ a \in h[k].pointers
<1> DEFINE A == {x \in Name : \E k \in arrived : k # x /\ x \in h[k].pointers}
<1>1. h[d].pointers \subseteq A
  BY DEF NoSelfPointer, Points
<1>2. ASSUME NEW x \in A \cap arrived, NEW p \in h[x].pointers
      PROVE  p \in A
  <2>1. CASE p = x
    BY <2>1
  <2>2. CASE p # x
    BY <2>2 DEF Points
  <2> QED
    BY <2>1, <2>2
<1>3. CitationClosed(h, arrived, d, A)
  BY <1>1, <1>2 DEF CitationClosed
<1> QED
  BY <1>3, CitedByIsLeast

------------------------------------------------------------------------------
(* DagInv is an invariant of a DAG's operations. *)

\* A DagModule over an empty storage satisfies it.
LEMMA EmptyDagInv ==
  ASSUME NEW h, NEW threshold \in Nat
  PROVE  DagInv(h, EmptyDag, threshold)
<1> DEFINE st == EmptyDag
<1>1. st \in DagState
  BY DEF EmptyDag, DagState, Status
<1>2. /\ \A n \in Name : st.status[n] = INITIALIZED /\ st.desc[n] = {}
      /\ st.wait = {}
  BY DEF EmptyDag
<1> HIDE DEF st
<1>3. WaitlistPointwise(st)
  BY <1>2 DEF WaitlistPointwise, Waiting, LOADED, INITIALIZED
<1>4. Sound(h, st)
  BY <1>2 DEF Sound
<1>5. Complete(h, st)
  BY <1>2 DEF Complete, ArrivedIn
<1>6. Justified(st, threshold)
  BY <1>2 DEF Justified, INTERLOCKED, INITIALIZED
<1> QED
  BY <1>1, <1>3, <1>4, <1>5, <1>6 DEF DagInv, st

\* Loading a record that was not there keeps it.
LEMMA NewRecordDagInv ==
  ASSUME NEW h, Points(h), NEW st, NEW threshold \in Nat, DagInv(h, st, threshold),
         NEW r \in Name, st.status[r] = INITIALIZED,
         NEW new, new = onNewRecord(h, st, r)
  PROVE  /\ DagInv(h, new, threshold)
         /\ ArrivedIn(new) = ArrivedIn(st) \cup {r}
<1> DEFINE gained(a) == Citers(h, st, new.status, r, a)
<1>1. st \in DagState
  BY DEF DagInv
<1>0. NewRecordLeaves(h, st, r, new)
  BY <1>1, NewRecordEffect
<1>2. /\ new \in DagState
      /\ new.status = [st.status EXCEPT ![r] = LOADED]
      /\ \A a \in Name : new.desc[a] = st.desc[a] \cup gained(a)
  BY <1>0 DEF NewRecordLeaves
<1>3. Walking(h, st, r) \in SUBSET Name /\ ArrivedIn(st) \in SUBSET Name
  BY <1>1 DEF Walking, DagState, ArrivedIn
<1>4. st.status \in [Name -> Status] /\ new.status \in [Name -> Status]
  BY <1>1, <1>2 DEF DagState
<1>5. ArrivedIn(new) = ArrivedIn(st) \cup {r}
  BY <1>2, <1>4 DEF ArrivedIn, INITIALIZED, LOADED
<1>6. WaitlistPointwise(new)
  BY <1>1, NewRecordWaitlist DEF DagInv
<1>7. Sound(h, new)
  <2> SUFFICES ASSUME NEW a \in Name, NEW d \in new.desc[a]
               PROVE  /\ d \in ArrivedIn(new) /\ ~ isGenesis(h[d])
                      /\ a \in CitedBy(h, ArrivedIn(new), d)
    BY DEF Sound, CitingIn
  <2>1. CASE d \in st.desc[a]
    <3>1. /\ d \in ArrivedIn(st) /\ ~ isGenesis(h[d])
          /\ a \in CitedBy(h, ArrivedIn(st), d)
      BY <2>1 DEF DagInv, Sound, CitingIn
    <3> QED
      BY <3>1, <1>3, <1>5, CitedByMonotone
  <2>2. CASE d \in gained(a)
    <3>1. d \in st.desc[r] \cup {r} /\ ~ isGenesis(h[d])
      BY <2>2 DEF Citers, Walking
    <3>2. d \in ArrivedIn(new)
      BY <3>1, <1>5 DEF DagInv, Sound, CitingIn
    <3>3. a \in getAncestors(h, new.status, d)
      BY <2>2 DEF Citers
    <3>4. \A x \in Name : new.status[x] = LOADED => x \in ArrivedIn(new)
      BY DEF ArrivedIn, LOADED, INITIALIZED
    <3>5. d \in Name /\ ArrivedIn(new) \in SUBSET Name
      BY <3>2, <1>3, <1>5
    <3> QED
      BY <3>1, <3>2, <3>3, <3>4, <3>5, <1>4, AncestorsAreCited
  <2> QED
    BY <1>2, <2>1, <2>2
<1>8. Complete(h, new)
  <2> SUFFICES ASSUME NEW d \in ArrivedIn(new), ~ isGenesis(h[d]),
                      NEW a \in getAncestors(h, new.status, d)
               PROVE  d \in new.desc[a]
    BY DEF Complete
  <2>1. d \in Name /\ a \in Name
    BY <1>3, <1>4, <1>5, AncestorsAreLeast
  <2>2. CASE d \in Walking(h, st, r)
    BY <1>2, <2>1, <2>2 DEF Citers
  <2>3. CASE d \notin Walking(h, st, r)
    <3>1. d # r /\ d \notin st.desc[r]
      BY <2>3 DEF Walking
    <3>2. d \in ArrivedIn(st)
      BY <3>1, <1>5
    <3>3. r \notin getAncestors(h, st.status, d)
      BY <3>1, <3>2 DEF DagInv, Complete
    <3>4. a \in getAncestors(h, st.status, d)
      BY <3>3, <2>1, <1>2, <1>4, WalkWithoutLoaded
    <3> QED
      BY <3>2, <3>4, <2>1, <1>2 DEF DagInv, Complete
  <2> QED
    BY <2>2, <2>3
<1>9. Justified(new, threshold)
  <2> SUFFICES ASSUME NEW n \in Name, new.status[n] = INTERLOCKED
               PROVE  evaluate(new.desc[n]) >= threshold
    BY DEF Justified
  <2>1. n # r /\ st.status[n] = INTERLOCKED
    BY <1>2, <1>4 DEF LOADED, INTERLOCKED
  <2>2. gained(n) = {}
    BY <1>3, <1>4, AncestorsAreLeast DEF Citers
  <2>3. new.desc[n] = st.desc[n]
    BY <1>2, <2>2
  <2> QED
    BY <2>1, <2>3 DEF DagInv, Justified
<1> QED
  BY <1>2, <1>5, <1>6, <1>7, <1>8, <1>9 DEF DagInv

\* What a harvest takes has arrived and is cited as often as the policy asks.
LEMMA RipeAreCited ==
  ASSUME NEW st \in DagState, WaitlistPointwise(st), NEW threshold \in Nat,
         NEW n \in ripe(st, threshold)
  PROVE  /\ n \in Name /\ st.status[n] = LOADED
         /\ evaluate(st.desc[n]) >= threshold
<1>1. /\ n \in Name /\ st.status[n] # INITIALIZED
      /\ \E e \in st.wait : e[2] = n /\ e[1] >= threshold
  BY DEF ripe
<1>2. PICK l \in Nat : <<l, n>> \in st.wait /\ l >= threshold
  BY <1>1 DEF DagState
<1> QED
  BY <1>1, <1>2 DEF WaitlistPointwise, Waiting

\* A harvest keeps the invariant.
LEMMA HarvestDagInv ==
  ASSUME NEW h, Points(h), NEW st, NEW threshold \in Nat, DagInv(h, st, threshold),
         NEW new, new = harvestAbove(st, threshold)
  PROVE  /\ DagInv(h, new, threshold)
         /\ ArrivedIn(new) = ArrivedIn(st)
<1>1. st \in DagState
  BY DEF DagInv
<1>2. /\ new \in DagState
      /\ new.desc = st.desc
      /\ \A n \in Name : new.status[n] =
           IF n \in ripe(st, threshold) THEN INTERLOCKED ELSE st.status[n]
  BY <1>1, HarvestEffect
<1>3. st.status \in [Name -> Status] /\ new.status \in [Name -> Status]
  BY <1>1, <1>2 DEF DagState
<1>4. ArrivedIn(new) = ArrivedIn(st)
  BY <1>2 DEF ArrivedIn, ripe, INITIALIZED, INTERLOCKED
<1>5. WaitlistPointwise(new)
  BY <1>1, HarvestWaitlist DEF DagInv
<1>6. Sound(h, new)
  BY <1>2, <1>4 DEF DagInv, Sound, CitingIn
<1>7. Complete(h, new)
  <2> SUFFICES ASSUME NEW d \in ArrivedIn(st), ~ isGenesis(h[d]),
                      NEW a \in getAncestors(h, new.status, d)
               PROVE  d \in st.desc[a]
    BY <1>2, <1>4 DEF Complete
  <2>1. d \in Name
    BY DEF ArrivedIn
  <2>2. a \in getAncestors(h, st.status, d)
    BY <2>1, <1>2, <1>3, WalkAfterInterlock
  <2> QED
    BY <2>2 DEF DagInv, Complete
<1>8. Justified(new, threshold)
  <2> SUFFICES ASSUME NEW n \in Name, new.status[n] = INTERLOCKED
               PROVE  evaluate(st.desc[n]) >= threshold
    BY <1>2 DEF Justified
  <2>1. CASE n \in ripe(st, threshold)
    BY <1>1, <2>1, RipeAreCited DEF DagInv
  <2>2. CASE n \notin ripe(st, threshold)
    BY <2>2, <1>2 DEF DagInv, Justified
  <2> QED
    BY <2>1, <2>2
<1> QED
  BY <1>2, <1>4, <1>5, <1>6, <1>7, <1>8 DEF DagInv

------------------------------------------------------------------------------
(* What follows from it. *)

\* At level 0 of the waitlist are arrived records without descendants, and one
\* is there as soon as a record has arrived: the last one of an acyclic history
\* has no descendants, so no positive threshold can interlock it.
LEMMA TipsOfDag ==
  ASSUME NEW h, Points(h), NoSelfPointer(h), Acyclic(h),
         NEW st, NEW threshold \in Nat \ {0}, DagInv(h, st, threshold)
  PROVE  /\ getWaitList(st, 0) \subseteq ArrivedIn(st)
         /\ ArrivedIn(st) # {} => getWaitList(st, 0) # {}
<1>1. st \in DagState /\ WaitlistPointwise(st)
  BY DEF DagInv
<1>2. ASSUME NEW n \in Name, <<0, n>> \in st.wait PROVE n \in ArrivedIn(st)
  <2>1. n \in Waiting(st) /\ evaluate(st.desc[n]) = 0
    BY <1>1, <1>2 DEF WaitlistPointwise
  <2>2. st.desc[n] = {}
    BY <1>1, <2>1, EvaluateLevel DEF DagState
  <2> QED
    BY <2>1, <2>2 DEF Waiting, ArrivedIn, LOADED, INITIALIZED
<1>3. ASSUME ArrivedIn(st) # {} PROVE \E n \in Name : <<0, n>> \in st.wait
  <2>1. ArrivedIn(st) \in SUBSET Name
    BY DEF ArrivedIn
  <2>2. PICK m \in ArrivedIn(st) :
               \A k \in ArrivedIn(st) : m \in h[k].pointers => k = m
    BY <1>3, <2>1 DEF Acyclic
  <2>3. st.desc[m] = {}
    <3> SUFFICES ASSUME NEW d \in st.desc[m] PROVE FALSE
      OBVIOUS
    <3>1. /\ d \in ArrivedIn(st) /\ ~ isGenesis(h[d])
          /\ m \in CitedBy(h, ArrivedIn(st), d)
      BY <2>1 DEF DagInv, Sound, CitingIn
    <3> QED
      BY <3>1, <2>1, <2>2, CitedDirectly
  <2>4. evaluate(st.desc[m]) = 0
    BY <2>3, EvaluateLevel
  <2>5. st.status[m] # INTERLOCKED
    BY <2>1, <2>4 DEF DagInv, Justified
  <2>6. m \in Waiting(st)
    BY <1>1, <2>1, <2>5 DEF Waiting, ArrivedIn, DagState, Status
  <2> QED
    BY <1>1, <2>1, <2>4, <2>6 DEF WaitlistPointwise
<1> QED
  BY <1>2, <1>3 DEF getWaitList

\* An interlocked record is really cited as often as the policy asks: its
\* descendants are some of the records citing it, and more are not worth less.
LEMMA InterlockedIsCited ==
  ASSUME NEW h, NEW st, NEW threshold \in Nat, DagInv(h, st, threshold),
         NEW n \in Name, st.status[n] = INTERLOCKED
  PROVE  evaluate(CitingIn(h, st, n)) >= threshold
<1>1. evaluate(st.desc[n]) >= threshold
  BY DEF DagInv, Justified
<1>2. st.desc[n] \in SUBSET Name /\ CitingIn(h, st, n) \in SUBSET Name
  BY DEF DagInv, DagState, CitingIn, ArrivedIn
<1>3. st.desc[n] \subseteq CitingIn(h, st, n)
  BY DEF DagInv, Sound
<1>4. /\ Cardinality(st.desc[n]) \in Nat /\ Cardinality(CitingIn(h, st, n)) \in Nat
      /\ Cardinality(witnesses(st.desc[n])) \in Nat
      /\ Cardinality(witnesses(CitingIn(h, st, n))) \in Nat
      /\ Cardinality(st.desc[n]) <= Cardinality(CitingIn(h, st, n))
      /\ Cardinality(witnesses(st.desc[n])) <= Cardinality(witnesses(CitingIn(h, st, n)))
  BY <1>2, <1>3, EvaluateMonotone
<1> QED
  BY <1>1, <1>4 DEF evaluate

\* A DAG state depends only on the records that have arrived: publishing
\* another one, or whatever else happens to records that have not, does not
\* disturb it.
LEMMA OtherRecordsDagInv ==
  ASSUME NEW h, Points(h), NEW k, Points(k),
         NEW st, NEW threshold \in Nat, DagInv(h, st, threshold),
         \A n \in ArrivedIn(st) : k[n] = h[n]
  PROVE  DagInv(k, st, threshold)
<1> DEFINE arrived == ArrivedIn(st)
<1>1. arrived \in SUBSET Name /\ st.status \in [Name -> Status]
  BY DEF ArrivedIn, DagInv, DagState
<1>2. ASSUME NEW d \in arrived
      PROVE  CitedBy(h, arrived, d) \subseteq CitedBy(k, arrived, d)
  <2>1. CitationClosed(h, arrived, d, CitedBy(k, arrived, d))
    <3>1. CitationClosed(k, arrived, d, CitedBy(k, arrived, d))
      BY <1>1, CitedByIsLeast
    <3> QED
      BY <3>1 DEF CitationClosed
  <2> QED
    BY <1>1, <2>1, CitedByIsLeast
<1>3. ASSUME NEW d \in arrived
      PROVE  getAncestors(k, st.status, d) \subseteq getAncestors(h, st.status, d)
  <2> DEFINE anc == getAncestors(h, st.status, d)
  <2>1. anc \in SUBSET Name /\ WalkClosed(h, st.status, d, anc)
    BY <1>1, AncestorsAreLeast
  <2>2. \A n \in arrived : Walkable(k, st.status, n) = Walkable(h, st.status, n)
    BY DEF Walkable
  <2>3. \A n \in Name : st.status[n] = LOADED => n \in arrived
    BY DEF ArrivedIn, LOADED, INITIALIZED
  <2>4. WalkClosed(k, st.status, d, anc)
    BY <2>1, <2>2, <2>3 DEF WalkClosed
  <2> QED
    BY <1>1, <2>1, <2>4, AncestorsAreLeast
<1>4. Sound(k, st)
  BY <1>1, <1>2 DEF DagInv, Sound, CitingIn
<1>5. Complete(k, st)
  BY <1>3 DEF DagInv, Complete
<1> QED
  BY <1>4, <1>5 DEF DagInv

==============================================================================
