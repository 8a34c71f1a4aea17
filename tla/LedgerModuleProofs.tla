-------------------------- MODULE LedgerModuleProofs --------------------------
(***************************************************************************)
(* Proofs about LedgerModule, for every number of instances, every bound   *)
(* on publications, every set of Data and of submissions, both policies    *)
(* and every threshold above 0.                                            *)
(***************************************************************************)
EXTENDS LedgerStatus, DagEngineTheorems, WellFoundedInduction

------------------------------------------------------------------------------
(* The inductive invariant of one instance n in state s, over the records h *)
(* of the published names P and the submissions' results ret.               *)

\* What has arrived is published, the instance's own records without delay.
Arrivals(P, n, st) == /\ ArrivedIn(st) \subseteq P
                      /\ \A m \in P : m[1] = n => m \in ArrivedIn(st)

\* m_repliedRecords holds waiting records; every record a reply of n cites is
\* there, or was and is interlocked now.
RepliesKept(h, P, n, s) ==
  /\ \A m \in s.replied : s.dag.status[m] = LOADED /\ h[m].type # REPLY_RECORD
  /\ \A a \in P : a[1] = n /\ h[a].type = REPLY_RECORD =>
       \A p \in h[a].pointers : p \in s.replied \/ s.dag.status[p] = INTERLOCKED

\* StoredDataMapped, with the one record in place of the cardinality.
DataMapped(h, ret, n, s) ==
  /\ \A d \in s.stored :
       \/ <<n, d, FAILURE_STORAGE>> \in ret
       \/ \E m \in Name : <<d, m>> \in s.maps /\ \A k \in Name : <<d, k>> \in s.maps => k = m
  /\ \A d \in Data, m \in Name : <<d, m>> \in s.maps =>
       d \in s.stored /\ h[m].payload = d /\ s.dag.status[m] # INITIALIZED

\* TrackerComplete, for one instance, and that it tracks only what has arrived.
Tracked(h, n, s) ==
  /\ s.tracker \subseteq ArrivedIn(s.dag)
  /\ \A m \in Name :
       ~ (m[1] = n /\ h[m].type = REPLY_RECORD) =>
         /\ s.dag.status[m] # INITIALIZED => m \in s.tracker
         /\ s.dag.status[m] = INTERLOCKED => m \in s.stamped

InstanceInv(h, P, ret, n, s) ==
  /\ s \in InstanceState
  /\ DagInv(h, s.dag, Threshold)
  /\ Arrivals(P, n, s.dag)
  /\ RepliesKept(h, P, n, s)
  /\ DataMapped(h, ret, n, s)
  /\ Tracked(h, n, s)

\* What the handlers never take back: an arrival and an interlock.
Advances(st, new) ==
  \A m \in Name :
    /\ st.status[m] # INITIALIZED => new.status[m] # INITIALIZED
    /\ st.status[m] = INTERLOCKED => new.status[m] = INTERLOCKED

------------------------------------------------------------------------------
(* InstanceInv and the parts of the handlers. *)

\* The fields of an instance state.
LEMMA InstanceFields ==
  ASSUME NEW s \in InstanceState
  PROVE  /\ s.dag \in DagState /\ s.stored \subseteq Data
         /\ s.maps \subseteq Data \X Name /\ s.tracker \subseteq Name
         /\ s.stamped \subseteq Name /\ s.replied \subseteq Name
         /\ s.timer \in BOOLEAN
BY DEF InstanceState

\* Seven fields of these types make an instance state.
LEMMA MakeInstance ==
  ASSUME NEW s, s = [dag |-> s.dag, stored |-> s.stored, maps |-> s.maps,
                     tracker |-> s.tracker, stamped |-> s.stamped,
                     replied |-> s.replied, timer |-> s.timer],
         s.dag \in DagState, s.stored \subseteq Data,
         s.maps \subseteq Data \X Name, s.tracker \subseteq Name,
         s.stamped \subseteq Name, s.replied \subseteq Name,
         s.timer \in BOOLEAN
  PROVE  s \in InstanceState
BY DEF InstanceState

\* The constructor leaves an instance that satisfies the invariant.
LEMMA NewInstanceInv ==
  ASSUME NEW h, NEW n \in Node
  PROVE  InstanceInv(h, {}, {}, n, NewInstance)
<1> DEFINE s == NewInstance
<1>1. DagInv(h, EmptyDag, Threshold)
  BY EmptyDagInv, ThresholdAssumption
<1>2. /\ s.dag = EmptyDag /\ s.stored = {} /\ s.maps = {} /\ s.tracker = {}
      /\ s.stamped = {} /\ s.replied = {} /\ s.timer = FALSE
      /\ s \in InstanceState
  BY <1>1 DEF NewInstance, InstanceState, DagInv
<1>3. \A m \in Name : s.dag.status[m] = INITIALIZED
  BY <1>2 DEF EmptyDag
<1> HIDE DEF s
<1>4. Arrivals({}, n, s.dag)
  BY <1>3 DEF Arrivals, ArrivedIn
<1>5. RepliesKept(h, {}, n, s) /\ DataMapped(h, {}, n, s)
  BY <1>2 DEF RepliesKept, DataMapped
<1>6. Tracked(h, n, s)
  BY <1>2, <1>3 DEF Tracked, INITIALIZED, INTERLOCKED
<1> QED
  BY <1>1, <1>2, <1>4, <1>5, <1>6 DEF InstanceInv, s

\* What other instances publish, and what they return to their clients, does
\* not disturb an instance.
LEMMA OthersInstanceInv ==
  ASSUME NEW h, NEW k, Points(h), Points(k),
         NEW P \in SUBSET Name, NEW Q \in SUBSET Name, P \subseteq Q,
         NEW ret, NEW rem, ret \subseteq rem,
         NEW n \in Node, NEW s, InstanceInv(h, P, ret, n, s),
         \A m \in P : k[m] = h[m], \A m \in Q \ P : m[1] # n
  PROVE  InstanceInv(k, Q, rem, n, s)
<1>1. s \in InstanceState /\ DagInv(h, s.dag, Threshold) /\ ArrivedIn(s.dag) \subseteq P
  BY DEF InstanceInv, Arrivals
<1>2. s.replied \subseteq Name /\ s.dag.status \in [Name -> Status]
  BY <1>1, InstanceFields DEF DagState
<1>3. DagInv(k, s.dag, Threshold)
  BY <1>1, OtherRecordsDagInv, ThresholdAssumption
<1>4. Arrivals(Q, n, s.dag)
  BY <1>1 DEF InstanceInv, Arrivals
<1>5. \A m \in Name : s.dag.status[m] # INITIALIZED => m \in P /\ k[m] = h[m]
  BY <1>1 DEF ArrivedIn
<1>6. RepliesKept(k, Q, n, s)
  <2>1. \A m \in s.replied : s.dag.status[m] = LOADED /\ h[m].type # REPLY_RECORD
    BY DEF InstanceInv, RepliesKept
  <2>2. \A m \in s.replied : k[m] = h[m]
    BY <2>1, <1>2, <1>5 DEF LOADED, INITIALIZED
  <2>3. \A a \in Q : a[1] = n => a \in P
    OBVIOUS
  <2> QED
    BY <2>1, <2>2, <2>3 DEF InstanceInv, RepliesKept
<1>7. DataMapped(k, rem, n, s)
  BY <1>5 DEF InstanceInv, DataMapped
<1>8. Tracked(k, n, s)
  BY <1>5 DEF InstanceInv, Tracked, INITIALIZED, INTERLOCKED
<1> QED
  BY <1>1, <1>3, <1>4, <1>6, <1>7, <1>8 DEF InstanceInv

\* dagHarvest, field by field.
LEMMA DagHarvestEffect ==
  ASSUME NEW s \in InstanceState, NEW t, t = dagHarvest(s)
  PROVE  /\ t \in InstanceState
         /\ t.dag = harvestAbove(s.dag, Threshold)
         /\ t.stored = s.stored /\ t.maps = s.maps /\ t.timer = s.timer
         /\ t.replied = s.replied \ ripe(s.dag, Threshold)
         /\ t.tracker = s.tracker \cup ripe(s.dag, Threshold)
         /\ t.stamped = s.stamped \cup (ripe(s.dag, Threshold) \cap s.tracker)
<1> DEFINE out == ripe(s.dag, Threshold)
           high == harvestAbove(s.dag, Threshold)
<1>1. high \in DagState
  BY InstanceFields, HarvestEffect, ThresholdAssumption
<1>2. out \subseteq Name
  BY DEF ripe
<1>3. t = [s EXCEPT !.dag = high, !.replied = s.replied \ out,
                    !.tracker = s.tracker \cup out,
                    !.stamped = s.stamped \cup (out \cap s.tracker)]
  BY DEF dagHarvest
<1> HIDE DEF out, high
<1>4. t = [dag |-> high, stored |-> s.stored, maps |-> s.maps,
           tracker |-> s.tracker \cup out,
           stamped |-> s.stamped \cup (out \cap s.tracker),
           replied |-> s.replied \ out, timer |-> s.timer]
  BY <1>3 DEF InstanceState
<1>5. t \in InstanceState
  BY <1>1, <1>2, <1>4, InstanceFields, MakeInstance
<1> QED
  BY <1>4, <1>5 DEF out, high

\* Harvesting keeps the invariant: what is interlocked leaves m_repliedRecords,
\* and was tracked before.
LEMMA DagHarvestInv ==
  ASSUME NEW h, Points(h), NEW P \in SUBSET Name, NEW ret, NEW n \in Node,
         NEW s, InstanceInv(h, P, ret, n, s)
  PROVE  /\ InstanceInv(h, P, ret, n, dagHarvest(s))
         /\ Advances(s.dag, dagHarvest(s).dag)
<1> DEFINE t == dagHarvest(s)
           out == ripe(s.dag, Threshold)
<1>1. /\ s \in InstanceState /\ DagInv(h, s.dag, Threshold)
      /\ s.dag \in DagState /\ Threshold \in Nat
  BY ThresholdAssumption, InstanceFields DEF InstanceInv
<1>2. /\ t \in InstanceState
      /\ t.dag = harvestAbove(s.dag, Threshold)
      /\ t.stored = s.stored /\ t.maps = s.maps
      /\ t.replied = s.replied \ out
      /\ t.tracker = s.tracker \cup out
      /\ t.stamped = s.stamped \cup (out \cap s.tracker)
  BY <1>1, DagHarvestEffect
<1> HIDE DEF t
<1>3. DagInv(h, t.dag, Threshold) /\ ArrivedIn(t.dag) = ArrivedIn(s.dag)
  BY <1>1, <1>2, HarvestDagInv
<1>4. \A m \in Name : t.dag.status[m] = IF m \in out THEN INTERLOCKED
                                                     ELSE s.dag.status[m]
  BY <1>1, <1>2, HarvestEffect
<1>5. \A m \in out : m \in Name /\ s.dag.status[m] = LOADED
  BY <1>1, RipeAreCited DEF DagInv
<1> HIDE DEF out
<1>6. Arrivals(P, n, t.dag)
  BY <1>3 DEF InstanceInv, Arrivals
<1>7. RepliesKept(h, P, n, t)
  <2>1. \A m \in t.replied : t.dag.status[m] = LOADED /\ h[m].type # REPLY_RECORD
    BY <1>1, <1>2, <1>4, InstanceFields DEF InstanceInv, RepliesKept
  <2>2. ASSUME NEW a \in P, a[1] = n, h[a].type = REPLY_RECORD, NEW p \in h[a].pointers
        PROVE  p \in t.replied \/ t.dag.status[p] = INTERLOCKED
    <3>1. p \in Name
      BY DEF Points
    <3>2. p \in s.replied \/ s.dag.status[p] = INTERLOCKED
      BY <2>2 DEF InstanceInv, RepliesKept
    <3> QED
      BY <1>2, <1>4, <3>1, <3>2
  <2> QED
    BY <2>1, <2>2 DEF RepliesKept
<1>8. DataMapped(h, ret, n, t)
  BY <1>2, <1>4 DEF InstanceInv, DataMapped, INITIALIZED, INTERLOCKED
<1>9. Tracked(h, n, t)
  <2>1. t.tracker \subseteq ArrivedIn(t.dag)
    <3>1. s.tracker \subseteq ArrivedIn(s.dag)
      BY DEF InstanceInv, Tracked
    <3>2. out \subseteq ArrivedIn(s.dag)
      BY <1>5 DEF ArrivedIn, LOADED, INITIALIZED
    <3> QED
      BY <1>2, <1>3, <3>1, <3>2
  <2> SUFFICES ASSUME NEW m \in Name, ~ (m[1] = n /\ h[m].type = REPLY_RECORD)
               PROVE  /\ t.dag.status[m] # INITIALIZED => m \in t.tracker
                      /\ t.dag.status[m] = INTERLOCKED => m \in t.stamped
    BY <2>1 DEF Tracked
  <2>2. /\ s.dag.status[m] # INITIALIZED => m \in s.tracker
        /\ s.dag.status[m] = INTERLOCKED => m \in s.stamped
    BY DEF InstanceInv, Tracked
  <2> QED
    BY <2>2, <1>2, <1>4, <1>5 DEF INITIALIZED, LOADED
<1>10. Advances(s.dag, t.dag)
  BY <1>4 DEF Advances, INITIALIZED, INTERLOCKED
<1> QED
  BY <1>2, <1>3, <1>6, <1>7, <1>8, <1>9, <1>10 DEF InstanceInv, t

\* DagModule::add keeps the invariant of the DAG, and r has arrived after it.
LEMMA AddDagInv ==
  ASSUME NEW h, Points(h), NEW st, DagInv(h, st, Threshold), NEW r \in Name,
         NEW new, new = add(h, st, r)
  PROVE  /\ new \in DagState /\ DagInv(h, new, Threshold)
         /\ ArrivedIn(new) = ArrivedIn(st) \cup {r}
         /\ \A m \in Name : new.status[m] =
              IF m = r /\ st.status[r] = INITIALIZED THEN LOADED ELSE st.status[m]
         /\ Advances(st, new)
<1>1. Threshold \in Nat /\ st \in DagState
  BY ThresholdAssumption DEF DagInv
<1>2. CASE st.status[r] = INITIALIZED
  <2>1. new = onNewRecord(h, st, r)
    BY <1>2 DEF add
  <2>2. new \in DagState /\ new.status = [st.status EXCEPT ![r] = LOADED]
    BY <1>1, <2>1, NewRecordEffect DEF NewRecordLeaves
  <2>3. DagInv(h, new, Threshold) /\ ArrivedIn(new) = ArrivedIn(st) \cup {r}
    BY <1>1, <1>2, <2>1, NewRecordDagInv
  <2> QED
    BY <1>1, <1>2, <2>2, <2>3 DEF DagState, Advances, INITIALIZED, LOADED, INTERLOCKED
<1>3. CASE st.status[r] # INITIALIZED
  <2>1. new = st
    BY <1>3 DEF add
  <2> QED
    BY <1>1, <1>3, <2>1 DEF ArrivedIn, Advances
<1> QED
  BY <1>2, <1>3

\* A record r reaches the DAG of n: one that sync hands over, or one that n has
\* just published, so that there is one more record.  It is tracked, unless
\* it is a reply of n's own; then what it cites is remembered as replied to.
LEMMA ArrivalInv ==
  ASSUME NEW h, NEW k, Points(h), Points(k),
         NEW P \in SUBSET Name, NEW Q \in SUBSET Name, NEW r \in Q,
         P \subseteq Q, Q \subseteq P \cup {r}, \A m \in P : k[m] = h[m],
         NEW ret, NEW rem, ret \subseteq rem,
         NEW n \in Node, NEW s, InstanceInv(h, P, ret, n, s),
         NEW t \in InstanceState, t.dag = add(k, s.dag, r),
         t.stored = s.stored, t.maps = s.maps, t.stamped = s.stamped,
         s.tracker \subseteq t.tracker, t.tracker \subseteq s.tracker \cup {r},
         r \in t.tracker \/ (r[1] = n /\ k[r].type = REPLY_RECORD),
         s.replied \subseteq t.replied,
         \A m \in t.replied \ s.replied :
           s.dag.status[m] = LOADED /\ h[m].type # REPLY_RECORD,
         (r \in P /\ r[1] # n) \/ k[r].type # REPLY_RECORD
           \/ k[r].pointers \subseteq t.replied
  PROVE  InstanceInv(k, Q, rem, n, t)
<1>1. r \in Name
  OBVIOUS
<1>2. s \in InstanceState /\ DagInv(h, s.dag, Threshold) /\ ArrivedIn(s.dag) \subseteq P
  BY DEF InstanceInv, Arrivals
<1>3. DagInv(k, s.dag, Threshold)
  BY <1>2, OtherRecordsDagInv, ThresholdAssumption
<1>4. /\ DagInv(k, t.dag, Threshold)
      /\ ArrivedIn(t.dag) = ArrivedIn(s.dag) \cup {r}
      /\ \A m \in Name : t.dag.status[m] =
           IF m = r /\ s.dag.status[r] = INITIALIZED THEN LOADED ELSE s.dag.status[m]
  BY <1>1, <1>3, AddDagInv
<1>5. Arrivals(Q, n, t.dag)
  BY <1>4 DEF InstanceInv, Arrivals
<1>6. \A m \in Name : s.dag.status[m] # INITIALIZED => m \in P /\ k[m] = h[m]
  BY <1>2 DEF ArrivedIn
<1>7. s.replied \subseteq Name /\ t.replied \subseteq Name
  BY <1>2, InstanceFields
<1>8. RepliesKept(k, Q, n, t)
  <2>1. \A m \in t.replied : s.dag.status[m] = LOADED /\ h[m].type # REPLY_RECORD
    BY DEF InstanceInv, RepliesKept
  <2>2. \A m \in t.replied : t.dag.status[m] = LOADED /\ k[m].type # REPLY_RECORD
    BY <2>1, <1>4, <1>6, <1>7 DEF LOADED, INITIALIZED
  <2>3. ASSUME NEW a \in Q, a[1] = n, k[a].type = REPLY_RECORD,
               NEW p \in k[a].pointers
        PROVE  p \in t.replied \/ t.dag.status[p] = INTERLOCKED
    <3>1. p \in Name
      BY DEF Points
    <3>2. CASE a = r /\ k[r].pointers \subseteq t.replied
      BY <3>2
    <3>3. CASE a \in P
      <4>1. h[a].type = REPLY_RECORD /\ p \in h[a].pointers
        BY <2>3, <3>3
      <4>2. p \in s.replied \/ s.dag.status[p] = INTERLOCKED
        BY <2>3, <3>3, <4>1 DEF InstanceInv, RepliesKept
      <4> QED
        BY <4>2, <3>1, <1>4 DEF INTERLOCKED, INITIALIZED
    <3> QED
      BY <2>3, <3>2, <3>3
  <2> QED
    BY <2>2, <2>3 DEF RepliesKept
<1>9. DataMapped(k, rem, n, t)
  <2>1. \A m \in Name : s.dag.status[m] # INITIALIZED => t.dag.status[m] # INITIALIZED
    BY <1>4
  <2> QED
    BY <2>1, <1>6 DEF InstanceInv, DataMapped
<1>10. Tracked(k, n, t)
  <2>1. t.tracker \subseteq ArrivedIn(t.dag)
    <3>1. s.tracker \subseteq ArrivedIn(s.dag)
      BY DEF InstanceInv, Tracked
    <3> QED
      BY <1>4, <3>1
  <2> SUFFICES ASSUME NEW m \in Name, ~ (m[1] = n /\ k[m].type = REPLY_RECORD)
               PROVE  /\ t.dag.status[m] # INITIALIZED => m \in t.tracker
                      /\ t.dag.status[m] = INTERLOCKED => m \in t.stamped
    BY <2>1 DEF Tracked
  <2>2. s.dag.status[m] # INITIALIZED =>
          /\ m \in s.tracker
          /\ s.dag.status[m] = INTERLOCKED => m \in s.stamped
    BY <1>6 DEF InstanceInv, Tracked
  <2> QED
    BY <2>2, <1>4 DEF INITIALIZED, LOADED, INTERLOCKED
<1> QED
  BY <1>4, <1>5, <1>8, <1>9, <1>10 DEF InstanceInv

\* storeData, field by field.
LEMMA StoreDataEffect ==
  ASSUME NEW s \in InstanceState, NEW d \in Data, NEW m \in Name,
         NEW t, t = storeData(s, d, m)
  PROVE  /\ t \in InstanceState
         /\ t.dag = s.dag /\ t.stored = s.stored \cup {d}
         /\ t.maps = s.maps \cup {<<d, m>>} /\ t.tracker = s.tracker
         /\ t.stamped = s.stamped /\ t.replied = s.replied /\ t.timer = s.timer
<1>1. t = [dag |-> s.dag, stored |-> s.stored \cup {d},
           maps |-> s.maps \cup {<<d, m>>}, tracker |-> s.tracker,
           stamped |-> s.stamped, replied |-> s.replied, timer |-> s.timer]
  BY DEF storeData, InstanceState
<1>2. t \in InstanceState
  BY <1>1, InstanceFields, MakeInstance
<1> QED
  BY <1>1, <1>2

\* updateStatesTracker, field by field.
LEMMA TrackerEffect ==
  ASSUME NEW s \in InstanceState, NEW m \in Name,
         NEW t, t = updateStatesTracker(s, m)
  PROVE  /\ t \in InstanceState
         /\ t.dag = s.dag /\ t.stored = s.stored /\ t.maps = s.maps
         /\ t.tracker = s.tracker \cup {m}
         /\ t.stamped = s.stamped /\ t.replied = s.replied /\ t.timer = s.timer
<1>1. t = [dag |-> s.dag, stored |-> s.stored, maps |-> s.maps,
           tracker |-> s.tracker \cup {m}, stamped |-> s.stamped,
           replied |-> s.replied, timer |-> s.timer]
  BY DEF updateStatesTracker, InstanceState
<1>2. t \in InstanceState
  BY <1>1, InstanceFields, MakeInstance
<1> QED
  BY <1>1, <1>2

\* Storing Data that is not stored yet, with its payload map.
LEMMA StoreDataInv ==
  ASSUME NEW h, NEW P \in SUBSET Name, NEW ret, NEW n \in Node,
         NEW s, InstanceInv(h, P, ret, n, s),
         NEW d \in Data, d \notin s.stored,
         NEW m \in Name, h[m].payload = d, s.dag.status[m] # INITIALIZED,
         NEW t \in InstanceState, t.dag = s.dag,
         t.stored = s.stored \cup {d}, t.maps = s.maps \cup {<<d, m>>},
         t.tracker = s.tracker, t.stamped = s.stamped, t.replied = s.replied
  PROVE  InstanceInv(h, P, ret, n, t)
<1>1. \A k \in Name : <<d, k>> \notin s.maps
  BY DEF InstanceInv, DataMapped
<1>2. DataMapped(h, ret, n, t)
  <2>1. ASSUME NEW e \in t.stored
        PROVE  \/ <<n, e, FAILURE_STORAGE>> \in ret
               \/ \E j \in Name : /\ <<e, j>> \in t.maps
                                  /\ \A k \in Name : <<e, k>> \in t.maps => k = j
    <3>1. CASE e = d
      BY <3>1, <1>1
    <3>2. CASE e # d
      <4>1. e \in s.stored /\ \A k \in Name : <<e, k>> \in t.maps <=> <<e, k>> \in s.maps
        BY <3>2
      <4> QED
        BY <4>1 DEF InstanceInv, DataMapped
    <3> QED
      BY <3>1, <3>2
  <2>2. ASSUME NEW e \in Data, NEW k \in Name, <<e, k>> \in t.maps
        PROVE  e \in t.stored /\ h[k].payload = e /\ t.dag.status[k] # INITIALIZED
    BY <2>2 DEF InstanceInv, DataMapped
  <2> QED
    BY <2>1, <2>2 DEF DataMapped
<1> QED
  BY <1>2 DEF InstanceInv, RepliesKept, Tracked

------------------------------------------------------------------------------
(* The inductive invariant of the group: the records published so far, and  *)
(* every instance over them.                                                *)

\* Names that are not published have no record; a record cites published ones,
\* itself just when it is a genesis record, and then it is a first publication.
HistoryInv ==
  /\ \A m \in Name \ Published : rec[m] = NoRecord
  /\ \A m \in Published :
       /\ rec[m].pointers # {} /\ rec[m].pointers \subseteq Published
       /\ m \in rec[m].pointers <=> isGenesis(rec[m])
       /\ rec[m].type # REPLY_RECORD => rec[m].payload \in Data
  /\ GenesisIsFirst
  /\ Acyclic(rec)

LInv == /\ TypeOK
        /\ HistoryInv
        /\ \A n \in Node : InstanceInv(rec, Published, returned, n, ledger[n])
        /\ RepliesOnce

\* Every instance's DAG only moves on.
Moved == \A i \in Node : Advances(ledger[i].dag, ledger'[i].dag)

\* The records published so far are what the lemmas about DAG states ask for.
LEMMA HistoryFacts ==
  ASSUME rec \in [Name -> LedgerRecord], HistoryInv
  PROVE  /\ Points(rec) /\ NoSelfPointer(rec) /\ Acyclic(rec)
         /\ Published \in SUBSET Name
<1>1. Points(rec)
  BY DEF Points, LedgerRecord
<1>2. NoSelfPointer(rec)
  BY DEF HistoryInv, NoSelfPointer, NoRecord
<1> QED
  BY <1>1, <1>2 DEF HistoryInv, Published

\* SyncModule::publishRecord names the record with the next sequence number,
\* which nobody has used, and changes no other record.
LEMMA PublishEffect ==
  ASSUME TypeOK, NEW n \in Node, NEW content \in LedgerRecord,
         publishRecord(n, content)
  PROVE  /\ getNextName(n) \in Name \ Published /\ getNextName(n)[1] = n
         /\ Published' = Published \cup {getNextName(n)}
         /\ rec' \in [Name -> LedgerRecord] /\ seqNo' \in [Node -> 0 .. MaxSeq]
         /\ rec'[getNextName(n)] = content
         /\ \A m \in Name \ {getNextName(n)} : rec'[m] = rec[m]
<1> DEFINE nm == getNextName(n)
<1>1. /\ rec \in [Name -> LedgerRecord] /\ seqNo \in [Node -> 0 .. MaxSeq]
      /\ seqNo[n] < MaxSeq
      /\ rec' = [rec EXCEPT ![nm] = content]
      /\ seqNo' = [seqNo EXCEPT ![n] = seqNo[n] + 1]
  BY DEF TypeOK, publishRecord
<1>2. nm = <<n, seqNo[n] + 1>> /\ nm[1] = n /\ nm[2] = seqNo[n] + 1
  BY DEF getNextName
<1>3. nm \in Name
  BY <1>1, <1>2, NamesAssumption
<1>4. nm \notin Published
  <2>1. seqNo[n] \in Nat /\ ~ (seqNo[n] + 1 <= seqNo[n])
    BY <1>1, NamesAssumption
  <2> QED
    BY <1>2, <2>1 DEF Published
<1> HIDE DEF nm
<1>5. rec'[nm] = content /\ \A m \in Name \ {nm} : rec'[m] = rec[m]
  BY <1>1, <1>3
<1>6. rec' \in [Name -> LedgerRecord] /\ seqNo' \in [Node -> 0 .. MaxSeq]
  <2>1. seqNo[n] \in 0 .. MaxSeq /\ MaxSeq \in Nat
    BY <1>1, NamesAssumption
  <2>2. seqNo[n] + 1 \in 0 .. MaxSeq
    BY <1>1, <2>1
  <2> QED
    BY <1>1, <2>2
<1>7. ASSUME NEW m \in Name PROVE m \in Published' <=> m \in Published \cup {nm}
  <2>1. PICK p \in Node, i \in 1 .. MaxSeq : m = <<p, i>>
    BY NamesAssumption
  <2>2. m \in Published <=> i <= seqNo[p]
    BY <2>1 DEF Published
  <2>3. m \in Published' <=> i <= seqNo'[p]
    BY <2>1 DEF Published
  <2>4. m = nm <=> p = n /\ i = seqNo[n] + 1
    BY <2>1, <1>2
  <2> QED
    BY <2>2, <2>3, <2>4, <1>1, NamesAssumption
<1>8. Published' = Published \cup {nm}
  BY <1>3, <1>7 DEF Published
<1> QED
  BY <1>1, <1>2, <1>3, <1>4, <1>5, <1>6, <1>8 DEF nm

\* Publishing keeps the history well formed: the new record is cited by none,
\* so it ends no cycle, and it cites what is there.
LEMMA PublishHistory ==
  ASSUME TypeOK, HistoryInv, NEW n \in Node, NEW content \in LedgerRecord,
         publishRecord(n, content), content.pointers # {},
         content.type # REPLY_RECORD => content.payload \in Data,
         IF isGenesis(content)
         THEN content.pointers = {getNextName(n)} /\ seqNo[n] = 0
         ELSE content.pointers \subseteq Published
  PROVE  HistoryInv'
<1> DEFINE nm == getNextName(n)
<1>1. /\ nm \in Name \ Published /\ nm[1] = n
      /\ Published' = Published \cup {nm}
      /\ rec' \in [Name -> LedgerRecord]
      /\ rec'[nm] = content
      /\ \A m \in Name \ {nm} : rec'[m] = rec[m]
  BY PublishEffect
<1>2. Published \subseteq Name /\ \A m \in Published : m \in Name \ {nm}
  BY <1>1 DEF Published
<1>3. isGenesis(content) => nm[2] = 1
  BY DEF getNextName
<1>4. IF isGenesis(content) THEN content.pointers = {nm}
                            ELSE content.pointers \subseteq Published
  OBVIOUS
<1> HIDE DEF nm
<1>5. \A m \in Name \ Published' : rec'[m] = NoRecord
  BY <1>1 DEF HistoryInv
<1>6. ASSUME NEW m \in Published'
      PROVE  /\ rec'[m].pointers # {} /\ rec'[m].pointers \subseteq Published'
             /\ m \in rec'[m].pointers <=> isGenesis(rec'[m])
             /\ rec'[m].type # REPLY_RECORD => rec'[m].payload \in Data
             /\ isGenesis(rec'[m]) => m[2] = 1 /\ rec'[m].pointers = {m}
  <2>1. CASE m = nm
    BY <1>1, <1>3, <1>4, <2>1
  <2>2. CASE m \in Published
    BY <1>1, <1>2, <2>2 DEF HistoryInv, GenesisIsFirst
  <2> QED
    BY <1>1, <2>1, <2>2
<1>7. \A m \in Name : m # nm => nm \notin rec'[m].pointers
  BY <1>1 DEF HistoryInv, NoRecord
<1>8. Acyclic(rec')
  <2> SUFFICES ASSUME NEW S \in SUBSET Name, S # {}
               PROVE  \E m \in S : \A k \in S : m \in rec'[k].pointers => k = m
    BY DEF Acyclic
  <2>1. CASE nm \in S
    BY <1>7, <2>1
  <2>2. CASE nm \notin S
    <3>1. PICK m \in S : \A k \in S : m \in rec[k].pointers => k = m
      BY DEF HistoryInv, Acyclic
    <3> QED
      BY <1>1, <2>2, <3>1
  <2> QED
    BY <2>1, <2>2
<1> QED
  BY <1>5, <1>6, <1>8 DEF HistoryInv, GenesisIsFirst

\* No instance replies to a record that it replied to before.
LEMMA RepliesOnceKept ==
  ASSUME LInv, Published' \in SUBSET Name,
         \A m \in Published : rec'[m] = rec[m],
         \A a \in Published' \ Published :
           rec'[a].type = REPLY_RECORD =>
             \A b \in Published : b[1] = a[1] /\ rec[b].type = REPLY_RECORD =>
               rec[b].pointers \cap rec'[a].pointers = {},
         \A a, b \in Published' \ Published : a = b
  PROVE  RepliesOnce'
BY DEF LInv, RepliesOnce

\* What a handler of n has to keep for the whole group to keep LInv.
LEMMA HandlerLInv ==
  ASSUME LInv, NEW n \in Node, NEW t,
         ledger' = [ledger EXCEPT ![n] = t],
         rec' \in [Name -> LedgerRecord], seqNo' \in [Node -> 0 .. MaxSeq],
         HistoryInv', RepliesOnce',
         Published \subseteq Published',
         \A m \in Published : rec'[m] = rec[m],
         \A m \in Published' \ Published : m[1] = n,
         returned \subseteq returned',
         returned' \subseteq Node \X Data \X {SUCCESS, FAILURE_STORAGE},
         InstanceInv(rec', Published', returned', n, t),
         Advances(ledger[n].dag, t.dag)
  PROVE  LInv' /\ Moved
<1>1. ledger \in [Node -> InstanceState] /\ t \in InstanceState
  BY DEF LInv, TypeOK, InstanceInv
<1>2. TypeOK'
  BY <1>1 DEF TypeOK
<1>3. Points(rec) /\ Published \in SUBSET Name
  BY HistoryFacts DEF LInv, TypeOK
<1>4. Points(rec') /\ Published' \in SUBSET Name
  BY DEF Points, LedgerRecord, Published
<1>5. ASSUME NEW i \in Node
      PROVE  InstanceInv(rec', Published', returned', i, ledger'[i])
  <2>1. CASE i = n
    BY <1>1, <2>1
  <2>2. CASE i # n
    <3>1. ledger'[i] = ledger[i] /\ InstanceInv(rec, Published, returned, i, ledger[i])
      BY <1>1, <2>2 DEF LInv
    <3>2. \A m \in Published' \ Published : m[1] # i
      BY <2>2
    <3> QED
      BY <1>3, <1>4, <3>1, <3>2, OthersInstanceInv
  <2> QED
    BY <2>1, <2>2
<1>6. Moved
  BY <1>1 DEF Moved, Advances
<1> QED
  BY <1>2, <1>5, <1>6 DEF LInv

\* A handler that publishes nothing.
LEMMA QuietLInv ==
  ASSUME LInv, NEW n \in Node, NEW t, ledger' = [ledger EXCEPT ![n] = t],
         rec' = rec, seqNo' = seqNo, returned \subseteq returned',
         returned' \subseteq Node \X Data \X {SUCCESS, FAILURE_STORAGE},
         InstanceInv(rec, Published, returned', n, t),
         Advances(ledger[n].dag, t.dag)
  PROVE  LInv' /\ Moved
<1>1. Published' = Published
  BY DEF Published
<1>2. HistoryInv' /\ RepliesOnce'
  BY <1>1 DEF LInv, HistoryInv, GenesisIsFirst, Acyclic, RepliesOnce
<1>3. rec' \in [Name -> LedgerRecord] /\ seqNo' \in [Node -> 0 .. MaxSeq]
  BY DEF LInv, TypeOK
<1> QED
  BY <1>1, <1>2, <1>3, HandlerLInv

\* The record of a submission cites the tips, or itself when there are none:
\* then nothing has arrived, and the instance has published nothing.
LEMMA SubmissionRecord ==
  ASSUME LInv, NEW n \in Node, NEW d \in Data, getNextName(n) \in Name
  PROVE  LET content == submissionRecord(n, d)
         IN  /\ content \in LedgerRecord /\ content.pointers # {}
             /\ content.type # REPLY_RECORD /\ content.payload = d
             /\ IF isGenesis(content)
                THEN content.pointers = {getNextName(n)} /\ seqNo[n] = 0
                ELSE content.pointers \subseteq Published
<1> DEFINE st == ledger[n].dag
           tips == getWaitList(st, 0)
           content == submissionRecord(n, d)
<1>1. DagInv(rec, st, Threshold) /\ Arrivals(Published, n, st)
  BY DEF LInv, InstanceInv
<1>2. /\ tips \subseteq ArrivedIn(st)
      /\ ArrivedIn(st) # {} => tips # {}
  BY <1>1, HistoryFacts, TipsOfDag, ThresholdAssumption DEF LInv, TypeOK
<1>3. tips \subseteq Name /\ tips \subseteq Published
  BY <1>1, <1>2 DEF Arrivals, ArrivedIn
<1>4. ASSUME ArrivedIn(st) = {} PROVE seqNo[n] = 0
  <2>1. seqNo[n] \in 0 .. MaxSeq /\ MaxSeq \in Nat
    BY NamesAssumption DEF LInv, TypeOK
  <2>2. ASSUME seqNo[n] # 0 PROVE FALSE
    <3>1. <<n, 1>> \in Name
      BY <2>1, <2>2, NamesAssumption
    <3>2. <<n, 1>> \in Published
      BY <3>1, <2>1, <2>2 DEF Published
    <3> QED
      BY <3>2, <1>1, <1>4 DEF Arrivals
  <2> QED
    BY <2>2
<1> HIDE DEF st
<1>5. content = IF tips = {}
                THEN [type |-> GENESIS_RECORD, pointers |-> {getNextName(n)},
                      payload |-> d]
                ELSE [type |-> GENERIC_RECORD, pointers |-> tips, payload |-> d]
  BY DEF submissionRecord, st
<1> HIDE DEF tips, content
<1>6. /\ content \in LedgerRecord /\ content.pointers # {}
      /\ content.type # REPLY_RECORD /\ content.payload = d
      /\ IF isGenesis(content)
         THEN content.pointers = {getNextName(n)} /\ seqNo[n] = 0
         ELSE content.pointers \subseteq Published
  <2>1. CASE tips = {}
    BY <1>2, <1>4, <1>5, <2>1 DEF LedgerRecord, RecordType, isGenesis,
       GENESIS_RECORD, REPLY_RECORD
  <2>2. CASE tips # {}
    BY <1>3, <1>5, <2>2 DEF LedgerRecord, RecordType, isGenesis,
       GENESIS_RECORD, GENERIC_RECORD, REPLY_RECORD
  <2> QED
    BY <2>1, <2>2
<1> QED
  BY <1>6 DEF content

\* A submission makes a record, publishes it and takes it into the DAG.
LEMMA SubmissionLInv ==
  ASSUME LInv, NEW n \in Node, NEW d \in Data, OnDataSubmission(n, d)
  PROVE  LInv' /\ Moved
<1> DEFINE s == ledger[n]
           nm == getNextName(n)
           content == submissionRecord(n, d)
           new == add(rec', s.dag, nm)
           added == [s EXCEPT !.dag = new]
           mid == updateStatesTracker(added, nm)
           u == updateStatesTracker(storeData(added, d, nm), nm)
           t == dagHarvest(u)
<1>1. /\ publishRecord(n, content) /\ d \notin s.stored
      /\ ledger' = [ledger EXCEPT ![n] = t]
      /\ returned' = returned \cup {<<n, d, SUCCESS>>}
  BY DEF OnDataSubmission
<1>2. nm \in Name
  <2>1. seqNo[n] \in 0 .. MaxSeq /\ MaxSeq \in Nat /\ seqNo[n] < MaxSeq
    BY <1>1, NamesAssumption DEF LInv, TypeOK, publishRecord
  <2> QED
    BY <2>1, NamesAssumption DEF getNextName
<1>3. /\ content \in LedgerRecord /\ content.pointers # {}
      /\ content.type # REPLY_RECORD /\ content.payload = d
      /\ IF isGenesis(content)
         THEN content.pointers = {nm} /\ seqNo[n] = 0
         ELSE content.pointers \subseteq Published
  BY <1>2, SubmissionRecord
<1> HIDE DEF content
<1>4. /\ nm \in Name \ Published /\ nm[1] = n
      /\ Published' = Published \cup {nm}
      /\ rec' \in [Name -> LedgerRecord] /\ seqNo' \in [Node -> 0 .. MaxSeq]
      /\ rec'[nm] = content
      /\ \A m \in Name \ {nm} : rec'[m] = rec[m]
  BY <1>1, <1>3, PublishEffect DEF LInv
<1>5. HistoryInv'
  BY <1>1, <1>3, PublishHistory DEF LInv
<1>6. /\ Points(rec) /\ Published \in SUBSET Name
      /\ InstanceInv(rec, Published, returned, n, s) /\ s \in InstanceState
  BY HistoryFacts DEF LInv, TypeOK, InstanceInv
<1>7. Points(rec') /\ Published' \in SUBSET Name
  BY <1>4, <1>6 DEF Points, LedgerRecord
<1>8. \A m \in Published : rec'[m] = rec[m]
  BY <1>4, <1>6
<1> HIDE DEF nm
<1>9. /\ new \in DagState /\ ArrivedIn(new) = ArrivedIn(s.dag) \cup {nm}
      /\ Advances(s.dag, new)
  <2>1. DagInv(rec, s.dag, Threshold) /\ ArrivedIn(s.dag) \subseteq Published
    BY <1>6 DEF InstanceInv, Arrivals
  <2>2. DagInv(rec', s.dag, Threshold)
    BY <1>6, <1>7, <1>8, <2>1, OtherRecordsDagInv, ThresholdAssumption
  <2> QED
    BY <1>2, <1>7, <2>2, AddDagInv
<1> HIDE DEF new, s
<1>10. /\ added \in InstanceState
       /\ added.dag = new /\ added.stored = s.stored /\ added.maps = s.maps
       /\ added.tracker = s.tracker /\ added.stamped = s.stamped
       /\ added.replied = s.replied
  BY <1>6, <1>9 DEF InstanceState
<1> HIDE DEF added
<1>11. /\ mid \in InstanceState
       /\ mid.dag = new /\ mid.stored = s.stored /\ mid.maps = s.maps
       /\ mid.tracker = s.tracker \cup {nm} /\ mid.stamped = s.stamped
       /\ mid.replied = s.replied
  BY <1>2, <1>10, TrackerEffect
<1>12. /\ u \in InstanceState
       /\ u.dag = mid.dag /\ u.stored = mid.stored \cup {d}
       /\ u.maps = mid.maps \cup {<<d, nm>>} /\ u.tracker = mid.tracker
       /\ u.stamped = mid.stamped /\ u.replied = mid.replied
  <2> DEFINE v == storeData(added, d, nm)
  <2>1. /\ v \in InstanceState
        /\ v.dag = added.dag /\ v.stored = added.stored \cup {d}
        /\ v.maps = added.maps \cup {<<d, nm>>} /\ v.tracker = added.tracker
        /\ v.stamped = added.stamped /\ v.replied = added.replied
    BY <1>2, <1>10, StoreDataEffect
  <2> HIDE DEF v, mid
  <2>2. /\ u \in InstanceState
        /\ u.dag = v.dag /\ u.stored = v.stored
        /\ u.maps = v.maps /\ u.tracker = v.tracker \cup {nm}
        /\ u.stamped = v.stamped /\ u.replied = v.replied
    BY <1>2, <2>1, TrackerEffect DEF v
  <2> HIDE DEF u
  <2> QED
    BY <1>10, <1>11, <2>1, <2>2
<1> HIDE DEF mid, u
<1>13. InstanceInv(rec', Published', returned', n, mid)
  <2>1. /\ mid.dag = add(rec', s.dag, nm) /\ mid.stored = s.stored
        /\ mid.maps = s.maps /\ mid.stamped = s.stamped
        /\ mid.tracker = s.tracker \cup {nm} /\ mid.replied = s.replied
    BY <1>11 DEF new
  <2>2. returned \subseteq returned' /\ rec'[nm].type # REPLY_RECORD
    BY <1>1, <1>3, <1>4
  <2>3. nm \in Published' /\ Published \subseteq Published' /\ Published' \subseteq Published \cup {nm}
    BY <1>4
  <2> QED
    BY <1>6, <1>7, <1>8, <1>11, <2>1, <2>2, <2>3, ArrivalInv
<1>14. InstanceInv(rec', Published', returned', n, u)
  <2>1. mid.stored = s.stored /\ mid.dag = new /\ rec'[nm].payload = d
    BY <1>3, <1>4, <1>11
  <2>2. mid.dag.status[nm] # INITIALIZED
    BY <1>9, <2>1 DEF ArrivedIn
  <2>3. d \notin mid.stored
    BY <1>1, <2>1 DEF s
  <2> QED
    BY <1>2, <1>7, <1>12, <1>13, <2>1, <2>2, <2>3, StoreDataInv
<1>15. InstanceInv(rec', Published', returned', n, t) /\ Advances(s.dag, t.dag)
  <2>1. InstanceInv(rec', Published', returned', n, t) /\ Advances(u.dag, t.dag)
    BY <1>7, <1>14, DagHarvestInv
  <2> QED
    BY <1>9, <1>11, <1>12, <2>1 DEF Advances
<1>16. RepliesOnce'
  <2>1. \A a \in Published' \ Published : a = nm
    BY <1>4
  <2>2. rec'[nm].type # REPLY_RECORD
    BY <1>3, <1>4
  <2> QED
    BY <1>7, <1>8, <2>1, <2>2, RepliesOnceKept
<1>17. /\ returned \subseteq returned'
       /\ returned' \subseteq Node \X Data \X {SUCCESS, FAILURE_STORAGE}
  BY <1>1 DEF LInv, TypeOK
<1> HIDE DEF t
<1>18. Published \subseteq Published' /\ \A m \in Published' \ Published : m[1] = n
  BY <1>4
<1> QED
  BY <1>1, <1>4, <1>5, <1>8, <1>15, <1>16, <1>17, <1>18, HandlerLInv DEF s

\* Sync hands over a record, for the first time or again.
LEMMA OnRecordLInv ==
  ASSUME LInv, NEW n \in Node, NEW m \in Name, OnRecord(n, m)
  PROVE  LInv' /\ Moved
<1> DEFINE s == ledger[n]
           d == rec[m].payload
           new == add(rec, s.dag, m)
           base == [s EXCEPT !.timer = TRUE, !.dag = new]
           mid == updateStatesTracker(base, m)
           store == storeData(mid, d, m)
           t == IF rec[m].type = REPLY_RECORD THEN dagHarvest(mid)
                ELSE IF d \in mid.stored THEN mid ELSE dagHarvest(store)
<1>1. /\ m \in Published /\ m[1] # n
      /\ ledger' = [ledger EXCEPT ![n] = t]
      /\ rec' = rec /\ seqNo' = seqNo /\ returned' = returned
  BY DEF OnRecord
<1>2. /\ Points(rec) /\ Published \in SUBSET Name
      /\ InstanceInv(rec, Published, returned, n, s) /\ s \in InstanceState
  BY HistoryFacts DEF LInv, TypeOK, InstanceInv
<1>3. /\ new \in DagState /\ ArrivedIn(new) = ArrivedIn(s.dag) \cup {m}
      /\ Advances(s.dag, new)
  BY <1>2, AddDagInv DEF InstanceInv
<1> HIDE DEF s
<1>4. /\ base \in InstanceState /\ base.dag = new /\ base.stored = s.stored
      /\ base.maps = s.maps /\ base.tracker = s.tracker
      /\ base.stamped = s.stamped /\ base.replied = s.replied
  <2> HIDE DEF new
  <2> QED BY <1>2, <1>3 DEF InstanceState
<1> HIDE DEF base
<1>5. /\ mid \in InstanceState /\ mid.dag = new /\ mid.stored = s.stored
      /\ mid.maps = s.maps /\ mid.tracker = s.tracker \cup {m}
      /\ mid.stamped = s.stamped /\ mid.replied = s.replied
  <2> HIDE DEF new
  <2> QED BY <1>4, TrackerEffect
<1> HIDE DEF mid
<1>6. InstanceInv(rec, Published, returned, n, mid)
  BY <1>1, <1>2, <1>5, ArrivalInv
<1>7. ASSUME rec[m].type # REPLY_RECORD, d \notin mid.stored
      PROVE  InstanceInv(rec, Published, returned, n, store) /\ store.dag = mid.dag
  <2>1. d \in Data
    BY <1>1, <1>7 DEF LInv, HistoryInv
  <2>2. mid.dag.status[m] # INITIALIZED
    BY <1>3, <1>5 DEF ArrivedIn
  <2>3. /\ store \in InstanceState /\ store.dag = mid.dag
        /\ store.stored = mid.stored \cup {d}
        /\ store.maps = mid.maps \cup {<<d, m>>} /\ store.tracker = mid.tracker
        /\ store.stamped = mid.stamped /\ store.replied = mid.replied
    BY <1>5, <2>1, StoreDataEffect
  <2> HIDE DEF store, d
  <2>4. rec[m].payload = d
    BY DEF d
  <2> QED
    BY <1>2, <1>6, <1>7, <2>1, <2>2, <2>3, <2>4, StoreDataInv
<1> HIDE DEF store, d
<1>8. InstanceInv(rec, Published, returned, n, t) /\ Advances(s.dag, t.dag)
  <2>1. /\ InstanceInv(rec, Published, returned, n, dagHarvest(mid))
        /\ Advances(mid.dag, dagHarvest(mid).dag)
    BY <1>2, <1>6, DagHarvestInv
  <2>2. Advances(s.dag, mid.dag) /\ Advances(s.dag, dagHarvest(mid).dag)
    BY <1>3, <1>5, <2>1 DEF Advances
  <2>3. ASSUME rec[m].type # REPLY_RECORD, d \notin mid.stored
        PROVE  /\ InstanceInv(rec, Published, returned, n, dagHarvest(store))
               /\ Advances(s.dag, dagHarvest(store).dag)
    <3>1. /\ InstanceInv(rec, Published, returned, n, dagHarvest(store))
          /\ Advances(store.dag, dagHarvest(store).dag)
      BY <1>2, <1>7, <2>3, DagHarvestInv
    <3> QED
      BY <1>7, <2>2, <2>3, <3>1 DEF Advances
  <2> QED
    BY <1>6, <2>1, <2>2, <2>3
<1> HIDE DEF t
<1>9. returned' \subseteq Node \X Data \X {SUCCESS, FAILURE_STORAGE}
  BY <1>1 DEF LInv, TypeOK
<1> QED
  BY <1>1, <1>8, <1>9, QuietLInv DEF s

\* What publishReply cites waits, is no reply and was not replied to.
LEMMA ReplyPointers ==
  ASSUME LInv, NEW n \in Node
  PROVE  /\ replyPointers(n) \subseteq Published
         /\ replyPointers(n) \cap ledger[n].replied = {}
         /\ \A m \in replyPointers(n) :
              ledger[n].dag.status[m] = LOADED /\ rec[m].type # REPLY_RECORD
<1> DEFINE st == ledger[n].dag
<1>1. st \in DagState /\ WaitlistPointwise(st) /\ ArrivedIn(st) \subseteq Published
  BY DEF LInv, InstanceInv, DagInv, Arrivals
<1>2. ASSUME NEW m \in harvestBelow(st, Threshold)
      PROVE  m \in ArrivedIn(st) /\ st.status[m] = LOADED
  <2>1. PICK e \in st.wait : e[2] = m /\ m \in Name /\ st.status[m] # INITIALIZED
    BY DEF harvestBelow
  <2>2. PICK l \in Nat : <<l, m>> \in st.wait
    BY <1>1, <2>1 DEF DagState
  <2> QED
    BY <1>1, <2>1, <2>2 DEF WaitlistPointwise, Waiting, ArrivedIn
<1> QED
  BY <1>1, <1>2 DEF replyPointers

\* The reply timer fires and there is something to reply to.
LEMMA PublishReplyLInv ==
  ASSUME LInv, NEW n \in Node, PublishReply(n)
  PROVE  LInv' /\ Moved
<1> DEFINE s == ledger[n]
           nm == getNextName(n)
           ptrs == replyPointers(n)
           content == [type |-> REPLY_RECORD, payload |-> NoData, pointers |-> ptrs]
           new == add(rec', s.dag, nm)
           mid == [s EXCEPT !.timer = FALSE, !.replied = s.replied \cup ptrs, !.dag = new]
           t == dagHarvest(mid)
<1>1. /\ publishRecord(n, content) /\ ptrs # {}
      /\ ledger' = [ledger EXCEPT ![n] = t]
      /\ returned' = returned
  BY DEF PublishReply
<1>2. /\ ptrs \subseteq Published /\ ptrs \cap s.replied = {}
      /\ \A m \in ptrs : s.dag.status[m] = LOADED /\ rec[m].type # REPLY_RECORD
  BY ReplyPointers
<1>3. /\ Points(rec) /\ Published \in SUBSET Name
      /\ InstanceInv(rec, Published, returned, n, s) /\ s \in InstanceState
  BY HistoryFacts DEF LInv, TypeOK, InstanceInv
<1> HIDE DEF s, ptrs
<1>4. /\ content \in LedgerRecord /\ content.pointers = ptrs
      /\ content.type = REPLY_RECORD /\ ~ isGenesis(content)
  BY <1>2, <1>3 DEF LedgerRecord, RecordType, isGenesis, GENESIS_RECORD, REPLY_RECORD
<1> HIDE DEF content
<1>5. /\ nm \in Name \ Published /\ nm[1] = n
      /\ Published' = Published \cup {nm}
      /\ rec' \in [Name -> LedgerRecord] /\ seqNo' \in [Node -> 0 .. MaxSeq]
      /\ rec'[nm] = content
      /\ \A m \in Name \ {nm} : rec'[m] = rec[m]
  BY <1>1, <1>4, PublishEffect DEF LInv
<1>6. HistoryInv'
  BY <1>1, <1>2, <1>4, PublishHistory DEF LInv
<1>7. Points(rec') /\ Published' \in SUBSET Name
  BY <1>3, <1>5 DEF Points, LedgerRecord
<1>8. \A m \in Published : rec'[m] = rec[m]
  BY <1>3, <1>5
<1> HIDE DEF nm
<1>9. new \in DagState /\ Advances(s.dag, new)
  <2>1. DagInv(rec, s.dag, Threshold) /\ ArrivedIn(s.dag) \subseteq Published
    BY <1>3 DEF InstanceInv, Arrivals
  <2>2. DagInv(rec', s.dag, Threshold)
    BY <1>3, <1>7, <1>8, <2>1, OtherRecordsDagInv, ThresholdAssumption
  <2> QED
    BY <1>5, <1>7, <2>2, AddDagInv
<1>10. /\ mid \in InstanceState /\ mid.dag = new /\ mid.stored = s.stored
       /\ mid.maps = s.maps /\ mid.tracker = s.tracker
       /\ mid.stamped = s.stamped /\ mid.replied = s.replied \cup ptrs
  <2> HIDE DEF new
  <2> QED BY <1>2, <1>3, <1>9 DEF InstanceState
<1> HIDE DEF mid
<1>11. InstanceInv(rec', Published', returned', n, mid)
  <2>1. \A m \in mid.replied \ s.replied :
          s.dag.status[m] = LOADED /\ rec[m].type # REPLY_RECORD
    BY <1>2, <1>10
  <2>2. /\ nm[1] = n /\ rec'[nm].type = REPLY_RECORD
        /\ rec'[nm].pointers \subseteq mid.replied
    BY <1>4, <1>5, <1>10
  <2>3. /\ nm \in Published' /\ Published \subseteq Published'
        /\ Published' \subseteq Published \cup {nm} /\ returned \subseteq returned'
    BY <1>1, <1>5
  <2> QED
    BY <1>3, <1>7, <1>8, <1>10, <2>1, <2>2, <2>3, ArrivalInv
<1>12. InstanceInv(rec', Published', returned', n, t) /\ Advances(s.dag, t.dag)
  <2>1. InstanceInv(rec', Published', returned', n, t) /\ Advances(mid.dag, t.dag)
    BY <1>7, <1>11, DagHarvestInv
  <2> QED
    BY <1>9, <1>10, <2>1 DEF Advances
<1>13. RepliesOnce'
  <2>1. \A a \in Published' \ Published : a = nm
    BY <1>5
  <2>2. ASSUME NEW b \in Published, b[1] = n, rec[b].type = REPLY_RECORD
        PROVE  rec[b].pointers \cap rec'[nm].pointers = {}
    <3>1. \A p \in rec[b].pointers : p \in s.replied \/ s.dag.status[p] = INTERLOCKED
      BY <1>3, <2>2 DEF InstanceInv, RepliesKept
    <3> QED
      BY <1>2, <1>4, <1>5, <3>1 DEF LOADED, INTERLOCKED
  <2> QED
    BY <1>5, <1>7, <1>8, <2>1, <2>2, RepliesOnceKept
<1> HIDE DEF t
<1>14. /\ returned \subseteq returned'
       /\ returned' \subseteq Node \X Data \X {SUCCESS, FAILURE_STORAGE}
       /\ Published \subseteq Published' /\ \A m \in Published' \ Published : m[1] = n
  BY <1>1, <1>5 DEF LInv, TypeOK
<1> QED
  BY <1>1, <1>5, <1>6, <1>8, <1>12, <1>13, <1>14, HandlerLInv DEF s

\* The reply timer fires and there is nothing to reply to.
LEMMA NothingToReplyLInv ==
  ASSUME LInv, NEW n \in Node, NothingToReply(n)
  PROVE  LInv' /\ Moved
<1> DEFINE s == ledger[n]
           t == [s EXCEPT !.timer = FALSE]
<1>1. /\ InstanceInv(rec, Published, returned, n, s) /\ s \in InstanceState
      /\ ledger \in [Node -> InstanceState]
      /\ returned \subseteq Node \X Data \X {SUCCESS, FAILURE_STORAGE}
  BY DEF LInv, TypeOK, InstanceInv
<1>2. /\ ledger' = [ledger EXCEPT ![n] = t]
      /\ rec' = rec /\ seqNo' = seqNo /\ returned' = returned
  BY DEF NothingToReply
<1> HIDE DEF s
<1>3. /\ t \in InstanceState /\ t.dag = s.dag /\ t.stored = s.stored
      /\ t.maps = s.maps /\ t.tracker = s.tracker
      /\ t.stamped = s.stamped /\ t.replied = s.replied
  BY <1>1 DEF InstanceState
<1> HIDE DEF t
<1>4. RepliesKept(rec, Published, n, t) /\ DataMapped(rec, returned, n, t)
  <2>1. RepliesKept(rec, Published, n, s) /\ DataMapped(rec, returned, n, s)
    BY <1>1 DEF InstanceInv
  <2>2. RepliesKept(rec, Published, n, t)
    BY <1>3, <2>1 DEF RepliesKept
  <2> QED
    BY <1>3, <2>1, <2>2 DEF DataMapped
<1>5. InstanceInv(rec, Published, returned', n, t)
  BY <1>1, <1>2, <1>3, <1>4 DEF InstanceInv, Tracked
<1>6. Advances(ledger[n].dag, t.dag)
  BY <1>3 DEF Advances, s
<1> QED
  BY <1>1, <1>2, <1>5, <1>6, QuietLInv

\* The reply timer fires and the reply is not published: what it would have cited
\* counts as replied to, and waits like everything that does.
LEMMA PublishReplyFailsLInv ==
  ASSUME LInv, NEW n \in Node, PublishReplyFails(n)
  PROVE  LInv' /\ Moved
<1> DEFINE s == ledger[n]
           ptrs == replyPointers(n)
           t == [s EXCEPT !.timer = FALSE, !.replied = s.replied \cup ptrs]
<1>1. /\ InstanceInv(rec, Published, returned, n, s) /\ s \in InstanceState
      /\ ledger \in [Node -> InstanceState] /\ Published \in SUBSET Name
      /\ returned \subseteq Node \X Data \X {SUCCESS, FAILURE_STORAGE}
  BY HistoryFacts DEF LInv, TypeOK, InstanceInv
<1>2. /\ ledger' = [ledger EXCEPT ![n] = t]
      /\ rec' = rec /\ seqNo' = seqNo /\ returned' = returned
  BY <1>1 DEF PublishReplyFails
<1>3. /\ ptrs \subseteq Published
      /\ \A m \in ptrs : s.dag.status[m] = LOADED /\ rec[m].type # REPLY_RECORD
  BY ReplyPointers
<1> HIDE DEF s, ptrs
<1>4. /\ t \in InstanceState /\ t.dag = s.dag /\ t.stored = s.stored
      /\ t.maps = s.maps /\ t.tracker = s.tracker
      /\ t.stamped = s.stamped /\ t.replied = s.replied \cup ptrs
  BY <1>1, <1>3 DEF InstanceState
<1> HIDE DEF t
<1>5. RepliesKept(rec, Published, n, t) /\ DataMapped(rec, returned, n, t)
  <2>1. RepliesKept(rec, Published, n, s) /\ DataMapped(rec, returned, n, s)
    BY <1>1 DEF InstanceInv
  <2>2. RepliesKept(rec, Published, n, t)
    BY <1>3, <1>4, <2>1 DEF RepliesKept
  <2> QED
    BY <1>4, <2>1, <2>2 DEF DataMapped
<1>6. InstanceInv(rec, Published, returned', n, t)
  BY <1>1, <1>2, <1>4, <1>5 DEF InstanceInv, Tracked
<1>7. Advances(ledger[n].dag, t.dag)
  BY <1>4 DEF Advances, s
<1> QED
  BY <1>1, <1>2, <1>6, <1>7, QuietLInv

\* The raw Data is stored and the publication fails: the client is told so.
LEMMA PublicationFailsLInv ==
  ASSUME LInv, NEW n \in Node, NEW d \in Data, PublicationFails(n, d)
  PROVE  LInv' /\ Moved
<1> DEFINE s == ledger[n]
           t == [s EXCEPT !.stored = s.stored \cup {d}]
<1>1. /\ InstanceInv(rec, Published, returned, n, s) /\ s \in InstanceState
      /\ ledger \in [Node -> InstanceState]
      /\ returned \subseteq Node \X Data \X {SUCCESS, FAILURE_STORAGE}
  BY DEF LInv, TypeOK, InstanceInv
<1>2. /\ ledger' = [ledger EXCEPT ![n] = t]
      /\ rec' = rec /\ seqNo' = seqNo
      /\ returned' = returned \cup {<<n, d, FAILURE_STORAGE>>}
  BY DEF PublicationFails
<1> HIDE DEF s
<1>3. /\ t \in InstanceState /\ t.dag = s.dag /\ t.stored = s.stored \cup {d}
      /\ t.maps = s.maps /\ t.tracker = s.tracker
      /\ t.stamped = s.stamped /\ t.replied = s.replied
  BY <1>1 DEF InstanceState
<1> HIDE DEF t
<1>4. DataMapped(rec, returned', n, t)
  BY <1>1, <1>2, <1>3 DEF InstanceInv, DataMapped
<1>5. InstanceInv(rec, Published, returned', n, t)
  BY <1>1, <1>3, <1>4 DEF InstanceInv, RepliesKept, Tracked
<1>6. /\ returned \subseteq returned'
      /\ returned' \subseteq Node \X Data \X {SUCCESS, FAILURE_STORAGE}
  BY <1>1, <1>2
<1>7. Advances(ledger[n].dag, t.dag)
  BY <1>3 DEF Advances, s
<1> QED
  BY <1>2, <1>5, <1>6, <1>7, QuietLInv

\* Data that is already stored: only the answer to the client is new.
LEMMA DuplicateLInv ==
  ASSUME LInv, NEW n \in Node, NEW d \in Data, DuplicateSubmission(n, d)
  PROVE  LInv' /\ Moved
<1>1. /\ rec' = rec /\ seqNo' = seqNo /\ ledger' = ledger
      /\ returned' = returned \cup {<<n, d, SUCCESS>>}
  BY DEF DuplicateSubmission
<1>2. /\ returned \subseteq returned'
      /\ returned' \subseteq Node \X Data \X {SUCCESS, FAILURE_STORAGE}
      /\ ledger' = [ledger EXCEPT ![n] = ledger[n]]
      /\ InstanceInv(rec, Published, returned, n, ledger[n])
      /\ Points(rec) /\ Published \in SUBSET Name
  BY <1>1, HistoryFacts DEF LInv, TypeOK
<1>3. InstanceInv(rec, Published, returned', n, ledger[n])
  BY <1>2, OthersInstanceInv
<1> QED
  BY <1>1, <1>2, <1>3, QuietLInv DEF Advances

\* Nothing is published and nothing has arrived anywhere at the start.
LEMMA InitLInv == Init => LInv
<1> SUFFICES ASSUME Init PROVE LInv
  OBVIOUS
<1>1. Published = {}
  BY NamesAssumption DEF Init, Published
<1>2. TypeOK
  <2>1. NewInstance \in InstanceState
    BY EmptyDagInv, ThresholdAssumption DEF NewInstance, InstanceState, DagInv
  <2>2. NoRecord \in LedgerRecord
    BY DEF NoRecord, LedgerRecord, RecordType
  <2>3. 0 \in 0 .. MaxSeq
    BY NamesAssumption
  <2> QED
    BY <2>1, <2>2, <2>3 DEF Init, TypeOK
<1>3. \A m \in Name : rec[m] = NoRecord
  BY DEF Init
<1>4. HistoryInv
  BY <1>1, <1>3 DEF HistoryInv, GenesisIsFirst, Acyclic, NoRecord
<1>5. \A n \in Node : InstanceInv(rec, Published, returned, n, ledger[n])
  BY <1>1, NewInstanceInv DEF Init
<1> QED
  BY <1>1, <1>2, <1>4, <1>5 DEF LInv, RepliesOnce

\* Every handler of every instance keeps LInv and moves the DAGs on.
LEMMA NextLInv == LInv /\ [Next]_vars => LInv' /\ Moved
<1> SUFFICES ASSUME LInv, [Next]_vars PROVE LInv' /\ Moved
  OBVIOUS
<1>1. CASE UNCHANGED vars
  <2>1. Published' = Published
    BY <1>1 DEF vars, Published
  <2>2. LInv'
    BY <1>1, <2>1 DEF vars, LInv, TypeOK, HistoryInv, GenesisIsFirst, RepliesOnce
  <2> QED
    BY <1>1, <2>2 DEF vars, Moved, Advances
<1>2. CASE Next
  BY <1>2, SubmissionLInv, DuplicateLInv, PublicationFailsLInv, OnRecordLInv,
     NothingToReplyLInv, PublishReplyLInv, PublishReplyFailsLInv DEF Next
<1> QED
  BY <1>1, <1>2

\* LInv is an invariant of the group of ledger instances.
THEOREM LedgerInvariance == Spec => []LInv
BY InitLInv, NextLInv, PTL DEF Spec

------------------------------------------------------------------------------
(* The properties of LedgerModule. *)

\* Type correctness of the records, the sequence numbers and every instance.
THEOREM LedgerTypeCorrect == Spec => []TypeOK
<1>1. LInv => TypeOK
  BY DEF LInv
<1> QED
  BY <1>1, LedgerInvariance, PTL

\* The name afterValidation guesses for a genesis record is the one that
\* publishRecord gives it, whatever arrives before the first submission.
THEOREM GenesisCorrect == Spec => []GenesisIsFirst
<1>1. LInv => GenesisIsFirst
  BY DEF LInv, HistoryInv
<1> QED
  BY <1>1, LedgerInvariance, PTL

\* Submissions and replies made from waitlists of different instances form one
\* acyclic history.
THEOREM HistoryCorrect == Spec => []HistoryWellFormed
<1>1. LInv => HistoryWellFormed
  <2> SUFFICES ASSUME LInv PROVE HistoryWellFormed
    OBVIOUS
  <2>1. Cited(rec) \subseteq Name /\ Acyclic(rec)
    BY HistoryFacts DEF LInv, TypeOK, Cited, Points
  <2> QED
    BY <2>1 DEF LInv, HistoryInv, HistoryWellFormed, Acyclic
<1> QED
  BY <1>1, LedgerInvariance, PTL

\* m_repliedRecords holds only records that still wait.
THEOREM RepliedCorrect == Spec => []RepliedStillWaiting
<1>1. LInv => RepliedStillWaiting
  BY DEF LInv, InstanceInv, RepliesKept, RepliedStillWaiting
<1> QED
  BY <1>1, LedgerInvariance, PTL

\* Forgetting interlocked records, an instance still replies to none twice.
THEOREM RepliesOnceCorrect == Spec => []RepliesOnce
<1>1. LInv => RepliesOnce
  BY DEF LInv
<1> QED
  BY <1>1, LedgerInvariance, PTL

\* Stored Data is mapped to one record that carries it and has arrived, unless
\* its publication failed.
THEOREM StoredDataCorrect == Spec => []StoredDataMapped
<1>1. ASSUME LInv, NEW n \in Node, NEW d \in ledger[n].stored,
             <<n, d, FAILURE_STORAGE>> \notin returned
      PROVE  Cardinality({e \in ledger[n].maps : e[1] = d}) = 1
  <2>1. ledger[n].maps \subseteq Data \X Name /\ ledger[n].stored \subseteq Data
    BY <1>1, InstanceFields DEF LInv, InstanceInv
  <2>2. PICK m \in Name : /\ <<d, m>> \in ledger[n].maps
                          /\ \A k \in Name : <<d, k>> \in ledger[n].maps => k = m
    BY <1>1 DEF LInv, InstanceInv, DataMapped
  <2>3. {e \in ledger[n].maps : e[1] = d} = {<<d, m>>}
    BY <2>1, <2>2
  <2> QED
    BY <2>3, FS_Singleton
<1>2. ASSUME LInv, NEW n \in Node, NEW e \in ledger[n].maps
      PROVE  /\ e[1] \in ledger[n].stored /\ rec[e[2]].payload = e[1]
             /\ ledger[n].dag.status[e[2]] # INITIALIZED
  <2>1. ledger[n].maps \subseteq Data \X Name
    BY <1>2, InstanceFields DEF LInv, InstanceInv
  <2>2. PICK d \in Data, m \in Name : e = <<d, m>>
    BY <2>1
  <2> QED
    BY <1>2, <2>2 DEF LInv, InstanceInv, DataMapped
<1>3. LInv => StoredDataMapped
  BY <1>1, <1>2 DEF StoredDataMapped
<1> QED
  BY <1>3, LedgerInvariance, PTL

\* The states tracker misses no record but the instance's own replies.
THEOREM TrackerCorrect == Spec => []TrackerComplete
<1>1. LInv => TrackerComplete
  BY DEF LInv, InstanceInv, Tracked, TrackerComplete, OwnReply
<1> QED
  BY <1>1, LedgerInvariance, PTL

------------------------------------------------------------------------------
(* The instances implement their logs. *)

\* What the log of n calls citations and backers are those of its DAG state.
LEMMA LogCitations ==
  ASSUME LInv, NEW n \in Node
  PROVE  /\ \A d \in Name :
              Log(n)!CitedFrom(d) = CitedBy(rec, ArrivedIn(ledger[n].dag), d)
         /\ \A x \in Name : Log(n)!Backers(x) = CitingIn(rec, ledger[n].dag, x)
<1> DEFINE st == ledger[n].dag
           arrived == ArrivedIn(st)
<1>1. arrived \subseteq Published /\ Published \subseteq Name
  BY DEF LInv, InstanceInv, Arrivals, Published
<1>2. ASSUME NEW d \in Name, NEW A \in SUBSET Name
      PROVE  Log(n)!Closed(d, A) <=> CitationClosed(rec, arrived, d, A)
  BY DEF Log!Closed, CitationClosed, ArrivedIn
<1>3. ASSUME NEW d \in Name PROVE Log(n)!CitedFrom(d) = CitedBy(rec, arrived, d)
  BY <1>2 DEF Log!CitedFrom, CitedBy
<1>4. \A d \in arrived : d \notin rec[d].pointers <=> ~ isGenesis(rec[d])
  BY <1>1 DEF LInv, HistoryInv
<1>5. ASSUME NEW x \in Name PROVE Log(n)!Backers(x) = CitingIn(rec, st, x)
  BY <1>1, <1>3, <1>4 DEF Log!Backers, CitingIn, ArrivedIn
<1> QED
  BY <1>3, <1>5

\* Every record an instance has interlocked has the backing the policy asks for.
Backed == \A n \in Node, x \in Name :
            ledger[n].dag.status[x] = INTERLOCKED =>
              evaluate(Log(n)!Backers(x)) >= Threshold

\* The backers of a record are the records that cite it, and those are enough.
LEMMA LockedIsBacked == LInv => Backed
<1> SUFFICES ASSUME LInv, NEW n \in Node, NEW x \in Name,
                    ledger[n].dag.status[x] = INTERLOCKED
             PROVE  evaluate(Log(n)!Backers(x)) >= Threshold
  BY DEF Backed
<1>1. Log(n)!Backers(x) = CitingIn(rec, ledger[n].dag, x)
  BY LogCitations
<1>2. DagInv(rec, ledger[n].dag, Threshold)
  BY DEF LInv, InstanceInv
<1> QED
  BY <1>1, <1>2, InterlockedIsCited, ThresholdAssumption

\* A published record never changes.
LEMMA PublishedKept ==
  ASSUME LInv, [Next]_vars, NEW m \in Published
  PROVE  rec'[m] = rec[m]
<1>1. ASSUME NEW n \in Node, NEW content, publishRecord(n, content)
      PROVE  rec'[m] = rec[m]
  <2>1. m \in Name /\ m[2] <= seqNo[m[1]] /\ seqNo[n] \in Nat
    BY NamesAssumption DEF Published, LInv, TypeOK
  <2>2. m # getNextName(n)
    BY <2>1 DEF getNextName
  <2> QED
    BY <1>1, <2>1, <2>2 DEF publishRecord, LInv, TypeOK
<1> QED
  BY <1>1 DEF Next, vars, OnDataSubmission, DuplicateSubmission,
     PublicationFails, OnRecord, NothingToReply, PublishReply, PublishReplyFails

\* Every handler is a step of every instance's log, or none.
LEMMA StepIsLogStep ==
  LInv /\ Backed' /\ [Next]_vars /\ Moved =>
    \A n \in Node : [Log(n)!Step]_(Log(n)!vars)
<1> SUFFICES ASSUME LInv, Backed', [Next]_vars, Moved, NEW n \in Node
             PROVE  Log(n)!Step
  OBVIOUS
<1> DEFINE known == {m \in Name : ledger[n].dag.status[m] # INITIALIZED}
           locked == {m \in Name : ledger[n].dag.status[m] = INTERLOCKED}
<1>1. known \subseteq known' /\ known' \subseteq Name
  BY DEF Moved, Advances
<1>2. locked \subseteq locked' /\ locked' \subseteq known'
  BY DEF Moved, Advances, INITIALIZED, INTERLOCKED
<1>3. known \subseteq Published
  BY DEF LInv, InstanceInv, Arrivals, ArrivedIn
<1>4. \A m \in known : rec'[m].pointers = rec[m].pointers
  BY <1>3, PublishedKept
<1>5. \A x \in locked' \ locked : evaluate(Log(n)!Backers(x)') >= Threshold
  BY DEF Backed
<1> QED
  BY <1>1, <1>2, <1>4, <1>5 DEF Log!Step

\* Each instance of the group implements its abstract log, whatever the others
\* publish: no handler interlocks what the records it has do not back, and none
\* takes an interlock back.
THEOREM LogsImplemented == Spec => ImplementsLog
<1>1. Init => \A n \in Node : Log(n)!Init
  BY DEF Init, NewInstance, EmptyDag, Log!Init, INITIALIZED, INTERLOCKED
<1> QED
  BY <1>1, LedgerInvariance, NextLInv, LockedIsBacked, StepIsLogStep, PTL
     DEF Spec, ImplementsLog

------------------------------------------------------------------------------
(* Queries. *)

\* A set of natural numbers has a least element.
LEMMA LeastNumber ==
  ASSUME NEW T \in SUBSET Nat, T # {}
  PROVE  \E x \in T : \A y \in T : x <= y
<1>1. PICK x \in T : \A y \in T : ~ (<<y, x>> \in OpToRel(<, Nat))
  BY NatLessThanWellFounded, WFMin
<1>2. \A y \in T : ~ (y < x)
  BY <1>1 DEF OpToRel
<1> QED
  BY <1>2

\* A finite set has subsets of every size up to its own.
LEMMA SubsetOfSize ==
  ASSUME NEW S, IsFiniteSet(S), NEW k \in Nat, k <= Cardinality(S)
  PROVE  \E T \in SUBSET S : Cardinality(T) = k
<1>1. PICK f : f \in Bijection(1 .. Cardinality(S), S) /\ Cardinality(S) \in Nat
  BY FS_CardinalityType DEF ExistsBijection
<1> DEFINE T == {f[i] : i \in 1 .. k}
           g == [i \in 1 .. k |-> f[i]]
<1>2. \A i \in 1 .. k : i \in 1 .. Cardinality(S)
  BY <1>1
<1>3. T \in SUBSET S
  BY <1>1, <1>2 DEF Bijection, Injection
<1>4. g \in Bijection(1 .. k, T)
  <2>1. g \in [1 .. k -> T] /\ \A i \in 1 .. k : g[i] = f[i]
    OBVIOUS
  <2>2. \A i, j \in 1 .. k : g[i] = g[j] => i = j
    BY <1>1, <1>2, <2>1 DEF Bijection, Injection, IsInjective
  <2>3. \A y \in T : \E i \in 1 .. k : g[i] = y
    BY <2>1
  <2> HIDE DEF g, T
  <2> QED
    BY <2>1, <2>2, <2>3 DEF Bijection, Injection, IsInjective, Surjection
<1>5. Cardinality(T) = k
  BY <1>4, FS_CountingElements DEF ExistsBijection
<1> QED
  BY <1>3, <1>5

\* What the policy selects is worth as much as all there is, and every one of
\* the selected descendants is worth one: the witness policy selects one of
\* every publisher.
LEMMA SelectWorth ==
  ASSUME NEW D \in SUBSET Name
  PROVE  /\ select(D) \in SUBSET D
         /\ evaluate(D) <= Cardinality(select(D))
         /\ \A S \in SUBSET select(D) : evaluate(S) = Cardinality(S)
<1>1. select(D) \in SUBSET D
  BY DEF select
<1>2. CASE PolicyType = "policy-descendants"
  <2>1. Cardinality(D) \in Nat
    BY EvaluateMonotone
  <2> QED
    BY <1>1, <1>2, <2>1 DEF select, evaluate
<1>3. CASE PolicyType # "policy-descendants"
  <2>1. \A m \in Name : m[1] \in Node /\ m[2] \in Nat /\ m = <<m[1], m[2]>> /\ Prefix[m] = m[1]
    BY NamesAssumption
  <2>2. select(D) = {m \in D : \A k \in D : k[1] = m[1] => m[2] <= k[2]}
    BY <1>3 DEF select
  <2>3. ASSUME NEW m \in D PROVE \E k \in select(D) : k[1] = m[1]
    <3> DEFINE T == {k[2] : k \in {j \in D : j[1] = m[1]}}
    <3>1. T \in SUBSET Nat /\ T # {}
      BY <2>1
    <3>2. PICK x \in T : \A y \in T : x <= y
      BY <3>1, LeastNumber
    <3> QED
      BY <2>2, <3>2
  <2>4. witnesses(D) = witnesses(select(D))
    BY <1>1, <2>1, <2>3 DEF witnesses
  <2>5. ASSUME NEW a \in select(D), NEW b \in select(D), Prefix[a] = Prefix[b]
        PROVE  a = b
    BY <1>1, <2>1, <2>2, <2>5
  <2>6. ASSUME NEW S \in SUBSET select(D)
        PROVE  Cardinality(witnesses(S)) = Cardinality(S)
    <3> DEFINE f == [d \in S |-> Prefix[d]]
    <3>1. f \in Surjection(S, witnesses(S)) /\ f \in Injection(S, witnesses(S))
      <4>1. f \in [S -> witnesses(S)] /\ \A d \in S : f[d] = Prefix[d]
        BY DEF witnesses
      <4>2. \A a, b \in S : f[a] = f[b] => a = b
        BY <2>5, <4>1
      <4>3. \A y \in witnesses(S) : \E d \in S : f[d] = y
        BY <4>1 DEF witnesses
      <4> HIDE DEF f
      <4> QED
        BY <4>1, <4>2, <4>3 DEF Surjection, Injection, IsInjective
    <3>2. IsFiniteSet(S)
      BY <1>1, NameAssumption, FS_Subset
    <3> QED
      BY <3>1, <3>2, FS_Surjection
  <2>7. Cardinality(witnesses(D)) \in Nat
    BY EvaluateMonotone
  <2>8. Cardinality(witnesses(select(D))) = Cardinality(select(D))
    BY <2>6
  <2> QED
    BY <1>1, <1>3, <2>4, <2>6, <2>7, <2>8 DEF evaluate
<1> QED
  BY <1>2, <1>3

\* How many of the selected descendants D an answer carries.
AnswerSize(D) == IF Cardinality(D) < Threshold THEN Cardinality(D) ELSE Threshold

\* That many can be taken, and they meet the threshold if all of them do.
LEMMA AnswerSizeWorks ==
  ASSUME NEW D \in SUBSET Name
  PROVE  /\ \E S \in SUBSET select(D) : Cardinality(S) = AnswerSize(select(D))
         /\ \A S \in SUBSET select(D) :
              Cardinality(S) = AnswerSize(select(D)) /\ evaluate(D) >= Threshold =>
                evaluate(S) >= Threshold
<1> DEFINE E == select(D)
<1>1. /\ E \in SUBSET D /\ evaluate(D) <= Cardinality(E)
      /\ \A S \in SUBSET E : evaluate(S) = Cardinality(S)
  BY SelectWorth
<1>2. IsFiniteSet(E) /\ Cardinality(E) \in Nat
  BY <1>1, NameAssumption, FS_Subset, FS_CardinalityType
<1>3. evaluate(D) \in Nat
  BY EvaluateLevel
<1> HIDE DEF E
<1>4. AnswerSize(E) \in Nat /\ AnswerSize(E) <= Cardinality(E)
  BY <1>2, ThresholdAssumption DEF AnswerSize
<1>5. \E S \in SUBSET E : Cardinality(S) = AnswerSize(E)
  BY <1>2, <1>4, SubsetOfSize
<1>6. ASSUME NEW S \in SUBSET E, Cardinality(S) = AnswerSize(E),
             evaluate(D) >= Threshold
      PROVE  evaluate(S) >= Threshold
  <2>1. Cardinality(E) >= Threshold
    BY <1>1, <1>2, <1>3, <1>6, ThresholdAssumption
  <2>2. AnswerSize(E) = Threshold
    BY <1>2, <2>1, ThresholdAssumption DEF AnswerSize
  <2> QED
    BY <1>1, <1>6, <2>2, ThresholdAssumption
<1> QED
  BY <1>5, <1>6 DEF E

\* What a query collects is the mapped record with selected descendants, and for
\* mapped Data it does collect something.
LEMMA QueryCollects ==
  ASSUME LInv, NEW n \in Node, NEW d \in Data
  PROVE  /\ \A a \in collected(n, d) :
              \E m \in Name : \E S \in SUBSET select(ledger[n].dag.desc[m]) :
                /\ <<d, m>> \in ledger[n].maps
                /\ Cardinality(S) = AnswerSize(select(ledger[n].dag.desc[m]))
                /\ a = [record |-> m, behind |-> S]
         /\ \A m \in Name : <<d, m>> \in ledger[n].maps => collected(n, d) # {}
<1> DEFINE s == ledger[n]
           mapTo == {m \in arrivedStates(s) : d \in s.stored /\ <<d, m>> \in s.maps}
           first(D) == {S \in SUBSET D : Cardinality(S) = AnswerSize(D)}
           answers(m) == {[record |-> m, behind |-> S] :
                            S \in first(select(s.dag.desc[m]))}
<1>1. collected(n, d) = UNION {answers(m) : m \in mapTo}
  BY DEF collected, AnswerSize
<1>2. /\ DataMapped(rec, returned, n, s)
      /\ \A m \in Name : s.dag.desc[m] \in SUBSET Name
  BY DEF LInv, InstanceInv, DagInv, DagState
<1>3. ASSUME NEW m \in Name, <<d, m>> \in s.maps PROVE m \in mapTo
  BY <1>2, <1>3 DEF DataMapped, arrivedStates
<1>4. ASSUME NEW m \in mapTo PROVE answers(m) # {} /\ m \in Name
  <2>1. m \in Name
    BY DEF arrivedStates
  <2>2. \E S \in SUBSET select(s.dag.desc[m]) :
          Cardinality(S) = AnswerSize(select(s.dag.desc[m]))
    BY <1>2, <2>1, AnswerSizeWorks
  <2> QED
    BY <2>1, <2>2
<1>5. ASSUME NEW a \in collected(n, d)
      PROVE  \E m \in Name : \E S \in SUBSET select(s.dag.desc[m]) :
                /\ <<d, m>> \in s.maps
                /\ Cardinality(S) = AnswerSize(select(s.dag.desc[m]))
                /\ a = [record |-> m, behind |-> S]
  <2>1. PICK m \in mapTo : a \in answers(m)
    BY <1>1
  <2>2. PICK S \in first(select(s.dag.desc[m])) : a = [record |-> m, behind |-> S]
    BY <2>1
  <2> QED
    BY <1>4, <2>1, <2>2
<1>6. ASSUME NEW m \in Name, <<d, m>> \in s.maps PROVE collected(n, d) # {}
  <2>1. m \in mapTo
    BY <1>3, <1>6
  <2> HIDE DEF answers, mapTo
  <2>2. answers(m) # {}
    BY <1>4, <2>1
  <2>3. answers(m) \subseteq collected(n, d)
    BY <1>1, <2>1
  <2> QED
    BY <2>2, <2>3
<1> QED
  BY <1>5, <1>6

\* A client can rely on what onQuery answers, whichever record packets the storage
\* has under their own names; and on the way to the record of mapped Data nothing
\* the ledger itself keeps is missing.
THEOREM QueryCorrect == Spec => []QueryTruthful
<1>1. ASSUME LInv, NEW n \in Node, NEW d \in Data, NEW a \in onQuery(n, d) \ {Nack}
      PROVE  /\ rec[a.record].payload = d
             /\ \A k \in a.behind : /\ ~ isGenesis(rec[k])
                                    /\ a.record \in Log(n)!CitedFrom(k)
             /\ ledger[n].dag.status[a.record] = INTERLOCKED =>
                  evaluate(a.behind) >= Threshold
  <2> DEFINE st == ledger[n].dag
  <2>1. /\ DataMapped(rec, returned, n, ledger[n])
        /\ Sound(rec, st) /\ Justified(st, Threshold)
        /\ \A m \in Name : st.desc[m] \in SUBSET Name
        /\ ledger[n].maps \subseteq Data \X Name
    BY <1>1, InstanceFields DEF LInv, InstanceInv, DagInv, DagState
  <2>2. a \in collected(n, d)
    BY <1>1 DEF onQuery
  <2>3. ASSUME NEW m \in Name, NEW S \in SUBSET select(st.desc[m]),
               <<d, m>> \in ledger[n].maps,
               Cardinality(S) = AnswerSize(select(st.desc[m])),
               a = [record |-> m, behind |-> S]
        PROVE  /\ rec[a.record].payload = d
               /\ \A k \in a.behind : /\ ~ isGenesis(rec[k])
                                      /\ a.record \in Log(n)!CitedFrom(k)
               /\ ledger[n].dag.status[a.record] = INTERLOCKED =>
                    evaluate(a.behind) >= Threshold
    <3>1. a.record = m /\ a.behind = S
      BY <2>3
    <3>2. rec[m].payload = d
      BY <2>1, <2>3 DEF DataMapped
    <3>3. ASSUME NEW k \in S
          PROVE  ~ isGenesis(rec[k]) /\ m \in Log(n)!CitedFrom(k)
      <4>1. k \in CitingIn(rec, st, m)
        BY <2>1, SelectWorth DEF Sound
      <4>2. k \in Name /\ ~ isGenesis(rec[k]) /\ m \in CitedBy(rec, ArrivedIn(st), k)
        BY <4>1 DEF CitingIn, ArrivedIn
      <4> QED
        BY <1>1, <4>2, LogCitations
    <3>4. ASSUME st.status[m] = INTERLOCKED PROVE evaluate(S) >= Threshold
      BY <2>1, <2>3, <3>4, AnswerSizeWorks DEF Justified
    <3> QED
      BY <3>1, <3>2, <3>3, <3>4
  <2>4. \E m \in Name : \E S \in SUBSET select(st.desc[m]) :
          /\ <<d, m>> \in ledger[n].maps
          /\ Cardinality(S) = AnswerSize(select(st.desc[m]))
          /\ a = [record |-> m, behind |-> S]
    BY <1>1, <2>2, QueryCollects
  <2> HIDE DEF st
  <2> QED
    BY <2>3, <2>4
<1>2. ASSUME LInv, NEW n \in Node, NEW d \in Data, NEW e \in ledger[n].maps, e[1] = d
      PROVE  collected(n, d) # {}
  <2>1. ledger[n].maps \subseteq Data \X Name
    BY <1>2, InstanceFields DEF LInv, InstanceInv
  <2>2. PICK m \in Name : e = <<d, m>>
    BY <1>2, <2>1
  <2> QED
    BY <1>2, <2>2, QueryCollects
<1>3. LInv => QueryTruthful
  BY <1>1, <1>2 DEF QueryTruthful
<1> QED
  BY <1>3, LedgerInvariance, PTL

------------------------------------------------------------------------------
(* What is written to the storage is read back as it was, so what the       *)
(* status tool shows is the truth.                                          *)

\* The names of a block are the names that were put into it.
LEMMA NamesRoundTrip ==
  ASSUME NEW S, IsFiniteSet(S)
  PROVE  decodeNames(encodeNames(S)) = S
<1>1. Cardinality(S) \in Nat /\ ExistsBijection(1 .. Cardinality(S), S)
  BY FS_CardinalityType
<1>2. PICK n \in Nat : n = Cardinality(S) /\ ExistsBijection(1 .. n, S)
  BY <1>1
<1>3. \E f \in [1 .. n -> S] : IsInjective(f)
  BY <1>2 DEF ExistsBijection, Bijection, Injection, IsInjective
<1>4. PICK q : q = SetToSeq(S)
  OBVIOUS
<1>5. q \in [1 .. n -> S] /\ IsInjective(q)
  BY <1>2, <1>3, <1>4 DEF SetToSeq
<1>6. q \in Surjection(1 .. n, S)
  <2>1. q \in Injection(1 .. n, S)
    BY <1>5 DEF Injection, IsInjective
  <2>2. Cardinality(1 .. n) = n
    BY FS_Interval
  <2>3. Cardinality(1 .. n) = Cardinality(S) <=> q \in Surjection(1 .. n, S)
    BY <2>1, FS_Injection
  <2> QED
    BY <1>2, <2>2, <2>3
<1>7. DOMAIN q = 1 .. n /\ S = {q[i] : i \in 1 .. n}
  BY <1>5, <1>6 DEF Surjection
<1>8. encodeNames(S) = [i \in 1 .. n |-> Block(TLV_NAME, q[i])]
  <2>1. encodeNames(S) = [i \in DOMAIN q |-> Block(TLV_NAME, q[i])]
    BY <1>4 DEF encodeNames
  <2> QED
    BY <1>7, <2>1
<1>9. ToSet(encodeNames(S)) = {Block(TLV_NAME, q[i]) : i \in 1 .. n}
  BY <1>8 DEF ToSet
<1>10. \A x : Block(TLV_NAME, x).value = x
  BY DEF Block
<1>11. decodeNames(encodeNames(S)) = {e.value : e \in {Block(TLV_NAME, q[i]) : i \in 1 .. n}}
  BY <1>9 DEF decodeNames
<1>12. {e.value : e \in {Block(TLV_NAME, q[i]) : i \in 1 .. n}} =
         {Block(TLV_NAME, q[i]).value : i \in 1 .. n}
  OBVIOUS
<1> QED
  BY <1>7, <1>10, <1>11, <1>12

\* A type that occurs once.
LEMMA OneElement ==
  ASSUME NEW q, NEW type, NEW i \in DOMAIN q, DOMAIN q \subseteq Int,
         \A j \in DOMAIN q : q[j].type = type <=> j = i
  PROVE  /\ elementsOf(q, type) = {i}
         /\ Max(elementsOf(q, type)) = i
<1>1. elementsOf(q, type) = {i}
  BY DEF elementsOf
<1>2. Max({i}) = i
  BY DEF Max
<1> QED
  BY <1>1, <1>2

\* It gives the names in it ...
LEMMA OneList ==
  ASSUME NEW q, NEW type, NEW i \in DOMAIN q, DOMAIN q \subseteq Int,
         \A j \in DOMAIN q : q[j].type = type <=> j = i
  PROVE  inserted(q, type) = decodeNames(q[i].value)
<1>1. elementsOf(q, type) = {i}
  BY OneElement
<1> QED
  BY <1>1 DEF inserted

\* ... or the value of its field.
LEMMA OneValue ==
  ASSUME NEW q, NEW type, NEW start, NEW i \in DOMAIN q, DOMAIN q \subseteq Int,
         \A j \in DOMAIN q : q[j].type = type <=> j = i
  PROVE  assigned(q, type, start) = q[i].value
BY OneElement DEF assigned

\* No element of a type leaves its field as it was.
LEMMA NoElement ==
  ASSUME NEW q, NEW type, \A j \in DOMAIN q : q[j].type # type
  PROVE  inserted(q, type) = {}
BY DEF inserted, elementsOf

\* Pointers and payload of a record are decoded as they were encoded.
LEMMA RecordRoundTrip ==
  ASSUME NEW r, r = [name |-> r.name, type |-> r.type, pointers |-> r.pointers,
                     payload |-> r.payload], IsFiniteSet(r.pointers)
  PROVE  RecordOf(r.name, prepareContent(r)) = r /\ prepareContent(r).type = TLV_CONTENT
<1>1. PICK q : q = <<Block(TLV_RECORD_TYPE, r.type),
                     Block(TLV_RECORD_POINTER, encodeNames(r.pointers)),
                     Block(TLV_RECORD_PAYLOAD, r.payload)>>
  OBVIOUS
<1>2. prepareContent(r).value = q /\ prepareContent(r).type = TLV_CONTENT
  BY <1>1 DEF prepareContent, Block
<1>3. DOMAIN q = 1 .. 3
  BY <1>1
<1>4. /\ q[1].type = 211 /\ q[1].value = r.type
      /\ q[2].type = 212 /\ q[2].value = encodeNames(r.pointers)
      /\ q[3].type = 213 /\ q[3].value = r.payload
  BY <1>1 DEF Block, TLV_RECORD_TYPE, TLV_RECORD_POINTER, TLV_RECORD_PAYLOAD
<1>5. DOMAIN q \subseteq Int /\ \A j \in DOMAIN q : q[j].type \in {211, 212, 213}
  BY <1>3, <1>4
<1>6. ~ unrecognized(q, {211, 212, 213})
  BY <1>5 DEF unrecognized, ToSet
<1>7. assigned(q, 211, "") = r.type
  <2>1. 1 \in DOMAIN q /\ \A j \in DOMAIN q : q[j].type = 211 <=> j = 1
    BY <1>3, <1>4
  <2>2. \A start : assigned(q, 211, start) = q[1].value
    BY <1>5, <2>1, OneValue
  <2> QED
    BY <1>4, <2>2
<1>8. inserted(q, 212) = r.pointers
  <2>1. 2 \in DOMAIN q /\ \A j \in DOMAIN q : q[j].type = 212 <=> j = 2
    BY <1>3, <1>4
  <2>2. inserted(q, 212) = decodeNames(q[2].value)
    BY <1>5, <2>1, OneList
  <2> QED
    BY <1>4, <2>2, NamesRoundTrip
<1>9. assigned(q, 213, <<>>) = r.payload
  <2>1. 3 \in DOMAIN q /\ \A j \in DOMAIN q : q[j].type = 213 <=> j = 3
    BY <1>3, <1>4
  <2>2. \A start : assigned(q, 213, start) = q[3].value
    BY <1>5, <2>1, OneValue
  <2> QED
    BY <1>4, <2>2
<1>10. RecordOf(r.name, prepareContent(r)) =
         [name |-> r.name, type |-> r.type, pointers |-> r.pointers, payload |-> r.payload]
  BY <1>2, <1>6, <1>7, <1>8, <1>9
     DEF RecordOf, TLV_RECORD_TYPE, TLV_RECORD_POINTER, TLV_RECORD_PAYLOAD
<1> QED
  BY <1>2, <1>10

\* So is an edge state, with and without descendants: the name comes before the
\* record that is decoded with it.
LEMMA StateRoundTrip ==
  ASSUME NEW s, s = [stateName |-> s.stateName, record |-> s.record,
                     descendants |-> s.descendants, status |-> s.status,
                     interlocked |-> s.interlocked],
         NEW r, r = s.record, s.stateName = toStateName(r.name),
         r = [name |-> r.name, type |-> r.type, pointers |-> r.pointers,
              payload |-> r.payload],
         IsFiniteSet(r.pointers), IsFiniteSet(s.descendants)
  PROVE  decodeEdgeState(encodeEdgeState(s)) = s
<1>1. PICK q : q = encodeEdgeState(s).value
  OBVIOUS
<1>2. PICK last : last = IF s.descendants = {} THEN 4 ELSE 5
  OBVIOUS
<1>3. PICK e : e = stateElements(s)
  OBVIOUS
<1>4. /\ e.name.type = 7 /\ e.name.value = s.stateName
      /\ e.status.type = 312 /\ e.status.value = s.status
      /\ e.content = prepareContent(r)
      /\ e.descendants.type = 313 /\ e.descendants.value = encodeNames(s.descendants)
      /\ e.interlocked.type = 315 /\ e.interlocked.value = s.interlocked
  BY <1>3 DEF stateElements, Block, TLV_NAME, TLV_EDGE_STATE_STATUS,
     TLV_EDGE_STATE_DESCENDANTS, TLV_EDGE_STATE_INTERLOCK_T
<1>5. e.content.type = 21 /\ RecordOf(r.name, e.content) = r
  BY <1>4, RecordRoundTrip DEF TLV_CONTENT
<1>6. /\ encodeEdgeState(s).type = 311
      /\ q = IF s.descendants = {} THEN <<e.name, e.status, e.content, e.interlocked>>
             ELSE <<e.name, e.status, e.content, e.descendants, e.interlocked>>
  BY <1>1, <1>3 DEF encodeEdgeState, Block, TLV_EDGE_STATE_TYPE
<1>7. /\ DOMAIN q = 1 .. last /\ last \in {4, 5}
      /\ q[1] = e.name /\ q[2] = e.status /\ q[3] = e.content /\ q[last] = e.interlocked
      /\ last = 5 => q[4] = e.descendants
      /\ last = 5 <=> s.descendants # {}
  <2>1. CASE s.descendants = {}
    BY <1>2, <1>6, <2>1
  <2>2. CASE s.descendants # {}
    <3>1. last = 5 /\ q = <<e.name, e.status, e.content, e.descendants, e.interlocked>>
      BY <1>2, <1>6, <2>2
    <3>2. DOMAIN q = 1 .. 5
      BY <3>1
    <3>3. q[1] = e.name /\ q[2] = e.status /\ q[3] = e.content /\ q[4] = e.descendants
      BY <3>1
    <3>4. q[5] = e.interlocked
      BY <3>1
    <3> QED
      BY <2>2, <3>1, <3>2, <3>3, <3>4
  <2> QED
    BY <2>1, <2>2
<1>8. /\ 1 .. 4 \subseteq DOMAIN q /\ DOMAIN q \subseteq 1 .. 5 /\ last \in DOMAIN q
      /\ q[1].type = 7 /\ q[2].type = 312 /\ q[3].type = 21 /\ q[last].type = 315
      /\ last = 5 => q[4].type = 313
  BY <1>4, <1>5, <1>7
<1>9. DOMAIN q \subseteq Int /\ \A j \in DOMAIN q : q[j].type \in {7, 312, 21, 313, 315}
  BY <1>7, <1>8
<1>10. ~ unrecognized(q, {7, 312, 21, 313, 315})
  BY <1>9 DEF unrecognized, ToSet
<1>11. \A start : assigned(q, 7, start) = s.stateName
  <2>1. 1 \in DOMAIN q /\ \A j \in DOMAIN q : q[j].type = 7 <=> j = 1
    BY <1>7, <1>8
  <2>2. \A start : assigned(q, 7, start) = q[1].value
    BY <1>9, <2>1, OneValue
  <2> QED
    BY <1>4, <1>7, <2>2
<1>12. \A start : assigned(q, 312, start) = s.status
  <2>1. 2 \in DOMAIN q /\ \A j \in DOMAIN q : q[j].type = 312 <=> j = 2
    BY <1>7, <1>8
  <2>2. \A start : assigned(q, 312, start) = q[2].value
    BY <1>9, <2>1, OneValue
  <2> QED
    BY <1>4, <1>7, <2>2
<1>13. \A start : assigned(q, 315, start) = s.interlocked
  <2>1. \A j \in DOMAIN q : q[j].type = 315 <=> j = last
    BY <1>7, <1>8
  <2>2. \A start : assigned(q, 315, start) = q[last].value
    BY <1>8, <1>9, <2>1, OneValue
  <2> QED
    BY <1>4, <1>7, <2>2
<1>14. inserted(q, 313) = s.descendants
  <2>1. CASE last = 5
    <3>1. 4 \in DOMAIN q /\ \A j \in DOMAIN q : q[j].type = 313 <=> j = 4
      BY <1>7, <1>8, <2>1
    <3>2. inserted(q, 313) = decodeNames(q[4].value)
      BY <1>9, <3>1, OneList
    <3> QED
      BY <1>4, <1>7, <2>1, <3>2, NamesRoundTrip
  <2>2. CASE last = 4
    <3>1. \A j \in DOMAIN q : q[j].type # 313
      BY <1>7, <1>8, <2>2
    <3> QED
      BY <1>7, <2>2, <3>1, NoElement
  <2> QED
    BY <1>7, <2>1, <2>2
<1>15. elementsOf(q, 21) = {3} /\ Max(elementsOf(q, 21)) = 3
  <2>1. 3 \in DOMAIN q /\ \A j \in DOMAIN q : q[j].type = 21 <=> j = 3
    BY <1>7, <1>8
  <2> QED
    BY <1>9, <2>1, OneElement
<1>16. \A start : assigned(SubSeq(q, 1, 3), 7, start) = s.stateName
  <2>1. PICK p : p = SubSeq(q, 1, 3)
    OBVIOUS
  <2>2. p = [j \in 1 .. 3 |-> q[j]]
    BY <1>7, <2>1
  <2>3. DOMAIN p = 1 .. 3 /\ p[1] = q[1] /\ p[2] = q[2] /\ p[3] = q[3]
    BY <2>2
  <2>4. DOMAIN p \subseteq Int /\ 1 \in DOMAIN p /\ \A j \in DOMAIN p : p[j].type = 7 <=> j = 1
    BY <1>8, <2>3
  <2>5. \A start : assigned(p, 7, start) = p[1].value
    BY <2>4, OneValue
  <2> QED
    BY <1>4, <1>7, <2>1, <2>3, <2>5
<1>17. fromStateName(s.stateName) = r.name
  BY DEF fromStateName, toStateName
<1>18. RecordOf(fromStateName(assigned(SubSeq(q, 1, 3), 7, NoName)), q[3]) = r
  BY <1>5, <1>7, <1>16, <1>17
<1>19. r # Exception
  BY DEF Exception
<1>20. \A i \in elementsOf(q, 21) :
         RecordOf(fromStateName(assigned(SubSeq(q, 1, i), 7, NoName)), q[i]) # Exception
  BY <1>15, <1>18, <1>19
<1>21. PICK b : b = encodeEdgeState(s)
  OBVIOUS
<1>22. b.value = q /\ b.type = 311
  BY <1>1, <1>6, <1>21
<1>23. decodeEdgeState(b) =
         [stateName   |-> assigned(q, 7, NoName),
          record      |-> RecordOf(fromStateName(assigned(SubSeq(q, 1, 3), 7, NoName)), q[3]),
          descendants |-> inserted(q, 313),
          status      |-> assigned(q, 312, ""),
          interlocked |-> assigned(q, 315, FALSE)]
  <2>1. TLV_EDGE_STATE_TYPE = 311 /\ TLV_NAME = 7 /\ TLV_EDGE_STATE_STATUS = 312
        /\ TLV_CONTENT = 21 /\ TLV_EDGE_STATE_DESCENDANTS = 313
        /\ TLV_EDGE_STATE_INTERLOCK_T = 315
    BY DEF TLV_EDGE_STATE_TYPE, TLV_NAME, TLV_EDGE_STATE_STATUS, TLV_CONTENT,
           TLV_EDGE_STATE_DESCENDANTS, TLV_EDGE_STATE_INTERLOCK_T
  <2>2. ~ \/ b.type # TLV_EDGE_STATE_TYPE
          \/ unrecognized(b.value, {TLV_NAME, TLV_EDGE_STATE_STATUS, TLV_CONTENT,
                                    TLV_EDGE_STATE_DESCENDANTS, TLV_EDGE_STATE_INTERLOCK_T})
          \/ \E i \in elementsOf(b.value, TLV_CONTENT) :
               RecordOf(fromStateName(assigned(SubSeq(b.value, 1, i), TLV_NAME, NoName)),
                        b.value[i]) = Exception
    BY <1>10, <1>20, <1>22, <2>1
  <2>3. elementsOf(b.value, TLV_CONTENT) # {} /\ Max(elementsOf(b.value, TLV_CONTENT)) = 3
    BY <1>15, <1>22, <2>1
  <2>4. decodeEdgeState(b) =
          [stateName   |-> assigned(b.value, TLV_NAME, NoName),
           record      |-> RecordOf(fromStateName(assigned(
                             SubSeq(b.value, 1, Max(elementsOf(b.value, TLV_CONTENT))),
                             TLV_NAME, NoName)),
                             b.value[Max(elementsOf(b.value, TLV_CONTENT))]),
           descendants |-> inserted(b.value, TLV_EDGE_STATE_DESCENDANTS),
           status      |-> assigned(b.value, TLV_EDGE_STATE_STATUS, ""),
           interlocked |-> assigned(b.value, TLV_EDGE_STATE_INTERLOCK_T, FALSE)]
    BY <2>2, <2>3, Zenon DEF decodeEdgeState
  <2> QED
    BY <1>22, <2>1, <2>3, <2>4
<1>24. decodeEdgeState(b) =
         [stateName |-> s.stateName, record |-> s.record, descendants |-> s.descendants,
          status |-> s.status, interlocked |-> s.interlocked]
  BY <1>11, <1>12, <1>13, <1>14, <1>18, <1>23
<1> QED
  BY <1>21, <1>24

\* And the list of the edge states, empty or not.
LEMMA ListRoundTrip ==
  ASSUME NEW l, l = [listName |-> l.listName, key |-> l.key, value |-> l.value,
                     nextList |-> l.nextList], IsFiniteSet(l.value)
  PROVE  decodeEdgeStateList(encodeEdgeStateList(l)) = l
<1>1. PICK b : b = encodeEdgeStateList(l)
  OBVIOUS
<1>2. PICK q : q = b.value
  OBVIOUS
<1>3. PICK last : last = IF l.value = {} THEN 3 ELSE 4
  OBVIOUS
<1>4. PICK name, key, value, next :
        /\ name = Block(352, l.listName) /\ key = Block(353, l.key)
        /\ value = Block(354, encodeNames(l.value)) /\ next = Block(355, l.nextList)
  OBVIOUS
<1>5. /\ name.type = 352 /\ name.value = l.listName
      /\ key.type = 353 /\ key.value = l.key
      /\ value.type = 354 /\ value.value = encodeNames(l.value)
      /\ next.type = 355 /\ next.value = l.nextList
  BY <1>4 DEF Block
<1>6. /\ b.type = 351
      /\ q = IF l.value = {} THEN <<name, key, next>> ELSE <<name, key, value, next>>
  <2>1. b = Block(351, IF l.value = {} THEN <<name, key, next>> ELSE <<name, key, value, next>>)
    BY <1>1, <1>4
       DEF encodeEdgeStateList, TLV_EDGE_STATE_LIST_TYPE, TLV_EDGE_STATE_LIST_NAME,
           TLV_EDGE_STATE_LIST_KEY, TLV_EDGE_STATE_LIST_VALUE, TLV_EDGE_STATE_LIST_NEXT
  <2> QED
    BY <1>2, <2>1 DEF Block
<1>7. /\ DOMAIN q = 1 .. last /\ last \in {3, 4}
      /\ q[1] = name /\ q[2] = key /\ q[last] = next
      /\ last = 4 => q[3] = value
      /\ last = 4 <=> l.value # {}
  <2>1. CASE l.value = {}
    BY <1>3, <1>6, <2>1
  <2>2. CASE l.value # {}
    <3>1. last = 4 /\ q = <<name, key, value, next>>
      BY <1>3, <1>6, <2>2
    <3>2. DOMAIN q = 1 .. 4
      BY <3>1
    <3>3. q[1] = name /\ q[2] = key /\ q[3] = value /\ q[4] = next
      BY <3>1
    <3> QED
      BY <2>2, <3>1, <3>2, <3>3
  <2> QED
    BY <2>1, <2>2
<1>8. /\ 1 .. 3 \subseteq DOMAIN q /\ DOMAIN q \subseteq 1 .. 4 /\ last \in DOMAIN q
      /\ q[1].type = 352 /\ q[2].type = 353 /\ q[last].type = 355
      /\ last = 4 => q[3].type = 354
  BY <1>5, <1>7
<1>9. DOMAIN q \subseteq Int /\ \A j \in DOMAIN q : q[j].type \in {352, 353, 354, 355}
  BY <1>7, <1>8
<1>10. ~ unrecognized(q, {352, 353, 354, 355})
  BY <1>9 DEF unrecognized, ToSet
<1>11. \A start : assigned(q, 352, start) = l.listName
  <2>1. 1 \in DOMAIN q /\ \A j \in DOMAIN q : q[j].type = 352 <=> j = 1
    BY <1>7, <1>8
  <2>2. \A start : assigned(q, 352, start) = q[1].value
    BY <1>9, <2>1, OneValue
  <2> QED
    BY <1>5, <1>7, <2>2
<1>12. \A start : assigned(q, 353, start) = l.key
  <2>1. 2 \in DOMAIN q /\ \A j \in DOMAIN q : q[j].type = 353 <=> j = 2
    BY <1>7, <1>8
  <2>2. \A start : assigned(q, 353, start) = q[2].value
    BY <1>9, <2>1, OneValue
  <2> QED
    BY <1>5, <1>7, <2>2
<1>13. \A start : assigned(q, 355, start) = l.nextList
  <2>1. \A j \in DOMAIN q : q[j].type = 355 <=> j = last
    BY <1>7, <1>8
  <2>2. \A start : assigned(q, 355, start) = q[last].value
    BY <1>8, <1>9, <2>1, OneValue
  <2> QED
    BY <1>5, <1>7, <2>2
<1>14. inserted(q, 354) = l.value
  <2>1. CASE last = 4
    <3>1. 3 \in DOMAIN q /\ \A j \in DOMAIN q : q[j].type = 354 <=> j = 3
      BY <1>7, <1>8, <2>1
    <3>2. inserted(q, 354) = decodeNames(q[3].value)
      BY <1>9, <3>1, OneList
    <3> QED
      BY <1>5, <1>7, <2>1, <3>2, NamesRoundTrip
  <2>2. CASE last = 3
    <3>1. \A j \in DOMAIN q : q[j].type # 354
      BY <1>7, <1>8, <2>2
    <3> QED
      BY <1>7, <2>2, <3>1, NoElement
  <2> QED
    BY <1>7, <2>1, <2>2
<1>15. decodeEdgeStateList(b) =
         [listName |-> assigned(q, 352, NoName), key |-> assigned(q, 353, globalTracker),
          value |-> inserted(q, 354), nextList |-> assigned(q, 355, NoName)]
  <2>1. TLV_EDGE_STATE_LIST_TYPE = 351 /\ TLV_EDGE_STATE_LIST_NAME = 352
        /\ TLV_EDGE_STATE_LIST_KEY = 353 /\ TLV_EDGE_STATE_LIST_VALUE = 354
        /\ TLV_EDGE_STATE_LIST_NEXT = 355
    BY DEF TLV_EDGE_STATE_LIST_TYPE, TLV_EDGE_STATE_LIST_NAME, TLV_EDGE_STATE_LIST_KEY,
           TLV_EDGE_STATE_LIST_VALUE, TLV_EDGE_STATE_LIST_NEXT
  <2>2. ~ \/ b.type # TLV_EDGE_STATE_LIST_TYPE
          \/ unrecognized(b.value, {TLV_EDGE_STATE_LIST_NAME, TLV_EDGE_STATE_LIST_KEY,
                                    TLV_EDGE_STATE_LIST_VALUE, TLV_EDGE_STATE_LIST_NEXT})
    BY <1>2, <1>6, <1>10, <2>1
  <2>3. decodeEdgeStateList(b) =
          [listName |-> assigned(b.value, TLV_EDGE_STATE_LIST_NAME, NoName),
           key      |-> assigned(b.value, TLV_EDGE_STATE_LIST_KEY, globalTracker),
           value    |-> inserted(b.value, TLV_EDGE_STATE_LIST_VALUE),
           nextList |-> assigned(b.value, TLV_EDGE_STATE_LIST_NEXT, NoName)]
    BY <2>2, Zenon DEF decodeEdgeStateList
  <2> QED
    BY <1>2, <2>1, <2>3
<1>16. decodeEdgeStateList(b) = l
  BY <1>11, <1>12, <1>13, <1>14, <1>15
<1> QED
  BY <1>1, <1>16

\* Different records have different edge states, stored under other names than
\* the list.
LEMMA StateNames ==
  /\ \A m : fromStateName(toStateName(m)) = m
  /\ \A m, k : toStateName(m) = toStateName(k) => m = k
  /\ \A m : toStateName(m) # toStateListName(globalTracker)
<1>1. \A m : toStateName(m)[1] = "EdgeState" /\ toStateName(m)[2] = m
  BY DEF toStateName
<1>2. toStateListName(globalTracker)[1] = "EdgeStateList"
  BY DEF toStateListName
<1>3. \A m : fromStateName(toStateName(m)) = m
  BY <1>1 DEF fromStateName
<1>4. "EdgeState" # "EdgeStateList"
  OBVIOUS
<1>5. \A m : toStateName(m) # toStateListName(globalTracker)
  BY <1>1, <1>2, <1>4
<1>6. \A m, k : toStateName(m) = toStateName(k) => m = k
  BY <1>3
<1> QED
  BY <1>3, <1>5, <1>6

\* There are finitely many of them.
LEMMA StateNamesFinite ==
  ASSUME NEW S \in SUBSET Name
  PROVE  IsFiniteSet({toStateName(m) : m \in S})
<1>1. PICK T : T = {toStateName(m) : m \in S}
  OBVIOUS
<1>2. PICK f : f = [m \in S |-> toStateName(m)]
  OBVIOUS
<1>3. f \in Surjection(S, T)
  BY <1>1, <1>2 DEF Surjection
<1>4. IsFiniteSet(S)
  BY NameAssumption, FS_Subset
<1> QED
  BY <1>1, <1>3, <1>4, FS_Surjection

\* Every edge state of an arrived record is read back as it is.
LEMMA StateReadBack ==
  ASSUME LInv, NEW n \in Node, NEW m \in Name, ledger[n].dag.status[m] # INITIALIZED
  PROVE  fetchEdgeState(n, toStateName(m)) = {edgeState(n, m)}
<1>1. PICK s : s = edgeState(n, m)
  OBVIOUS
<1>2. PICK r : r = [name |-> m, type |-> rec[m].type, pointers |-> rec[m].pointers,
                    payload |-> rec[m].payload]
  OBVIOUS
<1>3. PICK D : D = {toStateName(k) : k \in ledger[n].dag.desc[m]}
  OBVIOUS
<1>4. s = [stateName |-> toStateName(m), record |-> r, descendants |-> D,
           status |-> ledger[n].dag.status[m], interlocked |-> m \in ledger[n].stamped]
  BY <1>1, <1>2, <1>3 DEF edgeState
<1>5. /\ s.stateName = toStateName(m) /\ s.record = r /\ s.descendants = D
      /\ r.name = m /\ r.pointers = rec[m].pointers
  BY <1>2, <1>4
<1>6. /\ s = [stateName |-> s.stateName, record |-> s.record, descendants |-> s.descendants,
              status |-> s.status, interlocked |-> s.interlocked]
      /\ r = [name |-> r.name, type |-> r.type, pointers |-> r.pointers,
              payload |-> r.payload]
  BY <1>2, <1>4
<1>7. IsFiniteSet(r.pointers)
  <2>1. rec[m] \in LedgerRecord
    BY DEF LInv, TypeOK
  <2>2. rec[m].pointers \in SUBSET Name
    BY <2>1 DEF LedgerRecord
  <2> QED
    BY <1>5, <2>2, NameAssumption, FS_Subset
<1>8. IsFiniteSet(s.descendants)
  <2>1. ledger[n].dag.desc[m] \in SUBSET Name
    <3>1. ledger[n] \in InstanceState
      BY DEF LInv, InstanceInv
    <3>2. ledger[n].dag \in DagState
      BY <3>1, InstanceFields
    <3> QED
      BY <3>2 DEF DagState
  <2> QED
    BY <1>3, <1>5, <2>1, StateNamesFinite
<1>9. decodeEdgeState(encodeEdgeState(s)) = s
  BY <1>5, <1>6, <1>7, <1>8, StateRoundTrip
<1>10. internalObject(n, toStateName(m)) = {encodeEdgeState(s)}
  <2>1. {toStateListName(globalTracker)} \cap {toStateName(m)} = {}
    BY StateNames
  <2>2. {k \in arrivedStates(ledger[n]) : toStateName(k) = toStateName(m)} = {m}
    BY StateNames DEF arrivedStates
  <2>3. internalObject(n, toStateName(m)) = {encodeEdgeState(edgeState(n, k)) : k \in {m}}
    BY <2>1, <2>2 DEF internalObject
  <2> QED
    BY <1>1, <2>3
<1> QED
  BY <1>1, <1>9, <1>10 DEF fetchEdgeState

\* The tool shows the edge states of the tracked records.
LEMMA TrackedShown ==
  ASSUME LInv, NEW n \in Node
  PROVE  fetchEdgeStateList(n) = {edgeState(n, m) : m \in ledger[n].tracker}
<1>1. PICK T : T = ledger[n].tracker
  OBVIOUS
<1>2. T \in SUBSET Name /\ \A m \in T : ledger[n].dag.status[m] # INITIALIZED
  BY <1>1 DEF LInv, InstanceInv, Tracked, ArrivedIn
<1>3. PICK name : name = toStateListName(globalTracker)
  OBVIOUS
<1>4. PICK l : l = statesTracker(n)
  OBVIOUS
<1>5. l.value = {toStateName(m) : m \in T}
  BY <1>1, <1>4 DEF statesTracker
<1>6. l = [listName |-> l.listName, key |-> l.key, value |-> l.value, nextList |-> l.nextList]
  BY <1>4 DEF statesTracker
<1>7. decodeEdgeStateList(encodeEdgeStateList(l)) = l
  <2>1. IsFiniteSet(l.value)
    BY <1>2, <1>5, StateNamesFinite
  <2> QED
    BY <1>6, <2>1, ListRoundTrip
<1>8. internalObject(n, name) = {encodeEdgeStateList(l)}
  <2>1. {k \in arrivedStates(ledger[n]) : toStateName(k) = name} = {}
    BY <1>3, StateNames
  <2>2. {toStateListName(globalTracker)} \cap {name} = {name}
    BY <1>3
  <2> QED
    BY <1>4, <2>1, <2>2 DEF internalObject
<1>9. fetchEdgeStateList(n) = UNION {fetchEdgeState(n, entry) : entry \in l.value}
  BY <1>3, <1>7, <1>8 DEF fetchEdgeStateList
<1>10. \A m \in T : fetchEdgeState(n, toStateName(m)) = {edgeState(n, m)}
  BY <1>2, StateReadBack
<1>11. fetchEdgeStateList(n) = UNION {fetchEdgeState(n, toStateName(m)) : m \in T}
  BY <1>5, <1>9
<1> QED
  BY <1>1, <1>10, <1>11

\* StatusTruthful: what the status tool reads through the list, the storage and the
\* encodings of the edge states (edge-state.cpp, edge-state-list.cpp, record.cpp) is
\* what the instance holds.
THEOREM StatusCorrect == Spec => []StatusTruthful
<1>1. LInv => StatusTruthful
  <2> SUFFICES ASSUME LInv, NEW n \in Node
               PROVE  /\ Cardinality(fetchEdgeStateList(n)) = Cardinality(ledger[n].tracker)
                      /\ \A s \in fetchEdgeStateList(n) :
                           s = edgeState(n, fromStateName(s.stateName))
                      /\ \A m \in arrivedStates(ledger[n]) :
                           OwnReply(n, m) \/ edgeState(n, m) \in fetchEdgeStateList(n)
    BY DEF StatusTruthful
  <2>1. PICK T : T = ledger[n].tracker
    OBVIOUS
  <2>2. PICK shown : shown = fetchEdgeStateList(n)
    OBVIOUS
  <2>3. shown = {edgeState(n, m) : m \in T}
    BY <2>1, <2>2, TrackedShown
  <2>4. \A m : edgeState(n, m).stateName = toStateName(m)
    BY DEF edgeState
  <2>5. \A m : fromStateName(edgeState(n, m).stateName) = m
    BY <2>4, StateNames
  <2>6. \A s \in shown : s = edgeState(n, fromStateName(s.stateName))
    BY <2>3, <2>5
  <2>7. \A m \in arrivedStates(ledger[n]) : OwnReply(n, m) \/ edgeState(n, m) \in shown
    <3>1. \A m \in arrivedStates(ledger[n]) : OwnReply(n, m) \/ m \in T
      BY <2>1 DEF LInv, InstanceInv, Tracked, arrivedStates, OwnReply
    <3> QED
      BY <2>3, <3>1
  <2>8. Cardinality(shown) = Cardinality(T)
    <3>1. PICK f : f = [m \in T |-> edgeState(n, m)]
      OBVIOUS
    <3>2. f \in Surjection(T, shown)
      BY <2>3, <3>1 DEF Surjection
    <3>3. \A m, k : edgeState(n, m) = edgeState(n, k) => m = k
      BY <2>5
    <3>4. f \in Injection(T, shown)
      <4>1. f \in [T -> shown]
        BY <2>3, <3>1
      <4>2. \A m, k \in T : f[m] = f[k] => m = k
        <5>1. \A m \in T : f[m] = edgeState(n, m)
          BY <3>1
        <5> QED
          BY <3>3, <5>1
      <4> QED
        BY <4>1, <4>2 DEF Injection, IsInjective
    <3>5. T \in SUBSET Name
      BY <2>1 DEF LInv, InstanceInv, Tracked, ArrivedIn
    <3>6. IsFiniteSet(T)
      BY <3>5, NameAssumption, FS_Subset
    <3> QED
      BY <3>2, <3>4, <3>6, FS_Surjection
  <2> QED
    BY <2>1, <2>2, <2>6, <2>7, <2>8
<1> QED
  BY <1>1, LedgerInvariance, PTL

==============================================================================
