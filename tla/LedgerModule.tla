----------------------------- MODULE LedgerModule -----------------------------
(***************************************************************************)
(* A group of ledger instances (class LedgerModule, src/ledger-module.cpp) *)
(* that publish records to each other over SVS (class SyncModule).         *)
(*                                                                         *)
(* Every instance runs on one io_context, so each handler is one atomic    *)
(* action: a submission that passed validation, a record handed over by    *)
(* sync, the reply timer.  SVS is external: it delivers every publication  *)
(* to every other instance, in any order across and within publishers, and *)
(* may hand one over again; it never hands an instance its own records.    *)
(*                                                                         *)
(* The storage of an instance (class LedgerMemory) holds edge states, raw  *)
(* Data, payload maps and the states tracker under disjoint name spaces;   *)
(* each is a component of the instance's state.                            *)
(***************************************************************************)
EXTENDS DagEngine

CONSTANTS
  Node,        \* the ledger instances
  MaxSeq,      \* bound: publications per instance
  Data,        \* the Data packets clients submit
  NoData,      \* the payload of a reply record
  Submission,  \* which instance a client may submit which Data to
  Faults,      \* the instances where publishing a record may fail
  Threshold    \* the configured policy threshold

\* A record is named by its publisher's instance prefix and sequence number.
ASSUME NamesAssumption ==
  /\ MaxSeq \in Nat
  /\ Name = Node \X (1 .. MaxSeq)
  /\ Prefix = [n \in Name |-> n[1]]

ASSUME DataAssumption ==
  /\ NoData \notin Data
  /\ Submission \subseteq Node \X Data
  /\ Faults \subseteq Node

ASSUME ThresholdAssumption == Threshold \in Nat \ {0}

VARIABLES
  rec,      \* rec[m]: the content of the record published as m
  seqNo,    \* seqNo[n]: SyncModule::m_seqNo, n's publications so far
  ledger,   \* ledger[n]: the state of instance n
  returned  \* history: <<n, d, status>>, what onDataSubmission returned for d

vars == <<rec, seqNo, ledger, returned>>

\* The AppendStatus values of onDataSubmission for Data the validator accepts;
\* for other Data it returns FAILURE_VALIDATION_APP and does nothing.
SUCCESS         == "SUCCESS"
FAILURE_STORAGE == "FAILURE_STORAGE"

LedgerRecord == [type : RecordType, pointers : SUBSET Name,
                 payload : Data \cup {NoData}]

NoRecord == [type |-> GENERIC_RECORD, pointers |-> {}, payload |-> NoData]

\* What an instance keeps:
\*   dag      its DagModule
\*   stored   the raw Data in its storage
\*   maps     its payload maps, pairs <<Data, name of the edge state>>
\*   tracker  the global EdgeStateList
\*   stamped  the edge states whose interlock time was set
\*   replied  m_repliedRecords
\*   timer    m_replyEvent is scheduled
InstanceState == [dag     : DagState,
                  stored  : SUBSET Data,
                  maps    : SUBSET (Data \X Name),
                  tracker : SUBSET Name,
                  stamped : SUBSET Name,
                  replied : SUBSET Name,
                  timer   : BOOLEAN]

\* The state the constructor leaves over an empty storage.
NewInstance == [dag     |-> EmptyDag,
                stored  |-> {},
                maps    |-> {},
                tracker |-> {},
                stamped |-> {},
                replied |-> {},
                timer   |-> FALSE]

Published == {m \in Name : m[2] <= seqNo[m[1]]}

Init == /\ rec    = [m \in Name |-> NoRecord]
        /\ seqNo  = [n \in Node |-> 0]
        /\ ledger = [n \in Node |-> NewInstance]
        /\ returned = {}

------------------------------------------------------------------------------
(* Parts of the handlers, on the state s of one instance. *)

\* SyncModule::getNextName.
getNextName(n) == <<n, seqNo[n] + 1>>

\* Mutant: the tracker is read and never written back.
updateStatesTrackerNoSave(s, m) == s

\* updateStatesTracker(m, false), m in the tracker or not.
updateStatesTracker(s, m) == [s EXCEPT !.tracker = @ \cup {m}]

\* Mutant: harvested records stay in m_repliedRecords.
dagHarvestKeepsReplied(s) ==
  LET out == ripe(s.dag, Threshold)
  IN  [s EXCEPT !.dag     = harvestAbove(@, Threshold),
                !.tracker = @ \cup out,
                !.stamped = @ \cup (out \cap s.tracker)]

\* Mutant: records are interlocked one citation too early.
dagHarvestEarly(s) ==
  LET out == ripe(s.dag, Threshold - 1)
  IN  [s EXCEPT !.dag     = harvestAbove(@, Threshold - 1),
                !.replied = @ \ out,
                !.tracker = @ \cup out,
                !.stamped = @ \cup (out \cap s.tracker)]

\* dagHarvest: interlock what is ripe and forget that it was replied to;
\* updateStatesTracker(m, true) puts a name the tracker lacks into it, and
\* stamps only an edge state that was already tracked.
dagHarvest(s) ==
  LET out == ripe(s.dag, Threshold)
  IN  [s EXCEPT !.dag     = harvestAbove(@, Threshold),
                !.replied = @ \ out,
                !.tracker = @ \cup out,
                !.stamped = @ \cup (out \cap s.tracker)]

\* Storing the raw Data of a record and mapping its payload to the record.
storeData(s, d, m) == [s EXCEPT !.stored = @ \cup {d},
                                !.maps   = @ \cup {<<d, m>>}]

\* Mutant: only records that are not replies are taken as tips.
submissionRecordNoReplyTips(n, d) ==
  LET tips == {m \in getWaitList(ledger[n].dag, 0) : rec[m].type # REPLY_RECORD}
  IN  IF tips = {}
      THEN [type |-> GENESIS_RECORD, pointers |-> {getNextName(n)},
            payload |-> d]
      ELSE [type |-> GENERIC_RECORD, pointers |-> tips, payload |-> d]

\* Mutant: a generic record cites itself as a genesis record does.
submissionRecordSelfCiting(n, d) ==
  LET tips == getWaitList(ledger[n].dag, 0)
  IN  [type |-> IF tips = {} THEN GENESIS_RECORD ELSE GENERIC_RECORD,
       pointers |-> tips \cup {getNextName(n)}, payload |-> d]

\* The record afterValidation makes of d: it cites every tip, or itself when
\* there is none.
submissionRecord(n, d) ==
  LET tips == getWaitList(ledger[n].dag, 0)
  IN  IF tips = {}
      THEN [type |-> GENESIS_RECORD, pointers |-> {getNextName(n)},
            payload |-> d]
      ELSE [type |-> GENERIC_RECORD, pointers |-> tips, payload |-> d]

\* SyncModule::publishRecord.
publishRecord(n, content) ==
  /\ seqNo[n] < MaxSeq
  /\ rec' = [rec EXCEPT ![getNextName(n)] = content]
  /\ seqNo' = [seqNo EXCEPT ![n] = @ + 1]

------------------------------------------------------------------------------
(* The handlers. *)

\* onDataSubmission with Data that the validator accepts: afterValidation.
OnDataSubmission(n, d) ==
  /\ <<n, d>> \in Submission
  /\ d \notin ledger[n].stored
  /\ LET name == getNextName(n)
         added == [ledger[n] EXCEPT !.dag = add(rec', @, name)]
     IN  /\ publishRecord(n, submissionRecord(n, d))
         /\ ledger' = [ledger EXCEPT ![n] =
              dagHarvest(updateStatesTracker(storeData(added, d, name), name))]
  /\ returned' = returned \cup {<<n, d, SUCCESS>>}

\* Data already stored: afterValidation returns before a record is made of it.
DuplicateSubmission(n, d) ==
  /\ <<n, d>> \in Submission
  /\ d \in ledger[n].stored
  /\ returned' = returned \cup {<<n, d, SUCCESS>>}
  /\ UNCHANGED <<rec, seqNo, ledger>>

\* The raw Data is stored and publishRecord throws: onDataSubmission catches
\* the exception, and the raw Data stays.
PublicationFails(n, d) ==
  /\ n \in Faults
  /\ <<n, d>> \in Submission
  /\ d \notin ledger[n].stored
  /\ ledger' = [ledger EXCEPT ![n].stored = @ \cup {d}]
  /\ returned' = returned \cup {<<n, d, FAILURE_STORAGE>>}
  /\ UNCHANGED <<rec, seqNo>>

\* Mutant: the Data of a reply record is stored too, though it has none.
OnRecordStoresReply(n, m) ==
  /\ m \in Published /\ m[1] # n
  /\ LET d     == rec[m].payload
         dag   == add(rec, ledger[n].dag, m)
         added == updateStatesTracker([ledger[n] EXCEPT !.timer = TRUE,
                                                        !.dag = dag], m)
     IN  ledger' = [ledger EXCEPT ![n] =
           IF d \in added.stored THEN added ELSE dagHarvest(storeData(added, d, m))]
  /\ UNCHANGED <<rec, seqNo, returned>>

\* Mutant: Data that is already stored is mapped once more.
OnRecordMapsAgain(n, m) ==
  /\ m \in Published /\ m[1] # n
  /\ LET d     == rec[m].payload
         dag   == add(rec, ledger[n].dag, m)
         added == updateStatesTracker([ledger[n] EXCEPT !.timer = TRUE,
                                                        !.dag = dag], m)
     IN  ledger' = [ledger EXCEPT ![n] =
           IF rec[m].type = REPLY_RECORD THEN dagHarvest(added)
           ELSE dagHarvest(storeData(added, d, m))]
  /\ UNCHANGED <<rec, seqNo, returned>>

\* Mutant: the reply timer is not started.
OnRecordNoTimer(n, m) ==
  /\ m \in Published /\ m[1] # n
  /\ LET d     == rec[m].payload
         dag   == add(rec, ledger[n].dag, m)
         added == updateStatesTracker([ledger[n] EXCEPT !.dag = dag], m)
     IN  ledger' = [ledger EXCEPT ![n] =
           IF rec[m].type = REPLY_RECORD THEN dagHarvest(added)
           ELSE IF d \in added.stored THEN added
           ELSE dagHarvest(storeData(added, d, m))]
  /\ UNCHANGED <<rec, seqNo, returned>>

\* The yield callback of SyncModule: the timer is started again whatever the
\* record is; a record whose Data is already stored ends the callback before
\* its payload is mapped and before dagHarvest.
OnRecord(n, m) ==
  /\ m \in Published /\ m[1] # n
  /\ LET d     == rec[m].payload
         dag   == add(rec, ledger[n].dag, m)
         added == updateStatesTracker([ledger[n] EXCEPT !.timer = TRUE,
                                                        !.dag = dag], m)
     IN  ledger' = [ledger EXCEPT ![n] =
           IF rec[m].type = REPLY_RECORD THEN dagHarvest(added)
           ELSE IF d \in added.stored THEN added
           ELSE dagHarvest(storeData(added, d, m))]
  /\ UNCHANGED <<rec, seqNo, returned>>

\* What publishReply cites: waiting records that are neither replies nor
\* replied to before.
replyPointers(n) ==
  {m \in harvestBelow(ledger[n].dag, Threshold) \ ledger[n].replied :
     rec[m].type # REPLY_RECORD}

\* The reply timer fires: publishReply finds nothing to cite ...
NothingToReply(n) ==
  /\ ledger[n].timer
  /\ replyPointers(n) = {}
  /\ ledger' = [ledger EXCEPT ![n].timer = FALSE]
  /\ UNCHANGED <<rec, seqNo, returned>>

\* Mutant: the records replied to are not remembered.
PublishReplyForgets(n) ==
  /\ ledger[n].timer
  /\ replyPointers(n) # {}
  /\ publishRecord(n, [type |-> REPLY_RECORD, pointers |-> replyPointers(n),
                       payload |-> NoData])
  /\ ledger' = [ledger EXCEPT ![n] =
       dagHarvest([@ EXCEPT !.timer = FALSE,
                            !.dag   = add(rec', @, getNextName(n))])]
  /\ UNCHANGED returned

\* ... or publishes one reply record and adds it to its own DAG.
PublishReply(n) ==
  /\ ledger[n].timer
  /\ replyPointers(n) # {}
  /\ LET added == [ledger[n] EXCEPT !.timer   = FALSE,
                                    !.replied = @ \cup replyPointers(n),
                                    !.dag     = add(rec', @, getNextName(n))]
     IN  /\ publishRecord(n, [type |-> REPLY_RECORD, payload |-> NoData,
                              pointers |-> replyPointers(n)])
         /\ ledger' = [ledger EXCEPT ![n] = dagHarvest(added)]
  /\ UNCHANGED returned

\* publishRecord throws: m_repliedRecords has the records already, and no reply
\* cites them.  The exception leaves the event loop, which ends the ledger tool;
\* here the instance goes on, as under a caller that catches it.
PublishReplyFails(n) ==
  /\ n \in Faults
  /\ ledger[n].timer
  /\ replyPointers(n) # {}
  /\ ledger' = [ledger EXCEPT ![n].timer   = FALSE,
                              ![n].replied = @ \cup replyPointers(n)]
  /\ UNCHANGED <<rec, seqNo, returned>>

Next == \E n \in Node : \/ \E d \in Data : \/ OnDataSubmission(n, d)
                                           \/ DuplicateSubmission(n, d)
                                           \/ PublicationFails(n, d)
                        \/ \E m \in Name : OnRecord(n, m)
                        \/ NothingToReply(n)
                        \/ PublishReply(n)
                        \/ PublishReplyFails(n)

Spec == Init /\ [][Next]_vars

\* SVS delivers every record to every other instance at least once, and a
\* scheduled timer fires.  Nothing forces a client to submit.
Fairness ==
  /\ \A n \in Node, m \in Name :
       WF_vars(ledger[n].dag.status[m] = INITIALIZED /\ OnRecord(n, m))
  /\ \A n \in Node : WF_vars(NothingToReply(n) \/ PublishReply(n))

FairSpec == Spec /\ Fairness

------------------------------------------------------------------------------
(* Queries.  onQuery changes nothing; what it answers is a function of the  *)
(* instance's state.                                                        *)

\* Mutant: every descendant is selected, whoever published it.
selectAny(D) == D

\* InterlockPolicy::select.  Under the witness policy the first descendant of
\* every publisher in the order of names, which is the one with the smallest
\* sequence number.
select(D) ==
  IF PolicyType = "policy-descendants" THEN D
  ELSE {m \in D : \A k \in D : k[1] = m[1] => m[2] <= k[2]}

\* The records whose edge states hold a record: the arrived ones.  (The storage
\* also has edge states of records that are cited and have not come; nobody asks
\* for one.)
arrivedStates(s) == {m \in Name : s.dag.status[m] # INITIALIZED}

Nack == [behind |-> {}]

\* The records a record query for d asks the storage for: the record of d, found
\* through the raw Data, its payload map and its edge state, and Threshold
\* selected descendants if there are so many (which ones depends on how the
\* publishers are named).  Empty if the way there is broken.
collected(n, d) ==
  LET s        == ledger[n]
      mapTo    == {m \in arrivedStates(s) : d \in s.stored /\ <<d, m>> \in s.maps}
      count(D) == IF Cardinality(D) < Threshold THEN Cardinality(D) ELSE Threshold
      first(D) == {S \in SUBSET D : Cardinality(S) = count(D)}
  IN  UNION {{[record |-> m, behind |-> S] : S \in first(select(s.dag.desc[m]))} :
               m \in mapTo}

\* The answers to the query.  The packet of a record is looked up under the name
\* of the record (publisher and sequence number), while LedgerSVSDataStore keeps
\* it under the name SVS gave the packet.  SVS is external, so it stays open
\* which packets are found; one that is not found makes the answer a Nack.  (Under
\* the names of tests/svs-core-fixture.cpp, none is ever found.)
onQuery(n, d) == {Nack} \cup collected(n, d)

------------------------------------------------------------------------------
(* Properties. *)

\* The variables keep their types.
TypeOK == /\ rec \in [Name -> LedgerRecord]
          /\ seqNo \in [Node -> 0 .. MaxSeq]
          /\ ledger \in [Node -> InstanceState]
          /\ returned \subseteq Node \X Data \X {SUCCESS, FAILURE_STORAGE}

\* afterValidation guesses the name of a genesis record because "a gensis
\* record must be its first SVS publication": a record is a genesis record
\* only if it is its publisher's first publication, and then it cites itself.
GenesisIsFirst ==
  \A m \in Published : isGenesis(rec[m]) => m[2] = 1 /\ rec[m].pointers = {m}

\* Published records form the citation graphs DagModule works on: a record
\* cites published records only, no record but a genesis record cites itself,
\* and there is no cycle (a cycle is made of cited records).
HistoryWellFormed ==
  /\ \A m \in Published :
       /\ rec[m].pointers # {} /\ rec[m].pointers \subseteq Published
       /\ m \in rec[m].pointers <=> isGenesis(rec[m])
  /\ \A S \in SUBSET Cited(rec) :
       S # {} => \E m \in S : \A k \in S : m \in rec[k].pointers => k = m

\* m_repliedRecords does not keep growing: it holds only records that still
\* wait, never an interlocked one.
RepliedStillWaiting ==
  \A n \in Node : \A m \in ledger[n].replied :
    ledger[n].dag.status[m] = LOADED /\ rec[m].type # REPLY_RECORD

\* "I haven't directly replied before": no instance cites a record in two of
\* its replies, although it forgets replied records when they interlock.
RepliesOnce ==
  \A a, b \in Published :
    /\ a[1] = b[1] /\ a # b
    /\ rec[a].type = REPLY_RECORD /\ rec[b].type = REPLY_RECORD
    => rec[a].pointers \cap rec[b].pointers = {}

\* Whatever Data is stored raw can be looked up, unless its publication failed:
\* it is mapped to exactly one record, that record carries it and has arrived.
StoredDataMapped ==
  \A n \in Node :
    /\ \A d \in ledger[n].stored :
         <<n, d, FAILURE_STORAGE>> \in returned \/
         Cardinality({e \in ledger[n].maps : e[1] = d}) = 1
    /\ \A e \in ledger[n].maps :
         /\ e[1] \in ledger[n].stored
         /\ rec[e[2]].payload = e[1]
         /\ ledger[n].dag.status[e[2]] # INITIALIZED

\* The reply records of n itself.
OwnReply(n, m) == m[1] = n /\ rec[m].type = REPLY_RECORD

\* The states tracker knows every arrived record but the instance's own
\* replies, which publishReply never adds; every interlocked one of those it
\* knew has its interlock time.
TrackerComplete ==
  \A n \in Node, m \in Name :
    /\ ledger[n].dag.status[m] # INITIALIZED /\ ~ OwnReply(n, m) =>
         m \in ledger[n].tracker
    /\ ledger[n].dag.status[m] = INTERLOCKED /\ ~ OwnReply(n, m) =>
         m \in ledger[n].stamped

\* Each instance keeps the abstract log of InterlockLog.
Log(n) == INSTANCE InterlockLog WITH
            Level  <- evaluate,
            cites  <- [m \in Name |-> rec[m].pointers],
            known  <- {m \in Name : ledger[n].dag.status[m] # INITIALIZED},
            locked <- {m \in Name : ledger[n].dag.status[m] = INTERLOCKED}

\* Composed with each other, with sync, submissions and timers, the instances
\* still implement their logs: no instance locks what the records it has do
\* not back, though each makes up its records from its own waitlist.  (This is
\* \A n \in Node : Log(n)!Spec, in the form TLC takes.)
ImplementsLog ==
  /\ \A n \in Node : Log(n)!Init
  /\ [][\A n \in Node : [Log(n)!Step]_(Log(n)!vars)]_vars

\* A client can rely on an answer to a query that is no Nack: it carries the
\* record of the Data asked for, the other records in it really stand behind that
\* record, and if the instance has interlocked it the answer alone shows that the
\* policy is met.  For mapped Data the way to the record is never broken: only a
\* record packet that SVS keeps under another name can turn the answer into a Nack.
QueryTruthful ==
  \A n \in Node, d \in Data :
    /\ (\E e \in ledger[n].maps : e[1] = d) => collected(n, d) # {}
    /\ \A a \in onQuery(n, d) \ {Nack} :
         /\ rec[a.record].payload = d
         /\ \A k \in a.behind : ~ isGenesis(rec[k]) /\ a.record \in Log(n)!CitedFrom(k)
         /\ ledger[n].dag.status[a.record] = INTERLOCKED =>
              evaluate(a.behind) >= Threshold

\* The submission tool reports every status but SUCCESS as "Ledger cannot log
\* the submitted record": SUCCESS is returned only for Data the instance has a
\* record of.
SuccessMeansRecorded ==
  \A n \in Node, d \in Data :
    <<n, d, SUCCESS>> \in returned =>
      \E m \in arrivedStates(ledger[n]) : rec[m].payload = d

\* dagHarvest's comment: it harvests "record that collects enough citations",
\* which "ensures the waitlist be relatively small".  A record that an instance
\* has seen cited often enough is in the end interlocked there.
RipeIsHarvested ==
  \A n \in Node, m \in Name :
    m \in ripe(ledger[n].dag, Threshold) ~> ledger[n].dag.status[m] = INTERLOCKED

\* Every record made of a submission is in the end interlocked by every
\* instance.
EventuallyInterlocked ==
  \A m \in Name, n \in Node :
    m \in Published /\ rec[m].type # REPLY_RECORD
      ~> ledger[n].dag.status[m] = INTERLOCKED

==============================================================================
