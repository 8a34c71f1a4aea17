----------------------------- MODULE CertLedger -----------------------------
(***************************************************************************)
(* The first version of the ledger (class CertLedger, legacy/): peers that *)
(* make records citing precedingRecordNum earlier ones, hold them in a     *)
(* database and exchange them through SVS.                                 *)
(*                                                                         *)
(* Records are numbered in the order they are made, the genesis records    *)
(* first; the number stands for the full name.  SVS hands a record over at *)
(* most once in the life of a peer, in any order; a lost fetch, or a       *)
(* record the validator refuses, is one that is never handed over.  A      *)
(* restart keeps the database and loses everything else.                   *)
(***************************************************************************)
EXTENDS Naturals, Sequences, FiniteSets, Functions, FiniteSetsExt

CONSTANTS
  Peer,                \* Config::peerPrefix of each peer
  Event,               \* the names of the Data that are logged
  numGenesisBlock,     \* Config::numGenesisBlock
  precedingRecordNum,  \* Config::precedingRecordNum
  MaxRecords,          \* bound: records made
  MaxRestarts          \* bound: restarts

\* The constructor throws otherwise ("Bad config").
ASSUME CertLedgerAssumption ==
  /\ {numGenesisBlock, precedingRecordNum} \subseteq Nat
  /\ numGenesisBlock >= precedingRecordNum /\ precedingRecordNum > 1

ASSUME BoundsAssumption == {MaxRecords, MaxRestarts} \subseteq Nat

VARIABLES
  record,    \* record[i]: the record with full name i
  ledger,    \* ledger[p]: the memory and the database of peer p
  arrived,   \* history: arrived[p], the records p ever put into its database
  refused,   \* history: <<p, i>>, p found the pointers of record i bad
  restarts   \* history: the number of restarts

vars == <<record, ledger, arrived, refused, restarts>>

Genesis == 1 .. numGenesisBlock
FullName == 1 .. numGenesisBlock + MaxRecords

\* What follows RECORD or GENESIS_RECORD in the name of a record.
GenesisName == {"GENESIS_RECORD"} \X Genesis
ContentName == GenesisName \cup ({"RECORD"} \X Event)

\* makers: who made it (nobody made a genesis record); frontier: history, how
\* many tailing records its maker had to choose from.
Record == [makers : SUBSET Peer, contentName : ContentName,
           pointers : Seq(FullName), frontier : Nat]

GenesisRecord(i) == [makers |-> {}, contentName |-> <<"GENESIS_RECORD", i>>,
                     pointers |-> <<>>, frontier |-> 0]

\* added: history, the records added in this life.
Ledger == [backend : UNION {[S -> FullName] : S \in SUBSET ContentName},
           lastNames : [Genesis -> FullName], lastNameTops : Genesis,
           tailing : SUBSET FullName, noPrev : SUBSET FullName,
           waiting : SUBSET (FullName \X FullName), added : SUBSET FullName]

NoRecord == [c \in {} |-> 0]

\* The constructor, on the database it finds.
Start(backend) ==
  [backend      |-> [c \in GenesisName \cup DOMAIN backend |->
                       IF c \in GenesisName THEN c[2] ELSE backend[c]],
   lastNames    |-> [i \in Genesis |-> i],
   lastNameTops |-> 1,
   tailing      |-> Genesis,
   noPrev       |-> {},
   waiting      |-> {},
   added        |-> Genesis]

Init == /\ record = [i \in Genesis |-> GenesisRecord(i)]
        /\ ledger = [p \in Peer |-> Start(NoRecord)]
        /\ arrived = [p \in Peer |-> Genesis]
        /\ refused = {}
        /\ restarts = 0

------------------------------------------------------------------------------
(* The database: its keys are content names. *)

putRecord(l, i, r) ==
  [l EXCEPT !.backend = [c \in DOMAIN @ \cup {r.contentName} |->
                           IF c = r.contentName THEN i ELSE @[c]]]

\* A set of at most one full name.
getRecord(l, name) == {l.backend[c] : c \in DOMAIN l.backend \cap {name}}

------------------------------------------------------------------------------
(* The DAG, as functions of the state l of a peer. *)

\* Mutant: the ring is not closed.
addRecordToDAGOpenRing(l, i, r) ==
  [putRecord(l, i, r) EXCEPT
     !.lastNames    = [@ EXCEPT ![l.lastNameTops] = i],
     !.lastNameTops = @ + 1,
     !.tailing      = (@ \cup {i}) \ Range(r.pointers),
     !.added        = @ \cup {i}]

\* Mutant: the new record replaces the frontier.
addRecordToDAGOnlyTail(l, i, r) ==
  [putRecord(l, i, r) EXCEPT
     !.lastNames    = [@ EXCEPT ![l.lastNameTops] = i],
     !.lastNameTops = (@ % numGenesisBlock) + 1,
     !.tailing      = {i},
     !.added        = @ \cup {i}]

addRecordToDAG(l, i, r) ==
  [putRecord(l, i, r) EXCEPT
     !.lastNames    = [@ EXCEPT ![l.lastNameTops] = i],
     !.lastNameTops = (@ % numGenesisBlock) + 1,
     !.tailing      = (@ \cup {i}) \ Range(r.pointers),
     !.added        = @ \cup {i}]

\* The first loop of verifyPreviousRecord: the pointers of record i that are
\* missing or marked.  The backend is asked for full names and knows content
\* names only, so it finds none.
missing(l, i) ==
  LET pointers == record[i].pointers
  IN  {k \in DOMAIN pointers : \/ pointers[k] \in l.noPrev
                               \/ getRecord(l, <<"full", pointers[k]>>) = {}}

\* Record i waits for the first of them.
mark(l, i) ==
  [l EXCEPT !.waiting = @ \cup {<<record[i].pointers[Min(missing(l, i))], i>>},
            !.noPrev  = @ \cup {i}]

\* The rest of verifyPreviousRecord: release the records that wait for i, then
\* look at each again, at what the backend has under its content name.
release(l, i) ==
  LET look[k \in Ledger, j \in FullName] ==
        LET waiters  == {w \in k.waiting : w[1] = j}
            released == {w[2] : w \in waiters}
            again(x, m) ==
              LET y == m.backend[record[x].contentName]
              IN  IF missing(m, y) # {} THEN mark(m, y) ELSE look[m, y]
        IN  FoldSet(again, [k EXCEPT !.waiting = @ \ waiters,
                                     !.noPrev  = @ \ released], released)
  IN  look[l, i]

verifyPreviousRecord(l, i) == IF missing(l, i) # {} THEN mark(l, i) ELSE release(l, i)

\* The names of S, as far as pointers are still wanted, in any order.
shuffleAndAddPrev(pointers, S) ==
  LET k == Min({Cardinality(S), precedingRecordNum - Len(pointers)})
  IN  {pointers \o q : q \in {f \in [1 .. k -> S] : IsInjective(f)}}

\* Mutant: one pointer less.
createPointersOneLess(l) ==
  LET tailing == l.tailing \ l.noPrev
      k       == Min({Cardinality(tailing), precedingRecordNum - 1})
  IN  {f \in [1 .. k -> tailing] : IsInjective(f)}

\* Mutant: records without their history are cited too.
createPointersOrphans(l) ==
  LET last == Range(l.lastNames)
  IN  UNION {IF Len(q) < precedingRecordNum THEN shuffleAndAddPrev(q, last) ELSE {q} :
               q \in shuffleAndAddPrev(<<>>, l.tailing)}

\* What createRecord may cite: tailing records, then recent ones, but none that
\* waits for its history.  The second list may repeat names of the first.
createPointers(l) ==
  LET last == Range(l.lastNames) \ l.noPrev
  IN  UNION {IF Len(q) < precedingRecordNum THEN shuffleAndAddPrev(q, last) ELSE {q} :
               q \in shuffleAndAddPrev(<<>>, l.tailing \ l.noPrev)}

\* Record::checkPointerCount does not throw.
checkPointerCount(r) == /\ Len(r.pointers) = precedingRecordNum
                        /\ IsInjective(r.pointers)

------------------------------------------------------------------------------

\* createRecord; publishing is handing it over to SVS.
CreateRecord(p, e) ==
  /\ Len(record) < numGenesisBlock + MaxRecords
  /\ \E pointers \in createPointers(ledger[p]) :
       LET i == Len(record) + 1
           r == [makers |-> {p}, contentName |-> <<"RECORD", e>>, pointers |-> pointers,
                 frontier |-> Cardinality(ledger[p].tailing \ ledger[p].noPrev)]
       IN  /\ record' = Append(record, r)
           /\ ledger' = [ledger EXCEPT ![p] = addRecordToDAG(@, i, r)]
           /\ arrived' = [arrived EXCEPT ![p] = @ \cup {i}]
  /\ UNCHANGED <<refused, restarts>>

\* The callback of fetchData in onUpdate, for a record the validator accepts.
OnUpdate(p, i) ==
  /\ i \notin ledger[p].added
  /\ checkPointerCount(record[i])
  /\ ledger' = [ledger EXCEPT ![p] =
       verifyPreviousRecord(addRecordToDAG(@, i, record[i]), i)]
  /\ arrived' = [arrived EXCEPT ![p] = @ \cup {i}]
  /\ UNCHANGED <<record, refused, restarts>>

\* checkPointerCount throws: "bad record received".
RefuseUpdate(p, i) ==
  /\ i \notin ledger[p].added
  /\ ~ checkPointerCount(record[i])
  /\ refused' = refused \cup {<<p, i>>}
  /\ UNCHANGED <<record, ledger, arrived, restarts>>

Restart(p) ==
  /\ restarts < MaxRestarts
  /\ restarts' = restarts + 1
  /\ ledger' = [ledger EXCEPT ![p] = Start(@.backend)]
  /\ UNCHANGED <<record, arrived, refused>>

Next == \E p \in Peer : \/ \E e \in Event : CreateRecord(p, e)
                        \/ \E i \in DOMAIN record : OnUpdate(p, i) \/ RefuseUpdate(p, i)
                        \/ Restart(p)

Spec == Init /\ [][Next]_vars

------------------------------------------------------------------------------
(* Properties. *)

\* The variables keep their types.
TypeOK == /\ record \in Seq(Record)
          /\ ledger \in [Peer -> Ledger]
          /\ arrived \in [Peer -> SUBSET FullName]
          /\ refused \subseteq Peer \X FullName
          /\ restarts \in 0 .. MaxRestarts

\* The records that i cites, directly or through others: those in every set that
\* has the pointers of i and, of each record in it, the pointers.  They are all
\* older than i.
history(i) ==
  LET cited  == [k \in 1 .. i |-> Range(record[k].pointers)]
      closed == {S \in SUBSET (1 .. i - 1) : \A k \in S \cup {i} : cited[k] \subseteq S}
  IN  {j \in 1 .. i - 1 : \A S \in closed : j \in S}

\* A peer vouches only for what it has, whatever was lost, came out of order or
\* came after a restart: of the whole history of every record it made its database
\* still holds each record, or one that replaced it because it has the same
\* content name (it is of the same Data).
CitesHeldHistory ==
  \A i \in DOMAIN record : \A p \in record[i].makers : \A j \in history(i) :
    LET c == record[j].contentName
    IN  /\ j \in arrived[p]
        /\ \E k \in arrived[p] : record[k].contentName = c /\ getRecord(ledger[p], c) = {k}

\* The frontier loses nothing: a record in the DAG of a peer is a tailing record
\* or cited there by another.
FrontierComplete ==
  \A p \in Peer : \A i \in ledger[p].added :
    \/ i \in ledger[p].tailing
    \/ \E j \in ledger[p].added : i \in Range(record[j].pointers)

\* Other peers refuse a record only if its maker had fewer than
\* precedingRecordNum tailing records to cite, and filled up with recent ones.
RefusedForWantOfTails ==
  \A r \in refused : record[r[2]].frontier < precedingRecordNum

=============================================================================
