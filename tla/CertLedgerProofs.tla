-------------------------- MODULE CertLedgerProofs --------------------------
(***************************************************************************)
(* The invariants of CertLedger, for any number of peers, events, records  *)
(* and restarts.                                                           *)
(***************************************************************************)
EXTENDS CertLedger, FiniteSetTheorems, TLAPS

\* The records p may cite: the genesis records and its own.
Vouched(p) == Genesis \cup {i \in DOMAIN record : p \in record[i].makers}

\* The genesis records come first; every other record has a maker, which had
\* put it into its database, and cites older ones that its maker vouches for.  One
\* made from a wide enough frontier passes checkPointerCount.
RecordsInv ==
  /\ Len(record) \in numGenesisBlock .. numGenesisBlock + MaxRecords
  /\ \A i \in Genesis : record[i] = GenesisRecord(i)
  /\ \A i \in DOMAIN record : \A p \in record[i].makers :
       /\ i \in arrived[p]
       /\ Range(record[i].pointers) \subseteq Vouched(p) \cap (1 .. i - 1)
  /\ \A i \in DOMAIN record \ Genesis :
       record[i].frontier >= precedingRecordNum => checkPointerCount(record[i])

\* What a peer may cite is in its DAG and in its database, and what it has from
\* others it has marked.
PeerInv(p) ==
  /\ Genesis \subseteq ledger[p].added /\ ledger[p].added \subseteq arrived[p]
  /\ arrived[p] \subseteq DOMAIN record
  /\ ledger[p].tailing \cup Range(ledger[p].lastNames) \subseteq ledger[p].added
  /\ ledger[p].added \subseteq ledger[p].noPrev \cup Vouched(p)

\* The database b has, for every record of A, a record of A under its content name
\* that really has this name.  R: the records by their full names.
Holds(b, A, R) ==
  \A i \in A : LET c == R[i].contentName
               IN  c \in DOMAIN b /\ b[c] \in A /\ R[b[c]].contentName = c

\* No peer loses a name it ever put: putRecord overwrites an entry only by a
\* record of the same content name, and a restart keeps the database.
DatabaseInv == \A p \in Peer : Holds(ledger[p].backend, arrived[p], record)

RefusedInv == \A r \in refused : r[2] \in DOMAIN record \ Genesis

CInv == /\ TypeOK
        /\ RecordsInv
        /\ \A p \in Peer : PeerInv(p)
        /\ DatabaseInv
        /\ FrontierComplete
        /\ RefusedInv /\ RefusedForWantOfTails

------------------------------------------------------------------------------
(* The operations of the DAG. *)

LEMMA Constants ==
  /\ numGenesisBlock \in Nat /\ precedingRecordNum \in Nat
  /\ numGenesisBlock >= precedingRecordNum /\ precedingRecordNum > 1
  /\ MaxRecords \in Nat /\ MaxRestarts \in Nat
  /\ Genesis \subseteq FullName /\ FullName \subseteq Nat
BY CertLedgerAssumption, BoundsAssumption DEF Genesis, FullName

\* A database is a function from some content names to full names.
Backend == UNION {[S -> FullName] : S \in SUBSET ContentName}

LEMMA BackendType ==
  ASSUME NEW b, NEW S \in SUBSET ContentName, b \in [S -> FullName]
  PROVE  b \in Backend
BY DEF Backend

\* putRecord changes one entry of the database.
PutInto(b, c, i) == [d \in DOMAIN b \cup {c} |-> IF d = c THEN i ELSE b[d]]

LEMMA PutType ==
  ASSUME NEW b \in Backend, NEW c \in ContentName, NEW i \in FullName
  PROVE  PutInto(b, c, i) \in Backend
<1>1. PICK S \in SUBSET ContentName : b \in [S -> FullName]
  BY DEF Backend
<1>2. PutInto(b, c, i) \in [S \cup {c} -> FullName]
  BY <1>1 DEF PutInto
<1> QED
  BY <1>2, BackendType

\* A new entry replaces at most one of the same content name.
LEMMA PutHolds ==
  ASSUME NEW b, NEW A, NEW R, NEW i, NEW c, Holds(b, A, R), R[i].contentName = c
  PROVE  Holds(PutInto(b, c, i), A \cup {i}, R)
BY DEF Holds, PutInto

\* Only the records of A matter.
LEMMA HoldsSame ==
  ASSUME NEW b, NEW A, NEW R, NEW R2, Holds(b, A, R), \A i \in A : R2[i] = R[i]
  PROVE  Holds(b, A, R2)
BY DEF Holds

\* The constructor puts the genesis records again.
LEMMA StartHolds ==
  ASSUME NEW b, NEW A, NEW R, Holds(b, A, R), Genesis \subseteq A,
         \A i \in Genesis : R[i] = GenesisRecord(i)
  PROVE  Holds(Start(b).backend, A, R)
<1>1. PICK g : g = Start(b).backend
  OBVIOUS
<1>2. /\ DOMAIN g = GenesisName \cup DOMAIN b
      /\ \A c \in GenesisName : g[c] = c[2]
      /\ \A c \in DOMAIN b \ GenesisName : g[c] = b[c]
  BY <1>1 DEF Start
<1>3. ASSUME NEW i \in A
      PROVE  /\ R[i].contentName \in DOMAIN g /\ g[R[i].contentName] \in A
             /\ R[g[R[i].contentName]].contentName = R[i].contentName
  <2>1. CASE R[i].contentName \in GenesisName
    <3>1. PICK k \in Genesis : R[i].contentName = <<"GENESIS_RECORD", k>>
      BY <2>1 DEF GenesisName
    <3>2. g[R[i].contentName] = k
      BY <1>2, <2>1, <3>1
    <3>3. R[k].contentName = <<"GENESIS_RECORD", k>>
      <4>1. R[k] = GenesisRecord(k)
        OBVIOUS
      <4> QED
        BY <4>1 DEF GenesisRecord
    <3> QED
      BY <1>2, <2>1, <3>1, <3>2, <3>3
  <2>2. CASE R[i].contentName \notin GenesisName
    BY <1>2, <2>2 DEF Holds
  <2> QED
    BY <2>1, <2>2
<1> QED
  BY <1>1, <1>3 DEF Holds

LEMMA StartType ==
  ASSUME NEW b \in Backend
  PROVE  /\ Start(b) \in Ledger
         /\ Start(b).lastNames = [i \in Genesis |-> i]
         /\ Start(b).tailing = Genesis /\ Start(b).added = Genesis
         /\ Start(b).noPrev = {}
<1>1. PICK S \in SUBSET ContentName : b \in [S -> FullName]
  BY DEF Backend
<1>2. GenesisName \in SUBSET ContentName
  BY DEF ContentName
<1>3. \A c \in GenesisName : c[2] \in FullName
  BY Constants DEF GenesisName
<1>4. Start(b).backend \in [GenesisName \cup S -> FullName]
  BY <1>1, <1>3 DEF Start
<1>5. Start(b).backend \in Backend
  BY <1>2, <1>4, BackendType
<1>6. 1 \in Genesis
  BY Constants DEF Genesis
<1> QED
  BY <1>5, <1>6, Constants DEF Start, Ledger, Backend

LEMMA NoRecordType == NoRecord \in Backend
<1>1. {} \in SUBSET ContentName /\ NoRecord \in [{} -> FullName]
  BY DEF NoRecord
<1> QED
  BY <1>1, BackendType

\* A peer's state, by its fields.
Shape(l) == [backend : {l.backend}, lastNames : {l.lastNames},
             lastNameTops : {l.lastNameTops}, tailing : {l.tailing},
             noPrev : {l.noPrev}, waiting : {l.waiting}, added : {l.added}]

\* What addRecordToDAG changes, and that it keeps the ring of last names closed.
LEMMA AddEffect ==
  ASSUME NEW l \in Ledger, NEW i \in FullName, NEW r \in Record
  PROVE  /\ addRecordToDAG(l, i, r) \in Ledger
         /\ addRecordToDAG(l, i, r).added = l.added \cup {i}
         /\ addRecordToDAG(l, i, r).tailing = (l.tailing \cup {i}) \ Range(r.pointers)
         /\ Range(addRecordToDAG(l, i, r).lastNames) \subseteq Range(l.lastNames) \cup {i}
         /\ addRecordToDAG(l, i, r).noPrev = l.noPrev
         /\ addRecordToDAG(l, i, r).waiting = l.waiting
         /\ addRecordToDAG(l, i, r).backend = PutInto(l.backend, r.contentName, i)
<1> DEFINE a == addRecordToDAG(l, i, r)
<1>1. putRecord(l, i, r) = [l EXCEPT !.backend = PutInto(l.backend, r.contentName, i)]
  BY DEF putRecord, PutInto, Ledger
<1>2. PICK b : b = PutInto(l.backend, r.contentName, i)
  OBVIOUS
<1>3. b \in Backend
  BY <1>2, PutType DEF Ledger, Record, Backend
<1>4. l \in Shape(l)
  BY DEF Ledger, Shape
<1>5. PICK m : m = [l EXCEPT !.backend = b]
  OBVIOUS
<1>6. m = [backend |-> b, lastNames |-> l.lastNames, lastNameTops |-> l.lastNameTops,
            tailing |-> l.tailing, noPrev |-> l.noPrev, waiting |-> l.waiting,
            added |-> l.added]
  BY <1>4, <1>5 DEF Shape
<1>7. a = [m EXCEPT !.lastNames    = [m.lastNames EXCEPT ![l.lastNameTops] = i],
                     !.lastNameTops = (m.lastNameTops % numGenesisBlock) + 1,
                     !.tailing      = (m.tailing \cup {i}) \ Range(r.pointers),
                     !.added        = m.added \cup {i}]
  BY <1>1, <1>2, <1>5 DEF addRecordToDAG
<1>8. a = [backend |-> b, lastNames |-> [l.lastNames EXCEPT ![l.lastNameTops] = i],
           lastNameTops |-> (l.lastNameTops % numGenesisBlock) + 1,
           tailing |-> (l.tailing \cup {i}) \ Range(r.pointers), noPrev |-> l.noPrev,
           waiting |-> l.waiting, added |-> l.added \cup {i}]
  BY <1>6, <1>7
<1>9. (l.lastNameTops % numGenesisBlock) + 1 \in Genesis
  BY Constants DEF Genesis, Ledger
<1>10. [l.lastNames EXCEPT ![l.lastNameTops] = i] \in [Genesis -> FullName]
  BY DEF Ledger
<1>11. a \in Ledger
  BY <1>3, <1>8, <1>9, <1>10 DEF Ledger, Backend
<1>12. Range([l.lastNames EXCEPT ![l.lastNameTops] = i]) \subseteq Range(l.lastNames) \cup {i}
  BY DEF Range, Ledger
<1> QED
  BY <1>2, <1>8, <1>11, <1>12

\* The database is keyed by content names, and no full name is one.
LEMMA FullNameNotFound ==
  ASSUME NEW l \in Ledger, NEW x
  PROVE  getRecord(l, <<"full", x>>) = {}
<1>1. DOMAIN l.backend \subseteq ContentName
  BY DEF Ledger
<1>2. <<"full", x>> \notin ContentName
  BY DEF ContentName, GenesisName
<1> QED
  BY <1>1, <1>2 DEF getRecord

\* So a record that came from another peer is always marked.
LEMMA VerifyMarks ==
  ASSUME TypeOK, NEW l \in Ledger, NEW i \in DOMAIN record, i \in FullName,
         checkPointerCount(record[i])
  PROVE  /\ verifyPreviousRecord(l, i) \in Ledger
         /\ verifyPreviousRecord(l, i).added = l.added
         /\ verifyPreviousRecord(l, i).tailing = l.tailing
         /\ verifyPreviousRecord(l, i).lastNames = l.lastNames
         /\ verifyPreviousRecord(l, i).noPrev = l.noPrev \cup {i}
         /\ verifyPreviousRecord(l, i).backend = l.backend
<1>1. record[i] \in Record
  BY DEF TypeOK
<1>2. record[i].pointers \in Seq(FullName)
  BY <1>1 DEF Record
<1>3. DOMAIN record[i].pointers = 1 .. precedingRecordNum
  BY <1>2 DEF checkPointerCount
<1>4. missing(l, i) = 1 .. precedingRecordNum
  BY <1>3, FullNameNotFound DEF missing
<1>5. Min(missing(l, i)) = 1
  BY <1>4, Constants DEF Min
<1>6. record[i].pointers[1] \in FullName
  BY <1>2, <1>3, Constants
<1>7. verifyPreviousRecord(l, i) = mark(l, i)
  BY <1>4, Constants DEF verifyPreviousRecord
<1>8. mark(l, i) = [l EXCEPT !.waiting = l.waiting \cup {<<record[i].pointers[1], i>>},
                              !.noPrev = l.noPrev \cup {i}]
  BY <1>5 DEF mark, Ledger
<1>9. l \in Shape(l)
  BY DEF Ledger, Shape
<1>10. mark(l, i) = [backend |-> l.backend, lastNames |-> l.lastNames,
                    lastNameTops |-> l.lastNameTops, tailing |-> l.tailing,
                    noPrev |-> l.noPrev \cup {i},
                    waiting |-> l.waiting \cup {<<record[i].pointers[1], i>>},
                    added |-> l.added]
  BY <1>8, <1>9 DEF Shape
<1>11. /\ l.waiting \cup {<<record[i].pointers[1], i>>} \in SUBSET (FullName \X FullName)
       /\ l.noPrev \cup {i} \in SUBSET FullName
  BY <1>6 DEF Ledger
<1>12. mark(l, i) \in Ledger
  BY <1>10, <1>11 DEF Ledger
<1> QED
  BY <1>7, <1>10, <1>12

------------------------------------------------------------------------------
(* The pointers of a new record. *)

LEMMA NamesFinite ==
  ASSUME NEW S \in SUBSET FullName
  PROVE  IsFiniteSet(S) /\ Cardinality(S) \in Nat
<1>1. IsFiniteSet(FullName)
  BY Constants, FS_Interval DEF FullName
<1> QED
  BY <1>1, FS_Subset, FS_CardinalityType

\* As many names of S as are still wanted, or all of them.
LEMMA Shuffled ==
  ASSUME NEW pointers \in Seq(FullName), Len(pointers) <= precedingRecordNum,
         NEW S \in SUBSET FullName, NEW q \in shuffleAndAddPrev(pointers, S)
  PROVE  /\ q \in Seq(FullName)
         /\ Range(q) \subseteq Range(pointers) \cup S
         /\ Len(q) <= precedingRecordNum
         /\ pointers = <<>> /\ Cardinality(S) >= precedingRecordNum =>
              Len(q) = precedingRecordNum /\ IsInjective(q)
<1>1. PICK k : k = Min({Cardinality(S), precedingRecordNum - Len(pointers)})
  OBVIOUS
<1>2. /\ k \in Nat /\ k <= precedingRecordNum - Len(pointers)
      /\ Cardinality(S) >= precedingRecordNum - Len(pointers) =>
           k = precedingRecordNum - Len(pointers)
  <2>1. Cardinality(S) \in Nat /\ precedingRecordNum - Len(pointers) \in Nat
    BY NamesFinite, Constants
  <2>2. PICK a, b : a = Cardinality(S) /\ b = precedingRecordNum - Len(pointers)
    OBVIOUS
  <2>3. Min({a, b}) = IF a <= b THEN a ELSE b
    BY <2>1, <2>2 DEF Min
  <2> QED
    BY <1>1, <2>1, <2>2, <2>3
<1>3. PICK f \in [1 .. k -> S] : IsInjective(f) /\ q = pointers \o f
  BY <1>1 DEF shuffleAndAddPrev
<1>4. f \in Seq(FullName) /\ Len(f) = k
  <2>1. f \in [1 .. k -> FullName]
    OBVIOUS
  <2> QED
    BY <1>2, <2>1
<1>5. q \in Seq(FullName) /\ Len(q) = Len(pointers) + k
  <2>1. PICK g \in Seq(FullName) : g = f
    BY <1>4
  <2>2. pointers \o g \in Seq(FullName) /\ Len(pointers \o g) = Len(pointers) + Len(g)
    OBVIOUS
  <2> QED
    BY <1>3, <1>4, <2>1, <2>2
<1>6. ASSUME NEW i \in DOMAIN q
      PROVE  q[i] \in Range(pointers) \cup S
  <2>1. i \in 1 .. Len(pointers) + k
    BY <1>5
  <2>2. CASE i <= Len(pointers)
    <3>1. q[i] = pointers[i] /\ i \in DOMAIN pointers
      BY <1>3, <1>4, <2>1, <2>2
    <3> QED
      BY <3>1 DEF Range
  <2>3. CASE i > Len(pointers)
    <3>1. q[i] = f[i - Len(pointers)] /\ i - Len(pointers) \in 1 .. k
      BY <1>2, <1>3, <1>4, <2>1, <2>3
    <3> QED
      BY <3>1
  <2> QED
    BY <2>1, <2>2, <2>3
<1>7. ASSUME pointers = <<>>, Cardinality(S) >= precedingRecordNum
      PROVE  Len(q) = precedingRecordNum /\ IsInjective(q)
  <2>1. q = f
    BY <1>3, <1>4, <1>7
  <2>2. Len(q) = precedingRecordNum
    BY <1>2, <1>5, <1>7, Constants
  <2> QED
    BY <1>3, <2>1, <2>2
<1>8. Len(q) <= precedingRecordNum
  BY <1>2, <1>5, Constants
<1> QED
  BY <1>5, <1>6, <1>7, <1>8 DEF Range

\* A new record cites only names its maker has not marked; enough tailing records
\* make its pointers distinct and as many as are wanted.
LEMMA PointersOf ==
  ASSUME NEW l \in Ledger, NEW q \in createPointers(l)
  PROVE  /\ q \in Seq(FullName)
         /\ Range(q) \subseteq (l.tailing \cup Range(l.lastNames)) \ l.noPrev
         /\ Cardinality(l.tailing \ l.noPrev) >= precedingRecordNum =>
              Len(q) = precedingRecordNum /\ IsInjective(q)
<1>1. PICK T : T = l.tailing \ l.noPrev
  OBVIOUS
<1>2. PICK L : L = Range(l.lastNames) \ l.noPrev
  OBVIOUS
<1>3. T \in SUBSET FullName /\ L \in SUBSET FullName
  BY <1>1, <1>2 DEF Ledger, Range
<1>4. PICK t \in shuffleAndAddPrev(<<>>, T) :
        q \in IF Len(t) < precedingRecordNum THEN shuffleAndAddPrev(t, L) ELSE {t}
  BY <1>1, <1>2 DEF createPointers
<1>5. <<>> \in Seq(FullName) /\ Len(<<>>) = 0 /\ Range(<<>>) = {}
  BY DEF Range
<1>6. 0 <= precedingRecordNum
  BY Constants
<1>7. PICK e \in Seq(FullName) : e = <<>>
  BY <1>5
<1>8. /\ t \in Seq(FullName) /\ Range(t) \subseteq T /\ Len(t) <= precedingRecordNum
      /\ Cardinality(T) >= precedingRecordNum =>
           Len(t) = precedingRecordNum /\ IsInjective(t)
  BY <1>3, <1>4, <1>5, <1>6, <1>7, Shuffled
<1>9. CASE Len(t) < precedingRecordNum
  <2>1. q \in shuffleAndAddPrev(t, L)
    BY <1>4, <1>9
  <2>2. q \in Seq(FullName) /\ Range(q) \subseteq Range(t) \cup L
    BY <1>3, <1>8, <2>1, Shuffled
  <2>3. ~ (Cardinality(T) >= precedingRecordNum)
    BY <1>8, <1>9, Constants
  <2> QED
    BY <1>1, <1>2, <1>8, <2>2, <2>3
<1>10. CASE ~ (Len(t) < precedingRecordNum)
  BY <1>1, <1>4, <1>8, <1>10
<1> QED
  BY <1>9, <1>10

------------------------------------------------------------------------------
(* Every action keeps the invariant. *)

LEMMA InitInv == Init => CInv
<1> SUFFICES ASSUME Init PROVE CInv
  OBVIOUS
<1>1. DOMAIN record = Genesis /\ \A i \in Genesis : record[i] = GenesisRecord(i)
  BY DEF Init
<1>2. record \in Seq(Record) /\ Len(record) = numGenesisBlock
  <2>1. \A i \in Genesis : GenesisRecord(i) \in Record
    BY DEF GenesisRecord, Record, ContentName, GenesisName
  <2>2. record \in [1 .. numGenesisBlock -> Record]
    BY <2>1 DEF Init, Genesis
  <2> QED
    BY <2>2, Constants
<1>3. PICK l : l = Start(NoRecord)
  OBVIOUS
<1>4. /\ l \in Ledger /\ l.tailing = Genesis /\ l.added = Genesis /\ l.noPrev = {}
      /\ Range(l.lastNames) = Genesis
  <2>1. Range([i \in Genesis |-> i]) = Genesis
    BY DEF Range
  <2> QED
    BY <1>3, <2>1, NoRecordType, StartType
<1>5. /\ ledger = [p \in Peer |-> l] /\ arrived = [p \in Peer |-> Genesis]
      /\ refused = {} /\ restarts = 0
  BY <1>3 DEF Init
<1>6. \A p \in Peer : ledger[p] = l /\ arrived[p] = Genesis
  BY <1>5
<1>7. TypeOK
  BY <1>2, <1>4, <1>5, Constants DEF TypeOK
<1>8. RecordsInv
  BY <1>1, <1>2, Constants DEF RecordsInv, GenesisRecord
<1>9. ASSUME NEW p \in Peer
      PROVE  PeerInv(p)
  BY <1>1, <1>4, <1>6 DEF PeerInv, Vouched
<1>10. FrontierComplete
  BY <1>4, <1>6 DEF FrontierComplete
<1>11. DatabaseInv
  <2>1. \A i \in Genesis : record[i].contentName = <<"GENESIS_RECORD", i>>
    BY <1>1 DEF GenesisRecord
  <2>2. /\ DOMAIN l.backend = GenesisName
        /\ \A i \in Genesis : l.backend[<<"GENESIS_RECORD", i>>] = i
    BY <1>3 DEF Start, NoRecord, GenesisName
  <2>3. \A i \in Genesis : <<"GENESIS_RECORD", i>> \in GenesisName
    BY DEF GenesisName
  <2> QED
    BY <1>6, <2>1, <2>2, <2>3 DEF DatabaseInv, Holds
<1> QED
  BY <1>7, <1>8, <1>9, <1>10, <1>11 DEF CInv, Init, RefusedInv, RefusedForWantOfTails

\* createRecord.
LEMMA CreateInv ==
  ASSUME CInv, NEW p \in Peer, NEW e \in Event, CreateRecord(p, e)
  PROVE  CInv'
<1>1. PICK pointers \in createPointers(ledger[p]) :
        LET i == Len(record) + 1
            r == [makers |-> {p}, contentName |-> <<"RECORD", e>>, pointers |-> pointers,
                  frontier |-> Cardinality(ledger[p].tailing \ ledger[p].noPrev)]
        IN  /\ record' = Append(record, r)
            /\ ledger' = [ledger EXCEPT ![p] = addRecordToDAG(@, i, r)]
            /\ arrived' = [arrived EXCEPT ![p] = @ \cup {i}]
  BY DEF CreateRecord
<1>2. PICK i : i = Len(record) + 1
  OBVIOUS
<1>3. PICK r : r = [makers |-> {p}, contentName |-> <<"RECORD", e>>, pointers |-> pointers,
                    frontier |-> Cardinality(ledger[p].tailing \ ledger[p].noPrev)]
  OBVIOUS
<1>4. PICK l : l = addRecordToDAG(ledger[p], i, r)
  OBVIOUS
<1>5. /\ record' = Append(record, r)
      /\ ledger' = [ledger EXCEPT ![p] = l]
      /\ arrived' = [arrived EXCEPT ![p] = arrived[p] \cup {i}]
      /\ UNCHANGED <<refused, restarts>>
      /\ Len(record) < numGenesisBlock + MaxRecords
  BY <1>1, <1>2, <1>3, <1>4 DEF CreateRecord
<1>6. /\ TypeOK /\ RecordsInv /\ PeerInv(p) /\ \A x \in Peer : PeerInv(x)
      /\ FrontierComplete /\ RefusedInv /\ RefusedForWantOfTails
  BY DEF CInv
<1>7. ledger[p] \in Ledger /\ record \in Seq(Record)
  BY <1>6 DEF TypeOK
<1>8. /\ pointers \in Seq(FullName)
      /\ Range(pointers) \subseteq
           (ledger[p].tailing \cup Range(ledger[p].lastNames)) \ ledger[p].noPrev
      /\ r.frontier >= precedingRecordNum => checkPointerCount(r)
  BY <1>3, <1>7, PointersOf DEF checkPointerCount
<1>9. r \in Record
  <2>1. ledger[p].tailing \ ledger[p].noPrev \in SUBSET FullName
    BY <1>7 DEF Ledger
  <2>2. Cardinality(ledger[p].tailing \ ledger[p].noPrev) \in Nat
    BY <2>1, NamesFinite
  <2>3. <<"RECORD", e>> \in ContentName
    BY DEF ContentName
  <2> QED
    BY <1>3, <1>8, <2>2, <2>3 DEF Record
<1>10. /\ Len(record) \in Nat /\ i \in FullName /\ i \notin Genesis
       /\ Genesis \subseteq DOMAIN record /\ DOMAIN record = 1 .. i - 1
  BY <1>2, <1>5, <1>6, <1>7, Constants DEF RecordsInv, FullName, Genesis
<1>11. /\ record' \in Seq(Record) /\ DOMAIN record' = DOMAIN record \cup {i}
       /\ Len(record') = Len(record) + 1
       /\ record'[i] = r /\ \A j \in DOMAIN record : record'[j] = record[j]
  BY <1>2, <1>5, <1>7, <1>9, <1>10
<1>12. /\ l \in Ledger /\ l.added = ledger[p].added \cup {i}
       /\ l.tailing = (ledger[p].tailing \cup {i}) \ Range(pointers)
       /\ Range(l.lastNames) \subseteq Range(ledger[p].lastNames) \cup {i}
       /\ l.noPrev = ledger[p].noPrev
       /\ l.backend = PutInto(ledger[p].backend, r.contentName, i)
  <2>1. r.pointers = pointers
    BY <1>3
  <2>2. PICK m \in Ledger : m = ledger[p]
    BY <1>7
  <2>3. l = addRecordToDAG(m, i, r)
    BY <1>4, <2>2
  <2>4. i \in FullName /\ r \in Record
    BY <1>9, <1>10
  <2>5. /\ l \in Ledger /\ l.added = m.added \cup {i}
        /\ l.tailing = (m.tailing \cup {i}) \ Range(r.pointers)
        /\ Range(l.lastNames) \subseteq Range(m.lastNames) \cup {i}
        /\ l.noPrev = m.noPrev /\ l.backend = PutInto(m.backend, r.contentName, i)
    BY <2>3, <2>4, AddEffect
  <2> QED
    BY <2>1, <2>2, <2>5
<1>13. /\ ledger'[p] = l /\ \A x \in Peer \ {p} : ledger'[x] = ledger[x]
       /\ arrived'[p] = arrived[p] \cup {i} /\ \A x \in Peer \ {p} : arrived'[x] = arrived[x]
  BY <1>5, <1>6 DEF TypeOK
<1>14. TypeOK'
  BY <1>5, <1>6, <1>10, <1>11, <1>12 DEF TypeOK
<1>15. \A x \in Peer : Vouched(x)' = IF x = p THEN Vouched(x) \cup {i} ELSE Vouched(x)
  BY <1>3, <1>10, <1>11 DEF Vouched
<1>16. Range(pointers) \subseteq Vouched(p)
  BY <1>6, <1>8 DEF PeerInv
<1>17. Vouched(p) \subseteq DOMAIN record
  BY <1>10 DEF Vouched
<1>18. RecordsInv'
  <2>1. (Len(record) \in numGenesisBlock .. numGenesisBlock + MaxRecords)'
    BY <1>5, <1>6, <1>10, <1>11, Constants DEF RecordsInv
  <2>2. (\A j \in Genesis : record[j] = GenesisRecord(j))'
    BY <1>6, <1>10, <1>11 DEF RecordsInv, Genesis, GenesisRecord
  <2>3. ASSUME NEW j \in DOMAIN record', NEW x \in record'[j].makers
        PROVE  /\ j \in arrived'[x]
               /\ Range(record'[j].pointers) \subseteq Vouched(x)' \cap (1 .. j - 1)
    <3>1. CASE j = i
      <4>1. x = p /\ record'[j].pointers = pointers
        BY <1>3, <1>11, <2>3, <3>1
      <4> QED
        BY <1>10, <1>13, <1>15, <1>16, <1>17, <3>1, <4>1
    <3>2. CASE j \in DOMAIN record
      <4>1. record'[j] = record[j] /\ record[j] \in Record
        BY <1>7, <1>11, <3>2
      <4>2. x \in Peer
        BY <2>3, <4>1 DEF Record
      <4>3. j \in arrived[x] /\ Range(record[j].pointers) \subseteq Vouched(x) \cap (1 .. j - 1)
        BY <1>6, <2>3, <3>2, <4>1 DEF RecordsInv
      <4> QED
        BY <1>13, <1>15, <4>1, <4>2, <4>3
    <3> QED
      BY <1>11, <3>1, <3>2
  <2>4. ASSUME NEW j \in DOMAIN record' \ Genesis, record'[j].frontier >= precedingRecordNum
        PROVE  checkPointerCount(record'[j])
    BY <1>6, <1>8, <1>11, <2>4 DEF RecordsInv
  <2> QED
    BY <2>1, <2>2, <2>3, <2>4 DEF RecordsInv, checkPointerCount, Genesis
<1>19. ASSUME NEW x \in Peer
       PROVE  PeerInv(x)'
  <2>1. PeerInv(x)
    BY <1>6
  <2>2. CASE x = p
    <3>1. ledger'[p].added \subseteq arrived'[p] /\ arrived'[p] \subseteq DOMAIN record'
      BY <1>6, <1>11, <1>12, <1>13 DEF PeerInv
    <3>2. ledger'[p].tailing \cup Range(ledger'[p].lastNames) \subseteq ledger'[p].added
      BY <1>6, <1>12, <1>13 DEF PeerInv
    <3>3. ledger'[p].added \subseteq ledger'[p].noPrev \cup Vouched(p)'
      BY <1>6, <1>12, <1>13, <1>15 DEF PeerInv
    <3>4. Genesis \subseteq ledger'[p].added
      BY <1>6, <1>12, <1>13 DEF PeerInv
    <3> QED
      BY <2>2, <3>1, <3>2, <3>3, <3>4 DEF PeerInv, Genesis
  <2>3. CASE x # p
    BY <1>11, <1>13, <1>15, <2>1, <2>3 DEF PeerInv, Genesis
  <2> QED
    BY <2>2, <2>3
<1>20. FrontierComplete'
  <2>1. SUFFICES ASSUME NEW x \in Peer, NEW j \in ledger'[x].added
                 PROVE  \/ j \in ledger'[x].tailing
                        \/ \E k \in ledger'[x].added : j \in Range(record'[k].pointers)
    BY DEF FrontierComplete
  <2>2. ledger[x].added \subseteq DOMAIN record
    BY <1>6 DEF PeerInv
  <2>3. \A k \in ledger[x].added : record'[k] = record[k]
    BY <1>11, <2>2
  <2>4. CASE x = p
    <3>1. record'[i].pointers = pointers
      BY <1>3, <1>11
    <3>2. j = i \/ j \in ledger[p].added
      BY <1>12, <1>13, <2>1, <2>4
    <3> QED
      BY <1>6, <1>12, <1>13, <2>3, <2>4, <3>1, <3>2 DEF FrontierComplete
  <2>5. CASE x # p
    BY <1>6, <1>13, <2>1, <2>3, <2>5 DEF FrontierComplete
  <2> QED
    BY <2>4, <2>5
<1>21. RefusedInv' /\ RefusedForWantOfTails'
  BY <1>5, <1>6, <1>11 DEF RefusedInv, RefusedForWantOfTails, Genesis
<1>22. DatabaseInv'
  <2>1. ASSUME NEW x \in Peer
        PROVE  Holds(ledger[x].backend, arrived[x], record')
    <3>1. Holds(ledger[x].backend, arrived[x], record)
      BY DEF CInv, DatabaseInv
    <3>2. \A j \in arrived[x] : record'[j] = record[j]
      BY <1>6, <1>11 DEF PeerInv
    <3> QED
      BY <3>1, <3>2, HoldsSame
  <2>2. Holds(l.backend, arrived[p] \cup {i}, record')
    <3>1. PICK c : c = r.contentName
      OBVIOUS
    <3>2. record'[i].contentName = c
      BY <1>11, <3>1
    <3>3. Holds(PutInto(ledger[p].backend, c, i), arrived[p] \cup {i}, record')
      BY <2>1, <3>2, PutHolds
    <3> QED
      BY <1>12, <3>1, <3>3
  <2>3. ASSUME NEW x \in Peer
        PROVE  Holds(ledger'[x].backend, arrived'[x], record')
    <3>1. CASE x = p
      BY <1>13, <2>2, <3>1
    <3>2. CASE x # p
      BY <1>13, <2>1, <3>2
    <3> QED
      BY <3>1, <3>2
  <2> QED
    BY <2>3 DEF DatabaseInv, Holds
<1> QED
  BY <1>14, <1>18, <1>19, <1>20, <1>21, <1>22 DEF CInv

\* The records do not change: what remains to show of the peers.
LEMMA SameRecords ==
  ASSUME UNCHANGED record
  PROVE  /\ \A x \in Peer : Vouched(x)' = Vouched(x)
         /\ \A i \in DOMAIN record : checkPointerCount(record[i])' = checkPointerCount(record[i])
         /\ Genesis' = Genesis
BY DEF Vouched, checkPointerCount, Genesis

\* A record is handed over.
LEMMA UpdateInv ==
  ASSUME CInv, NEW p \in Peer, NEW i \in DOMAIN record, OnUpdate(p, i)
  PROVE  CInv'
<1>1. /\ TypeOK /\ RecordsInv /\ PeerInv(p) /\ \A x \in Peer : PeerInv(x)
      /\ FrontierComplete /\ RefusedInv /\ RefusedForWantOfTails
  BY DEF CInv
<1>2. PICK a : a = addRecordToDAG(ledger[p], i, record[i])
  OBVIOUS
<1>3. PICK l : l = verifyPreviousRecord(a, i)
  OBVIOUS
<1>4. /\ checkPointerCount(record[i])
      /\ ledger' = [ledger EXCEPT ![p] = l]
      /\ arrived' = [arrived EXCEPT ![p] = arrived[p] \cup {i}]
      /\ UNCHANGED <<record, refused, restarts>>
  BY <1>2, <1>3 DEF OnUpdate
<1>5. i \in FullName /\ record[i] \in Record
  BY <1>1, Constants DEF TypeOK, RecordsInv, FullName
<1>6. PICK m \in Ledger : m = ledger[p]
  BY <1>1 DEF TypeOK
<1>7. /\ a \in Ledger /\ a.added = m.added \cup {i}
      /\ a.tailing = (m.tailing \cup {i}) \ Range(record[i].pointers)
      /\ Range(a.lastNames) \subseteq Range(m.lastNames) \cup {i}
      /\ a.noPrev = m.noPrev
      /\ a.backend = PutInto(m.backend, record[i].contentName, i)
  <2>1. a = addRecordToDAG(m, i, record[i])
    BY <1>2, <1>6
  <2> QED
    BY <1>5, <2>1, AddEffect
<1>8. /\ l \in Ledger /\ l.added = a.added /\ l.tailing = a.tailing
      /\ l.lastNames = a.lastNames /\ l.noPrev = a.noPrev \cup {i}
      /\ l.backend = a.backend
  <2>1. TypeOK /\ i \in FullName /\ checkPointerCount(record[i]) /\ a \in Ledger
    BY <1>1, <1>4, <1>5, <1>7
  <2> QED
    BY <1>3, <2>1, VerifyMarks
<1>9. /\ ledger'[p] = l /\ \A x \in Peer \ {p} : ledger'[x] = ledger[x]
      /\ arrived'[p] = arrived[p] \cup {i} /\ \A x \in Peer \ {p} : arrived'[x] = arrived[x]
  BY <1>1, <1>4 DEF TypeOK
<1>10. TypeOK'
  BY <1>1, <1>4, <1>5, <1>8 DEF TypeOK
<1>11. /\ \A x \in Peer : Vouched(x)' = Vouched(x) /\ arrived[x] \subseteq arrived'[x]
       /\ record' = record
  BY <1>4, <1>9, SameRecords
<1>12. RecordsInv'
  <2>1. ASSUME NEW j \in DOMAIN record, NEW x \in record[j].makers
        PROVE  /\ j \in arrived'[x]
               /\ Range(record[j].pointers) \subseteq Vouched(x)' \cap (1 .. j - 1)
    <3>1. x \in Peer
      <4>1. record[j] \in Record
        BY <1>1 DEF TypeOK
      <4> QED
        BY <2>1, <4>1 DEF Record
    <3>2. j \in arrived[x] /\ Range(record[j].pointers) \subseteq Vouched(x) \cap (1 .. j - 1)
      BY <1>1 DEF RecordsInv
    <3> QED
      BY <1>11, <3>1, <3>2
  <2> QED
    BY <1>1, <1>11, <2>1 DEF RecordsInv, checkPointerCount, Genesis, GenesisRecord
<1>13. ASSUME NEW x \in Peer
       PROVE  PeerInv(x)'
  <2>1. PeerInv(x)
    BY <1>1
  <2>2. CASE x = p
    <3>1. /\ m.added \subseteq arrived[p] /\ arrived[p] \subseteq DOMAIN record
          /\ m.tailing \cup Range(m.lastNames) \subseteq m.added /\ Genesis \subseteq m.added
          /\ m.added \subseteq m.noPrev \cup Vouched(p)
      BY <1>1, <1>6 DEF PeerInv
    <3>2. /\ l.added = m.added \cup {i} /\ l.noPrev = m.noPrev \cup {i}
          /\ l.tailing \subseteq m.tailing \cup {i}
          /\ Range(l.lastNames) \subseteq Range(m.lastNames) \cup {i}
      BY <1>7, <1>8
    <3>3. /\ l.added \subseteq arrived'[p] /\ arrived'[p] \subseteq DOMAIN record
          /\ l.tailing \cup Range(l.lastNames) \subseteq l.added /\ Genesis \subseteq l.added
          /\ l.added \subseteq l.noPrev \cup Vouched(p)
      BY <1>9, <3>1, <3>2
    <3> QED
      BY <1>9, <1>11, <2>2, <3>3 DEF PeerInv, Genesis
  <2>3. CASE x # p
    BY <1>9, <1>11, <2>1, <2>3 DEF PeerInv, Genesis
  <2> QED
    BY <2>2, <2>3
<1>14. FrontierComplete'
  <2>1. SUFFICES ASSUME NEW x \in Peer, NEW j \in ledger'[x].added
                 PROVE  \/ j \in ledger'[x].tailing
                        \/ \E k \in ledger'[x].added : j \in Range(record[k].pointers)
    BY <1>11 DEF FrontierComplete
  <2>2. CASE x = p
    <3>1. j = i \/ j \in m.added
      BY <1>7, <1>8, <1>9, <2>1, <2>2
    <3> QED
      BY <1>1, <1>6, <1>7, <1>8, <1>9, <2>2, <3>1 DEF FrontierComplete
  <2>3. CASE x # p
    BY <1>1, <1>9, <2>1, <2>3 DEF FrontierComplete
  <2> QED
    BY <2>2, <2>3
<1>15. RefusedInv' /\ RefusedForWantOfTails'
  BY <1>1, <1>4 DEF RefusedInv, RefusedForWantOfTails, Genesis
<1>16. DatabaseInv'
  <2>1. \A x \in Peer : Holds(ledger[x].backend, arrived[x], record)
    BY DEF CInv, DatabaseInv
  <2>2. Holds(l.backend, arrived[p] \cup {i}, record)
    <3>1. Holds(m.backend, arrived[p], record)
      BY <1>6, <2>1
    <3>2. PICK c : c = record[i].contentName
      OBVIOUS
    <3>3. Holds(PutInto(m.backend, c, i), arrived[p] \cup {i}, record)
      BY <3>1, <3>2, PutHolds
    <3> QED
      BY <1>7, <1>8, <3>2, <3>3
  <2>3. ASSUME NEW x \in Peer
        PROVE  Holds(ledger'[x].backend, arrived'[x], record')
    <3>1. CASE x = p
      BY <1>9, <1>11, <2>2, <3>1
    <3>2. CASE x # p
      BY <1>9, <1>11, <2>1, <3>2
    <3> QED
      BY <3>1, <3>2
  <2> QED
    BY <2>3 DEF DatabaseInv, Holds
<1> QED
  BY <1>10, <1>12, <1>13, <1>14, <1>15, <1>16 DEF CInv

\* A record is refused: it is no genesis record, and its frontier was too narrow.
LEMMA RefuseInv ==
  ASSUME CInv, NEW p \in Peer, NEW i \in DOMAIN record, RefuseUpdate(p, i)
  PROVE  CInv'
<1>1. /\ TypeOK /\ RecordsInv /\ PeerInv(p) /\ \A x \in Peer : PeerInv(x)
      /\ FrontierComplete /\ RefusedInv /\ RefusedForWantOfTails
  BY DEF CInv
<1>2. /\ i \notin ledger[p].added /\ ~ checkPointerCount(record[i])
      /\ refused' = refused \cup {<<p, i>>}
      /\ record' = record /\ ledger' = ledger /\ arrived' = arrived /\ restarts' = restarts
  BY DEF RefuseUpdate
<1>3. i \notin Genesis
  BY <1>1, <1>2 DEF PeerInv
<1>4. i \in FullName /\ record[i] \in Record
  BY <1>1, Constants DEF TypeOK, RecordsInv, FullName
<1>5. record[i].frontier < precedingRecordNum
  <2>1. ~ (record[i].frontier >= precedingRecordNum)
    BY <1>1, <1>2, <1>3 DEF RecordsInv
  <2>2. record[i].frontier \in Nat
    BY <1>4 DEF Record
  <2> QED
    BY <2>1, <2>2, Constants
<1>6. TypeOK'
  BY <1>1, <1>2, <1>4 DEF TypeOK
<1>7. RefusedInv' /\ RefusedForWantOfTails'
  BY <1>1, <1>2, <1>3, <1>5 DEF RefusedInv, RefusedForWantOfTails, Genesis
<1>8. RecordsInv'
  BY <1>1, <1>2 DEF RecordsInv, Vouched, checkPointerCount, Genesis, GenesisRecord
<1>9. \A x \in Peer : PeerInv(x)'
  BY <1>1, <1>2 DEF PeerInv, Vouched, Genesis
<1>10. FrontierComplete'
  BY <1>1, <1>2 DEF FrontierComplete
<1>11. DatabaseInv'
  BY <1>2 DEF CInv, DatabaseInv, Holds
<1> QED
  BY <1>6, <1>7, <1>8, <1>9, <1>10, <1>11 DEF CInv

\* A peer restarts on its database.
LEMMA RestartInv ==
  ASSUME CInv, NEW p \in Peer, Restart(p)
  PROVE  CInv'
<1>1. /\ TypeOK /\ RecordsInv /\ PeerInv(p) /\ \A x \in Peer : PeerInv(x)
      /\ FrontierComplete /\ RefusedInv /\ RefusedForWantOfTails
  BY DEF CInv
<1>2. PICK l : l = Start(ledger[p].backend)
  OBVIOUS
<1>3. /\ restarts < MaxRestarts /\ restarts' = restarts + 1
      /\ ledger' = [ledger EXCEPT ![p] = l]
      /\ record' = record /\ arrived' = arrived /\ refused' = refused
  BY <1>2 DEF Restart
<1>4. /\ l \in Ledger /\ l.tailing = Genesis /\ l.added = Genesis /\ l.noPrev = {}
      /\ Range(l.lastNames) = Genesis
  <2>1. Range([i \in Genesis |-> i]) = Genesis
    BY DEF Range
  <2>2. ledger[p].backend \in Backend
    BY <1>1 DEF TypeOK, Ledger, Backend
  <2>3. PICK b \in Backend : b = ledger[p].backend
    BY <2>2
  <2>4. l = Start(b)
    BY <1>2, <2>3
  <2>5. l \in Ledger /\ l.lastNames = [i \in Genesis |-> i]
    BY <2>4, StartType
  <2>6. l.tailing = Genesis /\ l.added = Genesis /\ l.noPrev = {}
    BY <2>4, StartType
  <2> QED
    BY <2>1, <2>5, <2>6
<1>5. ledger'[p] = l /\ \A x \in Peer \ {p} : ledger'[x] = ledger[x]
  BY <1>1, <1>3 DEF TypeOK
<1>6. TypeOK'
  BY <1>1, <1>3, <1>4, Constants DEF TypeOK
<1>7. RecordsInv'
  BY <1>1, <1>3 DEF RecordsInv, Vouched, checkPointerCount, Genesis, GenesisRecord
<1>8. ASSUME NEW x \in Peer
      PROVE  PeerInv(x)'
  <2>1. PeerInv(x) /\ PeerInv(p)
    BY <1>1
  <2>2. CASE x = p
    <3>1. /\ l.added \subseteq arrived[p] /\ arrived[p] \subseteq DOMAIN record
          /\ l.tailing \cup Range(l.lastNames) \subseteq l.added /\ Genesis \subseteq l.added
          /\ l.added \subseteq l.noPrev \cup Vouched(p)
      BY <1>4, <2>1 DEF PeerInv, Vouched
    <3> QED
      BY <1>3, <1>5, <2>2, <3>1 DEF PeerInv, Vouched, Genesis
  <2>3. CASE x # p
    BY <1>3, <1>5, <2>1, <2>3 DEF PeerInv, Vouched, Genesis
  <2> QED
    BY <2>2, <2>3
<1>9. FrontierComplete'
  BY <1>1, <1>3, <1>4, <1>5 DEF FrontierComplete
<1>10. RefusedInv' /\ RefusedForWantOfTails'
  BY <1>1, <1>3 DEF RefusedInv, RefusedForWantOfTails, Genesis
<1>11. DatabaseInv'
  <2>1. \A x \in Peer : Holds(ledger[x].backend, arrived[x], record)
    BY DEF CInv, DatabaseInv
  <2>2. Holds(l.backend, arrived[p], record)
    <3>1. Genesis \subseteq arrived[p] /\ \A i \in Genesis : record[i] = GenesisRecord(i)
      BY <1>1 DEF PeerInv, RecordsInv
    <3>2. Holds(Start(ledger[p].backend).backend, arrived[p], record)
      BY <2>1, <3>1, StartHolds
    <3> QED
      BY <1>2, <3>2
  <2>3. ASSUME NEW x \in Peer
        PROVE  Holds(ledger'[x].backend, arrived'[x], record')
    <3>1. CASE x = p
      BY <1>3, <1>5, <2>2, <3>1
    <3>2. CASE x # p
      BY <1>3, <1>5, <2>1, <3>2
    <3> QED
      BY <3>1, <3>2
  <2> QED
    BY <2>3 DEF DatabaseInv, Holds
<1> QED
  BY <1>6, <1>7, <1>8, <1>9, <1>10, <1>11 DEF CInv

------------------------------------------------------------------------------
(* Theorems. *)

\* The inductive invariant: createRecord, a record handed over or refused, and a
\* restart all keep it.
THEOREM CertLedgerInvariance == Spec => []CInv
<1>1. Init => CInv
  BY InitInv
<1>2. CInv /\ [Next]_vars => CInv'
  <2> SUFFICES ASSUME CInv, [Next]_vars PROVE CInv'
    OBVIOUS
  <2>1. CASE UNCHANGED vars
    BY <2>1 DEF vars, CInv, TypeOK, RecordsInv, PeerInv, Vouched, DatabaseInv, Holds,
       FrontierComplete, RefusedInv, RefusedForWantOfTails, checkPointerCount, Genesis, GenesisRecord
  <2>2. ASSUME NEW p \in Peer, NEW e \in Event, CreateRecord(p, e)
        PROVE  CInv'
    BY <2>2, CreateInv
  <2>3. ASSUME NEW p \in Peer, NEW i \in DOMAIN record, OnUpdate(p, i)
        PROVE  CInv'
    BY <2>3, UpdateInv
  <2>4. ASSUME NEW p \in Peer, NEW i \in DOMAIN record, RefuseUpdate(p, i)
        PROVE  CInv'
    BY <2>4, RefuseInv
  <2>5. ASSUME NEW p \in Peer, Restart(p)
        PROVE  CInv'
    BY <2>5, RestartInv
  <2> QED
    BY <2>1, <2>2, <2>3, <2>4, <2>5 DEF Next
<1> QED
  BY <1>1, <1>2, PTL DEF Spec

\* The variables keep their types: the ring of last names stays closed, and no
\* peer is left with a name that is no record's.
THEOREM CertLedgerTypeCorrect == Spec => []TypeOK
<1>1. CInv => TypeOK
  BY DEF CInv
<1> QED
  BY <1>1, CertLedgerInvariance, PTL

\* A record cites genesis records and earlier records of its own maker only: the
\* lookup by full name in verifyPreviousRecord never succeeds, so what comes from
\* another peer stays in m_noPrevRecords, and createRecord passes it over.
CitesOnlyOwn ==
  \A i \in DOMAIN record : \A p \in record[i].makers : \A j \in Range(record[i].pointers) :
    j < i /\ (j \in Genesis \/ p \in record[j].makers)

THEOREM NobodyCitesOthers == Spec => []CitesOnlyOwn
<1>1. CInv => CitesOnlyOwn
  <2>1. SUFFICES ASSUME CInv, NEW i \in DOMAIN record, NEW p \in record[i].makers,
                        NEW j \in Range(record[i].pointers)
                 PROVE  j < i /\ (j \in Genesis \/ p \in record[j].makers)
    BY DEF CitesOnlyOwn
  <2>2. i \in Nat
    BY <2>1 DEF CInv, TypeOK
  <2>3. j \in Vouched(p) \cap (1 .. i - 1)
    BY <2>1 DEF CInv, RecordsInv
  <2> QED
    BY <2>2, <2>3 DEF Vouched
<1> QED
  BY <1>1, CertLedgerInvariance, PTL

\* The database of a peer holds, of the whole history of every record it made, each
\* record or a later one of the same Data: createRecord cites only what is not
\* marked, every record of another peer is marked, and putRecord and restarts keep
\* every content name.
THEOREM PeerHoldsCitedHistory == Spec => []CitesHeldHistory
<1>1. CInv => CitesHeldHistory
  <2>1. SUFFICES ASSUME CInv, NEW i \in DOMAIN record, NEW p \in record[i].makers
                 PROVE  /\ history(i) \subseteq arrived[p]
                        /\ Holds(ledger[p].backend, arrived[p], record)
    BY DEF CitesHeldHistory, Holds, getRecord
  <2>2. record \in Seq(Record) /\ RecordsInv
    BY <2>1 DEF CInv, TypeOK
  <2>3. i \in Nat /\ i >= 1 /\ 1 .. i \subseteq DOMAIN record
    BY <2>2
  <2>4. p \in Peer
    <3>1. record[i] \in Record
      BY <2>2
    <3> QED
      BY <2>1, <3>1 DEF Record
  <2>5. PICK S : S = Vouched(p) \cap (1 .. i - 1)
    OBVIOUS
  <2>6. ASSUME NEW k \in S \cup {i}
        PROVE  Range(record[k].pointers) \subseteq S
    <3>1. k \in DOMAIN record /\ k \in 1 .. i
      BY <2>3, <2>5
    <3>2. CASE p \in record[k].makers
      <4>1. Range(record[k].pointers) \subseteq Vouched(p) \cap (1 .. k - 1)
        BY <2>2, <3>1, <3>2 DEF RecordsInv
      <4>2. 1 .. k - 1 \subseteq 1 .. i - 1
        BY <2>3, <3>1
      <4> QED
        BY <2>5, <4>1, <4>2
    <3>3. CASE p \notin record[k].makers
      <4>1. k \in Genesis
        BY <2>1, <2>5, <3>3 DEF Vouched
      <4>2. record[k].pointers = <<>>
        <5>1. record[k] = GenesisRecord(k)
          BY <2>2, <4>1 DEF RecordsInv
        <5> QED
          BY <5>1 DEF GenesisRecord
      <4> QED
        BY <4>2 DEF Range
    <3> QED
      BY <3>2, <3>3
  <2>7. history(i) \subseteq S
    <3>1. S \in SUBSET (1 .. i - 1)
      BY <2>5
    <3>2. \A k \in S \cup {i} : [j \in 1 .. i |-> Range(record[j].pointers)][k] \subseteq S
      BY <2>3, <2>6, <3>1
    <3> QED
      BY <3>1, <3>2 DEF history
  <2>8. S \subseteq arrived[p]
    <3>1. Genesis \subseteq arrived[p]
      BY <2>1, <2>4 DEF CInv, PeerInv
    <3>2. \A j \in DOMAIN record : p \in record[j].makers => j \in arrived[p]
      BY <2>2 DEF RecordsInv
    <3> QED
      BY <2>5, <3>1, <3>2 DEF Vouched
  <2>9. Holds(ledger[p].backend, arrived[p], record)
    BY <2>1, <2>4 DEF CInv, DatabaseInv
  <2> QED
    BY <2>7, <2>8, <2>9
<1> QED
  BY <1>1, CertLedgerInvariance, PTL

\* A record in the DAG of a peer is a tailing record or cited there: addRecordToDAG
\* takes from m_tailingRecords only what the new record cites.
THEOREM FrontierLosesNothing == Spec => []FrontierComplete
<1>1. CInv => FrontierComplete
  BY DEF CInv
<1> QED
  BY <1>1, CertLedgerInvariance, PTL

\* checkPointerCount throws only for a record made from too few tailing records.
THEOREM RefusalHasReason == Spec => []RefusedForWantOfTails
<1>1. CInv => RefusedForWantOfTails
  BY DEF CInv
<1> QED
  BY <1>1, CertLedgerInvariance, PTL

=============================================================================
