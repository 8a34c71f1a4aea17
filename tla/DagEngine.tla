------------------------------ MODULE DagEngine ------------------------------
(***************************************************************************)
(* The record DAG a ledger instance keeps: the functions of class          *)
(* DagModule (src/dag/dag-module.cpp) and of the interlock policies,       *)
(* written as operators on one DAG state                                   *)
(*                                                                         *)
(*    status   the EdgeState status of every record name                   *)
(*    desc     EdgeState::descendants: who is known to cite it             *)
(*    wait     m_waitlist, as a set of pairs <<level, name>>               *)
(*                                                                         *)
(* and on rec, the contents of the records (an EdgeState keeps a copy of   *)
(* its record once the record is loaded; contents never change).           *)
(*                                                                         *)
(* A name that is not in the storage and a name whose EdgeState was just   *)
(* constructed as a placeholder look the same to every caller, so both     *)
(* are INITIALIZED here.  An EdgeState is stored under toStateName of its  *)
(* record's name; the two names are identified.                            *)
(***************************************************************************)
EXTENDS Naturals, FiniteSets

CONSTANTS
  Name,        \* the record names of the instance
  Prefix,      \* Prefix[n]: the publisher, n without its sequence number
  PolicyType   \* the configured interlock policy

\* The provers need finitely many names: level numbers are cardinalities.
ASSUME NameAssumption == IsFiniteSet(Name)

ASSUME PolicyAssumption ==
  PolicyType \in {"policy-descendants", "policy-witness"}

\* EdgeState::Status
INITIALIZED == "INITIALIZED"
LOADED      == "LOADED"
INTERLOCKED == "INTERLOCKED"
Status      == {INITIALIZED, LOADED, INTERLOCKED}

\* tlv::RecordType
GENESIS_RECORD == "GENESIS_RECORD"
GENERIC_RECORD == "GENERIC_RECORD"
REPLY_RECORD   == "REPLY_RECORD"
RecordType     == {GENESIS_RECORD, GENERIC_RECORD, REPLY_RECORD}

Record == [type : RecordType, pointers : SUBSET Name]

DagState == [status : [Name -> Status],
             desc   : [Name -> SUBSET Name],
             wait   : SUBSET (Nat \X Name)]

\* A DagModule just constructed over an empty storage.
EmptyDag == [status |-> [n \in Name |-> INITIALIZED],
             desc   |-> [n \in Name |-> {}],
             wait   |-> {}]

isGenesis(record) == record.type = GENESIS_RECORD

------------------------------------------------------------------------------
(* Citations, as the properties speak of them. *)

\* No citation cycle: in every set of records some record is cited by no
\* other record of the set.
Acyclic(h) ==
  \A S \in SUBSET Name :
    S # {} => \E m \in S : \A n \in S : m \in h[n].pointers => n = m

\* The records n cites directly or through records that have arrived, no
\* matter which of them are interlocked: what getAncestors would find if
\* nothing had ever been interlocked.
CitationClosed(h, arrived, n, A) ==
  /\ h[n].pointers \subseteq A
  /\ \A a \in A \cap arrived : h[a].pointers \subseteq A

CitedBy(h, arrived, n) ==
  LET closed == {A \in SUBSET Name : CitationClosed(h, arrived, n, A)}
  IN  {x \in Name : \A A \in closed : x \in A}

------------------------------------------------------------------------------
(* Interlock policies. *)

\* What the witness policy counts: it selects one descendant per publisher,
\* so the size of its selection is the number of publishers.
witnesses(D) == {Prefix[d] : d \in D}

\* Mutant: the policy counts one descendant too few.
evaluateOneLess(D) == Cardinality(D) - 1

\* Mutant: the witness policy forgets to select one descendant per publisher.
evaluateAnyPublisher(D) == Cardinality(D)

\* InterlockPolicyDescendants::evaluate and InterlockPolicyWitness::evaluate.
evaluate(D) == IF PolicyType = "policy-descendants"
               THEN Cardinality(D)
               ELSE Cardinality(witnesses(D))

------------------------------------------------------------------------------
(* getAncestors.  The walk starts at the pointers of n.  It passes over     *)
(* INTERLOCKED names, keeps every other name it meets, and expands the      *)
(* LOADED ones: a placeholder is kept and not expanded, its record has not  *)
(* arrived.  The result is the smallest set the walk cannot leave; only     *)
(* names some record cites can be in it.                                    *)

Cited(rec) == UNION {rec[m].pointers : m \in Name}

Walkable(rec, status, m) == {p \in rec[m].pointers : status[p] # INTERLOCKED}

WalkClosed(rec, status, n, A) ==
  /\ Walkable(rec, status, n) \subseteq A
  /\ \A a \in A : status[a] = LOADED => Walkable(rec, status, a) \subseteq A

\* Mutant: the walk does not expand what it meets.
getDirectAncestors(rec, status, n) == Walkable(rec, status, n)

getAncestors(rec, status, n) ==
  LET closed == {A \in SUBSET Cited(rec) : WalkClosed(rec, status, n, A)}
  IN  {x \in Cited(rec) : \A A \in closed : x \in A}

------------------------------------------------------------------------------
(* add and its parts. *)

\* Mutant: a name is not erased from its old level.
evaluateWaitlistNoErase(wait, status, desc, ns) ==
  wait \cup {<<evaluate(desc[n]), n>> : n \in {m \in ns : status[m] # INTERLOCKED}}

\* evaluateWaitlist for every name of ns: erase it from its level, insert it
\* at the level the policy gives it; INTERLOCKED names are left alone.
evaluateWaitlist(wait, status, desc, ns) ==
  LET moved == {n \in ns : status[n] # INTERLOCKED}
  IN  {e \in wait : e[2] \notin moved}
        \cup {<<evaluate(desc[n]), n>> : n \in moved}

\* For the mutants of onNewRecord: the walks start at the records of walking, d
\* is entered with its ancestors as credit(d), and the names of moved are moved
\* in the waitlist besides the ancestors.
newRecordVariant(rec, st, r, walking, credit(_), moved) ==
  LET status == [st.status EXCEPT ![r] = LOADED]
      anc    == [d \in walking |-> getAncestors(rec, status, d)]
      desc   == [a \in Name |->
                   st.desc[a] \cup {credit(d) : d \in {e \in walking : a \in anc[e]}}]
      visited == moved \cup {a \in Name : \E d \in walking : a \in anc[d]}
  IN  [status |-> status, desc |-> desc,
       wait |-> evaluateWaitlist(st.wait, status, desc, visited)]

NotGenesis(rec, S) == {d \in S : ~ isGenesis(rec[d])}

\* Mutant: the ancestors of a waiting descendant learn r instead of it.
onNewRecordWrongName(rec, st, r) ==
  newRecordVariant(rec, st, r, NotGenesis(rec, st.desc[r] \cup {r}),
                   LAMBDA d : r, {r})

\* Mutant: descendants that arrived before r are not walked again.
onNewRecordNoRevisit(rec, st, r) ==
  newRecordVariant(rec, st, r, NotGenesis(rec, {r}), LAMBDA d : d, {r})

\* Mutant: r is not put into the waitlist itself.
onNewRecordNotWaiting(rec, st, r) ==
  newRecordVariant(rec, st, r, NotGenesis(rec, st.desc[r] \cup {r}),
                   LAMBDA d : d, {})

\* onNewRecord: r becomes LOADED; the ancestors of r, and again those of every
\* descendant r had as a placeholder, learn their descendant and are moved in
\* the waitlist.  No status but r's changes, and that first, so the walks
\* (evaluateAncestors, one per descendant) can be taken together.
onNewRecord(rec, st, r) ==
  LET status   == [st.status EXCEPT ![r] = LOADED]
      walking  == {d \in st.desc[r] \cup {r} : ~ isGenesis(rec[d])}
      anc      == [d \in walking |-> getAncestors(rec, status, d)]
      citing(a) == {d \in walking : a \in anc[d]}
      desc     == [a \in Name |-> st.desc[a] \cup citing(a)]
      visited  == {a \in Name : a = r \/ citing(a) # {}}
  IN  [status |-> status,
       desc   |-> desc,
       wait   |-> evaluateWaitlist(st.wait, status, desc, visited)]

\* Mutant: no check for a record that is already there.
addAgain(rec, st, r) == onNewRecord(rec, st, r)

\* DagModule::add: a record already LOADED or INTERLOCKED is a duplicate.
add(rec, st, r) ==
  IF st.status[r] = INITIALIZED THEN onNewRecord(rec, st, r) ELSE st

------------------------------------------------------------------------------
(* Reading and harvesting the waitlist. *)

getWaitList(st, level) == {n \in Name : <<level, n>> \in st.wait}

\* The names harvestBelow returns: waiting below the threshold and arrived.
harvestBelow(st, threshold) ==
  {n \in Name : /\ \E e \in st.wait : e[2] = n /\ e[1] < threshold
                /\ st.status[n] # INITIALIZED}

\* Mutant: the level below the threshold is harvested too.
ripeTooEarly(st, threshold) ==
  {n \in Name : /\ \E e \in st.wait : e[2] = n /\ e[1] + 1 >= threshold
                /\ st.status[n] # INITIALIZED}

\* The names harvestAbove returns.
ripe(st, threshold) ==
  {n \in Name : /\ \E e \in st.wait : e[2] = n /\ e[1] >= threshold
                /\ st.status[n] # INITIALIZED}

\* The state harvestAbove(threshold, true) leaves, the only way it is called
\* by the ledger.  A placeholder stays in the waitlist however often cited.
harvestAbove(st, threshold) ==
  LET out == ripe(st, threshold)
  IN  [st EXCEPT
         !.status = [n \in Name |-> IF n \in out THEN INTERLOCKED
                                                 ELSE st.status[n]],
         !.wait   = {e \in st.wait : ~ (e[2] \in out /\ e[1] >= threshold)}]

==============================================================================
