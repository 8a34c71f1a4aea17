----------------------------- MODULE LedgerStatus -----------------------------
(***************************************************************************)
(* What the status tool (tools/ndncledger-ledger-status.cpp) learns of an  *)
(* instance: it fetches the list of all edge states and then every edge    *)
(* state in it, each as a block of the instance's storage.                 *)
(***************************************************************************)
EXTENDS LedgerModule, Codec

\* The edge state of record m at instance n.
edgeState(n, m) ==
  [stateName   |-> toStateName(m),
   record      |-> [name     |-> m,              type    |-> rec[m].type,
                    pointers |-> rec[m].pointers, payload |-> rec[m].payload],
   descendants |-> {toStateName(k) : k \in ledger[n].dag.desc[m]},
   status      |-> ledger[n].dag.status[m],
   interlocked |-> m \in ledger[n].stamped]

statesTracker(n) ==
  [listName |-> toStateListName(globalTracker), key |-> globalTracker,
   value |-> {toStateName(m) : m \in ledger[n].tracker},
   nextList |-> getStateListNull]

\* handleInternalObject: the block of that name in the storage of n, or no block
\* but a Nack.
internalObject(n, objName) ==
  {encodeEdgeStateList(statesTracker(n)) :
     l \in {toStateListName(globalTracker)} \cap {objName}} \cup
  {encodeEdgeState(edgeState(n, m)) :
     m \in {k \in arrivedStates(ledger[n]) : toStateName(k) = objName}}

\* A Nack is not decoded, and is passed over.
fetchEdgeState(n, stateName) ==
  {decodeEdgeState(block) : block \in internalObject(n, stateName)}

fetchEdgeStateList(n) ==
  UNION {UNION {fetchEdgeState(n, entry) : entry \in decodeEdgeStateList(block).value} :
           block \in internalObject(n, toStateListName(globalTracker))}

\* Read through the list, the storage and the encodings, the status of an
\* instance is the truth: every record that arrived is shown, but for replies
\* of its own, each with its pointers, its descendants and its status as the DAG
\* has them, and nothing in the list is missing from the storage.
StatusTruthful ==
  \A n \in Node :
    LET shown == fetchEdgeStateList(n)
    IN  /\ Cardinality(shown) = Cardinality(ledger[n].tracker)
        /\ \A s \in shown : s = edgeState(n, fromStateName(s.stateName))
        /\ \A m \in arrivedStates(ledger[n]) :
             OwnReply(n, m) \/ edgeState(n, m) \in shown

==============================================================================
