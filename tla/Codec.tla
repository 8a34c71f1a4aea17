-------------------------------- MODULE Codec --------------------------------
(***************************************************************************)
(* How records, edge states and edge state lists are written to the        *)
(* storage and read back (record.cpp, dag/edge-state.cpp,                  *)
(* dag/edge-state-list.cpp).                                               *)
(*                                                                         *)
(* A TLV block is its type and its value, here a sequence of blocks or the *)
(* thing a leaf holds; names are values.  A decoder goes through the       *)
(* elements in their order, so that one that comes too early or is left    *)
(* out matters.  The time an edge state was created is left out, the time  *)
(* of its interlock is whether it has been set.                            *)
(***************************************************************************)
EXTENDS Naturals, Sequences, SequencesExt

Block(type, value) == [type |-> type, value |-> value]

\* The types of ndn::tlv, and ndn::tlv::isCriticalType.
TLV_NAME    == 7
TLV_CONTENT == 21
isCriticalType(type) == type <= 31 \/ type % 2 = 1

TLV_RECORD_TYPE    == 211
TLV_RECORD_POINTER == 212
TLV_RECORD_PAYLOAD == 213

TLV_EDGE_STATE_TYPE        == 311
TLV_EDGE_STATE_STATUS      == 312
TLV_EDGE_STATE_DESCENDANTS == 313
TLV_EDGE_STATE_INTERLOCK_T == 315

TLV_EDGE_STATE_LIST_TYPE  == 351
TLV_EDGE_STATE_LIST_NAME  == 352
TLV_EDGE_STATE_LIST_KEY   == 353
TLV_EDGE_STATE_LIST_VALUE == 354
TLV_EDGE_STATE_LIST_NEXT  == 355

\* Names: an edge state is stored under its record's name with a header before
\* it, the list of all edge states under its key.
NoName                == <<"", <<>>>>
toStateName(name)     == <<"EdgeState", name>>
fromStateName(name)   == name[2]
globalTracker         == 0
toStateListName(key)  == <<"EdgeStateList", <<key>>>>
getStateListNull      == <<"EdgeStateList", <<"null">>>>

encodeNames(S) == LET q == SetToSeq(S) IN [i \in DOMAIN q |-> Block(TLV_NAME, q[i])]
decodeNames(elements) == {e.value : e \in ToSet(elements)}

\* What the decoders share.  A loop goes through the elements of a block: the last
\* element of a type gives the value of a field,
elementsOf(elements, type) == {i \in DOMAIN elements : elements[i].type = type}
assigned(elements, type, start) ==
  LET at == elementsOf(elements, type)
  IN  IF at = {} THEN start ELSE elements[Max(at)].value

\* or all of them together give the names in it;
inserted(elements, type) ==
  UNION {decodeNames(elements[i].value) : i \in elementsOf(elements, type)}

\* an element of no known type is passed over unless its type is critical.
Exception == [exception |-> TRUE]
unrecognized(elements, known) ==
  \E e \in ToSet(elements) : e.type \notin known /\ isCriticalType(e.type)

------------------------------------------------------------------------------

prepareContent(record) ==
  Block(TLV_CONTENT, <<Block(TLV_RECORD_TYPE, record.type),
                       Block(TLV_RECORD_POINTER, encodeNames(record.pointers)),
                       Block(TLV_RECORD_PAYLOAD, record.payload)>>)

\* The constructor Record(name, content).
RecordOf(name, content) ==
  LET elements == content.value
  IN  IF unrecognized(elements, {TLV_RECORD_TYPE, TLV_RECORD_POINTER, TLV_RECORD_PAYLOAD})
      THEN Exception
      ELSE [name     |-> name,
            type     |-> assigned(elements, TLV_RECORD_TYPE, ""),
            pointers |-> inserted(elements, TLV_RECORD_POINTER),
            payload  |-> assigned(elements, TLV_RECORD_PAYLOAD, <<>>)]

\* The elements of an edge state.
stateElements(state) ==
  [name        |-> Block(TLV_NAME, state.stateName),
   status      |-> Block(TLV_EDGE_STATE_STATUS, state.status),
   content     |-> prepareContent(state.record),
   descendants |-> Block(TLV_EDGE_STATE_DESCENDANTS, encodeNames(state.descendants)),
   interlocked |-> Block(TLV_EDGE_STATE_INTERLOCK_T, state.interlocked)]

\* Mutant: the record comes before the name it is decoded with.
encodeEdgeStateContentFirst(state) ==
  LET e == stateElements(state)
  IN  Block(TLV_EDGE_STATE_TYPE,
        IF state.descendants = {}
        THEN <<e.content, e.name, e.status, e.interlocked>>
        ELSE <<e.content, e.name, e.status, e.descendants, e.interlocked>>)

encodeEdgeState(state) ==
  LET e == stateElements(state)
  IN  Block(TLV_EDGE_STATE_TYPE,
        IF state.descendants = {}
        THEN <<e.name, e.status, e.content, e.interlocked>>
        ELSE <<e.name, e.status, e.content, e.descendants, e.interlocked>>)

\* The record is decoded with the name that came before it.
decodeEdgeState(block) ==
  LET elements  == block.value
      contents  == elementsOf(elements, TLV_CONTENT)
      record(i) == RecordOf(fromStateName(assigned(SubSeq(elements, 1, i), TLV_NAME, NoName)),
                            elements[i])
  IN  IF \/ block.type # TLV_EDGE_STATE_TYPE
         \/ unrecognized(elements, {TLV_NAME, TLV_EDGE_STATE_STATUS, TLV_CONTENT,
                                    TLV_EDGE_STATE_DESCENDANTS, TLV_EDGE_STATE_INTERLOCK_T})
         \/ \E i \in contents : record(i) = Exception
      THEN Exception
      ELSE [stateName   |-> assigned(elements, TLV_NAME, NoName),
            record      |-> IF contents = {} THEN <<>> ELSE record(Max(contents)),
            descendants |-> inserted(elements, TLV_EDGE_STATE_DESCENDANTS),
            status      |-> assigned(elements, TLV_EDGE_STATE_STATUS, ""),
            interlocked |-> assigned(elements, TLV_EDGE_STATE_INTERLOCK_T, FALSE)]

encodeEdgeStateList(list) ==
  LET name  == Block(TLV_EDGE_STATE_LIST_NAME, list.listName)
      key   == Block(TLV_EDGE_STATE_LIST_KEY, list.key)
      value == Block(TLV_EDGE_STATE_LIST_VALUE, encodeNames(list.value))
      next  == Block(TLV_EDGE_STATE_LIST_NEXT, list.nextList)
  IN  Block(TLV_EDGE_STATE_LIST_TYPE,
        IF list.value = {} THEN <<name, key, next>> ELSE <<name, key, value, next>>)

decodeEdgeStateList(block) ==
  LET elements == block.value
  IN  IF \/ block.type # TLV_EDGE_STATE_LIST_TYPE
         \/ unrecognized(elements, {TLV_EDGE_STATE_LIST_NAME, TLV_EDGE_STATE_LIST_KEY,
                                    TLV_EDGE_STATE_LIST_VALUE, TLV_EDGE_STATE_LIST_NEXT})
      THEN Exception
      ELSE [listName |-> assigned(elements, TLV_EDGE_STATE_LIST_NAME, NoName),
            key      |-> assigned(elements, TLV_EDGE_STATE_LIST_KEY, globalTracker),
            value    |-> inserted(elements, TLV_EDGE_STATE_LIST_VALUE),
            nextList |-> assigned(elements, TLV_EDGE_STATE_LIST_NEXT, NoName)]

==============================================================================
