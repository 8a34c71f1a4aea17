----------------------------- MODULE SegmentFetch -----------------------------
(***************************************************************************)
(* A segmented reply and its retrieval (src/util/segment/): class Producer *)
(* cuts it, class Consumer over class PipelineInterestsFixed over          *)
(* DataFetchers puts it together again.  Operators on the state of the     *)
(* pipeline and of the consumer.                                           *)
(*                                                                         *)
(* A window of maxPipelineSize fetchers asks for segments 0, 1, 2, ...     *)
(* Every segment names the last one (FinalBlockId); until the first one    *)
(* arrives the window may ask for segments that do not exist.  A pipeline  *)
(* may be run again for another reply.  It never asks for a segment number *)
(* twice, so the number identifies the fetcher, even one that a later run  *)
(* has put another in the place of.  The wait before a congested Interest  *)
(* is sent again is left out.                                              *)
(***************************************************************************)
EXTENDS Naturals, Sequences, FiniteSets
LOCAL INSTANCE FiniteSetsExt

CONSTANTS
  Reply,             \* the segmented replies
  maxSegmentSize,    \* Options::maxSegmentSize of the producer
  maxPipelineSize,   \* Options::maxPipelineSize
  maxRetries         \* Options::maxRetriesOnTimeoutOrNack

ASSUME SegmentAssumption ==
  /\ {maxSegmentSize, maxPipelineSize} \subseteq Nat \ {0}
  /\ maxRetries \in Nat

\* Mutant: the bytes after the last full segment are left out.
populateStoreFullOnly(size) ==
  [i \in 1 .. Max({size \div maxSegmentSize, 1}) |-> Min({maxSegmentSize, size})]

\* Producer::populateStore for a block of size bytes: m_store, as the number of
\* bytes in each segment.
populateStore(size) ==
  LET total == (size - 1) \div maxSegmentSize + 1
  IN  [i \in 1 .. total |-> Min({maxSegmentSize, size - (i - 1) * maxSegmentSize})]

\* processSegmentInterest: whether it answers with segment no, or a Nack.
processSegmentInterest(store, no) == no < Len(store)

\* The last segment number, which every segment carries as FinalBlockId.
lastSegment(store) == Len(store) - 1

Pipes == 1 .. maxPipelineSize

\* A DataFetcher: the reply it asks for a segment of, the place in the window
\* it was started for, m_isStopped ("stopped"), m_hasError ("error").
Fetcher == [of : Reply, pipe : Pipes, status : {"running", "stopped", "error"},
            nTimeouts : 0 .. maxRetries + 1, nNacks : 0 .. maxRetries + 1]

\* fetcher[no] is the fetcher of segment no; window is m_segmentFetchers, as
\* the segment number in each place that was ever filled; failed is a posted
\* m_onFailure.  prefix is a set of at most one reply.
IsPipeline(p) ==
  /\ DOMAIN p.fetcher \subseteq Nat /\ DOMAIN p.window \subseteq Pipes
  /\ \A no \in DOMAIN p.fetcher : p.fetcher[no] \in Fetcher
  /\ \A i \in DOMAIN p.window : p.window[i] \in DOMAIN p.fetcher
  /\ p.prefix \subseteq Reply
  /\ {p.nextSegmentNo, p.nReceived, p.lastSegmentNo} \subseteq Nat
  /\ {p.hasFinalBlockId, p.hasFailure, p.isStopping, p.failed} \subseteq BOOLEAN

NewPipeline == [fetcher |-> <<>>, window |-> <<>>, prefix |-> {},
                nextSegmentNo |-> 0, nReceived |-> 0, lastSegmentNo |-> 0,
                hasFinalBlockId |-> FALSE, hasFailure |-> FALSE,
                isStopping |-> FALSE, failed |-> FALSE]

\* f[x] = y, as for a map or a vector.
put(f, x, y) == [z \in DOMAIN f \cup {x} |-> IF z = x THEN y ELSE f[z]]

Running(p) == {no \in DOMAIN p.fetcher : p.fetcher[no].status = "running"}
InWindow(p) == {p.window[i] : i \in DOMAIN p.window}

------------------------------------------------------------------------------
(* The pipeline, as functions of its state p. *)

allSegmentsReceived(p) ==
  p.nReceived > 0 /\ p.hasFinalBlockId /\ p.nReceived - 1 >= p.lastSegmentNo

\* DataFetcher::cancel for the fetchers nos.
cancel(p, nos) ==
  [p EXCEPT !.fetcher = [no \in DOMAIN p.fetcher |->
     IF no \in nos \cap Running(p)
     THEN [p.fetcher[no] EXCEPT !.status = "stopped"] ELSE p.fetcher[no]]]

beyond(p, no) == {k \in InWindow(p) : k > no}

\* Stop and forget everything in the window.
doCancel(p) == [cancel(p, InWindow(p)) EXCEPT !.window = <<>>]

\* onFailure: cancel the pipeline, then post m_onFailure.
onFailure(p) ==
  IF p.isStopping THEN p
  ELSE [doCancel(p) EXCEPT !.isStopping = TRUE, !.failed = TRUE]

\* Start the fetcher of the next segment in place i.
request(p, i) ==
  LET fetcher == [of |-> CHOOSE r \in p.prefix : TRUE, pipe |-> i,
                  status |-> "running", nTimeouts |-> 0, nNacks |-> 0]
  IN  [p EXCEPT !.fetcher = put(p.fetcher, p.nextSegmentNo, fetcher),
                !.window  = put(p.window, i, p.nextSegmentNo)]

advance(p) == [p EXCEPT !.nextSegmentNo = @ + 1]

\* Mutant: the number of the next segment is not advanced.
fetchNextSegmentRepeats(p, i) ==
  IF p.isStopping THEN p
  ELSE IF p.hasFailure THEN onFailure(p)
  ELSE IF p.hasFinalBlockId /\ p.nextSegmentNo > p.lastSegmentNo THEN p
  ELSE request(p, i)

\* Mutant: to have nothing more to ask for is taken for a failure.
fetchNextSegmentFails(p, i) ==
  IF p.isStopping THEN p
  ELSE IF p.hasFailure \/ (p.hasFinalBlockId /\ p.nextSegmentNo > p.lastSegmentNo)
       THEN onFailure(p)
  ELSE advance(request(p, i))

fetchNextSegment(p, i) ==
  IF p.isStopping THEN p
  ELSE IF p.hasFailure THEN onFailure(p)
  ELSE IF p.hasFinalBlockId /\ p.nextSegmentNo > p.lastSegmentNo THEN advance(p)
  ELSE advance(request(p, i))

\* Fill the places one after the other, and stop when nothing was requested for
\* one.
doRun(p) ==
  LET fill[i \in 0 .. maxPipelineSize] ==
        IF i = 0 THEN p
        ELSE IF i > 1 /\ fill[i - 1].fetcher = fill[i - 2].fetcher
             THEN fill[i - 1]
        ELSE fetchNextSegment(fill[i - 1], i)
  IN  fill[maxPipelineSize]

\* PipelineInterests::run sets nothing back from the run before but the prefix
\* and the callbacks.
run(p, reply) == doRun([p EXCEPT !.prefix = {reply}])

\* Mutant: the fetchers of segments that do not exist are left running.
learnFinalBlockIdNoCancel(p, last) ==
  IF p.isStopping \/ p.hasFinalBlockId THEN p
  ELSE LET q == [p EXCEPT !.hasFinalBlockId = TRUE, !.lastSegmentNo = last]
       IN  IF \E no \in InWindow(q) : no <= last /\ q.fetcher[no].status = "error"
           THEN onFailure(q) ELSE q

\* The first part of handleData: learn the last segment number.  The transfer
\* fails at once if a segment of the content is known to be lost.
learnFinalBlockId(p, last) ==
  IF p.isStopping \/ p.hasFinalBlockId THEN p
  ELSE LET q == cancel([p EXCEPT !.hasFinalBlockId = TRUE,
                                 !.lastSegmentNo = last], beyond(p, last))
       IN  IF \E no \in InWindow(q) : no <= last /\ q.fetcher[no].status = "error"
           THEN onFailure(q) ELSE q

\* A fetcher started for place i has failed; the place may hold another now.
handleFail(p, i) ==
  LET no == p.window[i]
      q  == cancel(p, beyond(p, no))
  IN  IF p.isStopping THEN p
      ELSE IF p.hasFinalBlockId
      THEN IF no <= p.lastSegmentNo THEN onFailure(p) ELSE p
      ELSE IF InWindow(q) \cap Running(q) # {}
      THEN [q EXCEPT !.hasFailure = TRUE]
      ELSE onFailure(q)

------------------------------------------------------------------------------
(* The consumer, as functions of its state c.                               *)
(*   validating    the segments the validator has not called back for       *)
(*   bufferedData  m_bufferedData: for each segment, the reply it is of     *)
(*   output        m_outputBuffer, as the replies its segments are of;      *)
(*                 m_nextToPrint is its length                              *)

IsConsumer(c) ==
  /\ c.validating \subseteq Nat
  /\ DOMAIN c.bufferedData \subseteq Nat
  /\ \A no \in DOMAIN c.bufferedData : c.bufferedData[no] \in Reply
  /\ c.output \in Seq(Reply)

NewConsumer == [validating |-> {}, bufferedData |-> <<>>, output |-> <<>>]

\* The segment no of a reply was validated: buffer it and write what is next.
writeInOrderData(c, no, reply) ==
  LET buffered == put(c.bufferedData, no, reply)
      next     == Len(c.output)
      written  == {k \in DOMAIN buffered :
                     next <= k /\ next .. k \subseteq DOMAIN buffered}
  IN  [c EXCEPT !.validating   = @ \ {no},
                !.bufferedData = [k \in DOMAIN buffered \ written |-> buffered[k]],
                !.output       = @ \o [j \in 1 .. Cardinality(written) |->
                                         buffered[next + j - 1]]]

\* The number of bytes in the first k segments.
bytes(store, k) ==
  LET sum[i \in 0 .. k] == IF i = 0 THEN 0 ELSE sum[i - 1] + store[i]
  IN  sum[k]

\* Whether Block(m_outputBuffer) parses: its first segment says how many bytes
\* there are, and bytes after the end are ignored.  Otherwise the constructor
\* throws.
Parses(c, size, store) ==
  /\ c.output # <<>>
  /\ \E k \in DOMAIN c.output :
       /\ \A i \in 1 .. k : c.output[i] = c.output[1]
       /\ bytes(store[c.output[1]], k) >= size[c.output[1]]

==============================================================================
