------------------------------- MODULE Checker -------------------------------
(***************************************************************************)
(* A client checking Data against a ledger (class Checker,                 *)
(* src/checker.cpp): it asks for the record of the Data, fetches the       *)
(* segmented reply through its one pipeline (module SegmentFetch) and      *)
(* validates every record in it.                                           *)
(*                                                                         *)
(* The ledger answers with a segmented reply, an application Nack or other *)
(* Data.  The validator calls back at once, or later if it has to fetch a  *)
(* certificate first; the records of a reply it is taken to validate at    *)
(* once, since the code counts them in a variable that is gone later.  A   *)
(* failed transfer, or bytes that do not parse, end in an exception nobody *)
(* in the library catches: it leaves the event loop, and nothing more      *)
(* happens.                                                                *)
(***************************************************************************)
EXTENDS SegmentFetch

CONSTANTS
  Check,               \* the checks; the reply to a check is named after it
  Sizes,               \* the sizes of replies to consider, in bytes
  MaxRecords,          \* bound: records in a reply
  CHECKER_MAX_RETRIES, \* CheckerState::CHECKER_MAX_RETRIES
  Faulty,              \* whether Interests are lost or Nacked, Data is invalid
  Async                \* whether the validator may call back later

\* A callback for a consumer that the next check has replaced is undefined.
ASSUME CheckerAssumption ==
  /\ Reply = Check
  /\ Sizes \subseteq Nat \ {0}
  /\ MaxRecords \in Nat \ {0} /\ CHECKER_MAX_RETRIES \in Nat
  /\ {Faulty, Async} \subseteq BOOLEAN
  /\ Cardinality(Check) > 1 => ~ Async

VARIABLES
  size,      \* size[r]: the bytes of the block in reply r
  store,     \* store[r]: m_store of the producer of reply r
  check,     \* check[c]: the CheckerState of c and what came of it
  pipeline,  \* m_pipeline
  consumer,  \* m_consumer
  owner,     \* the checks (at most one) m_consumer was made for
  lost,      \* history: <<r, no>>, the segments whose fetcher gave up
  thrown     \* the exceptions (at most one) that have left the event loop

vars == <<size, store, check, pipeline, consumer, owner, lost, thrown>>

\* How many records of a reply are valid and how many are not.  A ledger never
\* sends a reply without records.
Records == {r \in [valid : 0 .. MaxRecords, invalid : 0 .. MaxRecords] :
              r.valid + r.invalid \in 1 .. MaxRecords}

\* accepted: the replies onSuccess was called with; failures: the calls of
\* onFailure; records: what was validated in the end.
CheckerState == [phase : {"idle", "pending", "fetching", "over"},
                 retryCount : 0 .. CHECKER_MAX_RETRIES + 2,
                 accepted : Seq(Reply), failures : Nat, records : SUBSET Records]

NewCheck == [phase |-> "idle", retryCount |-> 0,
             accepted |-> <<>>, failures |-> 0, records |-> {}]

Init == /\ size \in [Reply -> Sizes]
        /\ store = [r \in Reply |-> populateStore(size[r])]
        /\ check = [c \in Check |-> NewCheck]
        /\ pipeline = NewPipeline
        /\ consumer = NewConsumer
        /\ owner = {}
        /\ lost = {}
        /\ thrown = {}

------------------------------------------------------------------------------
(* Asking the ledger. *)

\* CheckerState::onFailure.
fail(k) == [k EXCEPT !.phase = "over", !.failures = @ + 1]

\* Mutant: running out of retries is not reported.
dispatchInterestSilent(k) ==
  LET sent == [k EXCEPT !.retryCount = @ + 1]
  IN  IF k.retryCount > CHECKER_MAX_RETRIES THEN sent
      ELSE [sent EXCEPT !.phase = "pending"]

\* dispatchInterest; exhaustRetries compares the count it had before.
dispatchInterest(k) ==
  LET sent == [k EXCEPT !.retryCount = @ + 1]
  IN  IF k.retryCount > CHECKER_MAX_RETRIES THEN fail(sent)
      ELSE [sent EXCEPT !.phase = "pending"]

DoCheck(c) ==
  /\ check[c].phase = "idle"
  /\ check' = [check EXCEPT ![c] = dispatchInterest(@)]
  /\ UNCHANGED <<size, store, pipeline, consumer, owner, lost, thrown>>

InterestTimeout(c) ==
  /\ Faulty
  /\ check[c].phase = "pending"
  /\ check' = [check EXCEPT ![c] = dispatchInterest([@ EXCEPT !.phase = "over"])]
  /\ UNCHANGED <<size, store, pipeline, consumer, owner, lost, thrown>>

\* A Nack of the network, Data that is not valid, a Nack of the ledger, or
\* Data of another form: each ends the check.
Refused(c) ==
  /\ check[c].phase = "pending"
  /\ check' = [check EXCEPT ![c] = fail(@)]
  /\ UNCHANGED <<size, store, pipeline, consumer, owner, lost, thrown>>

\* A valid segment of the reply: onValidationSuccess runs a new consumer on the
\* checker's pipeline.  The segment itself is not used.
RunConsumer(c) ==
  /\ check[c].phase = "pending"
  /\ check' = [check EXCEPT ![c].phase = "fetching"]
  /\ pipeline' = run(pipeline, c)
  /\ consumer' = NewConsumer
  /\ owner' = {c}
  /\ UNCHANGED <<size, store, lost, thrown>>

------------------------------------------------------------------------------
(* Fetching the reply. *)

\* Mutant: the last valid record is enough.
validateMultipleDataAny(k, reply, r) ==
  [k EXCEPT !.phase    = "over",
            !.accepted = IF r.valid > 0 THEN Append(@, reply) ELSE @,
            !.failures = @ + r.invalid,
            !.records  = {r}]

\* validateMultipleData, called by the finish callback with the records r of a
\* reply: success once all are valid, a failure for each that is not.
validateMultipleData(k, reply, r) ==
  [k EXCEPT !.phase    = "over",
            !.accepted = IF r.valid >= r.valid + r.invalid
                         THEN Append(@, reply) ELSE @,
            !.failures = @ + r.invalid,
            !.records  = {r}]

\* What the end of writeInOrderData does, in the consumer's new state c: if all
\* segments have been received, the output is parsed and handed over.
Finish(c, p) ==
  LET reply == c.output[1]
  IN  \/ /\ ~ allSegmentsReceived(p)
         /\ UNCHANGED <<check, thrown>>
      \/ /\ allSegmentsReceived(p) /\ Parses(c, size, store)
         /\ \E r \in Records, k \in owner :
              check' = [check EXCEPT ![k] = validateMultipleData(@, reply, r)]
         /\ UNCHANGED thrown
      \/ /\ allSegmentsReceived(p) /\ ~ Parses(c, size, store)
         /\ thrown' = {"parsing"}
         /\ UNCHANGED check

\* Segment no arrives: DataFetcher, pipeline and consumer handle it, and it is
\* found valid, now or later, or invalid; it waits if another one waits for the
\* certificate they share.  The consumer finishes, or throws, before the next
\* segment is asked for.
OnData(no, verdict) ==
  LET f == pipeline.fetcher[no]
      p == learnFinalBlockId([pipeline EXCEPT !.fetcher[no].status = "stopped"],
                             lastSegment(store[f.of]))
      q == [p EXCEPT !.nReceived = @ + 1]
      c == writeInOrderData(consumer, no, f.of)
  IN  /\ processSegmentInterest(store[f.of], no)
      /\ \/ /\ p.isStopping
            /\ pipeline' = p
            /\ UNCHANGED <<consumer, check, thrown>>
         \/ /\ ~ p.isStopping /\ verdict = "invalid" /\ Faulty
            /\ pipeline' = q
            /\ thrown' = {"segment"}
            /\ UNCHANGED <<consumer, check>>
         \/ /\ ~ p.isStopping /\ verdict = "valid" /\ consumer.validating = {}
            /\ pipeline' = IF allSegmentsReceived(q) THEN q
                           ELSE fetchNextSegment(q, f.pipe)
            /\ consumer' = c
            /\ Finish(c, q)
         \/ /\ ~ p.isStopping /\ verdict = "later" /\ Async
            /\ pipeline' = IF allSegmentsReceived(q) THEN q
                           ELSE fetchNextSegment(q, f.pipe)
            /\ consumer' = [consumer EXCEPT !.validating = @ \cup {no}]
            /\ UNCHANGED <<check, thrown>>
      /\ UNCHANGED <<size, store, owner, lost>>

\* The validator calls back for a segment that had to wait.
Validated(no) ==
  LET c == writeInOrderData(consumer, no, pipeline.fetcher[no].of)
  IN  /\ consumer' = c
      /\ Finish(c, pipeline)
      /\ UNCHANGED <<size, store, pipeline, owner, lost>>

\* Consumer::handleData's failure callback, and the one run gives the pipeline.
Throw == /\ \/ pipeline.failed /\ thrown' = {"transfer"}
            \/ Faulty /\ consumer.validating # {} /\ thrown' = {"segment"}
         /\ UNCHANGED <<size, store, check, pipeline, consumer, owner, lost>>

\* The fetcher f of segment no gives up.
GiveUp(no, f) ==
  /\ pipeline' = handleFail(
       [pipeline EXCEPT !.fetcher[no] = [f EXCEPT !.status = "error"]], f.pipe)
  /\ lost' = lost \cup {<<f.of, no>>}

Again(no, f) ==
  /\ pipeline' = [pipeline EXCEPT !.fetcher[no] = f]
  /\ UNCHANGED lost

\* Mutant: one retry too many.
SegmentTimeoutOneMore(no) ==
  LET f == [pipeline.fetcher[no] EXCEPT !.nTimeouts = @ + 1]
  IN  /\ Faulty
      /\ \/ f.nTimeouts <= maxRetries + 1 /\ Again(no, f)
         \/ f.nTimeouts > maxRetries + 1 /\ GiveUp(no, f)
      /\ UNCHANGED <<size, store, check, consumer, owner, thrown>>

\* DataFetcher::handleTimeout.
SegmentTimeout(no) ==
  LET f == [pipeline.fetcher[no] EXCEPT !.nTimeouts = @ + 1]
  IN  /\ Faulty
      /\ \/ f.nTimeouts <= maxRetries /\ Again(no, f)
         \/ f.nTimeouts > maxRetries /\ GiveUp(no, f)
      /\ UNCHANGED <<size, store, check, consumer, owner, thrown>>

\* DataFetcher::handleNack; a Nack for congestion or for a duplicate is retried,
\* any other is final.  The producer Nacks every segment it does not have.
SegmentNack(no, retriable) ==
  LET f == [pipeline.fetcher[no] EXCEPT !.nNacks = @ + 1]
  IN  /\ Faulty \/ (~ processSegmentInterest(store[f.of], no) /\ ~ retriable)
      /\ \/ f.nNacks <= maxRetries /\ retriable /\ Again(no, f)
         \/ (f.nNacks > maxRetries \/ ~ retriable) /\ GiveUp(no, f)
      /\ UNCHANGED <<size, store, check, consumer, owner, thrown>>

------------------------------------------------------------------------------

Respond(c) ==
  thrown = {} /\ (InterestTimeout(c) \/ Refused(c) \/ RunConsumer(c))

Answer(no) ==
  /\ thrown = {}
  /\ no \in Running(pipeline)
  /\ \/ \E verdict \in {"valid", "invalid", "later"} : OnData(no, verdict)
     \/ SegmentTimeout(no)
     \/ \E retriable \in BOOLEAN : SegmentNack(no, retriable)

Callback ==
  /\ thrown = {}
  /\ Throw \/ \E no \in consumer.validating : Validated(no)

\* Nothing is left to happen: every check has been made and nothing is under
\* way, or an exception has left the event loop.
Quiet ==
  /\ \/ thrown # {}
     \/ /\ \A c \in Check : check[c].phase \notin {"idle", "pending"}
        /\ Running(pipeline) = {} /\ ~ pipeline.failed /\ consumer.validating = {}
  /\ UNCHANGED vars

Next == \/ \E c \in Check : (thrown = {} /\ DoCheck(c)) \/ Respond(c)
        \/ \E no \in Running(pipeline) : Answer(no)
        \/ Callback
        \/ Quiet

Spec == Init /\ [][Next]_vars

\* An Interest is answered or times out, and callbacks are called.  No pipeline
\* asks for more segments than the window and the longest replies have.
MaxSegment ==
  LET numbers == UNION {DOMAIN populateStore(s) : s \in Sizes}
  IN  Cardinality(Check) * (maxPipelineSize + Cardinality(numbers))

Fairness == /\ \A c \in Check : WF_vars(Respond(c))
            /\ \A no \in 0 .. MaxSegment : WF_vars(Answer(no))
            /\ WF_vars(Callback)

FairSpec == Spec /\ Fairness

------------------------------------------------------------------------------
(* Properties. *)

\* The variables keep their types.
TypeOK == /\ size \in [Reply -> Sizes]
          /\ store \in [Reply -> Seq(1 .. maxSegmentSize)]
          /\ \A c \in Check : check[c] \in CheckerState
          /\ IsPipeline(pipeline)
          /\ IsConsumer(consumer)
          /\ owner \subseteq Check
          /\ lost \subseteq Reply \X Nat
          /\ thrown \subseteq {"segment", "transfer", "parsing"}

\* "all segments have been received" is decided by counting: what was counted
\* are different segments of the reply, each written, buffered or validating.
CountIsExact ==
  LET buffered == DOMAIN consumer.bufferedData
      held     == buffered \cup consumer.validating
  IN  thrown # {} \/ \A c \in owner :
      /\ Len(consumer.output) <= lastSegment(store[c]) + 1
      /\ held \subseteq Len(consumer.output) .. lastSegment(store[c])
      /\ buffered \cap consumer.validating = {}
      /\ pipeline.nReceived = Len(consumer.output) + Cardinality(held)

\* However late and in whatever order segments come and are validated: once all
\* have been received and validated, the whole reply has been handed over, and
\* parsing it has not failed.  (It fails while a validation is outstanding.)
AllReceivedDelivers ==
  /\ allSegmentsReceived(pipeline)
  /\ consumer.validating = {}
  /\ thrown \subseteq {"parsing"}
  => \A c \in owner : /\ check[c].phase = "over"
                      /\ bytes(store[c], Len(consumer.output)) = size[c]

\* After the verdict on a reply nothing of its transfer is left that could call
\* back: no fetcher runs, no validation is outstanding, nothing has failed.
QuietAfterVerdict ==
  \A c \in owner : check[c].records # {} =>
    /\ Running(pipeline) = {} /\ consumer.validating = {}
    /\ ~ pipeline.failed /\ thrown = {}

\* The transfer fails only if a segment of the content could not be fetched, as
\* long as the window is not larger than the content.
FailureJustified ==
  \A c \in owner : pipeline.failed /\ maxPipelineSize <= lastSegment(store[c]) + 1 =>
                     \E no \in 0 .. lastSegment(store[c]) : <<c, no>> \in lost

\* A verdict can be trusted: onSuccess is called at most once, never together
\* with onFailure, and only with a reply whose records are all valid; and a
\* record that is not valid is always reported.
VerdictSound ==
  \A c \in Check :
    /\ Len(check[c].accepted) <= 1
    /\ check[c].accepted # <<>> => /\ check[c].failures = 0
                                   /\ \A r \in check[c].records : r.invalid = 0
    /\ \A r \in check[c].records : r.invalid > 0 => check[c].failures > 0

\* Every check ends: the caller hears of it, or an exception reaches it.
CheckEnds ==
  \A c \in Check : check[c].phase = "pending" ~>
    \/ check[c].accepted # <<>> \/ check[c].failures > 0
    \/ thrown # {}

\* "start fetching all the segments of the specified prefix": whenever a check
\* runs the pipeline for its reply, that reply is what it gets in the end, or
\* the caller hears of a failure.
FetchesOwnReply ==
  \A c \in Check : check[c].phase = "fetching" ~>
    \/ check[c].accepted = <<c>> \/ check[c].failures > 0
    \/ thrown # {}

==============================================================================
