----------------------------- MODULE CheckerProofs -----------------------------
(***************************************************************************)
(* Theorems about module Checker, for a Checker that makes one check c:    *)
(* for every size of the reply, of a segment and of the window, every      *)
(* number of retries, and a validator that calls back whenever it likes.   *)
(* Two checks that share the pipeline spoil each other (FetchesOwnReply),  *)
(* so nothing is claimed about them.                                       *)
(***************************************************************************)
EXTENDS Checker, SegmentFetchTheorems

\* The state k of the check: what the caller was told is what the records say,
\* and it was told nothing before the check is over.
Told(k, c) ==
  /\ k.phase \in {"idle", "pending"} => k.retryCount <= CHECKER_MAX_RETRIES + 1
  /\ k.phase # "over" => k.accepted = <<>> /\ k.failures = 0 /\ k.records = {}
  /\ k.records = {} => k.accepted = <<>>
  /\ \A r \in k.records : /\ k.failures = r.invalid
                          /\ k.accepted = IF r.invalid = 0 THEN <<c>> ELSE <<>>

\* Before the ledger has answered nothing has been fetched.
Waiting(k, p, u, gone, ex) ==
  /\ k.phase # "fetching" /\ k.records = {}
  /\ p = NewPipeline /\ u = NewConsumer /\ gone = {} /\ ex = {}

\* How far the check is, given that its consumer is u and the exceptions are
\* ex: there is a verdict as soon as everything is there, and not before.
Settled(k, u, last, ex) ==
  /\ k.phase \in {"fetching", "over"} /\ (k.phase = "over" <=> k.records # {})
  /\ ex = {} /\ u.validating = {} /\ Received(u) = 0 .. last => k.records # {}
  /\ ex = {"parsing"} => u.validating # {}
  /\ k.records # {} => ex = {} /\ u.validating = {}

\* While the reply is fetched, the last segment of which is last.
Fetching(c, k, p, u, last, gone, ex) ==
  /\ PipelineInv(p, c, last, gone) /\ ConsumerInv(u, last)
  /\ ex = {} => Accounted(p, u)
  /\ Settled(k, u, last, ex)
  /\ k.records # {} => Running(p) = {} /\ ~ p.failed

\* The inductive invariant.
CInv(c) ==
  /\ size \in [Reply -> Sizes] /\ store = [r \in Reply |-> populateStore(size[r])]
  /\ check \in [Check -> CheckerState] /\ Told(check[c], c)
  /\ lost \subseteq Reply \X Nat
  /\ thrown \subseteq {"segment", "transfer", "parsing"}
  /\ \/ owner = {} /\ Waiting(check[c], pipeline, consumer, lost, thrown)
     \/ owner = {c} /\ Fetching(c, check[c], pipeline, consumer,
                                lastSegment(store[c]), lost, thrown)

\* The reply is cut into at least one segment.
LEMMA StoreOf ==
  ASSUME NEW c, Check = {c}, size \in [Reply -> Sizes],
         store = [r \in Reply |-> populateStore(size[r])]
  PROVE  /\ Reply = {c} /\ size[c] \in Nat \ {0} /\ store[c] = populateStore(size[c])
         /\ lastSegment(store[c]) \in Nat /\ Len(store[c]) = lastSegment(store[c]) + 1
         /\ store[c] \in Seq(1 .. maxSegmentSize)
<1>1. Reply = {c} /\ Sizes \subseteq Nat \ {0}
  BY CheckerAssumption
<1>2. size[c] \in Nat \ {0} /\ store[c] = populateStore(size[c])
  BY <1>1
<1> QED
  BY <1>1, <1>2, Segments

\* While a fetcher runs or a validation is outstanding there is no verdict.
LEMMA UnderWay ==
  ASSUME NEW c, CInv(c), thrown = {},
         Running(pipeline) # {} \/ consumer.validating # {} \/ pipeline.failed
  PROVE  /\ owner = {c} /\ check[c].phase = "fetching"
         /\ PipelineInv(pipeline, c, lastSegment(store[c]), lost)
         /\ ConsumerInv(consumer, lastSegment(store[c]))
         /\ Accounted(pipeline, consumer)
         /\ Settled(check[c], consumer, lastSegment(store[c]), thrown)
         /\ check[c].records = {}
<1>1. /\ NewPipeline.fetcher = <<>> /\ NewConsumer.validating = {}
      /\ NewPipeline.failed = FALSE
  BY DEF NewPipeline, NewConsumer
<1>2. Running(NewPipeline) = {}
  BY <1>1 DEF Running
<1>3. ~ Waiting(check[c], pipeline, consumer, lost, thrown)
  BY <1>1, <1>2 DEF Waiting
<1>4. owner = {c} /\ Fetching(c, check[c], pipeline, consumer,
                              lastSegment(store[c]), lost, thrown)
  BY <1>3 DEF CInv
<1> QED
  BY <1>4 DEF Fetching, Settled

\* A Checker that was just made.
LEMMA InitInv ==
  ASSUME NEW c, Check = {c}, Init
  PROVE  CInv(c)
<1>1. check[c] = NewCheck /\ check \in [Check -> CheckerState]
  <2>1. NewCheck \in CheckerState
    BY CheckerAssumption DEF NewCheck, CheckerState
  <2> QED
    BY <2>1 DEF Init
<1>2. Told(NewCheck, c)
  BY CheckerAssumption DEF Told, NewCheck
<1>3. Waiting(NewCheck, pipeline, consumer, lost, thrown)
  BY DEF Init, Waiting, NewCheck
<1> QED
  BY <1>1, <1>2, <1>3 DEF Init, CInv

------------------------------------------------------------------------------
(* Asking the ledger. *)

\* A failure is counted and ends the check.
LEMMA FailEffect ==
  ASSUME NEW k \in CheckerState, NEW q, q = fail(k)
  PROVE  /\ q \in CheckerState /\ q.phase = "over"
         /\ q.records = k.records /\ q.accepted = k.accepted
<1>1. PICK n : n = k.failures + 1
  OBVIOUS
<1>2. n \in Nat /\ q = [k EXCEPT !.phase = "over", !.failures = n]
  BY <1>1 DEF CheckerState, fail
<1> QED
  BY <1>2 DEF CheckerState

\* A check that is not over is asked for again or fails.
LEMMA DispatchEffect ==
  ASSUME NEW c, NEW k \in CheckerState, Told(k, c), k.records = {},
         k.accepted = <<>>, k.retryCount <= CHECKER_MAX_RETRIES + 1,
         k.failures = 0,
         NEW q, q = dispatchInterest(k)
  PROVE  /\ q \in CheckerState /\ Told(q, c)
         /\ q.records = {} /\ q.phase # "fetching"
<1> DEFINE n == k.retryCount + 1
           s == [k EXCEPT !.retryCount = n]
           t == fail(s)
           u == [s EXCEPT !.phase = "pending"]
<1>1. /\ CHECKER_MAX_RETRIES \in Nat /\ k.retryCount \in Nat
      /\ n \in 0 .. CHECKER_MAX_RETRIES + 2
  BY CheckerAssumption DEF CheckerState
<1>2. q = IF k.retryCount > CHECKER_MAX_RETRIES THEN t ELSE u
  BY DEF dispatchInterest
<1>3. k.retryCount <= CHECKER_MAX_RETRIES => n <= CHECKER_MAX_RETRIES + 1
  BY <1>1
<1> HIDE DEF n
<1>4. /\ s \in CheckerState /\ s.retryCount = n /\ s.records = {} /\ s.accepted = <<>>
      /\ s.failures = 0
  BY <1>1 DEF CheckerState
<1> HIDE DEF s
<1>5. CASE k.retryCount > CHECKER_MAX_RETRIES
  <2>1. /\ t \in CheckerState /\ t.phase = "over" /\ t.records = {} /\ t.accepted = <<>>
    BY <1>4, FailEffect
  <2> QED
    BY <1>2, <1>5, <2>1 DEF Told
<1>6. CASE ~ (k.retryCount > CHECKER_MAX_RETRIES)
  <2>1. /\ u \in CheckerState /\ u.phase = "pending" /\ u.records = {} /\ u.accepted = <<>>
        /\ u.failures = 0 /\ u.retryCount = n
    BY <1>4 DEF CheckerState
  <2>2. n <= CHECKER_MAX_RETRIES + 1
    BY <1>1, <1>3, <1>6
  <2> QED
    BY <1>2, <1>6, <2>1, <2>2 DEF Told
<1> QED
  BY <1>5, <1>6

\* A step that only changes a check that waits for the ledger.
LEMMA AskingStep ==
  ASSUME NEW c, Check = {c}, CInv(c), check[c].phase \in {"idle", "pending"},
         NEW k \in CheckerState, Told(k, c), k.records = {}, k.phase # "fetching",
         check' = [check EXCEPT ![c] = k],
         UNCHANGED <<size, store, pipeline, consumer, owner, lost, thrown>>
  PROVE  CInv(c)'
<1>1. owner = {} /\ Waiting(check[c], pipeline, consumer, lost, thrown)
  BY DEF CInv, Fetching, Settled
<1>2. check' \in [Check -> CheckerState] /\ check'[c] = k
  BY DEF CInv
<1>3. Waiting(k, pipeline, consumer, lost, thrown)
  BY <1>1 DEF Waiting
<1> QED
  BY <1>1, <1>2, <1>3 DEF CInv

\* doCheck sends the first Interest.
LEMMA DoCheckStep ==
  ASSUME NEW c, Check = {c}, CInv(c), DoCheck(c)
  PROVE  CInv(c)'
<1>1. PICK k : k = dispatchInterest(check[c])
  OBVIOUS
<1>2. /\ check[c] \in CheckerState /\ Told(check[c], c) /\ check[c].phase = "idle"
      /\ check' = [check EXCEPT ![c] = k]
  BY <1>1 DEF CInv, DoCheck
<1>3. /\ check[c].records = {} /\ check[c].accepted = <<>> /\ check[c].failures = 0
      /\ check[c].retryCount <= CHECKER_MAX_RETRIES + 1
  BY <1>2 DEF Told
<1>4. k \in CheckerState /\ Told(k, c) /\ k.records = {} /\ k.phase # "fetching"
  BY <1>1, <1>2, <1>3, DispatchEffect
<1>5. UNCHANGED <<size, store, pipeline, consumer, owner, lost, thrown>>
  BY DEF DoCheck
<1> QED
  BY <1>2, <1>4, <1>5, AskingStep

\* The Interest for the record times out, and is sent again while retries are left.
LEMMA InterestTimeoutStep ==
  ASSUME NEW c, Check = {c}, CInv(c), InterestTimeout(c)
  PROVE  CInv(c)'
<1>1. PICK j : j = [check[c] EXCEPT !.phase = "over"]
  OBVIOUS
<1>2. PICK k : k = dispatchInterest(j)
  OBVIOUS
<1>3. /\ check[c] \in CheckerState /\ Told(check[c], c) /\ check[c].phase = "pending"
      /\ check' = [check EXCEPT ![c] = k]
  BY <1>1, <1>2 DEF CInv, InterestTimeout
<1>4. /\ check[c].records = {} /\ check[c].accepted = <<>> /\ check[c].failures = 0
      /\ check[c].retryCount <= CHECKER_MAX_RETRIES + 1
  BY <1>3 DEF Told
<1>5. /\ j \in CheckerState /\ j.records = {} /\ j.accepted = <<>> /\ j.failures = 0
      /\ j.retryCount = check[c].retryCount /\ j.phase = "over"
  BY <1>1, <1>3, <1>4 DEF CheckerState
<1>6. Told(j, c)
  BY <1>5 DEF Told
<1>7. k \in CheckerState /\ Told(k, c) /\ k.records = {} /\ k.phase # "fetching"
  BY <1>2, <1>4, <1>5, <1>6, DispatchEffect
<1>8. UNCHANGED <<size, store, pipeline, consumer, owner, lost, thrown>>
  BY DEF InterestTimeout
<1> QED
  BY <1>3, <1>7, <1>8, AskingStep

\* The ledger, or the network, refuses.
LEMMA RefusedStep ==
  ASSUME NEW c, Check = {c}, CInv(c), Refused(c)
  PROVE  CInv(c)'
<1>1. PICK k : k = fail(check[c])
  OBVIOUS
<1>2. /\ check[c] \in CheckerState /\ Told(check[c], c) /\ check[c].phase = "pending"
      /\ check' = [check EXCEPT ![c] = k]
  BY <1>1 DEF CInv, Refused
<1>3. check[c].records = {} /\ check[c].accepted = <<>>
  BY <1>2 DEF Told
<1>4. k \in CheckerState /\ k.phase = "over" /\ k.records = {} /\ k.accepted = <<>>
  BY <1>1, <1>2, <1>3, FailEffect
<1>5. Told(k, c)
  BY <1>4 DEF Told
<1>6. UNCHANGED <<size, store, pipeline, consumer, owner, lost, thrown>>
  BY DEF Refused
<1> QED
  BY <1>2, <1>4, <1>5, <1>6, AskingStep

\* The consumer of the check is run on a pipeline that is new.
LEMMA RunConsumerStep ==
  ASSUME NEW c, Check = {c}, CInv(c), thrown = {}, RunConsumer(c)
  PROVE  CInv(c)'
<1>1. PICK k : k = [check[c] EXCEPT !.phase = "fetching"]
  OBVIOUS
<1>2. PICK last : last = lastSegment(store[c])
  OBVIOUS
<1>3. /\ check[c] \in CheckerState /\ Told(check[c], c) /\ check[c].phase = "pending"
      /\ check' = [check EXCEPT ![c] = k] /\ check \in [Check -> CheckerState]
  BY <1>1 DEF CInv, RunConsumer
<1>4. Reply = {c} /\ last \in Nat
  BY <1>2, StoreOf DEF CInv
<1>5. pipeline = NewPipeline /\ lost = {}
  BY <1>3 DEF CInv, Waiting, Fetching, Settled
<1>6. /\ k \in CheckerState /\ k.phase = "fetching" /\ k.accepted = <<>>
      /\ k.failures = 0 /\ k.records = {}
  BY <1>1, <1>3 DEF CheckerState, Told
<1>7. Told(k, c)
  BY <1>6 DEF Told
<1>8. check' \in [Check -> CheckerState] /\ check'[c] = k
  BY <1>3, <1>6
<1>9. PipelineInv(pipeline', c, last, lost') /\ pipeline'.nReceived = 0
  BY <1>4, <1>5, RunInv DEF RunConsumer
<1>10. ConsumerInv(consumer', last) /\ Received(consumer') = {}
  BY <1>4, NewConsumerInv DEF RunConsumer
<1>11. Accounted(pipeline', consumer')
  BY <1>9, <1>10, FS_EmptySet DEF Accounted
<1>12. thrown' = {} /\ 0 \in 0 .. last
  BY <1>4 DEF RunConsumer
<1>13. Settled(k, consumer', last, thrown')
  BY <1>6, <1>10, <1>12 DEF Settled
<1>14. Fetching(c, k, pipeline', consumer', last, lost', thrown')
  BY <1>6, <1>9, <1>10, <1>11, <1>13 DEF Fetching
<1> QED
  BY <1>2, <1>7, <1>8, <1>14 DEF CInv, RunConsumer

------------------------------------------------------------------------------
(* Fetching the reply. *)

\* The validated records of a reply are what the caller is told.
LEMMA VerdictEffect ==
  ASSUME NEW c, c \in Reply, NEW k \in CheckerState, k.accepted = <<>>, k.failures = 0,
         NEW r \in Records, NEW q, q = validateMultipleData(k, c, r)
  PROVE  q \in CheckerState /\ q.phase = "over" /\ q.records = {r} /\ Told(q, c)
<1>1. r.valid \in Nat /\ r.invalid \in Nat
  BY CheckerAssumption DEF Records
<1>2. PICK n : n = r.invalid
  OBVIOUS
<1>3. PICK a : a = IF n = 0 THEN <<c>> ELSE <<>>
  OBVIOUS
<1>4. r.valid >= r.valid + r.invalid <=> n = 0
  BY <1>1, <1>2
<1>5. k.failures + r.invalid = n
  BY <1>1, <1>2
<1>6. Append(k.accepted, c) = <<c>>
  OBVIOUS
<1>7. q = [k EXCEPT !.phase = "over", !.accepted = a, !.failures = n, !.records = {r}]
  BY <1>3, <1>4, <1>5, <1>6 DEF validateMultipleData
<1>8. a \in Seq(Reply) /\ n \in Nat /\ {r} \in SUBSET Records
  BY <1>1, <1>2, <1>3
<1>9. /\ q \in CheckerState /\ q.phase = "over" /\ q.records = {r}
      /\ q.accepted = a /\ q.failures = n
  BY <1>7, <1>8 DEF CheckerState
<1> QED
  BY <1>2, <1>3, <1>9 DEF Told

\* What the end of writeInOrderData leaves: a verdict exactly when everything
\* was received and validated, and an exception only while something is still
\* to be validated.
LEMMA FinishEffect ==
  ASSUME NEW c, Check = {c}, size \in [Reply -> Sizes],
         store = [r \in Reply |-> populateStore(size[r])],
         check \in [Check -> CheckerState], Told(check[c], c),
         check[c].phase = "fetching", owner = {c}, thrown = {},
         NEW u, ConsumerInv(u, lastSegment(store[c])),
         NEW p, PipelineInv(p, c, lastSegment(store[c]), lost), Accounted(p, u),
         Finish(u, p)
  PROVE  /\ check' \in [Check -> CheckerState] /\ Told(check'[c], c)
         /\ thrown' \subseteq {"segment", "transfer", "parsing"}
         /\ Settled(check'[c], u, lastSegment(store[c]), thrown')
         /\ check'[c].records # {} => allSegmentsReceived(p)
<1>1. PICK last : last = lastSegment(store[c])
  OBVIOUS
<1>2. Reply = {c} /\ last \in Nat /\ size[c] \in Nat \ {0}
      /\ store[c] = populateStore(size[c])
  BY <1>1, StoreOf
<1>3. /\ check[c] \in CheckerState /\ check[c].records = {} /\ check[c].accepted = <<>>
      /\ check[c].failures = 0
  BY DEF Told
<1>4. allSegmentsReceived(p) <=> Received(u) = 0 .. last
  BY <1>1, <1>2, AllReceived
<1>5. Parses(u, size, store) <=> Len(u.output) = last + 1
  BY <1>1, <1>2, ParsesWhole
<1>6. Received(u) = 0 .. last => (u.validating = {} <=> Len(u.output) = last + 1)
  BY <1>1, <1>2, WholeOutput
<1>7. CASE ~ allSegmentsReceived(p) /\ UNCHANGED <<check, thrown>>
  <2>1. Settled(check[c], u, last, thrown)
    BY <1>3, <1>4, <1>7 DEF Settled
  <2> QED
    BY <1>1, <1>3, <1>7, <2>1
<1>8. CASE /\ allSegmentsReceived(p) /\ Parses(u, size, store)
           /\ \E r \in Records, k \in owner :
                check' = [check EXCEPT ![k] = validateMultipleData(@, u.output[1], r)]
           /\ UNCHANGED thrown
  <2>1. u.output[1] = c
    BY <1>1, <1>2, <1>5, <1>8 DEF ConsumerInv
  <2>2. PICK r \in Records :
          check' = [check EXCEPT ![c] = validateMultipleData(check[c], c, r)]
    BY <1>8, <2>1
  <2>3. PICK q : q = validateMultipleData(check[c], c, r)
    OBVIOUS
  <2>4. q \in CheckerState /\ q.phase = "over" /\ q.records = {r} /\ Told(q, c)
    BY <1>2, <1>3, <2>3, VerdictEffect
  <2>5. check' \in [Check -> CheckerState] /\ check'[c] = q
    BY <2>2, <2>3, <2>4
  <2>6. Settled(q, u, last, thrown)
    BY <1>4, <1>5, <1>6, <1>8, <2>4 DEF Settled
  <2> QED
    BY <1>1, <1>8, <2>4, <2>5, <2>6
<1>9. CASE /\ allSegmentsReceived(p) /\ ~ Parses(u, size, store)
           /\ thrown' = {"parsing"} /\ UNCHANGED check
  <2>1. u.validating # {}
    BY <1>4, <1>5, <1>6, <1>9
  <2>2. Settled(check[c], u, last, thrown')
    BY <1>3, <1>9, <2>1 DEF Settled
  <2> QED
    BY <1>1, <1>3, <1>9, <2>2
<1> QED
  BY <1>7, <1>8, <1>9 DEF Finish

\* A segment that arrives is not one the consumer has.
LEMMA FirstArrival ==
  ASSUME NEW c, CInv(c), Check = {c}, thrown = {}, NEW no \in Running(pipeline)
  PROVE  /\ no \in Nat /\ no \notin Received(consumer)
         /\ pipeline.fetcher[no] \in Fetcher /\ pipeline.fetcher[no].of = c
         /\ no <= lastSegment(store[c]) =>
              /\ no \in Len(consumer.output) .. lastSegment(store[c])
              /\ no \notin DOMAIN consumer.bufferedData
              /\ pipeline.nReceived <= lastSegment(store[c])
<1>1. PICK last : last = lastSegment(store[c])
  OBVIOUS
<1>2. Reply = {c} /\ last \in Nat
  BY <1>1, StoreOf DEF CInv
<1>3. /\ PipelineInv(pipeline, c, last, lost) /\ ConsumerInv(consumer, last)
      /\ Accounted(pipeline, consumer)
  BY <1>1, UnderWay
<1>4. /\ no \in Nat /\ pipeline.fetcher[no] \in Fetcher
      /\ pipeline.fetcher[no].status = "running"
  BY <1>3 DEF PipelineInv, Places, Running
<1>5. no \notin Received(consumer)
  BY <1>3, <1>4 DEF Accounted
<1>6. pipeline.fetcher[no].of = c
  BY <1>2, <1>4 DEF Fetcher
<1>7. ASSUME no <= last
      PROVE  /\ no \in Len(consumer.output) .. last
             /\ no \notin DOMAIN consumer.bufferedData
             /\ pipeline.nReceived <= last
  <2>1. Len(consumer.output) \in Nat
    BY <1>3 DEF ConsumerInv
  <2>2. no \in 0 .. last
    BY <1>2, <1>4, <1>7
  <2>3. pipeline.nReceived <= last
    BY <1>2, <1>3, <1>5, <2>2, CountMissing DEF Accounted
  <2> QED
    BY <1>2, <1>5, <2>1, <2>2, <2>3 DEF Received
<1> QED
  BY <1>1, <1>4, <1>5, <1>6, <1>7

\* A segment arrives, before or after the transfer has failed, and is valid,
\* invalid, or has to wait for its certificate.
LEMMA OnDataStep ==
  ASSUME NEW c, Check = {c}, CInv(c), thrown = {}, NEW no \in Running(pipeline),
         NEW verdict, OnData(no, verdict)
  PROVE  CInv(c)'
<1>1. PICK last : last = lastSegment(store[c])
  OBVIOUS
<1>2. PICK i : i = pipeline.fetcher[no].pipe
  OBVIOUS
<1>3. PICK p : p = learnFinalBlockId(Stopped(pipeline, no), last)
  OBVIOUS
<1>4. PICK q : q = [p EXCEPT !.nReceived = @ + 1]
  OBVIOUS
<1>5. PICK s : s = IF allSegmentsReceived(q) THEN q ELSE fetchNextSegment(q, i)
  OBVIOUS
<1>6. PICK u : u = writeInOrderData(consumer, no, c)
  OBVIOUS
<1>7. /\ owner = {c} /\ check[c].phase = "fetching"
      /\ PipelineInv(pipeline, c, last, lost) /\ ConsumerInv(consumer, last)
      /\ Accounted(pipeline, consumer) /\ check[c].records = {}
      /\ Settled(check[c], consumer, last, thrown)
  BY <1>1, UnderWay
<1>8. /\ Reply = {c} /\ last \in Nat /\ Len(store[c]) = last + 1
  BY <1>1, StoreOf DEF CInv
<1>9. pipeline.fetcher[no].of = c /\ no \in Nat /\ no \notin Received(consumer)
  BY FirstArrival
<1>10. /\ no < Len(store[c])
       /\ \/ /\ p.isStopping /\ pipeline' = p /\ UNCHANGED <<consumer, check, thrown>>
          \/ /\ ~ p.isStopping /\ pipeline' = q /\ thrown' = {"segment"}
             /\ UNCHANGED <<consumer, check>>
          \/ /\ ~ p.isStopping /\ pipeline' = s /\ consumer' = u /\ Finish(u, q)
          \/ /\ ~ p.isStopping /\ pipeline' = s /\ UNCHANGED <<check, thrown>>
             /\ consumer' = [consumer EXCEPT !.validating = @ \cup {no}]
       /\ UNCHANGED <<size, store, owner, lost>>
  BY <1>1, <1>2, <1>3, <1>4, <1>5, <1>6, <1>9
     DEF OnData, processSegmentInterest, Stopped
<1>11. no \in 0 .. last /\ no \in Len(consumer.output) .. last
       /\ no \notin DOMAIN consumer.bufferedData
  BY <1>1, <1>8, <1>9, <1>10, FirstArrival
<1>12. /\ PipelineInv(p, c, last, lost) /\ Keeps(pipeline, p) /\ i \in Pipes
       /\ no \in DOMAIN p.fetcher /\ p.fetcher[no].status # "running"
       /\ ~ p.isStopping => p.hasFinalBlockId
                            /\ \A n \in Running(p) : p.fetcher[n].pipe # i
  BY <1>2, <1>3, <1>7, <1>8, ArrivesInv
<1>13. Accounted(p, consumer)
  BY <1>7, <1>12, AccountedKept
<1>14. ASSUME ~ p.isStopping
       PROVE  /\ PipelineInv(q, c, last, lost) /\ PipelineInv(s, c, last, lost)
              /\ q.fetcher = p.fetcher /\ q.nReceived = p.nReceived + 1
              /\ Keeps(q, s)
  BY <1>4, <1>5, <1>8, <1>12, <1>14, CountedInv
<1>15. ASSUME ~ p.isStopping, NEW k, Received(k) = Received(consumer) \cup {no}
       PROVE  Accounted(q, k) /\ Accounted(s, k)
  <2>1. Cardinality(Received(k)) = Cardinality(Received(consumer)) + 1
    BY <1>7, <1>8, <1>9, <1>11, <1>15, CountMissing
  <2>2. q.nReceived = Cardinality(Received(k))
    BY <1>13, <1>14, <1>15, <2>1 DEF Accounted
  <2>3. Accounted(q, k)
    BY <1>12, <1>13, <1>14, <1>15, <2>2 DEF Accounted
  <2> QED
    BY <1>14, <1>15, <2>3, AccountedKept
<1>16. size' = size /\ store' = store /\ owner' = owner /\ lost' = lost
  BY <1>10
<1>17. CASE p.isStopping /\ pipeline' = p /\ UNCHANGED <<consumer, check, thrown>>
  <2>1. Fetching(c, check[c], p, consumer, last, lost, thrown)
    BY <1>7, <1>12, <1>13 DEF Fetching
  <2> QED
    BY <1>1, <1>7, <1>16, <1>17, <2>1 DEF CInv
<1>18. CASE /\ ~ p.isStopping /\ pipeline' = q /\ thrown' = {"segment"}
            /\ UNCHANGED <<consumer, check>>
  <2>1. Settled(check[c], consumer, last, thrown')
    BY <1>7, <1>18 DEF Settled
  <2>2. Fetching(c, check[c], q, consumer, last, lost, thrown')
    BY <1>7, <1>14, <1>18, <2>1 DEF Fetching
  <2> QED
    BY <1>1, <1>7, <1>16, <1>18, <2>2 DEF CInv
<1>19. CASE ~ p.isStopping /\ pipeline' = s /\ consumer' = u /\ Finish(u, q)
  <2>1. ConsumerInv(u, last) /\ Received(u) = Received(consumer) \cup {no}
    BY <1>6, <1>7, <1>8, <1>11, WriteInv
  <2>2. Accounted(q, u) /\ Accounted(s, u)
    BY <1>15, <1>19, <2>1
  <2>3. /\ check' \in [Check -> CheckerState] /\ Told(check'[c], c)
        /\ thrown' \subseteq {"segment", "transfer", "parsing"}
        /\ Settled(check'[c], u, last, thrown')
        /\ check'[c].records # {} => allSegmentsReceived(q)
    BY <1>1, <1>7, <1>14, <1>19, <2>1, <2>2, FinishEffect DEF CInv
  <2>4. check'[c].records # {} => Running(s) = {} /\ ~ s.failed
    BY <1>5, <1>8, <1>14, <1>19, <2>1, <2>2, <2>3, AllReceivedQuiet
  <2>5. Fetching(c, check'[c], s, u, last, lost, thrown')
    BY <1>14, <1>19, <2>1, <2>2, <2>3, <2>4 DEF Fetching
  <2> QED
    BY <1>1, <1>7, <1>16, <1>19, <2>3, <2>5 DEF CInv
<1>20. CASE /\ ~ p.isStopping /\ pipeline' = s /\ UNCHANGED <<check, thrown>>
            /\ consumer' = [consumer EXCEPT !.validating = @ \cup {no}]
  <2>1. /\ ConsumerInv(consumer', last) /\ consumer'.validating # {}
        /\ Received(consumer') = Received(consumer) \cup {no}
    BY <1>7, <1>8, <1>9, <1>11, <1>20, ValidateInv
  <2>2. Accounted(s, consumer')
    BY <1>15, <1>20, <2>1
  <2>3. Settled(check[c], consumer', last, thrown)
    BY <1>7, <2>1 DEF Settled
  <2>4. Fetching(c, check[c], s, consumer', last, lost, thrown)
    BY <1>7, <1>14, <1>20, <2>1, <2>2, <2>3 DEF Fetching
  <2> QED
    BY <1>1, <1>7, <1>16, <1>20, <2>4 DEF CInv
<1> QED
  BY <1>10, <1>17, <1>18, <1>19, <1>20

\* A segment that had to wait is validated.
LEMMA ValidatedStep ==
  ASSUME NEW c, Check = {c}, CInv(c), thrown = {}, NEW no \in consumer.validating,
         Validated(no)
  PROVE  CInv(c)'
<1>1. PICK last : last = lastSegment(store[c])
  OBVIOUS
<1>2. PICK u : u = writeInOrderData(consumer, no, c)
  OBVIOUS
<1>3. /\ owner = {c} /\ check[c].phase = "fetching"
      /\ PipelineInv(pipeline, c, last, lost) /\ ConsumerInv(consumer, last)
      /\ Accounted(pipeline, consumer) /\ check[c].records = {}
  BY <1>1, UnderWay
<1>4. Reply = {c} /\ last \in Nat
  BY <1>1, StoreOf DEF CInv
<1>5. /\ no \in Received(consumer) /\ no \in Len(consumer.output) .. last
      /\ no \notin DOMAIN consumer.bufferedData
  BY <1>3 DEF ConsumerInv, Received
<1>6. pipeline.fetcher[no].of = c
  BY <1>3, <1>4, <1>5 DEF Accounted, PipelineInv, Places, Fetcher
<1>7. /\ consumer' = u /\ Finish(u, pipeline)
      /\ UNCHANGED <<size, store, pipeline, owner, lost>>
  BY <1>2, <1>6 DEF Validated
<1>8. ConsumerInv(u, last) /\ Received(u) = Received(consumer) \cup {no}
  BY <1>2, <1>3, <1>4, <1>5, WriteInv
<1>9. Accounted(pipeline, u)
  <2>1. Received(u) = Received(consumer)
    BY <1>5, <1>8
  <2> QED
    BY <1>3, <2>1 DEF Accounted
<1>10. /\ check' \in [Check -> CheckerState] /\ Told(check'[c], c)
       /\ thrown' \subseteq {"segment", "transfer", "parsing"}
       /\ Settled(check'[c], u, last, thrown')
       /\ check'[c].records # {} => allSegmentsReceived(pipeline)
  BY <1>1, <1>3, <1>7, <1>8, <1>9, FinishEffect DEF CInv
<1>11. check'[c].records # {} => Running(pipeline) = {} /\ ~ pipeline.failed
  BY <1>3, <1>4, <1>8, <1>9, <1>10, AllReceivedQuiet
<1>12. Fetching(c, check'[c], pipeline, u, last, lost, thrown')
  BY <1>3, <1>8, <1>9, <1>10, <1>11 DEF Fetching
<1> QED
  BY <1>1, <1>3, <1>7, <1>10, <1>12 DEF CInv

\* The exception leaves the event loop before there is a verdict.
LEMMA ThrowStep ==
  ASSUME NEW c, Check = {c}, CInv(c), thrown = {}, Throw
  PROVE  CInv(c)'
<1>1. /\ pipeline.failed \/ consumer.validating # {}
      /\ thrown' \subseteq {"segment", "transfer", "parsing"}
      /\ thrown' # {} /\ thrown' # {"parsing"}
      /\ UNCHANGED <<size, store, check, pipeline, consumer, owner, lost>>
  BY DEF Throw
<1>2. PICK last : last = lastSegment(store[c])
  OBVIOUS
<1>3. /\ owner = {c} /\ check[c].phase = "fetching"
      /\ PipelineInv(pipeline, c, last, lost) /\ ConsumerInv(consumer, last)
      /\ check[c].records = {}
  BY <1>1, <1>2, UnderWay
<1>4. Settled(check[c], consumer, last, thrown')
  BY <1>1, <1>3 DEF Settled
<1>5. Fetching(c, check[c], pipeline, consumer, last, lost, thrown')
  BY <1>1, <1>3, <1>4 DEF Fetching
<1> QED
  BY <1>1, <1>2, <1>3, <1>5 DEF CInv

\* A fetcher, in its new state f, asks again or gives up.
LEMMA FetcherStep ==
  ASSUME NEW c, Check = {c}, CInv(c), thrown = {}, NEW no \in Running(pipeline),
         NEW f \in Fetcher, f.of = c, f.status = "running",
         f.pipe = pipeline.fetcher[no].pipe,
         \/ Again(no, f) /\ f.nTimeouts <= maxRetries /\ f.nNacks <= maxRetries
         \/ GiveUp(no, f),
         UNCHANGED <<size, store, check, consumer, owner, thrown>>
  PROVE  CInv(c)'
<1>1. PICK last : last = lastSegment(store[c])
  OBVIOUS
<1>2. /\ owner = {c} /\ check[c].phase = "fetching"
      /\ PipelineInv(pipeline, c, last, lost) /\ ConsumerInv(consumer, last)
      /\ Accounted(pipeline, consumer) /\ check[c].records = {}
      /\ Settled(check[c], consumer, last, thrown)
  BY <1>1, UnderWay
<1>3. Reply = {c} /\ last \in Nat /\ IsMembers(pipeline)
  BY <1>1, <1>2, StoreOf DEF CInv, PipelineInv
<1>4. no \in Nat /\ (no <= last => pipeline.nReceived <= last)
  BY <1>1, FirstArrival
<1>5. /\ PipelineInv(pipeline', c, last, lost') /\ Keeps(pipeline, pipeline')
      /\ lost' \subseteq Reply \X Nat
  <2>1. CASE Again(no, f) /\ f.nTimeouts <= maxRetries /\ f.nNacks <= maxRetries
    <3>1. pipeline' = SetFetcher(pipeline, no, f) /\ lost' = lost
      BY <2>1 DEF Again, SetFetcher
    <3>2. PipelineInv(pipeline', c, last, lost)
      BY <1>2, <1>3, <2>1, <3>1, FetcherInv
    <3>3. Keeps(pipeline, pipeline')
      BY <1>3, <3>1, FetcherEffect
    <3> QED
      BY <3>1, <3>2, <3>3 DEF CInv
  <2>2. CASE GiveUp(no, f)
    <3>1. PICK g : g = [f EXCEPT !.status = "error"]
      OBVIOUS
    <3>2. g \in Fetcher /\ g.pipe = f.pipe /\ g.status = "error"
      BY <3>1 DEF Fetcher
    <3>3. PICK p : p = SetFetcher(pipeline, no, g)
      OBVIOUS
    <3>4. pipeline' = handleFail(p, f.pipe) /\ lost' = lost \cup {<<c, no>>}
      BY <2>2, <3>1, <3>3 DEF GiveUp, SetFetcher
    <3>5. PipelineInv(p, c, last, lost')
      BY <1>2, <1>3, <3>2, <3>3, <3>4, FetcherInv
    <3>6. /\ Keeps(pipeline, p) /\ p.window = pipeline.window
          /\ DOMAIN p.fetcher = DOMAIN pipeline.fetcher
      BY <1>3, <3>3, FetcherEffect
    <3>7. /\ f.pipe \in DOMAIN p.window /\ p.window[f.pipe] = no
          /\ no \in DOMAIN p.fetcher
      BY <1>2, <3>6 DEF PipelineInv, Places, Running
    <3>8. no <= last => p.nReceived <= last
      BY <1>4, <3>6 DEF Keeps
    <3>9. PipelineInv(pipeline', c, last, lost') /\ Keeps(p, pipeline')
      <4>1. <<c, no>> \in lost' /\ pipeline' = handleFail(p, f.pipe)
        BY <3>4
      <4> QED
        BY <1>3, <3>5, <3>7, <3>8, <4>1, HandleFailInv
    <3>10. Keeps(pipeline, pipeline')
      BY <3>6, <3>9 DEF Keeps
    <3>11. lost' \subseteq Reply \X Nat
      BY <1>3, <1>4, <3>4 DEF CInv
    <3> QED
      BY <3>9, <3>10, <3>11
  <2> QED
    BY <2>1, <2>2
<1>6. Accounted(pipeline', consumer)
  BY <1>2, <1>5, AccountedKept
<1>7. Fetching(c, check[c], pipeline', consumer, last, lost', thrown)
  BY <1>2, <1>5, <1>6 DEF Fetching
<1> QED
  BY <1>1, <1>2, <1>5, <1>7 DEF CInv

\* DataFetcher::handleTimeout keeps the invariant.
LEMMA SegmentTimeoutStep ==
  ASSUME NEW c, Check = {c}, CInv(c), thrown = {}, NEW no \in Running(pipeline),
         SegmentTimeout(no)
  PROVE  CInv(c)'
<1>1. PICK g : g = pipeline.fetcher[no]
  OBVIOUS
<1>2. PICK n : n = g.nTimeouts + 1
  OBVIOUS
<1>3. PICK f : f = [g EXCEPT !.nTimeouts = n]
  OBVIOUS
<1>4. /\ \/ f.nTimeouts <= maxRetries /\ Again(no, f)
         \/ f.nTimeouts > maxRetries /\ GiveUp(no, f)
      /\ UNCHANGED <<size, store, check, consumer, owner, thrown>>
  BY <1>1, <1>2, <1>3 DEF SegmentTimeout
<1>5. g \in Fetcher /\ g.of = c
  BY <1>1, FirstArrival
<1>6. g.nTimeouts <= maxRetries /\ g.nNacks <= maxRetries /\ g.status = "running"
  BY <1>1, UnderWay DEF PipelineInv, Places, Running
<1>7. n \in 0 .. maxRetries + 1
  BY <1>2, <1>5, <1>6, SegmentAssumption DEF Fetcher
<1>8. /\ f \in Fetcher /\ f.of = c /\ f.pipe = g.pipe /\ f.status = "running"
      /\ f.nTimeouts = n /\ f.nNacks = g.nNacks
  BY <1>3, <1>5, <1>6, <1>7 DEF Fetcher
<1> QED
  BY <1>1, <1>4, <1>6, <1>8, FetcherStep

\* DataFetcher::handleNack keeps the invariant.
LEMMA SegmentNackStep ==
  ASSUME NEW c, Check = {c}, CInv(c), thrown = {}, NEW no \in Running(pipeline),
         NEW retriable, SegmentNack(no, retriable)
  PROVE  CInv(c)'
<1>1. PICK g : g = pipeline.fetcher[no]
  OBVIOUS
<1>2. PICK n : n = g.nNacks + 1
  OBVIOUS
<1>3. PICK f : f = [g EXCEPT !.nNacks = n]
  OBVIOUS
<1>4. /\ \/ f.nNacks <= maxRetries /\ Again(no, f)
         \/ GiveUp(no, f)
      /\ UNCHANGED <<size, store, check, consumer, owner, thrown>>
  BY <1>1, <1>2, <1>3 DEF SegmentNack
<1>5. g \in Fetcher /\ g.of = c
  BY <1>1, FirstArrival
<1>6. g.nTimeouts <= maxRetries /\ g.nNacks <= maxRetries /\ g.status = "running"
  BY <1>1, UnderWay DEF PipelineInv, Places, Running
<1>7. n \in 0 .. maxRetries + 1
  BY <1>2, <1>5, <1>6, SegmentAssumption DEF Fetcher
<1>8. /\ f \in Fetcher /\ f.of = c /\ f.pipe = g.pipe /\ f.status = "running"
      /\ f.nNacks = n /\ f.nTimeouts = g.nTimeouts
  BY <1>3, <1>5, <1>6, <1>7 DEF Fetcher
<1> QED
  BY <1>1, <1>4, <1>6, <1>8, FetcherStep

------------------------------------------------------------------------------
(* The theorems. *)

\* Every step keeps the invariant.
LEMMA NextInv ==
  ASSUME NEW c, Check = {c}, CInv(c), [Next]_vars
  PROVE  CInv(c)'
<1>1. CASE thrown = {} /\ DoCheck(c)
  BY <1>1, DoCheckStep
<1>2. CASE Respond(c)
  BY <1>2, InterestTimeoutStep, RefusedStep, RunConsumerStep DEF Respond
<1>3. ASSUME NEW no \in Running(pipeline), Answer(no)
      PROVE  CInv(c)'
  <2>1. thrown = {}
    BY <1>3 DEF Answer
  <2>2. CASE \E verdict \in {"valid", "invalid", "later"} : OnData(no, verdict)
    BY <2>1, <2>2, OnDataStep
  <2>3. CASE SegmentTimeout(no)
    BY <2>1, <2>3, SegmentTimeoutStep
  <2>4. CASE \E retriable \in BOOLEAN : SegmentNack(no, retriable)
    BY <2>1, <2>4, SegmentNackStep
  <2> QED
    BY <1>3, <2>2, <2>3, <2>4 DEF Answer
<1>4. CASE Callback
  BY <1>4, ThrowStep, ValidatedStep DEF Callback
<1>5. CASE UNCHANGED vars
  BY <1>5 DEF CInv, vars
<1> QED
  BY <1>1, <1>2, <1>3, <1>4, <1>5 DEF Next, Quiet

\* The invariant holds in every reachable state of a Checker with one check.
THEOREM CheckerInvariance ==
  ASSUME NEW c, Check = {c}
  PROVE  Spec => []CInv(c)
<1>1. Init => CInv(c)
  BY InitInv
<1>2. CInv(c) /\ [Next]_vars => CInv(c)'
  BY NextInv
<1> QED
  BY <1>1, <1>2, PTL DEF Spec

\* The types: no segment is asked for more often than the retries allow, and
\* the Interest of the check neither (dispatchInterest, DataFetcher).
THEOREM CheckerTypeCorrect ==
  ASSUME NEW c, Check = {c}
  PROVE  Spec => []TypeOK
<1>1. CInv(c) => TypeOK
  <2> SUFFICES ASSUME CInv(c) PROVE TypeOK
    OBVIOUS
  <2>1. Reply = {c} /\ store[c] \in Seq(1 .. maxSegmentSize) /\ lastSegment(store[c]) \in Nat
    BY StoreOf DEF CInv
  <2>2. size \in [Reply -> Sizes] /\ store \in [Reply -> Seq(1 .. maxSegmentSize)]
    BY <2>1 DEF CInv
  <2>3. \A k \in Check : check[k] \in CheckerState
    BY DEF CInv
  <2>4. IsPipeline(pipeline) /\ IsConsumer(consumer) /\ owner \subseteq Check
    <3>1. CASE owner = {} /\ Waiting(check[c], pipeline, consumer, lost, thrown)
      <4>1. IsPipeline(NewPipeline)
        BY DEF NewPipeline, IsPipeline
      <4>2. IsConsumer(NewConsumer)
        BY DEF NewConsumer, IsConsumer
      <4> QED
        BY <3>1, <4>1, <4>2 DEF Waiting
    <3>2. CASE owner = {c} /\ Fetching(c, check[c], pipeline, consumer,
                                       lastSegment(store[c]), lost, thrown)
      <4>1. IsPipeline(pipeline)
        BY <2>1, <3>2 DEF Fetching, PipelineInv, IsMembers, Places, IsPipeline
      <4>2. IsConsumer(consumer)
        BY <2>1, <3>2 DEF Fetching, ConsumerInv, IsConsumer
      <4> QED
        BY <3>2, <4>1, <4>2
    <3> QED
      BY <3>1, <3>2 DEF CInv
  <2> QED
    BY <2>2, <2>3, <2>4 DEF TypeOK, CInv
<1> QED
  BY <1>1, CheckerInvariance, PTL

\* PipelineInterests counts the segments it received and Consumer takes the
\* count for the content: it is one, whatever the order and the retries.
THEOREM CountCorrect ==
  ASSUME NEW c, Check = {c}
  PROVE  Spec => []CountIsExact
<1>1. CInv(c) => CountIsExact
  <2> SUFFICES ASSUME CInv(c), thrown = {}, owner = {c}
               PROVE  CountIsExact
    BY DEF CInv, CountIsExact
  <2>1. PICK last : last = lastSegment(store[c])
    OBVIOUS
  <2>2. last \in Nat
    BY <2>1, StoreOf DEF CInv
  <2>3. ConsumerInv(consumer, last) /\ Accounted(pipeline, consumer)
    BY <2>1 DEF CInv, Fetching
  <2>4. pipeline.nReceived = Len(consumer.output)
          + Cardinality(DOMAIN consumer.bufferedData \cup consumer.validating)
    BY <2>2, <2>3, CountOf DEF Accounted
  <2> QED
    BY <2>1, <2>3, <2>4 DEF CountIsExact, ConsumerInv
<1> QED
  BY <1>1, CheckerInvariance, PTL

\* Once all segments have been received and validated the whole reply has been
\* handed over (Consumer::writeInOrderData), whatever the size of the reply, of
\* a segment and of the window.
THEOREM DeliveryCorrect ==
  ASSUME NEW c, Check = {c}
  PROVE  Spec => []AllReceivedDelivers
<1>1. CInv(c) => AllReceivedDelivers
  <2> SUFFICES ASSUME CInv(c), owner = {c}, allSegmentsReceived(pipeline),
                      consumer.validating = {}, thrown \subseteq {"parsing"}
               PROVE  /\ check[c].phase = "over"
                      /\ bytes(store[c], Len(consumer.output)) = size[c]
    BY DEF CInv, AllReceivedDelivers
  <2>1. PICK last : last = lastSegment(store[c])
    OBVIOUS
  <2>2. /\ last \in Nat /\ Len(store[c]) = last + 1 /\ size[c] \in Nat \ {0}
        /\ store[c] = populateStore(size[c])
    BY <2>1, StoreOf DEF CInv
  <2>3. Fetching(c, check[c], pipeline, consumer, last, lost, thrown)
    BY <2>1 DEF CInv
  <2>4. thrown = {}
    BY <2>3 DEF Fetching, Settled
  <2>5. Received(consumer) = 0 .. last
    BY <2>2, <2>3, <2>4, AllReceived DEF Fetching
  <2>6. check[c].phase = "over"
    BY <2>3, <2>4, <2>5 DEF Fetching, Settled
  <2>7. Len(consumer.output) = last + 1
    BY <2>2, <2>3, <2>5, WholeOutput DEF Fetching
  <2>8. last + 1 \in 0 .. Len(populateStore(size[c]))
    BY <2>2
  <2>9. bytes(store[c], last + 1) = size[c]
    BY <2>2, <2>8, BytesOf
  <2> QED
    BY <2>6, <2>7, <2>9
<1> QED
  BY <1>1, CheckerInvariance, PTL

\* After the verdict no fetcher and no validation is left that could call the
\* consumer or the caller again.
THEOREM QuietCorrect ==
  ASSUME NEW c, Check = {c}
  PROVE  Spec => []QuietAfterVerdict
<1>1. CInv(c) => QuietAfterVerdict
  BY DEF CInv, QuietAfterVerdict, Fetching, Settled
<1> QED
  BY <1>1, CheckerInvariance, PTL

\* handleFail and learnFinalBlockId give up a transfer only for a segment of the
\* content, unless the window is larger than the content.
THEOREM FailureCorrect ==
  ASSUME NEW c, Check = {c}
  PROVE  Spec => []FailureJustified
<1>1. CInv(c) => FailureJustified
  <2>1. NewPipeline.failed = FALSE
    BY DEF NewPipeline
  <2> QED
    BY <2>1 DEF CInv, FailureJustified, Fetching, PipelineInv, Failures, Justified
<1> QED
  BY <1>1, CheckerInvariance, PTL

\* What validateMultipleData tells the caller is what the records say, and it is
\* told once.
THEOREM VerdictCorrect ==
  ASSUME NEW c, Check = {c}
  PROVE  Spec => []VerdictSound
<1>1. CInv(c) => VerdictSound
  <2> SUFFICES ASSUME CInv(c)
               PROVE  /\ Len(check[c].accepted) <= 1
                      /\ check[c].accepted # <<>> =>
                           /\ check[c].failures = 0
                           /\ \A r \in check[c].records : r.invalid = 0
                      /\ \A r \in check[c].records :
                           r.invalid > 0 => check[c].failures > 0
    BY DEF VerdictSound
  <2>1. PICK k : k = check[c]
    OBVIOUS
  <2>2. Told(k, c)
    BY <2>1 DEF CInv
  <2>3. Len(<<>>) = 0 /\ Len(<<c>>) = 1 /\ <<c>> # <<>>
    OBVIOUS
  <2>4. CASE k.records = {}
    BY <2>1, <2>2, <2>3, <2>4 DEF Told
  <2>5. CASE k.records # {}
    <3>1. PICK r \in k.records : TRUE
      BY <2>5
    <3>2. k.failures = r.invalid /\ k.accepted = IF r.invalid = 0 THEN <<c>> ELSE <<>>
      BY <2>2, <3>1 DEF Told
    <3>3. \A x \in k.records : x.invalid = r.invalid
      BY <2>2, <3>2 DEF Told
    <3> QED
      BY <2>1, <2>3, <3>2, <3>3
  <2> QED
    BY <2>4, <2>5
<1> QED
  BY <1>1, CheckerInvariance, PTL

==============================================================================
