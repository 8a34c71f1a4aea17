------------------------- MODULE SegmentFetchTheorems -------------------------
(***************************************************************************)
(* What the operators of SegmentFetch compute, for every size of the       *)
(* content, of a segment and of the window, and every number of retries:   *)
(* the facts the proofs about module Checker rest on.                      *)
(***************************************************************************)
EXTENDS SegmentFetch, NaturalsInduction, FiniteSetTheorems, TLAPS
LOCAL INSTANCE FiniteSetsExt

------------------------------------------------------------------------------
(* Numbers. *)

\* A set of natural numbers has a least element.
LEMMA LeastOf ==
  ASSUME NEW T \in SUBSET Nat, T # {}
  PROVE  \E x \in T : \A y \in T : x <= y
<1>1. PICK x \in T : \A y \in T : ~ (<<y, x>> \in OpToRel(<, Nat))
  BY NatLessThanWellFounded, WFMin
<1>2. \A y \in T : ~ (y < x)
  BY <1>1 DEF OpToRel
<1> QED
  BY <1>2

\* A set of natural numbers that holds 0, and n + 1 with every n below a bound
\* N, holds every number up to N.
LEMMA UpTo ==
  ASSUME NEW N \in Nat, NEW S, 0 \in S,
         \A n \in Nat : n < N /\ n \in S => n + 1 \in S
  PROVE  \A n \in 0 .. N : n \in S
<1> DEFINE T == {n \in 0 .. N : n \notin S}
<1>1. SUFFICES ASSUME T # {} PROVE FALSE
  OBVIOUS
<1>2. T \in SUBSET Nat
  OBVIOUS
<1>3. PICK x \in T : \A y \in T : x <= y
  BY <1>1, <1>2, LeastOf
<1>4. x # 0 /\ x \in Nat /\ x - 1 \in 0 .. N
  BY <1>3
<1>5. x - 1 \in S
  BY <1>3, <1>4
<1> QED
  BY <1>3, <1>4, <1>5

\* The smaller of two numbers.
LEMMA MinOfTwo ==
  ASSUME NEW a \in Int, NEW b \in Int
  PROVE  Min({a, b}) = IF a <= b THEN a ELSE b
BY DEF Min

\* A product grows with its factor.
LEMMA Times ==
  ASSUME NEW a \in Nat, NEW b \in Nat, NEW m \in Nat, a <= b
  PROVE  a * m \in Nat /\ b * m \in Nat /\ a * m <= b * m
OBVIOUS

------------------------------------------------------------------------------
(* The producer. *)

\* The segments of a block: full ones, and a last one that is not empty.
LEMMA Segments ==
  ASSUME NEW n \in Nat \ {0}
  PROVE  /\ populateStore(n) \in Seq(1 .. maxSegmentSize)
         /\ lastSegment(populateStore(n)) \in Nat
         /\ Len(populateStore(n)) = lastSegment(populateStore(n)) + 1
         /\ lastSegment(populateStore(n)) * maxSegmentSize < n
         /\ \A i \in 1 .. lastSegment(populateStore(n)) : populateStore(n)[i] = maxSegmentSize
         /\ populateStore(n)[lastSegment(populateStore(n)) + 1]
              = n - lastSegment(populateStore(n)) * maxSegmentSize
<1> DEFINE m == maxSegmentSize
           last == (n - 1) \div m
           total == last + 1
           s == [i \in 1 .. total |-> Min({m, n - (i - 1) * m})]
<1>1. m \in Nat \ {0} /\ n - 1 \in Nat
  BY SegmentAssumption
<1>2. /\ last \in Nat /\ last * m <= n - 1 /\ n - 1 < (last + 1) * m
  BY <1>1
<1>3. populateStore(n) = s
  BY DEF populateStore
<1> HIDE DEF last
<1>4. ASSUME NEW i \in 1 .. total
      PROVE  s[i] = IF i = total THEN n - last * m ELSE m
  <2>1. i - 1 \in Nat /\ i \in Nat /\ i - 1 <= last
    BY <1>2
  <2>2. (i - 1) * m \in Nat
    BY <1>1, <2>1
  <2>3. s[i] = Min({m, n - (i - 1) * m})
    OBVIOUS
  <2>4. s[i] = IF m <= n - (i - 1) * m THEN m ELSE n - (i - 1) * m
    BY <1>1, <2>2, <2>3, MinOfTwo
  <2>5. CASE i = total
    <3>1. i - 1 = last
      BY <1>2, <2>5
    <3>2. last * m \in Nat /\ (last + 1) * m = last * m + m
      BY <1>1, <1>2
    <3>3. n <= last * m + m
      BY <1>1, <1>2, <3>2
    <3> QED
      BY <1>1, <2>4, <2>5, <3>1, <3>2, <3>3
  <2>6. CASE i # total
    <3>1. i <= last /\ i = (i - 1) + 1
      BY <1>2, <2>1, <2>6
    <3>2. i * m <= last * m /\ i * m \in Nat /\ last * m \in Nat
      BY <1>1, <1>2, <2>1, <3>1, Times
    <3>3. i * m = (i - 1) * m + m
      BY <1>1, <2>1
    <3> QED
      BY <1>1, <1>2, <2>2, <2>4, <2>6, <3>2, <3>3
  <2> QED
    BY <2>5, <2>6
<1>5. last * m \in Nat /\ n - last * m \in 1 .. m
  <2>1. last * m \in Nat /\ (last + 1) * m = last * m + m
    BY <1>1, <1>2
  <2> QED
    BY <1>1, <1>2, <2>1
<1>6. \A i \in 1 .. total : s[i] \in 1 .. m
  BY <1>1, <1>4, <1>5
<1>7. s \in Seq(1 .. m) /\ Len(s) = total
  BY <1>2, <1>6
<1>8. lastSegment(s) = last
  BY <1>2, <1>7 DEF lastSegment
<1> HIDE DEF s
<1> QED
  BY <1>1, <1>2, <1>3, <1>4, <1>5, <1>7, <1>8

\* Sums of segment sizes: the bytes in the first k segments of a block, all of
\* them only when all segments are there.
LEMMA BytesOf ==
  ASSUME NEW n \in Nat \ {0}, NEW k \in 0 .. Len(populateStore(n))
  PROVE  bytes(populateStore(n), k)
           = IF k = Len(populateStore(n)) THEN n ELSE k * maxSegmentSize
<1> DEFINE s == populateStore(n)
           m == maxSegmentSize
           last == lastSegment(s)
           closed(i) == IF i = last + 1 THEN n ELSE i * m
           g == [i \in 0 .. k |-> closed(i)]
           sum[i \in 0 .. k] == IF i = 0 THEN 0 ELSE sum[i - 1] + s[i]
<1>1. /\ last \in Nat /\ Len(s) = last + 1 /\ m \in Nat /\ last * m < n /\ k \in Nat
      /\ \A i \in 1 .. last : s[i] = m
      /\ s[last + 1] = n - last * m
  BY Segments, SegmentAssumption
<1>2. bytes(s, k) = sum[k]
  BY DEF bytes
<1>3. sum = CHOOSE f : f = [i \in 0 .. k |-> IF i = 0 THEN 0 ELSE f[i - 1] + s[i]]
  OBVIOUS
<1> HIDE DEF s, last, m, sum
<1>4. ASSUME NEW i \in Nat, i < k
      PROVE  closed(i) \in Int /\ closed(i) + s[i + 1] = closed(i + 1)
  <2>0. i * m \in Nat /\ last * m \in Nat
    BY <1>1
  <2>1. i <= last /\ i * m \in Nat /\ closed(i) = i * m /\ last * m \in Nat
    BY <1>1, <1>4, <2>0 DEF s
  <2>2. CASE i = last
    BY <1>1, <2>1, <2>2
  <2>3. CASE i # last
    <3>1. s[i + 1] = m /\ (i + 1) * m = i * m + m
      BY <1>1, <2>1, <2>3
    <3> QED
      BY <1>1, <2>1, <2>3, <3>1
  <2> QED
    BY <2>2, <2>3
<1>5. closed(0) = 0
  BY <1>1
<1> HIDE DEF closed
<1>6. g = [i \in 0 .. k |-> IF i = 0 THEN 0 ELSE g[i - 1] + s[i]]
  <2>1. ASSUME NEW i \in 0 .. k, i # 0
        PROVE  g[i] = g[i - 1] + s[i]
    <3>1. i - 1 \in Nat /\ i - 1 < k /\ i - 1 \in 0 .. k /\ (i - 1) + 1 = i
      BY <1>1, <2>1
    <3>2. g[i] = closed(i) /\ g[i - 1] = closed(i - 1)
      BY <3>1
    <3> QED
      BY <1>4, <3>1, <3>2
  <2>2. g[0] = 0
    BY <1>1, <1>5
  <2> QED
    BY <2>1, <2>2
<1>7. sum = [i \in 0 .. k |-> IF i = 0 THEN 0 ELSE sum[i - 1] + s[i]]
  BY <1>3, <1>6
<1>8. sum[0] = 0 /\ \A i \in 0 .. k : i # 0 => sum[i] = sum[i - 1] + s[i]
  BY <1>1, <1>7
<1> DEFINE S == {i \in 0 .. k : sum[i] = closed(i)}
<1>9. 0 \in S
  BY <1>1, <1>5, <1>8
<1>10. ASSUME NEW i \in Nat, i < k, i \in S
       PROVE  i + 1 \in S
  <2>1. i + 1 \in 0 .. k /\ i + 1 # 0 /\ (i + 1) - 1 = i
    BY <1>1, <1>10
  <2> QED
    BY <1>4, <1>8, <1>10, <2>1
<1> HIDE DEF S
<1>11. k \in S
  <2>1. \A i \in Nat : i < k /\ i \in S => i + 1 \in S
    BY <1>10
  <2>2. \A i \in 0 .. k : i \in S
    BY <1>1, <1>9, <2>1, UpTo
  <2> QED
    BY <1>1, <2>2
<1>12. sum[k] = closed(k)
  BY <1>11 DEF S
<1>13. sum[k] = IF k = Len(s) THEN n ELSE k * m
  <2>1. Len(s) = last + 1
    BY <1>1
  <2> QED
    BY <1>12, <2>1, Zenon DEF closed
<1> QED
  BY <1>2, <1>13 DEF s, m

------------------------------------------------------------------------------
(* The pipeline of one run.  p is its state, r the reply it fetches, last   *)
(* the last segment of it and gone the segments that were given up.         *)

\* p is a record of the pipeline's members.
IsMembers(p) ==
  p \in [fetcher : {p.fetcher}, window : {p.window}, prefix : {p.prefix},
         nextSegmentNo : Nat, nReceived : Nat, lastSegmentNo : Nat,
         hasFinalBlockId : BOOLEAN, hasFailure : BOOLEAN,
         isStopping : BOOLEAN, failed : BOOLEAN]

\* Every segment was asked for before nextSegmentNo, a running fetcher is the
\* one in its place in the window, and it has retries left.
Places(p) ==
  /\ DOMAIN p.fetcher \subseteq Nat /\ DOMAIN p.window \subseteq Pipes
  /\ \A no \in DOMAIN p.fetcher : p.fetcher[no] \in Fetcher /\ no < p.nextSegmentNo
  /\ \A i \in DOMAIN p.window : p.window[i] \in DOMAIN p.fetcher
  /\ \A no \in Running(p) :
       /\ p.fetcher[no].pipe \in DOMAIN p.window
       /\ p.window[p.fetcher[no].pipe] = no
       /\ p.fetcher[no].nTimeouts <= maxRetries /\ p.fetcher[no].nNacks <= maxRetries

\* Once the last segment is known nothing runs beyond it; before, nothing was
\* received and nothing asked for but what run asked for.
LastKnown(p, last) ==
  /\ p.hasFinalBlockId =>
       p.lastSegmentNo = last /\ \A no \in Running(p) : no <= last
  /\ ~ p.hasFinalBlockId =>
       p.nReceived = 0 /\ \A no \in DOMAIN p.fetcher : no < maxPipelineSize

\* A segment of the content was given up, unless the window is too large.
Justified(r, last, gone) ==
  maxPipelineSize <= last + 1 => \E no \in 0 .. last : <<r, no>> \in gone

\* An error is about a segment that was given up, and a pipeline that has failed
\* has nothing running and will never have received everything.
Failures(p, r, last, gone) ==
  /\ \A no \in DOMAIN p.fetcher :
       p.fetcher[no].status = "error" => <<r, no>> \in gone
  /\ p.hasFailure => \E no \in Nat : no < maxPipelineSize /\ <<r, no>> \in gone
  /\ p.failed => Justified(r, last, gone)
  /\ p.failed <=> p.isStopping
  /\ p.isStopping => Running(p) = {} /\ ~ allSegmentsReceived(p)

PipelineInv(p, r, last, gone) ==
  /\ IsMembers(p) /\ p.prefix = {r}
  /\ Places(p) /\ LastKnown(p, last) /\ Failures(p, r, last, gone)

\* q comes from p by steps of the pipeline that receive nothing: what does not
\* run in p stays as it is.
Keeps(p, q) ==
  /\ q.nReceived = p.nReceived
  /\ \A no \in DOMAIN p.fetcher :
       /\ no \in DOMAIN q.fetcher
       /\ p.fetcher[no].status # "running" => q.fetcher[no] = p.fetcher[no]

\* p and q have the same counters and flags.
SameCounts(p, q) ==
  /\ q.prefix = p.prefix /\ q.nextSegmentNo = p.nextSegmentNo
  /\ q.nReceived = p.nReceived /\ q.lastSegmentNo = p.lastSegmentNo
  /\ q.hasFinalBlockId = p.hasFinalBlockId /\ q.hasFailure = p.hasFailure

\* What cancel leaves.
LEMMA CancelEffect ==
  ASSUME NEW p, IsMembers(p), \A no \in DOMAIN p.fetcher : p.fetcher[no] \in Fetcher,
         NEW nos, NEW q, q = cancel(p, nos)
  PROVE  /\ IsMembers(q) /\ SameCounts(p, q) /\ q.window = p.window
         /\ q.isStopping = p.isStopping /\ q.failed = p.failed
         /\ DOMAIN q.fetcher = DOMAIN p.fetcher
         /\ \A no \in DOMAIN p.fetcher :
              IF no \in nos /\ no \in Running(p)
              THEN q.fetcher[no] \in Fetcher /\ q.fetcher[no].status = "stopped"
              ELSE q.fetcher[no] = p.fetcher[no]
         /\ Running(q) = Running(p) \ nos
<1> DEFINE F == [no \in DOMAIN p.fetcher |->
                   IF no \in nos \cap Running(p)
                   THEN [p.fetcher[no] EXCEPT !.status = "stopped"] ELSE p.fetcher[no]]
<1>1. q = [p EXCEPT !.fetcher = F]
  BY DEF cancel
<1>2. ASSUME NEW no \in DOMAIN p.fetcher, no \in nos, no \in Running(p)
      PROVE  F[no] \in Fetcher /\ F[no].status = "stopped"
  <2>1. F[no] = [p.fetcher[no] EXCEPT !.status = "stopped"]
    BY <1>2
  <2>2. p.fetcher[no] \in Fetcher
    OBVIOUS
  <2> HIDE DEF F
  <2> QED
    BY <2>1, <2>2 DEF Fetcher
<1>3. \A no \in DOMAIN p.fetcher :
        ~ (no \in nos /\ no \in Running(p)) => F[no] = p.fetcher[no]
  OBVIOUS
<1>4. DOMAIN F = DOMAIN p.fetcher
  OBVIOUS
<1> HIDE DEF F
<1>5. q.fetcher = F
  BY <1>1 DEF IsMembers
<1>6. IsMembers(q)
  BY <1>1 DEF IsMembers
<1>7. /\ SameCounts(p, q) /\ q.window = p.window
      /\ q.isStopping = p.isStopping /\ q.failed = p.failed
  BY <1>1 DEF IsMembers, SameCounts
<1>8. Running(q) = Running(p) \ nos
  BY <1>2, <1>3, <1>4, <1>5 DEF Running
<1> QED
  BY <1>2, <1>3, <1>4, <1>5, <1>6, <1>7, <1>8

\* Fetchers of the window may be cancelled at any time.
LEMMA CancelInv ==
  ASSUME NEW p, NEW r, NEW last \in Nat, NEW gone, PipelineInv(p, r, last, gone),
         NEW nos, NEW q, q = cancel(p, nos)
  PROVE  PipelineInv(q, r, last, gone) /\ Keeps(p, q)
<1>1. IsMembers(p) /\ \A no \in DOMAIN p.fetcher : p.fetcher[no] \in Fetcher
  BY DEF PipelineInv, Places
<1>2. /\ IsMembers(q) /\ SameCounts(p, q) /\ q.window = p.window
      /\ q.isStopping = p.isStopping /\ q.failed = p.failed
      /\ DOMAIN q.fetcher = DOMAIN p.fetcher
      /\ Running(q) = Running(p) \ nos
  BY <1>1, CancelEffect
<1>3. \A no \in DOMAIN p.fetcher :
              IF no \in nos /\ no \in Running(p)
              THEN q.fetcher[no] \in Fetcher /\ q.fetcher[no].status = "stopped"
              ELSE q.fetcher[no] = p.fetcher[no]
  BY <1>1, CancelEffect
<1>4. Keeps(p, q)
  BY <1>2, <1>3 DEF Keeps, SameCounts, Running
<1>5. Places(q)
  BY <1>2, <1>3 DEF PipelineInv, Places, SameCounts
<1>6. LastKnown(q, last)
  BY <1>2 DEF PipelineInv, LastKnown, SameCounts
<1>7. Failures(q, r, last, gone)
  BY <1>2, <1>3 DEF PipelineInv, Failures, SameCounts, allSegmentsReceived
<1> QED
  BY <1>2, <1>4, <1>5, <1>6, <1>7 DEF PipelineInv, SameCounts

\* onFailure cancels everything that runs.
LEMMA OnFailureInv ==
  ASSUME NEW p, NEW r, NEW last \in Nat, NEW gone, PipelineInv(p, r, last, gone),
         Justified(r, last, gone), ~ allSegmentsReceived(p),
         NEW q, q = onFailure(p)
  PROVE  PipelineInv(q, r, last, gone) /\ Keeps(p, q) /\ q.isStopping
<1>1. CASE p.isStopping
  <2>1. q = p
    BY <1>1 DEF onFailure
  <2> QED
    BY <1>1, <2>1 DEF Keeps
<1>2. CASE ~ p.isStopping
  <2> DEFINE c == cancel(p, InWindow(p))
             d == [c EXCEPT !.window = <<>>]
  <2>1. PipelineInv(c, r, last, gone) /\ Keeps(p, c)
    BY CancelInv
  <2>2. IsMembers(p) /\ \A no \in DOMAIN p.fetcher : p.fetcher[no] \in Fetcher
    BY DEF PipelineInv, Places
  <2>3. Running(c) = Running(p) \ InWindow(p) /\ SameCounts(p, c)
    BY <2>2, CancelEffect
  <2>4. Running(c) = {}
    BY <2>3 DEF PipelineInv, Places, InWindow
  <2>5. q = [d EXCEPT !.isStopping = TRUE, !.failed = TRUE]
    BY <1>2 DEF onFailure, doCancel
  <2> HIDE DEF c
  <2>6. IsMembers(c)
    BY <2>1 DEF PipelineInv
  <2>7. /\ IsMembers(d) /\ SameCounts(c, d) /\ d.window = <<>> /\ d.fetcher = c.fetcher
    BY <2>6 DEF IsMembers, SameCounts
  <2> HIDE DEF d
  <2>8. /\ IsMembers(q) /\ SameCounts(d, q) /\ q.window = <<>> /\ q.fetcher = d.fetcher
        /\ q.isStopping = TRUE /\ q.failed = TRUE
    BY <2>5, <2>7 DEF IsMembers, SameCounts
  <2>9. Running(q) = {} /\ DOMAIN q.window = {}
    BY <2>4, <2>7, <2>8 DEF Running
  <2>10. SameCounts(c, q) /\ q.fetcher = c.fetcher
    BY <2>7, <2>8 DEF SameCounts
  <2>11. Keeps(p, q)
    BY <2>1, <2>10 DEF Keeps, SameCounts
  <2>12. Places(q)
    BY <2>1, <2>9, <2>10 DEF PipelineInv, Places, SameCounts
  <2>13. LastKnown(q, last)
    BY <2>1, <2>9, <2>10 DEF PipelineInv, LastKnown, SameCounts
  <2>14. ~ allSegmentsReceived(q)
    BY <2>3, <2>10 DEF allSegmentsReceived, SameCounts
  <2>15. Failures(q, r, last, gone)
    BY <2>1, <2>8, <2>9, <2>10, <2>14 DEF PipelineInv, Failures, SameCounts
  <2> QED
    BY <2>1, <2>8, <2>10, <2>11, <2>12, <2>13, <2>15 DEF PipelineInv, SameCounts
<1> QED
  BY <1>1, <1>2

\* A segment of the reply tells which segment is the last.
LEMMA LearnInv ==
  ASSUME NEW p, NEW r, NEW last \in Nat, NEW gone, PipelineInv(p, r, last, gone),
         NEW q, q = learnFinalBlockId(p, last)
  PROVE  /\ PipelineInv(q, r, last, gone) /\ Keeps(p, q)
         /\ q.isStopping \/ (q.hasFinalBlockId /\ ~ q.isStopping)
         /\ q.isStopping \/ q.window = p.window
<1>1. CASE p.isStopping \/ p.hasFinalBlockId
  <2>1. q = p
    BY <1>1 DEF learnFinalBlockId
  <2> QED
    BY <1>1, <2>1 DEF Keeps
<1>2. CASE ~ p.isStopping /\ ~ p.hasFinalBlockId
  <2> DEFINE a == [p EXCEPT !.hasFinalBlockId = TRUE, !.lastSegmentNo = last]
             c == cancel(a, beyond(p, last))
             err == \E no \in InWindow(c) : no <= last /\ c.fetcher[no].status = "error"
  <2>1. q = IF err THEN onFailure(c) ELSE c
    BY <1>2 DEF learnFinalBlockId
  <2>2. /\ IsMembers(p) /\ p.nReceived = 0
        /\ \A no \in DOMAIN p.fetcher : p.fetcher[no] \in Fetcher
    BY <1>2 DEF PipelineInv, Places, LastKnown
  <2>3. /\ IsMembers(a) /\ a.fetcher = p.fetcher /\ a.window = p.window
        /\ a.prefix = p.prefix /\ a.nextSegmentNo = p.nextSegmentNo
        /\ a.nReceived = 0 /\ a.lastSegmentNo = last /\ a.hasFinalBlockId = TRUE
        /\ a.hasFailure = p.hasFailure /\ a.isStopping = p.isStopping
        /\ a.failed = p.failed
    BY <2>2 DEF IsMembers
  <2> HIDE DEF a
  <2>4. Running(a) = Running(p)
    BY <2>3 DEF Running
  <2>5. \A no \in DOMAIN a.fetcher : a.fetcher[no] \in Fetcher
    BY <2>2, <2>3
  <2>6. /\ IsMembers(c) /\ SameCounts(a, c) /\ c.window = a.window
        /\ c.isStopping = a.isStopping /\ c.failed = a.failed
        /\ DOMAIN c.fetcher = DOMAIN a.fetcher
        /\ Running(c) = Running(a) \ beyond(p, last)
    BY <2>3, <2>5, CancelEffect
  <2>7. \A no \in DOMAIN a.fetcher :
              IF no \in beyond(p, last) /\ no \in Running(a)
              THEN c.fetcher[no] \in Fetcher /\ c.fetcher[no].status = "stopped"
              ELSE c.fetcher[no] = a.fetcher[no]
    BY <2>3, <2>5, CancelEffect
  <2> HIDE DEF c
  <2>8. Keeps(p, c)
    BY <2>2, <2>3, <2>4, <2>6, <2>7 DEF Keeps, SameCounts, Running
  <2>9. Places(c)
    BY <2>3, <2>4, <2>6, <2>7 DEF PipelineInv, Places, SameCounts
  <2>10. LastKnown(c, last)
    <3>1. \A no \in Running(c) : no <= last
      BY <2>4, <2>6 DEF PipelineInv, Places, beyond, InWindow, Running
    <3> QED
      BY <2>3, <2>6, <3>1 DEF LastKnown, SameCounts
  <2>11. ~ allSegmentsReceived(c)
    BY <2>3, <2>6 DEF allSegmentsReceived, SameCounts
  <2>12. Failures(c, r, last, gone)
    BY <1>2, <2>3, <2>4, <2>6, <2>7, <2>11 DEF PipelineInv, Failures, SameCounts
  <2>13. PipelineInv(c, r, last, gone)
    BY <2>3, <2>6, <2>9, <2>10, <2>12 DEF PipelineInv, SameCounts
  <2>14. CASE ~ err
    <3>1. q = c
      BY <2>1, <2>14
    <3> QED
      BY <1>2, <2>3, <2>6, <2>8, <2>13, <3>1 DEF SameCounts
  <2>15. CASE err
    <3>1. q = onFailure(c)
      BY <2>1, <2>15
    <3>2. Justified(r, last, gone)
      <4>1. PICK no \in InWindow(c) : no <= last /\ c.fetcher[no].status = "error"
        BY <2>15
      <4>2. no \in DOMAIN c.fetcher /\ no \in Nat
        BY <2>9 DEF InWindow, Places
      <4>3. <<r, no>> \in gone /\ no \in 0 .. last
        BY <2>12, <4>1, <4>2 DEF Failures
      <4> QED
        BY <4>3 DEF Justified
    <3>3. PipelineInv(q, r, last, gone) /\ Keeps(c, q) /\ q.isStopping
      BY <2>11, <2>13, <3>1, <3>2, OnFailureInv
    <3> QED
      BY <2>8, <3>3 DEF Keeps
  <2> QED
    BY <2>14, <2>15
<1> QED
  BY <1>1, <1>2

\* A fetcher gave up: its place in the window is i and its segment is no.
LEMMA HandleFailInv ==
  ASSUME NEW p, NEW r, NEW last \in Nat, NEW gone, PipelineInv(p, r, last, gone),
         NEW i \in DOMAIN p.window, NEW no \in DOMAIN p.fetcher, p.window[i] = no,
         <<r, no>> \in gone, no <= last => p.nReceived <= last,
         NEW q, q = handleFail(p, i)
  PROVE  PipelineInv(q, r, last, gone) /\ Keeps(p, q)
<1> DEFINE c == cancel(p, beyond(p, no))
<1>0. no \in Nat /\ maxPipelineSize \in Nat
  BY SegmentAssumption DEF PipelineInv, Places
<1>1. CASE p.isStopping
  BY <1>1 DEF handleFail, Keeps
<1>2. CASE ~ p.isStopping /\ p.hasFinalBlockId /\ no <= p.lastSegmentNo
  <2>1. q = onFailure(p)
    BY <1>2 DEF handleFail
  <2>2. p.lastSegmentNo = last /\ p.nReceived \in Nat
    BY <1>2 DEF PipelineInv, LastKnown, IsMembers
  <2>3. ~ allSegmentsReceived(p)
    BY <1>2, <2>2 DEF allSegmentsReceived
  <2>4. Justified(r, last, gone)
    BY <1>0, <1>2, <2>2 DEF Justified
  <2> QED
    BY <2>1, <2>3, <2>4, OnFailureInv
<1>3. CASE ~ p.isStopping /\ p.hasFinalBlockId /\ ~ (no <= p.lastSegmentNo)
  BY <1>3 DEF handleFail, Keeps
<1>4. CASE ~ p.isStopping /\ ~ p.hasFinalBlockId
  <2>1. PipelineInv(c, r, last, gone) /\ Keeps(p, c)
    BY CancelInv
  <2>2. IsMembers(p) /\ \A k \in DOMAIN p.fetcher : p.fetcher[k] \in Fetcher
    BY DEF PipelineInv, Places
  <2>3. SameCounts(p, c) /\ c.isStopping = p.isStopping
    BY <2>2, CancelEffect
  <2>4. no < maxPipelineSize
    BY <1>4 DEF PipelineInv, LastKnown
  <2>5. q = IF InWindow(c) \cap Running(c) # {}
            THEN [c EXCEPT !.hasFailure = TRUE] ELSE onFailure(c)
    BY <1>4 DEF handleFail
  <2> HIDE DEF c
  <2>6. CASE InWindow(c) \cap Running(c) # {}
    <3>1. q = [c EXCEPT !.hasFailure = TRUE]
      BY <2>5, <2>6
    <3>2. /\ IsMembers(q) /\ q.fetcher = c.fetcher /\ q.window = c.window
          /\ q.prefix = c.prefix /\ q.nextSegmentNo = c.nextSegmentNo
          /\ q.nReceived = c.nReceived /\ q.lastSegmentNo = c.lastSegmentNo
          /\ q.hasFinalBlockId = c.hasFinalBlockId /\ q.isStopping = c.isStopping
          /\ q.failed = c.failed
      BY <2>1, <3>1 DEF PipelineInv, IsMembers
    <3>3. Running(q) = Running(c) /\ (allSegmentsReceived(q) <=> allSegmentsReceived(c))
      BY <3>2 DEF Running, allSegmentsReceived
    <3>4. Places(q) /\ LastKnown(q, last)
      BY <2>1, <3>2, <3>3 DEF PipelineInv, Places, LastKnown
    <3>5. Failures(q, r, last, gone)
      BY <1>0, <2>1, <2>4, <3>2, <3>3 DEF PipelineInv, Failures
    <3> QED
      BY <2>1, <3>2, <3>4, <3>5 DEF PipelineInv, Keeps
  <2>7. CASE ~ (InWindow(c) \cap Running(c) # {})
    <3>1. q = onFailure(c)
      BY <2>5, <2>7
    <3>2. Justified(r, last, gone)
      BY <1>0, <2>4 DEF Justified
    <3>3. ~ allSegmentsReceived(c)
      BY <1>4, <2>3 DEF allSegmentsReceived, SameCounts
    <3>4. PipelineInv(q, r, last, gone) /\ Keeps(c, q)
      BY <2>1, <3>1, <3>2, <3>3, OnFailureInv
    <3> QED
      BY <2>1, <3>4 DEF Keeps
  <2> QED
    BY <2>6, <2>7
<1> QED
  BY <1>1, <1>2, <1>3, <1>4

\* A place of the window whose fetcher does not run takes the fetcher of the
\* next segment.  (What fetchNextSegment asserts of the place is a hypothesis.)
LEMMA RequestInv ==
  ASSUME NEW p, NEW r \in Reply, NEW last \in Nat, NEW gone,
         PipelineInv(p, r, last, gone), ~ p.isStopping,
         NEW i \in Pipes, \A no \in Running(p) : p.fetcher[no].pipe # i,
         p.hasFinalBlockId => p.nextSegmentNo <= last,
         ~ p.hasFinalBlockId => p.nextSegmentNo < maxPipelineSize,
         NEW q, q = advance(request(p, i))
  PROVE  /\ PipelineInv(q, r, last, gone) /\ Keeps(p, q)
         /\ q.nextSegmentNo = p.nextSegmentNo + 1 /\ q.nReceived = p.nReceived
         /\ q.hasFinalBlockId = p.hasFinalBlockId /\ q.hasFailure = p.hasFailure
         /\ q.isStopping = p.isStopping
         /\ DOMAIN q.fetcher = DOMAIN p.fetcher \cup {p.nextSegmentNo}
         /\ DOMAIN q.window = DOMAIN p.window \cup {i}
<1> DEFINE next == p.nextSegmentNo
           f == [of |-> CHOOSE x \in p.prefix : TRUE, pipe |-> i,
                 status |-> "running", nTimeouts |-> 0, nNacks |-> 0]
           F == put(p.fetcher, next, f)
           W == put(p.window, i, next)
           a == [p EXCEPT !.fetcher = F, !.window = W]
<1>1. IsMembers(p) /\ next \in Nat /\ p.prefix = {r} /\ Places(p)
  BY DEF PipelineInv, IsMembers
<1>2. request(p, i) = a
  BY DEF request
<1>3. /\ f \in Fetcher /\ f.status = "running" /\ f.pipe = i
      /\ f.nTimeouts <= maxRetries /\ f.nNacks <= maxRetries
  BY <1>1, SegmentAssumption DEF Fetcher
<1> HIDE DEF f
<1>4. /\ DOMAIN F = DOMAIN p.fetcher \cup {next} /\ F[next] = f
      /\ \A no \in DOMAIN p.fetcher : no # next => F[no] = p.fetcher[no]
  BY DEF put
<1>5. /\ DOMAIN W = DOMAIN p.window \cup {i} /\ W[i] = next
      /\ \A j \in DOMAIN p.window : j # i => W[j] = p.window[j]
  BY DEF put
<1> HIDE DEF F, W
<1>6. /\ IsMembers(a) /\ SameCounts(p, a) /\ a.fetcher = F /\ a.window = W
      /\ a.isStopping = p.isStopping /\ a.failed = p.failed
  BY <1>1 DEF IsMembers, SameCounts
<1> HIDE DEF a
<1>7. /\ IsMembers(q) /\ q.fetcher = F /\ q.window = W /\ q.prefix = p.prefix
      /\ q.nextSegmentNo = next + 1 /\ q.nReceived = p.nReceived
      /\ q.lastSegmentNo = p.lastSegmentNo
      /\ q.hasFinalBlockId = p.hasFinalBlockId /\ q.hasFailure = p.hasFailure
      /\ q.isStopping = p.isStopping /\ q.failed = p.failed
  BY <1>1, <1>2, <1>6 DEF advance, IsMembers, SameCounts
<1>8. \A no \in DOMAIN p.fetcher : no \in Nat /\ no # next
  BY <1>1 DEF Places
<1>9. Running(q) = Running(p) \cup {next}
  BY <1>3, <1>4, <1>7, <1>8 DEF Running
<1>10. Keeps(p, q)
  BY <1>4, <1>7, <1>8 DEF Keeps
<1>11. Places(q)
  <2>1. \A no \in DOMAIN q.fetcher : q.fetcher[no] \in Fetcher /\ no < q.nextSegmentNo
    BY <1>1, <1>3, <1>4, <1>7, <1>8 DEF Places
  <2>2. \A j \in DOMAIN q.window : q.window[j] \in DOMAIN q.fetcher
    BY <1>1, <1>4, <1>5, <1>7 DEF Places
  <2>3. ASSUME NEW no \in Running(q)
        PROVE  /\ q.fetcher[no].pipe \in DOMAIN q.window
               /\ q.window[q.fetcher[no].pipe] = no
               /\ q.fetcher[no].nTimeouts <= maxRetries
               /\ q.fetcher[no].nNacks <= maxRetries
    <3>1. CASE no = next
      BY <1>3, <1>4, <1>5, <1>7, <3>1
    <3>2. CASE no \in Running(p)
      <4>1. no \in DOMAIN p.fetcher /\ q.fetcher[no] = p.fetcher[no]
        BY <1>4, <1>7, <1>8, <3>2 DEF Running
      <4> QED
        BY <1>1, <1>5, <1>7, <3>2, <4>1 DEF Places
    <3> QED
      BY <1>9, <3>1, <3>2
  <2> QED
    BY <1>1, <1>4, <1>5, <1>7, <2>1, <2>2, <2>3 DEF Places
<1>12. LastKnown(q, last)
  BY <1>4, <1>7, <1>9 DEF PipelineInv, LastKnown
<1>13. Failures(q, r, last, gone)
  <2>1. \A no \in DOMAIN q.fetcher : q.fetcher[no].status = "error" => <<r, no>> \in gone
    BY <1>3, <1>4, <1>7, <1>8 DEF PipelineInv, Failures
  <2> QED
    BY <1>7, <2>1 DEF PipelineInv, Failures
<1> QED
  BY <1>1, <1>4, <1>5, <1>7, <1>10, <1>11, <1>12, <1>13 DEF PipelineInv

\* After a segment that was not the last to come.
LEMMA FetchNextInv ==
  ASSUME NEW p, NEW r \in Reply, NEW last \in Nat, NEW gone,
         PipelineInv(p, r, last, gone), p.hasFinalBlockId, ~ allSegmentsReceived(p),
         NEW i \in Pipes, \A no \in Running(p) : p.fetcher[no].pipe # i,
         NEW q, q = fetchNextSegment(p, i)
  PROVE  PipelineInv(q, r, last, gone) /\ Keeps(p, q)
<1>1. /\ IsMembers(p) /\ p.nextSegmentNo \in Nat /\ p.lastSegmentNo = last
  BY DEF PipelineInv, IsMembers, LastKnown
<1>2. CASE p.isStopping
  BY <1>2 DEF fetchNextSegment, Keeps
<1>3. CASE ~ p.isStopping /\ p.hasFailure
  <2>1. q = onFailure(p)
    BY <1>3 DEF fetchNextSegment
  <2>2. Justified(r, last, gone)
    BY <1>3, SegmentAssumption DEF PipelineInv, Failures, Justified
  <2> QED
    BY <2>1, <2>2, OnFailureInv
<1>4. CASE ~ p.isStopping /\ ~ p.hasFailure /\ p.nextSegmentNo > p.lastSegmentNo
  <2>1. q = advance(p)
    BY <1>4 DEF fetchNextSegment
  <2> DEFINE n == p.nextSegmentNo + 1
  <2>2. n \in Nat /\ q = [p EXCEPT !.nextSegmentNo = n]
    BY <1>1, <2>1 DEF advance
  <2> HIDE DEF n
  <2>3. /\ IsMembers(q) /\ q.nextSegmentNo = n
        /\ q.fetcher = p.fetcher /\ q.window = p.window /\ q.prefix = p.prefix
        /\ q.nReceived = p.nReceived /\ q.lastSegmentNo = p.lastSegmentNo
        /\ q.hasFinalBlockId = p.hasFinalBlockId /\ q.hasFailure = p.hasFailure
        /\ q.isStopping = p.isStopping /\ q.failed = p.failed
    BY <1>1, <2>2 DEF IsMembers
  <2>4. Running(q) = Running(p)
    BY <2>3 DEF Running
  <2>5. Places(q)
    BY <1>1, <2>3, <2>4 DEF PipelineInv, Places, n
  <2>6. LastKnown(q, last) /\ Failures(q, r, last, gone)
    BY <1>4, <2>3, <2>4 DEF PipelineInv, LastKnown, Failures
  <2> QED
    BY <2>3, <2>5, <2>6 DEF PipelineInv, Keeps
<1>5. CASE ~ p.isStopping /\ ~ p.hasFailure /\ ~ (p.nextSegmentNo > p.lastSegmentNo)
  <2>1. q = advance(request(p, i))
    BY <1>5 DEF fetchNextSegment
  <2> QED
    BY <1>1, <1>5, <2>1, RequestInv
<1> QED
  BY <1>2, <1>3, <1>4, <1>5

\* The fetcher of segment no becomes f.
SetFetcher(p, no, f) == [p EXCEPT !.fetcher[no] = f]

\* What a new state of a running fetcher leaves.
LEMMA FetcherEffect ==
  ASSUME NEW p, IsMembers(p), NEW no \in Running(p), NEW f,
         NEW q, q = SetFetcher(p, no, f)
  PROVE  /\ IsMembers(q) /\ SameCounts(p, q) /\ Keeps(p, q)
         /\ q.window = p.window /\ q.isStopping = p.isStopping /\ q.failed = p.failed
         /\ DOMAIN q.fetcher = DOMAIN p.fetcher /\ q.fetcher[no] = f
         /\ \A k \in DOMAIN p.fetcher : k # no => q.fetcher[k] = p.fetcher[k]
<1>1. no \in DOMAIN p.fetcher /\ p.fetcher[no].status = "running"
  BY DEF Running
<1> DEFINE F == [p.fetcher EXCEPT ![no] = f]
<1>2. q = [p EXCEPT !.fetcher = F]
  BY DEF SetFetcher
<1>3. DOMAIN F = DOMAIN p.fetcher
  OBVIOUS
<1>4. F[no] = f
  BY <1>1
<1>5. \A k \in DOMAIN p.fetcher : k # no => F[k] = p.fetcher[k]
  OBVIOUS
<1> HIDE DEF F
<1>6. /\ IsMembers(q) /\ SameCounts(p, q) /\ q.fetcher = F /\ q.window = p.window
      /\ q.isStopping = p.isStopping /\ q.failed = p.failed
  BY <1>2 DEF IsMembers, SameCounts
<1>7. Keeps(p, q)
  BY <1>1, <1>3, <1>5, <1>6 DEF Keeps, SameCounts
<1> QED
  BY <1>3, <1>4, <1>5, <1>6, <1>7

\* The running fetcher of segment no is stopped, starts again or gives up.
LEMMA FetcherInv ==
  ASSUME NEW p, NEW r \in Reply, NEW last \in Nat, NEW gone, NEW gone2,
         PipelineInv(p, r, last, gone), gone \subseteq gone2,
         NEW no \in Running(p), NEW f \in Fetcher, f.pipe = p.fetcher[no].pipe,
         f.status = "running" => f.nTimeouts <= maxRetries /\ f.nNacks <= maxRetries,
         f.status = "error" => <<r, no>> \in gone2,
         NEW q, q = SetFetcher(p, no, f)
  PROVE  PipelineInv(q, r, last, gone2)
<1>1. IsMembers(p)
  BY DEF PipelineInv
<1>2. DOMAIN q.fetcher = DOMAIN p.fetcher
  BY <1>1, FetcherEffect
<1>3. q.fetcher[no] = f
  BY <1>1, FetcherEffect
<1>4. \A k \in DOMAIN p.fetcher : k # no => q.fetcher[k] = p.fetcher[k]
  BY <1>1, FetcherEffect
<1>5. /\ IsMembers(q) /\ SameCounts(p, q) /\ q.window = p.window
      /\ q.isStopping = p.isStopping /\ q.failed = p.failed
  BY <1>1, FetcherEffect
<1>6. Running(q) \subseteq Running(p)
  BY <1>2, <1>4 DEF Running
<1>7. ~ p.isStopping
  BY DEF PipelineInv, Failures
<1>8. Places(q)
  <2>1. \A k \in DOMAIN q.fetcher : q.fetcher[k] \in Fetcher /\ k < q.nextSegmentNo
    BY <1>2, <1>3, <1>4, <1>5 DEF PipelineInv, Places, SameCounts
  <2>2. ASSUME NEW k \in Running(q)
        PROVE  /\ q.fetcher[k].pipe \in DOMAIN q.window
               /\ q.window[q.fetcher[k].pipe] = k
               /\ q.fetcher[k].nTimeouts <= maxRetries
               /\ q.fetcher[k].nNacks <= maxRetries
    <3>1. CASE k = no
      BY <1>3, <1>5, <3>1 DEF PipelineInv, Places, Running
    <3>2. CASE k # no
      BY <1>2, <1>4, <1>5, <1>6, <3>2 DEF PipelineInv, Places, Running
    <3> QED
      BY <3>1, <3>2
  <2> QED
    BY <1>2, <1>5, <2>1, <2>2 DEF PipelineInv, Places
<1>9. LastKnown(q, last)
  BY <1>2, <1>5, <1>6 DEF PipelineInv, LastKnown, SameCounts
<1>10. Failures(q, r, last, gone2)
  <2>1. \A k \in DOMAIN q.fetcher : q.fetcher[k].status = "error" => <<r, k>> \in gone2
    BY <1>2, <1>3, <1>4, <1>5 DEF PipelineInv, Failures
  <2> QED
    BY <1>5, <1>7, <2>1 DEF PipelineInv, Failures, SameCounts
<1> QED
  BY <1>5, <1>8, <1>9, <1>10 DEF PipelineInv, SameCounts

\* A segment is counted.
LEMMA ReceiveInv ==
  ASSUME NEW p, NEW r, NEW last \in Nat, NEW gone, PipelineInv(p, r, last, gone),
         p.hasFinalBlockId, ~ p.isStopping,
         NEW q, q = [p EXCEPT !.nReceived = @ + 1]
  PROVE  /\ PipelineInv(q, r, last, gone) /\ q.nReceived = p.nReceived + 1
         /\ q.fetcher = p.fetcher /\ q.window = p.window
         /\ q.hasFinalBlockId /\ ~ q.isStopping
<1> DEFINE n == p.nReceived + 1
<1>1. IsMembers(p) /\ n \in Nat /\ q = [p EXCEPT !.nReceived = n]
  BY DEF PipelineInv, IsMembers
<1> HIDE DEF n
<1>2. /\ IsMembers(q) /\ q.nReceived = n
      /\ q.fetcher = p.fetcher /\ q.window = p.window /\ q.prefix = p.prefix
      /\ q.nextSegmentNo = p.nextSegmentNo /\ q.lastSegmentNo = p.lastSegmentNo
      /\ q.hasFinalBlockId = p.hasFinalBlockId /\ q.hasFailure = p.hasFailure
      /\ q.isStopping = p.isStopping /\ q.failed = p.failed
  BY <1>1 DEF IsMembers
<1>3. Running(q) = Running(p)
  BY <1>2 DEF Running
<1>4. Places(q)
  BY <1>2, <1>3 DEF PipelineInv, Places
<1>5. LastKnown(q, last) /\ Failures(q, r, last, gone)
  BY <1>2, <1>3 DEF PipelineInv, LastKnown, Failures
<1> QED
  BY <1>2, <1>4, <1>5 DEF PipelineInv, n

\* g solves the recursion of doRun from pipeline p.
Fills(p, N, g) ==
  g = [i \in 0 .. N |->
         IF i = 0 THEN p
         ELSE IF i > 1 /\ g[i - 1].fetcher = g[i - 2].fetcher THEN g[i - 1]
         ELSE fetchNextSegment(g[i - 1], i)]

\* It has a solution, whatever pipeline it starts from.
LEMMA FillExists ==
  ASSUME NEW p, NEW N \in Nat
  PROVE  \E g : Fills(p, N, g)
<1> DEFINE body(g, i) == IF i = 0 THEN p
             ELSE IF i > 1 /\ g[i - 1].fetcher = g[i - 2].fetcher THEN g[i - 1]
             ELSE fetchNextSegment(g[i - 1], i)
           S == {n \in Nat : \E g : g = [i \in 0 .. n |-> body(g, i)]}
<1>1. 0 \in S
  <2> DEFINE g == [i \in 0 .. 0 |-> p]
  <2>1. g = [i \in 0 .. 0 |-> body(g, i)]
    OBVIOUS
  <2> QED
    BY <2>1
<1>2. ASSUME NEW n \in Nat, n \in S
      PROVE  n + 1 \in S
  <2>1. PICK g : g = [i \in 0 .. n |-> body(g, i)]
    BY <1>2
  <2> DEFINE h == [i \in 0 .. n + 1 |-> IF i = n + 1 THEN body(g, i) ELSE g[i]]
  <2>2. \A i \in 0 .. n : h[i] = g[i] /\ g[i] = body(g, i)
    BY <2>1
  <2>3. h[n + 1] = body(g, n + 1)
    OBVIOUS
  <2>4. ASSUME NEW i \in 0 .. n + 1
        PROVE  body(h, i) = body(g, i)
    <3>1. i # 0 => h[i - 1] = g[i - 1]
      BY <2>2
    <3>2. i > 1 => h[i - 2] = g[i - 2]
      BY <2>2
    <3> HIDE DEF h
    <3>3. CASE i = 0
      BY <3>3
    <3>4. CASE i = 1
      BY <3>1, <3>4
    <3>5. CASE i > 1
      BY <3>1, <3>2, <3>5
    <3> QED
      BY <3>3, <3>4, <3>5
  <2>5. h = [i \in 0 .. n + 1 |-> body(h, i)]
    <3>1. ASSUME NEW i \in 0 .. n + 1
          PROVE  h[i] = body(g, i)
      <4> HIDE DEF h, body
      <4>1. i = n + 1 \/ i \in 0 .. n
        OBVIOUS
      <4> QED
        BY <2>2, <2>3, <4>1
    <3>2. \A i \in 0 .. n + 1 : h[i] = body(h, i)
      BY <2>4, <3>1
    <3>3. h = [i \in 0 .. n + 1 |-> h[i]]
      OBVIOUS
    <3> HIDE DEF h, body
    <3> QED
      BY <3>2, <3>3
  <2> HIDE DEF h, body
  <2>6. \E f : f = [i \in 0 .. n + 1 |-> body(f, i)]
    BY <2>5, Zenon
  <2> QED
    BY <2>6
<1> HIDE DEF S
<1>3. \A n \in 0 .. N : n \in S
  BY <1>1, <1>2, UpTo
<1>4. N \in S
  BY <1>3
<1> QED
  BY <1>4 DEF S, Fills

\* The window after the first i places were filled.
Filled(p, i, r, last, gone) ==
  /\ PipelineInv(p, r, last, gone)
  /\ p.nextSegmentNo = i /\ p.nReceived = 0
  /\ ~ p.hasFinalBlockId /\ ~ p.hasFailure /\ ~ p.isStopping
  /\ DOMAIN p.fetcher = 0 .. i - 1 /\ DOMAIN p.window = 1 .. i

\* A new pipeline has an empty window ...
LEMMA FilledNew ==
  ASSUME NEW r \in Reply, NEW last \in Nat, NEW gone,
         NEW p, p = [NewPipeline EXCEPT !.prefix = {r}]
  PROVE  Filled(p, 0, r, last, gone)
<1>1. /\ IsMembers(p) /\ p.fetcher = <<>> /\ p.window = <<>> /\ p.prefix = {r}
      /\ p.nextSegmentNo = 0 /\ p.nReceived = 0 /\ p.hasFinalBlockId = FALSE
      /\ p.hasFailure = FALSE /\ p.isStopping = FALSE /\ p.failed = FALSE
  BY DEF NewPipeline, IsMembers
<1>2. DOMAIN p.fetcher = {} /\ DOMAIN p.window = {} /\ Running(p) = {}
  BY <1>1 DEF Running
<1>3. Places(p) /\ LastKnown(p, last) /\ Failures(p, r, last, gone)
  BY <1>1, <1>2 DEF Places, LastKnown, Failures
<1> QED
  BY <1>1, <1>2, <1>3 DEF Filled, PipelineInv

\* ... and each place takes one fetcher more.
LEMMA FilledNext ==
  ASSUME NEW r \in Reply, NEW last \in Nat, NEW gone,
         NEW i \in Nat, i < maxPipelineSize, NEW p, Filled(p, i, r, last, gone),
         NEW q, q = fetchNextSegment(p, i + 1)
  PROVE  Filled(q, i + 1, r, last, gone)
<1>1. q = advance(request(p, i + 1))
  BY DEF fetchNextSegment, Filled
<1>2. i + 1 \in Pipes /\ maxPipelineSize \in Nat
  BY SegmentAssumption DEF Pipes
<1>3. \A no \in Running(p) : p.fetcher[no].pipe # i + 1
  BY DEF Filled, PipelineInv, Places
<1>4. PipelineInv(p, r, last, gone) /\ ~ p.isStopping /\ ~ p.hasFinalBlockId
      /\ p.nextSegmentNo = i
  BY DEF Filled
<1>5. /\ PipelineInv(q, r, last, gone)
      /\ q.nextSegmentNo = p.nextSegmentNo + 1 /\ q.nReceived = p.nReceived
      /\ q.hasFinalBlockId = p.hasFinalBlockId /\ q.hasFailure = p.hasFailure
      /\ q.isStopping = p.isStopping
      /\ DOMAIN q.fetcher = DOMAIN p.fetcher \cup {p.nextSegmentNo}
      /\ DOMAIN q.window = DOMAIN p.window \cup {i + 1}
  BY <1>1, <1>2, <1>3, <1>4, RequestInv
<1>6. /\ (0 .. i - 1) \cup {i} = 0 .. (i + 1) - 1
      /\ (1 .. i) \cup {i + 1} = 1 .. i + 1
  OBVIOUS
<1> QED
  BY <1>5, <1>6 DEF Filled

\* run on a new pipeline asks for the first segments, one in each place.
LEMMA RunInv ==
  ASSUME NEW r \in Reply, NEW last \in Nat, NEW gone
  PROVE  /\ PipelineInv(run(NewPipeline, r), r, last, gone)
         /\ run(NewPipeline, r).nReceived = 0
<1> DEFINE p == [NewPipeline EXCEPT !.prefix = {r}]
           N == maxPipelineSize
           fill[i \in 0 .. N] ==
             IF i = 0 THEN p
             ELSE IF i > 1 /\ fill[i - 1].fetcher = fill[i - 2].fetcher
                  THEN fill[i - 1]
             ELSE fetchNextSegment(fill[i - 1], i)
<1>1. run(NewPipeline, r) = fill[N]
  BY DEF run, doRun
<1>2. fill = CHOOSE g : Fills(p, N, g)
  BY DEF Fills
<1>3. N \in Nat /\ N > 0
  BY SegmentAssumption
<1>4. Filled(p, 0, r, last, gone)
  BY FilledNew
<1> HIDE DEF p, fill, N
<1>5. fill = [i \in 0 .. N |->
           IF i = 0 THEN p
           ELSE IF i > 1 /\ fill[i - 1].fetcher = fill[i - 2].fetcher THEN fill[i - 1]
           ELSE fetchNextSegment(fill[i - 1], i)]
  <2>1. \E g : Fills(p, N, g)
    BY <1>3, FillExists
  <2>2. Fills(p, N, fill)
    BY <1>2, <2>1
  <2> QED
    BY <2>2 DEF Fills
<1>6. fill[0] = p
  BY <1>3, <1>5
<1> DEFINE S == {i \in 0 .. N : /\ Filled(fill[i], i, r, last, gone)
                                /\ i > 0 => Filled(fill[i - 1], i - 1, r, last, gone)}
<1>7. 0 \in S
  BY <1>3, <1>4, <1>6
<1>8. ASSUME NEW i \in Nat, i < N, i \in S
      PROVE  i + 1 \in S
  <2>1. /\ i + 1 \in 0 .. N /\ (i + 1) - 1 = i /\ (i + 1) - 2 = i - 1 /\ i + 1 # 0
        /\ i + 1 > 1 <=> i > 0
    BY <1>3, <1>8
  <2>2. fill[i + 1] = IF i > 0 /\ fill[i].fetcher = fill[i - 1].fetcher THEN fill[i]
                      ELSE fetchNextSegment(fill[i], i + 1)
    BY <1>5, <2>1
  <2>3. ~ (i > 0 /\ fill[i].fetcher = fill[i - 1].fetcher)
    <3> SUFFICES ASSUME i > 0 PROVE fill[i].fetcher # fill[i - 1].fetcher
      OBVIOUS
    <3>1. /\ DOMAIN fill[i].fetcher = 0 .. i - 1
          /\ DOMAIN fill[i - 1].fetcher = 0 .. (i - 1) - 1
      BY <1>8 DEF Filled
    <3>2. i - 1 \in 0 .. i - 1 /\ i - 1 \notin 0 .. (i - 1) - 1
      OBVIOUS
    <3> QED
      BY <3>1, <3>2
  <2>4. fill[i + 1] = fetchNextSegment(fill[i], i + 1)
    BY <2>2, <2>3
  <2>5. Filled(fill[i], i, r, last, gone)
    BY <1>8
  <2>6. Filled(fill[i + 1], i + 1, r, last, gone)
    BY <1>8, <2>4, <2>5, FilledNext DEF N
  <2> QED
    BY <2>1, <2>5, <2>6
<1> HIDE DEF S
<1>9. \A i \in 0 .. N : i \in S
  BY <1>3, <1>7, <1>8, UpTo
<1>10. Filled(fill[N], N, r, last, gone)
  BY <1>3, <1>9 DEF S
<1> QED
  BY <1>1, <1>10 DEF Filled

------------------------------------------------------------------------------
(* The consumer, in state k, of a reply whose last segment is last. *)

\* The segments the consumer was given.
Received(k) ==
  (0 .. Len(k.output) - 1) \cup DOMAIN k.bufferedData \cup k.validating

\* What is buffered or validated lies behind what was written, never right
\* behind it if it is buffered.
ConsumerInv(k, last) ==
  /\ k \in [validating : {k.validating}, bufferedData : {k.bufferedData},
            output : Seq(Reply)]
  /\ \A no \in DOMAIN k.bufferedData : k.bufferedData[no] \in Reply
  /\ Len(k.output) <= last + 1
  /\ DOMAIN k.bufferedData \subseteq Len(k.output) .. last
  /\ k.validating \subseteq Len(k.output) .. last
  /\ DOMAIN k.bufferedData \cap k.validating = {}
  /\ Len(k.output) \notin DOMAIN k.bufferedData

\* A consumer that was just made has nothing.
LEMMA NewConsumerInv ==
  ASSUME NEW last \in Nat
  PROVE  /\ ConsumerInv(NewConsumer, last) /\ Received(NewConsumer) = {}
         /\ NewConsumer.validating = {}
<1>1. /\ NewConsumer.validating = {} /\ NewConsumer.bufferedData = <<>>
      /\ NewConsumer.output = <<>> /\ Len(<<>>) = 0 /\ <<>> \in Seq(Reply)
      /\ DOMAIN NewConsumer.bufferedData = {}
  BY DEF NewConsumer
<1>2. NewConsumer \in [validating : {NewConsumer.validating},
                       bufferedData : {NewConsumer.bufferedData}, output : Seq(Reply)]
  BY <1>1 DEF NewConsumer
<1> QED
  BY <1>1, <1>2 DEF ConsumerInv, Received

\* A segment that is handed to the validator.
LEMMA ValidateInv ==
  ASSUME NEW last \in Nat, NEW k, ConsumerInv(k, last),
         NEW no \in 0 .. last, no \notin Received(k),
         NEW q, q = [k EXCEPT !.validating = @ \cup {no}]
  PROVE  /\ ConsumerInv(q, last) /\ Received(q) = Received(k) \cup {no}
         /\ q.validating # {}
<1>1. /\ q.validating = k.validating \cup {no} /\ q.bufferedData = k.bufferedData
      /\ q.output = k.output
      /\ q \in [validating : {q.validating}, bufferedData : {q.bufferedData},
                output : Seq(Reply)]
  BY DEF ConsumerInv
<1>2. no \in Len(k.output) .. last /\ no \notin DOMAIN k.bufferedData
  BY DEF ConsumerInv, Received
<1> QED
  BY <1>1, <1>2 DEF ConsumerInv, Received

\* The segments written are the ones from the next on, without a gap: up to
\* some segment e that is not there.
LEMMA WrittenInterval ==
  ASSUME NEW last \in Nat, NEW next \in Nat, NEW D \in SUBSET (next .. last)
  PROVE  \E e \in Nat :
           /\ next <= e /\ e \notin D
           /\ {x \in D : next <= x /\ next .. x \subseteq D} = next .. e - 1
<1> DEFINE T == {x \in Nat : next <= x /\ x \notin D}
<1>1. T \in SUBSET Nat
  OBVIOUS
<1>2. next + last + 1 \in T
  OBVIOUS
<1>3. PICK e \in T : \A y \in T : e <= y
  <2>1. T # {}
    BY <1>2
  <2> HIDE DEF T
  <2> QED
    BY <1>1, <2>1, LeastOf
<1>4. e \in Nat /\ next <= e /\ e \notin D
  BY <1>3
<1>5. next .. e - 1 \subseteq D
  BY <1>3, <1>4
<1>6. ASSUME NEW x \in D, next <= x, next .. x \subseteq D
      PROVE  x \in next .. e - 1
  BY <1>4, <1>6
<1>7. ASSUME NEW x \in next .. e - 1
      PROVE  x \in D /\ next <= x /\ next .. x \subseteq D
  BY <1>4, <1>5, <1>7
<1> QED
  BY <1>4, <1>6, <1>7

\* writeInOrderData moves segments on and loses none.
LEMMA WriteInv ==
  ASSUME NEW last \in Nat, NEW k, ConsumerInv(k, last), NEW reply \in Reply,
         NEW no \in Len(k.output) .. last, no \notin DOMAIN k.bufferedData,
         NEW q, q = writeInOrderData(k, no, reply)
  PROVE  /\ ConsumerInv(q, last) /\ Received(q) = Received(k) \cup {no}
         /\ q.validating = k.validating \ {no}
<1> DEFINE B == put(k.bufferedData, no, reply)
           next == Len(k.output)
           written == {x \in DOMAIN B : next <= x /\ next .. x \subseteq DOMAIN B}
           rest == [x \in DOMAIN B \ written |-> B[x]]
           tail == [j \in 1 .. Cardinality(written) |-> B[next + j - 1]]
           out == k.output \o tail
<1>1. q = [k EXCEPT !.validating = @ \ {no}, !.bufferedData = rest, !.output = @ \o tail]
  BY DEF writeInOrderData
<1>2. /\ k.output \in Seq(Reply) /\ next \in Nat /\ next <= last + 1
  BY DEF ConsumerInv
<1>3. /\ DOMAIN B = DOMAIN k.bufferedData \cup {no}
      /\ \A x \in DOMAIN B : B[x] \in Reply
  BY DEF put, ConsumerInv
<1>4. DOMAIN B \in SUBSET (next .. last)
  BY <1>3 DEF ConsumerInv
<1> HIDE DEF B, next
<1>5. PICK e \in Nat : next <= e /\ e \notin DOMAIN B /\ written = next .. e - 1
  BY <1>2, <1>4, WrittenInterval
<1>6. Cardinality(written) = e - next /\ e - next \in Nat
  <2>1. Cardinality(next .. e - 1) = IF next > e - 1 THEN 0 ELSE (e - 1) - next + 1
    BY <1>2, FS_Interval
  <2>2. e - next \in Nat /\ (next > e - 1 => e - next = 0) /\ (e - 1) - next + 1 = e - next
    BY <1>2, <1>5
  <2> QED
    BY <1>5, <2>1, <2>2
<1>7. written \subseteq DOMAIN B
  OBVIOUS
<1> HIDE DEF written
<1>8. tail \in Seq(Reply) /\ Len(tail) = e - next
  <2>1. ASSUME NEW j \in 1 .. Cardinality(written)
        PROVE  B[next + j - 1] \in Reply
    <3>1. next + j - 1 \in next .. e - 1
      BY <1>2, <1>5, <1>6
    <3> QED
      BY <1>3, <1>5, <1>7, <3>1
  <2> QED
    BY <1>6, <2>1
<1> HIDE DEF tail
<1>9. out \in Seq(Reply) /\ Len(out) = e
  <2>1. Len(out) = next + (e - next)
    BY <1>2, <1>8 DEF next
  <2> QED
    BY <1>2, <1>5, <1>8, <2>1
<1>10. /\ DOMAIN rest = DOMAIN B \ written
       /\ \A x \in DOMAIN rest : rest[x] \in Reply
  BY <1>3
<1> HIDE DEF rest
<1>11. /\ q.validating = k.validating \ {no} /\ q.bufferedData = rest /\ q.output = out
       /\ q \in [validating : {q.validating}, bufferedData : {q.bufferedData},
                 output : Seq(Reply)]
  BY <1>1, <1>9 DEF ConsumerInv
<1> HIDE DEF out
<1>12. e <= last + 1
  <2>1. CASE e = next
    BY <1>2, <2>1
  <2>2. CASE e # next
    <3>1. e - 1 \in written
      BY <1>2, <1>5, <2>2
    <3>2. e - 1 \in next .. last
      BY <1>4, <1>7, <3>1
    <3> QED
      BY <1>2, <1>5, <3>2
  <2> QED
    BY <2>1, <2>2
<1>13. DOMAIN rest \subseteq e .. last
  <2> SUFFICES ASSUME NEW x \in DOMAIN B, x \notin written
               PROVE  x \in e .. last
    BY <1>10
  <2> QED
    BY <1>2, <1>4, <1>5
<1>14. \A x \in k.validating : x # no => x \in e .. last /\ x \notin DOMAIN B
  <2> SUFFICES ASSUME NEW x \in k.validating, x # no
               PROVE  x \in e .. last /\ x \notin DOMAIN B
    OBVIOUS
  <2>1. x \in next .. last /\ x \notin DOMAIN k.bufferedData
    BY DEF ConsumerInv, next
  <2>2. x \notin DOMAIN B
    BY <1>3, <2>1
  <2>3. x \notin next .. e - 1
    BY <1>5, <1>7, <2>2
  <2> QED
    BY <1>2, <1>5, <2>1, <2>2, <2>3
<1>15. ConsumerInv(q, last)
  BY <1>5, <1>9, <1>10, <1>11, <1>12, <1>13, <1>14 DEF ConsumerInv
<1>16. Received(q) = Received(k) \cup {no}
  <2>1. 0 .. e - 1 = (0 .. next - 1) \cup (next .. e - 1)
    BY <1>2, <1>5
  <2>2. Received(q) = (0 .. e - 1) \cup (DOMAIN B \ written) \cup (k.validating \ {no})
    BY <1>9, <1>10, <1>11 DEF Received
  <2>3. Received(k) = (0 .. next - 1) \cup DOMAIN k.bufferedData \cup k.validating
    BY DEF Received, next
  <2> QED
    BY <1>3, <1>5, <1>7, <2>1, <2>2, <2>3
<1> QED
  BY <1>11, <1>15, <1>16

\* What was received is counted by what was written, buffered and is validating.
LEMMA CountOf ==
  ASSUME NEW last \in Nat, NEW k, ConsumerInv(k, last)
  PROVE  /\ Received(k) \subseteq 0 .. last
         /\ Cardinality(Received(k)) \in Nat /\ Cardinality(Received(k)) <= last + 1
         /\ Cardinality(Received(k)) = last + 1 => Received(k) = 0 .. last
         /\ Cardinality(Received(k))
              = Len(k.output) + Cardinality(DOMAIN k.bufferedData \cup k.validating)
<1> DEFINE n == Len(k.output)
           W == 0 .. n - 1
           H == DOMAIN k.bufferedData \cup k.validating
<1>1. n \in Nat /\ n <= last + 1 /\ H \subseteq n .. last
  BY DEF ConsumerInv
<1>2. Received(k) = W \cup H
  BY DEF Received
<1> HIDE DEF n, H
<1>3. W \cup H \subseteq 0 .. last /\ W \cap H = {}
  BY <1>1
<1>4. IsFiniteSet(0 .. last) /\ Cardinality(0 .. last) = last + 1
  BY FS_Interval
<1>5. IsFiniteSet(W) /\ Cardinality(W) = n
  BY <1>1, FS_Interval
<1>6. IsFiniteSet(H)
  BY <1>3, <1>4, FS_Subset
<1>7. Cardinality(W \cup H) = Cardinality(W) + Cardinality(H) - Cardinality(W \cap H)
  BY <1>5, <1>6, FS_Union
<1>8. Cardinality(H) \in Nat /\ Cardinality({}) = 0
  BY <1>6, FS_CardinalityType, FS_EmptySet
<1>9. Cardinality(W \cup H) = n + Cardinality(H)
  <2>1. Cardinality(W \cap H) = 0
    BY <1>3, <1>8
  <2> HIDE DEF W
  <2> QED
    BY <1>1, <1>5, <1>7, <1>8, <2>1
<1>10. /\ Cardinality(W \cup H) <= last + 1
       /\ Cardinality(W \cup H) = last + 1 => W \cup H = 0 .. last
  <2> DEFINE I == 0 .. last
             R == W \cup H
  <2>1. IsFiniteSet(I) /\ R \in SUBSET I /\ Cardinality(I) = last + 1
    BY <1>3, <1>4
  <2> HIDE DEF I, R
  <2>2. Cardinality(R) <= Cardinality(I) /\ (Cardinality(I) = Cardinality(R) => I = R)
    BY <2>1, FS_Subset
  <2> QED
    BY <2>1, <2>2 DEF I, R
<1> QED
  BY <1>1, <1>2, <1>3, <1>8, <1>9, <1>10 DEF n, H

\* A segment more is one more, and as long as one is missing not all are there.
LEMMA CountMissing ==
  ASSUME NEW last \in Nat, NEW k, ConsumerInv(k, last),
         NEW no \in 0 .. last, no \notin Received(k)
  PROVE  /\ Cardinality(Received(k) \cup {no}) = Cardinality(Received(k)) + 1
         /\ Cardinality(Received(k)) <= last
<1>1. /\ Received(k) \subseteq 0 .. last
      /\ Cardinality(Received(k)) \in Nat /\ Cardinality(Received(k)) <= last + 1
      /\ Cardinality(Received(k)) = last + 1 => Received(k) = 0 .. last
  BY CountOf
<1>2. IsFiniteSet(Received(k))
  <2>1. IsFiniteSet(0 .. last)
    BY FS_Interval
  <2> QED
    BY <1>1, <2>1, FS_Subset
<1>3. Cardinality(Received(k) \cup {no}) = Cardinality(Received(k)) + 1
  BY <1>2, FS_AddElement
<1> QED
  BY <1>1, <1>3

\* When all segments have been received and validated, all have been written.
LEMMA WholeOutput ==
  ASSUME NEW last \in Nat, NEW k, ConsumerInv(k, last), Received(k) = 0 .. last
  PROVE  k.validating = {} <=> Len(k.output) = last + 1
<1>1. Len(k.output) \in Nat /\ Len(k.output) <= last + 1
  BY DEF ConsumerInv
<1>2. ASSUME k.validating = {}
      PROVE  Len(k.output) = last + 1
  <2>1. Len(k.output) \notin Received(k)
    BY <1>1, <1>2 DEF ConsumerInv, Received
  <2> QED
    BY <1>1, <2>1
<1>3. ASSUME Len(k.output) = last + 1
      PROVE  k.validating = {}
  <2>1. Len(k.output) .. last = {}
    BY <1>3
  <2> QED
    BY <2>1 DEF ConsumerInv
<1> QED
  BY <1>2, <1>3

\* The output parses when it is the whole reply and not before.
LEMMA ParsesWhole ==
  ASSUME NEW r, Reply = {r}, NEW size, NEW store, size[r] \in Nat \ {0},
         store[r] = populateStore(size[r]),
         NEW k, ConsumerInv(k, lastSegment(store[r]))
  PROVE  Parses(k, size, store) <=> Len(k.output) = lastSegment(store[r]) + 1
<1> DEFINE n == size[r]
           s == populateStore(n)
           last == lastSegment(s)
           out == k.output
<1>1. /\ last \in Nat /\ Len(s) = last + 1 /\ last * maxSegmentSize < n /\ n \in Nat
  BY Segments
<1>2. /\ out \in Seq(Reply) /\ Len(out) \in Nat /\ Len(out) <= last + 1
      /\ DOMAIN out = 1 .. Len(out) /\ \A i \in 1 .. Len(out) : out[i] = r
  BY DEF ConsumerInv
<1>3. \A j \in 0 .. Len(s) :
        bytes(s, j) = IF j = Len(s) THEN n ELSE j * maxSegmentSize
  BY BytesOf
<1>4. ASSUME NEW j \in 1 .. Len(out)
      PROVE  bytes(s, j) >= n <=> j = last + 1
  <2>1. j \in 0 .. Len(s) /\ maxSegmentSize \in Nat
    BY <1>1, <1>2, SegmentAssumption
  <2>2. CASE j = last + 1
    BY <1>1, <1>3, <2>1, <2>2
  <2>3. CASE j # last + 1
    <3>1. j \in Nat /\ j <= last
      BY <1>1, <2>1, <2>3
    <3>2. j * maxSegmentSize <= last * maxSegmentSize /\ j * maxSegmentSize \in Nat
          /\ last * maxSegmentSize \in Nat
      BY <1>1, <2>1, <3>1, Times
    <3>3. bytes(s, j) = j * maxSegmentSize
      BY <1>1, <1>3, <2>1, <2>3
    <3> QED
      BY <1>1, <2>3, <3>2, <3>3
  <2> QED
    BY <2>2, <2>3
<1>5. Parses(k, size, store) <=>
        out # <<>> /\ \E j \in 1 .. Len(out) :
          (\A i \in 1 .. j : out[i] = out[1]) /\ bytes(store[out[1]], j) >= size[out[1]]
  BY <1>2 DEF Parses
<1>6. out # <<>> <=> Len(out) > 0
  BY <1>2
<1>7. Parses(k, size, store) <=> \E j \in 1 .. Len(out) : bytes(s, j) >= n
  <2>1. ASSUME NEW j \in 1 .. Len(out)
        PROVE  /\ out # <<>> /\ out[1] = r /\ \A i \in 1 .. j : out[i] = out[1]
    BY <1>2, <1>6
  <2> HIDE DEF out, s, n
  <2>2. store[r] = s /\ size[r] = n
    BY DEF s, n
  <2> QED
    BY <1>5, <2>1, <2>2
<1> HIDE DEF out, s
<1>8. Parses(k, size, store) <=> \E j \in 1 .. Len(out) : j = last + 1
  BY <1>4, <1>7
<1> QED
  BY <1>1, <1>2, <1>8 DEF out, s

------------------------------------------------------------------------------
(* Pipeline and consumer together. *)

\* What the pipeline counts is what the consumer was given, each segment once:
\* the fetcher of a segment that was received never runs again.
Accounted(p, k) ==
  /\ p.nReceived = Cardinality(Received(k))
  /\ \A no \in Received(k) : no \in DOMAIN p.fetcher /\ p.fetcher[no].status # "running"

\* Steps that receive nothing keep the account.
LEMMA AccountedKept ==
  ASSUME NEW p, NEW q, NEW k, Accounted(p, k), Keeps(p, q)
  PROVE  Accounted(q, k)
BY DEF Accounted, Keeps

\* Counting decides whether everything has been received.
LEMMA AllReceived ==
  ASSUME NEW p, NEW r, NEW last \in Nat, NEW gone, PipelineInv(p, r, last, gone),
         NEW k, ConsumerInv(k, last), Accounted(p, k)
  PROVE  allSegmentsReceived(p) <=> Received(k) = 0 .. last
<1>1. /\ p.nReceived \in Nat /\ p.lastSegmentNo \in Nat
      /\ p.hasFinalBlockId => p.lastSegmentNo = last
      /\ ~ p.hasFinalBlockId => p.nReceived = 0
  BY DEF PipelineInv, IsMembers, LastKnown
<1>2. /\ p.nReceived <= last + 1
      /\ p.nReceived = last + 1 => Received(k) = 0 .. last
  BY CountOf DEF Accounted
<1>3. Received(k) = 0 .. last => p.nReceived = last + 1
  BY FS_Interval DEF Accounted
<1> QED
  BY <1>1, <1>2, <1>3 DEF allSegmentsReceived

\* Then nothing runs any more and nothing has failed.
LEMMA AllReceivedQuiet ==
  ASSUME NEW p, NEW r, NEW last \in Nat, NEW gone, PipelineInv(p, r, last, gone),
         NEW k, ConsumerInv(k, last), Accounted(p, k), allSegmentsReceived(p)
  PROVE  Running(p) = {} /\ ~ p.failed
<1>1. Received(k) = 0 .. last
  BY AllReceived
<1>2. p.hasFinalBlockId
  BY DEF allSegmentsReceived
<1>3. \A no \in Running(p) : no \in Nat /\ no <= last /\ p.fetcher[no].status = "running"
  BY <1>2 DEF PipelineInv, Places, LastKnown, Running
<1>4. \A no \in Running(p) : no \in Received(k)
  BY <1>1, <1>3
<1>5. Running(p) = {}
  BY <1>3, <1>4 DEF Accounted
<1> QED
  BY <1>5 DEF PipelineInv, Failures

\* DataFetcher::handleData stops the fetcher of segment no.
Stopped(p, no) == [p EXCEPT !.fetcher[no].status = "stopped"]

\* Segment no arrives: its fetcher stops, its place is free, and the last
\* segment is known unless the transfer has failed.
LEMMA ArrivesInv ==
  ASSUME NEW p, NEW r \in Reply, NEW last \in Nat, NEW gone,
         PipelineInv(p, r, last, gone), NEW no \in Running(p),
         NEW q, q = learnFinalBlockId(Stopped(p, no), last)
  PROVE  /\ PipelineInv(q, r, last, gone) /\ Keeps(p, q)
         /\ no \in DOMAIN q.fetcher /\ q.fetcher[no].status # "running"
         /\ p.fetcher[no].pipe \in Pipes
         /\ ~ q.isStopping =>
              /\ q.hasFinalBlockId
              /\ \A n \in Running(q) : q.fetcher[n].pipe # p.fetcher[no].pipe
<1>1. PICK f : f = [p.fetcher[no] EXCEPT !.status = "stopped"]
  OBVIOUS
<1>2. PICK i : i = p.fetcher[no].pipe
  OBVIOUS
<1>3. PICK s : s = SetFetcher(p, no, f)
  OBVIOUS
<1>4. /\ IsMembers(p) /\ no \in DOMAIN p.fetcher /\ p.fetcher[no] \in Fetcher
      /\ i \in Pipes /\ i \in DOMAIN p.window /\ p.window[i] = no
  BY <1>2 DEF PipelineInv, Places, Running, Fetcher
<1>5. f \in Fetcher /\ f.pipe = i /\ f.status = "stopped"
  BY <1>1, <1>2, <1>4 DEF Fetcher
<1>6. /\ PipelineInv(s, r, last, gone) /\ Keeps(p, s) /\ s.fetcher[no] = f
      /\ s.window = p.window /\ DOMAIN s.fetcher = DOMAIN p.fetcher
  <2>1. PipelineInv(s, r, last, gone)
    BY <1>2, <1>3, <1>5, FetcherInv
  <2> QED
    BY <1>3, <1>4, <2>1, FetcherEffect
<1>7. q = learnFinalBlockId(s, last)
  BY <1>1, <1>3 DEF SetFetcher, Stopped
<1>8. /\ PipelineInv(q, r, last, gone) /\ Keeps(s, q)
      /\ q.isStopping \/ (q.hasFinalBlockId /\ ~ q.isStopping)
      /\ q.isStopping \/ q.window = s.window
  BY <1>6, <1>7, LearnInv
<1>9. no \in DOMAIN q.fetcher /\ q.fetcher[no].status = "stopped"
  BY <1>4, <1>5, <1>6, <1>8 DEF Keeps
<1>10. Keeps(p, q)
  BY <1>6, <1>8 DEF Keeps
<1>11. ASSUME ~ q.isStopping, NEW n \in Running(q)
       PROVE  q.fetcher[n].pipe # i
  <2>1. q.window[q.fetcher[n].pipe] = n /\ q.fetcher[n].status = "running"
    BY <1>8 DEF PipelineInv, Places, Running
  <2>2. q.window[i] = no
    BY <1>4, <1>6, <1>8, <1>11
  <2> QED
    BY <1>9, <2>1, <2>2
<1> QED
  BY <1>2, <1>4, <1>8, <1>9, <1>10, <1>11

\* The segment is counted, and the place it leaves asks for the next one.
LEMMA CountedInv ==
  ASSUME NEW p, NEW r \in Reply, NEW last \in Nat, NEW gone,
         PipelineInv(p, r, last, gone), p.hasFinalBlockId, ~ p.isStopping,
         NEW i \in Pipes, \A n \in Running(p) : p.fetcher[n].pipe # i,
         NEW q, q = [p EXCEPT !.nReceived = @ + 1],
         NEW s, s = IF allSegmentsReceived(q) THEN q ELSE fetchNextSegment(q, i)
  PROVE  /\ PipelineInv(q, r, last, gone) /\ PipelineInv(s, r, last, gone)
         /\ q.fetcher = p.fetcher /\ q.nReceived = p.nReceived + 1
         /\ Keeps(q, s)
<1>1. /\ PipelineInv(q, r, last, gone) /\ q.nReceived = p.nReceived + 1
      /\ q.fetcher = p.fetcher /\ q.window = p.window
      /\ q.hasFinalBlockId /\ ~ q.isStopping
  BY ReceiveInv
<1>2. CASE allSegmentsReceived(q)
  BY <1>1, <1>2 DEF Keeps
<1>3. CASE ~ allSegmentsReceived(q)
  <2>1. s = fetchNextSegment(q, i)
    BY <1>3
  <2>2. \A n \in Running(q) : q.fetcher[n].pipe # i
    BY <1>1 DEF Running
  <2>3. PipelineInv(s, r, last, gone) /\ Keeps(q, s)
    BY <1>1, <1>3, <2>1, <2>2, FetchNextInv
  <2> QED
    BY <1>1, <2>3
<1> QED
  BY <1>2, <1>3

==============================================================================
