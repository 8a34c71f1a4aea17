# Verification of cert-ledger (NDN-CLedger)

TLA+ models of the ledger library in `src/` of the repository
(`UCLA-IRL/cert-ledger`), checked with TLC on small instances, and theorems about
the record DAG, the group of ledger instances, the append protocol and the checker
proved with TLAPS for every value of the constants. `PROJECT.json` maps each
definition to the lines it models and lists the runs, the mutants, the hazards,
the findings and the theorems. Paths below are relative to the repository.

## The system

A certificate ledger is a group of instances. Clients append Data packets
(certificates, revocation records) to one of them; the instance wraps each in a
*record* that cites the records it knows and nobody has cited yet, and publishes
it to the group over SVS. Instances reply with records that cite what they have
received. A record cited often enough, by the configured policy, is *interlocked*.
A checker later asks for a Data packet with the records that interlock it.

| Part | State | Operations | Talks to |
|---|---|---|---|
| DAG engine `src/dag/dag-module.cpp` | edge states in the storage (status, descendants), `m_waitlist` | `add`, `getAncestors`, `onNewRecord`, `evaluateWaitlist`, `harvestBelow`, `harvestAbove` | storage, policy |
| Interlock policies `src/dag/interlock-policy-*.cpp` | none | `evaluate`, `select` | called by the DAG engine |
| Ledger instance `src/ledger-module.cpp` | DAG, storage, states tracker, `m_repliedRecords`, reply timer | `onDataSubmission`, the yield callback, `publishReply`, `dagHarvest`, `onQuery` | all of the others |
| Sync `src/sync/` | `m_seqNo` | `publishRecord`, `getNextName`, subscription callback | SVS (external) |
| Append protocol `src/append/` | client: retries, nonce2, filters; ledger: sessions | notification, fetch, submission, ack | network, validator, ledger instance |
| Segments `src/util/segment/` | window of fetchers, counters, reorder buffer | `run`, `handleData`, `handleFail`, `writeInOrderData` | network, validator |
| Checker `src/checker*.cpp`, `src/util/validate-multiple.cpp` | retries, one pipeline, one consumer | `doCheck`, `dispatchInterest`, `validateMultipleData` | segments, validator |
| Storage `src/storage/` | name to block | `addBlock`, `getBlock`, `deleteBlock` | |
| Records, edge states, lists `src/record.cpp`, `src/dag/edge-state*.cpp` | none | encoding, decoding | storage, network |
| Tools `tools/`, configuration `src/util/`, `src/ledger-config.cpp` | none after start-up | command lines, files; the status tool reads an instance's edge states | the classes above |
| Legacy ledger `legacy/` | frontier, ring of recent names, waiting records, database | constructor, `createRecord`, `onUpdate` | SVS |

What makes it hard: records arrive in any order and more than once; the status of
a record, its descendants and its place in the waitlist are written separately;
submissions, deliveries and the reply timer interleave; notifications, fetches
and acks are lost, late and retried; validators call back at once or later. The
list, at the lines where it bites, is under `hazards`.

What makes each part correct: the DAG engine counts exactly the citations that
exist, interlocks on no fewer than the policy asks for and takes nothing back; an
instance keeps Data, payload maps, tracker and DAG in step, replies once, answers
queries with records that really back the one asked for, and in the end
everything submitted is interlocked; an append has one outcome, is processed once
and ends; a reply arrives whole or not at all, and a check ends with a verdict
that is right; a legacy peer vouches only for history that is in its database.

## The modules

| Module | What it is |
|---|---|
| `DagEngine` | the functions of class `DagModule` and of the policies as operators on a DAG state |
| `DagModule` | one instance's DAG as a state machine: `Add` in any order, `HarvestAbove` at any time |
| `AncestorWalk` | the loop of `getAncestors` step by step, shown to compute what `DagEngine` uses |
| `InterlockLog` | abstract: what an instance promises about interlocks, without policy, waitlist, edge states and timers |
| `LedgerModule` | a group of instances over SVS, composed of `DagEngine` states: submissions, deliveries, timers, queries |
| `Codec` | records, edge states and lists as trees of TLV blocks: `wireEncode`, `wireDecode` |
| `LedgerStatus` | the internal objects of an instance and what the status tool decodes from them |
| `Append` | the four-packet append protocol with its retries, over a lossy network |
| `SegmentFetch` | producer, consumer, pipeline and fetchers of a segmented reply, as operators |
| `Checker` | a client's checks as a state machine, composed of `SegmentFetch` |
| `CertLedger` | the legacy ledger: peers, database, restarts |
| `MCDagModule`, `MCAncestorWalk`, `MCLedgerModule`, `MCAppend`, `MCCertLedger` | instances for TLC |
| `DagEngineTheorems`, `SegmentFetchTheorems` | lemmas about the operators of `DagEngine` and of `SegmentFetch`; the invariant of one DAG, shared by the two specifications that contain one |
| `DagModuleProofs`, `AncestorWalkProofs`, `LedgerModuleProofs`, `AppendProofs`, `CheckerProofs`, `CertLedgerProofs` | theorems and proofs about the module of that name |

A definition commented "Mutant" is a plausible bug put in place of the definition
it precedes, to see that a property fails with it. Nothing else uses it.

### DagEngine, DagModule, AncestorWalk

An `EdgeState` is split into `status[n]` and `desc[n]`; the waitlist is a set of
pairs of level and name. A name the storage does not know and a placeholder that
was just constructed are both `INITIALIZED`. `getAncestors` is defined as the
smallest set its walk cannot leave; `AncestorWalk` models the loop itself, with
frontier, list length as the loop condition and no marks, and both TLC and TLAPS
show that they agree. `onNewRecord` is one step: the callers run to completion,
and all walks see the same statuses, since only the new record's changes and that
first. `harvestAbove` is modelled with `remove = true`, the only call there is.

`DagModule` chooses one citation graph in `Init`. A record that never arrives is
simply never added. Histories are acyclic because a record can only cite names
that exist; `LedgerModule` checks that what instances produce is such a history
(`HistoryWellFormed`).

### InterlockLog

The abstract specification has three variables: what records cite, which records
the instance knows and which it has locked. A step may learn records and may lock
a known record whose *backers* (the known records that reach it through known
records) are worth the threshold; it takes nothing back. The mapping reads `known`
and `locked` off the statuses of the edge states. `DagModule` implements it, and so
does every instance inside `LedgerModule`, where the citations are not given but
made up as the system runs; both are checked and proved.

### LedgerModule, LedgerStatus, Codec

Each handler runs to its end on one `io_context`, so each is one action:
`OnDataSubmission`, `DuplicateSubmission` and `PublicationFails` (the outcomes of
`afterValidation`: a record is published; the raw Data is in the storage already;
`publishRecord` throws after the Data was stored), `OnRecord` (the yield callback,
with its early return for Data that is already stored), `NothingToReply`,
`PublishReply` and `PublishReplyFails` (the outcomes of `publishReply`: nothing to
cite; a reply is published; `publishRecord` throws after `m_repliedRecords` was
filled). In the last case the exception leaves the event loop and ends the ledger
tool (`tools/ndncledger-ledger.cpp:82`); the model lets the instance go on, as under a
caller that catches it. `Faults` is the set of instances where publishing may fail.
`returned` remembers what submissions returned.

`onQuery` changes nothing and is an operator on the state: the set of answers, since
which descendants come first depends on how publishers are named. `collected` is the
part of it that the ledger alone decides: raw Data, payload map, edge state, the
selection. The packets of the records themselves are then read from the storage under
the names of the records (`ledger-module.cpp:216`, `sync/sync-module.cpp:43`), while
`LedgerSVSDataStore` keeps them under the names SVS gives its Data
(`sync/ledger-svs.cpp:24`). Those names are not in the repository, so the model leaves
open whether the packets are found, and any query may be answered with a Nack.
Under the names the tests use (`tests/svs-core-fixture.cpp:45`, with the sync prefix
between publisher and number) none would be found and every record query would end in
a Nack. `QueryTruthful` therefore promises what an answer other than a Nack is worth,
and that nothing else stands between mapped Data and its answer; it does not promise
that a query is answered.

SVS is external: any published record may be handed to any other instance
at any time, again too. `MaxSeq` bounds the publications of an instance. The
validator is taken to answer at once: with one that calls back later
`onDataSubmission` has returned and the references given to it are gone
(`ledger-module.cpp:162`), which is undefined.

Fairness: a record an instance lacks is in the end delivered to it (what SVS is
for), and a scheduled timer fires. Each arriving record starts the timer anew
(`ledger-module.cpp:454`), so this also assumes that records do not keep coming
faster than the reply period; with finitely many publications they cannot. A
client need not submit. In `ledger_interlocks` `MaxSeq` is above what instances
can publish, so it blocks no reply.

`LedgerStatus` puts what an instance serves to the status tool (the tracker and
the edge states) through the encoding of `Codec` and back; a block is a pair of a
type and a tree or value. A decoder's loop over the elements is given by what it
leaves: a field has the value of the last element of its type (`assigned`), a set of
names those of all of them (`inserted`), the record is decoded with the name that
came before it, and an unknown element of a critical type is an exception.

### Append

One client, one ledger, several appends, each named by its nonce. `net` holds
packets in flight; Data only meets a pending Interest of its name. With
`Lossy` every packet may be lost, every Interest may time out although the answer
is on its way, be Nacked, and every validation or storage step may fail; without
it an Interest times out only if nothing that could lead to an answer is left. Both sides' retry
limits are `MAX_RETRIES` (3 in the code, 1 here: it takes one retry for a late
answer to meet a second attempt). A list of statuses is the set of its members.
Fairness: pending Interests are answered or time out, validators call back,
packets do not stay in flight for ever.

### SegmentFetch, Checker

`store` is the list of segments `populateStore` makes of a block of `size` bytes.
`pipeline` and `consumer` are the members of the two classes; a fetcher is
`running`, `stopped` or in `error`. The producer answers a segment it has
and Nacks any other. `Checker` makes the steps: asking the ledger, with its
retries and the ways an answer is refused; every answer, timeout and Nack of a
segment; the validator's callbacks, at once or later (`Async`); the parsing of
what has been written and the validation of the records in it. A failed transfer,
an invalid segment and bytes that do not parse are exceptions that leave the event
loop (`thrown`); nothing happens after one. Fairness: an Interest is answered or
times out, callbacks are called.

### CertLedger

Records are numbered in the order they are made. The database is keyed by content
name, and `verifyPreviousRecord` asks it for full names, as the code does
(`legacy/cert-ledger.cpp:179`): it never finds one, so every received record stays
among `m_noPrevRecords` and no peer ever cites the record of another. `Restart`
keeps the database and loses the rest ("TODO persistence at node failure").
A second record of the same Data replaces the first in a database (`legacy/backend.cpp:38`),
so what `CitesHeldHistory` asks of it is the cited record or one of the same content name.
A record that is lost, or refused by the validator, is one that is never handed over.
`verifyPreviousRecord` is split into the pointers it misses (`missing`), what it does
for a record that misses some (`mark`) and what it does for the records that waited
for one that misses none (`release`, a recursive function, as the code calls itself).

## What the runs show

| Run | Instance | Shows |
|---|---|---|
| `dag_witness` | 5 records of 2 publishers, all 1024 acyclic graphs, threshold 2, witness policy | waitlist and edge states agree; citations are counted exactly in any order of arrival; nothing is interlocked without enough publishers or taken back; tips always exist; the abstract log is implemented |
| `ancestor_walk` | all graphs on 3 records (with cycles), all statuses | the loop ends and finds exactly the ancestors |
| `ledger_safety` | 2 instances, 2 Data, one for both, 4 publications each, threshold 2, failing publications and replies at one instance, repeated submissions | genesis records come first, histories are well formed, replies are not repeated, Data is mapped, the tracker is complete, what a query answers, unless it is a Nack, can be relied on, each instance implements its log |
| `ledger_interlocks` | 2 instances, one submission each, 2 citations asked for | everything submitted is interlocked everywhere; what the status tool decodes is what the DAG holds |
| `append_lossy` | 1 append of 2 Data, 1 retry, all failures | one outcome, processed once, truthful acks, every append ends |
| `checker_window` | window 3, replies of 1, 2 and 4 segments, 1 retry, all failures, late validation | exact counting; what was received and validated is handed over whole; nothing calls back after the verdict; failures are justified; verdicts are right; every check ends |
| `legacy_ledger` | 2 peers, 2 genesis records, 3 records of 2 Data, 2 restarts | of all that a peer vouches for its database has the record or a later one of the same Data, the frontier loses nothing, records are refused only for want of tailing records |

Why the bounds are enough: with five records one can arrive between two others
that are already there, with one more citing past an interlocked record. Three
names give every shape of the walk's loop (self-citation, cycle, diamond). Four
publications let an instance make its genesis record, a second submission and
replies that cite, are cited and are interlocked, on both sides. The sizes 2, 3 and 8 with segments
of two bytes are a full segment, a rest, and more segments than the window; one
retry is what a late answer needs to meet a second attempt. In the legacy ledger
three records of two Data are enough for a record to overwrite another in a database
while a third is cited, and for the ring of two places to be overwritten and begun
again; with two restarts either peer restarts, or one does so twice. Only that run
uses symmetry, in the peers and in the Data, which nothing in the module tells apart.

Runs expected to fail show where the code differs from what its comments say
(`findings`):

* `dag_late_citations`: a record that arrives after a record citing it was
  interlocked leaves its ancestors short of citations: walks stop at interlocked
  records.
* `ledger_same_data`: a record whose Data is already stored ends the yield
  callback before `dagHarvest`; the older record that it cites then waits for ever
  with enough citations.
* `append_concurrent`: the first ack cancels the filters of all appends, so
  another one cannot be fetched; the ledger acknowledges it with a failure, and
  the client reports success whatever the statuses are.
* `ledger_retry`: a submission whose publication failed leaves its raw Data in the
  storage; submitted again it is taken for a duplicate and reported as a success,
  though no record of it exists.
* `checker_shared`: a `Checker` runs its only pipeline for every check; when it is
  run again after a reply of one segment it asks for nothing, and no callback of
  the second check is ever called.

Further limits are written into properties. `FailureJustified` holds only while
the window is not larger than the content: with a larger one the Nack of a segment
that does not exist fails the transfer (`pipeline-interests-fixed.cpp:66`); the
default window is 1. `AllReceivedDelivers` allows a parsing exception: with late
validation the consumer tries to finish with a part of the reply
(`consumer.cpp:85`). `StoredDataMapped` excepts Data whose publication failed, and
`TrackerComplete` an instance's own replies, which `publishReply` does not track.

## What is proved

| Module | For every | Theorems about |
|---|---|---|
| `DagModuleProofs` | finite set of names, set of acyclic histories, positive threshold, both policies | `TypeOK`, `WaitlistConsistent`, `DescendantsSound`, `DescendantsComplete`, `ArrivalOrderIrrelevant`, `InterlockedJustified`, `InterlockQuorum`, `TipsExist`, `NoSelfCitation`, the action property `Irrevocable`, the refinement of `InterlockLog` |
| `AncestorWalkProofs` | finite graph, cyclic or not | `TypeOK`, `WalkSound`, `WalkCorrect` |
| `LedgerModuleProofs` | finite set of instances, set of Data and of submissions, bound on publications, positive threshold, both policies | `TypeOK`, `GenesisIsFirst`, `HistoryWellFormed`, `RepliedStillWaiting`, `RepliesOnce`, `StoredDataMapped`, `TrackerComplete`, `QueryTruthful`, `StatusTruthful`, the refinement of `InterlockLog` by every instance |
| `AppendProofs` | set of appends and of Data, number of retries, lossy or not | `TypeOK`, `OneOutcome`, `ProcessedOnce`, `AckTruthful` |
| `CheckerProofs` | size of reply, segment and window, number of retries and records, with and without failures and late validation; one check | `TypeOK`, `CountIsExact`, `AllReceivedDelivers`, `QuietAfterVerdict`, `FailureJustified`, `VerdictSound` |
| `CertLedgerProofs` | set of peers and of events, number of genesis records, of records and of restarts, `precedingRecordNum` above 1 and not above the number of genesis records | `TypeOK`, `CitesHeldHistory`, `FrontierComplete`, `RefusedForWantOfTails`, `CitesOnlyOwn` |

`InterlockedJustified` and `NoSelfCitation` are proved and not run: they are steps
on the way to `InterlockQuorum`, the refinement and `TipsExist`. `CitesOnlyOwn` (a
peer cites genesis records and its own) is such a step to `CitesHeldHistory`.

**One DAG.** `DagInv` (module `DagEngineTheorems`): the state is typed, the waitlist is
what the edge states make it, and descendants are sound, complete and, for
interlocked records, enough. No part is inductive alone. Completeness needs
soundness (a record that is loaded makes longer walks only for its own descendants,
so these must be known), interlocking needs the waitlist to carry the level of the
present descendants, and harvests keep completeness because interlocking only
shortens walks (`WalkAfterInterlock`). `TipsExist` and `NoSelfCitation` then follow
from acyclicity, and `InterlockQuorum` from soundness because more descendants are
never fewer publishers (`EvaluateMonotone`). `DagEngineTheorems` has the lemmas about
the operators: `getAncestors` is the least closed set (`AncestorsAreLeast`), what
`onNewRecord` and `harvestAbove` leave, field by field. The invariant is stated for
a DAG over any history of citations, so `DagModule` uses it for the history chosen
in `Init` and `LedgerModule` for the one that the group makes up.

The refinement rests on the same invariant. Statuses only grow, so the abstract log
only grows. An interlocked record has descendants of the level asked for, by
soundness these are backers in the abstract sense, and more backers are worth no
less (`LockedIsBacked`): every new lock has its backing.

**The walk.** `WInv` says that what was kept are ancestors, that a name kept and
expandable is in the frontier or was expanded, and that a count that did not grow
means the kept set is closed.

**A group of instances.** `LInv` has one part about the history (`HistoryInv`: names
that were not published have no record, a published record cites published ones,
itself just when it is a genesis record, and there are no cycles) and one about each instance (`InstanceInv`: its DAG satisfies `DagInv`
over that history, and Data, payload maps, tracker and replied records are those of
the records that have arrived). A publication is the hard step: it adds a record to
the history under all instances at once. Nobody cites it yet, so no walk of another
instance changes, and it closes no cycle; that it has something to cite is
`TipsExist` for the publisher's DAG. `RepliesOnce` needs the reason why a reply may be forgotten: the record
is interlocked, and that is irrevocable. `QueryTruthful` is then soundness of the
descendants that the answer is taken from, and `DataMapped` (mapped Data is stored, and
the record it is mapped to has arrived) for the way to it. A reply that fails leaves
`LInv` alone: what it would have cited still waits.

`StatusTruthful` has two halves. Whatever is written is read back as it was: names
(`NamesRoundTrip`), a record (`RecordRoundTrip`), an edge state with and without
descendants (`StateRoundTrip`), the list, empty or not (`ListRoundTrip`). Each
type of element occurs at most once in what the encoders make, none is unknown, and
the name stands before the record. The other half is `Tracked`: the list holds only
records that have arrived, so each of its entries is found in the storage
(`StateReadBack`), and it misses only the instance's own replies. Different records
have edge states of different names, hence as many are shown as are tracked.

**Appending.** `AInv` follows the Data of an append as one token, from the
submission that answers a fetch, through the session that validates it, to
`m_onUpdate` (`TokenInv`). Wherever it is, it carries the nonce2 that the client has
matched, and no two sessions share a nonce2 (`SessionInv`): a second session for the
same append is never answered with the Data. An ack was true when it was sent and storage forgets
nothing (`AckInv`). `OneOutcome` is about the client alone: each callback leaves the
phase that could call it.

**Checking.** `CInv` says of a check that what the caller was told is what the
records say (`Told`), that nothing was fetched before the ledger answered
(`Waiting`), and of a transfer (`Fetching`):

* `PipelineInv`: a running fetcher is the one in its place of the window and has
  retries left; before the last segment number is known only the window of `run` was
  asked for, afterwards nothing runs beyond the last segment; an error stands for a
  segment that was given up, and a pipeline that has failed has nothing running and
  will never have received everything;
* `ConsumerInv`: what is buffered or validating lies behind what was written, and
  the next segment to write is never left in the buffer;
* `Accounted`: what the pipeline counts are the different segments the consumer was
  given, and none of their fetchers runs again.

Counting is thus exact, everything has been received exactly when the consumer has
the segments up to the last (`AllReceived`), and if none is validating all have been
written (`WholeOutput`). The sizes that `populateStore` makes then add up to the size
of the block after the last segment and not before (`BytesOf`, `ParsesWhole`), which
is why the output parses when the consumer has it all and fails to parse while a
validation is outstanding. That the place in the window is free when
`fetchNextSegment` fills it, which the code asserts
(`pipeline-interests-fixed.cpp:93`), is a hypothesis of the lemma `FetchNextInv`, and
is proved where a segment arrives (`ArrivesInv`). Several checks over one pipeline
are left out of the theorems: with them the run `checker_shared` fails.

**The legacy ledger.** `CInv` says of the records (`RecordsInv`) that each cites older
ones only, of those its maker may vouch for (`Vouched`: the genesis records and its
own), and that the maker had it in its database; and of each peer (`PeerInv`) that frontier and ring hold
records of its DAG, which are in its database and, unless the peer vouches
for them, marked in `m_noPrevRecords`. That last part is the heart of it: every
record has pointers, none is ever found under its full name, so
each received record is marked, none is released, and `createPointers` takes only
unmarked names. The history of a record is then inside what its maker vouches for,
which is closed under citation. What is left of it in the database is `DatabaseInv`:
`putRecord` overwrites an entry only by a record of the same content name
(`PutHolds`), and the constructor after a restart puts back the genesis records
under theirs (`StartHolds`), so under the name of every record the peer ever put there
is one of that name. `FrontierComplete` is inductive with the types: a tailing record
leaves the frontier only when the record that cites it enters the DAG. A record made
from a wide frontier has distinct pointers and is not refused
(`RefusedForWantOfTails`). A lookup that worked would break `NobodyCitesOthers`, as it
should: the theorem describes this code, with the lookup as it is.

Assumptions: the ones named in the modules, all evaluated by TLC.
Every invariant and every action property that a passing run checks is proved. Not
proved, and checked by TLC only:

* `WalkTerminates`, `EventuallyInterlocked`, `AppendEnds`, `CheckEnds`: the prover has
  no liveness under fairness.

## Not modelled

* Configuration, key and certificate files, argument parsing, printing, logging,
  prefix registration: sequential and without state that changes later. The
  tools but the status tool make one call of a modelled class each.
* `LedgerLevelDB`: the configuration reads the storage type and path and discards
  them (`ledger-config.cpp:70`), so it is never selected, and an instance of the present
  ledger starts over an empty `LedgerMemory`. There is no restart to model there;
  the legacy ledger has one.
* Callbacks of a late validator into `onDataSubmission` and `validateMultipleData`,
  and the span a `Record` keeps into a buffer it does not own: undefined
  behaviour, listed as hazards.
* The encoding of payload maps (pairs in the model) and of the append protocol's
  packets (nonces and statuses), the back-off of a congested Interest, times other
  than whether an edge state was stamped.
* The names under which SVS stores the packets of records (see `LedgerModule` above).
* Signatures and trust schemas: a validator accepts or does not.

## Plan

1. *Done*: the modules above, the refinement of `InterlockLog` by `DagModule` and by
   every instance of `LedgerModule`, the theorems about every module that has a
   specification.
2. What holds of `VerdictSound` when several checks share the pipeline.
3. Encodings of payload maps; several appends over a lossy network.
