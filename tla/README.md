# A verification of taisce's memory

taisce stores what an agent and a person said to each other as *turns* in a per-project log, has a
model extract *facts* from them afterwards, and answers recalls from those facts. Everything is in
PostgreSQL: the Go code is a set of stores over one pool of connections, a formation driver that
works through the backlog, and an HTTP/MCP API. Several replicas run against one database.

This directory holds TLA+ modules of the parts that are concurrent and stateful and of the
algorithms they rest on, TLC instances that check them on small projects, and TLAPS proofs of the
properties that matter most for every number of projects, turns, workers, claims and messages.

## The system

| component | state | operations | interacts with |
|---|---|---|---|
| observation log (`observationstore.go`, `observationretry.go`) | `observation` rows (`formed_at`, `parked_at`, `formation_attempts`, `formation_failed_at`), the `watermark` row of each project, `observation_retry` receipts | append with or without a key, replay, claim a turn, mark formed, record a failure, park, unpark, read freshness | everything: a turn is the root every projection registers against |
| ingestion budget (migration 0025) | `ingestion_budget.pending`, `ingestion_project_usage`, `ingestion_reservation` | deferred triggers at the commit of any insert, update or delete of a turn | append, form, rebuild, erase, sweep |
| formation worker and driver (`formation.go`, `driver.go`) | a session advisory lock per project, where each worker stands | drain a backlog, extract, assert claims, mark, record a failure, park | log, fact store, model |
| formation recovery (`formationrecovery.go`) | - | list and unpark parked turns | log |
| facts (`factstore.go`, `extractionpin.go`, `speaker.go`, `entitynames.go`) | `fact`, `fact_evidence`, `entity`, receipts of claims, extraction pins | assert, supersede, reject, resolve an entity | formation, edits, rebuilds |
| record edits (`recordassertion.go`, `recordcorrection.go`, `recordretraction.go`, `feedbackstore.go`) | `curated_claim`, `record_retraction` | assert, correct, retract | log, facts |
| rebuilds (`factgeneration.go`, `generation*.go`, `rebuildjob.go`, `projectrebuild.go`) | `fact_generation`, `fact_rebuild_job` (lease, offsets, pending source) | prepare, publish, finish; acquire, next, complete, cancel a project job | log, facts, erasure |
| erasure (`erasurestore.go`) | `erasure_request` with counts and residuals | erase a subject or named sources | every projection, log, budget |
| retention (`retentionstore.go`, `subjectretention.go`) | `retention_until`, sweep receipts | sweep a project | log, projections |
| embeddings (`embedding*.go`, `entityembedding.go`, `reportembedding.go`) | generations with a boundary or targets, their builds and leases, vectors, the active one | start, build a page, follow, activate, cancel, repair, prune, search | messages, entities, reports; triggers of migrations 0049 and 0050 |
| communities and reports (`community/*.go`, `report.go`, `communitystore.go`, `subjects.go`) | `community` rows, `community_report` with its registrations, `observation.fact_revision` | partition, replace, select, read material, write | facts; every worker's and operator's pass |
| compaction (`compaction/*.go`, `segmentstore.go`) | `segment` rows registered to their turns | list, plan, read material, write; assemble a context | log, erasure |
| notifications (`notificationstore.go`, `notifications.go`) | one delivery per endpoint and watermark | owe, claim, send, settle | watermark |
| audit ledger (`auditstore.go`, migrations 0013, 0017, 0064) | entries, chained seals | append, seal, verify | every operation |
| recall (`recall/*.go`, `recallstore.go`) | none; one answer composed over several statements | anchors, the walk, as-of reads, reports, passages, the cut to a budget | facts, embeddings, reports |
| citation, export, record reads | none (reads) | | facts, chunks |
| API (`internal/api`): memory operations, the same as MCP tools, management, portal | one admission gate and one budget of refusals for each server, the portal's sessions | authenticate, resolve, admit, dispatch, record | registry, stores, ledger |
| credentials and projects (`credential.go`, `projectstore.go`) | `credential`, `project` | mint, resolve, revoke; suspend, resume | every request |
| subjects, artifacts, migration, CLI, docs | rows behind unique constraints; files | | |

What is hard here is not in any one function:

* **Two writers of one project** are ordered by the row lock on its `watermark` row, by row locks on
  its turns, by session and transaction advisory locks, and by nothing else: the isolation level is
  READ COMMITTED and every statement has a snapshot of its own.
* **A formation attempt outlives its transaction.** A model call takes seconds; the lock that makes a
  worker the only one belongs to a session that can end while the worker goes on.
* **A turn can go at any time**: an erasure or a sweep deletes it under a worker that is extracting
  it, under a retry that names it, under a counter that counts it.
* **Workers die, are shut down, and come back** between any two statements.
* **Limits, counters and receipts** are kept by triggers at commit, on paths that know nothing of them.
* **What was read is used later**: a rebuild, a report, a page of vectors and a summary are each made
  from rows that were read before a model was asked, and written after; something has to notice what
  changed in between.
* **The ledger of operations is written beside them**: by a store with its change, by a handler after it,
  by a door that refuses; a seal covers ranges of numbers that rows have drawn and not committed.

The properties that make each part correct are those each module below states. `PROJECT.json` lists
each hazard at the line where it bites.

## The modules

```
FormedWatermark            what GET /v1/freshness promises (abstract)
   ^          ^
   | refines  | refines
ObservationLog   WatermarkTx          one action per transaction / per SQL statement
   ^
   | EXTENDS, and WSpec => Spec
FormationWorkers           drain, its lock, faults, the store's other clients

ClaimStore                 facts of a slot: believed, superseded, withdrawn, rebuilt, erased
RebuildJobs                a project read again, source by source
Embeddings                 generations of vectors of three kinds
Compaction                 a person's history rolled up into segments
Leiden <- Communities      the subjects of a project and the reports about them
Recall, Excerpts           how a question is answered, and the words around a citation
NotificationOutbox         one delivery per endpoint and watermark

Operations <- Requests     two requests at the doors, from a slot to a row
  Admission <-|            what a server lets in
AuditLedger <-|            rows, seals, verifications
```

A module `XProofs` holds the theorems about `X`, `FormationProofs` those about the log and its workers,
`WorkerPassesProofs` those about `NotificationOutbox` and `Compaction`, `AnswersProofs` those about
`WatermarkTx` and `Recall`; a module `MCX` holds the definitions a TLC instance of `X` needs. The modules are apart where the code couples them by a single row or foreign key, which
each then models by what the other side may do to it: a turn is erased, a fact is withdrawn, a
watermark moves.

### FormedWatermark (abstract)

Three variables: what has become of each offset, the highest offset accepted, and the formed
watermark. A turn is accepted, settled, reopened or forgotten; the watermark may be restated only to
a number with nothing waiting at or below it, and moves backward only when a parked turn is reopened
or everything above its new place is gone. The modules below keep this promise.

### ObservationLog

One action per committed transaction of the store. `phase[s][o]` stands for the row at offset `o` of
project `s`: `backlog` (`formed_at` and `parked_at` NULL), `parked`, `formed`; `none` before it is
written and `erased` after it is deleted. `attempts` is `formation_attempts` and `due` says that the
backoff of `formation_failed_at` has passed. `logOffset` and `formedOffset` are the watermark row,
`receipt` the retry table, `reserved`, `pending` and `usage` the ingestion budget.

| action | code |
|---|---|
| `Append`, `RefuseAppend`, `Replay`, `RefuseKey` | `AppendIdempotent` and `appendTurnTx`; the refusal is the deferred trigger's at commit |
| `AssertRecord`, `ReplayAssert` | `AssertRecords`, one record per batch |
| `Correct` | the authored source of `RecordStore.Correct`; artifacts enter the log the same way |
| `ClaimTurn`, `BackoffElapses` | `NextUnformed` and the clock |
| `RecordFormationFailure`, `MarkFormed`, `Park`, `Unpark` | the operations of the same names (`UnparkAudited` is `Unpark` with an audit row) |
| `FinishGeneration` | `finishGenerationTx`, after a rebuild of the turn has been published |
| `Erase`, `Sweep` | `Eraser.erase`, `RetentionStore.Sweep`: the rows, their reservations (cascade) and receipts (trigger); neither touches the watermark |

Abstracted: message contents, times and chunks; a payload is what its fingerprint can tell apart. A
batch of several new records is as many actions (each leaves the watermark recomputed, which the code
does once, at the end of the batch). `acks` is history: the answers callers with a key have had. The
clock only decides when a turn is due, and so a due turn may stay unclaimed and any stamped turn may
become due at any later moment.

### WatermarkTx

The same transactions for one project, one action per SQL statement: begin, take the offset (which
locks the watermark row), update the row, lock the watermark row, recompute, lock and delete rows,
commit, roll back at any point. `View(c)` is a READ COMMITTED snapshot: what is committed now plus what
`c` wrote. Row locks and the watermark lock are held to the end of the transaction. Commits are where
`row`, `stored` and `formed` change.

One path recomputes without having locked: a batch of records that are all known (`RecomputeUnlocked`,
`WriteStale`). Its number may be stale when it is written, and no step of `FormedWatermark` (finding 3).
So the refinement is one about the transactions that lock the row before they read, with replayed batches
running between their statements: it maps the abstract watermark to `agreed`, the number the last
recompute under the lock committed. `formed`, which callers read, is `agreed` but between the commit of
such a batch and the next recompute; of it `FreshnessIsHonest` says that it covers a waiting turn only
where a replayed batch put it back, a turn reopened between that batch's reading and its commit
(`reopened`, `misread`). The three are history. `ObservationLog` shows what such a batch does when it is
not interleaved (`ReplayAssert`). Corrections and batches of new and known records are not in the module.

### FormationWorkers

Each worker runs `drain`: it takes the scope lock, claims the lowest due turn, extracts its messages
one by one (`FormMessage`, one model call and its claims), marks it, or records a failure and parks it
when its attempts are used up. `lock[s]` is the session advisory lock. Faults: `Stop` (a shutdown or a
failed statement), `Crash` (the lock stays until the server notices: `ReapSession`), `LoseSession` (the
lock goes and the worker carries on). `Clients` are the other users of the log: appends, authored
records, erasures and sweeps (which take the turn's claims with it), unparking, the clock. Rebuild jobs
are not among them: a rebuild publishes facts without `drain`, and is module `RebuildJobs`.

`tries` and `lost` are history: how often a turn was claimed since it last joined the backlog, and
whether the project's lock was ever lost under a live worker.

### NotificationOutbox

Telling a project's endpoints that its watermark moved: `Driver.projections`, `Notifications.Deliver`,
the sender and `NotificationStore`, over the two tables of migration 0058. It stands alone: of the log it
knows only that the watermark moves (`WatermarkMoves`, in both directions).

| action | code |
|---|---|
| `Register`, `Disable` | the endpoint's row; a URL is registered once |
| `NoNews`, `ReadFreshness`, `Owe` | the end of `projections`: the watermark is read, and one row is written for each live endpoint, by a later statement |
| `Claim`, `EndPass`, `Send`, `Delivered`, `Failed` | one round of `Deliver`; the claim commits before the request |
| `BackoffElapses` | `next_attempt_at` passes |
| `Abandon` | the worker dies, is shut down, or its statement fails: what it has sent stays sent, and unrecorded |

`queue` is the due rows in the order of `next_attempt_at`. A row's lock lasts one statement, and a claim
or a settlement may meet another; `SKIP LOCKED` then takes the next. A request that failed may have been
accepted by its receiver. A row settles whatever it says already (`both`: delivered and parked).

### ClaimStore

A fact holds a value of a *slot* (a subject and a relation) over two half-open intervals: when it is
true, `[vf, vt)`, and when the store believes it, `[kf, kt)`. `fact` is the receipt of each fact, which
a trigger keeps equal to its row; `lost` names the facts whose row is missing; `history` the intervals
saved when a fact was superseded; `pin` the extraction that interprets a source; `withdrawn` what people
retracted or corrected. A transaction others can interleave with is two actions: the first takes the
source lock and reads the clock, the second takes the last locks, writes and commits.

| action | code |
|---|---|
| `BeginAssert`, `FinishAssert` | `AssertAdmitted`: stamp, close what is superseded, archive it, insert or be refused by the exclusion constraint |
| `Reassert`, `Recover` | a claim met again whose row is lost, and `RecoverFacts` |
| `PinExtraction` | the first statement of a formation attempt |
| `Retract`, `BeginCorrect`, `FinishCorrect` | `retractTx`, `RecordStore.Correct` |
| `Prepare`, `RefusePublish`, `BeginPublish`, `FinishPublish` | a rebuild's snapshot and `ApplyGeneration`, claim by claim in the model's order |
| `Erase`, `Lose`, `Abort` | an erasure of sources, a row lost, a transaction rolled back (also by the database, as a deadlock's victim) |

The clock is a parameter of the action that reads it and may step back. `vacated` is history: the slots
in which a row was lost, or a fact given up whose end an erased source had written; there nothing can
order a new fact against what is missing, and `OneAnswer` speaks of the others. Many-valued slots are in
the module and not in the instance.

### RebuildJobs

| action | code |
|---|---|
| `Acquire`, `Stop` | the session lock and the lease of a job's row; every end of a run |
| `NextStops`, `NextSettles`, `NextResumes`, `NextReserves` | the outcomes of `Next` |
| `Find`, `Read` | the source's generation is looked up; the snapshot is read and the model asked |
| `Publish`, `PublishSettled`, `PublishRefused`, `Finish`, `Complete` | the guarded publication, the turn's bookkeeping, the checkpoint: each a transaction |
| `Cancel`, `SourceRebuild`, `SourceFinish` | the operator |
| `Append`, `Form`, `Park`, `Erase`, `Edit` | the project in use |
| `Fail`, `Disconnect` | a runner dies; or loses the session of its lock and goes on |

A snapshot's digest is a version number that every edit of the source raises. One extractor version: a
job started under another is refused before anything is written. Two things to know of the code that are
no fault of it: a runner whose successor has already published may still ask the model once (its lease
is checked at the publication, not before the call), and a source that always fails keeps its job
pending until the job is cancelled.

### Embeddings

A behaviour is about one of the three `kind`s, whose stores are the same program over different
inputs: messages never change and have a boundary in the log, entities and reports are a snapshot of
targets and change underneath.

| action | code |
|---|---|
| `Start`, `Activate`, `Cancel`, `Repair`, `Prune`, `Extend` | the operations of the same names; `Extend` is a follower's |
| `Take`, `Read`, `Commit`, `Refuse` | the lease of a build, a page of inputs, the vectors or the refusal |
| `Fail`, `Disconnect` | a builder ends or loses its session; the lease stays in the row |
| `Create`, `Remove`, `ChangeReport`, `BeginChange`, `CommitChange` | what is embedded, and the triggers that make a snapshot stale or incomplete |

Distances, ranking and dimensions are left out; a vector is the version of the text it was computed from.

### Compaction

`Form` and `Erase` are the history; `ReadTurns`, `Plan`, `ReadMaterial`, `Write`, `Refuse` and `Fail` one
replica's pass, a statement each with no lock between them. `Scan` is the planner and `InContext` what
`Assemble` hands to a reader, both as definitions over the sets of turns and segments: a run is the pair
of places where it begins and ends in the order of the units (`Ordered`). `missed` is
history: a turn formed after a later one, or a plan that passed over a turn of its range (`PassedOver`),
one that formed in between or that the list of turns still showed in the tail. The properties that
need its absence say so; findings 10, 11 and 25 are what happens otherwise.

Turns have a size. Material over the ceiling loses its oldest turns (`Bound`) while the segment is still
registered to its whole range, as the comment on `bound` says; the pass reports how many went. So a turn
can be under a segment that says nothing of it, and `NothingForgotten` says exactly when: the turns of
that level-1 segment from it on were more than the ceiling (`CutFrom`). `SummariesOutliveNoTurn` holds of
what is told, `said`, and of what is registered, apart.

### Leiden and Communities

`Leiden` is the pure part: the graph, one component's partition (`Move`, `SplitDisconnected`,
`Aggregate`, tier by tier), the split of what is too large, and the two levels that are stored. Its
arithmetic is exact; the code's is `float64`, and two gains equal here may differ there in the last
bit. It was compared with a transliteration of the Go code on 212 random graphs.

`Communities` takes a table of what `Leiden` makes of each graph (`Formed`; the instance checks the table
against `Leiden`). Each turn states one relation. `Limit` is how many communities a pass takes up at
a time: a worker's `ReportsPerPass`, an operator's `--limit`. Communities with no relation among their
members can never be described and keep their place in the page (finding 15), so
`EverySubjectIsDescribed` excludes a community that has as many of them before it (`Crowded`).

| action | code |
|---|---|
| `ReadGraph`, `Replace`, `Store`, `Abort` | `Subjects.Run`, and `Replace` as its DELETE and its commit; two that delete what the other stores deadlock |
| `Select`, `ReadFacts`, `ReadKids`, `Write`, `Fail` | `Unwritten`, `Material`, `children`, `BuildContext`, `Write` |
| `Form`, `Withdraw`, `Rebuild`, `Erase` | what changes a fact: the trigger raises its source's revision and deletes the reports registered to it |
| `Upgrade`, `Crash` | a release whose writer identity differs; a process nobody restarts |

### Recall and Excerpts

One request at a time (`Ask`), composed surface by surface while claims are asserted (`StartWrite`,
`CommitAssert`), retracted, erased and expire: `ReadAnchors`, `Propose`, `ReadFacts`, `ReadReports`,
`ReadPassages`, their failures, and `Return`. `FactLists` is what the recursive statement
`factsAboutTemplate` can return (walks from the anchors, cut at each hop, the shortest kept, and
`Rankings` of them), and `Believed` its as-of forms, which give of each claim the `Version` an instant
saw. `Children` are the reports a request may step down to. What a question names and what is near it in
meaning are inputs. A bundle keeps the anchors its facts were read about (`from`), which the code returns
with it, so that an answer about the past can be compared with what the statement would tell again. A fact
found beyond the first step is given with its chain, the names and relations on the way (`Chain`), which
the budget is charged for too. Which of several shortest walks the statement keeps is left open, so two
answers about one instant may be cut at different places: `PastAnswersStand` says that they agree as far
as both go, and that the one that stops sooner is marked as truncated.
`Excerpts` is the byte arithmetic of a citation's window and of the pages of a message; TLC evaluates
its two properties over every message of up to five code points as assumptions of the run `Recall`.

### Requests, with Operations, Admission and AuditLedger

`Operations` is the tables: what each door serves, what a read-only credential may ask, and for each
handler what it leaves in the ledger (`Profile`: whether its store writes the row in the transaction of
the change, or the handler afterwards; whether a declined or failed request has a row; what it counts).
`Admission` is the gate as pure operators. `AuditLedger` has rows that are open, kept or lost by number,
seals that chain over ranges, and verifications statement by statement; a digest is its argument, so
two are equal exactly where what they digest is. `Requests` composes them: a request is at one `phase`,
holds slots, and ends `answered`.

| action | code |
|---|---|
| `Authenticate`, `Resolve`, `ResolveFails`, `CheckActive` | `resolveGrant`, `operated`, `login`; a tool call passes `Authenticate` twice (`inner`) |
| `FindSession`, `ResolveSession`, `Act` | the portal's `signed` and `acting`, and the confirmation in `perform` |
| `Sample` | `recordRefusedAuth` |
| `Admit` | `acquire`, then `authorized` |
| `Malformed`, `Read`, `Change`, `SetSuspended`, `RevokeCredential`, `CheckProject`, `Mint`, `Preview` | what handlers do that record for themselves |
| `OpenStore`, `GoOnWriting`, `CommitStore`, `AbortStore` | the transactions of stores that record |
| `AskSeal`, `Seal`, `GiveUpSeal`, `StartVerify`, `VerifySeal`, `VerifyRest`, `TellVerdict`, `VerifyFails` | sealing and verifying |
| `AppendRow`, `RowKept`, `RowLost` | `AuditStore.Append` and its outcome, which the answer does not depend on |
| `CommandLineRevokes`, `CommandLineSuspends`, `SessionEnds`, `DriverAsks`, `DriverSeals`, `AnotherCommits`, `Alter` | everybody else |

`changed`, `unheard`, `cold`, `shut` and `tampered` are history: whose change committed, whose row was
lost, who came without a standing credential or to a suspended project, and whether the ledger was
altered behind its back. A statement's error may follow a commit (`Did`'s `Failed`). Where many handlers
are one program over different stores (`Change`, `OpenStore`), the map names one of them and `Operations`
each of them.

## What the runs check

| run | instance | what it shows | states |
|---|---|---|---|
| `ObservationLog` | two projects, two turns each, one append key, one assertion key, two payloads; limits 3 and 2 | the watermark is honest and implements the abstract one, counters equal the turns they count, a key has one answer | 104,326 |
| `FormationWorkers` | two workers, one project, two turns of two messages, two attempts | a formed turn is wholly extracted, no claim outlives its turn, two workers meet only where a lock was lost, a parked turn had its tries; under fairness every turn settles | 328,431 |
| `WatermarkTx` | three connections, one project, two turns | in every interleaving of statements, what transactions with the lock commit are steps of the abstract watermark, and the number covers a waiting turn only where a batch without it put it back; no circle of waiting transactions | 235,806 |
| `NotificationOutbox` | two workers, one endpoint, two watermarks, two tries, one answer lost | what reads as delivered was accepted, a destination is not asked for ever, every delivery settles however its receiver answers | 706,272 |
| `ClaimStore` | two writers, two turns, one edit, one single-valued slot, three values, three instants | one answer at a time, what was believed is not rewritten, nothing withdrawn returns, one extraction per source, an erased source leaves nothing | 169,508 |
| `RebuildJobs` | two runners, one job, a log of one turn that grows to two, one operator's rebuild, two edits, one failure | a job misses nothing, counts what it published, asks the model once for what it has, and ends | 318,888 |
| `Embeddings` | two generations, two builders, two inputs of each kind | the active generation stands, and a search finds what it answers for | 1,075,012 |
| `Compaction` | two replicas, six turns, segments of two, two levels, two erasures | no summary escapes an erasure; with no turn missed a context leaves out only what its summary had no room for, and a plan can be written | 273,156 |
| `Communities` | a worker's pass and an operator's, of two releases, two turns over three entities in a line | no report tells of what is gone; in the end every subject that is not crowded out is described by the running release | 115,615 |
| `Recall` | seven requests over two projects, two people and a web page; two writes, one erasure, one lapse | an answer holds what its caller may see, all of it unless it says it was cut, within its budget; the past is told as it was | 152,928 |
| `Requests` | any two of 21 requests, a project, four of its credentials and an operator, one row open in another process, one outside event | slots come back, nothing is done without authority, the ledger and what changed agree, a verification is honest | 1,612,277 |
| `DisconnectedSubject` | a tree of fourteen entities | finding 14 (violation) | |

### Bounds

`MaxOffset` bounds the log; two offsets are enough for a turn to be settled out of order, for a gap, for
one turn to wait below a formed one and for the counters of a project to meet its limit, and two
projects for the shared limit (3) to bind before the projects' own (2 each). `WatermarkTx` has three
connections, so that two can disagree about what a third has done and a replayed batch can wait for one
while another reopens a turn; two connections over three turns were also run (819,449 states). `AttemptCap` is where
`attempts` stops being counted; it is at least `MaxAttempts`.

`NotificationOutbox` needs two watermarks for its order of claims to matter and two workers for a late
answer; one answer that is never recorded (`MaxAbandoned`, in all) shows the price of each.

`ClaimStore`: `Horizon` = 3 instants on either axis let an interval be split, closed and be followed by
another; a superseded claim, its successor from another source and a person's edit are three sources in
one slot. A fifth claim, two sources rebuilt with two losses, were also explored (620,876 states of an
earlier form of the module; 1.7 million without finishing): they show nothing else. A larger
`RebuildJobs` (two turns of which the first is an edit, growing to three) has 637,776 states.
`Embeddings` was also run with one repair beside one fault (3,061,072 states) and with three messages in
pages of two (105,555). `Compaction`'s six turns fill both levels, with a tail and a gap; the first two are too much for one
summary, and the fourth is more than the ceiling alone, which keeps it; two replicas with
ten turns and a tail of four were also run, where a gap between two segments can lie in the tail.
In `Communities` a worker's page is one, which a single undescribable community fills for ever, and an
operator's two: without `Crowded` the run finds the starvation. It was also run with
three turns over four entities, a budget that substitutes a child's report, and one edit (334,356 states,
with a page of two for both). `Recall`'s fanout of 2, three rows and two matches are each exceeded by
some request; the request that is asked again about the past has a budget that one of two equally short
walks fits and the other exceeds.

`Requests` takes two requests of every kind that goes another way, and so every pair: a revocation under
a request, two seals, a verification under a seal, a store's open rows under a waiting sealer. The gates'
pools of 5 and 4 connections leave one slot per project and credential, so that the second of two is
refused; `Burst` and `SamplesPerMinute` of 1 are exceeded by two, and a seal covers at most two rows of
the four or more there are. `MaxOutside` = 1 is one of: a credential revoked,
a project suspended, a session ended, the driver's seal, an alteration. Its assumptions check the tables
themselves: every operation is named once, can be recorded and has a handler, and what a read-only
credential may ask changes nothing. It was also run with 23 requests, of which one promotes feedback and
writes three rows, and two unpark a turn and seal the ledger from the portal (3,146,633 states).

Symmetry is used where no liveness is checked, over values nothing in the module tells apart.

Deadlock checking is off where a bound is the only reason to stop (a log at `MaxOffset`, a horizon, a
finished set of edits); `NotificationOutbox`, `RebuildJobs`, `Compaction`,
`Recall` and `Requests` are checked for deadlock.

### Fairness

`FormationWorkers`. Weak fairness of each worker's steps: `Driver.Run` calls `Once` on every tick and
`Once` drains every project with a backlog. Weak fairness of the clock (`BackoffElapses`) and of
`ReapSession`: PostgreSQL ends the backend of a dead client. None of a model's success: `FormFails` may
be chosen every time, and `EveryTurnSettles` holds because attempts run out. It is conditional on
`Calm`: from some time on nobody crashes a worker, cuts its session or reopens turns. A turn that kills
its own worker is not excused by that (finding 1).

`NotificationOutbox`: that of the same loop and clock; `EveryDeliverySettles` holds from the time on when
no worker dies.

`RebuildJobs`: weak fairness of each runner's steps, and strong fairness of `Resume`, the operator who
runs an unfinished job's command again until it is not refused as busy. Failures are bounded, and what
`JobEnds` says is that a bounded number of them costs retries and never the job.

`Communities`: weak fairness of each pass of a process that is restarted and of its upgrade; of an
operator's command only that an open transaction ends. Strong fairness of `Write` where a model may fail
(`Fail`): a model that fails for ever leaves a subject without its report, and the code promises no more.

## What is proved

Each theorem is for every value of the constants that its module's assumption admits: any number of
projects, turns, claims, workers, generations, any bounds. The assumptions are that limits are numbers
and positive where the code's are, that identifiers and NULL are distinct values, and what is said of
each module below. Each proof has one inductive invariant (`IInv`; `WInv` for the workers, `HistoryInv`
for `Compaction`, `RecallInv` for `Recall`), whose preservation is one lemma per action or group of
actions; each was checked by TLC on the run's instance before it was proved. What a fold, a sum over a
finite set or the order of a finite set of units is for every input is proved without an induction
theorem, by the least counterexample. With that every safety property of the passing runs, action
properties among them, is a theorem.

| module | theorems | what makes the invariant inductive |
|---|---|---|
| `FormationProofs` | `TypeCorrect`, `FreshnessStaysHonest`, `OffsetsStayDense`, `BudgetStaysExact`, `KeysHaveOneAnswer`, `ReceiptsForget`, `WatermarkRetreatsOnlyForUnpark`, `LogImplementsWatermark`, `WorkersRunTheLog`, `WorkersTypeCorrect`, `FreshnessStaysEarned`, `ClaimsDieWithTheirTurn`, `ExtractorIsAlone`, `ParkingIsEarned` | two parts, the log's and then the workers', whose assumption nothing in the first rests on. The log: a live receipt agrees with what was acknowledged and no two keys share an offset; every receipt's offset is one that was used; the reservations are exactly the unfinished turns; every used offset is at or below `logOffset`. The workers: a worker has extracted every message below `next` of a turn that is held, holds the scope lock unless a lock of that project was lost, and attempts never exceed the tries |
| `AnswersProofs` | `Invariant`, `TypeCorrect`, `FreshnessStaysHonest`, `TransactionsImplementWatermark`, `NobodyWaitsInACircle`, `RecallInvariant`, `AnswersAlwaysStayInside`, `AnswersAlwaysFit`, `AnswersAreAlwaysComplete`, `PastAnswersAlwaysStand` | two parts that share nothing. `WatermarkTx`: what each transaction holds and has computed by the statement it stands at (`Steady`, `Apart`, `Recomputed`): no two hold one row or the watermark row, and the number a transaction computed under the lock is honest of the rows as it would commit them; of a replayed batch, that every turn which waits below its number was reopened since it read (`ReplayInv`). Rows locked in one order, before the watermark row, give each waiting transaction a rank, so that no circle can close. `Recall`: the rows of one claim are apart and all but the last have ended (`StoreInv`), so that an instant believes one version at most and a later commit changes nothing of it; what a bundle holds at each surface, of the projects it has been to and none still to come, with costs that add up to what was spent (`Composing`); and that whatever the statement can give of the instant an answer was kept for makes an account that agrees with it (`Owed`). Two lists it can give differ only in which of the shortest walks leads to a fact; facts are in one order whichever that is, and what is given is the part of the list ahead of the first that does not fit, so that of two accounts one is the beginning of the other (`PartsAgree`). Where no entity has more facts than are followed out of one, a walk goes on along every version at its end, so that walks of one and of two steps find just what `Near` says by distance (`WalksFindWhatIsNear`), and a list names all of it: it has as many places as there are facts, and no fact twice |
| `WorkerPassesProofs` | `TypeCorrect`, `DeliveriesWereAccepted`, `ReceiversAreSpared`, `HistoryInvariant`, `HistoryTypeCorrect`, `SummariesKeepToTheirTurns`, `ContextsForgetNothing`, `PlansAreKept` | two parts that share nothing. `NotificationOutbox`: while a delivery is open, its attempts are at most one below the budget, plus the last tries that are under way, plus the answers that were never recorded; what a worker holds it has claimed. `Compaction`: a segment, and what a pass has planned or read, tells of settled turns of its range; while nothing was missed a segment is registered to all its formed turns and tells of none but those (`SoundSegment`, `Holding`), and what a summary of turns leaves out it had no room for (`TellInv`). The planner is proved to make what `Feasible` says: a run of units in order and apart, over every compactable turn of its range, that no segment of its level covers; and its sum is the number of turns its units are registered to. With that an equal count at the write means equal sets, which is why the code may compare only counts |
| `RebuildJobsProofs` | `Invariant`, `TypeCorrect`, `NoSourceMissed`, `OneInferenceEach`, `OneOwner`, `TotalsAreTrue` | `TypeOK /\ LogInv /\ JobInv /\ SessionInv /\ WorkInv /\ NothingMissed`: no two processes present one lease, so at most one owns a job; whatever lies between a job's checkpoint and its pending offset is gone; what an owner stands at has become of its source. `Forward` (the log grows, no source comes back, only its guarded owner publishes for a job) is what every step of the others does, and keeps what a runner relies on. The totals are cardinalities of what was passed |
| `ClaimStoreProofs` | `Invariant`, `TypeCorrect`, `OneAnswerStands`, `WithdrawnStays`, `CorrectionStays`, `OneExtractionStands`, `ErasureIsComplete`, `PastStands` | `Typed /\ BookOK /\ Owned /\ Interpreted /\ Locked`. The *book* is the live rows with the intervals saved for history: no two of a slot meet, and each saved interval is followed, where it was true and from when it ended, by the fact that ended it, so that a new row which meets no live row meets no saved one. Source locks keep what an open transaction has read. A generation's claims, in any order, are taken one at a time: the proof is by the least claim that would break the book. `PastStands` compares the books before and after: a transaction writes from one instant, a row stands, is ended in place, or leaves its interval ended in history and goes on from that instant; and since no two told intervals meet, a settled time lies before it wherever anything changed |
| `EmbeddingsProofs` | `Invariant`, `TypeCorrect`, `ActiveGenerationStands`, `SearchesAnswerForTheirRange` | the log is a prefix and no boundary lies beyond it; a page in flight whose lease is still good has every input that it passes; nothing is missing behind the cursor of what a search can come to read. Steps of everything but a builder are *waning*: rows keep their boundary, lose targets at most, and where a vector goes no search misses it |
| `CommunitiesProofs` | `Invariant`, `TypeCorrect`, `ReportsForgetTheWithdrawn`, `ReportsTellTheirOwn` | what a pass or a report has read of a turn that has changed never becomes current again at its old revision (`Reading`, `Aging`); a child's report that was read tells of the child's members; every change of a fact costs an edit at least every second time, which bounds revisions |
| `RequestsProofs` | `LawfulInvariant`, `RecordedInvariant`, `AuthorityIsHeld`, `ChangesAreRecorded`, `EverySlotComesBack`, `VouchedInvariant`, `VerificationsAreHonest` | four invariants, the others on the first. `Lawful`: what the authority a request shows has passed by the phase it stands at, so that nothing revoked later takes it back. `Recorded`: until somebody alters the ledger, what each request's open transaction wrote, what still waits to be appended, and that what it changed is exactly what it told or has yet to tell. `Accounted`: each counter is the cardinality of those who hold its slot, and which slots can be held at each phase. `Vouched`: nothing under the last seal's end is open, so what a seal says of its range stays true; an alteration leaves a seal that disagrees, because a digest is its argument and a chain grows by one with each seal; a verification has counted exactly what lies under the place it has come to |

Assumptions that are more than types: `ObservationLog` that a project's limit is at most the
instance's; `ClaimStore` that there are finitely many claims (a message is finite) and that NULL is no
pin; `Embeddings` that there are finitely many generation identifiers; `Communities` that a subject has
members and one below the top is part of its parent, which is what `Build` returns (its table is
checked against `Leiden` by the run); `Requests` that a token nobody has minted is not guessed, that a
login is behind no page that could be forged, and that the rows that were there before are of no request,
those under a seal committed; `Recall` that there are finitely many claims and each has its own
identifier, that a fact is about stored entities and a report's parent is of the report's project
(the foreign keys `fact_subject_project_fk`, `fact_object_project_fk` and
`community_parent_project_fk`), and that a request names each of its scopes once (every caller passes the
one project of its credential) and walks one hop or two (`clampHops`). `HandlersAreKnown` is about the table of handlers, which has no parameters:
the prover cannot expand the `@@` it is written with, so TLC evaluates what it says. TLC evaluates all of
them on every run.

Some invariants are proved for every instance and not part of a run: `OffsetsHaveNoGap` and
`ReceiptsForgetErasedTurns` of `ObservationLog`, `ReportsTellOfTheirOwn` of `Communities`, and the type
invariants (TLC checked them while the modules were written).

Only model-checked, and why:

* `EveryTurnSettles`, `EveryDeliverySettles`, `JobEnds`, `EverySubjectIsDescribed`: liveness under
  fairness is beyond this prover.
* `Leiden` and `Excerpts`: pure recursive functions, evaluated over bounded inputs.

## Findings

Disagreements between the code and its own documents, comments or constraints, met while it was
modelled. `PROJECT.json` quotes the lines. Finding 14 has a run; the others are told by the code, and the
properties above are stated so that they hold with them.

1. *A turn that kills its worker never parks*. The attempt is counted at the claim, as
   `observationstore.go:244-250` says, but compared with the bound only in `recordFailure`, which the
   dead worker never reaches. The comment's conclusion (it "parks like any other turn") does not follow.
2. *Freshness can stay behind*. Deleting the only waiting turn below a formed one
   recomputes nothing; `formed_offset` is then lower than `docs/architecture/formation.md:31-32` defines it,
   until the next turn settles. It errs on the safe side: `FreshnessIsHonest` holds throughout.
3. *A replayed batch can publish a dishonest number*. `AssertRecords` recomputes the
   watermark at its end; when every record of the batch is known nothing has locked the watermark row, the
   subqueries read before the wait, and an unpark committed meanwhile is overwritten. In `WatermarkTx` this
   is `RecomputeUnlocked` and `WriteStale`; what is left of honesty is `FreshnessIsHonest` there.
4. *A shutdown costs an attempt*, although `formation.go:353-355` explains why it must not: the attempt was
   already counted by `NextUnformed`.
5. *Two workers send one delivery*. The claim is an update of its own that leaves the row
   due, so it holds nothing while the request is under way, though the comments on `Due` and `Claim` say it
   does. Receivers are told that deliveries can repeat; what the repetition costs is the row's attempts, which
   `RequestsAreBounded` states.
6. *A disabled endpoint is still sent what it was owed*: `Claim` does not look at `disabled_at`.
7. *An assertion can be refused because of a retraction that commits while it is under way*: retractions,
   corrections and publications close rows of a slot without the subject's row lock, though `factstore.go`
   says the lock serialises these transitions. Either serial order would have admitted the claim.
8. *A stale entity generation can be cancelled, repaired and activated*: cancelling forgets why it was
   stale, and search omits the identity that made it so.
9. *A vector of an old entity text can be published*: the trigger and the publication lock two different
   keys. Search drops the vector by its digest, and so omits the entity.
10. *A summary can be registered to a turn it never read*: the write compares only how many turns the
    range holds, and one may have gone and another have formed, or have been passed over in a stale tail.
11. *A turn that forms late inside a covered range is in no context*, and the plan of the level above is
    refused at every tick, after the model was paid.
12. *Two replicas can write overlapping segments* of one level that do not begin together.
13. *A second runner does not take a job over* while the first one's session lives: it is told the job is
    busy. That the old runner cannot publish once it has lost its lease holds.
14. *A subject's entities may not hold together* (`DisconnectedSubject`): a group of one keeps a label that
    another group then takes.
15. *Communities that can never be described stay first in the page*, and as many of them as a page holds
    starve every later one (`Crowded` in `Communities`).
16. *A new relation among the members of a described community changes nothing*: its report stands, and a
    parent that substitutes the report leaves the new fact out.
17. *The communities of a project whose last relation is gone stay stored*, and owe reports for ever.
18. *Two passes that read different graphs store the union of two partitions* until a later pass.
19. *An as-of read is not repeatable while a writer has stamped its claim and not committed*;
    `PastAnswersStand` keeps only answers given while no writer was under way.
20. *A fact with a blank end is never returned*, though the comment says it is returned with the end blank.
21. *A verification can count too few rows*: a seal taken between its reading the seals and its counting
    what no seal covers is in neither number.
22. *A seal that covered nothing is recorded as one that touched one row*, by the management API and by the
    portal, which tells its reader otherwise.
23. *Authentication uses memory connections outside its bound*: the project is read, and a suspended
    project's refusal written, under an authentication slot alone, and can take the connection that admission
    says it reserves.
24. *A portal action can be told and recorded as failed beside a change that committed*, where the answer of
    the commit is lost.
25. *A gap that the tail has moved into is planned over*: when the newest turns are erased, the turns of a gap
    between two segments become the tail, where `adjacent` does not look; the plan of the next level counts
    too few, and is refused at every pass after the model was paid, until new turns push the gap back. Seen in
    `Compaction` with a tail of three and nine turns of which 3, 7, 8 and 9 are erased.

Observed, and nobody's promise: a lost row whose slot was taken again fails the whole page of
`RecoverFacts`; the LIMIT of the projects that owe reports is ordered by name and can starve later ones;
during a rolling upgrade the two releases rewrite each other's reports; a process that dies between
forming a turn and its subject pass leaves the partition behind with nothing owed; the lock cycle of a
mixed batch of records and a correction is real, and PostgreSQL breaks it by failing one of the two.

## What is left

The walk of an erasure over its registered projections, statement by statement, with the turn of an
unregistered subject that arrives between them.

## Not modelled

What a model answers, ranking and vector arithmetic; the bodies of requests, the portal's pages that only
read, the rest of the command line, the documentation site, deployment; schema migration, which runs alone
under its own lock; the rows of subjects, whose correctness is a unique constraint; what an export, a
citation and a record read return.
