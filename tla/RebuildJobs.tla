----------------------------- MODULE RebuildJobs -----------------------------
(* A project rebuild: one durable job that reads every turn of a project    *)
(* again, source by source, while the project stays in use.  A runner holds *)
(* a session lock on the project and a lease on the job's row; it reserves  *)
(* an offset, prepares its output with the model, publishes it in one       *)
(* transaction, finishes the turn's backlog bookkeeping and moves the job's *)
(* checkpoint, each in a transaction of its own.  Between any two of these  *)
(* a runner may die or lose the session that holds its lock and go on, a    *)
(* second runner may replace it, the operator may cancel, another operator  *)
(* may rebuild the same source, and the source may be edited or erased.     *)
(*                                                                         *)
(* Code: internal/infra/pg/rebuildjob.go, internal/formation/rebuild.go,    *)
(* internal/formation/projectrebuild.go, and the publication of             *)
(* internal/infra/pg/factgeneration.go as far as it decides which           *)
(* generation a source has (its facts, and the race of two preparations for *)
(* one source, are those of ClaimStore).                                    *)
EXTENDS Naturals, Integers, FiniteSets

CONSTANTS
    Head0,        \* turns in the log at the start
    MaxHead,      \* bound on the turns ever appended
    Curated,      \* the log offsets that hold a record edit, not a turn
    Jobs,         \* job keys
    Requests,     \* operation keys of single-source rebuilds
    Runners,      \* processes that run a job
    Leases,       \* lease identifiers
    None,
    MaxEdits,     \* bound on the edits of facts that change a source's digest
    MaxFailures   \* bound on the runners that die, fail or lose their session

ASSUME RebuildAssumption ==
    /\ Head0 \in Nat /\ MaxHead \in Nat /\ Head0 <= MaxHead
    /\ Curated \subseteq 0 .. (MaxHead - 1)
    /\ Jobs \cap Requests = {}
    /\ None \notin Jobs \cup Requests \cup Runners \cup Leases
    /\ None \notin Int
    /\ MaxEdits \in Nat /\ MaxFailures \in Nat

VARIABLES
    head,        \* log_offset of the watermark row, plus one
    turn,        \* observation.formed_at and parked_at, or the row's absence
    gens,        \* fact_generation: the operations that published each source
    digest,      \* what the snapshot of a source hashes, as a version number
    job,         \* fact_rebuild_job
    holder,      \* who holds the project's session lock
    runner,      \* the local state of each process
    failures

vars == <<head, turn, gens, digest, job, holder, runner, failures>>

Log == 0 .. (MaxHead - 1)
Issuers == Jobs \cup Requests
TurnStates == {"unwritten", "waiting", "parked", "formed", "erased"}
Present(o) == turn[o] \in {"waiting", "parked", "formed"}
Sources == Log \ Curated

Idle == [at |-> "idle", issuer |-> None, lease |-> None, off |-> None,
         seen |-> None, cancel |-> FALSE, rebuilt |-> FALSE]

JobRow == [through : Log \cup {-1}, after : Log \cup {-1}, pending : Log \cup {None},
           rebuilt : Nat, skipped : Nat, cancel : BOOLEAN, lease : Leases,
           status : {"active", "completed", "cancelled"}]

ASSUME RowAssumption == None \notin JobRow

RunnerState == [at : {"idle", "next", "find", "read", "apply", "finish", "complete"},
                issuer : Jobs \cup {None}, lease : Leases \cup {None},
                off : Log \cup {None}, seen : Nat \cup {None},
                cancel : BOOLEAN, rebuilt : BOOLEAN]

\* A turn arrives unformed, a record edit is formed by the call that makes it.
Appended(o) == IF o \in Curated THEN "formed" ELSE "waiting"

Init ==
    /\ head = Head0
    /\ turn = [o \in Log |-> IF o < Head0 THEN Appended(o) ELSE "unwritten"]
    /\ gens = [o \in Log |-> {}]
    /\ digest = [o \in Log |-> 0]
    /\ job = [j \in Jobs |-> None]
    /\ holder = None
    /\ runner = [r \in Runners |-> Idle]
    /\ failures = 0

-----------------------------------------------------------------------------
(* The runner's session.                                                    *)

Active(j) == job[j] # None /\ job[j].status = "active"
InUse == {runner[r].lease : r \in Runners} \cup {job[j].lease : j \in {i \in Jobs : job[i] # None}}
FreshLease == CHOOSE l \in Leases : l \notin InUse

\* Mutant: the session's lock is not given back.
StopLocked(r) == runner' = [runner EXCEPT ![r] = Idle] /\ holder' = holder

\* What a runner leaves behind when it returns: RebuildJobSession.Close.
Stop(r) ==
    /\ runner' = [runner EXCEPT ![r] = Idle]
    /\ holder' = IF holder = r THEN None ELSE holder

\* The lease of the runner that asks is still the job's: lockedJob.
Owns(r) == job[runner[r].issuer].lease = runner[r].lease

\* The lease a session writes into the job's row when it takes the job up.
TakeUp(j, l) == [job[j] EXCEPT !.lease = l]

\* Acquire: the session lock is tried, never waited for; a first call makes
\* the row with the log's end as its boundary, a later one replaces the lease.
Acquire(r, j) ==
    /\ runner[r].at = "idle"
    /\ holder = None
    /\ Leases \ InUse # {}
    /\ job[j] = None => \A i \in Jobs : ~Active(i)
    /\ LET l == FreshLease IN
        /\ job' = [job EXCEPT ![j] =
             IF job[j] = None
             THEN [through |-> head - 1, after |-> -1, pending |-> None, rebuilt |-> 0,
                   skipped |-> 0, cancel |-> FALSE, lease |-> l, status |-> "active"]
             ELSE TakeUp(j, l)]
        /\ runner' = [runner EXCEPT ![r] = [Idle EXCEPT !.at = "next", !.issuer = j, !.lease = l]]
    /\ holder' = r
    /\ UNCHANGED <<head, turn, gens, digest, failures>>

\* Mutant: the scan starts one offset late.
AheadLate(j) == {o \in Sources : Present(o) /\ o > job[j].after + 1 /\ o <= job[j].through}

\* The sources that the job has not reached yet.
Ahead(j) == {o \in Sources : Present(o) /\ o > job[j].after /\ o <= job[j].through}

\* RunPage continues with a reserved offset: an erased source goes straight to
\* its checkpoint.
Work(r, o) ==
    runner' = [runner EXCEPT
        ![r].at = IF Present(o) THEN "find" ELSE "complete",
        ![r].off = o,
        ![r].cancel = job[runner[r].issuer].cancel]

\* Next finds the job taken over, or settled, and the runner stops.
NextStops(r) ==
    /\ runner[r].at = "next"
    /\ ~Owns(r) \/ ~Active(runner[r].issuer)
    /\ Stop(r)
    /\ UNCHANGED <<head, turn, gens, digest, job, failures>>

\* Next settles the job: cancelled between two sources, or nothing is left.
NextSettles(r) ==
    LET j == runner[r].issuer IN
    /\ runner[r].at = "next"
    /\ Owns(r) /\ Active(j) /\ job[j].pending = None
    /\ \/ /\ job[j].cancel
          /\ job' = [job EXCEPT ![j].status = "cancelled"]
       \/ /\ ~job[j].cancel
          /\ Ahead(j) = {}
          /\ job' = [job EXCEPT ![j].status = "completed", ![j].after = job[j].through]
    /\ Stop(r)
    /\ UNCHANGED <<head, turn, gens, digest, failures>>

\* Next goes on with the source a predecessor left pending.
NextResumes(r) ==
    LET j == runner[r].issuer IN
    /\ runner[r].at = "next"
    /\ Owns(r) /\ Active(j) /\ job[j].pending # None
    /\ Work(r, job[j].pending)
    /\ UNCHANGED <<head, turn, gens, digest, job, holder, failures>>

\* Next reserves the lowest source it has not passed.
NextReserves(r) ==
    LET j == runner[r].issuer IN
    /\ runner[r].at = "next"
    /\ Owns(r) /\ Active(j) /\ job[j].pending = None /\ ~job[j].cancel
    /\ \E o \in Ahead(j) :
        /\ \A i \in Ahead(j) : o <= i
        /\ job' = [job EXCEPT ![j].pending = o]
        /\ Work(r, o)
    /\ UNCHANGED <<head, turn, gens, digest, holder, failures>>

-----------------------------------------------------------------------------
(* One source: Rebuilder.rebuild with the guard of a job.                   *)

\* The source is gone or is an edit (ErrGenerationSource): the job passes it.
Skip(r) ==
    runner' = [runner EXCEPT ![r].at = "complete", ![r].rebuilt = FALSE, ![r].seen = None]

\* FindGeneration: the operation published this source before.
Find(r) ==
    LET w == runner[r] IN
    /\ w.at = "find"
    /\ runner' = [runner EXCEPT ![r].cancel = FALSE, ![r].at =
         CASE w.issuer \in gens[w.off] -> "finish"
           [] w.issuer \notin gens[w.off] /\ w.cancel -> "complete"
           [] OTHER -> "read"]
    /\ UNCHANGED <<head, turn, gens, digest, job, holder, failures>>

\* ReadGenerationSource, then the model calls that prepare the output.
Read(r) ==
    LET w == runner[r] IN
    /\ w.at = "read"
    /\ \/ /\ Present(w.off) /\ w.off \in Sources
          /\ runner' = [runner EXCEPT ![r].at = "apply", ![r].seen = digest[w.off]]
       \/ /\ ~(Present(w.off) /\ w.off \in Sources)
          /\ Skip(r)
    /\ UNCHANGED <<head, turn, gens, digest, job, holder, failures>>

\* Mutant: the lease is not compared.
GuardedAnyLease(r) ==
    Active(runner[r].issuer) /\ job[runner[r].issuer].pending = runner[r].off

\* validateGenerationJobTx: the job is still this runner's, at this offset.
Guarded(r) ==
    LET w == runner[r] IN
    /\ Active(w.issuer)
    /\ job[w.issuer].lease = w.lease
    /\ job[w.issuer].pending = w.off

\* What ApplyGeneration compares before it replaces a generation.
Unchanged(r) == digest[runner[r].off] = runner[r].seen

\* ApplyGeneration publishes: the guard, the source and the digest hold.
Publish(r) ==
    LET w == runner[r] IN
    /\ w.at = "apply"
    /\ Guarded(r)
    /\ Present(w.off) /\ w.issuer \notin gens[w.off] /\ Unchanged(r)
    /\ gens' = [gens EXCEPT ![w.off] = @ \cup {w.issuer}]
    /\ digest' = [digest EXCEPT ![w.off] = @ + 1]
    /\ runner' = [runner EXCEPT ![r].at = "finish", ![r].seen = None]
    /\ UNCHANGED <<head, turn, job, holder, failures>>

\* ApplyGeneration finds that the operation published already, or that the
\* source is gone.
PublishSettled(r) ==
    LET w == runner[r] IN
    /\ w.at = "apply"
    /\ Guarded(r)
    /\ \/ /\ w.issuer \in gens[w.off]
          /\ runner' = [runner EXCEPT ![r].at = "finish", ![r].seen = None]
       \/ /\ ~Present(w.off)
          /\ Skip(r)
    /\ UNCHANGED <<head, turn, gens, digest, job, holder, failures>>

\* ApplyGeneration refuses: ErrRebuildFenced, or ErrGenerationConflict when
\* the source is not what the snapshot read.  The runner returns the error.
PublishRefused(r) ==
    LET w == runner[r] IN
    /\ w.at = "apply"
    /\ \/ ~Guarded(r)
       \/ Present(w.off) /\ w.issuer \notin gens[w.off] /\ ~Unchanged(r)
    /\ Stop(r)
    /\ UNCHANGED <<head, turn, gens, digest, job, failures>>

\* finishGenerationTx on a turn: formed, and parked no longer.
Finished(o) == [turn EXCEPT ![o] = "formed"]

\* FinishGeneration: the turn's backlog bookkeeping.
Finish(r) ==
    LET w == runner[r] IN
    /\ w.at = "finish"
    /\ \/ /\ Present(w.off)
          /\ turn' = Finished(w.off)
          /\ runner' = [runner EXCEPT ![r].at = "complete", ![r].rebuilt = TRUE]
       \/ /\ ~Present(w.off)
          /\ Skip(r)
          /\ turn' = turn
    /\ UNCHANGED <<head, gens, digest, job, holder, failures>>

\* Mutant: the pending offset stays reserved.
PassedStillPending(j, rebuilt) ==
    [job[j] EXCEPT !.after = job[j].pending, !.rebuilt = @ + (IF rebuilt THEN 1 ELSE 0),
                   !.skipped = @ + (IF rebuilt THEN 0 ELSE 1)]

\* The job's row after its pending source, which was rebuilt or not.
Passed(j, rebuilt) ==
    [job[j] EXCEPT !.after = job[j].pending, !.pending = None,
                   !.rebuilt = @ + (IF rebuilt THEN 1 ELSE 0),
                   !.skipped = @ + (IF rebuilt THEN 0 ELSE 1)]

\* Complete moves the checkpoint, unless the job was taken over or its offset
\* is not the one reserved.  The page may end here.
Complete(r) ==
    LET w == runner[r]
        j == w.issuer
        past == job[j].pending = None /\ job[j].after >= w.off
        goes == runner' = [runner EXCEPT ![r] = [Idle EXCEPT !.at = "next", !.issuer = j, !.lease = w.lease]]
                /\ holder' = holder
    IN
    /\ w.at = "complete"
    /\ \/ /\ ~Owns(r) \/ (~past /\ job[j].pending # w.off)
          /\ Stop(r)
          /\ job' = job
       \/ /\ Owns(r) /\ past
          /\ goes \/ Stop(r)
          /\ job' = job
       \/ /\ Owns(r) /\ job[j].pending = w.off
          /\ job' = [job EXCEPT ![j] =
               [Passed(j, w.rebuilt) EXCEPT !.status = IF job[j].cancel THEN "cancelled" ELSE "active"]]
          /\ goes \/ Stop(r)
    /\ UNCHANGED <<head, turn, gens, digest, failures>>

-----------------------------------------------------------------------------
(* The operator, the rest of the system, and faults.                        *)

\* Mutant: a cancelled job's pending source is passed over unread.
NeverPublished(j) == FALSE

\* Whether the source a cancelled job left pending was published by it.
WasPublished(j) == job[j].pending # None /\ j \in gens[job[j].pending]

\* Cancel: with no runner it settles the pending source itself.
Cancel(j) ==
    /\ Active(j)
    /\ IF holder = None /\ job[j].pending # None
       THEN /\ turn' = IF WasPublished(j) THEN Finished(job[j].pending) ELSE turn
            /\ job' = [job EXCEPT ![j] =
                 [Passed(j, WasPublished(j)) EXCEPT !.cancel = TRUE, !.status = "cancelled"]]
       ELSE /\ turn' = turn
            /\ job' = [job EXCEPT ![j].cancel = TRUE,
                 ![j].status = IF job[j].pending = None THEN "cancelled" ELSE @]
    /\ UNCHANGED <<head, gens, digest, holder, runner, failures>>

\* `rebuild facts` for one source, up to its publication under the operator's
\* own key.  What it prepared before changes nothing.
SourceRebuild(k, o) ==
    /\ Present(o) /\ o \in Sources
    /\ k \notin gens[o]
    /\ gens' = [gens EXCEPT ![o] = @ \cup {k}]
    /\ digest' = [digest EXCEPT ![o] = @ + 1]
    /\ UNCHANGED <<head, turn, job, holder, runner, failures>>

\* The same command's bookkeeping, at once or when it is run again.
SourceFinish(k, o) ==
    /\ Present(o) /\ k \in gens[o]
    /\ turn' = Finished(o)
    /\ UNCHANGED <<head, gens, digest, job, holder, runner, failures>>

\* A turn or an edit is ingested.
Append ==
    /\ head < MaxHead
    /\ turn' = [turn EXCEPT ![head] = Appended(head)]
    /\ head' = head + 1
    /\ UNCHANGED <<gens, digest, job, holder, runner, failures>>

\* A formation worker forms a waiting turn: with the facts of its generation
\* when it has one, otherwise with facts of its own, which change the digest.
Form(o) ==
    /\ turn[o] = "waiting"
    /\ turn' = [turn EXCEPT ![o] = "formed"]
    /\ digest' = IF gens[o] = {} THEN [digest EXCEPT ![o] = @ + 1] ELSE digest
    /\ UNCHANGED <<head, gens, job, holder, runner, failures>>

\* A formation worker gives a turn up.
Park(o) ==
    /\ turn[o] = "waiting"
    /\ turn' = [turn EXCEPT ![o] = "parked"]
    /\ UNCHANGED <<head, gens, digest, job, holder, runner, failures>>

\* The turn is erased: its observation, its generations, its pointer.
Erase(o) ==
    /\ Present(o)
    /\ turn' = [turn EXCEPT ![o] = "erased"]
    /\ gens' = [gens EXCEPT ![o] = {}]
    /\ digest' = [digest EXCEPT ![o] = 0]
    /\ UNCHANGED <<head, job, holder, runner, failures>>

\* A record of a source is retracted, corrected or superseded: the
\* observation's fact_revision moves.
Edit(o) ==
    /\ turn[o] = "formed" /\ o \in Sources
    /\ digest[o] < MaxEdits
    /\ digest' = [digest EXCEPT ![o] = @ + 1]
    /\ UNCHANGED <<head, turn, gens, job, holder, runner, failures>>

\* The process dies, or the model or the database fails it.
Fail(r) ==
    /\ runner[r].at # "idle"
    /\ failures < MaxFailures
    /\ failures' = failures + 1
    /\ Stop(r)
    /\ UNCHANGED <<head, turn, gens, digest, job>>

\* The session that holds the lock is cut and the process does not notice.
Disconnect(r) ==
    /\ holder = r
    /\ failures < MaxFailures
    /\ failures' = failures + 1
    /\ holder' = None
    /\ UNCHANGED <<head, turn, gens, digest, job, runner>>

Step(r) ==
    \/ NextStops(r) \/ NextSettles(r) \/ NextResumes(r) \/ NextReserves(r)
    \/ Find(r) \/ Read(r)
    \/ Publish(r) \/ PublishSettled(r) \/ PublishRefused(r)
    \/ Finish(r) \/ Complete(r)

Next ==
    \/ \E r \in Runners : Step(r) \/ Fail(r) \/ Disconnect(r)
    \/ \E r \in Runners, j \in Jobs : Acquire(r, j)
    \/ \E k \in Requests, o \in Log : SourceRebuild(k, o) \/ SourceFinish(k, o)
    \/ \E j \in Jobs : Cancel(j)
    \/ \E o \in Log : Form(o) \/ Park(o) \/ Erase(o) \/ Edit(o)
    \/ Append

\* The operator runs an unfinished job's command again.
Resume(j) == Active(j) /\ \E r \in Runners : Acquire(r, j)

Spec == Init /\ [][Next]_vars

\* A process that runs takes its next step, and the operator runs an
\* unfinished job's command again until it is not refused as busy.
FairSpec ==
    /\ Spec
    /\ \A r \in Runners : WF_vars(Step(r))
    /\ \A j \in Jobs : SF_vars(Resume(j))

-----------------------------------------------------------------------------
(* Properties.                                                              *)

\* The tables' own constraints: a checkpoint within its boundary, a pending
\* offset ahead of it and only while the job is active, and one active job.
TypeOK ==
    /\ head \in Head0 .. MaxHead
    /\ turn \in [Log -> TurnStates]
    /\ gens \in [Log -> SUBSET Issuers]
    /\ digest \in [Log -> Nat]
    /\ job \in [Jobs -> JobRow \cup {None}]
    /\ holder \in Runners \cup {None}
    /\ runner \in [Runners -> RunnerState]
    /\ failures \in 0 .. MaxFailures
    /\ \A j \in Jobs : job[j] # None =>
        /\ job[j].after <= job[j].through
        /\ job[j].pending # None =>
            /\ job[j].pending > job[j].after
            /\ job[j].pending <= job[j].through
            /\ job[j].status = "active"
    /\ \A i, j \in Jobs : Active(i) /\ Active(j) => i = j

\* The offsets of the job's sources that its checkpoint has passed.
PassedOver(j) == {o \in Sources : o <= job[j].after}

\* The totals an operator reads are what happened: whatever runner died,
\* stalled or was replaced, a source that is still there is counted once, as
\* rebuilt when the job published it and as skipped otherwise (an erased
\* source may be counted either way, or not at all).
CountsWhatItPublished ==
    \A j \in Jobs : job[j] # None =>
        LET here == {o \in PassedOver(j) : Present(o)}
            done == {o \in here : j \in gens[o]}
            gone == PassedOver(j) \ here
        IN
        /\ job[j].rebuilt \in Cardinality(done) .. Cardinality(done \cup gone)
        /\ job[j].skipped \in Cardinality(here \ done) .. Cardinality(PassedOver(j) \ done)
        /\ job[j].rebuilt + job[j].skipped \in Cardinality(here) .. Cardinality(PassedOver(j))

\* A job that nobody cancelled leaves no source behind: every turn it has
\* passed and that is still there carries its generation; and a cancelled job
\* passes none it published with the bookkeeping undone.
NothingMissed ==
    \A j \in Jobs : job[j] # None =>
        \A o \in PassedOver(j) : Present(o) =>
            /\ ~job[j].cancel => j \in gens[o]
            /\ j \in gens[o] => turn[o] = "formed"

\* "Retries do not spend another inference call" (projectrebuild.go:27): the
\* runner a job belongs to never asks the model about a source that the job
\* has published, also when a predecessor that lost its session is still on
\* its way to publish it.
OneInference ==
    [][\A r \in Runners :
        /\ runner[r].at = "read" /\ runner'[r].at = "apply"
        /\ Owns(r)
        => runner[r].issuer \notin gens[runner[r].off]]_vars

\* A job ends, whatever failed on the way: a bounded number of failures,
\* conflicts and takeovers costs retries and never the job.
JobEnds == \A j \in Jobs : (job[j] # None) ~> (job[j] # None /\ ~Active(j))
=============================================================================
