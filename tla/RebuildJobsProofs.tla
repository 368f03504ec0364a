--------------------------- MODULE RebuildJobsProofs ---------------------------
(* Proofs about RebuildJobs, for every number of runners, jobs, turns and     *)
(* failures.                                                                  *)
EXTENDS RebuildJobs, FiniteSetTheorems, TLAPS

-----------------------------------------------------------------------------
(* The inductive invariant.                                                   *)

\* The log is written without gaps, and only a source that is there has
\* generations.
LogInv ==
    \A o \in Log :
        /\ turn[o] = "unwritten" <=> o >= head
        /\ gens[o] # {} => Present(o)

\* A job's boundary is in the log, and no source that is still there lies
\* between its checkpoint and its pending offset.
JobInv ==
    \A j \in Jobs : job[j] # None =>
        /\ job[j].through < head
        /\ job[j].pending # None =>
            /\ job[j].pending \in Sources
            /\ \A o \in Sources : o > job[j].after /\ o < job[j].pending => ~Present(o)

\* A process that runs has a job and a lease, and works on a source of the log.
SessionOf(r) ==
    /\ runner[r].at # "idle" =>
        /\ runner[r].issuer \in Jobs /\ runner[r].lease \in Leases
        /\ job[runner[r].issuer] # None
    /\ runner[r].at \notin {"idle", "next"} =>
        runner[r].off \in Sources /\ runner[r].off < head

\* No two processes have the same lease.
LeasesDiffer ==
    \A r, s \in Runners : r # s /\ runner[r].lease # None => runner[r].lease # runner[s].lease

SessionInv == LeasesDiffer /\ \A r \in Runners : SessionOf(r)

\* What a process may rely on between two of its transactions; the clauses with
\* Owns hold of the job's present runner only.
WorkOf(r) ==
    LET w == runner[r] IN
    /\ w.at \in {"next", "find"} => ~w.rebuilt
    /\ w.at = "find" /\ w.cancel => job[w.issuer].cancel
    /\ w.at = "read" /\ Owns(r) => w.issuer \notin gens[w.off]
    /\ w.at = "finish" /\ Present(w.off) => w.issuer \in gens[w.off]
    /\ w.at = "complete" /\ Present(w.off) /\ w.rebuilt =>
        w.issuer \in gens[w.off] /\ turn[w.off] = "formed"
    /\ w.at = "complete" /\ Present(w.off) /\ ~w.rebuilt =>
        job[w.issuer].cancel /\ (Owns(r) => w.issuer \notin gens[w.off])

WorkInv == \A r \in Runners : WorkOf(r)

IInv == TypeOK /\ LogInv /\ JobInv /\ SessionInv /\ WorkInv /\ NothingMissed

-----------------------------------------------------------------------------
(* Types.                                                                     *)

\* A lease is fresh: no process and no job holds it.
LEMMA LeaseIsFresh ==
    ASSUME Leases \ InUse # {}
    PROVE  /\ FreshLease \in Leases
           /\ \A r \in Runners : runner[r].lease # FreshLease
           /\ \A j \in Jobs : job[j] # None => job[j].lease # FreshLease
<1>1. FreshLease \in Leases /\ FreshLease \notin InUse
  BY DEF FreshLease
<1> QED
  BY <1>1 DEF InUse

\* What the tables require of a job's row.
RowOK(k) ==
    /\ k \in JobRow
    /\ k.after <= k.through
    /\ k.pending # None => k.pending > k.after /\ k.pending <= k.through /\ k.status = "active"

\* Replacing one row keeps the types when the new row is in order, and is not
\* active beside another.
LEMMA JobType ==
    ASSUME TypeOK, NEW j \in Jobs, NEW k, RowOK(k), job' = [job EXCEPT ![j] = k],
           k.status = "active" => \A i \in Jobs : i # j => ~Active(i)
    PROVE  /\ job' \in [Jobs -> JobRow \cup {None}]
           /\ \A i \in Jobs : job'[i] # None =>
                /\ job'[i].after <= job'[i].through
                /\ job'[i].pending # None =>
                    /\ job'[i].pending > job'[i].after
                    /\ job'[i].pending <= job'[i].through
                    /\ job'[i].status = "active"
           /\ \A i, l \in Jobs : Active(i)' /\ Active(l)' => i = l
BY DEF TypeOK, RowOK, Active

\* The row of a job is in order.
LEMMA RowOfJob ==
    ASSUME TypeOK, NEW j \in Jobs, job[j] # None
    PROVE  RowOK(job[j])
BY DEF TypeOK, RowOK

\* The states of a row that the code writes are in order.
LEMMA RowTaken ==
    ASSUME NEW k, RowOK(k), NEW l \in Leases
    PROVE  RowOK([k EXCEPT !.lease = l])
BY DEF RowOK, JobRow

\* An active job may reserve any offset between its checkpoint and its boundary.
LEMMA RowReserved ==
    ASSUME NEW k, RowOK(k), k.status = "active",
           NEW o \in Log, o > k.after, o <= k.through
    PROVE  RowOK([k EXCEPT !.pending = o])
BY DEF RowOK, JobRow

\* A row without a pending offset may be settled, at its checkpoint or its boundary.
LEMMA RowSettled ==
    ASSUME NEW k, RowOK(k), k.pending = None
    PROVE  /\ RowOK([k EXCEPT !.status = "cancelled"])
           /\ RowOK([k EXCEPT !.status = "completed", !.after = k.through])
<1> USE RebuildAssumption DEF Log
<1>1. k.through <= k.through
  BY DEF RowOK, JobRow
<1> QED
  BY <1>1 DEF RowOK, JobRow

\* Passed moves the checkpoint to the pending offset and clears it, and nothing else
\* that the other fields depend on.
LEMMA RowPassed ==
    ASSUME TypeOK, NEW j \in Jobs, job[j] # None, job[j].pending # None, NEW b \in BOOLEAN
    PROVE  /\ RowOK(Passed(j, b))
           /\ Passed(j, b).pending = None
           /\ Passed(j, b).after = job[j].pending
           /\ Passed(j, b).through = job[j].through
           /\ Passed(j, b).cancel = job[j].cancel
           /\ Passed(j, b).lease = job[j].lease
           /\ Passed(j, b).status = job[j].status
<1> USE RebuildAssumption DEF Log
<1>1. RowOK(job[j])
  BY RowOfJob
<1>2. job[j] \in JobRow /\ job[j].pending \in Log /\ job[j].pending <= job[j].through
  BY <1>1 DEF RowOK, JobRow
<1> DEFINE n == job[j].rebuilt + (IF b THEN 1 ELSE 0)
           m == job[j].skipped + (IF b THEN 0 ELSE 1)
<1>3. n \in Nat /\ m \in Nat
  BY <1>2 DEF JobRow
<1>4. Passed(j, b) = [job[j] EXCEPT !.after = job[j].pending, !.pending = None,
                                    !.rebuilt = n, !.skipped = m]
  BY DEF Passed
<1> HIDE DEF n, m
<1> QED
  BY <1>2, <1>3, <1>4 DEF RowOK, JobRow

\* A row may be marked cancelled, and ended when it has no pending offset.
LEMMA RowMarked ==
    ASSUME NEW k, RowOK(k), NEW s \in {"active", "cancelled"}, k.pending # None => s = "active"
    PROVE  RowOK([k EXCEPT !.cancel = TRUE, !.status = s])
BY DEF RowOK, JobRow

\* A row without a pending offset may be given either status.
LEMMA RowEnded ==
    ASSUME NEW k, RowOK(k), k.pending = None, NEW s \in {"active", "cancelled"}
    PROVE  RowOK([k EXCEPT !.status = s])
BY DEF RowOK, JobRow

\* Replacing the local state of one process.
LEMMA RunnerType ==
    ASSUME TypeOK, NEW r \in Runners, NEW w \in RunnerState, runner' = [runner EXCEPT ![r] = w]
    PROVE  /\ runner' \in [Runners -> RunnerState]
           /\ runner'[r] = w
           /\ \A s \in Runners : s # r => runner'[s] = runner[s]
BY DEF TypeOK

Places == {"idle", "next", "find", "read", "apply", "finish", "complete"}

\* The local states that the code moves to are in order.
LEMMA Moves ==
    ASSUME NEW w \in RunnerState
    PROVE  /\ \A a \in Places, o \in Log, c \in BOOLEAN :
                [w EXCEPT !.at = a, !.off = o, !.cancel = c] \in RunnerState
           /\ \A a \in Places : [w EXCEPT !.cancel = FALSE, !.at = a] \in RunnerState
           /\ \A n \in Nat : [w EXCEPT !.at = "apply", !.seen = n] \in RunnerState
           /\ [w EXCEPT !.at = "complete", !.rebuilt = FALSE, !.seen = None] \in RunnerState
           /\ [w EXCEPT !.at = "finish", !.seen = None] \in RunnerState
           /\ [w EXCEPT !.at = "complete", !.rebuilt = TRUE] \in RunnerState
BY DEF RunnerState, Places

\* The local state of a process that has just taken a job is in order.
LEMMA Fresh ==
    ASSUME NEW j \in Jobs, NEW l \in Leases
    PROVE  [Idle EXCEPT !.at = "next", !.issuer = j, !.lease = l] \in RunnerState
BY DEF Idle, RunnerState

\* What RunPage does with an offset, as one replacement of the local state.
LEMMA WorkShape ==
    ASSUME TypeOK, NEW r \in Runners, NEW o \in Log, Work(r, o)
    PROVE  runner' = [runner EXCEPT ![r] =
             [runner[r] EXCEPT !.at = IF Present(o) THEN "find" ELSE "complete",
                               !.off = o, !.cancel = job[runner[r].issuer].cancel]]
<1> DEFINE a == IF Present(o) THEN "find" ELSE "complete"
           c == job[runner[r].issuer].cancel
<1>1. runner' = [runner EXCEPT ![r].at = a, ![r].off = o, ![r].cancel = c]
  BY DEF Work
<1> HIDE DEF a, c
<1>2. runner' = [runner EXCEPT ![r] = [runner[r] EXCEPT !.at = a, !.off = o, !.cancel = c]]
  BY <1>1 DEF TypeOK
<1> QED
  BY <1>2 DEF a, c

\* What ApplyGeneration leaves of the local state when it publishes.
LEMMA PublishShape ==
    ASSUME TypeOK, NEW r \in Runners, Publish(r)
    PROVE  runner' = [runner EXCEPT ![r] = [runner[r] EXCEPT !.at = "finish", !.seen = None]]
BY DEF Publish, TypeOK

\* A process that stops is idle, and what it held is free.
LEMMA StopType ==
    ASSUME TypeOK, NEW r \in Runners, Stop(r)
    PROVE  /\ runner' \in [Runners -> RunnerState] /\ holder' \in Runners \cup {None}
           /\ runner'[r] = Idle
           /\ \A s \in Runners : s # r => runner'[s] = runner[s]
BY DEF TypeOK, Stop, Idle, RunnerState

\* The types hold at the start.
LEMMA InitType == Init => TypeOK
BY RebuildAssumption DEF Init, TypeOK, Log, Appended, TurnStates, Idle, RunnerState, JobRow, Active

\* A job's row after each transaction that writes it: Continues says what stays.
Continues(k, j) ==
    k.through = job[j].through /\ k.cancel = job[j].cancel /\ k.lease = job[j].lease

\* Next settles a job by its status alone, or with its checkpoint at the boundary when
\* nothing is left ahead of it.
LEMMA SettleShape ==
    ASSUME TypeOK, SessionInv, NEW r \in Runners, NextSettles(r)
    PROVE  LET j == runner[r].issuer IN
           /\ j \in Jobs /\ job[j] # None /\ job[j].pending = None
           /\ \E k :
                /\ RowOK(k) /\ Continues(k, j)
                /\ job' = [job EXCEPT ![j] = k]
                /\ k.status # "active" /\ k.pending = None
                /\ \/ k.after = job[j].after
                   \/ k.after = job[j].through /\ Ahead(j) = {}
<1> DEFINE j == runner[r].issuer
<1>1. j \in Jobs /\ job[j] # None /\ job[j].pending = None /\ RowOK(job[j])
  BY RowOfJob DEF NextSettles, SessionInv, SessionOf
<1> DEFINE c == [job[j] EXCEPT !.status = "cancelled"]
           d == [job[j] EXCEPT !.status = "completed", !.after = job[j].through]
<1>2. /\ RowOK(c) /\ Continues(c, j) /\ c.status # "active" /\ c.pending = None
      /\ c.after = job[j].after
      /\ RowOK(d) /\ Continues(d, j) /\ d.status # "active" /\ d.pending = None
      /\ d.after = job[j].through
  BY <1>1, RowSettled DEF RowOK, JobRow, Continues
<1>3. \/ job' = [job EXCEPT ![j] = c]
      \/ job' = [job EXCEPT ![j] = d] /\ Ahead(j) = {}
  BY <1>1 DEF NextSettles, TypeOK, RowOK, JobRow
<1> HIDE DEF c, d
<1> QED
  BY <1>1, <1>2, <1>3

\* Next reserves the first offset ahead, and the rest of the row stays.
LEMMA ReserveShape ==
    ASSUME TypeOK, SessionInv, NEW r \in Runners, NextReserves(r)
    PROVE  LET j == runner[r].issuer IN
           /\ j \in Jobs /\ job[j] # None /\ job[j].status = "active"
           /\ \E o, k :
                /\ o \in Ahead(j)
                /\ \A i \in Ahead(j) : o <= i
                /\ RowOK(k) /\ Continues(k, j)
                /\ job' = [job EXCEPT ![j] = k]
                /\ k.after = job[j].after /\ k.pending = o
                /\ Work(r, o)
<1> DEFINE j == runner[r].issuer
<1>1. /\ j \in Jobs /\ job[j] # None /\ job[j].pending = None /\ RowOK(job[j])
      /\ job[j].status = "active"
  BY RowOfJob DEF NextReserves, SessionInv, SessionOf, Active
<1>2. PICK o \in Ahead(j) : /\ \A i \in Ahead(j) : o <= i
                            /\ job' = [job EXCEPT ![j].pending = o]
                            /\ Work(r, o)
  BY DEF NextReserves
<1> DEFINE k == [job[j] EXCEPT !.pending = o]
<1>3. o \in Log /\ o > job[j].after /\ o <= job[j].through
  BY <1>2 DEF Ahead, Sources
<1>4. RowOK(k) /\ Continues(k, j) /\ k.after = job[j].after /\ k.pending = o
  BY <1>1, <1>3, RowReserved DEF RowOK, JobRow, Continues
<1>5. job' = [job EXCEPT ![j] = k]
  BY <1>1, <1>2 DEF TypeOK, RowOK, JobRow
<1> HIDE DEF k
<1> QED
  BY <1>1, <1>2, <1>4, <1>5

\* Complete writes the row of its owner only, and moves the checkpoint to the offset
\* that was pending.
LEMMA CompleteShape ==
    ASSUME TypeOK, SessionInv, NEW r \in Runners, Complete(r)
    PROVE  LET j == runner[r].issuer IN
           /\ j \in Jobs /\ job[j] # None
           /\ \/ job' = job
              \/ /\ Owns(r) /\ job[j].pending = runner[r].off /\ job[j].pending # None
                 /\ job[j].status = "active"
                 /\ \E k :
                      /\ RowOK(k) /\ Continues(k, j)
                      /\ job' = [job EXCEPT ![j] = k]
                      /\ k.after = job[j].pending /\ k.pending = None
<1> USE RebuildAssumption DEF Log, Sources
<1> DEFINE w == runner[r]
           j == w.issuer
<1>1. /\ j \in Jobs /\ job[j] # None /\ RowOK(job[j]) /\ w.off \in Log /\ w.off # None
      /\ w.rebuilt \in BOOLEAN
  BY RowOfJob DEF Complete, SessionInv, SessionOf, TypeOK, RunnerState
<1>2. CASE job' = job
  BY <1>1, <1>2
<1>3. CASE Owns(r) /\ job[j].pending = w.off
           /\ job' = [job EXCEPT ![j] =
                [Passed(j, w.rebuilt) EXCEPT !.status = IF job[j].cancel THEN "cancelled" ELSE "active"]]
  <2> DEFINE p == Passed(j, w.rebuilt)
             t == IF job[j].cancel THEN "cancelled" ELSE "active"
             k == [p EXCEPT !.status = t]
  <2>1. /\ RowOK(p) /\ p.pending = None /\ p.after = job[j].pending
        /\ p.through = job[j].through /\ p.cancel = job[j].cancel /\ p.lease = job[j].lease
    BY <1>1, <1>3, RowPassed
  <2>2. job[j].status = "active"
    BY <1>1, <1>3 DEF RowOK
  <2>3. job' = [job EXCEPT ![j] = k]
    BY <1>3
  <2>4. t \in {"active", "cancelled"}
    OBVIOUS
  <2> HIDE DEF p, t
  <2>5. RowOK(k) /\ Continues(k, j) /\ k.after = job[j].pending /\ k.pending = None
    BY <2>1, <2>4, RowEnded DEF RowOK, JobRow, Continues
  <2> HIDE DEF k
  <2> QED
    BY <1>1, <1>3, <2>2, <2>3, <2>5
<1> QED
  BY <1>2, <1>3 DEF Complete

\* What a process keeps of the types.
LEMMA StepType ==
    ASSUME TypeOK, SessionInv, NEW r \in Runners, Step(r) \/ Fail(r) \/ Disconnect(r)
    PROVE  TypeOK'
<1> USE RebuildAssumption DEF SessionInv, SessionOf, Log, Sources
<1> DEFINE w == runner[r]
           j == w.issuer
<1>0. w \in RunnerState /\ (w.at # "idle" => j \in Jobs /\ job[j] # None /\ RowOK(job[j]))
  BY RowOfJob DEF TypeOK
<1>1. CASE NextStops(r)
  BY <1>1, StopType DEF TypeOK, NextStops, Active
<1>2. CASE NextSettles(r)
  <2>1. PICK k : RowOK(k) /\ job' = [job EXCEPT ![j] = k] /\ k.status # "active"
    BY <1>2, SettleShape
  <2> QED
    BY <1>2, <1>0, <2>1, StopType, JobType DEF NextSettles, TypeOK
<1>3. CASE NextResumes(r)
  <2>1. job[j].pending \in Log /\ job[j].cancel \in BOOLEAN
    BY <1>0, <1>3 DEF NextResumes, RowOK, JobRow
  <2>2. [w EXCEPT !.at = IF Present(job[j].pending) THEN "find" ELSE "complete",
                  !.off = job[j].pending, !.cancel = job[j].cancel] \in RunnerState
    BY <1>0, <2>1, Moves DEF Places
  <2>3. runner' \in [Runners -> RunnerState]
    <3> DEFINE v == [w EXCEPT !.at = IF Present(job[j].pending) THEN "find" ELSE "complete",
                              !.off = job[j].pending, !.cancel = job[j].cancel]
    <3>1. runner' = [runner EXCEPT ![r] = v]
      BY <1>3, <2>1, WorkShape DEF NextResumes
    <3> HIDE DEF v
    <3>2. v \in RunnerState
      BY <2>2 DEF v
    <3> QED
      BY <3>1, <3>2, RunnerType
  <2> QED
    BY <1>3, <2>3 DEF NextResumes, TypeOK, Active
<1>4. CASE NextReserves(r)
  <2>1. PICK o, k :
          /\ o \in Ahead(j)
          /\ RowOK(k) /\ job' = [job EXCEPT ![j] = k] /\ Work(r, o) /\ job[j].status = "active"
    BY <1>4, ReserveShape
  <2>2. o \in Log /\ job[j].cancel \in BOOLEAN /\ j \in Jobs /\ w \in RunnerState /\ job[j] # None
    BY <1>0, <1>4, <2>1 DEF NextReserves, Ahead, RowOK, JobRow
  <2>3. runner' \in [Runners -> RunnerState]
    <3> DEFINE v == [w EXCEPT !.at = IF Present(o) THEN "find" ELSE "complete",
                              !.off = o, !.cancel = job[j].cancel]
    <3>1. runner' = [runner EXCEPT ![r] = v]
      BY <2>1, <2>2, WorkShape
    <3>2. v \in RunnerState
      BY <2>2, Moves DEF Places
    <3> HIDE DEF v
    <3> QED
      BY <3>1, <3>2, RunnerType
  <2>4. \A i \in Jobs : i # j => ~Active(i)
    BY <2>1, <2>2 DEF TypeOK, Active
  <2> QED
    BY <1>4, <2>1, <2>2, <2>3, <2>4, JobType DEF NextReserves, TypeOK
<1>5. CASE Find(r)
  <2>1. \E a \in Places : runner' = [runner EXCEPT ![r] = [w EXCEPT !.cancel = FALSE, !.at = a]]
    BY <1>5 DEF Find, Places, TypeOK
  <2>2. runner' \in [Runners -> RunnerState]
    BY <1>0, <2>1, RunnerType, Moves
  <2> QED
    BY <1>5, <2>2 DEF Find, TypeOK, Active
<1>6. CASE Read(r)
  <2>1. w.at = "read" /\ w.off \in Log /\ digest[w.off] \in Nat
    BY <1>6 DEF Read, TypeOK
  <2>2. \/ runner' = [runner EXCEPT ![r] = [w EXCEPT !.at = "apply", !.seen = digest[w.off]]]
        \/ runner' = [runner EXCEPT ![r] =
             [w EXCEPT !.at = "complete", !.rebuilt = FALSE, !.seen = None]]
    BY <1>6 DEF Read, Skip, TypeOK
  <2>3. runner' \in [Runners -> RunnerState]
    BY <1>0, <2>1, <2>2, RunnerType, Moves
  <2> QED
    BY <1>6, <2>3 DEF Read, TypeOK, Active
<1>7. CASE Publish(r)
  <2>1. w.at = "apply" /\ w.off \in Log /\ j \in Jobs
    BY <1>7, <1>0 DEF Publish
  <2>2. runner' \in [Runners -> RunnerState]
    BY <1>7, <1>0, PublishShape, RunnerType, Moves
  <2>3. gens' \in [Log -> SUBSET Issuers] /\ digest' \in [Log -> Nat]
    BY <1>7, <2>1 DEF Publish, TypeOK, Issuers
  <2> QED
    BY <1>7, <2>2, <2>3 DEF Publish, TypeOK, Active
<1>8. CASE PublishSettled(r)
  <2>1. \/ runner' = [runner EXCEPT ![r] = [w EXCEPT !.at = "finish", !.seen = None]]
        \/ runner' = [runner EXCEPT ![r] =
             [w EXCEPT !.at = "complete", !.rebuilt = FALSE, !.seen = None]]
    BY <1>8 DEF PublishSettled, Skip, TypeOK
  <2>2. runner' \in [Runners -> RunnerState]
    BY <1>0, <2>1, RunnerType, Moves
  <2> QED
    BY <1>8, <2>2 DEF PublishSettled, TypeOK, Active
<1>9. CASE PublishRefused(r)
  BY <1>9, StopType DEF PublishRefused, TypeOK, Active
<1>10. CASE Finish(r)
  <2>1. \/ runner' = [runner EXCEPT ![r] = [w EXCEPT !.at = "complete", !.rebuilt = TRUE]]
        \/ runner' = [runner EXCEPT ![r] =
             [w EXCEPT !.at = "complete", !.rebuilt = FALSE, !.seen = None]]
    BY <1>10 DEF Finish, Skip, TypeOK
  <2>2. runner' \in [Runners -> RunnerState]
    BY <1>0, <2>1, RunnerType, Moves
  <2>3. turn' \in [Log -> TurnStates]
    BY <1>10 DEF Finish, Finished, TypeOK, TurnStates
  <2> QED
    BY <1>10, <2>2, <2>3 DEF Finish, TypeOK, Active
<1>11. CASE Complete(r)
  <2>1. w.at = "complete" /\ j \in Jobs /\ job[j] # None /\ w.off \in Log /\ w.lease \in Leases
        /\ w.rebuilt \in BOOLEAN
    BY <1>11, <1>0 DEF Complete, RunnerState
  <2>2. runner' \in [Runners -> RunnerState] /\ holder' \in Runners \cup {None}
    <3>1. CASE Stop(r)
      BY <3>1, StopType
    <3>2. CASE runner' = [runner EXCEPT ![r] = [Idle EXCEPT !.at = "next", !.issuer = j, !.lease = w.lease]]
               /\ holder' = holder
      BY <3>2, <2>1, RunnerType, Fresh DEF TypeOK
    <3> QED
      BY <1>11, <3>1, <3>2 DEF Complete
  <2>3. CASE job' = job
    BY <1>11, <2>2, <2>3 DEF Complete, TypeOK, Active
  <2>4. CASE job' # job
    <3>1. PICK k : RowOK(k) /\ job' = [job EXCEPT ![j] = k] /\ job[j].status = "active"
      BY <1>11, <2>4, CompleteShape
    <3>2. \A i \in Jobs : i # j => ~Active(i)
      BY <2>1, <3>1 DEF TypeOK, Active
    <3> QED
      BY <1>11, <2>1, <2>2, <3>1, <3>2, JobType DEF Complete, TypeOK
  <2> QED
    BY <2>3, <2>4
<1>12. CASE Fail(r)
  BY <1>12, StopType DEF Fail, TypeOK, Active
<1>13. CASE Disconnect(r)
  BY <1>13 DEF Disconnect, TypeOK, Active
<1> QED
  BY <1>1, <1>2, <1>3, <1>4, <1>5, <1>6, <1>7, <1>8, <1>9, <1>10, <1>11, <1>12, <1>13 DEF Step

\* What the rest of the system does keeps the types.
LEMMA WorldType ==
    ASSUME TypeOK, JobInv,
           \/ \E k \in Requests, o \in Log : SourceRebuild(k, o) \/ SourceFinish(k, o)
           \/ \E o \in Log : Form(o) \/ Park(o) \/ Erase(o) \/ Edit(o)
           \/ Append
    PROVE  TypeOK'
<1> USE RebuildAssumption DEF Log
<1>1. CASE \E k \in Requests, o \in Log : SourceRebuild(k, o) \/ SourceFinish(k, o)
  <2>1. PICK k \in Requests, o \in Log : SourceRebuild(k, o) \/ SourceFinish(k, o)
    BY <1>1
  <2>2. CASE SourceRebuild(k, o)
    <3>1. gens' \in [Log -> SUBSET Issuers] /\ digest' \in [Log -> Nat]
      BY <2>2 DEF SourceRebuild, TypeOK, Issuers
    <3> QED
      BY <2>2, <3>1 DEF SourceRebuild, TypeOK, Active
  <2>3. CASE SourceFinish(k, o)
    BY <2>3 DEF SourceFinish, Finished, TypeOK, TurnStates, Active
  <2> QED
    BY <2>1, <2>2, <2>3
<1>2. CASE \E o \in Log : Form(o) \/ Park(o) \/ Erase(o) \/ Edit(o)
  <2>1. PICK o \in Log : Form(o) \/ Park(o) \/ Erase(o) \/ Edit(o)
    BY <1>2
  <2>2. turn' \in [Log -> TurnStates]
    BY <2>1 DEF Form, Park, Erase, Edit, TypeOK, TurnStates
  <2>3. gens' \in [Log -> SUBSET Issuers] /\ digest' \in [Log -> Nat]
    <3>1. CASE Erase(o)
      <4>1. gens' \in [Log -> SUBSET Issuers]
        BY <3>1 DEF Erase, TypeOK
      <4>2. digest' \in [Log -> Nat]
        BY <3>1 DEF Erase, TypeOK
      <4> QED
        BY <4>1, <4>2
    <3>2. CASE Form(o) \/ Park(o) \/ Edit(o)
      BY <3>2 DEF Form, Park, Edit, TypeOK
    <3> QED
      BY <2>1, <3>1, <3>2
  <2>4. UNCHANGED <<head, job, holder, runner, failures>>
    BY <2>1 DEF Form, Park, Erase, Edit
  <2> QED
    BY <2>2, <2>3, <2>4 DEF TypeOK, Active
<1>3. CASE Append
  <2>1. turn' \in [Log -> TurnStates] /\ head' \in Head0 .. MaxHead
    BY <1>3 DEF Append, Appended, TypeOK, TurnStates
  <2> QED
    BY <1>3, <2>1 DEF Append, TypeOK, Active
<1> QED
  BY <1>1, <1>2, <1>3

\* What the operator does keeps the types.
LEMMA AcquireType ==
    ASSUME TypeOK, NEW r \in Runners, NEW j \in Jobs, Acquire(r, j)
    PROVE  TypeOK'
<1> USE RebuildAssumption DEF Log
<1> DEFINE l == FreshLease
           new == [through |-> head - 1, after |-> -1, pending |-> None, rebuilt |-> 0,
                   skipped |-> 0, cancel |-> FALSE, lease |-> l, status |-> "active"]
           k == IF job[j] = None THEN new ELSE TakeUp(j, l)
           v == [Idle EXCEPT !.at = "next", !.issuer = j, !.lease = l]
<1>1. l \in Leases
  BY LeaseIsFresh DEF Acquire
<1>2. runner' \in [Runners -> RunnerState] /\ holder' \in Runners \cup {None}
  <2>1. v \in RunnerState
    BY <1>1, Fresh
  <2>2. runner' = [runner EXCEPT ![r] = v] /\ holder' = r
    BY DEF Acquire
  <2> QED
    BY <2>1, <2>2, RunnerType
<1>3. RowOK(k) /\ (k.status = "active" => \A i \in Jobs : i # j => ~Active(i))
  <2>1. CASE job[j] = None
    <3>1. head \in Nat /\ head <= MaxHead
      BY DEF TypeOK
    <3>2. RowOK(new)
      BY <1>1, <3>1 DEF RowOK, JobRow
    <3> QED
      BY <2>1, <3>2 DEF Acquire
  <2>2. CASE job[j] # None
    <3>1. RowOK(job[j])
      BY <2>2, RowOfJob
    <3>2. RowOK(TakeUp(j, l)) /\ TakeUp(j, l).status = job[j].status
      BY <1>1, <3>1, RowTaken DEF TakeUp, RowOK, JobRow
    <3> QED
      BY <2>2, <3>2 DEF TypeOK, Active
  <2> QED
    BY <2>1, <2>2
<1>4. job' = [job EXCEPT ![j] = k]
  BY DEF Acquire
<1> HIDE DEF k, v, new, l
<1> QED
  BY <1>2, <1>3, <1>4, JobType DEF Acquire, TypeOK

\* Cancel marks the row, and may settle the pending source with its bookkeeping.
LEMMA CancelShape ==
    ASSUME TypeOK, NEW j \in Jobs, Cancel(j)
    PROVE  \E k :
             /\ RowOK(k)
             /\ job' = [job EXCEPT ![j] = k]
             /\ k.cancel /\ k.through = job[j].through /\ k.lease = job[j].lease
             /\ \/ k.pending = job[j].pending /\ k.after = job[j].after /\ turn' = turn
                \/ /\ k.pending = None /\ k.after = job[j].pending /\ job[j].pending # None
                   /\ turn' = IF WasPublished(j) THEN Finished(job[j].pending) ELSE turn
<1> USE RebuildAssumption DEF Log
<1>1. job[j] # None /\ RowOK(job[j]) /\ job[j].status = "active"
  BY RowOfJob DEF Cancel, Active
<1>2. CASE holder = None /\ job[j].pending # None
  <2> DEFINE p == Passed(j, WasPublished(j))
  <2>1. WasPublished(j) \in BOOLEAN
    BY DEF WasPublished
  <2>2. /\ RowOK(p) /\ p.pending = None /\ p.after = job[j].pending
        /\ p.through = job[j].through /\ p.lease = job[j].lease
    BY <1>1, <1>2, <2>1, RowPassed
  <2> HIDE DEF p
  <2>3. RowOK([p EXCEPT !.cancel = TRUE, !.status = "cancelled"])
    BY <2>2, RowMarked
  <2>4. job' = [job EXCEPT ![j] = [p EXCEPT !.cancel = TRUE, !.status = "cancelled"]]
        /\ turn' = IF WasPublished(j) THEN Finished(job[j].pending) ELSE turn
    BY <1>2 DEF Cancel, p
  <2> WITNESS [p EXCEPT !.cancel = TRUE, !.status = "cancelled"]
  <2> QED
    BY <1>2, <2>2, <2>3, <2>4 DEF RowOK, JobRow
<1>3. CASE ~(holder = None /\ job[j].pending # None)
  <2> DEFINE t == IF job[j].pending = None THEN "cancelled" ELSE job[j].status
             k == [job[j] EXCEPT !.cancel = TRUE, !.status = t]
  <2>1. t \in {"active", "cancelled"} /\ (job[j].pending # None => t = "active")
    BY <1>1
  <2>2. job' = [job EXCEPT ![j].cancel = TRUE, ![j].status = t] /\ turn' = turn
    <3>1. job' = [job EXCEPT ![j].cancel = TRUE,
                             ![j].status = IF job[j].pending = None THEN "cancelled" ELSE @]
          /\ turn' = turn
      BY <1>3 DEF Cancel
    <3> QED
      BY <1>1, <3>1 DEF RowOK, JobRow, TypeOK
  <2> HIDE DEF t
  <2>3. job' = [job EXCEPT ![j] = k]
    BY <2>2 DEF TypeOK
  <2>4. RowOK(k)
    BY <1>1, <2>1, RowMarked
  <2>5. k.cancel /\ k.through = job[j].through /\ k.lease = job[j].lease
        /\ k.pending = job[j].pending /\ k.after = job[j].after
    BY <1>1 DEF RowOK, JobRow
  <2> QED
    BY <2>2, <2>3, <2>4, <2>5
<1> QED
  BY <1>2, <1>3

\* Cancel keeps the types.
LEMMA CancelType ==
    ASSUME TypeOK, NEW j \in Jobs, Cancel(j)
    PROVE  TypeOK'
<1> USE RebuildAssumption DEF Log
<1>1. PICK k : RowOK(k) /\ job' = [job EXCEPT ![j] = k]
  BY CancelShape
<1>2. \A i \in Jobs : i # j => ~Active(i)
  BY DEF TypeOK, Cancel
<1>3. turn' \in [Log -> TurnStates]
  BY DEF Cancel, Finished, TypeOK, TurnStates
<1> QED
  BY <1>1, <1>2, <1>3, JobType DEF Cancel, TypeOK

-----------------------------------------------------------------------------
(* What a step may change of what a bystander relies on.                      *)

\* The log grows at its end; no source comes back; while one is there its
\* generations stay and a formed turn stays formed; a job's row stays, with its
\* boundary and its cancellation; a lease that a job gets is its owner's or is
\* new; and only its guarded runner publishes for a job.
Forward ==
    /\ head <= head'
    /\ \A o \in Log : o < head /\ Present(o)' =>
        /\ Present(o)
        /\ gens[o] \subseteq gens'[o]
        /\ turn[o] = "formed" => turn'[o] = "formed"
    /\ \A j \in Jobs : job[j] # None =>
        /\ job'[j] # None
        /\ job'[j].through = job[j].through
        /\ job[j].cancel => job'[j].cancel
        /\ \A s \in Runners : job'[j].lease = runner[s].lease => job[j].lease = runner[s].lease
    /\ \A o \in Log, j \in Jobs : j \in gens'[o] /\ j \notin gens[o] =>
        /\ job' = job
        /\ \E r \in Runners :
            runner[r].at = "apply" /\ runner[r].issuer = j /\ runner[r].off = o /\ Guarded(r)

\* A process that does not take the step relies on what it did before.
LEMMA Bystander ==
    ASSUME TypeOK, TypeOK', SessionInv, WorkInv, Forward, NEW s \in Runners, runner'[s] = runner[s]
    PROVE  SessionOf(s)' /\ WorkOf(s)'
<1> USE RebuildAssumption DEF Log, Sources
<1> DEFINE w == runner[s]
           j == w.issuer
<1>1. SessionOf(s) /\ WorkOf(s) /\ head <= head' /\ head \in Nat /\ head' \in Nat
  BY DEF SessionInv, WorkInv, Forward, TypeOK
<1>2. CASE w.at = "idle"
  BY <1>2 DEF SessionOf, WorkOf
<1>3. CASE w.at # "idle"
  <2>1. j \in Jobs /\ w.lease \in Leases /\ w.lease # None /\ job[j] # None /\ job'[j] # None
    BY <1>1, <1>3 DEF SessionOf, Forward
  <2>2. Owns(s)' => Owns(s)
    BY <2>1 DEF Owns, Forward
  <2>3. job[j].cancel => job'[j].cancel
    BY <2>1 DEF Forward
  <2>4. CASE w.at = "next"
    BY <1>1, <2>1, <2>4 DEF SessionOf, WorkOf
  <2>5. CASE w.at # "next"
    <3>1. w.off \in Sources /\ w.off < head /\ w.off < head'
      BY <1>1, <1>3, <2>5 DEF SessionOf
    <3>2. SessionOf(s)'
      BY <2>1, <3>1 DEF SessionOf
    <3>3. Present(w.off)' =>
            /\ Present(w.off)
            /\ gens[w.off] \subseteq gens'[w.off]
            /\ turn[w.off] = "formed" => turn'[w.off] = "formed"
      BY <3>1 DEF Forward
    <3>4. ASSUME w.at # "apply", Owns(s), j \notin gens[w.off]
          PROVE  j \notin gens'[w.off]
      <4>1. SUFFICES ASSUME j \in gens'[w.off] PROVE FALSE
        OBVIOUS
      <4>2. PICK r \in Runners : runner[r].at = "apply" /\ runner[r].issuer = j
                                 /\ runner[r].off = w.off /\ Guarded(r)
        BY <2>1, <3>1, <3>4, <4>1 DEF Forward
      <4>3. r # s /\ runner[r].lease = w.lease
        BY <3>4, <4>2 DEF Guarded, Owns
      <4> QED
        BY <2>1, <4>3 DEF SessionInv, LeasesDiffer
    <3>5. WorkOf(s)'
      BY <1>1, <2>2, <2>3, <3>3, <3>4 DEF WorkOf, Present
    <3> QED
      BY <3>2, <3>5
  <2> QED
    BY <2>4, <2>5
<1> QED
  BY <1>2, <1>3

\* A job whose checkpoint stays has still missed nothing.
LEMMA CheckpointStays ==
    ASSUME TypeOK, JobInv, NothingMissed, Forward, NEW j \in Jobs,
           job[j] # None, job'[j].after = job[j].after
    PROVE  \A o \in PassedOver(j)' : Present(o)' =>
             /\ ~job'[j].cancel => j \in gens'[o]
             /\ j \in gens'[o] => turn'[o] = "formed"
<1> USE RebuildAssumption DEF Log, Sources
<1>1. job[j] \in JobRow /\ job[j].after <= job[j].through /\ job[j].through < head /\ head \in Nat
  BY DEF TypeOK, JobInv
<1>2. TAKE o \in PassedOver(j)'
<1>3. HAVE Present(o)'
<1>4. o \in PassedOver(j) /\ o \in Log /\ o <= job[j].after /\ o < head
  BY <1>1, <1>2 DEF PassedOver, JobRow
<1>5. Present(o) /\ gens[o] \subseteq gens'[o] /\ (turn[o] = "formed" => turn'[o] = "formed")
  BY <1>3, <1>4 DEF Forward
<1>6. (~job[j].cancel => j \in gens[o]) /\ (j \in gens[o] => turn[o] = "formed")
  BY <1>4, <1>5 DEF NothingMissed
<1>7. job[j].cancel => job'[j].cancel
  BY DEF Forward
<1>8. j \in gens'[o] => j \in gens[o]
  <2>1. SUFFICES ASSUME j \in gens'[o], j \notin gens[o] PROVE FALSE
    OBVIOUS
  <2>2. PICK r \in Runners : runner[r].issuer = j /\ runner[r].off = o /\ Guarded(r)
    BY <1>4, <2>1 DEF Forward
  <2>3. job[j].pending = o /\ o # None
    BY <1>4, <2>2 DEF Guarded
  <2>4. o > job[j].after
    BY <2>3 DEF TypeOK
  <2> QED
    BY <1>1, <1>4, <2>4 DEF JobRow
<1> QED
  BY <1>5, <1>6, <1>7, <1>8

\* A checkpoint that moves over the pending source misses nothing when what the
\* job counts of that source is so.
LEMMA CheckpointMoves ==
    ASSUME TypeOK, JobInv, NothingMissed, Forward, gens' = gens, NEW j \in Jobs,
           job[j] # None, job[j].pending # None, job'[j].after = job[j].pending,
           \A o \in Log : o = job[j].pending /\ Present(o)' =>
             /\ ~job'[j].cancel => j \in gens[o]
             /\ j \in gens[o] => turn'[o] = "formed"
    PROVE  \A o \in PassedOver(j)' : Present(o)' =>
             /\ ~job'[j].cancel => j \in gens'[o]
             /\ j \in gens'[o] => turn'[o] = "formed"
<1> USE RebuildAssumption DEF Log, Sources
<1>1. job[j] \in JobRow /\ job[j].pending \in Log /\ job[j].pending <= job[j].through
      /\ job[j].through < head /\ head \in Nat
  BY DEF TypeOK, JobInv, JobRow
<1>2. TAKE o \in PassedOver(j)'
<1>3. HAVE Present(o)'
<1>4. o \in Sources /\ o \in Log /\ o <= job[j].pending /\ o < head
  BY <1>1, <1>2 DEF PassedOver, JobRow
<1>5. Present(o) /\ (turn[o] = "formed" => turn'[o] = "formed")
  BY <1>3, <1>4 DEF Forward
<1>6. job[j].cancel => job'[j].cancel
  BY DEF Forward
<1>7. CASE o = job[j].pending
  BY <1>3, <1>4, <1>7
<1>8. CASE o <= job[j].after
  <2>1. o \in PassedOver(j)
    BY <1>4, <1>8 DEF PassedOver
  <2> QED
    BY <1>5, <1>6, <2>1 DEF NothingMissed
<1>9. CASE o > job[j].after /\ o < job[j].pending
  BY <1>4, <1>5, <1>9 DEF JobInv
<1> QED
  BY <1>1, <1>4, <1>7, <1>8, <1>9 DEF JobRow

\* A job whose checkpoint and pending offset stay keeps what JobInv says of it.
LEMMA BoundaryStays ==
    ASSUME TypeOK, TypeOK', JobInv, Forward, NEW j \in Jobs,
           job[j] # None, job'[j].after = job[j].after, job'[j].pending = job[j].pending
    PROVE  /\ job'[j].through < head'
           /\ job'[j].pending # None =>
                /\ job'[j].pending \in Sources
                /\ \A o \in Sources : o > job'[j].after /\ o < job'[j].pending => ~Present(o)'
<1> USE RebuildAssumption DEF Log, Sources
<1>1. job[j] \in JobRow /\ job[j].through < head /\ head \in Nat /\ head' \in Nat /\ head <= head'
      /\ job'[j].through = job[j].through
  BY DEF TypeOK, JobInv, Forward
<1>2. job'[j].through < head'
  BY <1>1 DEF JobRow
<1>3. ASSUME job[j].pending # None, NEW o \in Sources, o > job[j].after, o < job[j].pending
      PROVE  ~Present(o)'
  <2>1. ~Present(o)
    BY <1>3 DEF JobInv
  <2>2. job[j].pending \in Log /\ job[j].pending <= job[j].through
    BY <1>1, <1>3 DEF TypeOK, JobRow
  <2>3. o < head
    BY <1>1, <1>3, <2>2 DEF JobRow
  <2> QED
    BY <2>1, <2>3 DEF Forward
<1>4. job[j].pending # None => job[j].pending \in Sources
  BY DEF JobInv
<1> QED
  BY <1>2, <1>3, <1>4

-----------------------------------------------------------------------------
(* Every step goes forward.                                                   *)

\* A step that leaves the log alone goes forward when each job's row is as it
\* was, or continues.
LEMMA RowForward ==
    ASSUME TypeOK, LogInv, NEW j \in Jobs, NEW k, job[j] # None,
           RowOK(k), job' = [job EXCEPT ![j] = k], k.through = job[j].through,
           job[j].cancel => k.cancel,
           \A s \in Runners : k.lease = runner[s].lease => job[j].lease = runner[s].lease,
           head' = head, gens' = gens,
           \A o \in Log : Present(o)' => Present(o) /\ (turn[o] = "formed" => turn'[o] = "formed")
    PROVE  Forward
<1>1. k # None
  BY RowAssumption DEF RowOK
<1>2. \A i \in Jobs : job[i] # None =>
        /\ job'[i] # None
        /\ job'[i].through = job[i].through
        /\ job[i].cancel => job'[i].cancel
        /\ \A s \in Runners : job'[i].lease = runner[s].lease => job[i].lease = runner[s].lease
  BY <1>1 DEF TypeOK
<1> QED
  BY <1>2 DEF Forward, TypeOK

\* What a process does goes forward.
LEMMA StepForward ==
    ASSUME TypeOK, LogInv, SessionInv, NEW r \in Runners, Step(r) \/ Fail(r) \/ Disconnect(r)
    PROVE  Forward /\ LogInv'
<1> USE RebuildAssumption DEF Log, Sources
<1> DEFINE w == runner[r]
           j == w.issuer
<1>0. head \in Nat /\ SessionOf(r)
  BY DEF TypeOK, SessionInv
<1>1. CASE UNCHANGED <<head, turn, gens, job>>
  BY <1>0, <1>1 DEF Forward, LogInv, Present
<1>2. CASE /\ UNCHANGED <<head, turn, gens>>
           /\ job[j] # None /\ j \in Jobs
           /\ \E k : RowOK(k) /\ Continues(k, j) /\ job' = [job EXCEPT ![j] = k]
  <2>1. PICK k : RowOK(k) /\ Continues(k, j) /\ job' = [job EXCEPT ![j] = k]
    BY <1>2
  <2>2. Forward
    BY <1>2, <2>1, RowForward DEF Continues, Present
  <2> QED
    BY <1>2, <2>2 DEF LogInv, Present
<1>3. CASE NextSettles(r)
  BY <1>2, <1>3, SettleShape DEF NextSettles
<1>4. CASE NextReserves(r)
  BY <1>2, <1>4, ReserveShape DEF NextReserves
<1>5. CASE Complete(r)
  BY <1>1, <1>2, <1>5, CompleteShape DEF Complete
<1>6. CASE Publish(r)
  <2>1. w.at = "apply" /\ w.off \in Log /\ j \in Jobs /\ Present(w.off) /\ Guarded(r)
    BY <1>0, <1>6 DEF Publish, SessionOf
  <2>2. \A o \in Log : gens'[o] = IF o = w.off THEN gens[o] \cup {j} ELSE gens[o]
    BY <1>6, <2>1 DEF Publish, TypeOK
  <2>3. UNCHANGED <<head, turn, job>>
    BY <1>6 DEF Publish
  <2>4. LogInv'
    BY <2>1, <2>2, <2>3 DEF LogInv, Present
  <2>5. \A o \in Log, i \in Jobs : i \in gens'[o] /\ i \notin gens[o] =>
          \E s \in Runners :
            runner[s].at = "apply" /\ runner[s].issuer = i /\ runner[s].off = o /\ Guarded(s)
    BY <2>1, <2>2
  <2>6. \A o \in Log : gens[o] \subseteq gens'[o]
    BY <2>2
  <2> QED
    BY <1>0, <2>3, <2>4, <2>5, <2>6 DEF Forward, Present
<1>7. CASE Finish(r)
  <2>1. w.off \in Log /\ UNCHANGED <<head, gens, job>>
    BY <1>0, <1>7 DEF Finish, SessionOf
  <2>2. turn' = turn \/ (Present(w.off) /\ turn' = [turn EXCEPT ![w.off] = "formed"])
    BY <1>7 DEF Finish, Finished
  <2> QED
    BY <1>0, <1>1, <2>1, <2>2 DEF Forward, LogInv, Present, TypeOK
<1> QED
  BY <1>1, <1>3, <1>4, <1>5, <1>6, <1>7
     DEF Step, NextStops, NextResumes, Find, Read, PublishSettled, PublishRefused, Fail, Disconnect

\* What the rest of the system does goes forward.
LEMMA WorldForward ==
    ASSUME TypeOK, LogInv, JobInv,
           \/ \E k \in Requests, o \in Log : SourceRebuild(k, o) \/ SourceFinish(k, o)
           \/ \E o \in Log : Form(o) \/ Park(o) \/ Erase(o) \/ Edit(o)
           \/ Append
    PROVE  Forward /\ LogInv'
<1> USE RebuildAssumption DEF Log
<1>0. head \in Nat
  BY DEF TypeOK
<1>1. ASSUME NEW k \in Requests, NEW o \in Log, SourceRebuild(k, o)
      PROVE  Forward /\ LogInv'
  <2>1. \A i \in Log : gens'[i] = IF i = o THEN gens[i] \cup {k} ELSE gens[i]
    BY <1>1 DEF SourceRebuild, TypeOK
  <2>2. Present(o) /\ UNCHANGED <<head, turn, job>>
    BY <1>1 DEF SourceRebuild
  <2>3. LogInv'
    BY <2>1, <2>2 DEF LogInv, Present
  <2>4. \A i \in Log : gens[i] \subseteq gens'[i] /\ \A l \in Jobs : l \in gens'[i] => l \in gens[i]
    BY <2>1
  <2> QED
    BY <1>0, <2>2, <2>3, <2>4 DEF Forward, Present
<1>2. ASSUME NEW k \in Requests, NEW o \in Log, SourceFinish(k, o)
      PROVE  Forward /\ LogInv'
  BY <1>0, <1>2 DEF SourceFinish, Finished, Forward, LogInv, Present, TypeOK
<1>3. ASSUME NEW o \in Log, Form(o) \/ Park(o) \/ Edit(o)
      PROVE  Forward /\ LogInv'
  BY <1>0, <1>3 DEF Form, Park, Edit, Forward, LogInv, Present, TypeOK
<1>4. ASSUME NEW o \in Log, Erase(o)
      PROVE  Forward /\ LogInv'
  <2>1. \A i \in Log : gens'[i] = IF i = o THEN {} ELSE gens[i]
    BY <1>4 DEF Erase, TypeOK
  <2>2. \A i \in Log : turn'[i] = IF i = o THEN "erased" ELSE turn[i]
    BY <1>4 DEF Erase, TypeOK
  <2>3. Present(o) /\ UNCHANGED <<head, job>>
    BY <1>4 DEF Erase
  <2> QED
    BY <1>0, <2>1, <2>2, <2>3 DEF Forward, LogInv, Present
<1>5. CASE Append
  <2>1. head \in Log /\ head' = head + 1 /\ UNCHANGED <<gens, job>>
    BY <1>0, <1>5 DEF Append
  <2>2. \A i \in Log : turn'[i] = IF i = head THEN Appended(head) ELSE turn[i]
    BY <1>5 DEF Append, TypeOK
  <2>3. Appended(head) \in {"formed", "waiting"}
    BY DEF Appended
  <2>4. turn[head] = "unwritten" /\ gens[head] = {}
    BY <2>1, <1>0 DEF LogInv, Present
  <2>5. Forward
    BY <1>0, <2>1, <2>2 DEF Forward, Present
  <2>6. LogInv'
    <3> SUFFICES ASSUME NEW i \in Log
                 PROVE  (turn'[i] = "unwritten" <=> i >= head') /\ (gens'[i] # {} => Present(i)')
      BY DEF LogInv
    <3>1. CASE i = head
      BY <1>0, <2>1, <2>2, <2>3, <2>4, <3>1
    <3>2. CASE i # head
      BY <1>0, <2>1, <2>2, <3>2 DEF LogInv, Present
    <3> QED
      BY <3>1, <3>2
  <2> QED
    BY <2>5, <2>6
<1> QED
  BY <1>1, <1>2, <1>3, <1>4, <1>5

\* Taking a job up goes forward.
LEMMA AcquireForward ==
    ASSUME TypeOK, LogInv, NEW r \in Runners, NEW j \in Jobs, Acquire(r, j)
    PROVE  Forward /\ LogInv'
<1> USE RebuildAssumption DEF Log
<1>1. LogInv' /\ UNCHANGED <<head, turn, gens>>
  BY DEF Acquire, LogInv, Present
<1>2. CASE job[j] = None
  <2>1. \A i \in Jobs : job[i] # None => job'[i] = job[i]
    BY <1>2 DEF Acquire, TypeOK
  <2> QED
    BY <1>1, <2>1 DEF Forward, TypeOK, Present
<1>3. CASE job[j] # None
  <2> DEFINE k == TakeUp(j, FreshLease)
  <2>1. RowOK(job[j])
    BY <1>3, RowOfJob
  <2>2. FreshLease \in Leases /\ \A s \in Runners : runner[s].lease # FreshLease
    BY LeaseIsFresh DEF Acquire
  <2>3. RowOK(k) /\ k.through = job[j].through /\ k.cancel = job[j].cancel /\ k.lease = FreshLease
    BY <2>1, <2>2, RowTaken DEF TakeUp, RowOK, JobRow
  <2>4. job' = [job EXCEPT ![j] = k]
    BY <1>3 DEF Acquire
  <2> HIDE DEF k
  <2> QED
    BY <1>1, <1>3, <2>2, <2>3, <2>4, RowForward DEF Present
<1> QED
  BY <1>2, <1>3

\* Cancelling a job goes forward.
LEMMA CancelForward ==
    ASSUME TypeOK, LogInv, JobInv, NEW j \in Jobs, Cancel(j)
    PROVE  Forward /\ LogInv'
<1> USE RebuildAssumption DEF Log
<1>1. PICK k : /\ RowOK(k)
               /\ job' = [job EXCEPT ![j] = k]
               /\ k.cancel /\ k.through = job[j].through /\ k.lease = job[j].lease
  BY CancelShape
<1>2. job[j] # None /\ UNCHANGED <<head, gens>> /\ head \in Nat
  BY DEF Cancel, Active, TypeOK
<1>3. turn' = turn \/ \E o \in Log : Present(o) /\ turn' = [turn EXCEPT ![o] = "formed"]
  <2>1. CASE holder = None /\ WasPublished(j)
    <3>1. job[j].pending \in Log /\ gens[job[j].pending] # {}
      BY <1>2, <2>1 DEF WasPublished, TypeOK, JobRow
    <3> QED
      BY <2>1, <3>1 DEF Cancel, Finished, LogInv
  <2> QED
    BY <2>1 DEF Cancel, WasPublished
<1>4. \A o \in Log : /\ Present(o)' <=> Present(o)
                     /\ turn[o] = "formed" => turn'[o] = "formed"
                     /\ turn'[o] = "unwritten" <=> turn[o] = "unwritten"
  BY <1>3 DEF Present, TypeOK
<1>5. Forward
  BY <1>1, <1>2, <1>4, RowForward
<1> QED
  BY <1>2, <1>4, <1>5 DEF LogInv

-----------------------------------------------------------------------------
(* Every step keeps what the jobs' rows promise.                              *)

\* JobInv and NothingMissed, of one job.
BoundaryOf(j) ==
    /\ job[j].through < head
    /\ job[j].pending # None =>
        /\ job[j].pending \in Sources
        /\ \A o \in Sources : o > job[j].after /\ o < job[j].pending => ~Present(o)

MissedBy(j) ==
    \A o \in PassedOver(j) : Present(o) =>
        /\ ~job[j].cancel => j \in gens[o]
        /\ j \in gens[o] => turn[o] = "formed"

RowsInv == \A j \in Jobs : job[j] # None => BoundaryOf(j) /\ MissedBy(j)

\* A row whose checkpoint and pending offset stay keeps both.
LEMMA RowStays ==
    ASSUME TypeOK, TypeOK', JobInv, NothingMissed, Forward, NEW j \in Jobs,
           job[j] # None, job'[j].after = job[j].after, job'[j].pending = job[j].pending
    PROVE  BoundaryOf(j)' /\ MissedBy(j)'
<1>1. BoundaryOf(j)'
  BY BoundaryStays DEF BoundaryOf
<1>2. MissedBy(j)'
  BY CheckpointStays DEF MissedBy
<1> QED
  BY <1>1, <1>2

\* A job without a pending offset whose checkpoint stays.
LEMMA RowLetGo ==
    ASSUME TypeOK, TypeOK', JobInv, NothingMissed, Forward, NEW j \in Jobs,
           job[j] # None, job'[j].pending = None,
           MissedBy(j)'
    PROVE  BoundaryOf(j)' /\ MissedBy(j)'
<1> USE RebuildAssumption DEF Log, Sources
<1>1. job[j] \in JobRow /\ job[j].through < head /\ head \in Nat /\ head' \in Nat /\ head <= head'
      /\ job'[j].through = job[j].through
  BY DEF TypeOK, JobInv, Forward
<1>2. job'[j].through < head'
  BY <1>1 DEF JobRow
<1> QED
  BY <1>2 DEF BoundaryOf

\* What a process does keeps the rows.
LEMMA StepRows ==
    ASSUME TypeOK, TypeOK', LogInv, JobInv, SessionInv, WorkInv, NothingMissed, Forward,
           NEW r \in Runners, Step(r) \/ Fail(r) \/ Disconnect(r)
    PROVE  JobInv' /\ NothingMissed'
<1> USE RebuildAssumption DEF Log, Sources
<1> SUFFICES RowsInv'
  BY DEF RowsInv, BoundaryOf, MissedBy, JobInv, NothingMissed
<1> PICK w, j : w = runner[r] /\ j = w.issuer
  OBVIOUS
<1>0. ASSUME job' = job
      PROVE  RowsInv'
  BY <1>0, RowStays DEF RowsInv
<1>1. ASSUME j \in Jobs, job[j] # None, NEW k, job' = [job EXCEPT ![j] = k],
             BoundaryOf(j)' /\ MissedBy(j)'
      PROVE  RowsInv'
  <2>1. \A i \in Jobs : i # j => job'[i] = job[i]
    BY <1>1 DEF TypeOK
  <2> QED
    BY <1>1, <2>1, RowStays DEF RowsInv
<1>2. CASE NextSettles(r)
  <2>1. j \in Jobs /\ job[j] # None /\ job[j].pending = None
    BY <1>2, SettleShape
  <2>2. PICK k : /\ Continues(k, j) /\ job' = [job EXCEPT ![j] = k] /\ k.pending = None
                 /\ \/ k.after = job[j].after
                    \/ k.after = job[j].through /\ Ahead(j) = {}
    BY <1>2, SettleShape
  <2>3. job'[j] = k
    BY <2>1, <2>2 DEF TypeOK
  <2>4. CASE k.after = job[j].after
    BY <1>1, <2>1, <2>2, <2>3, <2>4, RowStays
  <2>5. CASE k.after = job[j].through /\ Ahead(j) = {}
    <3>1. UNCHANGED <<turn, gens>> /\ k.cancel = job[j].cancel
      BY <1>2, <2>2 DEF NextSettles, Continues
    <3>2. ASSUME NEW o \in PassedOver(j)', Present(o)'
          PROVE  (~job'[j].cancel => j \in gens'[o]) /\ (j \in gens'[o] => turn'[o] = "formed")
      <4>1. o \in Sources /\ o <= job[j].through /\ Present(o)
        BY <2>3, <2>5, <3>1, <3>2 DEF PassedOver, Present
      <4>2. o <= job[j].after
        <5>1. job[j].after \in Int /\ o \in Int
          BY <2>1, <4>1 DEF TypeOK, JobRow
        <5>2. o \notin Ahead(j)
          BY <2>5
        <5> QED
          BY <4>1, <5>1, <5>2 DEF Ahead
      <4>3. o \in PassedOver(j)
        BY <4>1, <4>2 DEF PassedOver
      <4> QED
        BY <2>1, <2>3, <3>1, <4>1, <4>3 DEF NothingMissed
    <3>3. MissedBy(j)'
      BY <3>2 DEF MissedBy
    <3> QED
      BY <1>1, <2>1, <2>2, <2>3, <3>3, RowLetGo
  <2> QED
    BY <2>2, <2>4, <2>5
<1>3. CASE NextReserves(r)
  <2>1. j \in Jobs /\ job[j] # None
    BY <1>3, ReserveShape
  <2>2. PICK o, k : /\ o \in Ahead(j)
                    /\ \A i \in Ahead(j) : o <= i
                    /\ Continues(k, j) /\ job' = [job EXCEPT ![j] = k]
                    /\ k.after = job[j].after /\ k.pending = o
    BY <1>3, ReserveShape
  <2>3. job'[j] = k
    BY <2>1, <2>2 DEF TypeOK
  <2>4. MissedBy(j)'
    BY <2>1, <2>2, <2>3, CheckpointStays DEF MissedBy
  <2>5. job'[j].through < head' /\ o \in Sources /\ UNCHANGED turn
    BY <1>3, <2>1, <2>2, <2>3 DEF Continues, JobInv, NextReserves, Ahead
  <2>6. ASSUME NEW i \in Sources, i > job[j].after, i < o
        PROVE  ~Present(i)
    <3>1. i <= job[j].through
      <4>1. job[j].through \in Int /\ i \in Int /\ o \in Int /\ o <= job[j].through
        BY <2>1, <2>2, <2>6 DEF Ahead, TypeOK, JobRow
      <4> QED
        BY <2>6, <4>1
    <3> QED
      BY <2>2, <2>6, <3>1 DEF Ahead
  <2>7. BoundaryOf(j)'
    BY <2>2, <2>3, <2>5, <2>6 DEF BoundaryOf, Present
  <2> QED
    BY <1>1, <2>1, <2>2, <2>4, <2>7
<1>4. CASE Complete(r)
  <2>1. j \in Jobs /\ job[j] # None
    BY <1>4, CompleteShape
  <2>2. CASE job' = job
    BY <1>0, <2>2
  <2>3. CASE job' # job
    <3>1. /\ Owns(r) /\ job[j].pending = w.off /\ job[j].pending # None
          /\ \E k : /\ Continues(k, j) /\ job' = [job EXCEPT ![j] = k]
                    /\ k.after = job[j].pending /\ k.pending = None
      BY <1>4, <2>3, CompleteShape
    <3>2. PICK k : /\ Continues(k, j) /\ job' = [job EXCEPT ![j] = k]
                   /\ k.after = job[j].pending /\ k.pending = None
      BY <3>1
    <3>3. job'[j] = k /\ k.cancel = job[j].cancel /\ UNCHANGED <<turn, gens>> /\ w.at = "complete"
      BY <1>4, <2>1, <3>2 DEF TypeOK, Continues, Complete
    <3>4. Present(w.off) =>
            /\ ~job[j].cancel => j \in gens[w.off]
            /\ j \in gens[w.off] => turn[w.off] = "formed"
      BY <3>1, <3>3 DEF WorkInv, WorkOf
    <3>5. \A o \in Log : o = job[j].pending /\ Present(o)' =>
            /\ ~job'[j].cancel => j \in gens[o]
            /\ j \in gens[o] => turn'[o] = "formed"
      BY <3>1, <3>3, <3>4 DEF Present
    <3>6. MissedBy(j)'
      BY <2>1, <3>1, <3>2, <3>3, <3>5, CheckpointMoves DEF MissedBy
    <3> QED
      BY <1>1, <2>1, <3>2, <3>3, <3>6, RowLetGo
  <2> QED
    BY <2>2, <2>3
<1> QED
  BY <1>0, <1>2, <1>3, <1>4
     DEF Step, NextStops, NextResumes, Find, Read, Publish, PublishSettled, PublishRefused, Finish,
         Fail, Disconnect

\* What the rest of the system does keeps the rows.
LEMMA WorldRows ==
    ASSUME TypeOK, TypeOK', JobInv, NothingMissed, Forward, job' = job
    PROVE  JobInv' /\ NothingMissed'
<1>1. RowsInv'
  BY RowStays DEF RowsInv
<1> QED
  BY <1>1 DEF RowsInv, BoundaryOf, MissedBy, JobInv, NothingMissed

\* Taking a job up keeps the rows.
LEMMA AcquireRows ==
    ASSUME TypeOK, TypeOK', JobInv, NothingMissed, Forward,
           NEW r \in Runners, NEW j \in Jobs, Acquire(r, j)
    PROVE  JobInv' /\ NothingMissed'
<1> USE RebuildAssumption DEF Log, Sources
<1>1. \A i \in Jobs : i # j => job'[i] = job[i]
  BY DEF Acquire, TypeOK
<1>2. BoundaryOf(j)' /\ MissedBy(j)'
  <2>1. CASE job[j] = None
    <3>1. job'[j].through = head - 1 /\ job'[j].after = -1 /\ job'[j].pending = None /\ head' = head
      BY <2>1 DEF Acquire, TypeOK
    <3>2. PassedOver(j)' = {}
      BY <3>1 DEF PassedOver
    <3> QED
      BY <3>1, <3>2 DEF BoundaryOf, MissedBy, TypeOK
  <2>2. CASE job[j] # None
    <3>1. RowOK(job[j])
      BY <2>2, RowOfJob
    <3>2. TakeUp(j, FreshLease).after = job[j].after /\ TakeUp(j, FreshLease).pending = job[j].pending
      BY <3>1 DEF RowOK, JobRow, TakeUp
    <3>3. job'[j] = TakeUp(j, FreshLease)
      BY <2>2 DEF Acquire, TypeOK
    <3> QED
      BY <2>2, <3>2, <3>3, RowStays
  <2> QED
    BY <2>1, <2>2
<1>3. RowsInv'
  BY <1>1, <1>2, RowStays DEF RowsInv
<1> QED
  BY <1>3 DEF RowsInv, BoundaryOf, MissedBy, JobInv, NothingMissed

\* Cancelling a job keeps the rows.
LEMMA CancelRows ==
    ASSUME TypeOK, TypeOK', JobInv, NothingMissed, Forward, NEW j \in Jobs, Cancel(j)
    PROVE  JobInv' /\ NothingMissed'
<1> USE RebuildAssumption DEF Log, Sources
<1>1. PICK k :
        /\ job' = [job EXCEPT ![j] = k]
        /\ k.cancel
        /\ \/ k.pending = job[j].pending /\ k.after = job[j].after /\ turn' = turn
           \/ /\ k.pending = None /\ k.after = job[j].pending /\ job[j].pending # None
              /\ turn' = IF WasPublished(j) THEN Finished(job[j].pending) ELSE turn
  BY CancelShape
<1>2. job[j] # None /\ gens' = gens
  BY DEF Cancel, Active
<1>3. job'[j] = k /\ \A i \in Jobs : i # j => job'[i] = job[i]
  BY <1>1 DEF TypeOK
<1>4. BoundaryOf(j)' /\ MissedBy(j)'
  <2>1. CASE k.pending = job[j].pending /\ k.after = job[j].after
    BY <1>2, <1>3, <2>1, RowStays
  <2>2. CASE /\ k.pending = None /\ k.after = job[j].pending /\ job[j].pending # None
             /\ turn' = IF WasPublished(j) THEN Finished(job[j].pending) ELSE turn
    <3>1. \A o \in Log : o = job[j].pending /\ Present(o)' =>
            /\ ~job'[j].cancel => j \in gens[o]
            /\ j \in gens[o] => turn'[o] = "formed"
      BY <1>1, <1>3, <2>2 DEF WasPublished, Finished, TypeOK
    <3>2. MissedBy(j)'
      BY <1>2, <1>3, <2>2, <3>1, CheckpointMoves DEF MissedBy
    <3> QED
      BY <1>2, <1>3, <2>2, <3>2, RowLetGo
  <2> QED
    BY <1>1, <2>1, <2>2
<1>5. RowsInv'
  BY <1>3, <1>4, RowStays DEF RowsInv
<1> QED
  BY <1>5 DEF RowsInv, BoundaryOf, MissedBy, JobInv, NothingMissed

-----------------------------------------------------------------------------
(* Every step keeps what the processes rely on.                               *)

\* One process moves and the others do not: its lease is the one it had, or none
\* has it.
LEMMA OneMoves ==
    ASSUME TypeOK, TypeOK', SessionInv, WorkInv, Forward, NEW r \in Runners,
           \A s \in Runners : s # r => runner'[s] = runner[s],
           \/ runner'[r].lease \in {None, runner[r].lease}
           \/ \A s \in Runners : runner[s].lease # runner'[r].lease,
           SessionOf(r)' /\ WorkOf(r)'
    PROVE  SessionInv' /\ WorkInv'
<1>1. \A s \in Runners : SessionOf(s)' /\ WorkOf(s)'
  BY Bystander
<1>2. LeasesDiffer'
  BY DEF LeasesDiffer, SessionInv
<1> QED
  BY <1>1, <1>2 DEF SessionInv, WorkInv

\* A process that stops relies on nothing.
LEMMA StopWork ==
    ASSUME TypeOK, TypeOK', SessionInv, WorkInv, Forward, NEW r \in Runners, Stop(r)
    PROVE  SessionInv' /\ WorkInv'
<1>1. runner'[r] = Idle /\ \A s \in Runners : s # r => runner'[s] = runner[s]
  BY StopType
<1>2. SessionOf(r)' /\ WorkOf(r)' /\ runner'[r].lease = None
  BY <1>1 DEF SessionOf, WorkOf, Idle
<1> QED
  BY <1>1, <1>2, OneMoves

\* The fields of a local state that moves on.
LEMMA MoveFields ==
    ASSUME NEW w \in RunnerState
    PROVE  /\ \A a, o, c : LET v == [w EXCEPT !.at = a, !.off = o, !.cancel = c] IN
                /\ v.at = a /\ v.off = o /\ v.cancel = c /\ v.rebuilt = w.rebuilt
                /\ v.issuer = w.issuer /\ v.lease = w.lease
           /\ \A a, n : LET v == [w EXCEPT !.at = a, !.seen = n] IN
                /\ v.at = a /\ v.off = w.off /\ v.issuer = w.issuer /\ v.lease = w.lease
           /\ \A a : LET v == [w EXCEPT !.cancel = FALSE, !.at = a] IN
                /\ v.at = a /\ v.off = w.off /\ v.issuer = w.issuer /\ v.lease = w.lease
                /\ v.cancel = FALSE /\ v.rebuilt = w.rebuilt
           /\ \A b, n : LET v == [w EXCEPT !.at = "complete", !.rebuilt = b, !.seen = n] IN
                /\ v.at = "complete" /\ v.off = w.off /\ v.issuer = w.issuer /\ v.lease = w.lease
                /\ v.rebuilt = b
           /\ LET v == [w EXCEPT !.at = "complete", !.rebuilt = TRUE] IN
                /\ v.at = "complete" /\ v.off = w.off /\ v.issuer = w.issuer /\ v.lease = w.lease
                /\ v.rebuilt
BY DEF RunnerState

\* What a process does keeps what it and the others rely on.
LEMMA StepWork ==
    ASSUME TypeOK, TypeOK', LogInv, JobInv, SessionInv, WorkInv, Forward,
           NEW r \in Runners, Step(r) \/ Fail(r) \/ Disconnect(r)
    PROVE  SessionInv' /\ WorkInv'
<1> USE RebuildAssumption DEF Log, Sources
<1> PICK w, j : w = runner[r] /\ j = w.issuer
  OBVIOUS
<1>0. w \in RunnerState /\ SessionOf(r) /\ WorkOf(r) /\ head \in Nat
  BY DEF TypeOK, SessionInv, WorkInv
<1>1. ASSUME NEW v, runner' = [runner EXCEPT ![r] = v], w.at # "idle", head' = head,
             v.issuer = j, v.lease = w.lease, v.off \in Sources, v.off < head, WorkOf(r)'
      PROVE  SessionInv' /\ WorkInv'
  <2>1. runner'[r] = v /\ \A s \in Runners : s # r => runner'[s] = runner[s]
    BY <1>1 DEF TypeOK
  <2>2. j \in Jobs /\ w.lease \in Leases /\ job'[j] # None
    BY <1>0, <1>1 DEF SessionOf, Forward
  <2>3. SessionOf(r)'
    BY <1>1, <2>1, <2>2 DEF SessionOf
  <2> QED
    BY <1>1, <2>1, <2>3, OneMoves
<1>2. ASSUME NEW v, runner' = [runner EXCEPT ![r] = v]
      PROVE  runner'[r] = v
  BY <1>2 DEF TypeOK
<1>3. ASSUME NEW o \in Sources, o < head, Work(r, o), w.at = "next", UNCHANGED <<head, turn>>,
             job'[j].cancel = job[j].cancel
      PROVE  SessionInv' /\ WorkInv'
  <2> DEFINE v == [w EXCEPT !.at = IF Present(o) THEN "find" ELSE "complete",
                            !.off = o, !.cancel = job[j].cancel]
  <2>1. runner' = [runner EXCEPT ![r] = v]
    BY <1>3, WorkShape
  <2>2. /\ v.at = (IF Present(o) THEN "find" ELSE "complete") /\ v.off = o /\ v.cancel = job[j].cancel
        /\ v.rebuilt = w.rebuilt /\ v.issuer = j /\ v.lease = w.lease
    BY <1>0, MoveFields
  <2>3. PICK u : u = v
    OBVIOUS
  <2> HIDE DEF v
  <2>4. ~w.rebuilt
    BY <1>0, <1>3 DEF WorkOf
  <2>5. runner'[r] = u
    BY <1>2, <2>1, <2>3
  <2>6. WorkOf(r)'
    BY <1>3, <2>2, <2>3, <2>4, <2>5 DEF WorkOf, Present
  <2> QED
    BY <1>1, <1>3, <2>1, <2>2, <2>3, <2>6
<1>4. ASSUME NEW v, runner' = [runner EXCEPT ![r] = v], w.at \notin {"idle", "next"}, head' = head,
             v.off = w.off, v.issuer = j, v.lease = w.lease, WorkOf(r)'
      PROVE  SessionInv' /\ WorkInv'
  <2>1. w.off \in Sources /\ w.off < head
    BY <1>0, <1>4 DEF SessionOf
  <2> QED
    BY <1>1, <1>4, <2>1
<1>5. CASE Stop(r)
  BY <1>5, StopWork
<1>6. CASE NextResumes(r)
  <2>1. j \in Jobs /\ job[j] # None /\ job[j].pending # None /\ w.at = "next"
        /\ Work(r, job[j].pending) /\ UNCHANGED <<head, turn, job>>
    BY <1>0, <1>6 DEF NextResumes, SessionOf
  <2>2. job[j].pending \in Sources /\ job[j].pending <= job[j].through /\ job[j].through < head
        /\ job[j].through \in Int
    BY <2>1 DEF TypeOK, JobInv, JobRow
  <2>3. PICK o \in Sources : o = job[j].pending
    BY <2>2
  <2>4. o < head /\ Work(r, o)
    BY <1>0, <2>1, <2>2, <2>3
  <2> QED
    BY <1>3, <2>1, <2>4
<1>7. CASE NextReserves(r)
  <2>1. PICK o, k : /\ o \in Ahead(j)
                    /\ j \in Jobs /\ job[j] # None
                    /\ Continues(k, j) /\ job' = [job EXCEPT ![j] = k] /\ Work(r, o)
    BY <1>7, ReserveShape
  <2>2. job'[j].cancel = job[j].cancel
    BY <2>1 DEF Continues, TypeOK
  <2>3. o \in Sources /\ o < head /\ w.at = "next" /\ UNCHANGED <<head, turn>>
    <3>1. o \in Sources /\ Present(o) /\ w.at = "next" /\ UNCHANGED <<head, turn>>
      BY <1>7, <2>1 DEF NextReserves, Ahead
    <3> QED
      BY <1>0, <3>1 DEF LogInv, Present
  <2> QED
    BY <1>3, <2>1, <2>2, <2>3
<1>8. CASE Find(r)
  <2> DEFINE a == CASE j \in gens[w.off] -> "finish"
                    [] j \notin gens[w.off] /\ w.cancel -> "complete"
                    [] OTHER -> "read"
             v == [w EXCEPT !.cancel = FALSE, !.at = a]
  <2>1. runner' = [runner EXCEPT ![r] = v] /\ w.at = "find" /\ UNCHANGED <<head, turn, gens, job>>
    BY <1>8 DEF Find, TypeOK
  <2>2. v.at = a /\ v.off = w.off /\ v.issuer = j /\ v.lease = w.lease /\ v.rebuilt = w.rebuilt
    BY <1>0, MoveFields
  <2>3. PICK u : u = v
    OBVIOUS
  <2>4. /\ a \in {"finish", "complete", "read"} /\ (a = "finish" => j \in gens[w.off])
        /\ (a # "finish" => j \notin gens[w.off]) /\ (a = "complete" => w.cancel)
    OBVIOUS
  <2> HIDE DEF v, a
  <2>5. runner'[r] = u /\ ~w.rebuilt /\ (w.cancel => job[j].cancel)
    BY <1>0, <1>2, <2>1, <2>3 DEF WorkOf
  <2>6. WorkOf(r)'
    BY <2>1, <2>2, <2>3, <2>4, <2>5 DEF WorkOf, Present
  <2> QED
    BY <1>4, <2>1, <2>2, <2>3, <2>6
<1>9. ASSUME Skip(r), w.at \notin {"idle", "next"}, UNCHANGED <<head, turn>>, ~Present(w.off)
      PROVE  SessionInv' /\ WorkInv'
  <2> DEFINE v == [w EXCEPT !.at = "complete", !.rebuilt = FALSE, !.seen = None]
  <2>1. runner' = [runner EXCEPT ![r] = v]
    BY <1>9 DEF Skip, TypeOK
  <2>2. v.at = "complete" /\ v.off = w.off /\ v.issuer = j /\ v.lease = w.lease
    BY <1>0, MoveFields
  <2>3. PICK u : u = v
    OBVIOUS
  <2> HIDE DEF v
  <2>4. runner'[r] = u
    BY <1>2, <2>1, <2>3
  <2>5. WorkOf(r)'
    BY <1>9, <2>2, <2>3, <2>4 DEF WorkOf, Present
  <2> QED
    BY <1>4, <1>9, <2>1, <2>2, <2>3, <2>5
<1>10. ASSUME NEW a \in {"apply", "finish"}, NEW n, w.at \notin {"idle", "next"},
              runner' = [runner EXCEPT ![r] = [w EXCEPT !.at = a, !.seen = n]], head' = head,
              a = "finish" => j \in gens'[w.off]
       PROVE  SessionInv' /\ WorkInv'
  <2>1. PICK u : u = [w EXCEPT !.at = a, !.seen = n]
    OBVIOUS
  <2>2. u.at = a /\ u.off = w.off /\ u.issuer = j /\ u.lease = w.lease
    BY <1>0, <2>1, MoveFields
  <2>3. runner' = [runner EXCEPT ![r] = u] /\ runner'[r] = u
    BY <1>2, <1>10, <2>1
  <2>4. WorkOf(r)'
    BY <1>10, <2>2, <2>3 DEF WorkOf
  <2> QED
    BY <1>4, <1>10, <2>2, <2>3, <2>4
<1>11. CASE Read(r)
  <2>1. CASE runner' = [runner EXCEPT ![r].at = "apply", ![r].seen = digest[w.off]]
    <3>1. runner' = [runner EXCEPT ![r] = [w EXCEPT !.at = "apply", !.seen = digest[w.off]]]
          /\ w.at = "read" /\ head' = head
      BY <1>11, <2>1 DEF TypeOK, Read
    <3> QED
      BY <1>10, <3>1
  <2>2. CASE ~(Present(w.off) /\ w.off \in Sources) /\ Skip(r)
    <3>1. w.off \in Sources /\ w.at = "read" /\ UNCHANGED <<head, turn>>
      BY <1>0, <1>11 DEF Read, SessionOf
    <3> QED
      BY <1>9, <2>2, <3>1
  <2> QED
    BY <1>11, <2>1, <2>2 DEF Read
<1>12. CASE Publish(r)
  <2>1. runner' = [runner EXCEPT ![r] = [w EXCEPT !.at = "finish", !.seen = None]]
    BY <1>12, PublishShape
  <2>2. w.at = "apply" /\ head' = head /\ gens' = [gens EXCEPT ![w.off] = @ \cup {j}] /\ w.off \in Log
    BY <1>0, <1>12 DEF Publish, SessionOf
  <2>3. j \in gens'[w.off]
    BY <2>2 DEF TypeOK
  <2> QED
    BY <1>10, <2>1, <2>2, <2>3
<1>13. CASE PublishSettled(r)
  <2>1. w.at = "apply" /\ UNCHANGED <<head, turn, gens>>
    BY <1>13 DEF PublishSettled
  <2>2. CASE j \in gens[w.off] /\ runner' = [runner EXCEPT ![r].at = "finish", ![r].seen = None]
    <3>1. runner' = [runner EXCEPT ![r] = [w EXCEPT !.at = "finish", !.seen = None]]
      BY <2>2 DEF TypeOK
    <3> QED
      BY <1>10, <2>1, <2>2, <3>1
  <2>3. CASE ~Present(w.off) /\ Skip(r)
    BY <1>9, <2>1, <2>3
  <2> QED
    BY <1>13, <2>2, <2>3 DEF PublishSettled
<1>14. CASE Finish(r)
  <2>1. w.at = "finish" /\ head' = head /\ gens' = gens /\ w.off \in Log
    BY <1>0, <1>14 DEF Finish, SessionOf
  <2>2. CASE Present(w.off) /\ turn' = Finished(w.off)
             /\ runner' = [runner EXCEPT ![r].at = "complete", ![r].rebuilt = TRUE]
    <3>1. PICK u : u = [w EXCEPT !.at = "complete", !.rebuilt = TRUE]
      OBVIOUS
    <3>2. runner' = [runner EXCEPT ![r] = u]
      BY <2>2, <3>1 DEF TypeOK
    <3>3. u.at = "complete" /\ u.off = w.off /\ u.issuer = j /\ u.lease = w.lease /\ u.rebuilt
      BY <1>0, <3>1, MoveFields
    <3>4. runner'[r] = u /\ turn'[w.off] = "formed" /\ j \in gens'[w.off]
      BY <1>0, <1>2, <2>1, <2>2, <3>2 DEF Finished, TypeOK, WorkOf
    <3>5. WorkOf(r)'
      BY <3>3, <3>4 DEF WorkOf
    <3> QED
      BY <1>4, <2>1, <3>2, <3>3, <3>5
  <2>3. CASE ~Present(w.off) /\ Skip(r) /\ turn' = turn
    BY <1>9, <2>1, <2>3
  <2> QED
    BY <1>14, <2>2, <2>3 DEF Finish
<1>15. CASE /\ w.at = "complete"
            /\ runner' = [runner EXCEPT ![r] = [Idle EXCEPT !.at = "next", !.issuer = j, !.lease = w.lease]]
  <2>1. PICK u : u = [Idle EXCEPT !.at = "next", !.issuer = j, !.lease = w.lease]
    OBVIOUS
  <2>2. u.at = "next" /\ u.issuer = j /\ u.lease = w.lease /\ ~u.rebuilt
    BY <2>1 DEF Idle
  <2>3. runner'[r] = u /\ \A s \in Runners : s # r => runner'[s] = runner[s]
    BY <1>15, <2>1 DEF TypeOK
  <2>4. SessionOf(r)'
    <3>1. j \in Jobs /\ w.lease \in Leases /\ job'[j] # None
      BY <1>0, <1>15 DEF SessionOf, Forward
    <3> QED
      BY <2>2, <2>3, <3>1 DEF SessionOf
  <2>5. WorkOf(r)'
    BY <2>2, <2>3 DEF WorkOf
  <2> QED
    BY <2>2, <2>3, <2>4, <2>5, OneMoves
<1>16. CASE Disconnect(r)
  <2>1. runner' = runner
    BY <1>16 DEF Disconnect
  <2>2. SessionOf(r)' /\ WorkOf(r)'
    BY <2>1, Bystander
  <2> QED
    BY <2>1, <2>2, OneMoves
<1> QED
  BY <1>5, <1>6, <1>7, <1>8, <1>11, <1>12, <1>13, <1>14, <1>15, <1>16
     DEF Step, NextStops, NextSettles, PublishRefused, Complete, Fail

\* What the rest of the system does keeps what the processes rely on.
LEMMA WorldWork ==
    ASSUME TypeOK, TypeOK', SessionInv, WorkInv, Forward, runner' = runner
    PROVE  SessionInv' /\ WorkInv'
<1>1. \A s \in Runners : SessionOf(s)' /\ WorkOf(s)'
  BY Bystander
<1> QED
  BY <1>1 DEF SessionInv, WorkInv, LeasesDiffer

\* A process that takes a job up has a lease that no other has.
LEMMA AcquireWork ==
    ASSUME TypeOK, TypeOK', SessionInv, WorkInv, Forward,
           NEW r \in Runners, NEW j \in Jobs, Acquire(r, j)
    PROVE  SessionInv' /\ WorkInv'
<1>1. PICK u : u = [Idle EXCEPT !.at = "next", !.issuer = j, !.lease = FreshLease]
  OBVIOUS
<1>2. u.at = "next" /\ u.issuer = j /\ u.lease = FreshLease /\ ~u.rebuilt
  BY <1>1 DEF Idle
<1>3. runner'[r] = u /\ \A s \in Runners : s # r => runner'[s] = runner[s]
  BY <1>1 DEF Acquire, TypeOK
<1>4. FreshLease \in Leases /\ \A s \in Runners : runner[s].lease # FreshLease
  BY LeaseIsFresh DEF Acquire
<1>5. job'[j] # None
  <2>1. CASE job[j] # None
    BY <2>1 DEF Forward
  <2>2. CASE job[j] = None
    <3>1. PICK k : k = [through |-> head - 1, after |-> -1, pending |-> None, rebuilt |-> 0,
                   skipped |-> 0, cancel |-> FALSE, lease |-> FreshLease, status |-> "active"]
      OBVIOUS
    <3>2. job'[j] = k
      BY <2>2, <3>1 DEF Acquire, TypeOK
    <3>3. head \in Nat /\ head <= MaxHead
      BY RebuildAssumption DEF TypeOK
    <3>4. k \in JobRow
      BY <1>4, <3>1, <3>3, RebuildAssumption DEF JobRow, Log
    <3> QED
      BY <3>2, <3>4, RowAssumption
  <2> QED
    BY <2>1, <2>2
<1>6. SessionOf(r)' /\ WorkOf(r)'
  BY <1>2, <1>3, <1>4, <1>5 DEF SessionOf, WorkOf
<1> QED
  BY <1>2, <1>3, <1>4, <1>6, OneMoves

-----------------------------------------------------------------------------
(* The theorems.                                                              *)

\* The invariant holds at the start.
LEMMA InitInv == Init => IInv
<1> SUFFICES ASSUME Init PROVE IInv
  OBVIOUS
<1>1. TypeOK
  BY InitType
<1>2. LogInv
  BY RebuildAssumption DEF Init, LogInv, Log, Appended, Present
<1>3. JobInv /\ NothingMissed
  BY DEF Init, JobInv, NothingMissed
<1>4. SessionInv /\ WorkInv
  BY DEF Init, SessionInv, SessionOf, LeasesDiffer, WorkInv, WorkOf, Idle
<1> QED
  BY <1>1, <1>2, <1>3, <1>4 DEF IInv

\* Every step keeps the invariant.
LEMMA NextInv == IInv /\ [Next]_vars => IInv'
<1> SUFFICES ASSUME IInv, [Next]_vars PROVE IInv'
  OBVIOUS
<1> USE DEF IInv
<1>1. ASSUME NEW r \in Runners, Step(r) \/ Fail(r) \/ Disconnect(r)
      PROVE  IInv'
  <2>1. TypeOK' /\ Forward /\ LogInv'
    BY <1>1, StepType, StepForward
  <2>2. JobInv' /\ NothingMissed'
    BY <1>1, <2>1, StepRows
  <2>3. SessionInv' /\ WorkInv'
    BY <1>1, <2>1, StepWork
  <2> QED
    BY <2>1, <2>2, <2>3
<1>2. ASSUME NEW r \in Runners, NEW j \in Jobs, Acquire(r, j)
      PROVE  IInv'
  <2>1. TypeOK' /\ Forward /\ LogInv'
    BY <1>2, AcquireType, AcquireForward
  <2> QED
    BY <1>2, <2>1, AcquireRows, AcquireWork
<1>3. ASSUME NEW j \in Jobs, Cancel(j)
      PROVE  IInv'
  <2>1. TypeOK' /\ Forward /\ LogInv'
    BY <1>3, CancelType, CancelForward
  <2>2. runner' = runner
    BY <1>3 DEF Cancel
  <2> QED
    BY <1>3, <2>1, <2>2, CancelRows, WorldWork
<1>4. CASE \/ \E k \in Requests, o \in Log : SourceRebuild(k, o) \/ SourceFinish(k, o)
           \/ \E o \in Log : Form(o) \/ Park(o) \/ Erase(o) \/ Edit(o)
           \/ Append
  <2>1. TypeOK' /\ Forward /\ LogInv'
    BY <1>4, WorldType, WorldForward
  <2>2. job' = job /\ runner' = runner
    BY <1>4 DEF SourceRebuild, SourceFinish, Form, Park, Erase, Edit, Append
  <2> QED
    BY <2>1, <2>2, WorldRows, WorldWork
<1>5. CASE UNCHANGED vars
  BY <1>5 DEF vars, TypeOK, LogInv, JobInv, SessionInv, SessionOf, LeasesDiffer, WorkInv, WorkOf,
              NothingMissed, PassedOver, Present, Owns, Active
<1> QED
  BY <1>1, <1>2, <1>3, <1>4, <1>5 DEF Next

\* The invariant holds of every behaviour.
THEOREM Invariant == Spec => []IInv
BY InitInv, NextInv, PTL DEF Spec

\* The rows the code writes satisfy the tables' own constraints: a checkpoint
\* within its boundary, a pending offset ahead of it and only while the job is
\* active, and one active job a project, whatever runner wrote them.
THEOREM TypeCorrect == Spec => []TypeOK
<1>1. IInv => TypeOK
  BY DEF IInv
<1> QED
  BY <1>1, Invariant, PTL

\* A job that nobody cancelled leaves no source behind, and one that was
\* cancelled leaves none half finished, however many runners died, stalled,
\* lost their session or were replaced on the way.
THEOREM NoSourceMissed == Spec => []NothingMissed
<1>1. IInv => NothingMissed
  BY DEF IInv
<1> QED
  BY <1>1, Invariant, PTL

\* A process that reads a source with the job's lease still in hand reads one
\* that the job has not published: a lost session or a second runner costs no
\* inference call for work that is done.
THEOREM OneInferenceEach == Spec => OneInference
<1>1. IInv /\ [Next]_vars => [\A r \in Runners :
        /\ runner[r].at = "read" /\ runner'[r].at = "apply"
        /\ Owns(r)
        => runner[r].issuer \notin gens[runner[r].off]]_vars
  BY DEF IInv, WorkInv, WorkOf
<1> QED
  BY <1>1, Invariant, PTL DEF Spec, OneInference

\* The lease is the fence: of the processes that work on a job at most one has
\* the lease in its row.
THEOREM OneOwner ==
    Spec => [](\A r, s \in Runners :
                 /\ runner[r].at # "idle" /\ runner[s].at # "idle"
                 /\ runner[r].issuer = runner[s].issuer
                 /\ Owns(r) /\ Owns(s)
                 => r = s)
<1> DEFINE P == \A r, s \in Runners :
                 /\ runner[r].at # "idle" /\ runner[s].at # "idle"
                 /\ runner[r].issuer = runner[s].issuer
                 /\ Owns(r) /\ Owns(s)
                 => r = s
<1>1. IInv => P
  BY RebuildAssumption DEF IInv, SessionInv, SessionOf, LeasesDiffer, Owns
<1> QED
  BY <1>1, Invariant, PTL

-----------------------------------------------------------------------------
(* The totals.                                                                *)

\* The sources a job has passed and that are still there, and those it published.
Here(j) == {o \in PassedOver(j) : Present(o)}
Done(j) == {o \in Here(j) : j \in gens[o]}

\* What CountsWhatItPublished asks of one job, as numbers: d published and h present
\* of p passed.
Numbers(n, m, d, h, p) ==
    /\ d <= n /\ n <= d + p - h
    /\ h - d <= m /\ m <= p - d
    /\ h <= n + m /\ n + m <= p

CountOf(j) == Numbers(job[j].rebuilt, job[j].skipped, Cardinality(Done(j)),
                      Cardinality(Here(j)), Cardinality(PassedOver(j)))

\* The parts of a finite set are counted by subtraction.
LEMMA PartsCount ==
    ASSUME NEW P, IsFiniteSet(P), NEW H \in SUBSET P, NEW D \in SUBSET H
    PROVE  /\ Cardinality(P) \in Nat /\ Cardinality(H) \in Nat /\ Cardinality(D) \in Nat
           /\ Cardinality(D) <= Cardinality(H) /\ Cardinality(H) <= Cardinality(P)
           /\ Cardinality(D \cup (P \ H)) = Cardinality(D) + Cardinality(P) - Cardinality(H)
           /\ Cardinality(H \ D) = Cardinality(H) - Cardinality(D)
           /\ Cardinality(P \ D) = Cardinality(P) - Cardinality(D)
<1>1. IsFiniteSet(H) /\ IsFiniteSet(D) /\ IsFiniteSet(P \ H)
  BY FS_Subset
<1>2. /\ Cardinality(P) \in Nat /\ Cardinality(H) \in Nat /\ Cardinality(D) \in Nat
      /\ Cardinality(D) <= Cardinality(H) /\ Cardinality(H) <= Cardinality(P)
  BY <1>1, FS_Subset, FS_CardinalityType
<1>3. /\ Cardinality(P \ H) = Cardinality(P) - Cardinality(P \cap H)
      /\ Cardinality(H \ D) = Cardinality(H) - Cardinality(H \cap D)
      /\ Cardinality(P \ D) = Cardinality(P) - Cardinality(P \cap D)
  BY <1>1, FS_Difference
<1>4. P \cap H = H /\ H \cap D = D /\ P \cap D = D /\ D \cap (P \ H) = {}
  OBVIOUS
<1>5. Cardinality(D \cup (P \ H)) =
         Cardinality(D) + Cardinality(P \ H) - Cardinality(D \cap (P \ H))
  BY <1>1, FS_Union
<1>6. Cardinality(D \cap (P \ H)) = 0
  BY <1>4, FS_EmptySet
<1>7. /\ Cardinality(P \ H) = Cardinality(P) - Cardinality(H)
      /\ Cardinality(H \ D) = Cardinality(H) - Cardinality(D)
      /\ Cardinality(P \ D) = Cardinality(P) - Cardinality(D)
  BY <1>3, <1>4
<1>8. Cardinality(D \cup (P \ H)) = Cardinality(D) + Cardinality(P) - Cardinality(H)
  BY <1>2, <1>5, <1>6, <1>7
<1> QED BY <1>2, <1>7, <1>8

\* The totals stay true when passed sources are erased and the checkpoint moves over
\* sources that are gone.
LEMMA FewerStay ==
    ASSUME NEW P, IsFiniteSet(P), NEW H \in SUBSET P, NEW D \in SUBSET H,
           NEW Q, IsFiniteSet(Q), NEW G \in SUBSET Q, NEW E \in SUBSET G,
           P \subseteq Q, G \subseteq H, E = D \cap G, NEW n \in Nat, NEW m \in Nat,
           Numbers(n, m, Cardinality(D), Cardinality(H), Cardinality(P))
    PROVE  Numbers(n, m, Cardinality(E), Cardinality(G), Cardinality(Q))
<1>1. /\ Cardinality(P) \in Nat /\ Cardinality(H) \in Nat /\ Cardinality(D) \in Nat
      /\ Cardinality(Q) \in Nat /\ Cardinality(G) \in Nat /\ Cardinality(E) \in Nat
      /\ Cardinality(G) <= Cardinality(Q) /\ Cardinality(E) <= Cardinality(G)
  BY PartsCount
<1>2. Cardinality(P) <= Cardinality(Q)
  BY FS_Subset
<1>3. IsFiniteSet(H) /\ IsFiniteSet(D) /\ IsFiniteSet(H \ G)
  BY FS_Subset
<1>4. /\ Cardinality(H \ G) = Cardinality(H) - Cardinality(G)
      /\ Cardinality(D \ E) = Cardinality(D) - Cardinality(E)
  <2>1. H \cap G = G /\ D \cap E = E
    OBVIOUS
  <2>2. /\ Cardinality(H \ G) = Cardinality(H) - Cardinality(H \cap G)
        /\ Cardinality(D \ E) = Cardinality(D) - Cardinality(D \cap E)
    BY <1>3, FS_Difference
  <2> QED BY <2>1, <2>2
<1>5. D \ E \subseteq H \ G /\ E \subseteq D
  OBVIOUS
<1>6. Cardinality(D \ E) <= Cardinality(H \ G) /\ Cardinality(E) <= Cardinality(D)
  BY <1>3, <1>5, FS_Subset
<1> QED BY <1>1, <1>2, <1>4, <1>6 DEF Numbers

\* A source that the checkpoint passes is counted once: as rebuilt when the job
\* published it, as skipped when it is there and was not, and as either when it is gone.
LEMMA OneIsCounted ==
    ASSUME NEW P, IsFiniteSet(P), NEW H \in SUBSET P, NEW D \in SUBSET H,
           NEW Q, IsFiniteSet(Q), NEW x \in Q \ P, P \subseteq Q,
           NEW n \in Nat, NEW m \in Nat,
           Numbers(n, m, Cardinality(D), Cardinality(H), Cardinality(P))
    PROVE  /\ Numbers(n + 1, m, Cardinality(D \cup {x}), Cardinality(H \cup {x}), Cardinality(Q))
           /\ Numbers(n, m + 1, Cardinality(D), Cardinality(H \cup {x}), Cardinality(Q))
           /\ Numbers(n + 1, m, Cardinality(D), Cardinality(H), Cardinality(Q))
           /\ Numbers(n, m + 1, Cardinality(D), Cardinality(H), Cardinality(Q))
<1>1. /\ Cardinality(P) \in Nat /\ Cardinality(H) \in Nat /\ Cardinality(D) \in Nat
      /\ Cardinality(D) <= Cardinality(H) /\ Cardinality(H) <= Cardinality(P)
  BY PartsCount
<1>2. IsFiniteSet(H) /\ IsFiniteSet(D)
  BY FS_Subset
<1>3. /\ Cardinality(D \cup {x}) = Cardinality(D) + 1
      /\ Cardinality(H \cup {x}) = Cardinality(H) + 1
      /\ Cardinality(P \cup {x}) = Cardinality(P) + 1
  BY <1>2, FS_AddElement
<1>4. P \cup {x} \in SUBSET Q
  OBVIOUS
<1>5. Cardinality(P) + 1 <= Cardinality(Q) /\ Cardinality(Q) \in Nat
  BY <1>3, <1>4, FS_Subset, FS_CardinalityType
<1> QED BY <1>1, <1>3, <1>5 DEF Numbers

LEMMA LogIsFinite == ASSUME NEW S \in SUBSET Sources PROVE IsFiniteSet(S)
<1>1. IsFiniteSet(Log)
  BY RebuildAssumption, FS_Interval DEF Log
<1>2. S \in SUBSET Log
  BY DEF Sources
<1> QED BY <1>1, <1>2, FS_Subset

LEMMA PassedIsFinite ==
    ASSUME TypeOK, NEW j \in Jobs, job[j] # None
    PROVE  /\ IsFiniteSet(PassedOver(j))
           /\ Here(j) \in SUBSET PassedOver(j) /\ Done(j) \in SUBSET Here(j)
           /\ job[j].rebuilt \in Nat /\ job[j].skipped \in Nat
<1>1. IsFiniteSet(PassedOver(j))
  BY LogIsFinite DEF PassedOver
<1>2. job[j].rebuilt \in Nat /\ job[j].skipped \in Nat
  BY DEF TypeOK, JobRow
<1> QED BY <1>1, <1>2 DEF Here, Done

\* The property says of every job what CountOf says.
LEMMA CountsAreNumbers ==
    ASSUME TypeOK
    PROVE  CountsWhatItPublished <=> \A j \in Jobs : job[j] # None => CountOf(j)
<1> SUFFICES ASSUME NEW j \in Jobs, job[j] # None
             PROVE  LET here == {o \in PassedOver(j) : Present(o)}
                        done == {o \in here : j \in gens[o]}
                        gone == PassedOver(j) \ here
                    IN CountOf(j) <=>
                    /\ job[j].rebuilt \in Cardinality(done) .. Cardinality(done \cup gone)
                    /\ job[j].skipped \in Cardinality(here \ done) .. Cardinality(PassedOver(j) \ done)
                    /\ job[j].rebuilt + job[j].skipped \in Cardinality(here) .. Cardinality(PassedOver(j))
  BY DEF CountsWhatItPublished
<1> DEFINE P == PassedOver(j)
           n == job[j].rebuilt
           m == job[j].skipped
<1>1. /\ IsFiniteSet(P) /\ Here(j) \in SUBSET P /\ Done(j) \in SUBSET Here(j)
      /\ n \in Nat /\ m \in Nat
  BY PassedIsFinite
<1>2. /\ {o \in P : Present(o)} = Here(j)
      /\ {o \in Here(j) : j \in gens[o]} = Done(j)
  BY DEF Here, Done
<1>3. CountOf(j) <=> Numbers(n, m, Cardinality(Done(j)), Cardinality(Here(j)), Cardinality(P))
  BY DEF CountOf
<1> HIDE DEF P, n, m
<1>4. /\ Cardinality(P) \in Nat /\ Cardinality(Here(j)) \in Nat /\ Cardinality(Done(j)) \in Nat
      /\ Cardinality(Done(j) \cup (P \ Here(j))) =
            Cardinality(Done(j)) + Cardinality(P) - Cardinality(Here(j))
      /\ Cardinality(Here(j) \ Done(j)) = Cardinality(Here(j)) - Cardinality(Done(j))
      /\ Cardinality(P \ Done(j)) = Cardinality(P) - Cardinality(Done(j))
  BY <1>1, PartsCount
<1>5. CountOf(j) <=>
        /\ n \in Cardinality(Done(j)) .. Cardinality(Done(j) \cup (P \ Here(j)))
        /\ m \in Cardinality(Here(j) \ Done(j)) .. Cardinality(P \ Done(j))
        /\ n + m \in Cardinality(Here(j)) .. Cardinality(P)
  BY <1>1, <1>3, <1>4 DEF Numbers
<1> QED BY <1>2, <1>5 DEF P, n, m

\* A row whose totals stay, and whose checkpoint moves over sources that are gone at most.
LEMMA TotalsStay ==
    ASSUME IInv, TypeOK', Forward, NEW j \in Jobs, job[j] # None, CountOf(j),
           job'[j].rebuilt = job[j].rebuilt, job'[j].skipped = job[j].skipped,
           job[j].after <= job'[j].after,
           \A o \in Sources : o > job[j].after /\ o <= job'[j].after => ~Present(o)'
    PROVE  CountOf(j)'
<1>0. job'[j] # None /\ job[j].after \in Int /\ job'[j].after \in Int /\ Sources \subseteq Int
  BY RebuildAssumption DEF Forward, IInv, TypeOK, JobRow, Log, Sources
<1>1. /\ IsFiniteSet(PassedOver(j))
      /\ Here(j) \in SUBSET PassedOver(j) /\ Done(j) \in SUBSET Here(j)
      /\ job[j].rebuilt \in Nat /\ job[j].skipped \in Nat
  BY PassedIsFinite DEF IInv
<1>2. /\ IsFiniteSet(PassedOver(j)')
      /\ Here(j)' \in SUBSET PassedOver(j)' /\ Done(j)' \in SUBSET Here(j)'
  <2>1. PassedOver(j)' \in SUBSET Sources
    BY DEF PassedOver
  <2> QED BY <2>1, LogIsFinite DEF Here, Done
<1>3. PassedOver(j) \subseteq PassedOver(j)'
  <2> SUFFICES ASSUME NEW o \in Sources, o <= job[j].after PROVE o <= job'[j].after
    BY DEF PassedOver
  <2> QED BY <1>0
<1>4. \A o \in PassedOver(j) : o \in Log /\ o < head
  <2> SUFFICES ASSUME NEW o \in PassedOver(j) PROVE o \in Log /\ o < head
    OBVIOUS
  <2>1. o \in Log /\ o \in Int /\ o <= job[j].after
    BY <1>0 DEF PassedOver, Sources
  <2>2. job[j].after <= job[j].through /\ job[j].through < head
    BY DEF IInv, JobInv, TypeOK
  <2>3. job[j].through \in Int /\ head \in Int
    BY RebuildAssumption DEF IInv, TypeOK, JobRow, Log
  <2> QED BY <1>0, <2>1, <2>2, <2>3
<1>5. Here(j)' \subseteq Here(j)
  <2> SUFFICES ASSUME NEW o \in Here(j)' PROVE o \in Here(j)
    OBVIOUS
  <2>1. o \in Sources /\ o <= job'[j].after /\ Present(o)'
    BY DEF Here, PassedOver
  <2>2. o <= job[j].after
    BY <1>0, <2>1
  <2>3. o \in PassedOver(j)
    BY <2>1, <2>2 DEF PassedOver
  <2> QED BY <1>4, <2>1, <2>3 DEF Here, Forward
<1>6. \A o \in Here(j)' : j \in gens'[o] <=> j \in gens[o]
  <2> SUFFICES ASSUME NEW o \in Here(j)' PROVE j \in gens'[o] <=> j \in gens[o]
    OBVIOUS
  <2>1. o \in Log /\ o < head /\ Present(o)' /\ o <= job[j].after /\ o \in Int
    BY <1>0, <1>4, <1>5 DEF Here, PassedOver
  <2>2. j \in gens[o] => j \in gens'[o]
    BY <2>1 DEF Forward
  <2>3. ASSUME j \in gens'[o], j \notin gens[o] PROVE FALSE
    <3>1. PICK r \in Runners : runner[r].issuer = j /\ runner[r].off = o /\ Guarded(r)
      BY <2>1, <2>3 DEF Forward
    <3>2. job[j].pending = o /\ o # None
      BY <2>1, <3>1, RebuildAssumption DEF Guarded
    <3>3. job[j].pending > job[j].after
      BY <3>2 DEF IInv, TypeOK
    <3> QED BY <1>0, <2>1, <3>2, <3>3
  <2> QED BY <2>2, <2>3
<1>7. Done(j)' = Done(j) \cap Here(j)'
  BY <1>5, <1>6 DEF Done
<1>8. Numbers(job[j].rebuilt, job[j].skipped, Cardinality(Done(j)'), Cardinality(Here(j)'),
              Cardinality(PassedOver(j)'))
  <2>1. Numbers(job[j].rebuilt, job[j].skipped, Cardinality(Done(j)),
                Cardinality(Here(j)), Cardinality(PassedOver(j)))
    BY DEF CountOf
  <2> DEFINE n == job[j].rebuilt
             m == job[j].skipped
             P == PassedOver(j)
             H == Here(j)
             D == Done(j)
  <2>2. \A Q, K, L : IsFiniteSet(Q) /\ P \subseteq Q /\ K \in SUBSET Q /\ K \subseteq H /\ L = D \cap K
            => Numbers(n, m, Cardinality(L), Cardinality(K), Cardinality(Q))
    <3>1. /\ IsFiniteSet(P) /\ H \in SUBSET P /\ D \in SUBSET H /\ n \in Nat /\ m \in Nat
          /\ Numbers(n, m, Cardinality(D), Cardinality(H), Cardinality(P))
      BY <1>1, <2>1
    <3> HIDE DEF n, m, P, H, D
    <3> QED BY <3>1, FewerStay
  <2> QED BY <1>2, <1>3, <1>5, <1>7, <2>2
<1> QED BY <1>8 DEF CountOf

\* Passed adds one to the totals, and says which.
LEMMA PassedCounts ==
    ASSUME TypeOK, NEW j \in Jobs, job[j] # None, NEW b \in BOOLEAN
    PROVE  /\ Passed(j, b).rebuilt = job[j].rebuilt + (IF b THEN 1 ELSE 0)
           /\ Passed(j, b).skipped = job[j].skipped + (IF b THEN 0 ELSE 1)
BY DEF Passed, TypeOK, JobRow

\* A row whose checkpoint moves to its pending source: counted as rebuilt when the job
\* published it, where it is still there.
LEMMA TotalsMove ==
    ASSUME IInv, TypeOK', NEW j \in Jobs, job[j] # None, job[j].pending # None, CountOf(j),
           gens' = gens, \A o \in Log : Present(o)' <=> Present(o),
           job'[j] # None, job'[j].after = job[j].pending, NEW b \in BOOLEAN,
           job'[j].rebuilt = job[j].rebuilt + (IF b THEN 1 ELSE 0),
           job'[j].skipped = job[j].skipped + (IF b THEN 0 ELSE 1),
           Present(job[j].pending) => (b <=> j \in gens[job[j].pending])
    PROVE  CountOf(j)'
<1> SUFFICES ASSUME NEW x, x = job[j].pending PROVE CountOf(j)'
  OBVIOUS
<1>0. /\ job[j].after \in Int /\ x \in Sources /\ Sources \subseteq Int /\ Sources \subseteq Log
      /\ x > job[j].after
      /\ \A o \in Sources : o > job[j].after /\ o < x => ~Present(o)
  <2>1. x \in Sources /\ \A o \in Sources : o > job[j].after /\ o < x => ~Present(o)
    BY DEF IInv, JobInv
  <2>2. job[j].after \in Int /\ x > job[j].after
    BY RebuildAssumption DEF IInv, TypeOK, JobRow, Log
  <2>3. Sources \subseteq Int /\ Sources \subseteq Log
    BY RebuildAssumption DEF Sources, Log
  <2> QED BY <2>1, <2>2, <2>3
<1>1. /\ IsFiniteSet(PassedOver(j))
      /\ Here(j) \in SUBSET PassedOver(j) /\ Done(j) \in SUBSET Here(j)
      /\ job[j].rebuilt \in Nat /\ job[j].skipped \in Nat
  BY PassedIsFinite DEF IInv
<1>2. IsFiniteSet(PassedOver(j)')
  <2>1. PassedOver(j)' \in SUBSET Sources
    BY DEF PassedOver
  <2> QED BY <2>1, LogIsFinite
<1>3. PassedOver(j) \subseteq PassedOver(j)' /\ x \in PassedOver(j)' \ PassedOver(j)
  <2>1. PassedOver(j)' = {o \in Sources : o <= x}
    BY DEF PassedOver
  <2>4. x \in Int
    BY <1>0
  <2>2. \A o \in Sources : o <= job[j].after => o <= x
    <3> SUFFICES ASSUME NEW o \in Sources, o <= job[j].after PROVE o <= x
      OBVIOUS
    <3>1. o \in Int
      BY <1>0
    <3> QED BY <1>0, <2>4, <3>1
  <2>3. ~(x <= job[j].after) /\ x <= x
    BY <1>0, <2>4
  <2> QED BY <1>0, <2>1, <2>2, <2>3 DEF PassedOver
<1>4. ASSUME NEW o \in PassedOver(j)', o # x, Present(o) PROVE o \in PassedOver(j)
  <2>1. o \in Sources /\ o <= x /\ o \in Int
    <3>1. PassedOver(j)' = {i \in Sources : i <= x}
      BY DEF PassedOver
    <3> QED BY <1>0, <3>1
  <2>4. x \in Int
    BY <1>0
  <2>2. o < x
    BY <1>4, <2>1, <2>4
  <2>3. o <= job[j].after
    <3>1. ~(o > job[j].after)
      BY <1>0, <1>4, <2>1, <2>2
    <3>2. job[j].after \in Int
      BY <1>0
    <3> QED BY <2>1, <3>1, <3>2
  <2> QED BY <2>1, <2>3 DEF PassedOver
<1>5. Here(j)' = IF Present(x) THEN Here(j) \cup {x} ELSE Here(j)
  <2>1. \A o \in Here(j)' : o \in PassedOver(j)' /\ Present(o)
    BY <1>0 DEF Here, PassedOver
  <2>2. \A o \in Here(j) : o \in Here(j)' /\ Present(o)
    BY <1>0, <1>3 DEF Here, PassedOver
  <2>3. Present(x) => x \in Here(j)'
    BY <1>0, <1>3 DEF Here
  <2>4. \A o \in Here(j)' : o # x => o \in Here(j)
    BY <1>4, <2>1 DEF Here
  <2> QED BY <2>1, <2>2, <2>3, <2>4
<1>6. Done(j)' = {o \in Here(j)' : j \in gens[o]}
  BY DEF Done
<1> DEFINE n == job[j].rebuilt
           m == job[j].skipped
<1>7. /\ Numbers(n + 1, m, Cardinality(Done(j) \cup {x}), Cardinality(Here(j) \cup {x}),
                 Cardinality(PassedOver(j)'))
      /\ Numbers(n, m + 1, Cardinality(Done(j)), Cardinality(Here(j) \cup {x}),
                 Cardinality(PassedOver(j)'))
      /\ Numbers(n + 1, m, Cardinality(Done(j)), Cardinality(Here(j)),
                 Cardinality(PassedOver(j)'))
      /\ Numbers(n, m + 1, Cardinality(Done(j)), Cardinality(Here(j)),
                 Cardinality(PassedOver(j)'))
  <2>1. Numbers(n, m, Cardinality(Done(j)), Cardinality(Here(j)), Cardinality(PassedOver(j)))
    BY DEF CountOf
  <2> HIDE DEF n, m
  <2> QED BY <1>1, <1>2, <1>3, <2>1, OneIsCounted DEF n, m
<1>8. Numbers(job'[j].rebuilt, job'[j].skipped, Cardinality(Done(j)'), Cardinality(Here(j)'),
              Cardinality(PassedOver(j)'))
  <2>1. CASE Present(x) /\ b
    <3>1. Here(j)' = Here(j) \cup {x} /\ Done(j)' = Done(j) \cup {x}
      BY <1>5, <1>6, <2>1 DEF Done
    <3>2. job'[j].rebuilt = n + 1 /\ job'[j].skipped = m
      BY <1>1, <2>1
    <3> QED BY <1>7, <3>1, <3>2
  <2>2. CASE Present(x) /\ ~b
    <3>1. Here(j)' = Here(j) \cup {x} /\ Done(j)' = Done(j)
      BY <1>5, <1>6, <2>2 DEF Done
    <3>2. job'[j].rebuilt = n /\ job'[j].skipped = m + 1
      BY <1>1, <2>2
    <3> QED BY <1>7, <3>1, <3>2
  <2>3. CASE ~Present(x)
    <3>1. Here(j)' = Here(j) /\ Done(j)' = Done(j)
      BY <1>5, <1>6, <2>3 DEF Done
    <3>2. \/ job'[j].rebuilt = n /\ job'[j].skipped = m + 1
          \/ job'[j].rebuilt = n + 1 /\ job'[j].skipped = m
      BY <1>1
    <3> QED BY <1>7, <3>1, <3>2
  <2> QED BY <2>1, <2>2, <2>3
<1> QED BY <1>8 DEF CountOf

CountsInv == \A j \in Jobs : job[j] # None => CountOf(j)

\* Rows that nobody writes keep their totals.
LEMMA OthersCount ==
    ASSUME IInv, TypeOK', Forward, CountsInv, NEW j \in Jobs, job[j] # None, job'[j] = job[j]
    PROVE  CountOf(j)'
<1>1. job[j].after \in Int /\ Sources \subseteq Int
  BY RebuildAssumption DEF IInv, TypeOK, JobRow, Log, Sources
<1>2. job[j].after <= job'[j].after
  BY <1>1
<1>3. \A o \in Sources : ~(o > job[j].after /\ o <= job'[j].after)
  BY <1>1
<1> QED BY <1>2, <1>3, TotalsStay DEF CountsInv

\* One row is written, and the totals it then has are right.
LEMMA OneRowCounts ==
    ASSUME IInv, TypeOK', Forward, CountsInv, NEW j \in Jobs, NEW k,
           job' = [job EXCEPT ![j] = k], CountOf(j)'
    PROVE  CountsInv'
<1>1. \A i \in Jobs : i # j => job'[i] = job[i]
  BY DEF IInv, TypeOK
<1>2. \A i \in Jobs : i # j /\ job'[i] # None => CountOf(i)'
  BY <1>1, OthersCount
<1> QED BY <1>2 DEF CountsInv

\* A runner's steps that write no row, and the world's.
LEMMA NoRowCounts ==
    ASSUME IInv, TypeOK', Forward, CountsInv, job' = job
    PROVE  CountsInv'
BY OthersCount DEF CountsInv

LEMMA SettleCounts ==
    ASSUME IInv, TypeOK', Forward, CountsInv, NEW r \in Runners, NextSettles(r)
    PROVE  CountsInv'
<1>1. PICK j : j = runner[r].issuer
  OBVIOUS
<1>2. j \in Jobs /\ job[j] # None /\ RowOK(job[j]) /\ turn' = turn
  BY <1>1, RowOfJob DEF NextSettles, SessionInv, SessionOf, IInv
<1> DEFINE c == [job[j] EXCEPT !.status = "cancelled"]
           d == [job[j] EXCEPT !.status = "completed", !.after = job[j].through]
<1>3. /\ c.rebuilt = job[j].rebuilt /\ c.skipped = job[j].skipped /\ c.after = job[j].after
      /\ d.rebuilt = job[j].rebuilt /\ d.skipped = job[j].skipped /\ d.after = job[j].through
  BY <1>2 DEF RowOK, JobRow
<1>4. \/ job' = [job EXCEPT ![j] = c]
      \/ job' = [job EXCEPT ![j] = d] /\ Ahead(j) = {}
  BY <1>1, <1>2 DEF NextSettles, IInv, TypeOK, RowOK, JobRow
<1> HIDE DEF c, d
<1>5. PICK k : /\ job' = [job EXCEPT ![j] = k]
               /\ k.rebuilt = job[j].rebuilt /\ k.skipped = job[j].skipped
               /\ k.after = job[j].after \/ (k.after = job[j].through /\ Ahead(j) = {})
  BY <1>3, <1>4
<1>6. job'[j] = k
  BY <1>2, <1>5 DEF IInv, TypeOK
<1>7. /\ job[j].after \in Int /\ job[j].through \in Int /\ job[j].after <= job[j].through
      /\ Sources \subseteq Int
  BY <1>2, RebuildAssumption DEF RowOK, JobRow, Log, Sources
<1>8. \A o \in Sources : o > job[j].after /\ o <= k.after => ~Present(o)'
  <2>1. CASE k.after = job[j].after
    <3> SUFFICES ASSUME NEW o \in Sources, o > job[j].after, o <= k.after PROVE FALSE
      OBVIOUS
    <3>1. o \in Int /\ job[j].after \in Int
      BY <1>7
    <3> QED BY <2>1, <3>1
  <2>2. CASE k.after = job[j].through /\ Ahead(j) = {}
    BY <1>2, <2>2 DEF Ahead, Present
  <2> QED BY <1>5, <2>1, <2>2
<1>9. job[j].after <= k.after
  BY <1>5, <1>7
<1>10. CountOf(j)'
  BY <1>2, <1>5, <1>6, <1>8, <1>9, TotalsStay DEF CountsInv
<1> QED BY <1>2, <1>5, <1>10, OneRowCounts

LEMMA ReserveCounts ==
    ASSUME IInv, TypeOK', Forward, CountsInv, NEW r \in Runners, NextReserves(r)
    PROVE  CountsInv'
<1>1. PICK j : j = runner[r].issuer
  OBVIOUS
<1>2. j \in Jobs /\ job[j] # None /\ RowOK(job[j])
  BY <1>1, RowOfJob DEF NextReserves, SessionInv, SessionOf, IInv
<1>3. PICK o : job' = [job EXCEPT ![j].pending = o]
  BY <1>1 DEF NextReserves
<1>4. PICK k : k = [job[j] EXCEPT !.pending = o]
  OBVIOUS
<1>5. job' = [job EXCEPT ![j] = k] /\ job'[j] = k
  BY <1>2, <1>3, <1>4 DEF IInv, TypeOK
<1>6. k.rebuilt = job[j].rebuilt /\ k.skipped = job[j].skipped /\ k.after = job[j].after
  BY <1>2, <1>4 DEF RowOK, JobRow
<1>7. job[j].after \in Int /\ Sources \subseteq Int
  BY <1>2, RebuildAssumption DEF RowOK, JobRow, Log, Sources
<1>8. job[j].after <= k.after /\ \A x \in Sources : ~(x > job[j].after /\ x <= k.after)
  BY <1>6, <1>7
<1>9. CountOf(j)'
  BY <1>2, <1>5, <1>6, <1>8, TotalsStay DEF CountsInv
<1> QED BY <1>2, <1>5, <1>9, OneRowCounts

LEMMA CompleteCounts ==
    ASSUME IInv, TypeOK', Forward, CountsInv, NEW r \in Runners, Complete(r)
    PROVE  CountsInv'
<1>1. PICK w, j : w = runner[r] /\ j = w.issuer
  OBVIOUS
<1>2. /\ j \in Jobs /\ job[j] # None /\ w.off \in Sources /\ w.rebuilt \in BOOLEAN
      /\ w.at = "complete"
  BY <1>1 DEF Complete, IInv, SessionInv, SessionOf, TypeOK, RunnerState
<1>3. CASE job' = job
  BY <1>3, NoRowCounts
<1>4. CASE Owns(r) /\ job[j].pending = w.off
           /\ job' = [job EXCEPT ![j] =
                [Passed(j, w.rebuilt) EXCEPT !.status = IF job[j].cancel THEN "cancelled" ELSE "active"]]
  <2>1. PICK s, k : /\ s = IF job[j].cancel THEN "cancelled" ELSE "active"
                    /\ k = [Passed(j, w.rebuilt) EXCEPT !.status = s]
    OBVIOUS
  <2>2. job' = [job EXCEPT ![j] = k] /\ job'[j] = k
    BY <1>2, <1>4, <2>1 DEF IInv, TypeOK
  <2>3. job[j].pending # None
    BY <1>2, <1>4, RebuildAssumption DEF Sources, Log
  <2>4. RowOK(Passed(j, w.rebuilt)) /\ Passed(j, w.rebuilt).after = job[j].pending
    BY <1>2, <2>3, RowPassed DEF IInv
  <2>5. /\ Passed(j, w.rebuilt).rebuilt = job[j].rebuilt + (IF w.rebuilt THEN 1 ELSE 0)
        /\ Passed(j, w.rebuilt).skipped = job[j].skipped + (IF w.rebuilt THEN 0 ELSE 1)
    BY <1>2, PassedCounts DEF IInv
  <2>6. /\ k.after = job[j].pending /\ k \in JobRow
        /\ k.rebuilt = Passed(j, w.rebuilt).rebuilt /\ k.skipped = Passed(j, w.rebuilt).skipped
    BY <2>1, <2>4 DEF RowOK, JobRow
  <2>7. k # None
    BY <2>6, RowAssumption
  <2>8. Present(w.off) => (w.rebuilt <=> j \in gens[w.off])
    <3>1. WorkOf(r)
      BY DEF IInv, WorkInv
    <3> QED BY <1>1, <1>2, <1>4, <3>1 DEF WorkOf
  <2>9. gens' = gens /\ turn' = turn
    BY DEF Complete
  <2>10. \A o \in Log : Present(o)' <=> Present(o)
    BY <2>9 DEF Present
  <2>11. CountOf(j)'
    BY <1>2, <1>4, <2>2, <2>3, <2>5, <2>6, <2>7, <2>8, <2>9, <2>10, TotalsMove DEF CountsInv
  <2> QED BY <1>2, <2>2, <2>11, OneRowCounts
<1> QED BY <1>1, <1>3, <1>4 DEF Complete

LEMMA CancelCounts ==
    ASSUME IInv, TypeOK', Forward, CountsInv, NEW j \in Jobs, Cancel(j)
    PROVE  CountsInv'
<1>1. job[j] # None /\ RowOK(job[j]) /\ gens' = gens
  BY RowOfJob DEF Cancel, Active, IInv
<1>2. CASE holder = None /\ job[j].pending # None
  <2>1. PICK b \in BOOLEAN : b = WasPublished(j)
    BY DEF WasPublished
  <2>2. PICK k : k = [Passed(j, b) EXCEPT !.cancel = TRUE, !.status = "cancelled"]
    OBVIOUS
  <2>3. job' = [job EXCEPT ![j] = k] /\ job'[j] = k
    BY <1>2, <2>1, <2>2 DEF Cancel, IInv, TypeOK
  <2>4. RowOK(Passed(j, b)) /\ Passed(j, b).after = job[j].pending
    BY <1>1, <1>2, RowPassed DEF IInv
  <2>5. /\ Passed(j, b).rebuilt = job[j].rebuilt + (IF b THEN 1 ELSE 0)
        /\ Passed(j, b).skipped = job[j].skipped + (IF b THEN 0 ELSE 1)
    BY <1>1, PassedCounts DEF IInv
  <2>6. /\ k.after = job[j].pending /\ k \in JobRow
        /\ k.rebuilt = Passed(j, b).rebuilt /\ k.skipped = Passed(j, b).skipped
    BY <2>2, <2>4 DEF RowOK, JobRow
  <2>7. k # None
    BY <2>6, RowAssumption
  <2>8. b <=> j \in gens[job[j].pending]
    BY <1>2, <2>1 DEF WasPublished
  <2>9. job[j].pending \in Log
    BY <1>1, <1>2 DEF RowOK, JobRow
  <2>10. turn' = IF b THEN Finished(job[j].pending) ELSE turn
    BY <1>2, <2>1 DEF Cancel
  <2>11. b => Present(job[j].pending)
    BY <2>8, <2>9 DEF IInv, LogInv
  <2>12. \A o \in Log : Present(o)' <=> Present(o)
    BY <2>9, <2>10, <2>11 DEF Present, Finished, IInv, TypeOK
  <2>13. CountOf(j)'
    BY <1>1, <1>2, <2>3, <2>5, <2>6, <2>7, <2>8, <2>12, TotalsMove DEF CountsInv
  <2> QED BY <2>3, <2>13, OneRowCounts
<1>3. CASE ~(holder = None /\ job[j].pending # None)
  <2>1. PICK s : s = IF job[j].pending = None THEN "cancelled" ELSE job[j].status
    OBVIOUS
  <2>2. PICK k : k = [job[j] EXCEPT !.cancel = TRUE, !.status = s]
    OBVIOUS
  <2>3. job' = [job EXCEPT ![j] = k] /\ job'[j] = k
    BY <1>1, <1>3, <2>1, <2>2 DEF Cancel, IInv, TypeOK, RowOK, JobRow
  <2>4. k.rebuilt = job[j].rebuilt /\ k.skipped = job[j].skipped /\ k.after = job[j].after
    BY <1>1, <2>2 DEF RowOK, JobRow
  <2>5. job[j].after \in Int /\ Sources \subseteq Int
    BY <1>1, RebuildAssumption DEF RowOK, JobRow, Log, Sources
  <2>6. job[j].after <= k.after /\ \A x \in Sources : ~(x > job[j].after /\ x <= k.after)
    BY <2>4, <2>5
  <2>7. CountOf(j)'
    BY <1>1, <2>3, <2>4, <2>6, TotalsStay DEF CountsInv
  <2> QED BY <2>3, <2>7, OneRowCounts
<1> QED BY <1>2, <1>3

LEMMA AcquireCounts ==
    ASSUME IInv, TypeOK', Forward, CountsInv, NEW r \in Runners, NEW j \in Jobs, Acquire(r, j)
    PROVE  CountsInv'
<1>1. CASE job[j] = None
  <2>1. PICK k : /\ job' = [job EXCEPT ![j] = k]
                 /\ k = [through |-> head - 1, after |-> -1, pending |-> None, rebuilt |-> 0,
                         skipped |-> 0, cancel |-> FALSE, lease |-> FreshLease, status |-> "active"]
    BY <1>1 DEF Acquire
  <2>2. job'[j].after = -1 /\ job'[j].rebuilt = 0 /\ job'[j].skipped = 0
    BY <2>1 DEF IInv, TypeOK
  <2>3. PassedOver(j)' = {}
    BY <2>2, RebuildAssumption DEF PassedOver, Sources, Log
  <2>4. Here(j)' = {} /\ Done(j)' = {}
    BY <2>3 DEF Here, Done
  <2>5. Numbers(0, 0, 0, 0, 0)
    BY DEF Numbers
  <2>6. CountOf(j)'
    BY <2>2, <2>3, <2>4, <2>5, FS_EmptySet DEF CountOf
  <2> QED BY <2>1, <2>6, OneRowCounts
<1>2. CASE job[j] # None
  <2>1. RowOK(job[j])
    BY <1>2, RowOfJob DEF IInv
  <2>2. PICK k : k = TakeUp(j, FreshLease)
    OBVIOUS
  <2>3. job' = [job EXCEPT ![j] = k] /\ job'[j] = k
    BY <1>2, <2>2 DEF Acquire, IInv, TypeOK
  <2>4. k.rebuilt = job[j].rebuilt /\ k.skipped = job[j].skipped /\ k.after = job[j].after
    BY <2>1, <2>2 DEF TakeUp, RowOK, JobRow
  <2>5. job[j].after \in Int /\ Sources \subseteq Int
    BY <2>1, RebuildAssumption DEF RowOK, JobRow, Log, Sources
  <2>6. job[j].after <= k.after /\ \A x \in Sources : ~(x > job[j].after /\ x <= k.after)
    BY <2>4, <2>5
  <2>7. CountOf(j)'
    BY <1>2, <2>3, <2>4, <2>6, TotalsStay DEF CountsInv
  <2> QED BY <2>3, <2>7, OneRowCounts
<1> QED BY <1>1, <1>2

LEMMA CountsNext == IInv /\ IInv' /\ CountsInv /\ [Next]_vars => CountsInv'
<1> SUFFICES ASSUME IInv, IInv', CountsInv, [Next]_vars PROVE CountsInv'
  OBVIOUS
<1>0. TypeOK'
  BY DEF IInv
<1>1. ASSUME NEW r \in Runners, Step(r) \/ Fail(r) \/ Disconnect(r)
      PROVE  CountsInv'
  <2>1. Forward
    BY <1>1, StepForward DEF IInv
  <2>2. CASE NextSettles(r)
    BY <1>0, <2>1, <2>2, SettleCounts
  <2>3. CASE NextReserves(r)
    BY <1>0, <2>1, <2>3, ReserveCounts
  <2>4. CASE Complete(r)
    BY <1>0, <2>1, <2>4, CompleteCounts
  <2>5. CASE job' = job
    BY <1>0, <2>1, <2>5, NoRowCounts
  <2> QED BY <1>1, <2>2, <2>3, <2>4, <2>5
          DEF Step, Fail, Disconnect, NextStops, NextResumes, Find, Read, Publish, PublishSettled,
              PublishRefused, Finish
<1>2. ASSUME NEW r \in Runners, NEW j \in Jobs, Acquire(r, j)
      PROVE  CountsInv'
  BY <1>0, <1>2, AcquireForward, AcquireCounts DEF IInv
<1>3. ASSUME NEW j \in Jobs, Cancel(j)
      PROVE  CountsInv'
  BY <1>0, <1>3, CancelForward, CancelCounts DEF IInv
<1>4. CASE \/ \E k \in Requests, o \in Log : SourceRebuild(k, o) \/ SourceFinish(k, o)
           \/ \E o \in Log : Form(o) \/ Park(o) \/ Erase(o) \/ Edit(o)
           \/ Append
  <2>1. Forward
    BY <1>4, WorldForward DEF IInv
  <2>2. job' = job
    BY <1>4 DEF SourceRebuild, SourceFinish, Form, Park, Erase, Edit, Append
  <2> QED BY <1>0, <2>1, <2>2, NoRowCounts
<1>5. CASE UNCHANGED vars
  BY <1>5 DEF vars, CountsInv, CountOf, Here, Done, PassedOver, Present
<1> QED BY <1>1, <1>2, <1>3, <1>4, <1>5 DEF Next

\* The totals an operator reads are what happened: a source that the job passed and that
\* is still there is counted once, as rebuilt when the job published it.
THEOREM TotalsAreTrue == Spec => []CountsWhatItPublished
<1>1. Init => CountsInv
  BY DEF Init, CountsInv
<1>2. IInv /\ CountsInv => CountsWhatItPublished
  BY CountsAreNumbers DEF IInv, CountsInv
<1> QED BY <1>1, <1>2, CountsNext, Invariant, PTL DEF Spec
=============================================================================
