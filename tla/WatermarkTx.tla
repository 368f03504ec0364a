---------------------------- MODULE WatermarkTx ----------------------------
(***************************************************************************)
(* Inside the transactions that move a project's watermark: one action per *)
(* SQL statement, under READ COMMITTED.                                    *)
(*                                                                         *)
(* Every statement reads what is committed when it starts, plus what its   *)
(* own transaction wrote.  A row a transaction has written or locked, and  *)
(* the project's watermark row once it is written or selected FOR UPDATE,  *)
(* stay locked until the transaction ends.  Any transaction may roll back  *)
(* between two statements: a refused write, a cancelled caller, a crash.   *)
(***************************************************************************)
EXTENDS Integers, FiniteSets, FiniteSetsExt

CONSTANTS Conns,       \* connections, each running one transaction at a time
          Project,     \* the one project whose watermark is modelled
          MaxOffset    \* bound: the last offset of its log

ASSUME TxAssumption == MaxOffset \in Nat

VARIABLES
    row,       \* row[o]: the committed state of the turn at offset o
    stored,    \* watermark.log_offset, committed
    formed,    \* watermark.formed_offset, committed
    tx,        \* tx[c]: the transaction of connection c and where it stands

    \* History: what the properties compare `formed` with.  No guard reads it.
    agreed,    \* the watermark as the last recompute under its lock committed it
    reopened,  \* reopened[c]: the turns unparked since a replayed batch of c read the rows
    misread    \* and those of the replayed batch whose number is committed now

txVars == <<row, stored, formed, tx, agreed, reopened, misread>>

Offsets == 0 .. MaxOffset
NoOffset == -1
Unset == -2                   \* the transaction has not recomputed the watermark
Phases == {"none", "backlog", "parked", "formed", "erased"}
Stored == {"backlog", "parked", "formed"}

\* What each kind of transaction makes of the turns it writes.
Writers == {"append", "author"}
Updates == {"mark", "park", "unpark", "finish"}
Deletes == {"erase", "sweep"}
Outcome == [append |-> "backlog", author |-> "formed", mark |-> "formed", park |-> "parked",
            unpark |-> "backlog", finish |-> "formed", erase |-> "erased",
            sweep |-> "erased", assert |-> "none"]

Idle == [op |-> "mark", at |-> "idle", turns |-> {}, locked |-> {}, formed |-> Unset]
Transactions == [op : DOMAIN Outcome,
                 at : {"idle", "offset", "row", "rows", "updated", "stale", "holding", "ready"},
                 turns : SUBSET Offsets,       \* the turns it is about
                 locked : SUBSET Offsets,      \* the rows it has locked or inserted
                 formed : Offsets \cup {NoOffset, Unset}]

TypeOK == /\ row \in [Offsets -> Phases]
          /\ stored \in Offsets \cup {NoOffset}
          /\ formed \in Offsets \cup {NoOffset}
          /\ tx \in [Conns -> Transactions]
          /\ agreed \in Offsets \cup {NoOffset}
          /\ reopened \in [Conns -> SUBSET Offsets]
          /\ misread \in SUBSET Offsets

Init == /\ row = [o \in Offsets |-> "none"]
        /\ stored = NoOffset
        /\ formed = NoOffset
        /\ tx = [c \in Conns |-> Idle]
        /\ agreed = NoOffset
        /\ reopened = [c \in Conns |-> {}]
        /\ misread = {}

-----------------------------------------------------------------------------
(* Locks and snapshots *)

RowFree(c, o) == \A d \in Conns \ {c} : o \notin tx[d].locked

\* The deleting transactions never touch the watermark row.
HoldsWatermark(c) == \/ tx[c].at = "holding"
                     \/ tx[c].at = "ready" /\ tx[c].op \notin Deletes
WatermarkFree(c) == \A d \in Conns \ {c} : ~HoldsWatermark(d)

In(ph, what) == {o \in Offsets : ph[o] \in what}

\* What a statement of c sees: the committed rows, and c's own writes.
View(c) == [o \in Offsets |-> IF o \in tx[c].locked THEN Outcome[tx[c].op] ELSE row[o]]

\* advanceFormedWatermarkSQL over a snapshot.
HighestFormed(ph) ==
    IF In(ph, {"backlog"}) # {} THEN Min(In(ph, {"backlog"})) - 1
    ELSE IF In(ph, Stored) = {} THEN NoOffset
    ELSE Max(In(ph, Stored))

Step(c, at) == tx' = [tx EXCEPT ![c].at = at]
Uncommitted == UNCHANGED <<row, stored, formed, agreed, reopened, misread>>

-----------------------------------------------------------------------------
(* Append, and the sources formed at birth *)

Begin(c, op, at, O) ==
    /\ tx[c].at = "idle"
    /\ tx' = [tx EXCEPT ![c] = [Idle EXCEPT !.op = op, !.at = at, !.turns = O]]
    /\ Uncommitted

BeginWrite(c) == stored < MaxOffset /\ \E op \in Writers : Begin(c, op, "offset", {})

\* claimOffsetSQL locks the watermark row by advancing it, and the row is inserted.
\* An append recomputes nothing.
TakeOffset(c) ==
    /\ tx[c].at = "offset"
    /\ stored < MaxOffset
    /\ WatermarkFree(c)
    /\ tx' = [tx EXCEPT ![c].locked = {stored + 1},
                        ![c].at = IF tx[c].op = "append" THEN "ready" ELSE "holding"]
    /\ Uncommitted

-----------------------------------------------------------------------------
(* MarkFormed, Park, Unpark, finishGenerationTx *)

Expected == [mark |-> {"backlog"}, park |-> {"backlog"}, unpark |-> {"parked"},
             finish |-> Stored]

BeginUpdate(c) ==
    \E op \in Updates : \E o \in Offsets :
        row[o] \in Expected[op] /\ Begin(c, op, "row", {o})

\* The row is updated first.  Its condition is read again once the row lock is had;
\* if it no longer holds there is nothing to do, and the transaction ends (Rollback).
UpdateRow(c) ==
    /\ tx[c].at = "row"
    /\ \A o \in tx[c].turns : RowFree(c, o) /\ row[o] \in Expected[tx[c].op]
    /\ tx' = [tx EXCEPT ![c].locked = tx[c].turns, ![c].at = "updated"]
    /\ Uncommitted

\* Mutant: the watermark row is not locked before it is recomputed.
LockWatermarkNever(c) ==
    /\ tx[c].at = "updated"
    /\ Step(c, "holding")
    /\ Uncommitted

\* Mutant: without lockScopeWatermarkSQL, the recompute reads before it waits for the row.
RecomputeBeforeLock(c) ==
    /\ tx[c].at = "updated"
    /\ tx' = [tx EXCEPT ![c].formed = HighestFormed(View(c)), ![c].at = "stale"]
    /\ Uncommitted

\* lockScopeWatermarkSQL.
LockWatermark(c) ==
    /\ tx[c].at = "updated"
    /\ WatermarkFree(c)
    /\ Step(c, "holding")
    /\ Uncommitted

\* advanceFormedWatermarkSQL, under the lock, in a statement and a snapshot of its own.
Recompute(c) ==
    /\ tx[c].at = "holding"
    /\ tx' = [tx EXCEPT ![c].formed = HighestFormed(View(c)), ![c].at = "ready"]
    /\ Uncommitted

-----------------------------------------------------------------------------
(* Erasures and sweeps *)

BeginErase(c) == \E O \in SUBSET In(row, Stored) : O # {} /\ Begin(c, "erase", "rows", O)

Remaining(c) == tx[c].turns \ tx[c].locked

\* A row is locked, or passed over when it has gone meanwhile.
TakeRow(c, o) ==
    /\ RowFree(c, o)
    /\ tx' = [tx EXCEPT ![c] =
          IF row[o] \in Stored THEN [tx[c] EXCEPT !.locked = tx[c].locked \cup {o}]
                               ELSE [tx[c] EXCEPT !.turns = tx[c].turns \ {o}]]
    /\ Uncommitted

\* Mutant: the rows are locked in whatever order they are found.
LockRowUnordered(c) == tx[c].at = "rows" /\ \E o \in Remaining(c) : TakeRow(c, o)

\* ORDER BY observation_id FOR UPDATE: one row after another, in an order that is the
\* same for every transaction.  Offsets stand for the ids.
LockRow(c) == /\ tx[c].at = "rows"
              /\ \E o \in Remaining(c) : TakeRow(c, o) /\ \A p \in Remaining(c) : o <= p

DeleteRows(c) == /\ tx[c].at = "rows"
                 /\ Remaining(c) = {}
                 /\ Step(c, "ready")
                 /\ Uncommitted

\* FOR UPDATE SKIP LOCKED: the expired rows nobody has locked, at once.
SweepRows(c) ==
    /\ tx[c].at = "idle"
    /\ \E O \in SUBSET In(row, Stored) :
          /\ O # {}
          /\ \A o \in O : RowFree(c, o)
          /\ tx' = [tx EXCEPT ![c] = [Idle EXCEPT !.op = "sweep", !.at = "ready",
                                                  !.turns = O, !.locked = O]]
    /\ Uncommitted

-----------------------------------------------------------------------------
(* AssertRecords of records that are all known *)

\* Nothing has locked the watermark row when the recompute starts.  Its subqueries
\* read the snapshot the statement started with, and then it waits for the row.  The
\* record that is known was formed at birth, and its source is still held.
RecomputeUnlocked(c) ==
    /\ tx[c].at = "idle"
    /\ In(row, {"formed"}) # {}
    /\ tx' = [tx EXCEPT ![c] = [Idle EXCEPT !.op = "assert", !.at = "stale",
                                            !.formed = HighestFormed(row)]]
    /\ Uncommitted

\* The lock is granted and the value computed before the wait is written.
WriteStale(c) == /\ tx[c].at = "stale"
                 /\ WatermarkFree(c)
                 /\ Step(c, "ready")
                 /\ Uncommitted

-----------------------------------------------------------------------------
(* The end of a transaction *)

\* A replayed batch that waits or is about to commit hears nothing of a turn reopened now.
Overtaken(c) == [d \in Conns |->
    IF d = c THEN {}
    ELSE IF tx[d].op = "assert" /\ tx[c].op = "unpark" THEN reopened[d] \cup tx[c].locked
    ELSE reopened[d]]

Commit(c) ==
    /\ tx[c].at = "ready"
    /\ row' = View(c)
    /\ stored' = IF tx[c].op \in Writers THEN stored + 1 ELSE stored
    /\ formed' = IF tx[c].formed = Unset THEN formed ELSE tx[c].formed
    /\ tx' = [tx EXCEPT ![c] = Idle]
    /\ agreed' = IF tx[c].formed = Unset \/ tx[c].op = "assert" THEN agreed ELSE tx[c].formed
    /\ misread' = IF tx[c].formed = Unset THEN misread ELSE reopened[c]
    /\ reopened' = Overtaken(c)

Rollback(c) == /\ tx[c].at # "idle"
               /\ tx' = [tx EXCEPT ![c] = Idle]
               /\ reopened' = [reopened EXCEPT ![c] = {}]
               /\ UNCHANGED <<row, stored, formed, agreed, misread>>

Statement(c) == \/ BeginWrite(c) \/ TakeOffset(c)
                \/ BeginUpdate(c) \/ UpdateRow(c) \/ LockWatermark(c) \/ Recompute(c)
                \/ BeginErase(c) \/ LockRow(c) \/ DeleteRows(c) \/ SweepRows(c)
                \/ RecomputeUnlocked(c) \/ WriteStale(c)
                \/ Commit(c) \/ Rollback(c)

Next == \E c \in Conns : Statement(c)
Spec == Init /\ [][Next]_txVars

-----------------------------------------------------------------------------
(* Properties *)

\* The committed watermark reports past a waiting turn only where a replayed batch has
\* put it back: that turn was reopened between the batch's reading and its writing, and
\* nobody has recomputed since (docs/architecture/formation.md: "Two recomputes can
\* never interleave and overwrite each other's reads").
FreshnessIsHonest == \A o \in Offsets : o <= formed /\ row[o] = "backlog" => o \in misread

\* Of the transactions that lock the watermark row before they read, each commit is one
\* step of FormedWatermark, whatever ran between its statements, replayed batches
\* included.  What a replayed batch commits is no step of it: `formed` is what they
\* agreed on from a recompute under the lock to the next commit of such a batch.
FW == INSTANCE FormedWatermark WITH
          Scopes <- {Project}, phase <- [s \in {Project} |-> row],
          stored <- [s \in {Project} |-> stored], formed <- [s \in {Project} |-> agreed]
ImplementsWatermark == FW!Spec

\* Transaction c waits for a lock d holds.
WaitsFor(c, d) ==
    /\ c # d
    /\ \/ tx[c].at \in {"offset", "updated", "stale"} /\ HoldsWatermark(d)
       \/ tx[c].at = "row" /\ tx[c].turns \cap tx[d].locked # {}
       \/ tx[c].at = "rows" /\ \E o \in Remaining(c) \cap tx[d].locked :
                                   \A p \in Remaining(c) : o <= p

\* No transactions wait for one another in a circle: turns are locked before the
\* watermark row, and in one order (erasurestore.go, erase; docs/postgresql/
\* concurrency.md: "two overlapping erasures lock in the same order instead of
\* deadlocking").
NoWaitCycle == \A C \in (SUBSET Conns) \ {{}} : \E c \in C : \A d \in C : ~WaitsFor(c, d)
=============================================================================
