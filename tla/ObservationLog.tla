--------------------------- MODULE ObservationLog ---------------------------
(***************************************************************************)
(* The observation log of taisce: internal/infra/pg/observationstore.go,   *)
(* observationretry.go and the ingestion budget of migration 0025.         *)
(*                                                                         *)
(* One action is one committed transaction of the store.  A transaction    *)
(* that is refused rolls back and is a Refuse action.  WatermarkTx looks   *)
(* inside the transactions that move the watermark.  A row of              *)
(* `observation` is its project and log offset; what formation needs of it *)
(* is its phase (formed_at and parked_at), its attempts, and whether its   *)
(* backoff has elapsed.  The clock is not modelled: a turn whose attempt   *)
(* was stamped becomes due at any later moment, and a turn that no longer  *)
(* waits counts as due, so that settling it forgets its backoff.           *)
(***************************************************************************)
EXTENDS Integers, FiniteSets, FiniteSetsExt

CONSTANTS Scopes,         \* projects
          Keys,           \* idempotency keys a client may attach to a turn
          AssertKeys,     \* the keys of asserted records, a namespace of their own
          Payloads,       \* what the fingerprint of a request can tell apart
          NoPayload,      \* a digest column that is NULL
          NoKey,          \* a turn written with no idempotency key
          MaxPending,     \* ingestion_budget.max_pending
          ProjectLimit,   \* ingestion_budget.max_pending_per_project
          SweepLimit,     \* turns one retention sweep removes
          MaxOffset,      \* bound: the last offset of a project's log
          AttemptCap      \* bound: where formation_attempts stops being counted

ASSUME LogAssumption ==
    /\ MaxOffset \in Nat
    /\ AttemptCap \in Nat \ {0}
    /\ MaxPending \in Nat \ {0}
    /\ ProjectLimit \in 1 .. MaxPending
    /\ SweepLimit \in Nat \ {0}
    /\ NoPayload \notin Payloads
    /\ NoKey \notin Keys \cup AssertKeys
    /\ Keys \cap AssertKeys = {}
    /\ IsFiniteSet(Scopes)

VARIABLES
    phase,          \* phase[s][o]: the row at offset o; "none" before, "erased" after
    attempts,       \* formation_attempts, counted up to AttemptCap
    due,            \* the backoff of formation_failed_at has elapsed
    logOffset,      \* watermark.log_offset, NoOffset while there is no row
    formedOffset,   \* watermark.formed_offset, NoOffset for NULL
    receipt,        \* observation_retry, by project and key
    reserved,       \* ingestion_reservation: the turns holding a place
    pending,        \* ingestion_budget.pending
    usage,          \* ingestion_project_usage.pending, zero for no row
    acks            \* history: what callers with a key have been answered

rows == <<phase, attempts, due>>
marks == <<logOffset, formedOffset>>
budget == <<reserved, pending, usage>>
logVars == <<phase, attempts, due, logOffset, formedOffset, receipt,
             reserved, pending, usage, acks>>

Offsets == 0 .. MaxOffset
NoOffset == -1
Phases == {"none", "backlog", "parked", "formed", "erased"}
Stored == {"backlog", "parked", "formed"}
AllKeys == Keys \cup AssertKeys

Absent == [status |-> "absent", payload |-> NoPayload, offset |-> NoOffset]
Tombstone == [status |-> "tombstone", payload |-> NoPayload, offset |-> NoOffset]
Live(p, o) == [status |-> "live", payload |-> p, offset |-> o]
Receipts == [status : {"absent", "live", "tombstone"},
             payload : Payloads \cup {NoPayload},
             offset : Offsets \cup {NoOffset}]

Acks == [scope : Scopes, key : AllKeys, payload : Payloads, offset : Offsets]

TypeOK ==
    /\ phase \in [Scopes -> [Offsets -> Phases]]
    /\ attempts \in [Scopes -> [Offsets -> 0 .. AttemptCap]]
    /\ due \in [Scopes -> [Offsets -> BOOLEAN]]
    /\ logOffset \in [Scopes -> Offsets \cup {NoOffset}]
    /\ formedOffset \in [Scopes -> Offsets \cup {NoOffset}]
    /\ receipt \in [Scopes -> [AllKeys -> Receipts]]
    /\ reserved \in SUBSET (Scopes \X Offsets)
    /\ pending \in Nat
    /\ usage \in [Scopes -> Nat]
    /\ acks \in SUBSET Acks

Init ==
    /\ phase = [s \in Scopes |-> [o \in Offsets |-> "none"]]
    /\ attempts = [s \in Scopes |-> [o \in Offsets |-> 0]]
    /\ due = [s \in Scopes |-> [o \in Offsets |-> TRUE]]
    /\ logOffset = [s \in Scopes |-> NoOffset]
    /\ formedOffset = [s \in Scopes |-> NoOffset]
    /\ receipt = [s \in Scopes |-> [k \in AllKeys |-> Absent]]
    /\ reserved = {}
    /\ pending = 0
    /\ usage = [s \in Scopes |-> 0]
    /\ acks = {}

-----------------------------------------------------------------------------
(* The formed watermark *)

In(ph, what) == {o \in Offsets : ph[o] \in what}

\* Recomputed from the rows: the offset below the lowest waiting turn (NULL, which
\* is NoOffset, when that turn is at zero), or the highest stored offset.
HighestFormed(ph) ==
    IF In(ph, {"backlog"}) # {} THEN Min(In(ph, {"backlog"})) - 1
    ELSE IF In(ph, Stored) = {} THEN NoOffset
    ELSE Max(In(ph, Stored))

AdvanceFormed(s) == formedOffset' = [formedOffset EXCEPT ![s] = HighestFormed(phase'[s])]

-----------------------------------------------------------------------------
(* Reservations: the deferred triggers of migration 0025 *)

HasRoom(s) == pending < MaxPending /\ usage[s] < ProjectLimit

Reserve(s, o) ==
    /\ HasRoom(s)
    /\ reserved' = reserved \cup {<<s, o>>}
    /\ pending' = pending + 1
    /\ usage' = [usage EXCEPT ![s] = @ + 1]

\* Mutant: a place is given back whether or not one was held.
ReleaseAlways(s, O) ==
    /\ reserved' = reserved \ ({s} \X O)
    /\ pending' = pending - Cardinality(O)
    /\ usage' = [usage EXCEPT ![s] = @ - Cardinality(O)]

\* Deleting a reservation gives its place back; the turns of O that hold none give none.
Release(s, O) ==
    LET gone == reserved \cap ({s} \X O)
    IN  /\ reserved' = reserved \ gone
        /\ pending' = pending - Cardinality(gone)
        /\ usage' = [usage EXCEPT ![s] = @ - Cardinality(gone)]

-----------------------------------------------------------------------------
(* Append *)

Unused(s, k) == k # NoKey => receipt[s][k].status = "absent"

\* The row, its offset and its receipt, in one transaction.
Insert(s, k, p, ph) ==
    LET o == logOffset[s] + 1
    IN  /\ logOffset' = [logOffset EXCEPT ![s] = o]
        /\ phase' = [phase EXCEPT ![s][o] = ph]
        /\ receipt' = IF k = NoKey THEN receipt
                      ELSE [receipt EXCEPT ![s][k] = Live(p, o)]
        /\ acks' = IF k = NoKey THEN acks
                   ELSE acks \cup {[scope |-> s, key |-> k, payload |-> p, offset |-> o]}
        /\ UNCHANGED <<attempts, due>>

\* AppendIdempotent writes a new turn.
Append(s, k, p) ==
    /\ logOffset[s] < MaxOffset
    /\ Unused(s, k)
    /\ Insert(s, k, p, "backlog")
    /\ Reserve(s, logOffset[s] + 1)
    /\ UNCHANGED formedOffset

\* The commit finds no room: the whole append rolls back, its offset with it.
RefuseAppend(s, k) ==
    /\ logOffset[s] < MaxOffset
    /\ Unused(s, k)
    /\ ~HasRoom(s)
    /\ UNCHANGED logVars

\* A key that is known answers with its first receipt, if the request is the same.
Replay(s, k, p) ==
    /\ receipt[s][k].status = "live"
    /\ receipt[s][k].payload = p
    /\ acks' = acks \cup {[scope |-> s, key |-> k, payload |-> p,
                           offset |-> receipt[s][k].offset]}
    /\ UNCHANGED <<rows, marks, receipt, budget>>

\* A known key with another request, or one whose turn has been erased.
RefuseKey(s, k, p) ==
    /\ receipt[s][k].status # "absent"
    /\ receipt[s][k].payload # p
    /\ UNCHANGED logVars

-----------------------------------------------------------------------------
(* Sources that are formed at birth: authored records and artifacts.  They take *)
(* an offset and recompute the watermark, and never hold a reservation.         *)

InsertFormed(s, k, p) ==
    /\ logOffset[s] < MaxOffset
    /\ Insert(s, k, p, "formed")
    /\ AdvanceFormed(s)
    /\ UNCHANGED budget

\* AssertRecords of a record no receipt knows.
AssertRecord(s, k, p) == Unused(s, k) /\ InsertFormed(s, k, p)

\* AssertRecords of records that are all known: nothing is written, and the
\* watermark is recomputed all the same.
ReplayAssert(s, k, p) ==
    /\ receipt[s][k].status = "live"
    /\ receipt[s][k].payload = p
    /\ acks' = acks \cup {[scope |-> s, key |-> k, payload |-> p,
                           offset |-> receipt[s][k].offset]}
    /\ formedOffset' = [formedOffset EXCEPT ![s] = HighestFormed(phase[s])]
    /\ UNCHANGED <<rows, logOffset, receipt, budget>>

\* The authored source of a correction: no receipt of this table.
Correct(s) == \E p \in Payloads : InsertFormed(s, NoKey, p)

-----------------------------------------------------------------------------
(* Formation state *)

\* NextUnformed offers the oldest turn that is due; FOR UPDATE SKIP LOCKED passes
\* over a row another transaction holds, so any due turn may be the one claimed.
ClaimTurn(s, o) ==
    /\ phase[s][o] = "backlog"
    /\ due[s][o]
    /\ attempts' = [attempts EXCEPT ![s][o] = IF @ < AttemptCap THEN @ + 1 ELSE @]
    /\ due' = [due EXCEPT ![s][o] = FALSE]
    /\ UNCHANGED <<phase, marks, receipt, budget, acks>>

\* Time passes the turn's backoff.
BackoffElapses(s, o) ==
    /\ phase[s][o] = "backlog"
    /\ ~due[s][o]
    /\ due' = [due EXCEPT ![s][o] = TRUE]
    /\ UNCHANGED <<phase, attempts, marks, receipt, budget, acks>>

RecordFormationFailure(s, o) ==
    /\ phase[s][o] = "backlog"
    /\ due' = [due EXCEPT ![s][o] = FALSE]
    /\ UNCHANGED <<phase, attempts, marks, receipt, budget, acks>>

\* Mutant: the watermark is set to the turn that was completed last.
MarkFormedByCompletion(s, o) ==
    /\ phase[s][o] = "backlog"
    /\ phase' = [phase EXCEPT ![s][o] = "formed"]
    /\ formedOffset' = [formedOffset EXCEPT ![s] = o]
    /\ Release(s, {o})
    /\ due' = [due EXCEPT ![s][o] = TRUE]
    /\ UNCHANGED <<attempts, logOffset, receipt, acks>>

\* Mutant: the mark writes the row back when an erasure has taken it.
MarkFormedUpserts(s, o) ==
    /\ phase[s][o] \in {"backlog", "erased"}
    /\ phase' = [phase EXCEPT ![s][o] = "formed"]
    /\ AdvanceFormed(s)
    /\ Release(s, {o})
    /\ due' = [due EXCEPT ![s][o] = TRUE]
    /\ UNCHANGED <<attempts, logOffset, receipt, acks>>

MarkFormed(s, o) ==
    /\ phase[s][o] = "backlog"
    /\ phase' = [phase EXCEPT ![s][o] = "formed"]
    /\ AdvanceFormed(s)
    /\ Release(s, {o})
    /\ due' = [due EXCEPT ![s][o] = TRUE]
    /\ UNCHANGED <<attempts, logOffset, receipt, acks>>

\* The CHECK observation_parked_chk refuses to park a turn nobody has tried.
Park(s, o) ==
    /\ phase[s][o] = "backlog"
    /\ attempts[s][o] > 0
    /\ phase' = [phase EXCEPT ![s][o] = "parked"]
    /\ AdvanceFormed(s)
    /\ due' = [due EXCEPT ![s][o] = TRUE]
    /\ UNCHANGED <<attempts, logOffset, receipt, budget, acks>>

\* Mutant: the watermark is left where parking put it.
UnparkKeepsWatermark(s, o) ==
    /\ phase[s][o] = "parked"
    /\ phase' = [phase EXCEPT ![s][o] = "backlog"]
    /\ attempts' = [attempts EXCEPT ![s][o] = 0]
    /\ due' = [due EXCEPT ![s][o] = TRUE]
    /\ UNCHANGED <<marks, receipt, budget, acks>>

\* Mutant: the turn comes back with its attempts spent.
UnparkKeepsAttempts(s, o) ==
    /\ phase[s][o] = "parked"
    /\ phase' = [phase EXCEPT ![s][o] = "backlog"]
    /\ due' = [due EXCEPT ![s][o] = TRUE]
    /\ AdvanceFormed(s)
    /\ UNCHANGED <<attempts, logOffset, receipt, budget, acks>>

Unpark(s, o) ==
    /\ phase[s][o] = "parked"
    /\ phase' = [phase EXCEPT ![s][o] = "backlog"]
    /\ attempts' = [attempts EXCEPT ![s][o] = 0]
    /\ due' = [due EXCEPT ![s][o] = TRUE]
    /\ AdvanceFormed(s)
    /\ UNCHANGED <<logOffset, receipt, budget, acks>>

\* Mutant: a rebuilt turn keeps its place in the budget.
FinishGenerationKeepsPlace(s, o) ==
    /\ phase[s][o] \in Stored
    /\ phase' = [phase EXCEPT ![s][o] = "formed"]
    /\ AdvanceFormed(s)
    /\ due' = [due EXCEPT ![s][o] = TRUE]
    /\ UNCHANGED <<attempts, logOffset, receipt, budget, acks>>

\* A published rebuild of the turn settles it, waiting, parked or formed already.
FinishGeneration(s, o) ==
    /\ phase[s][o] \in Stored
    /\ phase' = [phase EXCEPT ![s][o] = "formed"]
    /\ AdvanceFormed(s)
    /\ Release(s, {o})
    /\ due' = [due EXCEPT ![s][o] = TRUE]
    /\ UNCHANGED <<attempts, logOffset, receipt, acks>>

-----------------------------------------------------------------------------
(* Forgetting *)

\* Mutant: the receipt is deleted with its turn.
ForgottenWithKey(s, O) ==
    [k \in AllKeys |-> IF receipt[s][k].offset \in O THEN Absent ELSE receipt[s][k]]

\* The trigger observation_retry_forgets_payload: a receipt outlives its turn as a
\* tombstone, without the digest and without the link.
Forgotten(s, O) ==
    [k \in AllKeys |-> IF receipt[s][k].offset \in O THEN Tombstone ELSE receipt[s][k]]

\* Deleting the rows cascades to their reservations and touches no watermark.
Delete(s, O) ==
    /\ phase' = [phase EXCEPT ![s] =
          [o \in Offsets |-> IF o \in O THEN "erased" ELSE phase[s][o]]]
    /\ attempts' = [attempts EXCEPT ![s] =
          [o \in Offsets |-> IF o \in O THEN 0 ELSE attempts[s][o]]]
    /\ due' = [due EXCEPT ![s] = [o \in Offsets |-> o \in O \/ due[s][o]]]
    /\ receipt' = [receipt EXCEPT ![s] = Forgotten(s, O)]
    /\ Release(s, O)
    /\ UNCHANGED <<marks, acks>>

\* An erasure by subject or by sources: some set of turns, in one transaction.
Erase(s) == \E O \in SUBSET In(phase[s], Stored) : O # {} /\ Delete(s, O)

\* A retention sweep takes the expired turns it can lock, up to its limit.
Sweep(s) == \E O \in SUBSET In(phase[s], Stored) :
                O # {} /\ Cardinality(O) <= SweepLimit /\ Delete(s, O)

-----------------------------------------------------------------------------
Write(s) == \/ \E p \in Payloads :
                  \/ \E k \in Keys \cup {NoKey} : Append(s, k, p)
                  \/ \E k \in Keys : Replay(s, k, p) \/ RefuseKey(s, k, p)
                  \/ \E k \in AssertKeys :
                        AssertRecord(s, k, p) \/ ReplayAssert(s, k, p) \/ RefuseKey(s, k, p)
            \/ \E k \in Keys \cup {NoKey} : RefuseAppend(s, k)
            \/ Correct(s)

Form(s) == \E o \in Offsets :
               \/ ClaimTurn(s, o)
               \/ BackoffElapses(s, o)
               \/ RecordFormationFailure(s, o)
               \/ MarkFormed(s, o)
               \/ Park(s, o)
               \/ Unpark(s, o)
               \/ FinishGeneration(s, o)

Next == \E s \in Scopes : Write(s) \/ Form(s) \/ Erase(s) \/ Sweep(s)

Spec == Init /\ [][Next]_logVars

-----------------------------------------------------------------------------
(* Properties *)

\* A caller told that memory is formed through an offset is never missing a turn at
\* or below it, however completions, parkings, reopenings and erasures interleave
\* (observationstore.go, MarkFormed: "the one failure a freshness number must not have").
FreshnessIsHonest ==
    \A s \in Scopes : \A o \in Offsets : o <= formedOffset[s] => phase[s][o] # "backlog"

\* A refused append leaves no hole in the log: the offsets ever used are exactly the
\* ones up to the watermark row's, and the formed watermark never passes them
\* (observationstore.go, Append: "one hole stalls the watermark forever").
OffsetsHaveNoGap ==
    \A s \in Scopes :
        /\ formedOffset[s] <= logOffset[s]
        /\ \A o \in Offsets : phase[s][o] = "none" <=> o > logOffset[s]

Unfinished == {t \in Scopes \X Offsets : phase[t[1]][t[2]] \in {"backlog", "parked"}}
OfScope(T, s) == {t \in T : t[1] = s}

\* The ingestion counters never drift from the turns they count, whichever of forming,
\* parking, rebuilding, erasing or sweeping ends a turn's wait, so the limits hold of
\* the turns themselves (migration 0025).
BudgetIsExact ==
    /\ reserved = Unfinished
    /\ pending = Cardinality(Unfinished)
    /\ pending <= MaxPending
    /\ \A s \in Scopes : /\ usage[s] = Cardinality(OfScope(Unfinished, s))
                         /\ usage[s] <= ProjectLimit

\* Whatever retries and erasures come between, a key is answered with one request and
\* one offset for ever, and no two keys with the same offset: a retry never writes a
\* turn twice and an old retry never writes an erased turn again (observationretry.go).
OneAnswerPerKey ==
    \A a, b \in acks :
        a.scope = b.scope => (a.key = b.key <=> a.offset = b.offset)
                             /\ (a.key = b.key => a.payload = b.payload)

\* An erased or swept turn leaves of its receipt only that the key was used: no digest
\* of what was said and no link (migration 0021); a receipt that keeps them names a
\* turn that is still held, and belongs to it alone.
ReceiptsForgetErasedTurns ==
    \A s \in Scopes : \A k \in AllKeys :
        LET r == receipt[s][k]
        IN  /\ r.status = "live" => /\ r.offset \in In(phase[s], Stored)
                                    /\ r.payload \in Payloads
                                    /\ \A j \in AllKeys \ {k} : receipt[s][j].offset # r.offset
            /\ r.status # "live" => r = Absent \/ r = Tombstone
            /\ r.status = "absent" => \A a \in acks : ~(a.scope = s /\ a.key = k)

\* The formed watermark gives up an offset only when a parked turn is reopened below
\* it, or when every turn above its new place has been deleted.
OnlyUnparkRetreats ==
    [][\A s \in Scopes : formedOffset'[s] < formedOffset[s] =>
          \/ \E o \in Offsets : phase[s][o] = "parked" /\ phase'[s][o] = "backlog"
          \/ \A o \in Offsets : o > formedOffset'[s] => phase'[s][o] \in {"none", "erased"}
      ]_logVars

\* The log keeps the promise of FormedWatermark.
FW == INSTANCE FormedWatermark WITH stored <- logOffset, formed <- formedOffset
ImplementsWatermark == FW!Spec
=============================================================================
