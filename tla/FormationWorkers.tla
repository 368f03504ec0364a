-------------------------- MODULE FormationWorkers --------------------------
(***************************************************************************)
(* The workers that form the log: internal/formation/formation.go and the  *)
(* driver that calls them, over the store of ObservationLog.               *)
(*                                                                         *)
(* A worker drains a project under a PostgreSQL session lock, but every    *)
(* statement it runs goes through other connections of the pool.  So a     *)
(* session can die, and its lock with it, while the worker it protected    *)
(* carries on: LoseSession.  A worker can be shut down (Stop) or die       *)
(* (Crash) between any two of its steps; the server notices a dead         *)
(* session some time later (ReapSession).  The store's other clients       *)
(* append, erase, sweep and unpark meanwhile.                              *)
(***************************************************************************)
EXTENDS ObservationLog

CONSTANTS Workers,       \* formation workers, one per replica
          NoWorker,      \* the scope lock is free
          Messages,      \* messages of a turn; one model call each
          MaxAttempts,   \* Policy.MaxAttempts
          KillerTurns    \* turns whose every attempt kills its worker

ASSUME WorkerAssumption ==
    /\ Messages \in Nat \ {0}
    /\ MaxAttempts \in 1 .. AttemptCap
    /\ NoWorker \notin Workers
    /\ Scopes # {}
    /\ KillerTurns \in SUBSET (Scopes \X Offsets)

VARIABLES
    worker,   \* worker[w]: where drain stands, and on which turn
    lock,     \* lock[s]: whose session holds pg_try_advisory_lock of s
    claims,   \* <<s, o, m>>: message m of the turn is extracted and its claims committed
    tries,    \* history: how often the turn was claimed since it last joined the backlog
    lost      \* history: the scopes whose lock has been lost under a live worker

workerVars == <<worker, lock, claims, tries, lost>>
vars == <<logVars, workerVars>>

Steps == {"idle", "draining", "forming", "formed", "failed", "exhausted"}
OnTurn == {"forming", "formed", "failed", "exhausted"}
Idle == [at |-> "idle", scope |-> CHOOSE s \in Scopes : TRUE, turn |-> NoOffset, next |-> 1]
WorkerState == [at : Steps, scope : Scopes, turn : Offsets \cup {NoOffset},
                next : 1 .. Messages]

WorkersTypeOK ==
    /\ TypeOK
    /\ worker \in [Workers -> WorkerState]
    /\ \A w \in Workers : worker[w].at \in OnTurn => worker[w].turn \in Offsets
    /\ lock \in [Scopes -> Workers \cup {NoWorker}]
    /\ claims \in SUBSET (Scopes \X Offsets \X (1 .. Messages))
    /\ tries \in [Scopes -> [Offsets -> 0 .. AttemptCap]]
    /\ lost \in [Scopes -> BOOLEAN]

WInit == /\ Init
         /\ worker = [w \in Workers |-> Idle]
         /\ lock = [s \in Scopes |-> NoWorker]
         /\ claims = {}
         /\ tries = [s \in Scopes |-> [o \in Offsets |-> 0]]
         /\ lost = [s \in Scopes |-> FALSE]

-----------------------------------------------------------------------------
(* drain *)

PhaseOf(w) == phase[worker[w].scope][worker[w].turn]
Waiting(s) == In(phase[s], {"backlog"})
Killer(w) == /\ worker[w].at = "forming"
             /\ <<worker[w].scope, worker[w].turn>> \in KillerTurns

\* drain returns: its deferred unlock frees the lock if its session still holds it.
Return(w) ==
    /\ worker' = [worker EXCEPT ![w] = Idle]
    /\ lock' = [s \in Scopes |-> IF lock[s] = w THEN NoWorker ELSE lock[s]]

Goes(w, step) == worker' = [worker EXCEPT ![w].at = step]

\* Back to the top of the loop.
Loops(w) == worker' = [worker EXCEPT ![w] = [at |-> "draining", scope |-> @.scope,
                                             turn |-> NoOffset, next |-> 1]]

\* Mutant: the lock does not outlast the statement that took it.
StartDrainUnlocked(w, s) ==
    /\ worker[w].at = "idle"
    /\ Waiting(s) # {}
    /\ worker' = [worker EXCEPT ![w] = [Idle EXCEPT !.at = "draining", !.scope = s]]
    /\ UNCHANGED <<logVars, lock, claims, tries, lost>>

\* The driver found a backlog and drain took the scope lock.  A worker that does not
\* get the lock reports ErrScopeBusy and changes nothing.
StartDrain(w, s) ==
    /\ worker[w].at = "idle"
    /\ Waiting(s) # {}
    /\ lock[s] = NoWorker
    /\ lock' = [lock EXCEPT ![s] = w]
    /\ worker' = [worker EXCEPT ![w] = [Idle EXCEPT !.at = "draining", !.scope = s]]
    /\ UNCHANGED <<logVars, claims, tries, lost>>

\* The turns that may be tried now, and those among them whose row another worker may
\* hold a share lock on, because it is writing a claim of theirs.
Ready(s) == {o \in Waiting(s) : due[s][o]}
Held(w, s) == {o \in Ready(s) : \E v \in Workers \ {w} :
                  worker[v].at = "forming" /\ worker[v].scope = s /\ worker[v].turn = o}

\* NextUnformed: the lowest turn that is ready, and whose row is not skipped as locked.
\* The attempt is counted here, before the model is called.
TakeTurn(w) ==
    LET s == worker[w].scope
    IN  /\ worker[w].at = "draining"
        /\ \E o \in Ready(s) :
              /\ \A p \in Ready(s) \ Held(w, s) : o <= p
              /\ ClaimTurn(s, o)
              /\ tries' = [tries EXCEPT ![s][o] = IF @ < AttemptCap THEN @ + 1 ELSE @]
              /\ worker' = [worker EXCEPT ![w] = [at |-> "forming", scope |-> s, turn |-> o,
                                                  next |-> 1]]
        /\ UNCHANGED <<lock, claims, lost>>

NothingDue(w) ==
    LET s == worker[w].scope
    IN  /\ worker[w].at = "draining"
        /\ Ready(s) \subseteq Held(w, s)
        /\ Return(w)
        /\ UNCHANGED <<logVars, claims, tries, lost>>

\* Mutant: a claim does not need its turn.
FormMessageUnchecked(w) ==
    LET s == worker[w].scope  o == worker[w].turn  m == worker[w].next
    IN  /\ worker[w].at = "forming"
        /\ ~Killer(w)
        /\ claims' = claims \cup {<<s, o, m>>}
        /\ IF m = Messages THEN Goes(w, "formed")
                           ELSE worker' = [worker EXCEPT ![w].next = m + 1]
        /\ UNCHANGED <<logVars, lock, tries, lost>>

\* Mutant: the loop over the messages runs one past the last.
FormMessageOverruns(w) ==
    LET s == worker[w].scope  o == worker[w].turn  m == worker[w].next
    IN  /\ worker[w].at = "forming"
        /\ ~Killer(w)
        /\ claims' = IF PhaseOf(w) \in Stored THEN claims \cup {<<s, o, m>>} ELSE claims
        /\ IF m > Messages THEN Goes(w, "formed")
                           ELSE worker' = [worker EXCEPT ![w].next = m + 1]
        /\ UNCHANGED <<logVars, lock, tries, lost>>

\* One message of Form: a model call, then one transaction per claim.  The claims of a
\* turn that is gone are refused by its foreign key; a message without claims writes
\* nothing and is not stopped by that.
FormMessage(w) ==
    LET s == worker[w].scope  o == worker[w].turn  m == worker[w].next
    IN  /\ worker[w].at = "forming"
        /\ ~Killer(w)
        /\ claims' = IF PhaseOf(w) \in Stored THEN claims \cup {<<s, o, m>>} ELSE claims
        /\ IF m = Messages THEN Goes(w, "formed")
                           ELSE worker' = [worker EXCEPT ![w].next = m + 1]
        /\ UNCHANGED <<logVars, lock, tries, lost>>

\* Mutant: a message that fails is skipped and the turn goes on to be marked.
FormFailsQuietly(w) ==
    /\ worker[w].at = "forming"
    /\ ~Killer(w)
    /\ Goes(w, "formed")
    /\ UNCHANGED <<logVars, lock, claims, tries, lost>>

\* The model fails, the turn's budget runs out, or the store refuses a claim.
FormFails(w) ==
    /\ worker[w].at = "forming"
    /\ ~Killer(w)
    /\ Goes(w, "failed")
    /\ UNCHANGED <<logVars, lock, claims, tries, lost>>

\* A turn that was formed or forgotten meanwhile is marked by nobody; one that was
\* parked meanwhile violates observation_parked_not_formed_chk, and drain returns.
MarkTurn(w) ==
    /\ worker[w].at = "formed"
    /\ \/ MarkFormed(worker[w].scope, worker[w].turn) /\ Loops(w) /\ UNCHANGED lock
       \/ PhaseOf(w) \in {"formed", "erased"} /\ UNCHANGED <<logVars, lock>> /\ Loops(w)
       \/ PhaseOf(w) = "parked" /\ UNCHANGED logVars /\ Return(w)
    /\ UNCHANGED <<claims, tries, lost>>

\* Mutant: the reason is written and the attempts are never compared.
RecordFailureForever(w) ==
    LET s == worker[w].scope  o == worker[w].turn
    IN  /\ worker[w].at = "failed"
        /\ \/ RecordFormationFailure(s, o)
           \/ PhaseOf(w) # "backlog" /\ UNCHANGED logVars
        /\ Loops(w)
        /\ UNCHANGED <<lock, claims, tries, lost>>

\* recordFailure writes the reason, and parks when the attempts are used up.
RecordFailure(w) ==
    LET s == worker[w].scope  o == worker[w].turn
    IN  /\ worker[w].at = "failed"
        /\ \/ /\ RecordFormationFailure(s, o)
              /\ IF attempts[s][o] < MaxAttempts THEN Loops(w) ELSE Goes(w, "exhausted")
           \/ PhaseOf(w) # "backlog" /\ UNCHANGED logVars /\ Loops(w)
        /\ UNCHANGED <<lock, claims, tries, lost>>

\* Parking is a transaction of its own: the turn may have been settled, forgotten, or
\* parked and reopened since its attempts were read.
ParkTurn(w) ==
    LET s == worker[w].scope  o == worker[w].turn
    IN  /\ worker[w].at = "exhausted"
        /\ \/ Park(s, o) /\ Loops(w) /\ UNCHANGED lock
           \/ PhaseOf(w) # "backlog" /\ UNCHANGED <<logVars, lock>> /\ Loops(w)
           \/ /\ PhaseOf(w) = "backlog" /\ attempts[s][o] = 0
              /\ UNCHANGED logVars
              /\ Return(w)
        /\ UNCHANGED <<claims, tries, lost>>

-----------------------------------------------------------------------------
(* Faults *)

\* A shutdown cancels the worker's context, or a statement fails: nothing is recorded.
Stop(w) == /\ worker[w].at # "idle"
           /\ ~Killer(w)
           /\ Return(w)
           /\ UNCHANGED <<logVars, claims, tries, lost>>

\* The process dies; its session, and any lock it holds, is still there.
Crash(w) == /\ worker[w].at # "idle"
            /\ worker' = [worker EXCEPT ![w] = Idle]
            /\ UNCHANGED <<logVars, lock, claims, tries, lost>>

\* The session ends under a worker that is still draining.
LoseSession(s) ==
    /\ \E w \in Workers : lock[s] = w /\ worker[w].at # "idle" /\ worker[w].scope = s
    /\ lock' = [lock EXCEPT ![s] = NoWorker]
    /\ lost' = [lost EXCEPT ![s] = TRUE]
    /\ UNCHANGED <<logVars, worker, claims, tries>>

\* The server ends the session of a worker that died.
ReapSession(s) ==
    /\ \E w \in Workers : lock[s] = w /\ ~(worker[w].at # "idle" /\ worker[w].scope = s)
    /\ lock' = [lock EXCEPT ![s] = NoWorker]
    /\ UNCHANGED <<logVars, worker, claims, tries, lost>>

-----------------------------------------------------------------------------
(* The store's other clients *)

Untouched == UNCHANGED workerVars

\* An authored record commits with its claims and is never extracted.
AuthorRecord(s) ==
    /\ Correct(s)
    /\ claims' = claims \cup {<<s, logOffset[s] + 1, m>> : m \in 1 .. Messages}
    /\ UNCHANGED <<worker, lock, tries, lost>>

\* The walk over the turn's projections takes its claims with it.
ForgetTurns(s) ==
    /\ Erase(s) \/ Sweep(s)
    /\ claims' = {c \in claims : phase'[c[1]][c[2]] # "erased"}
    /\ UNCHANGED <<worker, lock, tries, lost>>

\* An operator returns a parked turn to the backlog.
Reopen(s, o) ==
    /\ Unpark(s, o)
    /\ tries' = [tries EXCEPT ![s][o] = 0]
    /\ UNCHANGED <<worker, lock, claims, lost>>

Clients == \E s \in Scopes :
    \/ AuthorRecord(s)
    \/ ForgetTurns(s)
    \/ Untouched /\ \E p \in Payloads : Append(s, NoKey, p)
    \/ Untouched /\ \E o \in Offsets : BackoffElapses(s, o)
    \/ \E o \in Offsets : Reopen(s, o)

WorkerStep(w) == \/ \E s \in Scopes : StartDrain(w, s)
                 \/ TakeTurn(w) \/ NothingDue(w)
                 \/ FormMessage(w) \/ FormFails(w) \/ MarkTurn(w)
                 \/ RecordFailure(w) \/ ParkTurn(w)

WNext == \/ \E w \in Workers : WorkerStep(w) \/ Stop(w) \/ Crash(w)
         \/ \E s \in Scopes : LoseSession(s) \/ ReapSession(s)
         \/ Clients

WSpec == WInit /\ [][WNext]_vars

\* The driver's loop keeps every live worker stepping; time passes every backoff; the
\* server reaps dead sessions; a turn that kills its worker does so.
Fairness ==
    /\ \A w \in Workers : WF_vars(WorkerStep(w)) /\ WF_vars(Killer(w) /\ Crash(w))
    /\ \A s \in Scopes : /\ WF_vars(ReapSession(s))
                         /\ \A o \in Offsets : WF_vars(Untouched /\ BackoffElapses(s, o))

FairSpec == WSpec /\ Fairness

-----------------------------------------------------------------------------
(* Properties *)

\* What a caller is told is in memory is in memory: a turn counted as formed has every
\* message extracted and every claim committed, whichever workers took turns at it and
\* wherever they died (formation.go, Form: a half-formed turn is never marked done).
FreshnessIsEarned ==
    \A s \in Scopes : \A o \in Offsets : phase[s][o] = "formed" =>
        \A m \in 1 .. Messages : <<s, o, m>> \in claims

\* An extraction still in flight when its turn is erased or swept writes nothing more:
\* no claim outlives the turn it came from.
NoClaimOutlivesItsTurn == \A c \in claims : phase[c[1]][c[2]] \in Stored

\* Two workers are on one turn only where a lock has been lost under a live worker:
\* neither a crash nor a shutdown nor a reaped session is enough (formation.go, Drain).
SoleExtractor ==
    \A v, w \in Workers :
        (/\ v # w
         /\ worker[v].at \in OnTurn /\ worker[w].at \in OnTurn
         /\ worker[v].scope = worker[w].scope /\ worker[v].turn = worker[w].turn)
            => lost[worker[w].scope]

\* A turn is given up only after MaxAttempts tries since it last joined the backlog;
\* an operator who reopens it buys it all of them again.  Where a lock has been lost a
\* worker may park on a count it read before the turn was reopened.
ParkedTurnsHadTheirTries ==
    \A s \in Scopes : \A o \in Offsets :
        phase[s][o] = "parked" => tries[s][o] >= MaxAttempts \/ lost[s]

\* From some time on, no worker is stopped, killed or cut off from its session and
\* nobody reopens a turn.  A turn that kills its own worker is not such a fault.
Fault == \/ \E w \in Workers : Stop(w) \/ (~Killer(w) /\ Crash(w))
         \/ \E s \in Scopes : LoseSession(s) \/ \E o \in Offsets : Reopen(s, o)
Calm == <>[][~Fault]_vars

\* Once faults cease, every turn that waits is formed, parked or forgotten: no turn is
\* starved by one that always fails, and no lock outlives its owner
\* (observationstore.go, NextUnformed; formation.go, Policy).
EveryTurnSettles ==
    Calm => \A s \in Scopes : \A o \in Offsets :
                phase[s][o] = "backlog" ~> phase[s][o] # "backlog"
=============================================================================
