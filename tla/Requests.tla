------------------------------ MODULE Requests ------------------------------
(* Requests at the four doors of a deployment - the memory API, the same   *)
(* operations as tools, the management API and the operators' portal - from *)
(* the slot that lets them authenticate to the row that says what they did. *)
(* Credentials are revoked and projects suspended under them, any statement *)
(* may fail, and the ledger is sealed and verified while they write to it.  *)
EXTENDS Operations, Admission, AuditLedger
CONSTANTS Requests, Plans,
          Kind, ProjectOf, AccessOf, \* of a credential, fixed when it is minted
          Unissued,                  \* credentials nobody has minted yet
          None,
          Initially,                 \* the ledger's rows when the requests arrive, and
          InitiallySealed,           \* how many of them are under its first seal, and
          Elsewhere,                 \* those another process has yet to commit
          SignedIn,                  \* the tokens of the portal's sessions
          MaxOutside                 \* how many things happen besides the requests

Doors == {"memory", "mcp", "manage", "portal"}
\* What the portal's page brings back with an action: the guard and the confirmation.
Forms == {"good", "forged", "unconfirmed"}
Names == RecordableOperation \cup {"login"}
Rows == [op : Names, principal : Credentials \cup {"unresolved", None}, project : ProjectKeys,
         outcome : {"allowed", "refused"}, magnitude : Nat, of : Requests \cup {None}]

\* A credential is of one kind and reaches one project, or none; a token that nobody has minted
\* is not guessed; a login is not behind a page that could have been forged; the rows that were
\* there before are of no request, and what is sealed of them has committed.
ASSUME RequestsAssumption ==
    /\ IsFiniteSet(Requests) /\ None \notin Requests \cup Credentials /\ None # "ok"
    /\ Unissued \subseteq Credentials
    /\ Kind \in [Credentials -> {"project", "operator"}]
    /\ ProjectOf \in [Credentials -> ProjectKeys]
    /\ Plans \subseteq [door : Doors, token : (Credentials \ Unissued) \cup {None},
                        op : DOMAIN Handlers \cup {"login"}, project : ProjectKeys,
                        target : Credentials, form : Forms]
    /\ \A p \in Plans : p.op = "login" => p.form = "good"
    /\ Initially \in Seq(Rows) /\ Elsewhere \subseteq DOMAIN Initially
    /\ \A i \in DOMAIN Initially : Initially[i].of = None
    /\ InitiallySealed \in 0 .. Len(Initially) /\ \A i \in Elsewhere : i > InitiallySealed
    /\ SealLimit \in Nat \ {0}
    /\ MemoryConnections \in [Servers -> Nat] /\ RegistryConnections \in [Servers -> Nat]
    /\ Burst \in Nat /\ SamplesPerMinute \in Nat /\ MaxSuppressed \in Nat

\* The changes that are more than a commit and its row.
Special == {"project.suspend", "project.resume", "credential.issue", "credential.revoke", "audit.seal"}

\* Of the table of handlers, which has no parameters: a transaction names the operation last.
ASSUME HandlersAreKnown ==
    /\ DOMAIN Handlers \subseteq RecordableOperation
    /\ \A op \in DOMAIN Handlers :
        /\ Handlers[op].magnitudes \subseteq Nat
        /\ \A ops \in Handlers[op].rows : ops \in Seq(RecordableOperation) \ {<< >>} /\ ops[Len(ops)] = op
    /\ Special \subseteq HandlerRecorded
    /\ "audit.verify" \notin Changes

VARIABLES req,      \* what each request asks, where it is and what it holds
          gates,    \* the admission gate of each server
          budgets,  \* its budget of rows about strangers
          live,     \* the credentials that resolve
          active,   \* the projects that are not suspended
          sessions, \* the tokens of the portal's sessions
          changed,  \* the requests whose change has committed
          unheard,  \* the requests with a row the ledger did not take
          shut,     \* the requests whose project was suspended before they came and still is
          cold,     \* the requests that came with a token that no longer resolved
          outside   \* how many other things have happened
doorVars == <<req, gates, budgets, sessions, unheard, shut, cold, outside>>
stateVars == <<live, active, changed>>
vars == <<doorVars, stateVars, ledgerVars>>

Plan(r) == req[r].plan
Server(r) == IF Plan(r).door \in {"memory", "mcp"} THEN "memory" ELSE "manage"
AtMemory(r) == Server(r) = "memory"
AtPortal(r) == Plan(r).door = "portal"
At(r, phase) == req[r].phase = phase
\* A memory request acts on its credential's project; an operator names one.
Scope(r) == IF AtMemory(r) THEN ProjectOf[Plan(r).token] ELSE Plan(r).project
WorkKey(r) == IF AtMemory(r) THEN Scope(r) ELSE ""

Row(r, op, principal, project, outcome, magnitude) ==
    [op |-> op, principal |-> principal, project |-> project, outcome |-> outcome,
     magnitude |-> magnitude, of |-> r]
Outcome(r, project, outcome, magnitude) ==
    Row(r, Plan(r).op, Plan(r).token, project, outcome, magnitude)

Init ==
    /\ req \in [Requests -> {[plan |-> p, phase |-> "new", inner |-> FALSE, holds |-> {},
                              row |-> None, left |-> << >>, numbers |-> {}, answer |-> None] : p \in Plans}]
    /\ gates = [s \in Servers |-> NewGate]
    /\ budgets = [s \in Servers |-> NewBudget]
    /\ live = Credentials \ Unissued
    /\ active = Projects
    /\ sessions = SignedIn
    /\ changed = {} /\ unheard = {} /\ shut = {} /\ cold = {}
    /\ outside = 0
    /\ StartsWith(Initially, InitiallySealed, Elsewhere)

-----------------------------------------------------------------------------
(* A request's slots and its next step. *)

\* Without giving back the slot of the row.
FreedButAudit(r, what) ==
    LET s == Server(r)
        mine == what \cap req[r].holds
        a == IF "auth" \in mine THEN WithoutAuth(gates[s]) ELSE gates[s]
    IN [gates EXCEPT ![s] = IF "work" \in mine THEN WithoutWork(a, WorkKey(r), Plan(r).token) ELSE a]

\* The gate without the slots among `what` that r holds; a release counts once.
Freed(r, what) ==
    LET s == Server(r)
        mine == what \cap req[r].holds
        a == IF "auth" \in mine THEN WithoutAuth(gates[s]) ELSE gates[s]
        b == IF "audit" \in mine THEN WithoutAudit(a) ELSE a
        c == IF "work" \in mine THEN WithoutWork(b, WorkKey(r), Plan(r).token) ELSE b
    IN [gates EXCEPT ![s] = c]

AllSlots == {"auth", "work", "audit"}

\* r goes on to `phase`, giving `what` back.
GoesOn(r, phase, what) ==
    /\ req' = [req EXCEPT ![r].phase = phase, ![r].holds = @ \ what]
    /\ gates' = Freed(r, what)

Takes(r, phase, slot, gate) ==
    /\ req' = [req EXCEPT ![r].phase = phase, ![r].holds = @ \cup {slot}]
    /\ gates' = [gates EXCEPT ![Server(r)] = gate]

\* It returns: every deferred release runs.
Answers(r, answer) ==
    /\ req' = [req EXCEPT ![r].phase = "answered", ![r].answer = answer, ![r].holds = {}]
    /\ gates' = Freed(r, AllSlots)

\* It has a row to append, and answers afterwards whatever becomes of the row.
Records(r, row, answer) ==
    /\ req' = [req EXCEPT ![r].phase = "recording", ![r].row = row, ![r].answer = answer]
    /\ UNCHANGED gates

SameDoor == UNCHANGED <<budgets, sessions, unheard, shut, cold, outside>>

-----------------------------------------------------------------------------
(* Authentication. *)

\* The request arrives, or loops back from the tool door. `earned` attempts have come back.
Authenticate(r, earned) ==
    /\ At(r, "new")
    /\ Plan(r).door # "portal" \/ Plan(r).op = "login"
    /\ LET s == Server(r)
           g == Refilled(gates[s], earned)
       IN IF Authenticates(s, g) THEN Takes(r, "resolving", "auth", WithAuth(g))
          ELSE /\ req' = [req EXCEPT ![r].phase = "answered", ![r].answer = "busy"]
               /\ gates' = [gates EXCEPT ![s] = g]
    /\ cold' = IF req[r].inner \/ Plan(r).token \in live THEN cold ELSE cold \cup {r}
    /\ shut' = IF ~req[r].inner /\ AtMemory(r) /\ Plan(r).token # None /\ Scope(r) \notin active
               THEN shut \cup {r} ELSE shut
    /\ UNCHANGED <<budgets, sessions, unheard, outside, stateVars, ledgerVars>>

\* A portal page is behind a session, found under the mutex; the token is resolved after it.
FindSession(r) ==
    /\ At(r, "new")
    /\ AtPortal(r) /\ Plan(r).op # "login"
    /\ IF Plan(r).token \in sessions THEN GoesOn(r, "resolving", {}) ELSE Answers(r, "login")
    /\ cold' = IF Plan(r).token \in live \cap sessions THEN cold ELSE cold \cup {r}
    /\ UNCHANGED <<budgets, sessions, unheard, shut, outside, stateVars, ledgerVars>>

\* At any door that asks for a token.
ResolvesAnywhere(r) == Plan(r).token \in live

\* Which door a token opens is not a fact the holder of the wrong one is told.
Resolves(r) ==
    /\ Plan(r).token \in live
    /\ Kind[Plan(r).token] = IF AtMemory(r) THEN "project" ELSE "operator"

\* Resolve and ResolveOperator. The operator doors give the slot back here, the memory doors
\* once they have gone on or answered.
Resolve(r) ==
    /\ At(r, "resolving")
    /\ ~AtPortal(r) \/ Plan(r).op = "login"
    /\ IF Resolves(r)
       THEN CASE AtMemory(r) -> GoesOn(r, "checking", {}) /\ UNCHANGED sessions
              [] AtPortal(r) -> /\ Answers(r, "ok")
                                /\ sessions' = sessions \cup {Plan(r).token}
              [] OTHER -> GoesOn(r, "admitting", {"auth"}) /\ UNCHANGED sessions
       ELSE /\ GoesOn(r, "stranger", IF AtMemory(r) THEN {} ELSE {"auth"})
            /\ UNCHANGED sessions
    /\ UNCHANGED <<budgets, unheard, shut, cold, outside, stateVars, ledgerVars>>

\* The registry does not answer: no credential was refused, except at the portal's login, which
\* treats every failure as a stranger's.
ResolveFails(r) ==
    /\ At(r, "resolving")
    /\ ~AtPortal(r) \/ Plan(r).op = "login"
    /\ IF AtPortal(r) THEN GoesOn(r, "stranger", {"auth"}) ELSE Answers(r, "failed")
    /\ UNCHANGED <<stateVars, ledgerVars>> /\ SameDoor

\* A session whose token does not resolve, for any reason, is forgotten.
ResolveSession(r) ==
    /\ At(r, "resolving")
    /\ AtPortal(r) /\ Plan(r).op # "login"
    /\ \/ /\ Resolves(r)
          /\ GoesOn(r, "acting", {})
          /\ UNCHANGED sessions
       \/ /\ Answers(r, "login")
          /\ sessions' = sessions \ {Plan(r).token}
    /\ UNCHANGED <<budgets, unheard, shut, cold, outside, stateVars, ledgerVars>>

\* The session is read again, for the guard the form must bring back; then the identifier an
\* irreversible action asks for twice. A refusal here names no project it was not given.
Act(r) ==
    /\ At(r, "acting")
    /\ LET guarded == Plan(r).token \in sessions /\ Plan(r).form # "forged"
           confirmed == Plan(r).op = "credential.revoke" => Plan(r).form # "unconfirmed"
       IN IF guarded /\ confirmed THEN GoesOn(r, "running", {})
          ELSE Records(r, Outcome(r, IF guarded THEN Plan(r).project ELSE "", "refused", 0), "refused")
    /\ UNCHANGED <<stateVars, ledgerVars>> /\ SameDoor

\* recordRefusedAuth: a slot of the work or nothing, then a sample or a count of what was not
\* written. The presented token is not in the row.
Sample(r, minutePassed) ==
    /\ At(r, "stranger")
    /\ LET s == Server(r)
           b == Renewed(budgets[s], minutePassed)
       IN IF ~AdmitsAudit(s, gates[s]) THEN Answers(r, "unauthenticated") /\ UNCHANGED budgets
          ELSE IF Samples(b)
          THEN /\ req' = [req EXCEPT ![r].phase = "recording", ![r].holds = @ \cup {"audit"},
                      ![r].row = Row(r, "authenticate", "unresolved", "", "refused", b.suppressed + 1),
                      ![r].answer = "unauthenticated"]
               /\ gates' = [gates EXCEPT ![s] = WithAudit(@)]
               /\ budgets' = [budgets EXCEPT ![s] = Sampled(b)]
          ELSE /\ Answers(r, "unauthenticated")
               /\ budgets' = [budgets EXCEPT ![s] = Suppressed(b)]
    /\ UNCHANGED <<sessions, unheard, shut, cold, outside, stateVars, ledgerVars>>

\* Whether the credential's project is still there to be used. The tool door stops here, gives
\* its slot back and sends the call round to the operation's own route.
CheckActive(r) ==
    /\ At(r, "checking")
    /\ \/ Answers(r, "failed")
       \/ /\ Scope(r) \in active
          /\ IF Plan(r).door = "mcp" /\ ~req[r].inner
             THEN /\ req' = [req EXCEPT ![r].phase = "new", ![r].inner = TRUE, ![r].holds = {}]
                  /\ gates' = Freed(r, {"auth"})
             ELSE GoesOn(r, "admitting", {"auth"})
       \/ /\ Scope(r) \notin active
          /\ Records(r, Row(r, "authenticate", Plan(r).token, Scope(r), "refused", 0), "unauthenticated")
    /\ UNCHANGED <<stateVars, ledgerVars>> /\ SameDoor

\* The work slot, and then whether the credential permits the operation at all.
Admit(r) ==
    /\ At(r, "admitting")
    /\ LET s == Server(r)
           allowed == AtMemory(r) => permitted(AccessOf[Plan(r).token], Plan(r).op)
       IN IF ~Admits(s, gates[s], WorkKey(r), Plan(r).token) THEN Answers(r, "busy")
          ELSE /\ gates' = [gates EXCEPT ![s] = WithWork(@, WorkKey(r), Plan(r).token)]
               /\ req' = [req EXCEPT ![r].holds = @ \cup {"work"},
                      ![r].phase = IF allowed THEN "running" ELSE "recording",
                      ![r].row = IF allowed THEN None ELSE Outcome(r, Scope(r), "refused", 0),
                      ![r].answer = IF allowed THEN None ELSE "forbidden"]
    /\ UNCHANGED <<stateVars, ledgerVars>> /\ SameDoor

-----------------------------------------------------------------------------
(* What the operation does. *)

Op(r) == Plan(r).op

\* It worked: the handler appends what it did.
Allowed(r, magnitude) == Records(r, Outcome(r, Scope(r), "allowed", magnitude), "ok")

\* It was declined, or a store failed: with a refused row or without. The portal records every
\* error its store did not.
RefusedOr(r, rows, answer) ==
    \E row \in IF AtPortal(r) THEN {TRUE} ELSE rows :
        IF row THEN Records(r, Outcome(r, Scope(r), "refused", 0), answer) ELSE Answers(r, answer)
Declined(r) == RefusedOr(r, Handlers[Op(r)].declined, "declined")
Failed(r) == RefusedOr(r, Handlers[Op(r)].failed, "failed")

\* Its change has committed; whether it hears so is another matter. The portal counts one.
Counts(r) == IF AtPortal(r) THEN {1} ELSE Handlers[Op(r)].magnitudes
Did(r) ==
    /\ changed' = changed \cup {r}
    /\ \/ \E m \in Counts(r) : (m = 0 => Counts(r) = {0}) /\ Allowed(r, m)
       \/ Failed(r)
\* It had been done before: nothing changed, and that is what the row says.
Replayed(r) ==
    /\ {0, 1} \subseteq Counts(r)
    /\ Allowed(r, 0)
    /\ UNCHANGED changed

\* The body does not read as a request, or its store does not answer.
Malformed(r) ==
    /\ At(r, "running")
    /\ \/ ~AtPortal(r) /\ Answers(r, "invalid")
       \/ AtPortal(r) /\ Declined(r)
       \/ Failed(r)
    /\ UNCHANGED <<stateVars, ledgerVars>> /\ SameDoor

Read(r) ==
    /\ At(r, "running")
    /\ Op(r) \notin Changes \cup {"audit.verify"}
    /\ Allowed(r, 1) \/ Declined(r)
    /\ UNCHANGED <<stateVars, ledgerVars>> /\ SameDoor

Change(r) ==
    /\ At(r, "running")
    /\ Op(r) \in HandlerRecorded \ Special
    /\ \/ Did(r)
       \/ Replayed(r)
       \/ Declined(r) /\ UNCHANGED changed
    /\ UNCHANGED <<live, active, ledgerVars>> /\ SameDoor

\* One UPDATE that finds the project in the other state or declines.
SetSuspended(r) ==
    /\ At(r, "running")
    /\ Op(r) \in {"project.suspend", "project.resume"}
    /\ LET suspends == Op(r) = "project.suspend"
           p == Plan(r).project
       IN IF p \in Projects /\ (suspends <=> p \in active)
          THEN /\ active' = IF suspends THEN active \ {p} ELSE active \cup {p}
               /\ shut' = IF suspends THEN shut
                          ELSE {q \in shut : Scope(q) # p}
               /\ Did(r)
          ELSE Declined(r) /\ UNCHANGED <<active, shut, changed>>
    /\ UNCHANGED <<budgets, sessions, unheard, cold, outside, live, ledgerVars>>

\* The management API revokes any live credential; the portal's page is one project's, and the
\* UPDATE says so itself.
Revocable(r) ==
    /\ Plan(r).target \in live
    /\ AtPortal(r) => Kind[Plan(r).target] = "project" /\ ProjectOf[Plan(r).target] = Plan(r).project
RevokeCredential(r) ==
    /\ At(r, "running")
    /\ Op(r) = "credential.revoke"
    /\ IF Revocable(r)
       THEN live' = live \ {Plan(r).target} /\ Did(r)
       ELSE Declined(r) /\ UNCHANGED <<live, changed>>
    /\ UNCHANGED <<active, ledgerVars>> /\ SameDoor

\* issueProjectCredential looks for the project first and inserts the credential afterwards.
CheckProject(r) ==
    /\ At(r, "running")
    /\ Op(r) = "credential.issue"
    /\ IF Plan(r).project \in active THEN GoesOn(r, "minting", {}) ELSE Declined(r)
    /\ UNCHANGED <<stateVars, ledgerVars>> /\ SameDoor
Mint(r) ==
    /\ At(r, "minting")
    /\ \/ /\ live' = live \cup {c \in Unissued : ProjectOf[c] = Plan(r).project}
          /\ Did(r)
       \/ Failed(r) /\ UNCHANGED <<live, changed>>
    /\ UNCHANGED <<active, ledgerVars>> /\ SameDoor

\* A store's transaction writes its rows beside the change, with a magnitude where there is
\* something to change. Unpark records in the same way that it found no such turn.
Verdicts(r) ==
    {<<"allowed", m>> : m \in Handlers[Op(r)].magnitudes}
    \cup IF Op(r) = "formation.unpark" THEN {<<"refused", 0>>} ELSE {}
OpenStore(r) ==
    /\ At(r, "running")
    /\ Op(r) \in StoreRecorded
    /\ \E ops \in Handlers[Op(r)].rows, v \in Verdicts(r) :
        LET row == Outcome(r, Scope(r), v[1], v[2])
        IN /\ Draw([row EXCEPT !.op = Head(ops)], TRUE)
           /\ req' = [req EXCEPT ![r].phase = "writing", ![r].row = row, ![r].left = Tail(ops),
                                 ![r].numbers = {Len(entry) + 1}]
    /\ UNCHANGED <<gates, stateVars>> /\ SameDoor
GoOnWriting(r) ==
    /\ At(r, "writing")
    /\ req[r].left # << >>
    /\ Draw([req[r].row EXCEPT !.op = Head(req[r].left)], FALSE)
    /\ req' = [req EXCEPT ![r].left = Tail(@), ![r].numbers = @ \cup {Len(entry) + 1}]
    /\ UNCHANGED <<gates, stateVars>> /\ SameDoor

CommitStore(r) ==
    /\ At(r, "writing")
    /\ req[r].left = << >>
    /\ Settle(req[r].numbers, "kept")
    /\ changed' = IF req[r].row.magnitude > 0 THEN changed \cup {r} ELSE changed
    /\ \/ Answers(r, IF req[r].row.outcome = "refused" THEN "declined" ELSE "ok")
       \/ Failed(r)
    /\ UNCHANGED <<live, active>> /\ SameDoor
\* Its row is written on a connection of its own.
AbortStoreKeepsRow(r) ==
    /\ At(r, "writing")
    /\ Settle(req[r].numbers, "kept")
    /\ \/ Failed(r)
       \/ Op(r) # "formation.unpark" /\ Declined(r)
    /\ UNCHANGED stateVars /\ SameDoor
\* Nothing of it stays, neither the change nor its rows.
AbortStore(r) ==
    /\ At(r, "writing")
    /\ Settle(req[r].numbers, "lost")
    /\ \/ Failed(r)
       \/ Op(r) # "formation.unpark" /\ Declined(r)
    /\ UNCHANGED stateVars /\ SameDoor

\* A purge that is not confirmed is computed and rolled back, and recorded by its handler.
Preview(r) ==
    /\ At(r, "running")
    /\ Op(r) = "entity.purge"
    /\ Records(r, Outcome(r, Scope(r), "allowed", 0), "ok")
    /\ UNCHANGED <<stateVars, ledgerVars>> /\ SameDoor

AskSeal(r) ==
    /\ At(r, "running")
    /\ Op(r) = "audit.seal"
    /\ WaitToSeal(r)
    /\ GoesOn(r, "sealing", {})
    /\ UNCHANGED stateVars /\ SameDoor
\* What comes back is recorded as one seal, also where there was nothing to seal.
Seal(r) ==
    /\ At(r, "sealing")
    /\ SealNow(r)
    /\ changed' = IF Fresh = {} THEN changed ELSE changed \cup {r}
    /\ Allowed(r, 1) \/ Failed(r)
    /\ UNCHANGED <<live, active>> /\ SameDoor
GiveUpSeal(r) ==
    /\ At(r, "sealing")
    /\ LeaveQueue(r)
    /\ Failed(r)
    /\ UNCHANGED stateVars /\ SameDoor

StartVerify(r) ==
    /\ At(r, "running")
    /\ Op(r) = "audit.verify"
    /\ ReadSeals(r)
    /\ GoesOn(r, "verifying", {})
    /\ UNCHANGED stateVars /\ SameDoor
VerifySeal(r) ==
    /\ At(r, "verifying")
    /\ CheckSeal(r)
    /\ UNCHANGED <<req, gates, stateVars>> /\ SameDoor
VerifyRest(r) ==
    /\ At(r, "verifying")
    /\ CountUnsealed(r)
    /\ UNCHANGED <<req, gates, stateVars>> /\ SameDoor
TellVerdict(r) ==
    /\ At(r, "verifying")
    /\ check[r].at \in {"valid", "invalid"}
    /\ Allowed(r, 1)
    /\ UNCHANGED <<stateVars, ledgerVars>> /\ SameDoor
VerifyFails(r) ==
    /\ At(r, "verifying")
    /\ AbandonCheck(r)
    /\ Failed(r)
    /\ UNCHANGED stateVars /\ SameDoor

-----------------------------------------------------------------------------
(* The row. *)

AppendRow(r) ==
    /\ At(r, "recording")
    /\ Draw(req[r].row, TRUE)
    /\ req' = [req EXCEPT ![r].phase = "appending", ![r].numbers = {Len(entry) + 1}]
    /\ UNCHANGED <<gates, stateVars>> /\ SameDoor

\* The row commits, or it does not and the request is answered as if it had; it may also have
\* waited for a seal until its deadline.
RowKept(r) ==
    /\ At(r, "appending")
    /\ Settle(req[r].numbers, "kept")
    /\ Answers(r, req[r].answer)
    /\ UNCHANGED stateVars /\ SameDoor
RowLost(r) ==
    /\ \/ At(r, "appending") /\ Settle(req[r].numbers, "lost")
       \/ At(r, "recording") /\ UNCHANGED ledgerVars
    /\ Answers(r, req[r].answer)
    /\ unheard' = unheard \cup {r}
    /\ UNCHANGED <<budgets, sessions, shut, cold, outside, stateVars>>

-----------------------------------------------------------------------------
(* What happens besides: the command line, the driver, a browser, an intruder. *)

Happens ==
    /\ outside < MaxOutside
    /\ outside' = outside + 1
    /\ UNCHANGED <<req, gates, budgets, unheard, cold, changed>>

\* A credential that a request presents: another one makes no difference to them.
CommandLineRevokes(c) ==
    /\ c \in live
    /\ \E r \in Requests : Plan(r).token = c
    /\ live' = live \ {c}
    /\ Happens
    /\ UNCHANGED <<active, sessions, shut, ledgerVars>>
CommandLineSuspends(p) ==
    /\ p \in active
    /\ active' = active \ {p}
    /\ Happens
    /\ UNCHANGED <<live, sessions, shut, ledgerVars>>
SessionEnds(t) ==
    /\ t \in sessions
    /\ sessions' = sessions \ {t}
    /\ Happens
    /\ UNCHANGED <<live, active, shut, ledgerVars>>
DriverAsks ==
    /\ "driver" \notin queued
    /\ WaitToSeal("driver")
    /\ Happens
    /\ UNCHANGED <<live, active, sessions, shut>>
DriverSeals ==
    /\ SealNow("driver")
    /\ UNCHANGED <<doorVars, stateVars>>
AnotherCommits ==
    /\ Elsewhere \cap Open # {}
    /\ Settle(Elsewhere \cap Open, "kept")
    /\ UNCHANGED <<doorVars, stateVars>>
Alter ==
    /\ Tamper
    /\ Happens
    /\ UNCHANGED <<live, active, sessions, shut>>

Finished ==
    /\ \A r \in Requests : At(r, "answered")
    /\ queued = {}
    /\ UNCHANGED vars

RequestStep(r) ==
    \/ \E earned \in 0 .. Burst : Authenticate(r, earned)
    \/ FindSession(r) \/ Resolve(r) \/ ResolveFails(r) \/ ResolveSession(r) \/ Act(r)
    \/ \E minutePassed \in BOOLEAN : Sample(r, minutePassed)
    \/ CheckActive(r) \/ Admit(r)
    \/ Malformed(r) \/ Read(r) \/ Change(r) \/ SetSuspended(r) \/ RevokeCredential(r)
    \/ CheckProject(r) \/ Mint(r)
    \/ OpenStore(r) \/ GoOnWriting(r) \/ CommitStore(r) \/ AbortStore(r) \/ Preview(r)
    \/ AskSeal(r) \/ Seal(r) \/ GiveUpSeal(r)
    \/ StartVerify(r) \/ VerifySeal(r) \/ VerifyRest(r) \/ TellVerdict(r) \/ VerifyFails(r)
    \/ AppendRow(r) \/ RowKept(r) \/ RowLost(r)

Next ==
    \/ \E r \in Requests : RequestStep(r)
    \/ \E c \in Credentials : CommandLineRevokes(c) \/ SessionEnds(c)
    \/ \E p \in Projects : CommandLineSuspends(p)
    \/ DriverAsks \/ DriverSeals \/ AnotherCommits \/ Alter
    \/ Finished

Spec == Init /\ [][Next]_vars

-----------------------------------------------------------------------------
\* Every slot a gate counts is held by a request that has not been answered, and no gate has
\* given out more than its limits: whichever way a request ends, each slot comes back once.
Holders(s, slot) == {r \in Requests : Server(r) = s /\ slot \in req[r].holds}
SlotsAreAccounted ==
    /\ \A r \in Requests : At(r, "answered") => req[r].holds = {}
    /\ \A s \in Servers :
        LET g == gates[s]
            working == Holders(s, "work")
        IN /\ g.auth = Cardinality(Holders(s, "auth")) /\ g.auth <= AuthLimit(s)
           /\ g.audit = Cardinality(Holders(s, "audit")) /\ g.audit <= 1
           /\ g.work = Cardinality(working) + g.audit /\ g.work <= WorkLimit(s)
           /\ \A p \in ProjectKeys :
                /\ g.projects[p] = Cardinality({r \in working : WorkKey(r) = p})
                /\ g.projects[p] <= ProjectLimit(s)
           /\ \A c \in Credentials :
                /\ g.credentials[c] = Cardinality({r \in working : Plan(r).token = c})
                /\ g.credentials[c] <= CredentialLimit(s)

\* Nothing is done, and nothing is told, for a request without the authority: its credential
\* still stood when the request came, opens that door and permits the operation; its project
\* had not been suspended before it came and left so; an action of the portal came from a page
\* of it, confirmed where it cannot be undone, and takes a credential of that page's project
\* and no other.
Served(r) == r \in changed \/ req[r].answer = "ok"
AuthorityWasHeld ==
    \A r \in Requests : Served(r) =>
        /\ r \notin cold \cup shut
        /\ Kind[Plan(r).token] = IF AtMemory(r) THEN "project" ELSE "operator"
        /\ AtMemory(r) => permitted(AccessOf[Plan(r).token], Op(r))
        /\ AtPortal(r) => Plan(r).form # "forged"
        /\ Op(r) = "credential.revoke" /\ AtPortal(r) /\ r \in changed =>
               /\ Plan(r).form # "unconfirmed"
               /\ Kind[Plan(r).target] = "project"
               /\ ProjectOf[Plan(r).target] = Plan(r).project

\* What changed is on the ledger and what the ledger says changed did. Where the store writes
\* the row the two commit together; where the handler does, a row is missing only if it was
\* lost on the way or the handler did not hear that its change committed. (A seal that found
\* nothing to cover is recorded like one that did.)
Tells(r, i) ==
    /\ entry[i].row.of = r
    /\ entry[i].row.op = Op(r)
    /\ entry[i].row.outcome = "allowed"
    /\ entry[i].row.magnitude > 0
Told(r) == \E i \in Kept : Tells(r, i)
ChangesAreOnTheRecord ==
    ~tampered => \A r \in Requests :
        /\ Op(r) \in StoreRecorded => (Told(r) <=> r \in changed)
        /\ Op(r) \in HandlerRecorded \ {"audit.seal"} => (Told(r) => r \in changed)
        /\ r \in changed /\ At(r, "answered") /\ req[r].answer = "ok" =>
               Told(r) \/ r \in unheard \/ Counts(r) = {0}
=============================================================================
