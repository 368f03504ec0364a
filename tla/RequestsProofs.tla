--------------------------- MODULE RequestsProofs ---------------------------
(***************************************************************************)
(* Proofs about Requests, for any number of requests, servers' limits,     *)
(* credentials and projects, and any rows the ledger began with: that a    *)
(* slot comes back once whichever way a request ends, that nothing is done *)
(* or told without the authority, that the ledger says what changed, and   *)
(* that a verification of it is honest.                                    *)
(***************************************************************************)
EXTENDS Requests, FiniteSetTheorems, WellFoundedInduction, TLAPS

-----------------------------------------------------------------------------
(* Types, and what a request that was let in has.                           *)

Working == {"running", "minting", "writing", "sealing", "verifying"}
Inside == Working \cup {"checking", "acting", "admitting"}
Phases == Inside \cup {"new", "resolving", "stranger", "recording", "appending", "answered"}

Replies ==
    {"ok", "busy", "login", "refused", "unauthenticated", "failed", "forbidden", "declined", "invalid"}
RequestType ==
    [plan : Plans, phase : Phases, inner : BOOLEAN, holds : SUBSET AllSlots,
     row : Rows \cup {None}, left : Seq(RecordableOperation), numbers : SUBSET Nat,
     answer : Replies \cup {None}]
GateType ==
    [work : Int, auth : Int, audit : Int, projects : [ProjectKeys -> Int],
     credentials : [Credentials -> Int], tokens : Int]
Entries == [row : Rows, state : {"open", "kept", "lost"}]

Typed ==
    /\ req \in [Requests -> RequestType]
    /\ gates \in [Servers -> GateType]
    /\ budgets \in [Servers -> [samples : Nat, suppressed : Nat]]
    /\ live \subseteq Credentials
    /\ entry \in Seq(Entries)
    /\ \A r \in Requests :
        req[r].phase \in {"writing", "recording", "appending"} => req[r].row \in Rows

\* A request that is inside, or holds a slot of the work, showed a credential.
Shown(r) == req[r].phase \in Inside \/ "work" \in req[r].holds => Plan(r).token \in Credentials

\* What the authority of a request rests on at each place it can be.
Opens(r) == Kind[Plan(r).token] = IF AtMemory(r) THEN "project" ELSE "operator"
Permits(r) ==
    /\ AtMemory(r) => permitted(AccessOf[Plan(r).token], Op(r))
    /\ AtPortal(r) => Plan(r).form # "forged"
TakesItsOwn(r) ==
    Op(r) = "credential.revoke" /\ AtPortal(r) =>
        Kind[Plan(r).target] = "project" /\ ProjectOf[Plan(r).target] = Plan(r).project
Confirmed(r) == Op(r) = "credential.revoke" /\ AtPortal(r) => Plan(r).form # "unconfirmed"

Authority(r) ==
    /\ req[r].phase \in Inside \/ Served(r) => r \notin cold /\ Opens(r)
    /\ r \in cold => ~At(r, "new") /\ (At(r, "resolving") => Plan(r).token \notin live)
    /\ r \in shut => ~At(r, "new") /\ AtMemory(r) /\ Scope(r) \notin active
    /\ req[r].phase \in Working \cup {"admitting"} \/ Served(r) => r \notin shut
    /\ req[r].phase \in Working \/ Served(r) => Permits(r)
    /\ req[r].phase \in Working \/ r \in changed => Confirmed(r)
    /\ r \in changed => TakesItsOwn(r)
    /\ Served(r) => req[r].phase \in {"recording", "appending", "answered"}
    /\ AtPortal(r) => req[r].phase \notin {"checking", "admitting"}
    /\ At(r, "acting") => AtPortal(r)
    /\ At(r, "minting") => Op(r) = "credential.issue"
    /\ At(r, "writing") => Op(r) \in StoreRecorded
    /\ At(r, "sealing") => Op(r) = "audit.seal"
    /\ At(r, "verifying") => Op(r) = "audit.verify"

-----------------------------------------------------------------------------
(* What a step does to a request, and to nothing else.                      *)

\* Only r's record changes, and not its plan.
Alone(r) ==
    /\ req' \in [Requests -> RequestType]
    /\ \A q \in Requests : q # r => req'[q] = req[q]
    /\ req'[r].plan = req[r].plan

\* r is then at `phase`, to answer `answer`, and holds `holds`.
Stands(r, phase, answer, holds) ==
    /\ Alone(r)
    /\ req'[r].phase = phase /\ req'[r].answer = answer /\ req'[r].holds = holds

\* What r was writing or has written stays as it was.
Writes(r) ==
    req'[r].row = req[r].row /\ req'[r].left = req[r].left /\ req'[r].numbers = req[r].numbers

LEMMA PlanIsTyped ==
    ASSUME Typed, NEW r \in Requests
    PROVE  /\ req[r] \in RequestType /\ Plan(r) \in Plans
           /\ Plan(r).door \in Doors /\ Plan(r).token \in (Credentials \ Unissued) \cup {None}
           /\ Plan(r).op \in DOMAIN Handlers \cup {"login"} /\ Plan(r).project \in ProjectKeys
           /\ Plan(r).target \in Credentials
           /\ Plan(r).op = "login" => Plan(r).form = "good"
           /\ Server(r) \in Servers
BY RequestsAssumption DEF Typed, RequestType, Plan, Server, Servers

LEMMA GoesOnDoes ==
    ASSUME Typed, NEW r \in Requests, NEW phase \in Phases, NEW what \in SUBSET AllSlots,
           GoesOn(r, phase, what)
    PROVE  /\ Stands(r, phase, req[r].answer, req[r].holds \ what) /\ Writes(r)
           /\ req'[r].inner = req[r].inner
BY DEF Typed, RequestType, GoesOn, Stands, Alone, Writes

LEMMA TakesDoes ==
    ASSUME Typed, NEW r \in Requests, NEW phase \in Phases, NEW slot \in AllSlots, NEW gate,
           Takes(r, phase, slot, gate)
    PROVE  /\ Stands(r, phase, req[r].answer, req[r].holds \cup {slot}) /\ Writes(r)
           /\ req'[r].inner = req[r].inner
BY DEF Typed, RequestType, Takes, Stands, Alone, Writes

LEMMA AnswersDoes ==
    ASSUME Typed, NEW r \in Requests, NEW answer \in Replies \cup {None}, Answers(r, answer)
    PROVE  /\ Stands(r, "answered", answer, {}) /\ Writes(r)
           /\ req'[r].inner = req[r].inner
BY DEF Typed, RequestType, Answers, Stands, Alone, Writes, Phases

Becomes(r, phase, holds, row, answer) ==
    req' = [req EXCEPT ![r].phase = phase, ![r].holds = holds, ![r].row = row,
                       ![r].answer = answer]

LEMMA ChangedDoes ==
    ASSUME Typed, NEW r \in Requests, NEW phase \in Phases, NEW holds \in SUBSET AllSlots,
           NEW row \in Rows \cup {None}, NEW answer \in Replies \cup {None},
           Becomes(r, phase, holds, row, answer)
    PROVE  /\ Stands(r, phase, answer, holds)
           /\ req'[r].row = row /\ req'[r].left = req[r].left /\ req'[r].numbers = req[r].numbers
<1> DEFINE was == req[r]
           new == [was EXCEPT !.phase = phase, !.holds = holds, !.row = row, !.answer = answer]
<1>1. req' = [req EXCEPT ![r] = new] /\ was \in RequestType
  BY DEF Becomes, Typed
<1> HIDE DEF was
<1>2. new \in RequestType
  BY <1>1 DEF RequestType
<1>3. /\ new.plan = was.plan /\ new.phase = phase /\ new.holds = holds /\ new.row = row
      /\ new.answer = answer /\ new.left = was.left /\ new.numbers = was.numbers
  BY <1>1 DEF RequestType
<1> HIDE DEF new
<1>4. req' \in [Requests -> RequestType] /\ req'[r] = new /\ \A q \in Requests : q # r => req'[q] = req[q]
  BY <1>1, <1>2 DEF Typed
<1> QED BY <1>3, <1>4 DEF Stands, Alone, was

LEMMA TurnedAwayDoes ==
    ASSUME Typed, NEW r \in Requests,
           req' = [req EXCEPT ![r].phase = "answered", ![r].answer = "busy"]
    PROVE  Stands(r, "answered", "busy", req[r].holds) /\ Writes(r)
BY DEF Typed, RequestType, Stands, Alone, Writes, Phases, Replies

LEMMA RecordsDoes ==
    ASSUME Typed, NEW r \in Requests, NEW row \in Rows, NEW answer \in Replies,
           Records(r, row, answer)
    PROVE  /\ Stands(r, "recording", answer, req[r].holds)
           /\ req'[r].row = row /\ req'[r].left = req[r].left /\ req'[r].numbers = req[r].numbers
           /\ req'[r].inner = req[r].inner /\ gates' = gates
BY DEF Typed, RequestType, Records, Stands, Alone, Phases

-----------------------------------------------------------------------------
(* Gates, rows and the ledger keep their types.                             *)

LEMMA MinIsOne ==
    ASSUME NEW a \in Int, NEW b \in Int
    PROVE  /\ Min({a, b}) \in {a, b} /\ Min({a, b}) <= a /\ Min({a, b}) <= b
           /\ Max({a, b}) \in {a, b} /\ Max({a, b}) >= a /\ Max({a, b}) >= b
<1>1. \E x \in {a, b} : \A y \in {a, b} : x <= y
  OBVIOUS
<1>2. \E x \in {a, b} : \A y \in {a, b} : x >= y
  OBVIOUS
<1> QED BY <1>1, <1>2 DEF Min, Max

LEMMA ScopeIsTyped ==
    ASSUME Typed, NEW r \in Requests, Plan(r).token \in Credentials \/ ~AtMemory(r)
    PROVE  Scope(r) \in ProjectKeys /\ WorkKey(r) \in ProjectKeys
BY PlanIsTyped, RequestsAssumption DEF Scope, WorkKey, ProjectKeys

LEMMA RowIsTyped ==
    ASSUME NEW r \in Requests, NEW op \in Names, NEW project \in ProjectKeys,
           NEW principal \in Credentials \cup {"unresolved", None},
           NEW outcome \in {"allowed", "refused"}, NEW magnitude \in Nat
    PROVE  Row(r, op, principal, project, outcome, magnitude) \in Rows
BY DEF Row, Rows

LEMMA GateIsTyped ==
    ASSUME NEW g \in GateType
    PROVE  /\ WithAuth(g) \in GateType /\ WithoutAuth(g) \in GateType
           /\ WithAudit(g) \in GateType /\ WithoutAudit(g) \in GateType
<1> DEFINE earned == g.tokens - 1
           moreAuth == g.auth + 1
           lessAuth == g.auth - 1
           moreAudit == g.audit + 1
           lessAudit == g.audit - 1
           moreWork == g.work + 1
           lessWork == g.work - 1
<1>1. /\ earned \in Int /\ moreAuth \in Int /\ lessAuth \in Int /\ moreAudit \in Int
      /\ lessAudit \in Int /\ moreWork \in Int /\ lessWork \in Int
  BY DEF GateType
<1>2. WithAuth(g) = [g EXCEPT !.tokens = earned, !.auth = moreAuth]
  BY DEF WithAuth
<1>3. WithoutAuth(g) = [g EXCEPT !.auth = lessAuth]
  BY DEF WithoutAuth
<1>4. WithAudit(g) = [g EXCEPT !.work = moreWork, !.audit = moreAudit]
  BY DEF WithAudit
<1>5. WithoutAudit(g) = [g EXCEPT !.work = lessWork, !.audit = lessAudit]
  BY DEF WithoutAudit
<1> HIDE DEF earned, moreAuth, lessAuth, moreAudit, lessAudit, moreWork, lessWork
<1>6. WithAuth(g) \in GateType
  BY <1>1, <1>2 DEF GateType
<1>7. WithoutAuth(g) \in GateType
  BY <1>1, <1>3 DEF GateType
<1>8. WithAudit(g) \in GateType
  BY <1>1, <1>4 DEF GateType
<1>9. WithoutAudit(g) \in GateType
  BY <1>1, <1>5 DEF GateType
<1> QED BY <1>6, <1>7, <1>8, <1>9

LEMMA ShiftedIsTyped ==
    ASSUME NEW g \in GateType, NEW key \in ProjectKeys, NEW token \in Credentials,
           NEW by \in Int
    PROVE  Shifted(g, key, token, by) \in GateType
<1> DEFINE work == g.work + by
           projects == [g.projects EXCEPT ![key] = @ + by]
           credentials == [g.credentials EXCEPT ![token] = @ + by]
<1>1. work \in Int /\ projects \in [ProjectKeys -> Int] /\ credentials \in [Credentials -> Int]
  BY DEF GateType
<1>2. Shifted(g, key, token, by)
        = [g EXCEPT !.work = work, !.projects = projects, !.credentials = credentials]
  BY DEF Shifted
<1> HIDE DEF work, projects, credentials
<1> QED BY <1>1, <1>2 DEF GateType

LEMMA FreedIsTyped ==
    ASSUME Typed, NEW r \in Requests, Shown(r), NEW what
    PROVE  Freed(r, what) \in [Servers -> GateType]
<1> DEFINE g == gates[Server(r)]
           token == Plan(r).token
           key == WorkKey(r)
<1>1. g \in GateType
  BY PlanIsTyped DEF Typed
<1>2. ASSUME NEW a \in GateType PROVE WithoutAuth(a) \in GateType /\ WithoutAudit(a) \in GateType
  BY GateIsTyped
<1>3. ASSUME NEW a \in GateType, "work" \in req[r].holds
      PROVE  WithoutWork(a, key, token) \in GateType
  BY <1>3, ShiftedIsTyped, ScopeIsTyped DEF Shown, WithoutWork
<1> QED BY <1>1, <1>2, <1>3 DEF Freed, Typed

LEMMA DrawIsTyped ==
    ASSUME Typed, NEW row \in Rows, NEW first, Draw(row, first)
    PROVE  entry' \in Seq(Entries) /\ Len(entry) + 1 \in Nat
BY DEF Typed, Draw, Entries

LEMMA SettleIsTyped ==
    ASSUME Typed, NEW numbers, NEW state \in {"kept", "lost"}, Settle(numbers, state)
    PROVE  entry' \in Seq(Entries)
<1>1. \A e \in Entries : [e EXCEPT !.state = state] \in Entries
  BY DEF Entries
<1>2. entry' \in [1 .. Len(entry) -> Entries] /\ Len(entry) \in Nat
  BY <1>1 DEF Typed, Settle
<1> QED BY <1>2

-----------------------------------------------------------------------------
(* What was lawful stays so for every request that a step is not of.        *)

Lawful == Typed /\ \A r \in Requests : Shown(r) /\ Authority(r)

\* No credential that was ever out comes to life again, nobody else is found to
\* have come too late, and what is suspended is resumed for all who came after.
Quiet(r) ==
    /\ Alone(r)
    /\ \A q \in Requests \ {r} :
        /\ q \in changed' <=> q \in changed
        /\ q \in cold' <=> q \in cold
        /\ q \in shut' => q \in shut /\ (Scope(q) \in active' => Scope(q) \in active)
    /\ \A t \in (Credentials \ Unissued) \cup {None} : t \in live' => t \in live

TypesStay(r) ==
    /\ gates' \in [Servers -> GateType]
    /\ budgets' \in [Servers -> [samples : Nat, suppressed : Nat]]
    /\ live' \subseteq Credentials
    /\ entry' \in Seq(Entries)
    /\ req'[r].phase \in {"writing", "recording", "appending"} => req'[r].row \in Rows

Lawfully(r) == Quiet(r) /\ TypesStay(r) /\ Shown(r)' /\ Authority(r)'

LEMMA OthersStand ==
    ASSUME Lawful, NEW r \in Requests, Quiet(r), NEW q \in Requests, q # r
    PROVE  Shown(q)' /\ Authority(q)'
<1> USE DEF Quiet, Alone, Lawful
<1>1. req'[q] = req[q] /\ Shown(q) /\ Authority(q)
  OBVIOUS
<1>2. Shown(q)'
  BY <1>1 DEF Shown, Plan
<1>3. Plan(q).token \in live' => Plan(q).token \in live
  BY PlanIsTyped
<1>4. Served(q)' <=> Served(q)
  BY <1>1 DEF Served
<1> QED
  BY <1>1, <1>2, <1>3, <1>4 DEF Authority, Opens, Permits, TakesItsOwn, Confirmed, At, AtMemory, AtPortal,
     Server, Plan, Op, Scope

LEMMA LawfullyGoesOn ==
    ASSUME Lawful, NEW r \in Requests, Lawfully(r)
    PROVE  Lawful'
<1>1. Typed'
  BY DEF Lawful, Lawfully, Typed, TypesStay, Quiet, Alone, At
<1>2. \A q \in Requests : Shown(q)' /\ Authority(q)'
  BY OthersStand DEF Lawfully
<1> QED BY <1>1, <1>2 DEF Lawful

-----------------------------------------------------------------------------
(* The ways out.                                                            *)

\* r is on its way out, or sent to be counted among the strangers: what it is
\* told and has done, it had the authority for.
Leaves(r) ==
    /\ Alone(r) /\ TypesStay(r) /\ Shown(r)'
    /\ req'[r].phase \in {"stranger", "recording", "appending", "answered"}
    /\ req'[r].phase = "stranger" => req'[r].answer # "ok" /\ r \notin changed'
    /\ req'[r].answer = "ok" => req[r].answer = "ok" \/ req[r].phase \in Working
    /\ r \in changed' => r \in changed \/ (req[r].phase \in Working /\ TakesItsOwn(r))

\* Nothing happens to those who are inside besides.
World(r) ==
    /\ changed' \ {r} = changed \ {r}
    /\ cold' = cold
    /\ shut' \subseteq shut /\ \A q \in shut' : Scope(q) \in active' => Scope(q) \in active
    /\ \A t \in (Credentials \ Unissued) \cup {None} : t \in live' => t \in live

LEMMA LeavesLawfully ==
    ASSUME Lawful, NEW r \in Requests, Leaves(r), World(r)
    PROVE  Lawfully(r)
<1>1. Quiet(r)
  BY DEF Leaves, World, Quiet
<1>2. Shown(r) /\ Authority(r) /\ req'[r].plan = req[r].plan
  BY DEF Lawful, Leaves, Alone
<1>3. Authority(r)'
  BY <1>2 DEF Leaves, World, Authority, Opens, Permits, TakesItsOwn, Confirmed, At, AtMemory, AtPortal,
     Server, Plan, Op, Scope, Served, Inside, Working
<1> QED BY <1>1, <1>3 DEF Lawfully, Leaves

\* The same, for a request that stays inside.
Stays(r) ==
    /\ Alone(r) /\ TypesStay(r)
    /\ req'[r].phase \in Working
    /\ req[r].phase \in Working
    /\ req'[r].answer = req[r].answer /\ req'[r].holds = req[r].holds
    /\ changed' = changed
    /\ req'[r].phase = "minting" => Op(r) = "credential.issue"
    /\ req'[r].phase = "writing" => Op(r) \in StoreRecorded
    /\ req'[r].phase = "sealing" => Op(r) = "audit.seal"
    /\ req'[r].phase = "verifying" => Op(r) = "audit.verify"

LEMMA StaysLawfully ==
    ASSUME Lawful, NEW r \in Requests, Stays(r), World(r)
    PROVE  Lawfully(r)
<1>1. Quiet(r)
  BY DEF Stays, World, Quiet
<1>2. Shown(r) /\ Authority(r) /\ req'[r].plan = req[r].plan
  BY DEF Lawful, Stays, Alone
<1>3. Shown(r)'
  BY <1>2 DEF Stays, Shown, Plan, Inside
<1>4. Authority(r)'
  BY <1>2 DEF Stays, World, Authority, Opens, Permits, TakesItsOwn, Confirmed, At, AtMemory, AtPortal,
     Server, Plan, Op, Scope, Served, Inside, Working
<1> QED BY <1>1, <1>3, <1>4 DEF Lawfully, Stays

\* r is to answer, at once or when its row is written.
Ends(r) ==
    /\ Alone(r) /\ Shown(r)'
    /\ gates' \in [Servers -> GateType]
    /\ req'[r].phase \in {"recording", "answered"}
    /\ req'[r].phase = "recording" => req'[r].row \in Rows

LEMMA AnswersEnds ==
    ASSUME Lawful, NEW r \in Requests, NEW answer \in Replies \cup {None}, Answers(r, answer)
    PROVE  Ends(r) /\ req'[r].answer = answer
<1>1. Stands(r, "answered", answer, {})
  BY AnswersDoes DEF Lawful
<1>2. gates' \in [Servers -> GateType]
  BY FreedIsTyped DEF Answers, Lawful
<1> QED BY <1>1, <1>2 DEF Ends, Stands, Shown, Inside, Working

LEMMA RecordsEnds ==
    ASSUME Lawful, NEW r \in Requests, NEW row \in Rows, NEW answer \in Replies,
           Records(r, row, answer)
    PROVE  Ends(r) /\ req'[r].answer = answer
<1>1. Stands(r, "recording", answer, req[r].holds) /\ req'[r].row = row /\ gates' = gates
  BY RecordsDoes DEF Lawful
<1>2. Shown(r)'
  BY <1>1 DEF Lawful, Stands, Alone, Shown, Plan, Inside, Working
<1> QED BY <1>1, <1>2 DEF Ends, Stands, Lawful, Typed

LEMMA OutcomeIsTyped ==
    ASSUME Typed, NEW r \in Requests, NEW project \in ProjectKeys,
           NEW outcome \in {"allowed", "refused"}, NEW magnitude \in Nat
    PROVE  Outcome(r, project, outcome, magnitude) \in Rows
<1>1. Plan(r).op \in Names /\ Plan(r).token \in Credentials \cup {"unresolved", None}
  BY PlanIsTyped, HandlersAreKnown DEF Names
<1> QED BY <1>1, RowIsTyped DEF Outcome

LEMMA AllowedEnds ==
    ASSUME Lawful, NEW r \in Requests, req[r].phase \in Working, NEW m \in Nat, Allowed(r, m)
    PROVE  Ends(r) /\ req'[r].answer = "ok"
<1>1. Scope(r) \in ProjectKeys
  BY ScopeIsTyped DEF Lawful, Shown, Inside
<1>2. Outcome(r, Scope(r), "allowed", m) \in Rows
  BY <1>1, OutcomeIsTyped DEF Lawful
<1> QED BY <1>2, RecordsEnds DEF Allowed, Replies

LEMMA RefusesEnds ==
    ASSUME Lawful, NEW r \in Requests, req[r].phase \in Working, Declined(r) \/ Failed(r)
    PROVE  Ends(r) /\ req'[r].answer \in {"declined", "failed"}
<1>1. Scope(r) \in ProjectKeys
  BY ScopeIsTyped DEF Lawful, Shown, Inside
<1>2. Outcome(r, Scope(r), "refused", 0) \in Rows
  BY <1>1, OutcomeIsTyped DEF Lawful
<1>3. PICK answer \in {"declined", "failed"} :
         Records(r, Outcome(r, Scope(r), "refused", 0), answer) \/ Answers(r, answer)
  BY DEF Declined, Failed, RefusedOr
<1> QED BY <1>2, <1>3, RecordsEnds, AnswersEnds DEF Replies

\* What a step at the door leaves alone.
LEMMA EndsLawfully ==
    ASSUME Lawful, NEW r \in Requests, Ends(r), World(r),
           budgets' \in [Servers -> [samples : Nat, suppressed : Nat]],
           live' \subseteq Credentials, entry' \in Seq(Entries),
           req'[r].answer = "ok" => req[r].answer = "ok" \/ req[r].phase \in Working,
           r \in changed' => r \in changed \/ (req[r].phase \in Working /\ TakesItsOwn(r))
    PROVE  Lawfully(r)
<1>1. TypesStay(r)
  BY DEF Ends, TypesStay, Lawful, Typed
<1> QED BY <1>1, LeavesLawfully DEF Leaves, Ends

LEMMA NothingElse ==
    ASSUME Lawful, NEW r, UNCHANGED <<stateVars, shut, cold>>
    PROVE  World(r) /\ live' \subseteq Credentials /\ changed' = changed
BY DEF World, stateVars, Lawful, Typed

-----------------------------------------------------------------------------
(* Every step is lawful: at the door.                                       *)

LEMMA RefilledIsTyped ==
    ASSUME Typed, NEW s \in Servers, NEW earned \in 0 .. Burst
    PROVE  Refilled(gates[s], earned) \in GateType
<1> DEFINE tokens == Min({Burst, gates[s].tokens + earned})
<1>1. gates[s] \in GateType /\ gates[s].tokens \in Int
  BY DEF Typed, GateType
<1>2. tokens \in Int
  <2>1. Burst \in Int /\ gates[s].tokens + earned \in Int
    BY <1>1, RequestsAssumption
  <2> QED BY <2>1, MinIsOne
<1>3. Refilled(gates[s], earned) = [gates[s] EXCEPT !.tokens = tokens]
  BY DEF Refilled
<1> HIDE DEF tokens
<1> QED BY <1>1, <1>2, <1>3 DEF GateType

LEMMA AuthenticateLawfully ==
    ASSUME Lawful, NEW r \in Requests, NEW earned \in 0 .. Burst, Authenticate(r, earned)
    PROVE  Lawfully(r)
<1> DEFINE s == Server(r)
           g == Refilled(gates[s], earned)
<1>1. s \in Servers /\ g \in GateType /\ WithAuth(g) \in GateType
  BY PlanIsTyped, RefilledIsTyped, GateIsTyped DEF Lawful
<1>2. Authority(r) /\ Shown(r) /\ Typed
  BY DEF Lawful
<1> HIDE DEF g
<1>3. CASE Takes(r, "resolving", "auth", WithAuth(g))
  <2>1. Stands(r, "resolving", req[r].answer, req[r].holds \cup {"auth"})
    BY <1>3, <1>2, TakesDoes DEF Phases, AllSlots
  <2>2. Quiet(r)
    BY <1>2, <2>1 DEF Authenticate, Quiet, Stands, stateVars
  <2>3. TypesStay(r)
    BY <1>1, <1>2, <1>3, <2>1 DEF Authenticate, TypesStay, Stands, Typed, Takes, stateVars, ledgerVars
  <2>4. Shown(r)'
    BY <1>2, <2>1 DEF Stands, Alone, Shown, Plan, Inside, Working
  <2>5. Authority(r)'
    BY <1>2, <2>1 DEF Authenticate, Stands, Alone, Authority, Opens, Permits, TakesItsOwn, Confirmed, At,
       AtMemory, AtPortal, Server, Plan, Op, Scope, Served, Inside, Working, stateVars
  <2> QED BY <2>2, <2>3, <2>4, <2>5 DEF Lawfully
<1>4. CASE /\ req' = [req EXCEPT ![r].phase = "answered", ![r].answer = "busy"]
           /\ gates' = [gates EXCEPT ![s] = g]
  <2>1. Stands(r, "answered", "busy", req[r].holds)
    BY <1>2, <1>4, TurnedAwayDoes
  <2>2. Quiet(r)
    BY <1>2, <2>1 DEF Authenticate, Quiet, Stands, stateVars
  <2>3. TypesStay(r)
    BY <1>1, <1>2, <1>4, <2>1 DEF Authenticate, TypesStay, Stands, Typed, stateVars, ledgerVars
  <2>4. Shown(r)'
    BY <1>2, <2>1 DEF Stands, Alone, Shown, Plan, Inside, Working
  <2>5. Authority(r)'
    BY <1>2, <2>1 DEF Authenticate, Stands, Alone, Authority, Opens, Permits, TakesItsOwn, Confirmed, At,
       AtMemory, AtPortal, Server, Plan, Op, Scope, Served, Inside, Working, stateVars
  <2> QED BY <2>2, <2>3, <2>4, <2>5 DEF Lawfully
<1> QED BY <1>3, <1>4 DEF Authenticate, g

LEMMA FindSessionLawfully ==
    ASSUME Lawful, NEW r \in Requests, FindSession(r)
    PROVE  Lawfully(r)
<1>1. Authority(r) /\ Shown(r) /\ Typed
  BY DEF Lawful
<1>2. CASE Plan(r).token \in sessions /\ GoesOn(r, "resolving", {})
  <2>1. Stands(r, "resolving", req[r].answer, req[r].holds \ {})
    BY <1>1, <1>2, GoesOnDoes DEF Phases
  <2>2. Quiet(r)
    BY <1>1, <2>1 DEF FindSession, Quiet, Stands, stateVars
  <2>3. gates' \in [Servers -> GateType]
    BY <1>1, <1>2, FreedIsTyped DEF GoesOn
  <2>4. TypesStay(r)
    BY <1>1, <2>1, <2>3 DEF FindSession, TypesStay, Stands, Typed, stateVars, ledgerVars
  <2>5. Shown(r)'
    BY <1>1, <2>1 DEF Stands, Alone, Shown, Plan, Inside, Working
  <2>6. Authority(r)'
    BY <1>1, <1>2, <2>1 DEF FindSession, Stands, Alone, Authority, Opens, Permits, TakesItsOwn, Confirmed, At,
       AtMemory, AtPortal, Server, Plan, Op, Scope, Served, Inside, Working, stateVars
  <2> QED BY <2>2, <2>4, <2>5, <2>6 DEF Lawfully
<1>3. CASE Answers(r, "login")
  <2>1. Stands(r, "answered", "login", {})
    BY <1>1, <1>3, AnswersDoes DEF Replies
  <2>2. Quiet(r)
    BY <1>1, <2>1 DEF FindSession, Quiet, Stands, stateVars
  <2>3. gates' \in [Servers -> GateType]
    BY <1>1, <1>3, FreedIsTyped DEF Answers
  <2>4. TypesStay(r)
    BY <1>1, <2>1, <2>3 DEF FindSession, TypesStay, Stands, Typed, stateVars, ledgerVars
  <2>5. Shown(r)'
    BY <1>1, <2>1 DEF Stands, Alone, Shown, Plan, Inside, Working
  <2>6. Authority(r)'
    BY <1>1, <2>1 DEF FindSession, Stands, Alone, Authority, Opens, Permits, TakesItsOwn, Confirmed, At,
       AtMemory, AtPortal, Server, Plan, Op, Scope, Served, Inside, Working, stateVars
  <2> QED BY <2>2, <2>4, <2>5, <2>6 DEF Lawfully
<1> QED BY <1>2, <1>3 DEF FindSession

\* A request goes on at the door.
LEMMA GoesOnQuietly ==
    ASSUME Lawful, NEW r \in Requests, NEW phase \in Phases \ {"writing", "recording", "appending"}, NEW what \in SUBSET AllSlots,
           GoesOn(r, phase, what), UNCHANGED <<stateVars, budgets, shut, cold, ledgerVars>>,
           phase \in Inside => Plan(r).token \in Credentials
    PROVE  /\ Stands(r, phase, req[r].answer, req[r].holds \ what)
           /\ Quiet(r) /\ TypesStay(r) /\ Shown(r)'
<1>1. Authority(r) /\ Shown(r) /\ Typed
  BY DEF Lawful
<1>2. Stands(r, phase, req[r].answer, req[r].holds \ what)
  BY <1>1, GoesOnDoes
<1>3. Quiet(r)
  BY <1>1, <1>2 DEF Quiet, Stands, stateVars
<1>4. gates' \in [Servers -> GateType]
  BY <1>1, FreedIsTyped DEF GoesOn
<1>5. TypesStay(r)
  BY <1>1, <1>2, <1>4 DEF TypesStay, Stands, Typed, stateVars, ledgerVars
<1>6. Shown(r)'
  BY <1>1, <1>2 DEF Stands, Alone, Shown, Plan
<1> QED BY <1>2, <1>3, <1>5, <1>6

LEMMA AnswersQuietly ==
    ASSUME Lawful, NEW r \in Requests, NEW answer \in Replies,
           Answers(r, answer), UNCHANGED <<stateVars, budgets, shut, cold, ledgerVars>>
    PROVE  /\ Stands(r, "answered", answer, {})
           /\ Quiet(r) /\ TypesStay(r) /\ Shown(r)'
<1>1. Authority(r) /\ Shown(r) /\ Typed
  BY DEF Lawful
<1>2. Stands(r, "answered", answer, {})
  BY <1>1, AnswersDoes
<1>3. Quiet(r)
  BY <1>1, <1>2 DEF Quiet, Stands, stateVars
<1>4. gates' \in [Servers -> GateType]
  BY <1>1, FreedIsTyped DEF Answers
<1>5. TypesStay(r)
  BY <1>1, <1>2, <1>4 DEF TypesStay, Stands, Typed, stateVars, ledgerVars
<1>6. Shown(r)'
  BY <1>1, <1>2 DEF Stands, Alone, Shown, Plan, Inside, Working
<1> QED BY <1>2, <1>3, <1>5, <1>6

LEMMA ResolveLawfully ==
    ASSUME Lawful, NEW r \in Requests, Resolve(r) \/ ResolveFails(r)
    PROVE  Lawfully(r)
<1> USE DEF Phases, Inside, Working, AllSlots, Replies
<1>1. Authority(r) /\ UNCHANGED <<stateVars, budgets, shut, cold, ledgerVars>> /\ At(r, "resolving")
  BY DEF Lawful, Resolve, ResolveFails, SameDoor
<1>2. Resolves(r) => Plan(r).token \in Credentials
  BY DEF Lawful, Typed, Resolves
<1>3. ASSUME NEW what \in SUBSET AllSlots, GoesOn(r, "stranger", what)
      PROVE  Lawfully(r)
  <2>1. Stands(r, "stranger", req[r].answer, req[r].holds \ what) /\ Quiet(r) /\ TypesStay(r) /\ Shown(r)'
    BY <1>1, <1>3, GoesOnQuietly
  <2>2. Authority(r)'
    BY <1>1, <2>1 DEF Stands, Alone, Authority, Opens, Permits, TakesItsOwn, Confirmed, At,
     AtMemory, AtPortal, Server, Plan, Op, Scope, Served, Inside, Working, stateVars
  <2> QED BY <2>1, <2>2 DEF Lawfully
<1>4. CASE Resolves(r) /\ AtMemory(r) /\ GoesOn(r, "checking", {})
  <2>1. Stands(r, "checking", req[r].answer, req[r].holds \ {}) /\ Quiet(r) /\ TypesStay(r) /\ Shown(r)'
    BY <1>1, <1>2, <1>4, GoesOnQuietly
  <2>2. Authority(r)'
    BY <1>1, <1>4, <2>1 DEF Resolves, Stands, Alone, Authority, Opens, Permits, TakesItsOwn, Confirmed, At,
     AtMemory, AtPortal, Server, Plan, Op, Scope, Served, Inside, Working, stateVars
  <2> QED BY <2>1, <2>2 DEF Lawfully
<1>5. CASE /\ Resolves(r) /\ ~AtMemory(r) /\ AtPortal(r) /\ Op(r) = "login"
           /\ Answers(r, "ok")
  <2>1. Stands(r, "answered", "ok", {}) /\ Quiet(r) /\ TypesStay(r) /\ Shown(r)'
    BY <1>1, <1>5, AnswersQuietly
  <2>2. Plan(r).form = "good"
    BY <1>5, PlanIsTyped DEF Lawful, Op
  <2>3. Authority(r)'
    BY <1>1, <1>5, <2>1, <2>2 DEF Resolves, Stands, Alone, Authority, Opens, Permits, TakesItsOwn, Confirmed, At,
     AtMemory, AtPortal, Server, Plan, Op, Scope, Served, Inside, Working, stateVars
  <2> QED BY <2>1, <2>3 DEF Lawfully
<1>6. CASE Resolves(r) /\ ~AtMemory(r) /\ ~AtPortal(r) /\ GoesOn(r, "admitting", {"auth"})
  <2>1. Stands(r, "admitting", req[r].answer, req[r].holds \ {"auth"}) /\ Quiet(r) /\ TypesStay(r) /\ Shown(r)'
    BY <1>1, <1>2, <1>6, GoesOnQuietly
  <2>2. Authority(r)'
    BY <1>1, <1>6, <2>1 DEF Resolves, Stands, Alone, Authority, Opens, Permits, TakesItsOwn, Confirmed, At,
     AtMemory, AtPortal, Server, Plan, Op, Scope, Served, Inside, Working, stateVars
  <2> QED BY <2>1, <2>2 DEF Lawfully
<1>7. CASE Answers(r, "failed")
  <2>1. Stands(r, "answered", "failed", {}) /\ Quiet(r) /\ TypesStay(r) /\ Shown(r)'
    BY <1>1, <1>7, AnswersQuietly
  <2>2. Authority(r)'
    BY <1>1, <2>1 DEF Stands, Alone, Authority, Opens, Permits, TakesItsOwn, Confirmed, At,
     AtMemory, AtPortal, Server, Plan, Op, Scope, Served, Inside, Working, stateVars
  <2> QED BY <2>1, <2>2 DEF Lawfully
<1> QED BY <1>3, <1>4, <1>5, <1>6, <1>7 DEF Resolve, ResolveFails, AtPortal, AtMemory, Server, Op

LEMMA ResolveSessionLawfully ==
    ASSUME Lawful, NEW r \in Requests, ResolveSession(r)
    PROVE  Lawfully(r)
<1> USE DEF Phases, Inside, Working, AllSlots, Replies
<1>1. Authority(r) /\ UNCHANGED <<stateVars, budgets, shut, cold, ledgerVars>> /\ At(r, "resolving") /\ AtPortal(r)
  BY DEF Lawful, ResolveSession
<1>2. CASE Resolves(r) /\ GoesOn(r, "acting", {})
  <2>1. Plan(r).token \in Credentials
    BY <1>2 DEF Lawful, Typed, Resolves
  <2>2. Stands(r, "acting", req[r].answer, req[r].holds \ {}) /\ Quiet(r) /\ TypesStay(r) /\ Shown(r)'
    BY <1>1, <1>2, <2>1, GoesOnQuietly
  <2>3. Authority(r)'
    BY <1>1, <1>2, <2>2 DEF Resolves, Stands, Alone, Authority, Opens, Permits, TakesItsOwn, Confirmed, At,
     AtMemory, AtPortal, Server, Plan, Op, Scope, Served, Inside, Working, stateVars
  <2> QED BY <2>2, <2>3 DEF Lawfully
<1>3. CASE Answers(r, "login")
  <2>1. Stands(r, "answered", "login", {}) /\ Quiet(r) /\ TypesStay(r) /\ Shown(r)'
    BY <1>1, <1>3, AnswersQuietly
  <2>2. Authority(r)'
    BY <1>1, <2>1 DEF Stands, Alone, Authority, Opens, Permits, TakesItsOwn, Confirmed, At,
     AtMemory, AtPortal, Server, Plan, Op, Scope, Served, Inside, Working, stateVars
  <2> QED BY <2>1, <2>2 DEF Lawfully
<1> QED BY <1>2, <1>3 DEF ResolveSession

LEMMA ActLawfully ==
    ASSUME Lawful, NEW r \in Requests, Act(r)
    PROVE  Lawfully(r)
<1> USE DEF Phases, Inside, Working, AllSlots, Replies
<1>1. /\ Authority(r) /\ Shown(r) /\ Typed /\ UNCHANGED <<stateVars, budgets, shut, cold, ledgerVars>>
      /\ At(r, "acting") /\ AtPortal(r)
  BY DEF Lawful, Act, SameDoor, Authority
<1>2. Plan(r).token \in Credentials
  BY <1>1 DEF Shown, At
<1>3. CASE /\ Plan(r).form # "forged" /\ Confirmed(r)
           /\ GoesOn(r, "running", {})
  <2>1. Stands(r, "running", req[r].answer, req[r].holds \ {}) /\ Quiet(r) /\ TypesStay(r) /\ Shown(r)'
    BY <1>1, <1>2, <1>3, GoesOnQuietly
  <2>2. Authority(r)'
    BY <1>1, <1>3, <2>1 DEF Stands, Alone, Authority, Opens, Permits, TakesItsOwn, Confirmed, At,
     AtMemory, AtPortal, Server, Plan, Op, Scope, Served, Inside, Working, stateVars
  <2> QED BY <2>1, <2>2 DEF Lawfully
<1>4. ASSUME NEW project \in ProjectKeys, Records(r, Outcome(r, project, "refused", 0), "refused")
      PROVE  Lawfully(r)
  <2>1. Ends(r) /\ req'[r].answer = "refused"
    BY <1>1, <1>4, OutcomeIsTyped, RecordsEnds
  <2>2. World(r) /\ live' \subseteq Credentials /\ changed' = changed
    BY <1>1, NothingElse
  <2>3. entry' \in Seq(Entries) /\ budgets' \in [Servers -> [samples : Nat, suppressed : Nat]]
    BY <1>1 DEF Typed, ledgerVars
  <2> QED BY <2>1, <2>2, <2>3, EndsLawfully
<1>5. "" \in ProjectKeys /\ Plan(r).project \in ProjectKeys
  BY <1>1, PlanIsTyped DEF ProjectKeys
<1> QED BY <1>3, <1>4, <1>5 DEF Act, Confirmed, Op

LEMMA BudgetIsTyped ==
    ASSUME Typed, NEW s \in Servers, NEW minutePassed \in BOOLEAN
    PROVE  LET b == Renewed(budgets[s], minutePassed)
               Types == [samples : Nat, suppressed : Nat]
           IN  b.suppressed + 1 \in Nat /\ Sampled(b) \in Types /\ Suppressed(b) \in Types
<1> DEFINE b == Renewed(budgets[s], minutePassed)
           more == Min({MaxSuppressed, b.suppressed + 1})
<1>1. b \in [samples : Nat, suppressed : Nat]
  BY DEF Typed, Renewed
<1>2. more \in Nat
  <2> DEFINE next == b.suppressed + 1
  <2>1. MaxSuppressed \in Nat /\ next \in Nat
    BY <1>1, RequestsAssumption
  <2> HIDE DEF next
  <2>2. Min({MaxSuppressed, next}) \in {MaxSuppressed, next}
    BY <2>1, MinIsOne
  <2> QED BY <2>1, <2>2 DEF next
<1>3. Suppressed(b) = [b EXCEPT !.suppressed = more]
  BY DEF Suppressed
<1> HIDE DEF b, more
<1>4. b.suppressed + 1 \in Nat /\ Sampled(b) \in [samples : Nat, suppressed : Nat]
  BY <1>1 DEF Sampled
<1>5. Suppressed(b) \in [samples : Nat, suppressed : Nat]
  BY <1>1, <1>2, <1>3
<1> QED BY <1>4, <1>5 DEF b

LEMMA SampleDoes ==
    ASSUME Typed, NEW r \in Requests, NEW row \in Rows, NEW gate \in GateType,
           req' = [req EXCEPT ![r].phase = "recording", ![r].holds = @ \cup {"audit"},
                              ![r].row = row, ![r].answer = "unauthenticated"],
           gates' = [gates EXCEPT ![Server(r)] = gate]
    PROVE  /\ Stands(r, "recording", "unauthenticated", req[r].holds \cup {"audit"})
           /\ req'[r].row = row /\ req'[r].left = req[r].left /\ req'[r].numbers = req[r].numbers
           /\ gates' \in [Servers -> GateType]
<1>1. gates' \in [Servers -> GateType]
  BY PlanIsTyped DEF Typed
<1> DEFINE holds == req[r].holds \cup {"audit"}
<1>2. holds \in SUBSET AllSlots
  BY DEF Typed, RequestType, AllSlots
<1>3. Becomes(r, "recording", holds, row, "unauthenticated")
  BY DEF Becomes
<1> HIDE DEF holds
<1>4. /\ Stands(r, "recording", "unauthenticated", holds)
      /\ req'[r].row = row /\ req'[r].left = req[r].left /\ req'[r].numbers = req[r].numbers
  BY <1>2, <1>3, ChangedDoes DEF Phases, Replies
<1> QED BY <1>1, <1>4 DEF holds

\* The row of a stranger, or of a stranger to its own project.
LEMMA StrangersRowIsTyped ==
    ASSUME Typed, NEW r \in Requests, NEW magnitude \in Nat
    PROVE  /\ Row(r, "authenticate", "unresolved", "", "refused", magnitude) \in Rows
           /\ Plan(r).token \in Credentials =>
                  Row(r, "authenticate", Plan(r).token, Scope(r), "refused", magnitude) \in Rows
<1>1. "authenticate" \in Names
  BY DEF Names, RecordableOperation
<1>2. "" \in ProjectKeys
  BY DEF ProjectKeys
<1>3. Row(r, "authenticate", "unresolved", "", "refused", magnitude) \in Rows
  BY <1>1, <1>2, RowIsTyped
<1>4. ASSUME Plan(r).token \in Credentials
      PROVE  Row(r, "authenticate", Plan(r).token, Scope(r), "refused", magnitude) \in Rows
  BY <1>1, <1>4, ScopeIsTyped, RowIsTyped
<1> QED BY <1>3, <1>4

LEMMA SampleLawfully ==
    ASSUME Lawful, NEW r \in Requests, NEW minutePassed \in BOOLEAN, Sample(r, minutePassed)
    PROVE  Lawfully(r)
<1> DEFINE s == Server(r)
           b == Renewed(budgets[s], minutePassed)
           row == Row(r, "authenticate", "unresolved", "", "refused", b.suppressed + 1)
           Types == [samples : Nat, suppressed : Nat]
<1>1. /\ Authority(r) /\ Shown(r) /\ Typed /\ UNCHANGED <<stateVars, shut, cold, ledgerVars>>
      /\ At(r, "stranger")
  BY DEF Lawful, Sample
<1>2. s \in Servers /\ gates[s] \in GateType /\ WithAudit(gates[s]) \in GateType
  BY <1>1, PlanIsTyped, GateIsTyped DEF Typed
<1>3. b.suppressed + 1 \in Nat /\ Sampled(b) \in Types /\ Suppressed(b) \in Types
  BY <1>1, <1>2, BudgetIsTyped
<1>4. row \in Rows
  BY <1>1, <1>3, StrangersRowIsTyped
<1> HIDE DEF b, row
<1>5. budgets' \in [Servers -> Types]
  BY <1>1, <1>2, <1>3 DEF Sample, Typed, b
<1>6. World(r) /\ live' \subseteq Credentials /\ changed' = changed /\ entry' \in Seq(Entries)
  BY <1>1, NothingElse DEF Typed, ledgerVars
<1>7. CASE Answers(r, "unauthenticated")
  <2>1. Ends(r) /\ req'[r].answer = "unauthenticated"
    BY <1>7, AnswersEnds DEF Replies
  <2> QED BY <2>1, <1>5, <1>6, EndsLawfully
<1>8. CASE /\ req' = [req EXCEPT ![r].phase = "recording", ![r].holds = @ \cup {"audit"},
                                  ![r].row = row, ![r].answer = "unauthenticated"]
           /\ gates' = [gates EXCEPT ![s] = WithAudit(@)]
  <2>1. gates' = [gates EXCEPT ![s] = WithAudit(gates[s])]
    BY <1>8
  <2>2. /\ Stands(r, "recording", "unauthenticated", req[r].holds \cup {"audit"})
        /\ gates' \in [Servers -> GateType] /\ req'[r].row = row
    BY <1>1, <1>2, <1>4, <1>8, <2>1, SampleDoes
  <2>3. Ends(r) /\ req'[r].answer = "unauthenticated"
    BY <1>1, <1>4, <2>2 DEF Ends, Stands, Alone, Shown, Plan, Inside, Working
  <2> QED BY <2>3, <1>5, <1>6, EndsLawfully
<1> QED BY <1>7, <1>8 DEF Sample, b, row

LEMMA LoopsDoes ==
    ASSUME Typed, NEW r \in Requests,
           req' = [req EXCEPT ![r].phase = "new", ![r].inner = TRUE, ![r].holds = {}]
    PROVE  Stands(r, "new", req[r].answer, {}) /\ Writes(r)
BY DEF Typed, RequestType, Stands, Alone, Writes, Phases

LEMMA CheckActiveLawfully ==
    ASSUME Lawful, NEW r \in Requests, CheckActive(r)
    PROVE  Lawfully(r)
<1> USE DEF Phases, Inside, Working, AllSlots, Replies
<1>1. /\ Authority(r) /\ Shown(r) /\ Typed /\ UNCHANGED <<stateVars, budgets, shut, cold, ledgerVars>>
      /\ At(r, "checking")
  BY DEF Lawful, CheckActive, SameDoor
<1>2. Plan(r).token \in Credentials
  BY <1>1 DEF Shown, At
<1>3. World(r) /\ live' \subseteq Credentials /\ changed' = changed /\ entry' \in Seq(Entries)
      /\ budgets' \in [Servers -> [samples : Nat, suppressed : Nat]]
  BY <1>1, NothingElse DEF Typed, ledgerVars
<1>4. CASE Answers(r, "failed")
  <2>1. Ends(r) /\ req'[r].answer = "failed"
    BY <1>4, AnswersEnds
  <2> QED BY <2>1, <1>3, EndsLawfully
<1>5. CASE /\ Scope(r) \in active
           /\ req' = [req EXCEPT ![r].phase = "new", ![r].inner = TRUE, ![r].holds = {}]
           /\ gates' = Freed(r, {"auth"})
  <2>1. Stands(r, "new", req[r].answer, {}) /\ gates' \in [Servers -> GateType]
    BY <1>1, <1>5, LoopsDoes, FreedIsTyped
  <2>2. Quiet(r) /\ TypesStay(r)
    BY <1>1, <1>3, <2>1 DEF Quiet, TypesStay, Stands, stateVars, Typed
  <2>3. Shown(r)'
    BY <1>1, <2>1 DEF Stands, Alone, Shown, Plan
  <2>4. Authority(r)'
    BY <1>1, <1>5, <2>1 DEF Stands, Alone, Authority, Opens, Permits, TakesItsOwn, Confirmed, At,
     AtMemory, AtPortal, Server, Plan, Op, Scope, Served, Inside, Working, stateVars
  <2> QED BY <2>2, <2>3, <2>4 DEF Lawfully
<1>6. CASE Scope(r) \in active /\ GoesOn(r, "admitting", {"auth"})
  <2>1. Stands(r, "admitting", req[r].answer, req[r].holds \ {"auth"}) /\ Quiet(r) /\ TypesStay(r) /\ Shown(r)'
    BY <1>1, <1>2, <1>6, GoesOnQuietly
  <2>2. Authority(r)'
    BY <1>1, <1>6, <2>1 DEF Stands, Alone, Authority, Opens, Permits, TakesItsOwn, Confirmed, At,
     AtMemory, AtPortal, Server, Plan, Op, Scope, Served, Inside, Working, stateVars
  <2> QED BY <2>1, <2>2 DEF Lawfully
<1>7. CASE Records(r, Row(r, "authenticate", Plan(r).token, Scope(r), "refused", 0), "unauthenticated")
  <2>1. Row(r, "authenticate", Plan(r).token, Scope(r), "refused", 0) \in Rows
    BY <1>1, <1>2, StrangersRowIsTyped
  <2>2. Ends(r) /\ req'[r].answer = "unauthenticated"
    BY <1>7, <2>1, RecordsEnds
  <2> QED BY <2>2, <1>3, EndsLawfully
<1> QED BY <1>4, <1>5, <1>6, <1>7 DEF CheckActive

LEMMA AdmitDoes ==
    ASSUME Typed, NEW r \in Requests, NEW row \in Rows, NEW allowed \in BOOLEAN,
           req' = [req EXCEPT ![r].holds = @ \cup {"work"},
                      ![r].phase = IF allowed THEN "running" ELSE "recording",
                      ![r].row = IF allowed THEN None ELSE row,
                      ![r].answer = IF allowed THEN None ELSE "forbidden"]
    PROVE  /\ Alone(r) /\ req'[r].holds = req[r].holds \cup {"work"}
           /\ req'[r].phase = IF allowed THEN "running" ELSE "recording"
           /\ req'[r].row = IF allowed THEN None ELSE row
           /\ req'[r].answer = IF allowed THEN None ELSE "forbidden"
           /\ req'[r].left = req[r].left /\ req'[r].numbers = req[r].numbers
<1> DEFINE holds == req[r].holds \cup {"work"}
           phase == IF allowed THEN "running" ELSE "recording"
           what == IF allowed THEN None ELSE row
           answer == IF allowed THEN None ELSE "forbidden"
<1>1. holds \in SUBSET AllSlots
  BY DEF Typed, RequestType, AllSlots
<1>2. phase \in Phases /\ what \in Rows \cup {None} /\ answer \in Replies \cup {None}
  BY DEF Phases, Inside, Working, Replies
<1>3. Becomes(r, phase, holds, what, answer)
  BY DEF Becomes, Typed
<1> HIDE DEF holds, phase, what, answer
<1>4. /\ Stands(r, phase, answer, holds)
      /\ req'[r].row = what /\ req'[r].left = req[r].left /\ req'[r].numbers = req[r].numbers
  BY <1>1, <1>2, <1>3, ChangedDoes
<1> QED BY <1>4 DEF Stands, holds, phase, what, answer

LEMMA AdmitLawfully ==
    ASSUME Lawful, NEW r \in Requests, Admit(r)
    PROVE  Lawfully(r)
<1> DEFINE s == Server(r)
           allowed == AtMemory(r) => permitted(AccessOf[Plan(r).token], Plan(r).op)
           row == Outcome(r, Scope(r), "refused", 0)
<1>1. /\ Authority(r) /\ Shown(r) /\ Typed /\ UNCHANGED <<stateVars, budgets, shut, cold, ledgerVars>>
      /\ At(r, "admitting")
  BY DEF Lawful, Admit, SameDoor
<1>2. Plan(r).token \in Credentials
  BY <1>1 DEF Shown, At, Inside
<1>3. World(r) /\ live' \subseteq Credentials /\ changed' = changed /\ entry' \in Seq(Entries)
      /\ budgets' \in [Servers -> [samples : Nat, suppressed : Nat]]
  BY <1>1, NothingElse DEF Typed, ledgerVars
<1>4. CASE Answers(r, "busy")
  <2>1. Ends(r) /\ req'[r].answer = "busy"
    BY <1>4, AnswersEnds DEF Replies
  <2> QED BY <2>1, <1>3, EndsLawfully
<1>5. CASE /\ gates' = [gates EXCEPT ![s] = WithWork(@, WorkKey(r), Plan(r).token)]
           /\ req' = [req EXCEPT ![r].holds = @ \cup {"work"},
                      ![r].phase = IF allowed THEN "running" ELSE "recording",
                      ![r].row = IF allowed THEN None ELSE row,
                      ![r].answer = IF allowed THEN None ELSE "forbidden"]
  <2>1. row \in Rows
    BY <1>1, <1>2, ScopeIsTyped, OutcomeIsTyped
  <2>2. allowed \in BOOLEAN
    BY DEF permitted
  <2>3. s \in Servers /\ gates[s] \in GateType
    BY <1>1, PlanIsTyped DEF Typed
  <2>4. WithWork(gates[s], WorkKey(r), Plan(r).token) \in GateType
    BY <1>1, <1>2, <2>3, ScopeIsTyped, ShiftedIsTyped DEF WithWork
  <2>5. gates' \in [Servers -> GateType]
    BY <1>1, <1>5, <2>3, <2>4 DEF Typed
  <2>6. /\ Alone(r) /\ req'[r].holds = req[r].holds \cup {"work"}
        /\ req'[r].phase = IF allowed THEN "running" ELSE "recording"
        /\ req'[r].row = IF allowed THEN None ELSE row
        /\ req'[r].answer = IF allowed THEN None ELSE "forbidden"
    BY <1>1, <1>5, <2>1, <2>2, AdmitDoes
  <2>7. Quiet(r) /\ TypesStay(r)
    BY <1>1, <1>3, <2>1, <2>5, <2>6 DEF Quiet, TypesStay, stateVars, Typed
  <2>8. Shown(r)'
    BY <1>2, <2>6 DEF Alone, Shown, Plan
  <2>9. Authority(r)'
    BY <1>1, <2>6, RequestsAssumption DEF Stands, Alone, Authority, Opens, Permits, TakesItsOwn, Confirmed, At,
     AtMemory, AtPortal, Server, Plan, Op, Scope, Served, Inside, Working, stateVars
  <2> QED BY <2>7, <2>8, <2>9 DEF Lawfully
<1> QED BY <1>4, <1>5 DEF Admit

-----------------------------------------------------------------------------
(* Every step is lawful: what the operation does.                           *)

Concludes(r) ==
    \/ Declined(r) \/ Failed(r)
    \/ \E m \in Nat : Allowed(r, m)
    \/ \E answer \in Replies : Answers(r, answer)

LEMMA ConcludesLawfully ==
    ASSUME Lawful, NEW r \in Requests, req[r].phase \in Working, Concludes(r), World(r),
           budgets' = budgets, live' \subseteq Credentials, entry' \in Seq(Entries),
           r \in changed' => r \in changed \/ TakesItsOwn(r)
    PROVE  Lawfully(r)
<1>1. Ends(r)
  BY AllowedEnds, RefusesEnds, AnswersEnds DEF Concludes
<1>2. budgets' \in [Servers -> [samples : Nat, suppressed : Nat]]
  BY DEF Lawful, Typed
<1> QED BY <1>1, <1>2, EndsLawfully

\* What has no effect but the row.
LEMMA EffectlessLawfully ==
    ASSUME Lawful, NEW r \in Requests, req[r].phase \in Working, Concludes(r),
           UNCHANGED stateVars, SameDoor, entry' \in Seq(Entries)
    PROVE  Lawfully(r)
<1>1. World(r) /\ live' \subseteq Credentials /\ changed' = changed
  BY NothingElse DEF SameDoor
<1> QED BY <1>1, ConcludesLawfully DEF SameDoor

LEMMA SameLedger ==
    ASSUME Lawful, UNCHANGED ledgerVars PROVE entry' \in Seq(Entries)
BY DEF Lawful, Typed, ledgerVars

LEMMA DidConcludes ==
    ASSUME NEW r, Op(r) \in DOMAIN Handlers, Did(r)
    PROVE  Concludes(r) /\ changed' = changed \cup {r}
<1>1. Counts(r) \subseteq Nat
  BY HandlersAreKnown DEF Counts
<1> QED BY <1>1 DEF Did, Concludes

LEMMA PlainLawfully ==
    ASSUME Lawful, NEW r \in Requests,
           Malformed(r) \/ Read(r) \/ Preview(r) \/ TellVerdict(r)
    PROVE  Lawfully(r)
<1>1. Concludes(r)
  BY DEF Malformed, Read, Preview, TellVerdict, Concludes, Allowed, Replies
<1>2. UNCHANGED <<stateVars, ledgerVars>> /\ SameDoor /\ req[r].phase \in Working
  BY DEF Malformed, Read, Preview, TellVerdict, At, Working
<1> QED BY <1>1, <1>2, EffectlessLawfully, SameLedger

LEMMA ChangeLawfully ==
    ASSUME Lawful, NEW r \in Requests, Change(r)
    PROVE  Lawfully(r)
<1>1. Op(r) \in DOMAIN Handlers /\ req[r].phase \in Working
  BY DEF Change, HandlerRecorded, At, Working
<1>2. TakesItsOwn(r)
  BY DEF Change, Special, TakesItsOwn
<1>3. Concludes(r)
  BY <1>1, DidConcludes DEF Change, Replayed, Concludes
<1>4. changed' \subseteq changed \cup {r} /\ changed \subseteq changed'
  BY <1>1, DidConcludes DEF Change, Replayed
<1>5. World(r) /\ live' \subseteq Credentials /\ budgets' = budgets
  BY <1>4 DEF Change, SameDoor, World, Lawful, Typed
<1> QED BY <1>1, <1>2, <1>3, <1>5, ConcludesLawfully, SameLedger DEF Change

LEMMA SetSuspendedLawfully ==
    ASSUME Lawful, NEW r \in Requests, SetSuspended(r)
    PROVE  Lawfully(r)
<1>1. Op(r) \in DOMAIN Handlers /\ req[r].phase \in Working
  BY HandlersAreKnown DEF SetSuspended, HandlerRecorded, Special, At, Working
<1>2. TakesItsOwn(r)
  BY DEF SetSuspended, TakesItsOwn
<1>3. Concludes(r)
  BY <1>1, DidConcludes DEF SetSuspended, Concludes
<1>4. changed' \subseteq changed \cup {r} /\ changed \subseteq changed'
  BY <1>1, DidConcludes DEF SetSuspended
<1>5. shut' \subseteq shut /\ \A q \in shut' : Scope(q) \in active' => Scope(q) \in active
  BY DEF SetSuspended
<1>6. World(r) /\ live' \subseteq Credentials /\ budgets' = budgets
  BY <1>4, <1>5 DEF SetSuspended, World, Lawful, Typed
<1> QED BY <1>1, <1>2, <1>3, <1>6, ConcludesLawfully, SameLedger DEF SetSuspended

LEMMA RevokeCredentialLawfully ==
    ASSUME Lawful, NEW r \in Requests, RevokeCredential(r)
    PROVE  Lawfully(r)
<1>1. Op(r) \in DOMAIN Handlers /\ req[r].phase \in Working
  BY HandlersAreKnown DEF RevokeCredential, HandlerRecorded, Special, At, Working
<1>2. r \in changed' => r \in changed \/ TakesItsOwn(r)
  BY DEF RevokeCredential, Revocable, TakesItsOwn
<1>3. Concludes(r)
  BY <1>1, DidConcludes DEF RevokeCredential, Concludes
<1>4. changed' \subseteq changed \cup {r} /\ changed \subseteq changed'
  BY <1>1, DidConcludes DEF RevokeCredential
<1>5. World(r) /\ live' \subseteq Credentials /\ budgets' = budgets
  BY <1>4 DEF RevokeCredential, SameDoor, World, Lawful, Typed
<1> QED BY <1>1, <1>2, <1>3, <1>5, ConcludesLawfully, SameLedger DEF RevokeCredential

LEMMA MintLawfully ==
    ASSUME Lawful, NEW r \in Requests, Mint(r)
    PROVE  Lawfully(r)
<1>1. Op(r) = "credential.issue" /\ req[r].phase \in Working
  BY DEF Mint, Lawful, Authority, At, Working
<1>2. Op(r) \in DOMAIN Handlers /\ TakesItsOwn(r)
  BY <1>1, HandlersAreKnown DEF HandlerRecorded, Special, TakesItsOwn
<1>3. Concludes(r)
  BY <1>2, DidConcludes DEF Mint, Concludes
<1>4. changed' \subseteq changed \cup {r} /\ changed \subseteq changed'
  BY <1>2, DidConcludes DEF Mint
<1>5. \A t \in (Credentials \ Unissued) \cup {None} : t \in live' => t \in live
  BY RequestsAssumption DEF Mint
<1>6. World(r) /\ live' \subseteq Credentials /\ budgets' = budgets
  BY <1>4, <1>5, RequestsAssumption DEF Mint, SameDoor, World, Lawful, Typed
<1> QED BY <1>1, <1>2, <1>3, <1>6, ConcludesLawfully, SameLedger DEF Mint

LEMMA CheckProjectLawfully ==
    ASSUME Lawful, NEW r \in Requests, CheckProject(r)
    PROVE  Lawfully(r)
<1>1. UNCHANGED <<stateVars, ledgerVars, budgets, shut, cold>> /\ SameDoor /\ At(r, "running")
  BY DEF CheckProject, SameDoor
<1>2. CASE GoesOn(r, "minting", {})
  <2>1. Plan(r).token \in Credentials
    BY <1>1 DEF Lawful, Shown, At, Inside, Working
  <2>2. Stands(r, "minting", req[r].answer, req[r].holds \ {}) /\ TypesStay(r)
    BY <1>1, <1>2, <2>1, GoesOnQuietly DEF Phases, Inside, Working
  <2>3. Stays(r)
    BY <1>1, <2>2 DEF CheckProject, Stays, Stands, At, Working, stateVars
  <2> QED BY <1>1, <2>3, NothingElse, StaysLawfully
<1>3. CASE Declined(r)
  BY <1>1, <1>3, EffectlessLawfully, SameLedger DEF Concludes, At, Working
<1> QED BY <1>2, <1>3 DEF CheckProject

LEMMA GoesToWork ==
    ASSUME Lawful, NEW r \in Requests, NEW phase \in Working, At(r, "running"),
           GoesOn(r, phase, {}), UNCHANGED stateVars, SameDoor, entry' \in Seq(Entries),
           phase = "sealing" => Op(r) = "audit.seal",
           phase = "verifying" => Op(r) = "audit.verify",
           phase \in {"running", "sealing", "verifying"}
    PROVE  Lawfully(r)
<1>1. Typed /\ Shown(r)
  BY DEF Lawful
<1>2. Stands(r, phase, req[r].answer, req[r].holds \ {})
  BY <1>1, GoesOnDoes DEF Phases, Inside
<1>3. gates' \in [Servers -> GateType]
  BY <1>1, FreedIsTyped DEF GoesOn
<1>4. TypesStay(r)
  BY <1>1, <1>2, <1>3 DEF TypesStay, Stands, SameDoor, stateVars, Typed
<1>5. Stays(r)
  BY <1>2, <1>4 DEF Stays, Stands, At, Working, stateVars
<1> QED BY <1>5, NothingElse, StaysLawfully DEF SameDoor

LEMMA SealingLawfully ==
    ASSUME Lawful, NEW r \in Requests,
           AskSeal(r) \/ Seal(r) \/ GiveUpSeal(r)
    PROVE  Lawfully(r)
<1>1. entry' = entry /\ entry' \in Seq(Entries)
  BY DEF AskSeal, Seal, GiveUpSeal, WaitToSeal, SealNow, LeaveQueue, Lawful, Typed
<1>2. CASE AskSeal(r)
  BY <1>1, <1>2, GoesToWork DEF AskSeal, Working
<1>3. CASE Seal(r)
  <2>1. req[r].phase \in Working /\ Op(r) = "audit.seal"
    BY <1>3 DEF Seal, Lawful, Authority, At, Working
  <2>2. Concludes(r) /\ TakesItsOwn(r)
    BY <1>3, <2>1 DEF Seal, Concludes, TakesItsOwn
  <2>3. World(r) /\ live' \subseteq Credentials /\ budgets' = budgets
    BY <1>3 DEF Seal, SameDoor, World, Lawful, Typed
  <2> QED BY <1>1, <2>1, <2>2, <2>3, ConcludesLawfully
<1>4. CASE GiveUpSeal(r)
  BY <1>1, <1>4, EffectlessLawfully DEF GiveUpSeal, Concludes, At, Working
<1> QED BY <1>2, <1>3, <1>4

LEMMA VerifyingLawfully ==
    ASSUME Lawful, NEW r \in Requests,
           StartVerify(r) \/ VerifySeal(r) \/ VerifyRest(r) \/ VerifyFails(r)
    PROVE  Lawfully(r)
<1>1. entry' = entry /\ entry' \in Seq(Entries)
  BY DEF StartVerify, VerifySeal, VerifyRest, VerifyFails, ReadSeals, CheckSeal, CountUnsealed,
     AbandonCheck, Lawful, Typed
<1>2. CASE StartVerify(r)
  BY <1>1, <1>2, GoesToWork DEF StartVerify, Working
<1>3. CASE VerifySeal(r) \/ VerifyRest(r)
  <2>1. UNCHANGED <<req, gates, stateVars>> /\ SameDoor /\ At(r, "verifying")
    BY <1>3 DEF VerifySeal, VerifyRest
  <2>2. Alone(r)
    BY <2>1 DEF Alone, Lawful, Typed
  <2>3. TypesStay(r)
    BY <1>1, <2>1 DEF TypesStay, SameDoor, stateVars, Lawful, Typed, At
  <2>4. Stays(r)
    BY <2>1, <2>2, <2>3 DEF Stays, Lawful, Authority, At, Working, stateVars
  <2> QED BY <2>1, <2>4, NothingElse, StaysLawfully DEF SameDoor
<1>4. CASE VerifyFails(r)
  BY <1>1, <1>4, EffectlessLawfully DEF VerifyFails, Concludes, At, Working
<1> QED BY <1>2, <1>3, <1>4

-----------------------------------------------------------------------------
(* Every step is lawful: the stores, the row, and what happens besides.     *)

\* The rest of what is left ends as it did, until nothing is.
LEMMA LastIsLeft ==
    ASSUME NEW S, NEW left \in Seq(S), left # << >>
    PROVE  /\ Head(left) \in S
           /\ IF Tail(left) = << >> THEN Head(left) = left[Len(left)]
              ELSE Tail(left)[Len(Tail(left))] = left[Len(left)]
<1>1. Len(left) \in Nat /\ Len(left) >= 1
  OBVIOUS
<1>2. Head(left) = left[1] /\ left[1] \in S /\ Tail(left) \in Seq(S)
  BY <1>1
<1>3. Len(Tail(left)) = Len(left) - 1 /\ \A i \in 1 .. Len(left) - 1 : Tail(left)[i] = left[i + 1]
  BY <1>1
<1>4. Tail(left) = << >> => Len(left) = 1
  <2>1. Len(<< >>) = 0
    OBVIOUS
  <2>2. Tail(left) = << >> => Len(Tail(left)) = 0
    BY <2>1, Zenon
  <2>3. Len(left) - 1 = 0 => Len(left) = 1
    BY <1>1
  <2> QED BY <1>3, <2>2, <2>3
<1>5. Tail(left) # << >> => Len(left) - 1 \in 1 .. Len(left) - 1
  BY <1>1, <1>2, <1>3
<1> QED BY <1>2, <1>3, <1>4, <1>5

\* A transaction names operations of the table, this one's last, and what it
\* counts as done it allowed.
LEMMA StoreIsKnown ==
    ASSUME NEW r, Op(r) \in StoreRecorded, NEW ops \in Handlers[Op(r)].rows, NEW v \in Verdicts(r)
    PROVE  /\ ops \in Seq(RecordableOperation) /\ ops # << >> /\ ops[Len(ops)] = Op(r)
           /\ Head(ops) \in RecordableOperation /\ Tail(ops) \in Seq(RecordableOperation)
           /\ IF Tail(ops) = << >> THEN Head(ops) = Op(r) ELSE Tail(ops)[Len(Tail(ops))] = Op(r)
           /\ v[1] \in {"allowed", "refused"} /\ v[2] \in Nat
           /\ v[2] > 0 => v[1] = "allowed"
<1>1. Op(r) \in DOMAIN Handlers
  BY DEF StoreRecorded
<1>2. ops \in Seq(RecordableOperation) /\ ops # << >> /\ ops[Len(ops)] = Op(r)
  BY <1>1, HandlersAreKnown
<1>3. /\ Head(ops) \in RecordableOperation /\ Tail(ops) \in Seq(RecordableOperation)
      /\ IF Tail(ops) = << >> THEN Head(ops) = Op(r) ELSE Tail(ops)[Len(Tail(ops))] = Op(r)
  <2>1. Tail(ops) \in Seq(RecordableOperation)
    BY <1>2
  <2> QED BY <1>2, <2>1, LastIsLeft
<1>4. v[1] \in {"allowed", "refused"} /\ v[2] \in Nat /\ (v[2] > 0 => v[1] = "allowed")
  BY <1>1, HandlersAreKnown DEF Verdicts
<1> QED BY <1>2, <1>3, <1>4

LEMMA OpenStoreDoes ==
    ASSUME Typed, NEW r \in Requests, NEW row \in Rows, NEW left \in Seq(RecordableOperation),
           req' = [req EXCEPT ![r].phase = "writing", ![r].row = row, ![r].left = left,
                              ![r].numbers = {Len(entry) + 1}]
    PROVE  /\ Stands(r, "writing", req[r].answer, req[r].holds)
           /\ req'[r].row = row /\ req'[r].left = left /\ req'[r].numbers = {Len(entry) + 1}
<1> DEFINE was == req[r]
           numbers == {Len(entry) + 1}
           new == [was EXCEPT !.phase = "writing", !.row = row, !.left = left, !.numbers = numbers]
<1>1. req' = [req EXCEPT ![r] = new] /\ was \in RequestType /\ numbers \in SUBSET Nat
  <2>1. Len(entry) + 1 \in Nat
    BY DEF Typed
  <2>2. req' = [req EXCEPT ![r] = new] /\ was \in RequestType
    BY DEF Typed
  <2> QED BY <2>1, <2>2
<1> HIDE DEF was, numbers
<1>2. new \in RequestType
  BY <1>1 DEF RequestType, Phases, Inside, Working
<1>3. /\ new.plan = was.plan /\ new.phase = "writing" /\ new.holds = was.holds /\ new.row = row
      /\ new.answer = was.answer /\ new.left = left /\ new.numbers = numbers
  BY <1>1 DEF RequestType
<1> HIDE DEF new
<1>4. req' \in [Requests -> RequestType] /\ req'[r] = new /\ \A q \in Requests : q # r => req'[q] = req[q]
  BY <1>1, <1>2 DEF Typed
<1> QED BY <1>3, <1>4 DEF Stands, Alone, was, numbers

LEMMA RenamedIsTyped ==
    ASSUME NEW row \in Rows, NEW op \in RecordableOperation
    PROVE  [row EXCEPT !.op = op] \in Rows
BY DEF Rows, Names

LEMMA OpenStoreLawfully ==
    ASSUME Lawful, NEW r \in Requests, OpenStore(r)
    PROVE  Lawfully(r)
<1>1. /\ Op(r) \in StoreRecorded /\ At(r, "running") /\ UNCHANGED <<gates, stateVars>> /\ SameDoor
      /\ Typed /\ Shown(r)
  BY DEF OpenStore, Lawful
<1>2. PICK ops \in Handlers[Op(r)].rows, v \in Verdicts(r) :
        LET row == Outcome(r, Scope(r), v[1], v[2])
        IN /\ Draw([row EXCEPT !.op = Head(ops)], TRUE)
           /\ req' = [req EXCEPT ![r].phase = "writing", ![r].row = row, ![r].left = Tail(ops),
                                 ![r].numbers = {Len(entry) + 1}]
  BY DEF OpenStore
<1> DEFINE row == Outcome(r, Scope(r), v[1], v[2])
<1>3. Scope(r) \in ProjectKeys
  BY <1>1, ScopeIsTyped DEF Shown, Inside, Working, At
<1>4. row \in Rows /\ Tail(ops) \in Seq(RecordableOperation) /\ Head(ops) \in RecordableOperation
  BY <1>1, <1>3, StoreIsKnown, OutcomeIsTyped
<1> HIDE DEF row
<1>5. entry' \in Seq(Entries)
  BY <1>1, <1>2, <1>4, RenamedIsTyped, DrawIsTyped DEF row
<1>6. Stands(r, "writing", req[r].answer, req[r].holds) /\ req'[r].row = row
  BY <1>1, <1>2, <1>4, OpenStoreDoes DEF row
<1>7. TypesStay(r)
  BY <1>1, <1>4, <1>5, <1>6 DEF TypesStay, Stands, SameDoor, stateVars, Typed
<1>8. Stays(r)
  BY <1>1, <1>6, <1>7 DEF Stays, Stands, At, Working, stateVars
<1> QED BY <1>1, <1>8, NothingElse, StaysLawfully DEF SameDoor

LEMMA GoOnWritingDoes ==
    ASSUME Typed, NEW r \in Requests, GoOnWriting(r)
    PROVE  /\ Stands(r, "writing", req[r].answer, req[r].holds)
           /\ req'[r].row = req[r].row /\ req'[r].left = Tail(req[r].left)
           /\ req'[r].numbers = req[r].numbers \cup {Len(entry) + 1}
<1> DEFINE was == req[r]
           numbers == was.numbers \cup {Len(entry) + 1}
           left == Tail(was.left)
           new == [was EXCEPT !.left = left, !.numbers = numbers]
<1>1. req' = [req EXCEPT ![r] = new] /\ was \in RequestType /\ was.phase = "writing"
  BY DEF Typed, GoOnWriting, At
<1>2. numbers \in SUBSET Nat /\ left \in Seq(RecordableOperation)
  BY <1>1 DEF Typed, RequestType, GoOnWriting
<1> HIDE DEF was, numbers, left
<1>3. new \in RequestType
  BY <1>1, <1>2 DEF RequestType
<1>4. /\ new.plan = was.plan /\ new.phase = "writing" /\ new.holds = was.holds /\ new.row = was.row
      /\ new.answer = was.answer /\ new.left = left /\ new.numbers = numbers
  BY <1>1 DEF RequestType
<1> HIDE DEF new
<1>5. req' \in [Requests -> RequestType] /\ req'[r] = new /\ \A q \in Requests : q # r => req'[q] = req[q]
  BY <1>1, <1>3 DEF Typed
<1> QED BY <1>4, <1>5 DEF Stands, Alone, was, numbers, left

LEMMA AppendRowDoes ==
    ASSUME Typed, NEW r \in Requests, AppendRow(r)
    PROVE  /\ Stands(r, "appending", req[r].answer, req[r].holds)
           /\ req'[r].row = req[r].row /\ req'[r].numbers = {Len(entry) + 1}
<1> DEFINE was == req[r]
           numbers == {Len(entry) + 1}
           new == [was EXCEPT !.phase = "appending", !.numbers = numbers]
<1>1. req' = [req EXCEPT ![r] = new] /\ was \in RequestType /\ numbers \in SUBSET Nat
  <2>1. Len(entry) + 1 \in Nat
    BY DEF Typed
  <2>2. req' = [req EXCEPT ![r] = new] /\ was \in RequestType
    BY DEF Typed, AppendRow
  <2> QED BY <2>1, <2>2
<1> HIDE DEF was, numbers
<1>2. new \in RequestType
  BY <1>1 DEF RequestType, Phases
<1>3. /\ new.plan = was.plan /\ new.phase = "appending" /\ new.holds = was.holds /\ new.row = was.row
      /\ new.answer = was.answer /\ new.numbers = numbers
  BY <1>1 DEF RequestType
<1> HIDE DEF new
<1>4. req' \in [Requests -> RequestType] /\ req'[r] = new /\ \A q \in Requests : q # r => req'[q] = req[q]
  BY <1>1, <1>2 DEF Typed
<1> QED BY <1>3, <1>4 DEF Stands, Alone, was, numbers

LEMMA GoOnWritingLawfully ==
    ASSUME Lawful, NEW r \in Requests, GoOnWriting(r)
    PROVE  Lawfully(r)
<1>1. /\ At(r, "writing") /\ UNCHANGED <<gates, stateVars>> /\ SameDoor /\ Typed /\ Authority(r)
      /\ req[r].row \in Rows
  BY DEF GoOnWriting, Lawful, Typed, At
<1>2. Head(req[r].left) \in RecordableOperation
  BY <1>1 DEF Typed, RequestType, GoOnWriting
<1>3. entry' \in Seq(Entries)
  BY <1>1, <1>2, RenamedIsTyped, DrawIsTyped DEF GoOnWriting
<1>4. Stands(r, "writing", req[r].answer, req[r].holds) /\ req'[r].row = req[r].row
  BY <1>1, GoOnWritingDoes
<1>5. TypesStay(r)
  BY <1>1, <1>3, <1>4 DEF TypesStay, Stands, SameDoor, stateVars, Typed
<1>6. Stays(r)
  BY <1>1, <1>4, <1>5 DEF Stays, Stands, At, Working, stateVars, Authority
<1> QED BY <1>1, <1>6, NothingElse, StaysLawfully DEF SameDoor

LEMMA EndStoreLawfully ==
    ASSUME Lawful, NEW r \in Requests, CommitStore(r) \/ AbortStore(r)
    PROVE  Lawfully(r)
<1>1. req[r].phase \in Working /\ Op(r) \in StoreRecorded
  BY DEF CommitStore, AbortStore, Lawful, Authority, At, Working
<1>2. entry' \in Seq(Entries)
  BY SettleIsTyped DEF CommitStore, AbortStore, Lawful
<1>3. Concludes(r)
  BY DEF CommitStore, AbortStore, Concludes, Replies
<1>4. TakesItsOwn(r)
  <2>1. "credential.revoke" \notin StoreRecorded
    BY HandlersAreKnown DEF Special, HandlerRecorded, StoreRecorded
  <2> QED BY <1>1, <2>1 DEF TakesItsOwn
<1>5. World(r) /\ live' \subseteq Credentials /\ budgets' = budgets
  BY DEF CommitStore, AbortStore, SameDoor, stateVars, World, Lawful, Typed
<1> QED BY <1>1, <1>2, <1>3, <1>4, <1>5, ConcludesLawfully

LEMMA RowLawfully ==
    ASSUME Lawful, NEW r \in Requests, AppendRow(r) \/ RowKept(r) \/ RowLost(r)
    PROVE  Lawfully(r)
<1>1. Typed /\ Shown(r) /\ Authority(r) /\ req[r].answer \in Replies \cup {None}
  BY DEF Lawful, Typed, RequestType
<1>2. UNCHANGED <<stateVars, shut, cold>> /\ budgets' = budgets
  BY DEF AppendRow, RowKept, RowLost, SameDoor, stateVars
<1>3. World(r) /\ live' \subseteq Credentials /\ changed' = changed
  BY <1>2, NothingElse
<1>4. CASE AppendRow(r)
  <2>1. At(r, "recording") /\ req[r].row \in Rows /\ gates' = gates
    BY <1>1, <1>4 DEF AppendRow, Typed, At
  <2>2. entry' \in Seq(Entries)
    BY <1>1, <1>4, <2>1, DrawIsTyped DEF AppendRow
  <2>3. Stands(r, "appending", req[r].answer, req[r].holds) /\ req'[r].row = req[r].row
    BY <1>1, <1>4, AppendRowDoes
  <2>4. TypesStay(r)
    BY <1>1, <1>2, <1>3, <2>1, <2>2, <2>3 DEF TypesStay, Stands, Typed
  <2>5. Leaves(r)
    BY <1>1, <1>3, <2>3, <2>4 DEF Leaves, Stands, Alone, Shown, Plan, Inside, Working
  <2> QED BY <1>3, <2>5, LeavesLawfully
<1>5. CASE RowKept(r) \/ RowLost(r)
  <2>1. Answers(r, req[r].answer)
    BY <1>5 DEF RowKept, RowLost
  <2>2. entry' \in Seq(Entries)
    BY <1>1, <1>5, SettleIsTyped, SameLedger DEF RowKept, RowLost
  <2>3. Ends(r) /\ req'[r].answer = req[r].answer
    BY <1>1, <2>1, AnswersEnds
  <2> QED BY <1>1, <1>2, <1>3, <2>2, <2>3, EndsLawfully DEF Typed
<1> QED BY <1>4, <1>5

LEMMA StepIsLawful ==
    ASSUME Lawful, NEW r \in Requests, RequestStep(r)
    PROVE  Lawful'
<1> SUFFICES Lawfully(r)
  BY LawfullyGoesOn
<1>1. ASSUME NEW earned \in 0 .. Burst, Authenticate(r, earned) PROVE Lawfully(r)
  BY <1>1, AuthenticateLawfully
<1>2. ASSUME NEW minutePassed \in BOOLEAN, Sample(r, minutePassed) PROVE Lawfully(r)
  BY <1>2, SampleLawfully
<1>3. CASE FindSession(r) \/ Resolve(r) \/ ResolveFails(r) \/ ResolveSession(r) \/ Act(r)
           \/ CheckActive(r) \/ Admit(r)
  BY <1>3, FindSessionLawfully, ResolveLawfully, ResolveSessionLawfully, ActLawfully,
     CheckActiveLawfully, AdmitLawfully
<1>4. CASE Malformed(r) \/ Read(r) \/ Change(r) \/ SetSuspended(r) \/ RevokeCredential(r)
           \/ CheckProject(r) \/ Mint(r) \/ Preview(r) \/ TellVerdict(r)
  BY <1>4, PlainLawfully, ChangeLawfully, SetSuspendedLawfully, RevokeCredentialLawfully,
     CheckProjectLawfully, MintLawfully
<1>5. CASE OpenStore(r) \/ GoOnWriting(r) \/ CommitStore(r) \/ AbortStore(r)
  BY <1>5, OpenStoreLawfully, GoOnWritingLawfully, EndStoreLawfully
<1>6. CASE AskSeal(r) \/ Seal(r) \/ GiveUpSeal(r)
           \/ StartVerify(r) \/ VerifySeal(r) \/ VerifyRest(r) \/ VerifyFails(r)
  BY <1>6, SealingLawfully, VerifyingLawfully
<1>7. CASE AppendRow(r) \/ RowKept(r) \/ RowLost(r)
  BY <1>7, RowLawfully
<1> QED BY <1>1, <1>2, <1>3, <1>4, <1>5, <1>6, <1>7 DEF RequestStep

\* What happens besides leaves every request where it is, and lets nobody in.
Besides ==
    /\ UNCHANGED <<req, gates, budgets, changed, cold>>
    /\ shut' = shut /\ active' \subseteq active /\ live' \subseteq live
    /\ entry' \in Seq(Entries)

LEMMA ForgedIsTyped ==
    ASSUME NEW row \in Rows PROVE Forged(row) \in Rows
<1> DEFINE outcome == IF row.outcome = "allowed" THEN "refused" ELSE "allowed"
<1>1. Forged(row) = [row EXCEPT !.outcome = outcome] /\ outcome \in {"allowed", "refused"}
  BY DEF Forged
<1> HIDE DEF outcome
<1> QED BY <1>1 DEF Rows

LEMMA TamperIsTyped ==
    ASSUME Typed, Tamper PROVE entry' \in Seq(Entries)
<1>1. \A i \in DOMAIN entry : entry[i].row \in Rows /\ entry[i] \in Entries
  <2>1. \A i \in DOMAIN entry : entry[i] \in Entries
    BY DEF Typed
  <2>2. \A e \in Entries : e.row \in Rows
    BY DEF Entries
  <2> QED BY <2>1, <2>2
<1>2. \A e \in Entries : [e EXCEPT !.state = "lost"] \in Entries
  BY DEF Entries
<1>3. \A row \in Rows : [row |-> Forged(row), state |-> "kept"] \in Entries
  BY ForgedIsTyped DEF Entries
<1>4. CASE entry' = entry
  BY <1>4 DEF Typed
<1>5. ASSUME NEW i \in Sealed, entry' = [entry EXCEPT ![i] = [row |-> Forged(@.row), state |-> "kept"]]
      PROVE  entry' \in Seq(Entries)
  <2>1. i \in DOMAIN entry
    BY DEF Sealed, Kept
  <2>2. entry' = [entry EXCEPT ![i] = [row |-> Forged(entry[i].row), state |-> "kept"]]
    BY <1>5
  <2> QED BY <1>1, <1>3, <2>1, <2>2 DEF Typed
<1>6. ASSUME NEW i \in Sealed, entry' = [entry EXCEPT ![i].state = "lost"]
      PROVE  entry' \in Seq(Entries)
  <2>1. i \in DOMAIN entry
    BY DEF Sealed, Kept
  <2>2. entry' = [entry EXCEPT ![i] = [entry[i] EXCEPT !.state = "lost"]]
    BY <1>6
  <2> QED BY <1>1, <1>2, <2>1, <2>2 DEF Typed
<1> QED BY <1>4, <1>5, <1>6 DEF Tamper

LEMMA BesidesIsLawful ==
    ASSUME Lawful, Besides PROVE Lawful'
<1>1. Typed'
  BY DEF Lawful, Besides, Typed, At
<1>2. ASSUME NEW q \in Requests PROVE Shown(q)' /\ Authority(q)'
  <2>1. Shown(q) /\ Authority(q)
    BY DEF Lawful
  <2>2. Shown(q)'
    BY <2>1 DEF Besides, Shown, Plan
  <2>3. Authority(q)'
    BY <2>1 DEF Besides, Authority, Opens, Permits, TakesItsOwn, Confirmed, At, AtMemory, AtPortal,
       Server, Plan, Op, Scope, Served
  <2> QED BY <2>2, <2>3
<1> QED BY <1>1, <1>2 DEF Lawful

LEMMA OtherStepsAreBesides ==
    ASSUME Lawful,
           \/ \E c \in Credentials : CommandLineRevokes(c) \/ SessionEnds(c)
           \/ \E p \in Projects : CommandLineSuspends(p)
           \/ DriverAsks \/ DriverSeals \/ AnotherCommits \/ Alter \/ Finished
           \/ UNCHANGED vars
    PROVE  Besides
<1>1. Typed /\ entry \in Seq(Entries)
  BY DEF Lawful, Typed
<1>2. ASSUME NEW c \in Credentials, CommandLineRevokes(c) \/ SessionEnds(c) PROVE Besides
  BY <1>1, <1>2 DEF CommandLineRevokes, SessionEnds, Happens, Besides, ledgerVars
<1>3. ASSUME NEW p \in Projects, CommandLineSuspends(p) PROVE Besides
  BY <1>1, <1>3 DEF CommandLineSuspends, Happens, Besides, ledgerVars
<1>4. CASE DriverAsks
  BY <1>1, <1>4 DEF DriverAsks, WaitToSeal, Happens, Besides
<1>5. CASE DriverSeals
  BY <1>1, <1>5 DEF DriverSeals, SealNow, Besides, doorVars, stateVars
<1>6. CASE AnotherCommits
  BY <1>1, <1>6, SettleIsTyped DEF AnotherCommits, Besides, doorVars, stateVars
<1>7. CASE Alter
  BY <1>1, <1>7, TamperIsTyped DEF Alter, Happens, Besides
<1>8. CASE Finished \/ UNCHANGED vars
  BY <1>1, <1>8 DEF Finished, Besides, vars, doorVars, stateVars, ledgerVars
<1> QED BY <1>2, <1>3, <1>4, <1>5, <1>6, <1>7, <1>8

LEMMA NewGateIsTyped == NewGate \in GateType
BY RequestsAssumption DEF NewGate, GateType, Counted

LEMMA InitIsLawful ==
    ASSUME Init PROVE Lawful
<1> DEFINE asks(p) == [plan |-> p, phase |-> "new", inner |-> FALSE, holds |-> {}, row |-> None,
                       left |-> << >>, numbers |-> {}, answer |-> None]
<1>1. \A p \in Plans : asks(p) \in RequestType
  BY DEF RequestType, Phases
<1>2. req \in [Requests -> {asks(p) : p \in Plans}]
  BY DEF Init
<1>3. req \in [Requests -> RequestType]
  BY <1>1, <1>2
<1>4. \A r \in Requests : req[r].phase = "new" /\ req[r].holds = {} /\ req[r].answer = None
  BY <1>2
<1>5. entry \in Seq(Entries)
  <2>1. Len(Initially) \in Nat /\ \A i \in 1 .. Len(Initially) : Initially[i] \in Rows
    BY RequestsAssumption
  <2>2. entry = [i \in 1 .. Len(Initially) |->
                   [row |-> Initially[i], state |-> IF i \in Elsewhere THEN "open" ELSE "kept"]]
    BY DEF Init, StartsWith
  <2>3. entry \in [1 .. Len(Initially) -> Entries]
    BY <2>1, <2>2 DEF Entries
  <2> QED BY <2>1, <2>3
<1>6. Typed
  BY <1>3, <1>4, <1>5, NewGateIsTyped DEF Init, Typed, NewBudget
<1>7. ASSUME NEW r \in Requests PROVE Shown(r) /\ Authority(r)
  BY <1>4, RequestsAssumption DEF Init, Shown, Authority, Served, At, Inside, Working
<1> QED BY <1>6, <1>7 DEF Lawful

\* Every request stands where its authority lets it, whatever is revoked,
\* suspended, minted or resumed while it is under way.
THEOREM LawfulInvariant == Spec => []Lawful
<1>1. Lawful /\ [Next]_vars => Lawful'
  BY StepIsLawful, OtherStepsAreBesides, BesidesIsLawful DEF Next
<1> QED BY <1>1, InitIsLawful, PTL DEF Spec

\* Nothing is done, and nothing told, for a request without the authority.
THEOREM AuthorityIsHeld == Spec => []AuthorityWasHeld
<1>1. Lawful => AuthorityWasHeld
  BY DEF Lawful, Authority, AuthorityWasHeld, Served, Opens, Permits, TakesItsOwn, Confirmed
<1> QED BY <1>1, LawfulInvariant, PTL

-----------------------------------------------------------------------------
(* The record: what an open transaction has written, what waits to be       *)
(* appended, and what is kept, against what has changed.                    *)

Telling(r, row) == row.of = r /\ row.op = Op(r) /\ row.outcome = "allowed" /\ row.magnitude > 0
Recordable(r) == Op(r) \in StoreRecorded \cup (HandlerRecorded \ {"audit.seal"})

\* The rows of a transaction that is open say the same of different operations,
\* and once nothing is left to write, one of them is of the one asked for.
WritesItsOwn(r) ==
    /\ req[r].row.of = r
    /\ req[r].row.magnitude > 0 => req[r].row.outcome = "allowed"
    /\ \A i \in req[r].numbers : /\ entry[i].row.outcome = req[r].row.outcome
                                 /\ entry[i].row.magnitude = req[r].row.magnitude
    /\ IF req[r].left = << >> THEN \E i \in req[r].numbers : entry[i].row.op = Op(r)
       ELSE req[r].left[Len(req[r].left)] = Op(r)

Book(r) ==
    /\ req[r].phase \in {"writing", "appending"} =>
           \A i \in req[r].numbers : i \in DOMAIN entry /\ entry[i].row.of = r
    /\ At(r, "writing") => WritesItsOwn(r)
    /\ At(r, "appending") => /\ \A i \in req[r].numbers : entry[i].row = req[r].row
                             /\ req[r].numbers # {}
    /\ req[r].phase \in {"recording", "appending"} =>
           /\ req[r].row.of = r
           /\ Telling(r, req[r].row) =>
                  Op(r) \notin StoreRecorded /\ (Recordable(r) => r \in changed)
    /\ Told(r) /\ Recordable(r) => r \in changed
    /\ r \in changed /\ Op(r) \in StoreRecorded => Told(r)
    /\ r \in changed /\ req[r].answer = "ok" /\ Op(r) \notin StoreRecorded =>
           \/ Counts(r) = {0}
           \/ req[r].phase \in {"recording", "appending"} /\ Telling(r, req[r].row)
           \/ At(r, "answered") /\ (Told(r) \/ r \in unheard)

Recorded ==
    ~tampered =>
        /\ \A i \in Elsewhere : i \in DOMAIN entry /\ entry[i].row.of = None
        /\ \A r \in Requests : Book(r)

\* A step of r writes rows of r, keeps rows of r, and leaves the others'.
Honest(r) ==
    /\ DOMAIN entry \subseteq DOMAIN entry'
    /\ \A i \in DOMAIN entry :
        /\ entry'[i].row = entry[i].row
        /\ entry[i].row.of # r => (i \in Kept' <=> i \in Kept)
    /\ \A i \in DOMAIN entry' \ DOMAIN entry : entry'[i].row.of = r /\ i \notin Kept'
    /\ unheard \subseteq unheard'
    /\ \A q \in Requests \ {r} : q \in changed' <=> q \in changed
    /\ \A q \in Requests \ {r} : req'[q] = req[q]

LEMMA OthersAreToldOf ==
    ASSUME NEW r, Honest(r), NEW q \in Requests, q # r, Book(q)
    PROVE  Book(q)'
<1>1. /\ req'[q] = req[q] /\ (q \in changed' <=> q \in changed) /\ (q \in unheard => q \in unheard')
      /\ Op(q)' = Op(q) /\ Counts(q)' = Counts(q)
  BY DEF Honest, Op, Plan, Counts, AtPortal
<1>2. Kept \subseteq DOMAIN entry /\ Kept' \subseteq DOMAIN entry'
  BY DEF Kept
<1>3. \A i : i \in Kept /\ entry[i].row.of = q <=> i \in Kept' /\ entry'[i].row.of = q
  BY <1>2 DEF Honest
<1>4. \A i \in Kept : entry'[i].row = entry[i].row
  BY <1>2 DEF Honest
<1>5. Told(q)' <=> Told(q)
  BY <1>1, <1>3, <1>4 DEF Told, Tells
<1>6. req[q].phase \in {"writing", "appending"} =>
          \A i \in req[q].numbers : i \in DOMAIN entry' /\ entry'[i].row = entry[i].row
  BY DEF Honest, Book
<1>7. At(q, "writing") => WritesItsOwn(q)'
  BY <1>1, <1>6 DEF Book, WritesItsOwn, At
<1> QED BY <1>1, <1>5, <1>6, <1>7 DEF Book, Telling, Recordable, At

LEMMA HonestIsRecorded ==
    ASSUME Recorded, NEW r \in Requests \cup {None}, tampered' = tampered,
           ~tampered => Honest(r) /\ (r \in Requests => Book(r)')
    PROVE  Recorded'
<1>1. ASSUME ~tampered, NEW i \in Elsewhere PROVE i \in DOMAIN entry' /\ entry'[i].row.of = None
  BY <1>1 DEF Recorded, Honest
<1>2. ASSUME ~tampered, NEW q \in Requests PROVE Book(q)'
  BY <1>2, OthersAreToldOf, RequestsAssumption DEF Recorded
<1> QED BY <1>1, <1>2 DEF Recorded

Noted(r) == tampered' = tampered /\ (~tampered => Honest(r) /\ Book(r)')

\* What a step that does not touch the ledger leaves.
LEMMA UntouchedLedger ==
    ASSUME NEW r \in Requests, Alone(r), entry' = entry, changed' \ {r} = changed \ {r}, unheard' = unheard
    PROVE  /\ Honest(r) /\ (Told(r)' <=> Told(r)) /\ Op(r)' = Op(r) /\ Counts(r)' = Counts(r)
           /\ Recordable(r)' = Recordable(r)
<1>1. Op(r)' = Op(r) /\ Counts(r)' = Counts(r)
  BY DEF Alone, Op, Plan, Counts, AtPortal
<1>2. Kept' = Kept
  BY DEF Kept
<1> QED BY <1>1, <1>2 DEF Honest, Alone, Told, Tells, Recordable

LEMMA NotYetChanged ==
    ASSUME Lawful, NEW r \in Requests, r \in changed \/ req[r].answer = "ok"
    PROVE  req[r].phase \in {"recording", "appending", "answered"}
BY DEF Lawful, Authority, Served

\* r goes on, and has nothing to record yet.
LEMMA GoesOnNoted ==
    ASSUME Lawful, Recorded, NEW r \in Requests, Alone(r),
           entry' = entry, tampered' = tampered, changed' = changed, unheard' = unheard,
           req[r].phase \notin {"recording", "appending", "answered"},
           req'[r].phase \notin {"writing", "recording", "appending"}
    PROVE  Noted(r)
<1>1. r \notin changed
  BY NotYetChanged
<1>2. ~tampered => Book(r)
  BY DEF Recorded
<1> QED BY <1>1, <1>2, UntouchedLedger DEF Noted, Book, At

\* r is refused, with a row that says so or without.
Refuses(r) ==
    /\ Alone(r)
    /\ req'[r].phase \in {"recording", "answered"}
    /\ req'[r].phase = "recording" => req'[r].row.of = r /\ req'[r].row.outcome = "refused"
    /\ req'[r].answer # "ok"

LEMMA RefusesNoted ==
    ASSUME Lawful, Recorded, NEW r \in Requests, Refuses(r),
           entry' = entry, tampered' = tampered, unheard' = unheard,
           changed \subseteq changed', changed' \subseteq changed \cup {r},
           req[r].phase \notin {"recording", "appending", "answered"},
           r \in changed' => Op(r) \notin StoreRecorded
    PROVE  Noted(r)
<1>1. r \notin changed
  BY NotYetChanged
<1>2. ~tampered => Book(r)
  BY DEF Recorded
<1> QED BY <1>1, <1>2, UntouchedLedger DEF Noted, Book, At, Refuses, Telling

\* r is told that it worked, beside a row that counts m.
LEMMA AllowedNoted ==
    ASSUME Lawful, Recorded, NEW r \in Requests, NEW m \in Nat, Allowed(r, m),
           entry' = entry, tampered' = tampered, unheard' = unheard,
           changed \subseteq changed', changed' \subseteq changed \cup {r},
           req[r].phase \in Working,
           m > 0 => Op(r) \notin StoreRecorded /\ (Recordable(r) => r \in changed'),
           r \in changed' => Op(r) \notin StoreRecorded /\ (m > 0 \/ Counts(r) = {0})
    PROVE  Noted(r)
<1> DEFINE row == Outcome(r, Scope(r), "allowed", m)
<1>1. r \notin changed
  BY NotYetChanged DEF Working
<1>2. ~tampered => Book(r)
  BY DEF Recorded
<1>3. row \in Rows
  BY ScopeIsTyped, OutcomeIsTyped DEF Lawful, Shown, Inside
<1>4. row.of = r /\ row.op = Op(r) /\ row.outcome = "allowed" /\ row.magnitude = m
  BY DEF Outcome, Row, Op
<1>5. Stands(r, "recording", "ok", req[r].holds) /\ req'[r].row = row
  BY <1>3, RecordsDoes DEF Allowed, Lawful, Replies
<1> HIDE DEF row
<1> QED BY <1>1, <1>2, <1>4, <1>5, UntouchedLedger DEF Noted, Book, At, Stands, Telling

LEMMA AnswersRefuses ==
    ASSUME Lawful, NEW r \in Requests, NEW answer \in Replies \ {"ok"}, Answers(r, answer)
    PROVE  Refuses(r)
BY AnswersDoes DEF Lawful, Stands, Refuses

LEMMA RecordsRefuses ==
    ASSUME Lawful, NEW r \in Requests, NEW row \in Rows, NEW answer \in Replies \ {"ok"},
           Records(r, row, answer), row.of = r, row.outcome = "refused"
    PROVE  Refuses(r)
BY RecordsDoes DEF Lawful, Stands, Refuses

LEMMA DeclinesRefuses ==
    ASSUME Lawful, NEW r \in Requests, req[r].phase \in Working, Declined(r) \/ Failed(r)
    PROVE  Refuses(r)
<1> DEFINE row == Outcome(r, Scope(r), "refused", 0)
<1>1. row \in Rows
  BY ScopeIsTyped, OutcomeIsTyped DEF Lawful, Shown, Inside
<1>2. row.of = r /\ row.outcome = "refused"
  BY DEF Outcome, Row
<1> HIDE DEF row
<1>3. PICK answer \in {"declined", "failed"} : Records(r, row, answer) \/ Answers(r, answer)
  BY DEF Declined, Failed, RefusedOr, row
<1>4. answer \in Replies \ {"ok"}
  BY DEF Replies
<1> QED BY <1>1, <1>2, <1>3, <1>4, RecordsRefuses, AnswersRefuses

\* Who writes the row of a change.
LEMMA WritersDiffer ==
    /\ \A op \in HandlerRecorded : op \notin StoreRecorded
    /\ Special \subseteq HandlerRecorded /\ HandlerRecorded \subseteq DOMAIN Handlers
    /\ "audit.verify" \notin StoreRecorded \cup HandlerRecorded
BY HandlersAreKnown DEF HandlerRecorded, StoreRecorded, Changes

LEMMA DidNoted ==
    ASSUME Lawful, Recorded, NEW r \in Requests, Did(r), Op(r) \in HandlerRecorded,
           entry' = entry, tampered' = tampered, unheard' = unheard, req[r].phase \in Working
    PROVE  Noted(r)
<1>1. Counts(r) \subseteq Nat
  BY HandlersAreKnown, WritersDiffer DEF Counts
<1>2. Op(r) \notin StoreRecorded /\ changed' = changed \cup {r}
  BY WritersDiffer DEF Did
<1>3. CASE Failed(r)
  BY <1>2, <1>3, DeclinesRefuses, RefusesNoted DEF Working
<1>4. CASE \E m \in Counts(r) : (m = 0 => Counts(r) = {0}) /\ Allowed(r, m)
  <2>1. PICK m \in Nat : m \in Counts(r) /\ (m = 0 => Counts(r) = {0}) /\ Allowed(r, m)
    BY <1>1, <1>4
  <2> QED BY <1>2, <2>1, AllowedNoted
<1> QED BY <1>3, <1>4 DEF Did

-----------------------------------------------------------------------------
(* Every step is noted.                                                     *)

LEMMA LawfulRowsRefuse ==
    ASSUME NEW r, NEW project, NEW magnitude, NEW principal, NEW op
    PROVE  /\ Outcome(r, project, "refused", magnitude).of = r
           /\ Outcome(r, project, "refused", magnitude).outcome = "refused"
           /\ Row(r, op, principal, project, "refused", magnitude).of = r
           /\ Row(r, op, principal, project, "refused", magnitude).outcome = "refused"
BY DEF Outcome, Row

LEMMA AuthenticateNoted ==
    ASSUME Lawful, Recorded, NEW r \in Requests, NEW earned \in 0 .. Burst, Authenticate(r, earned)
    PROVE  Noted(r)
<1>1. Alone(r)
  BY AuthenticateLawfully DEF Lawfully, Quiet
<1>2. req'[r].phase \in {"resolving", "answered"}
  <2>1. CASE \E gate : Takes(r, "resolving", "auth", gate)
    BY <2>1, TakesDoes DEF Lawful, Stands, Phases, AllSlots
  <2>2. CASE req' = [req EXCEPT ![r].phase = "answered", ![r].answer = "busy"]
    BY <2>2, TurnedAwayDoes DEF Lawful, Stands
  <2> QED BY <2>1, <2>2 DEF Authenticate
<1> QED BY <1>1, <1>2, GoesOnNoted DEF Authenticate, At, stateVars, ledgerVars

LEMMA PhaseAfter ==
    ASSUME Typed, NEW r \in Requests
    PROVE  /\ \A phase \in Phases, what \in SUBSET AllSlots :
                  GoesOn(r, phase, what) => req'[r].phase = phase
           /\ \A answer \in Replies \cup {None} : Answers(r, answer) => req'[r].phase = "answered"
BY GoesOnDoes, AnswersDoes DEF Stands

LEMMA DoorNoted ==
    ASSUME Lawful, Recorded, NEW r \in Requests,
           FindSession(r) \/ Resolve(r) \/ ResolveFails(r) \/ ResolveSession(r)
    PROVE  Noted(r)
<1>1. Alone(r)
  BY FindSessionLawfully, ResolveLawfully, ResolveSessionLawfully DEF Lawfully, Quiet
<1>2. req'[r].phase \in {"resolving", "checking", "admitting", "stranger", "acting", "answered"}
  BY PhaseAfter DEF FindSession, Resolve, ResolveFails, ResolveSession, Lawful, Phases, Inside, Working,
     AllSlots, Replies
<1>3. req[r].phase \in {"new", "resolving"}
  BY DEF FindSession, Resolve, ResolveFails, ResolveSession, At
<1> QED
  BY <1>1, <1>2, <1>3, GoesOnNoted DEF FindSession, Resolve, ResolveFails, ResolveSession, SameDoor,
     stateVars, ledgerVars

LEMMA ActNoted ==
    ASSUME Lawful, Recorded, NEW r \in Requests, Act(r)
    PROVE  Noted(r)
<1>1. /\ entry' = entry /\ tampered' = tampered /\ changed' = changed /\ unheard' = unheard
      /\ req[r].phase = "acting" /\ r \notin changed
  BY NotYetChanged DEF Act, SameDoor, stateVars, ledgerVars, At
<1>2. CASE GoesOn(r, "running", {})
  <2>1. Alone(r) /\ req'[r].phase = "running"
    BY <1>2, GoesOnDoes DEF Lawful, Stands, Phases, Inside, Working
  <2> QED BY <1>1, <2>1, GoesOnNoted
<1>3. ASSUME NEW project \in ProjectKeys, Records(r, Outcome(r, project, "refused", 0), "refused")
      PROVE  Noted(r)
  <2>1. Outcome(r, project, "refused", 0) \in Rows
    BY OutcomeIsTyped DEF Lawful
  <2>2. Refuses(r)
    BY <1>3, <2>1, RecordsRefuses, LawfulRowsRefuse DEF Replies
  <2> QED BY <1>1, <2>2, RefusesNoted
<1>4. "" \in ProjectKeys /\ Plan(r).project \in ProjectKeys
  BY PlanIsTyped DEF Lawful, ProjectKeys
<1> QED BY <1>2, <1>3, <1>4 DEF Act

LEMMA SampleNoted ==
    ASSUME Lawful, Recorded, NEW r \in Requests, NEW minutePassed \in BOOLEAN, Sample(r, minutePassed)
    PROVE  Noted(r)
<1> DEFINE s == Server(r)
           b == Renewed(budgets[s], minutePassed)
           row == Row(r, "authenticate", "unresolved", "", "refused", b.suppressed + 1)
<1>1. /\ entry' = entry /\ tampered' = tampered /\ changed' = changed /\ unheard' = unheard
      /\ req[r].phase = "stranger" /\ r \notin changed /\ Typed
  BY NotYetChanged DEF Sample, stateVars, ledgerVars, At, Lawful
<1>2. s \in Servers /\ gates[s] \in GateType /\ WithAudit(gates[s]) \in GateType
  BY <1>1, PlanIsTyped, GateIsTyped DEF Typed
<1>3. row \in Rows
  BY <1>1, <1>2, BudgetIsTyped, StrangersRowIsTyped
<1>4. row.of = r /\ row.outcome = "refused"
  BY DEF Row
<1> HIDE DEF row, b
<1>5. CASE Answers(r, "unauthenticated")
  BY <1>1, <1>5, AnswersRefuses, RefusesNoted DEF Replies
<1>6. CASE /\ req' = [req EXCEPT ![r].phase = "recording", ![r].holds = @ \cup {"audit"},
                                  ![r].row = row, ![r].answer = "unauthenticated"]
           /\ gates' = [gates EXCEPT ![s] = WithAudit(@)]
  <2>1. gates' = [gates EXCEPT ![s] = WithAudit(gates[s])]
    BY <1>6
  <2>2. /\ Stands(r, "recording", "unauthenticated", req[r].holds \cup {"audit"})
        /\ gates' \in [Servers -> GateType] /\ req'[r].row = row
    <3>1. Typed /\ row \in Rows /\ WithAudit(gates[s]) \in GateType
      BY <1>1, <1>2, <1>3
    <3> QED BY <1>6, <2>1, <3>1, SampleDoes
  <2>3. Refuses(r)
    BY <1>4, <2>2 DEF Refuses, Stands
  <2> QED BY <1>1, <2>3, RefusesNoted
<1> QED BY <1>5, <1>6 DEF Sample, row, b

LEMMA CheckActiveNoted ==
    ASSUME Lawful, Recorded, NEW r \in Requests, CheckActive(r)
    PROVE  Noted(r)
<1>1. /\ entry' = entry /\ tampered' = tampered /\ changed' = changed /\ unheard' = unheard
      /\ req[r].phase = "checking" /\ r \notin changed /\ Typed /\ Plan(r).token \in Credentials
  BY NotYetChanged DEF CheckActive, SameDoor, stateVars, ledgerVars, At, Lawful, Shown, Inside
<1>2. CASE Answers(r, "failed")
  BY <1>1, <1>2, AnswersRefuses, RefusesNoted DEF Replies
<1>3. CASE req' = [req EXCEPT ![r].phase = "new", ![r].inner = TRUE, ![r].holds = {}]
  BY <1>1, <1>3, LoopsDoes, GoesOnNoted DEF Stands
<1>4. CASE GoesOn(r, "admitting", {"auth"})
  <2>1. Alone(r) /\ req'[r].phase = "admitting"
    BY <1>1, <1>4, GoesOnDoes DEF Stands, Phases, Inside, AllSlots
  <2> QED BY <1>1, <2>1, GoesOnNoted
<1>5. CASE Records(r, Row(r, "authenticate", Plan(r).token, Scope(r), "refused", 0), "unauthenticated")
  <2>1. Row(r, "authenticate", Plan(r).token, Scope(r), "refused", 0) \in Rows
    BY <1>1, StrangersRowIsTyped
  <2>2. Refuses(r)
    BY <1>5, <2>1, RecordsRefuses, LawfulRowsRefuse DEF Replies
  <2> QED BY <1>1, <2>2, RefusesNoted
<1> QED BY <1>2, <1>3, <1>4, <1>5 DEF CheckActive

LEMMA AdmitNoted ==
    ASSUME Lawful, Recorded, NEW r \in Requests, Admit(r)
    PROVE  Noted(r)
<1> DEFINE allowed == AtMemory(r) => permitted(AccessOf[Plan(r).token], Plan(r).op)
           row == Outcome(r, Scope(r), "refused", 0)
<1>1. /\ entry' = entry /\ tampered' = tampered /\ changed' = changed /\ unheard' = unheard
      /\ req[r].phase = "admitting" /\ r \notin changed /\ Typed /\ Plan(r).token \in Credentials
  BY NotYetChanged DEF Admit, SameDoor, stateVars, ledgerVars, At, Lawful, Shown, Inside
<1>2. CASE Answers(r, "busy")
  BY <1>1, <1>2, AnswersRefuses, RefusesNoted DEF Replies
<1>3. CASE req' = [req EXCEPT ![r].holds = @ \cup {"work"},
                      ![r].phase = IF allowed THEN "running" ELSE "recording",
                      ![r].row = IF allowed THEN None ELSE row,
                      ![r].answer = IF allowed THEN None ELSE "forbidden"]
  <2>1. row \in Rows /\ row.of = r /\ row.outcome = "refused"
    <3>1. row \in Rows
      BY <1>1, ScopeIsTyped, OutcomeIsTyped
    <3>2. row.of = r /\ row.outcome = "refused"
      BY DEF Outcome, Row
    <3> QED BY <3>1, <3>2
  <2>2. allowed \in BOOLEAN
    BY DEF permitted
  <2>3. /\ Alone(r) /\ req'[r].phase = IF allowed THEN "running" ELSE "recording"
        /\ req'[r].row = IF allowed THEN None ELSE row
        /\ req'[r].answer = IF allowed THEN None ELSE "forbidden"
    BY <1>1, <1>3, <2>1, <2>2, AdmitDoes
  <2>4. CASE allowed
    BY <1>1, <2>3, <2>4, GoesOnNoted
  <2>5. CASE ~allowed
    <3>1. Refuses(r)
      BY <2>1, <2>3, <2>5 DEF Refuses
    <3> QED BY <1>1, <3>1, RefusesNoted
  <2> QED BY <2>4, <2>5
<1> QED BY <1>2, <1>3 DEF Admit

\* What has no effect but a refusal, or an answer that is none of success.
LEMMA EffectlessNoted ==
    ASSUME Lawful, Recorded, NEW r \in Requests, req[r].phase \in Working,
           \/ Declined(r) \/ Failed(r)
           \/ \E answer \in Replies \ {"ok"} : Answers(r, answer),
           entry' = entry, tampered' = tampered, changed' = changed, unheard' = unheard
    PROVE  Noted(r)
<1>1. Refuses(r)
  BY DeclinesRefuses, AnswersRefuses
<1>2. r \notin changed
  BY NotYetChanged DEF Working
<1> QED BY <1>1, <1>2, RefusesNoted DEF Working

LEMMA PlainNoted ==
    ASSUME Lawful, Recorded, NEW r \in Requests,
           Malformed(r) \/ Read(r) \/ Preview(r) \/ TellVerdict(r)
    PROVE  Noted(r)
<1>1. /\ entry' = entry /\ tampered' = tampered /\ changed' = changed /\ unheard' = unheard
      /\ req[r].phase \in Working /\ r \notin changed
  <2>1. /\ entry' = entry /\ tampered' = tampered /\ changed' = changed /\ unheard' = unheard
        /\ req[r].phase \in Working
    BY DEF Malformed, Read, Preview, TellVerdict, SameDoor, stateVars, ledgerVars, At, Working
  <2> QED BY <2>1, NotYetChanged DEF Working
<1>2. CASE Declined(r) \/ Failed(r) \/ Answers(r, "invalid")
  BY <1>1, <1>2, EffectlessNoted DEF Replies
<1>3. CASE Preview(r)
  <2>1. Allowed(r, 0)
    BY <1>3 DEF Preview, Allowed
  <2> QED BY <1>1, <2>1, AllowedNoted
<1>4. CASE Allowed(r, 1) /\ (Read(r) \/ TellVerdict(r))
  <2>1. Op(r) \notin StoreRecorded /\ ~Recordable(r)
    BY <1>4, WritersDiffer DEF Read, TellVerdict, Recordable, StoreRecorded, HandlerRecorded, Changes,
       Lawful, Authority
  <2> QED BY <1>1, <1>4, <2>1, AllowedNoted
<1> QED BY <1>2, <1>3, <1>4 DEF Malformed, Read, TellVerdict

LEMMA ChangeNoted ==
    ASSUME Lawful, Recorded, NEW r \in Requests, Change(r)
    PROVE  Noted(r)
<1>1. /\ entry' = entry /\ tampered' = tampered /\ unheard' = unheard
      /\ req[r].phase \in Working /\ Op(r) \in HandlerRecorded
  BY DEF Change, SameDoor, ledgerVars, At, Working
<1>2. CASE Did(r)
  BY <1>1, <1>2, DidNoted
<1>3. CASE Replayed(r)
  <2>1. Allowed(r, 0) /\ changed' = changed /\ r \notin changed
    BY <1>1, <1>3, NotYetChanged DEF Replayed, Working
  <2> QED BY <1>1, <2>1, AllowedNoted
<1>4. CASE Declined(r) /\ changed' = changed
  BY <1>1, <1>4, EffectlessNoted
<1> QED BY <1>2, <1>3, <1>4 DEF Change

LEMMA ProjectAndCredentialNoted ==
    ASSUME Lawful, Recorded, NEW r \in Requests,
           SetSuspended(r) \/ RevokeCredential(r) \/ CheckProject(r) \/ Mint(r)
    PROVE  Noted(r)
<1>1. /\ entry' = entry /\ tampered' = tampered /\ unheard' = unheard
      /\ req[r].phase \in Working /\ req[r].phase \in {"running", "minting"}
  BY DEF SetSuspended, RevokeCredential, CheckProject, Mint, SameDoor, ledgerVars, At, Working
<1>2. Op(r) \in HandlerRecorded
  BY WritersDiffer DEF SetSuspended, RevokeCredential, CheckProject, Mint, Special, Lawful, Authority
<1>3. CASE Did(r)
  BY <1>1, <1>2, <1>3, DidNoted
<1>4. CASE (Declined(r) \/ Failed(r)) /\ changed' = changed
  BY <1>1, <1>4, EffectlessNoted
<1>5. CASE GoesOn(r, "minting", {}) /\ changed' = changed
  <2>1. Alone(r) /\ req'[r].phase = "minting"
    BY <1>5, GoesOnDoes DEF Lawful, Stands, Phases, Inside, Working
  <2> QED BY <1>1, <1>5, <2>1, GoesOnNoted
<1> QED BY <1>3, <1>4, <1>5 DEF SetSuspended, RevokeCredential, CheckProject, Mint, stateVars

LEMMA SealingNoted ==
    ASSUME Lawful, Recorded, NEW r \in Requests,
           AskSeal(r) \/ Seal(r) \/ GiveUpSeal(r)
    PROVE  Noted(r)
<1>1. /\ entry' = entry /\ tampered' = tampered /\ unheard' = unheard
      /\ req[r].phase \in Working /\ req[r].phase \in {"running", "sealing"}
  BY DEF AskSeal, Seal, GiveUpSeal, WaitToSeal, SealNow, LeaveQueue, SameDoor, At, Working
<1>2. Op(r) = "audit.seal" /\ Op(r) \notin StoreRecorded
  BY WritersDiffer DEF AskSeal, Seal, GiveUpSeal, Special, Lawful, Authority
<1>3. r \notin changed
  BY <1>1, NotYetChanged
<1>4. CASE AskSeal(r)
  <2>1. Alone(r) /\ req'[r].phase = "sealing"
    BY <1>4, GoesOnDoes DEF AskSeal, Lawful, Stands, Phases, Inside, Working
  <2> QED BY <1>1, <1>4, <2>1, GoesOnNoted DEF AskSeal, stateVars
<1>5. CASE GiveUpSeal(r)
  BY <1>1, <1>5, EffectlessNoted DEF GiveUpSeal, stateVars
<1>6. CASE Seal(r)
  <2>1. changed \subseteq changed' /\ changed' \subseteq changed \cup {r}
    BY <1>6 DEF Seal
  <2>2. CASE Allowed(r, 1)
    BY <1>1, <1>2, <2>1, <2>2, AllowedNoted DEF Recordable
  <2>3. CASE Failed(r)
    BY <1>1, <1>2, <2>1, <2>3, DeclinesRefuses, RefusesNoted
  <2> QED BY <1>6, <2>2, <2>3 DEF Seal
<1> QED BY <1>4, <1>5, <1>6

LEMMA VerifyingNoted ==
    ASSUME Lawful, Recorded, NEW r \in Requests,
           StartVerify(r) \/ VerifySeal(r) \/ VerifyRest(r) \/ VerifyFails(r)
    PROVE  Noted(r)
<1>1. /\ entry' = entry /\ tampered' = tampered /\ unheard' = unheard /\ changed' = changed
      /\ req[r].phase \in Working /\ req[r].phase \in {"running", "verifying"}
  BY DEF StartVerify, VerifySeal, VerifyRest, VerifyFails, ReadSeals, CheckSeal, CountUnsealed,
     AbandonCheck, SameDoor, stateVars, At, Working
<1>2. CASE StartVerify(r)
  <2>1. Alone(r) /\ req'[r].phase = "verifying"
    BY <1>2, GoesOnDoes DEF StartVerify, Lawful, Stands, Phases, Inside, Working
  <2> QED BY <1>1, <2>1, GoesOnNoted
<1>3. CASE VerifySeal(r) \/ VerifyRest(r)
  <2>1. Alone(r) /\ req'[r].phase = "verifying"
    BY <1>3 DEF VerifySeal, VerifyRest, Alone, Lawful, Typed, At
  <2> QED BY <1>1, <2>1, GoesOnNoted
<1>4. CASE VerifyFails(r)
  BY <1>1, <1>4, EffectlessNoted DEF VerifyFails
<1> QED BY <1>2, <1>3, <1>4

-----------------------------------------------------------------------------
(* Every step is noted: what draws numbers and what settles them.           *)

\* A row that is drawn is there, and nobody can tell of it yet.
LEMMA DrawNotes ==
    ASSUME Lawful, NEW r \in Requests, NEW row \in Rows, NEW first, Draw(row, first), row.of = r,
           Alone(r), changed' = changed, unheard' = unheard
    PROVE  /\ Honest(r) /\ (Told(r)' <=> Told(r)) /\ Op(r)' = Op(r) /\ Counts(r)' = Counts(r)
           /\ Len(entry) + 1 \in DOMAIN entry' /\ entry'[Len(entry) + 1].row = row
           /\ \A i \in DOMAIN entry : i \in DOMAIN entry' /\ entry'[i] = entry[i]
<1>1. entry \in Seq(Entries) /\ entry' = Append(entry, [row |-> row, state |-> "open"])
  BY DEF Lawful, Typed, Draw
<1>2. /\ DOMAIN entry = 1 .. Len(entry) /\ Len(entry) \in Nat
      /\ DOMAIN entry' = 1 .. Len(entry) + 1
      /\ \A i \in DOMAIN entry : entry'[i] = entry[i]
      /\ entry'[Len(entry) + 1] = [row |-> row, state |-> "open"]
  BY <1>1
<1>3. Kept' = Kept
  BY <1>2 DEF Kept
<1>4. Op(r)' = Op(r) /\ Counts(r)' = Counts(r)
  BY DEF Alone, Op, Plan, Counts, AtPortal
<1>5. Kept \subseteq DOMAIN entry
  BY DEF Kept
<1>6. Told(r)' <=> Told(r)
  BY <1>2, <1>3, <1>4, <1>5 DEF Told, Tells
<1>7. Honest(r)
  <2>1. DOMAIN entry \subseteq DOMAIN entry'
    BY <1>2
  <2>2. \A i \in DOMAIN entry' \ DOMAIN entry : entry'[i].row.of = r /\ i \notin Kept'
    BY <1>2, <1>3, <1>5
  <2> QED BY <1>2, <1>3, <2>1, <2>2 DEF Honest, Alone
<1> QED BY <1>2, <1>4, <1>6, <1>7

\* What is settled was open: it is kept now, or it never was.
LEMMA SettleDoes ==
    ASSUME NEW numbers, NEW state \in {"kept", "lost"}, Settle(numbers, state), Typed
    PROVE  /\ DOMAIN entry' = DOMAIN entry /\ numbers \subseteq DOMAIN entry
           /\ \A i \in DOMAIN entry : entry'[i].row = entry[i].row
           /\ Kept' = IF state = "kept" THEN Kept \cup numbers ELSE Kept
           /\ tampered' = tampered
<1>1. /\ numbers \subseteq Open /\ tampered' = tampered
      /\ entry' = [i \in DOMAIN entry |->
                     IF i \in numbers THEN [entry[i] EXCEPT !.state = state] ELSE entry[i]]
  BY DEF Settle
<1>2. \A e \in Entries : [e EXCEPT !.state = state].row = e.row /\ [e EXCEPT !.state = state].state = state
  BY DEF Entries
<1>3. \A i \in DOMAIN entry : entry[i] \in Entries
  BY DEF Typed
<1>4. /\ DOMAIN entry' = DOMAIN entry
      /\ \A i \in DOMAIN entry : /\ entry'[i].row = entry[i].row
                                 /\ entry'[i].state = IF i \in numbers THEN state ELSE entry[i].state
  BY <1>1, <1>2, <1>3
<1>5. numbers \subseteq DOMAIN entry /\ \A i \in numbers : i \notin Kept
  BY <1>1 DEF Open, Kept
<1>6. Kept' = IF state = "kept" THEN Kept \cup numbers ELSE Kept
  BY <1>4, <1>5 DEF Kept
<1> QED BY <1>1, <1>4, <1>5, <1>6

LEMMA SettleNotes ==
    ASSUME Lawful, NEW r \in Requests, NEW state \in {"kept", "lost"},
           Settle(req[r].numbers, state), \A i \in req[r].numbers : entry[i].row.of = r,
           Alone(r), unheard \subseteq unheard', changed' \ {r} = changed \ {r}
    PROVE  /\ Honest(r) /\ Op(r)' = Op(r) /\ Counts(r)' = Counts(r) /\ tampered' = tampered
           /\ Told(r)' <=> \/ Told(r)
                           \/ state = "kept" /\ \E i \in req[r].numbers : Tells(r, i)
<1> DEFINE numbers == req[r].numbers
<1>1. /\ DOMAIN entry' = DOMAIN entry /\ numbers \subseteq DOMAIN entry
      /\ \A i \in DOMAIN entry : entry'[i].row = entry[i].row
      /\ Kept' = IF state = "kept" THEN Kept \cup numbers ELSE Kept
      /\ tampered' = tampered
  BY SettleDoes DEF Lawful
<1>2. Op(r)' = Op(r) /\ Counts(r)' = Counts(r)
  BY DEF Alone, Op, Plan, Counts, AtPortal
<1>3. Kept \subseteq DOMAIN entry
  BY DEF Kept
<1>4. \A i \in DOMAIN entry : Tells(r, i)' <=> Tells(r, i)
  BY <1>1, <1>2 DEF Tells
<1>5. Told(r)' <=> Told(r) \/ (state = "kept" /\ \E i \in numbers : Tells(r, i))
  BY <1>1, <1>3, <1>4 DEF Told
<1>6. Honest(r)
  BY <1>1 DEF Honest, Alone
<1> QED BY <1>1, <1>2, <1>5, <1>6

LEMMA OpenStoreNoted ==
    ASSUME Lawful, Recorded, NEW r \in Requests, OpenStore(r)
    PROVE  Noted(r)
<1>1. /\ Op(r) \in StoreRecorded /\ At(r, "running") /\ changed' = changed /\ unheard' = unheard
      /\ Typed /\ Shown(r)
  BY DEF OpenStore, Lawful, stateVars, SameDoor
<1>2. PICK ops \in Handlers[Op(r)].rows, v \in Verdicts(r) :
        LET row == Outcome(r, Scope(r), v[1], v[2])
        IN /\ Draw([row EXCEPT !.op = Head(ops)], TRUE)
           /\ req' = [req EXCEPT ![r].phase = "writing", ![r].row = row, ![r].left = Tail(ops),
                                 ![r].numbers = {Len(entry) + 1}]
  BY DEF OpenStore
<1> DEFINE row == Outcome(r, Scope(r), v[1], v[2])
           drawn == [row EXCEPT !.op = Head(ops)]
<1>3. Scope(r) \in ProjectKeys
  BY <1>1, ScopeIsTyped DEF Shown, Inside, Working, At
<1>4. /\ Tail(ops) \in Seq(RecordableOperation) /\ Head(ops) \in RecordableOperation
      /\ IF Tail(ops) = << >> THEN Head(ops) = Op(r) ELSE Tail(ops)[Len(Tail(ops))] = Op(r)
      /\ v[1] \in {"allowed", "refused"} /\ v[2] \in Nat /\ (v[2] > 0 => v[1] = "allowed")
  BY <1>1, StoreIsKnown
<1>5. row \in Rows /\ row.of = r /\ row.outcome = v[1] /\ row.magnitude = v[2]
  <2>1. row \in Rows
    BY <1>1, <1>3, <1>4, OutcomeIsTyped
  <2>2. row.of = r /\ row.outcome = v[1] /\ row.magnitude = v[2]
    BY DEF Outcome, Row
  <2> QED BY <2>1, <2>2
<1>6. Draw(drawn, TRUE) /\ req' = [req EXCEPT ![r].phase = "writing", ![r].row = row,
                                         ![r].left = Tail(ops), ![r].numbers = {Len(entry) + 1}]
  BY <1>2
<1> HIDE DEF row
<1>7. /\ drawn \in Rows /\ drawn.of = r /\ drawn.op = Head(ops) /\ drawn.outcome = v[1]
      /\ drawn.magnitude = v[2]
  BY <1>4, <1>5, RenamedIsTyped DEF Rows
<1> HIDE DEF drawn
<1>8. /\ Stands(r, "writing", req[r].answer, req[r].holds)
      /\ req'[r].row = row /\ req'[r].left = Tail(ops) /\ req'[r].numbers = {Len(entry) + 1}
  BY <1>1, <1>4, <1>5, <1>6, OpenStoreDoes
<1>9. Alone(r) /\ req'[r].phase = "writing"
  BY <1>8 DEF Stands
<1>10. /\ Honest(r) /\ (Told(r)' <=> Told(r)) /\ Op(r)' = Op(r) /\ Counts(r)' = Counts(r)
       /\ Len(entry) + 1 \in DOMAIN entry' /\ entry'[Len(entry) + 1].row = drawn
  BY <1>1, <1>6, <1>7, <1>9, DrawNotes
<1>11. tampered' = tampered /\ r \notin changed
  BY <1>1, <1>6, NotYetChanged DEF Draw, At
<1>12. WritesItsOwn(r)'
  BY <1>4, <1>5, <1>7, <1>8, <1>10 DEF WritesItsOwn
<1>13. ~tampered => Book(r)
  BY DEF Recorded
<1>14. ~tampered => Book(r)'
  BY <1>1, <1>7, <1>8, <1>9, <1>10, <1>11, <1>12, <1>13 DEF Book, At, Recordable
<1> QED BY <1>10, <1>11, <1>14 DEF Noted

LEMMA GoOnWritingNoted ==
    ASSUME Lawful, Recorded, NEW r \in Requests, GoOnWriting(r)
    PROVE  Noted(r)
<1> DEFINE left == req[r].left
           drawn == [req[r].row EXCEPT !.op = Head(left)]
<1>1. /\ At(r, "writing") /\ changed' = changed /\ unheard' = unheard /\ Typed
      /\ req[r].row \in Rows /\ left # << >> /\ Draw(drawn, FALSE) /\ tampered' = tampered
  BY DEF GoOnWriting, Lawful, Typed, At, stateVars, SameDoor, Draw
<1>2. left \in Seq(RecordableOperation)
  BY <1>1 DEF Typed, RequestType
<1>3. /\ Head(left) \in RecordableOperation
      /\ IF Tail(left) = << >> THEN Head(left) = left[Len(left)]
         ELSE Tail(left)[Len(Tail(left))] = left[Len(left)]
  BY <1>1, <1>2, LastIsLeft
<1>4. /\ drawn \in Rows /\ drawn.of = req[r].row.of /\ drawn.op = Head(left)
      /\ drawn.outcome = req[r].row.outcome /\ drawn.magnitude = req[r].row.magnitude
  BY <1>1, <1>3, RenamedIsTyped DEF Rows
<1> HIDE DEF drawn
<1>5. /\ Alone(r) /\ req'[r].phase = "writing" /\ req'[r].answer = req[r].answer
      /\ req'[r].row = req[r].row /\ req'[r].left = Tail(left)
      /\ req'[r].numbers = req[r].numbers \cup {Len(entry) + 1}
  BY <1>1, GoOnWritingDoes DEF Stands
<1> SUFFICES ASSUME ~tampered PROVE Honest(r) /\ Book(r)'
  BY <1>1 DEF Noted
<1>6. Book(r) /\ WritesItsOwn(r) /\ r \notin changed
  BY <1>1, NotYetChanged DEF Recorded, Book, At
<1>7. /\ drawn.of = r /\ left[Len(left)] = Op(r)
      /\ \A i \in req[r].numbers : i \in DOMAIN entry /\ entry[i].row.of = r
  BY <1>1, <1>4, <1>6 DEF WritesItsOwn, Book, At
<1> HIDE DEF left
<1>8. /\ Honest(r) /\ (Told(r)' <=> Told(r)) /\ Op(r)' = Op(r) /\ Counts(r)' = Counts(r)
      /\ Len(entry) + 1 \in DOMAIN entry' /\ entry'[Len(entry) + 1].row = drawn
      /\ \A i \in DOMAIN entry : i \in DOMAIN entry' /\ entry'[i] = entry[i]
  BY <1>1, <1>4, <1>5, <1>7, DrawNotes
<1>9. WritesItsOwn(r)'
  BY <1>3, <1>4, <1>5, <1>6, <1>7, <1>8 DEF WritesItsOwn
<1> QED BY <1>1, <1>4, <1>5, <1>6, <1>7, <1>8, <1>9 DEF Book, At, Recordable

LEMMA AppendRowNoted ==
    ASSUME Lawful, Recorded, NEW r \in Requests, AppendRow(r)
    PROVE  Noted(r)
<1>1. /\ At(r, "recording") /\ changed' = changed /\ unheard' = unheard /\ Typed
      /\ req[r].row \in Rows /\ Draw(req[r].row, TRUE) /\ tampered' = tampered
  BY DEF AppendRow, Lawful, Typed, At, stateVars, SameDoor, Draw
<1>2. /\ Alone(r) /\ req'[r].phase = "appending" /\ req'[r].answer = req[r].answer
      /\ req'[r].row = req[r].row /\ req'[r].numbers = {Len(entry) + 1}
  BY <1>1, AppendRowDoes DEF Stands
<1> SUFFICES ASSUME ~tampered PROVE Honest(r) /\ Book(r)'
  BY <1>1 DEF Noted
<1>3. Book(r) /\ req[r].row.of = r
  BY <1>1 DEF Recorded, Book, At
<1>4. /\ Honest(r) /\ (Told(r)' <=> Told(r)) /\ Op(r)' = Op(r) /\ Counts(r)' = Counts(r)
      /\ Len(entry) + 1 \in DOMAIN entry' /\ entry'[Len(entry) + 1].row = req[r].row
  BY <1>1, <1>2, <1>3, DrawNotes
<1> QED BY <1>1, <1>2, <1>3, <1>4 DEF Book, At, Recordable, Telling

LEMMA RowNoted ==
    ASSUME Lawful, Recorded, NEW r \in Requests, RowKept(r) \/ RowLost(r)
    PROVE  Noted(r)
<1>1. /\ req[r].phase \in {"recording", "appending"} /\ changed' = changed /\ Typed
      /\ unheard \subseteq unheard' /\ Answers(r, req[r].answer)
      /\ tampered' = tampered /\ req[r].answer \in Replies \cup {None}
  BY DEF RowKept, RowLost, Settle, Lawful, Typed, RequestType, At, stateVars, SameDoor, ledgerVars
<1>2. Alone(r) /\ req'[r].phase = "answered" /\ req'[r].answer = req[r].answer
  BY <1>1, AnswersDoes DEF Stands
<1> SUFFICES ASSUME ~tampered PROVE Honest(r) /\ Book(r)'
  BY <1>1 DEF Noted
<1>3. Book(r)
  BY DEF Recorded
<1>4. CASE At(r, "recording") /\ entry' = entry /\ r \in unheard'
  <2>1. /\ Honest(r) /\ (Told(r)' <=> Told(r)) /\ Op(r)' = Op(r) /\ Counts(r)' = Counts(r)
        /\ Recordable(r)' = Recordable(r)
    <3>1. Op(r)' = Op(r) /\ Counts(r)' = Counts(r)
      BY <1>2 DEF Alone, Op, Plan, Counts, AtPortal
    <3>2. Kept' = Kept
      BY <1>4 DEF Kept
    <3> QED BY <1>1, <1>2, <1>4, <3>1, <3>2 DEF Honest, Alone, Told, Tells, Recordable
  <2> QED BY <1>1, <1>2, <1>3, <1>4, <2>1 DEF Book, At
<1>5. ASSUME NEW state \in {"kept", "lost"}, At(r, "appending"), Settle(req[r].numbers, state),
             state = "lost" => r \in unheard'
      PROVE  Honest(r) /\ Book(r)'
  <2>1. /\ \A i \in req[r].numbers : entry[i].row.of = r /\ entry[i].row = req[r].row
        /\ req[r].numbers # {}
    BY <1>3, <1>5 DEF Book, At
  <2>2. /\ Honest(r) /\ Op(r)' = Op(r) /\ Counts(r)' = Counts(r)
        /\ Told(r)' <=> \/ Told(r)
                        \/ state = "kept" /\ \E i \in req[r].numbers : Tells(r, i)
    BY <1>1, <1>2, <1>5, <2>1, SettleNotes
  <2>3. (\E i \in req[r].numbers : Tells(r, i)) <=> Telling(r, req[r].row)
    BY <2>1 DEF Tells, Telling
  <2> QED BY <1>1, <1>2, <1>3, <1>5, <2>2, <2>3 DEF Book, At, Recordable
<1> QED BY <1>4, <1>5 DEF RowKept, RowLost, ledgerVars

\* What a transaction has written, once it ends, tells of a change exactly where it counts one.
LEMMA WrittenTells ==
    ASSUME NEW r, WritesItsOwn(r), req[r].left = << >>,
           \A i \in req[r].numbers : entry[i].row.of = r
    PROVE  (\E i \in req[r].numbers : Tells(r, i)) <=> req[r].row.magnitude > 0
BY DEF WritesItsOwn, Tells

LEMMA EndStoreNoted ==
    ASSUME Lawful, Recorded, NEW r \in Requests, CommitStore(r) \/ AbortStore(r)
    PROVE  Noted(r)
<1>1. /\ At(r, "writing") /\ unheard' = unheard /\ Typed /\ Op(r) \in StoreRecorded
      /\ req[r].phase \in Working /\ r \notin changed
  <2>1. /\ At(r, "writing") /\ unheard' = unheard /\ Typed /\ Op(r) \in StoreRecorded
        /\ req[r].phase \in Working
    BY DEF CommitStore, AbortStore, Lawful, Authority, SameDoor, At, Working
  <2> QED BY <2>1, NotYetChanged DEF Working
<1>2. tampered' = tampered
  BY DEF CommitStore, AbortStore, Settle
<1>3. /\ Alone(r) /\ req'[r].phase \in {"recording", "answered"}
      /\ req'[r].phase = "recording" => req'[r].row.of = r /\ req'[r].row.outcome = "refused"
  <2>1. CASE Declined(r) \/ Failed(r)
    BY <1>1, <2>1, DeclinesRefuses DEF Refuses
  <2>2. CASE \E answer \in Replies : Answers(r, answer)
    BY <1>1, <2>2, AnswersDoes DEF Stands
  <2> QED BY <2>1, <2>2 DEF CommitStore, AbortStore, Replies
<1> SUFFICES ASSUME ~tampered PROVE Honest(r) /\ Book(r)'
  BY <1>2 DEF Noted
<1>4. /\ Book(r) /\ WritesItsOwn(r) /\ ~Told(r)
      /\ \A i \in req[r].numbers : entry[i].row.of = r
  BY <1>1 DEF Recorded, Book, At, Recordable
<1>5. CASE CommitStore(r)
  <2>1. /\ Settle(req[r].numbers, "kept") /\ req[r].left = << >>
        /\ changed' = IF req[r].row.magnitude > 0 THEN changed \cup {r} ELSE changed
    BY <1>5 DEF CommitStore
  <2>2. /\ Honest(r) /\ Op(r)' = Op(r)
        /\ Told(r)' <=> \E i \in req[r].numbers : Tells(r, i)
    BY <1>1, <1>3, <1>4, <2>1, SettleNotes
  <2>3. Told(r)' <=> r \in changed'
    BY <1>1, <1>4, <2>1, <2>2, WrittenTells
  <2> QED BY <1>1, <1>3, <2>2, <2>3 DEF Book, At, Telling
<1>6. CASE AbortStore(r)
  <2>1. Settle(req[r].numbers, "lost") /\ changed' = changed
    BY <1>6 DEF AbortStore, stateVars
  <2>2. Honest(r) /\ Op(r)' = Op(r) /\ ~Told(r)'
    BY <1>1, <1>3, <1>4, <2>1, SettleNotes
  <2> QED BY <1>1, <1>3, <2>1, <2>2 DEF Book, At, Telling
<1> QED BY <1>5, <1>6

LEMMA StepIsNoted ==
    ASSUME Lawful, Recorded, NEW r \in Requests, RequestStep(r)
    PROVE  Noted(r)
<1>1. ASSUME NEW earned \in 0 .. Burst, Authenticate(r, earned) PROVE Noted(r)
  BY <1>1, AuthenticateNoted
<1>2. ASSUME NEW minutePassed \in BOOLEAN, Sample(r, minutePassed) PROVE Noted(r)
  BY <1>2, SampleNoted
<1>3. CASE FindSession(r) \/ Resolve(r) \/ ResolveFails(r) \/ ResolveSession(r) \/ Act(r)
           \/ CheckActive(r) \/ Admit(r)
  BY <1>3, DoorNoted, ActNoted, CheckActiveNoted, AdmitNoted
<1>4. CASE Malformed(r) \/ Read(r) \/ Change(r) \/ SetSuspended(r) \/ RevokeCredential(r)
           \/ CheckProject(r) \/ Mint(r) \/ Preview(r) \/ TellVerdict(r)
  BY <1>4, PlainNoted, ChangeNoted, ProjectAndCredentialNoted
<1>5. CASE OpenStore(r) \/ GoOnWriting(r) \/ CommitStore(r) \/ AbortStore(r)
  BY <1>5, OpenStoreNoted, GoOnWritingNoted, EndStoreNoted
<1>6. CASE AskSeal(r) \/ Seal(r) \/ GiveUpSeal(r)
           \/ StartVerify(r) \/ VerifySeal(r) \/ VerifyRest(r) \/ VerifyFails(r)
  BY <1>6, SealingNoted, VerifyingNoted
<1>7. CASE AppendRow(r) \/ RowKept(r) \/ RowLost(r)
  BY <1>7, AppendRowNoted, RowNoted
<1> QED BY <1>1, <1>2, <1>3, <1>4, <1>5, <1>6, <1>7 DEF RequestStep

\* What happens besides writes no row of a request, and what alters the ledger is known.
LEMMA OtherStepsAreRecorded ==
    ASSUME Lawful, Recorded,
           \/ \E c \in Credentials : CommandLineRevokes(c) \/ SessionEnds(c)
           \/ \E p \in Projects : CommandLineSuspends(p)
           \/ DriverAsks \/ DriverSeals \/ AnotherCommits \/ Alter \/ Finished
           \/ UNCHANGED vars
    PROVE  Recorded'
<1>1. CASE Alter
  BY <1>1 DEF Alter, Tamper, Recorded
<1>2. req' = req /\ changed' = changed /\ unheard' = unheard
  BY DEF CommandLineRevokes, SessionEnds, CommandLineSuspends, DriverAsks, DriverSeals, AnotherCommits,
     Alter, Finished, Happens, vars, doorVars, stateVars
<1>3. CASE entry' = entry /\ tampered' = tampered
  <2>1. Kept' = Kept
    BY <1>3 DEF Kept
  <2>2. Honest(None)
    BY <1>2, <1>3, <2>1 DEF Honest
  <2> QED BY <1>3, <2>2, HonestIsRecorded, RequestsAssumption
<1>4. CASE AnotherCommits
  <2> DEFINE numbers == Elsewhere \cap Open
  <2>1. /\ DOMAIN entry' = DOMAIN entry
        /\ \A i \in DOMAIN entry : entry'[i].row = entry[i].row
        /\ Kept' = Kept \cup numbers
        /\ tampered' = tampered
    BY <1>4, SettleDoes DEF AnotherCommits, Lawful
  <2>2. ~tampered => \A i \in numbers : entry[i].row.of = None
    BY DEF Recorded
  <2>3. ~tampered => Honest(None)
    BY <1>2, <2>1, <2>2 DEF Honest
  <2> QED BY <2>1, <2>3, HonestIsRecorded, RequestsAssumption
<1>5. Alter \/ AnotherCommits \/ (entry' = entry /\ tampered' = tampered)
  <2>1. ASSUME NEW c \in Credentials, CommandLineRevokes(c) \/ SessionEnds(c)
        PROVE  entry' = entry /\ tampered' = tampered
    BY <2>1 DEF CommandLineRevokes, SessionEnds, ledgerVars
  <2>2. ASSUME NEW p \in Projects, CommandLineSuspends(p)
        PROVE  entry' = entry /\ tampered' = tampered
    BY <2>2 DEF CommandLineSuspends, ledgerVars
  <2>3. DriverAsks \/ DriverSeals => entry' = entry /\ tampered' = tampered
    BY DEF DriverAsks, WaitToSeal, DriverSeals, SealNow
  <2>4. Finished \/ UNCHANGED vars => entry' = entry /\ tampered' = tampered
    BY DEF Finished, vars, ledgerVars
  <2> QED BY <2>1, <2>2, <2>3, <2>4
<1> QED BY <1>1, <1>3, <1>4, <1>5

LEMMA InitIsRecorded ==
    ASSUME Init PROVE Recorded
<1>1. \A r \in Requests : req[r].phase = "new" /\ req[r].answer = None
  BY DEF Init
<1>2. changed = {}
  BY DEF Init
<1>3. /\ DOMAIN entry = 1 .. Len(Initially)
      /\ \A i \in 1 .. Len(Initially) : entry[i].row = Initially[i] /\ entry[i].row.of = None
  BY RequestsAssumption DEF Init, StartsWith
<1>4. \A i \in Elsewhere : i \in DOMAIN entry
  BY <1>3, RequestsAssumption
<1>5. \A r \in Requests : ~Told(r)
  BY <1>3, RequestsAssumption DEF Told, Tells, Kept
<1> QED BY <1>1, <1>2, <1>3, <1>4, <1>5 DEF Recorded, Book, At

\* The record invariant: of a ledger nobody altered, each row under way, lost or kept fits what
\* its request has changed and is going to answer.
THEOREM RecordedInvariant == Spec => []Recorded
<1>1. Init => Recorded
  BY InitIsRecorded
<1>2. Lawful /\ Recorded /\ [Next]_vars => Recorded'
  <2> SUFFICES ASSUME Lawful, Recorded, [Next]_vars PROVE Recorded'
    OBVIOUS
  <2>1. ASSUME NEW r \in Requests, RequestStep(r) PROVE Recorded'
    BY <2>1, StepIsNoted, HonestIsRecorded DEF Noted
  <2> QED BY <2>1, OtherStepsAreRecorded DEF Next
<1> QED BY <1>1, <1>2, LawfulInvariant, PTL DEF Spec

\* What changed is on the ledger, and what the ledger says changed did.
THEOREM ChangesAreRecorded == Spec => []ChangesAreOnTheRecord
<1>1. Recorded => ChangesAreOnTheRecord
  <2> SUFFICES ASSUME Recorded, ~tampered, NEW r \in Requests
      PROVE  /\ Op(r) \in StoreRecorded => (Told(r) <=> r \in changed)
             /\ Op(r) \in HandlerRecorded \ {"audit.seal"} => (Told(r) => r \in changed)
             /\ r \in changed /\ At(r, "answered") /\ req[r].answer = "ok" =>
                    Told(r) \/ r \in unheard \/ Counts(r) = {0}
    BY DEF ChangesAreOnTheRecord
  <2> QED BY DEF Recorded, Book, Recordable, At
<1> QED BY <1>1, RecordedInvariant, PTL

-----------------------------------------------------------------------------
(* The slots: a gate counts those who hold one.                             *)

OfProject(s, p) == {r \in Holders(s, "work") : WorkKey(r) = p}
OfCredential(s, c) == {r \in Holders(s, "work") : Plan(r).token = c}

Accounts(s) ==
    /\ gates[s].auth = Cardinality(Holders(s, "auth")) /\ gates[s].auth <= AuthLimit(s)
    /\ gates[s].audit = Cardinality(Holders(s, "audit")) /\ gates[s].audit <= 1
    /\ gates[s].work = Cardinality(Holders(s, "work")) + gates[s].audit /\ gates[s].work <= WorkLimit(s)
    /\ \A p \in ProjectKeys : /\ gates[s].projects[p] = Cardinality(OfProject(s, p))
                             /\ gates[s].projects[p] <= ProjectLimit(s)
    /\ \A c \in Credentials : /\ gates[s].credentials[c] = Cardinality(OfCredential(s, c))
                             /\ gates[s].credentials[c] <= CredentialLimit(s)

\* What a request can hold where it is: nobody takes a slot twice, or leaves with one.
HoldsItsShare(r) ==
    /\ req[r].phase \in {"new", "admitting", "answered"} => req[r].holds = {}
    /\ req[r].phase \in {"resolving", "checking", "stranger"} => req[r].holds \subseteq {"auth"}

Accounted == (\A s \in Servers : Accounts(s)) /\ \A r \in Requests : HoldsItsShare(r)

Has(slot, holds) == IF slot \in holds THEN 1 ELSE 0
\* How many more of a slot r holds after the step: one, none or one less.
More(r, slot) == Has(slot, req'[r].holds) - Has(slot, req[r].holds)
Within(now, before, limit) == now <= limit \/ now <= before

\* r's gate counts what r takes and gives back, and gives out no more than its limits.
Balanced(r) ==
    LET s == Server(r)
        g == gates[s]
        h == gates'[s]
    IN /\ \A t \in Servers \ {s} : gates'[t] = gates[t]
       /\ h.auth = g.auth + More(r, "auth") /\ Within(h.auth, g.auth, AuthLimit(s))
       /\ h.audit = g.audit + More(r, "audit") /\ Within(h.audit, g.audit, 1)
       /\ h.work = g.work + More(r, "work") + More(r, "audit") /\ Within(h.work, g.work, WorkLimit(s))
       /\ \A p \in ProjectKeys :
            /\ h.projects[p] = g.projects[p] + IF WorkKey(r) = p THEN More(r, "work") ELSE 0
            /\ Within(h.projects[p], g.projects[p], ProjectLimit(s))
       /\ \A c \in Credentials :
            /\ h.credentials[c] = g.credentials[c] + IF Plan(r).token = c THEN More(r, "work") ELSE 0
            /\ Within(h.credentials[c], g.credentials[c], CredentialLimit(s))

Pays(r) == Alone(r) /\ Balanced(r) /\ HoldsItsShare(r)'

LEMMA LimitsAreTyped ==
    ASSUME NEW s \in Servers
    PROVE  /\ AuthLimit(s) \in Nat /\ WorkLimit(s) \in Nat
           /\ ProjectLimit(s) \in Nat /\ CredentialLimit(s) \in Nat
<1>1. /\ MemoryConnections[s] \in Nat /\ RegistryConnections[s] \in Nat
      /\ MemoryConnections[s] >= 3 /\ RegistryConnections[s] >= 1
  BY RequestsAssumption, PoolsAreLargeEnough
<1>2. AuthLimit(s) \in Nat
  <2>1. 2 \in Int /\ RegistryConnections[s] \in Int
    BY <1>1
  <2>2. AuthLimit(s) \in {2, RegistryConnections[s]}
    BY <2>1, MinIsOne DEF AuthLimit
  <2> QED BY <1>1, <2>2
<1>3. WorkLimit(s) \in Nat
  <2>1. 64 \in Int /\ MemoryConnections[s] - 1 \in Int /\ MemoryConnections[s] - 1 \in Nat
    BY <1>1
  <2>2. WorkLimit(s) \in {64, MemoryConnections[s] - 1}
    BY <2>1, MinIsOne DEF WorkLimit
  <2> QED BY <2>1, <2>2
<1>4. ProjectLimit(s) \in Nat
  <2>1. 1 \in Int /\ WorkLimit(s) \div 2 \in Int /\ WorkLimit(s) \div 2 \in Nat
    BY <1>3
  <2>2. ProjectLimit(s) \in {1, WorkLimit(s) \div 2}
    BY <2>1, MinIsOne DEF ProjectLimit
  <2> QED BY <2>1, <2>2
<1>5. CredentialLimit(s) \in Nat
  <2>1. 1 \in Int /\ ProjectLimit(s) \div 2 \in Int /\ ProjectLimit(s) \div 2 \in Nat
    BY <1>4
  <2>2. CredentialLimit(s) \in {1, ProjectLimit(s) \div 2}
    BY <2>1, MinIsOne DEF CredentialLimit
  <2> QED BY <2>1, <2>2
<1> QED BY <1>2, <1>3, <1>4, <1>5

\* Of two sets of requests that differ in r only, r makes the difference.
LEMMA OneMakesTheDifference ==
    ASSUME NEW S \in SUBSET Requests, NEW T \in SUBSET Requests, NEW r, S \ {r} = T \ {r}
    PROVE  /\ Cardinality(S) \in Nat /\ Cardinality(T) \in Nat
           /\ Cardinality(T) = Cardinality(S) + ((IF r \in T THEN 1 ELSE 0) - (IF r \in S THEN 1 ELSE 0))
<1>1. IsFiniteSet(S) /\ IsFiniteSet(T)
  BY RequestsAssumption, FS_Subset
<1>2. Cardinality(S) \in Nat /\ Cardinality(T) \in Nat
  BY <1>1, FS_CardinalityType
<1>3. Cardinality(S \ {r}) = IF r \in S THEN Cardinality(S) - 1 ELSE Cardinality(S)
  BY <1>1, FS_RemoveElement
<1>4. Cardinality(T \ {r}) = IF r \in T THEN Cardinality(T) - 1 ELSE Cardinality(T)
  BY <1>1, FS_RemoveElement
<1> QED BY <1>2, <1>3, <1>4

LEMMA HoldersChange ==
    ASSUME NEW r \in Requests, Alone(r), NEW s \in Servers, NEW slot \in AllSlots
    PROVE  /\ Cardinality(Holders(s, slot)) \in Nat
           /\ Cardinality(Holders(s, slot))' =
                  Cardinality(Holders(s, slot)) + IF Server(r) = s THEN More(r, slot) ELSE 0
           /\ \A p : /\ Cardinality(OfProject(s, p)) \in Nat
                     /\ Cardinality(OfProject(s, p))' = Cardinality(OfProject(s, p)) +
                            IF Server(r) = s /\ WorkKey(r) = p THEN More(r, "work") ELSE 0
           /\ \A c : /\ Cardinality(OfCredential(s, c)) \in Nat
                     /\ Cardinality(OfCredential(s, c))' = Cardinality(OfCredential(s, c)) +
                            IF Server(r) = s /\ Plan(r).token = c THEN More(r, "work") ELSE 0
<1>1. \A q \in Requests : /\ Plan(q)' = Plan(q) /\ Server(q)' = Server(q) /\ WorkKey(q)' = WorkKey(q)
                          /\ q # r => req'[q].holds = req[q].holds
  BY DEF Alone, Plan, Server, WorkKey, AtMemory, Scope
<1>2. Cardinality(Holders(s, slot)) \in Nat /\ Cardinality(Holders(s, slot))' =
          Cardinality(Holders(s, slot)) + IF Server(r) = s THEN More(r, slot) ELSE 0
  <2> DEFINE S == Holders(s, slot)
             T == {q \in Requests : Server(q) = s /\ slot \in req'[q].holds}
  <2>1. S \in SUBSET Requests /\ T \in SUBSET Requests /\ S \ {r} = T \ {r} /\ Holders(s, slot)' = T
    BY <1>1 DEF Holders
  <2>2. /\ r \in S <=> Server(r) = s /\ slot \in req[r].holds
        /\ r \in T <=> Server(r) = s /\ slot \in req'[r].holds
    BY DEF Holders
  <2> HIDE DEF S, T
  <2>3. /\ Cardinality(S) \in Nat
        /\ Cardinality(T) = Cardinality(S) + ((IF r \in T THEN 1 ELSE 0) - (IF r \in S THEN 1 ELSE 0))
    BY <2>1, OneMakesTheDifference
  <2>4. (IF r \in T THEN 1 ELSE 0) - (IF r \in S THEN 1 ELSE 0) = IF Server(r) = s THEN More(r, slot) ELSE 0
    BY <2>2 DEF More, Has
  <2>5. Cardinality(Holders(s, slot))' = Cardinality(T)
    BY <2>1
  <2> QED BY <2>3, <2>4, <2>5 DEF S
<1>3. ASSUME NEW p
      PROVE  Cardinality(OfProject(s, p)) \in Nat /\ Cardinality(OfProject(s, p))' =
                 Cardinality(OfProject(s, p)) +
                     IF Server(r) = s /\ WorkKey(r) = p THEN More(r, "work") ELSE 0
  <2> DEFINE S == OfProject(s, p)
             T == {q \in Requests : Server(q) = s /\ "work" \in req'[q].holds /\ WorkKey(q) = p}
  <2>1. S \in SUBSET Requests /\ T \in SUBSET Requests /\ S \ {r} = T \ {r} /\ OfProject(s, p)' = T
    BY <1>1 DEF OfProject, Holders
  <2>2. /\ r \in S <=> Server(r) = s /\ "work" \in req[r].holds /\ WorkKey(r) = p
        /\ r \in T <=> Server(r) = s /\ "work" \in req'[r].holds /\ WorkKey(r) = p
    BY DEF OfProject, Holders
  <2> HIDE DEF S, T
  <2>3. /\ Cardinality(S) \in Nat
        /\ Cardinality(T) = Cardinality(S) + ((IF r \in T THEN 1 ELSE 0) - (IF r \in S THEN 1 ELSE 0))
    BY <2>1, OneMakesTheDifference
  <2>4. (IF r \in T THEN 1 ELSE 0) - (IF r \in S THEN 1 ELSE 0) =
            IF Server(r) = s /\ WorkKey(r) = p THEN More(r, "work") ELSE 0
    BY <2>2 DEF More, Has
  <2>5. Cardinality(OfProject(s, p))' = Cardinality(T)
    BY <2>1
  <2> QED BY <2>3, <2>4, <2>5 DEF S
<1>4. ASSUME NEW c
      PROVE  Cardinality(OfCredential(s, c)) \in Nat /\ Cardinality(OfCredential(s, c))' =
                 Cardinality(OfCredential(s, c)) +
                     IF Server(r) = s /\ Plan(r).token = c THEN More(r, "work") ELSE 0
  <2> DEFINE S == OfCredential(s, c)
             T == {q \in Requests : Server(q) = s /\ "work" \in req'[q].holds /\ Plan(q).token = c}
  <2>1. S \in SUBSET Requests /\ T \in SUBSET Requests /\ S \ {r} = T \ {r} /\ OfCredential(s, c)' = T
    BY <1>1 DEF OfCredential, Holders
  <2>2. /\ r \in S <=> Server(r) = s /\ "work" \in req[r].holds /\ Plan(r).token = c
        /\ r \in T <=> Server(r) = s /\ "work" \in req'[r].holds /\ Plan(r).token = c
    BY DEF OfCredential, Holders
  <2> HIDE DEF S, T
  <2>3. /\ Cardinality(S) \in Nat
        /\ Cardinality(T) = Cardinality(S) + ((IF r \in T THEN 1 ELSE 0) - (IF r \in S THEN 1 ELSE 0))
    BY <2>1, OneMakesTheDifference
  <2>4. (IF r \in T THEN 1 ELSE 0) - (IF r \in S THEN 1 ELSE 0) =
            IF Server(r) = s /\ Plan(r).token = c THEN More(r, "work") ELSE 0
    BY <2>2 DEF More, Has
  <2>5. Cardinality(OfCredential(s, c))' = Cardinality(T)
    BY <2>1
  <2> QED BY <2>3, <2>4, <2>5 DEF S
<1> QED BY <1>2, <1>3, <1>4

LEMMA PayingIsAccounted ==
    ASSUME Typed, Accounted, NEW r \in Requests, Pays(r)
    PROVE  Accounted'
<1>1. Alone(r) /\ Balanced(r)
  BY DEF Pays
<1>2. \A q \in Requests : HoldsItsShare(q)'
  BY <1>1 DEF Pays, Alone, Accounted, HoldsItsShare
<1>3. \A slot \in AllSlots : More(r, slot) \in Int
  BY DEF More, Has
<1>4. ASSUME NEW s \in Servers PROVE Accounts(s)'
  <2> DEFINE g == gates[s]
             h == gates'[s]
             mine == Server(r) = s
             moreWork == More(r, "work")
             moreAudit == More(r, "audit")
             moreAuth == More(r, "auth")
  <2>1. Accounts(s) /\ g \in GateType
    BY DEF Accounted, Typed
  <2>2. /\ AuthLimit(s) \in Nat /\ WorkLimit(s) \in Nat
        /\ ProjectLimit(s) \in Nat /\ CredentialLimit(s) \in Nat
    BY LimitsAreTyped
  <2>3. moreWork \in Int /\ moreAudit \in Int /\ moreAuth \in Int
    BY <1>3 DEF AllSlots
  <2> DEFINE auths == Cardinality(Holders(s, "auth"))
             audits == Cardinality(Holders(s, "audit"))
             works == Cardinality(Holders(s, "work"))
  <2>4. /\ auths \in Nat /\ audits \in Nat /\ works \in Nat
        /\ auths' = auths + IF mine THEN moreAuth ELSE 0
        /\ audits' = audits + IF mine THEN moreAudit ELSE 0
        /\ works' = works + IF mine THEN moreWork ELSE 0
    BY <1>1, HoldersChange DEF AllSlots
  <2>5. CASE mine
    <3>1. /\ h.auth = g.auth + moreAuth /\ Within(h.auth, g.auth, AuthLimit(s))
          /\ h.audit = g.audit + moreAudit /\ Within(h.audit, g.audit, 1)
          /\ h.work = g.work + moreWork + moreAudit /\ Within(h.work, g.work, WorkLimit(s))
      BY <1>1, <2>5 DEF Balanced
    <3>2. /\ g.auth = auths /\ g.auth <= AuthLimit(s) /\ g.audit = audits /\ g.audit <= 1
          /\ g.work = works + g.audit /\ g.work <= WorkLimit(s)
      BY <2>1 DEF Accounts
    <3> HIDE DEF moreWork, moreAudit, moreAuth, auths, audits, works, h, g
    <3>3. /\ h.auth = auths' /\ h.auth <= AuthLimit(s)
          /\ h.audit = audits' /\ h.audit <= 1
          /\ h.work = works' + h.audit /\ h.work <= WorkLimit(s)
      BY <2>2, <2>3, <2>4, <2>5, <3>1, <3>2 DEF Within
    <3>4. ASSUME NEW p \in ProjectKeys
          PROVE  h.projects[p] = Cardinality(OfProject(s, p))' /\ h.projects[p] <= ProjectLimit(s)
      <4> DEFINE n == Cardinality(OfProject(s, p))
      <4>1. n \in Nat /\ n' = n + IF WorkKey(r) = p THEN moreWork ELSE 0
        BY <1>1, <2>5, HoldersChange DEF moreWork, AllSlots
      <4>2. /\ h.projects[p] = g.projects[p] + IF WorkKey(r) = p THEN moreWork ELSE 0
            /\ Within(h.projects[p], g.projects[p], ProjectLimit(s))
        BY <1>1, <2>5 DEF Balanced, h, g, moreWork
      <4>3. g.projects[p] = n /\ g.projects[p] <= ProjectLimit(s)
        BY <2>1 DEF Accounts, g
      <4> HIDE DEF n
      <4>4. h.projects[p] = n' /\ h.projects[p] <= ProjectLimit(s)
        BY <2>2, <2>3, <4>1, <4>2, <4>3 DEF Within
      <4> QED BY <4>4 DEF n
    <3>5. ASSUME NEW c \in Credentials
          PROVE  /\ h.credentials[c] = Cardinality(OfCredential(s, c))'
                 /\ h.credentials[c] <= CredentialLimit(s)
      <4> DEFINE n == Cardinality(OfCredential(s, c))
      <4>1. n \in Nat /\ n' = n + IF Plan(r).token = c THEN moreWork ELSE 0
        BY <1>1, <2>5, HoldersChange DEF moreWork, AllSlots
      <4>2. /\ h.credentials[c] = g.credentials[c] + IF Plan(r).token = c THEN moreWork ELSE 0
            /\ Within(h.credentials[c], g.credentials[c], CredentialLimit(s))
        BY <1>1, <2>5 DEF Balanced, h, g, moreWork
      <4>3. g.credentials[c] = n /\ g.credentials[c] <= CredentialLimit(s)
        BY <2>1 DEF Accounts, g
      <4> HIDE DEF n
      <4>4. h.credentials[c] = n' /\ h.credentials[c] <= CredentialLimit(s)
        BY <2>2, <2>3, <4>1, <4>2, <4>3 DEF Within
      <4> QED BY <4>4 DEF n
    <3>6. /\ AuthLimit(s)' = AuthLimit(s) /\ WorkLimit(s)' = WorkLimit(s)
          /\ ProjectLimit(s)' = ProjectLimit(s) /\ CredentialLimit(s)' = CredentialLimit(s)
      OBVIOUS
    <3> QED BY <3>3, <3>4, <3>5, <3>6 DEF Accounts, h, auths, audits, works
  <2>6. CASE ~mine
    <3>1. h = g
      BY <1>1, <2>6 DEF Balanced
    <3>2. /\ auths' = auths /\ audits' = audits /\ works' = works
      BY <2>4, <2>6
    <3>3. ASSUME NEW p \in ProjectKeys
          PROVE  Cardinality(OfProject(s, p))' = Cardinality(OfProject(s, p))
      <4> DEFINE n == Cardinality(OfProject(s, p))
      <4>1. n \in Nat /\ n' = n + 0
        BY <1>1, <2>6, HoldersChange DEF AllSlots
      <4> HIDE DEF n
      <4>2. n' = n
        BY <4>1
      <4> QED BY <4>2 DEF n
    <3>4. ASSUME NEW c \in Credentials
          PROVE  Cardinality(OfCredential(s, c))' = Cardinality(OfCredential(s, c))
      <4> DEFINE n == Cardinality(OfCredential(s, c))
      <4>1. n \in Nat /\ n' = n + 0
        BY <1>1, <2>6, HoldersChange DEF AllSlots
      <4> HIDE DEF n
      <4>2. n' = n
        BY <4>1
      <4> QED BY <4>2 DEF n
    <3> QED BY <2>1, <3>1, <3>2, <3>3, <3>4 DEF Accounts
  <2> QED BY <2>5, <2>6
<1> QED BY <1>2, <1>4 DEF Accounted

\* What taking and giving back a slot does to a gate, counter by counter.
LEMMA SlotsMoveTheGate ==
    ASSUME NEW g \in GateType
    PROVE  /\ /\ WithAuth(g).auth = g.auth + 1 /\ WithAuth(g).audit = g.audit
              /\ WithAuth(g).work = g.work /\ WithAuth(g).projects = g.projects
              /\ WithAuth(g).credentials = g.credentials
           /\ /\ WithoutAuth(g).auth = g.auth - 1 /\ WithoutAuth(g).audit = g.audit
              /\ WithoutAuth(g).work = g.work /\ WithoutAuth(g).projects = g.projects
              /\ WithoutAuth(g).credentials = g.credentials
           /\ /\ WithAudit(g).auth = g.auth /\ WithAudit(g).audit = g.audit + 1
              /\ WithAudit(g).work = g.work + 1 /\ WithAudit(g).projects = g.projects
              /\ WithAudit(g).credentials = g.credentials
           /\ /\ WithoutAudit(g).auth = g.auth /\ WithoutAudit(g).audit = g.audit - 1
              /\ WithoutAudit(g).work = g.work - 1 /\ WithoutAudit(g).projects = g.projects
              /\ WithoutAudit(g).credentials = g.credentials
<1>1. /\ WithAuth(g).auth = g.auth + 1 /\ WithAuth(g).audit = g.audit
      /\ WithAuth(g).work = g.work /\ WithAuth(g).projects = g.projects
      /\ WithAuth(g).credentials = g.credentials
  BY DEF GateType, WithAuth
<1>2. /\ WithoutAuth(g).auth = g.auth - 1 /\ WithoutAuth(g).audit = g.audit
      /\ WithoutAuth(g).work = g.work /\ WithoutAuth(g).projects = g.projects
      /\ WithoutAuth(g).credentials = g.credentials
  BY DEF GateType, WithoutAuth
<1>3. /\ WithAudit(g).auth = g.auth /\ WithAudit(g).audit = g.audit + 1
      /\ WithAudit(g).work = g.work + 1 /\ WithAudit(g).projects = g.projects
      /\ WithAudit(g).credentials = g.credentials
  BY DEF GateType, WithAudit
<1>4. /\ WithoutAudit(g).auth = g.auth /\ WithoutAudit(g).audit = g.audit - 1
      /\ WithoutAudit(g).work = g.work - 1 /\ WithoutAudit(g).projects = g.projects
      /\ WithoutAudit(g).credentials = g.credentials
  BY DEF GateType, WithoutAudit
<1> QED BY <1>1, <1>2, <1>3, <1>4

LEMMA WorkMovesTheGate ==
    ASSUME NEW g \in GateType, NEW key \in ProjectKeys, NEW token \in Credentials, NEW by \in Int
    PROVE  LET h == Shifted(g, key, token, by)
           IN /\ h.auth = g.auth /\ h.audit = g.audit /\ h.work = g.work + by
              /\ \A p \in ProjectKeys : h.projects[p] = g.projects[p] + IF key = p THEN by ELSE 0
              /\ \A c \in Credentials :
                    h.credentials[c] = g.credentials[c] + IF token = c THEN by ELSE 0
<1> DEFINE work == g.work + by
           projects == [g.projects EXCEPT ![key] = @ + by]
           credentials == [g.credentials EXCEPT ![token] = @ + by]
           h == [g EXCEPT !.work = work, !.projects = projects, !.credentials = credentials]
<1>1. g.projects \in [ProjectKeys -> Int] /\ g.credentials \in [Credentials -> Int] /\ by \in Int
  BY DEF GateType
<1>2. /\ \A p \in ProjectKeys : projects[p] = g.projects[p] + IF key = p THEN by ELSE 0
      /\ \A c \in Credentials : credentials[c] = g.credentials[c] + IF token = c THEN by ELSE 0
  BY <1>1
<1> HIDE DEF projects, credentials
<1>3. /\ h.auth = g.auth /\ h.audit = g.audit /\ h.work = g.work + by
      /\ h.projects = projects /\ h.credentials = credentials
  BY DEF GateType
<1>4. Shifted(g, key, token, by) = h
  BY DEF Shifted, projects, credentials
<1> HIDE DEF h
<1> QED BY <1>2, <1>3, <1>4

\* Whatever r gives back, its gate counts it once.
LEMMA FreeingBalances ==
    ASSUME Typed, NEW r \in Requests, Shown(r), NEW what \in SUBSET AllSlots,
           gates' = Freed(r, what), req'[r].holds = req[r].holds \ what
    PROVE  Balanced(r)
<1> DEFINE s == Server(r)
           g == gates[s]
           mine == what \cap req[r].holds
           a == IF "auth" \in mine THEN WithoutAuth(g) ELSE g
           b == IF "audit" \in mine THEN WithoutAudit(a) ELSE a
           token == Plan(r).token
           key == WorkKey(r)
           h == IF "work" \in mine THEN WithoutWork(b, key, token) ELSE b
<1>1. s \in Servers /\ g \in GateType /\ gates \in [Servers -> GateType]
  BY PlanIsTyped DEF Typed
<1>2. gates' = [gates EXCEPT ![s] = h]
  BY DEF Freed
<1>3. /\ a \in GateType /\ a.auth = g.auth - Has("auth", mine) /\ a.audit = g.audit
      /\ a.work = g.work /\ a.projects = g.projects /\ a.credentials = g.credentials
  <2>1. g.auth \in Int
    BY <1>1 DEF GateType
  <2> HIDE DEF g, mine
  <2> QED BY <1>1, <2>1, GateIsTyped, SlotsMoveTheGate DEF Has, GateType
<1> HIDE DEF a
<1>4. /\ b \in GateType /\ b.auth = a.auth /\ b.audit = a.audit - Has("audit", mine)
      /\ b.work = a.work - Has("audit", mine) /\ b.projects = a.projects /\ b.credentials = a.credentials
  <2>1. a.audit \in Int /\ a.work \in Int
    BY <1>3 DEF GateType
  <2> HIDE DEF g, mine
  <2> QED BY <1>3, <2>1, GateIsTyped, SlotsMoveTheGate DEF Has, GateType
<1> HIDE DEF b
<1>5. /\ h.auth = b.auth /\ h.audit = b.audit /\ h.work = b.work - Has("work", mine)
      /\ \A p \in ProjectKeys :
            h.projects[p] = b.projects[p] + IF key = p THEN 0 - Has("work", mine) ELSE 0
      /\ \A c \in Credentials :
            h.credentials[c] = b.credentials[c] + IF token = c THEN 0 - Has("work", mine) ELSE 0
  <2>1. CASE "work" \in mine
    <3>1. key \in ProjectKeys /\ token \in Credentials
      BY <2>1, ScopeIsTyped DEF Shown
    <3> DEFINE by == 0 - 1
    <3>2. h = Shifted(b, key, token, by) /\ Has("work", mine) = 1 /\ by \in Int
      BY <2>1 DEF WithoutWork, Has
    <3>3. by = 0 - Has("work", mine) /\ b.work + by = b.work - Has("work", mine)
      BY <1>4, <3>2 DEF GateType
    <3> HIDE DEF h, key, token, mine, by
    <3>4. /\ h.auth = b.auth /\ h.audit = b.audit /\ h.work = b.work + by
          /\ \A p \in ProjectKeys : h.projects[p] = b.projects[p] + IF key = p THEN by ELSE 0
          /\ \A c \in Credentials : h.credentials[c] = b.credentials[c] + IF token = c THEN by ELSE 0
      BY <1>4, <3>1, <3>2, WorkMovesTheGate
    <3> QED BY <3>3, <3>4
  <2>2. CASE "work" \notin mine
    <3>1. h = b /\ Has("work", mine) = 0
      BY <2>2 DEF Has
    <3> HIDE DEF h, key, token, mine
    <3> QED BY <1>4, <3>1 DEF GateType
  <2> QED BY <2>1, <2>2
<1> HIDE DEF h
<1>6. \A slot : More(r, slot) = 0 - Has(slot, mine) /\ Has(slot, mine) \in {0, 1}
  BY DEF More, Has
<1>7. /\ h.auth = g.auth + More(r, "auth") /\ h.audit = g.audit + More(r, "audit")
      /\ h.work = g.work + More(r, "work") + More(r, "audit")
      /\ h.auth <= g.auth /\ h.audit <= g.audit /\ h.work <= g.work
  <2>1. g.auth \in Int /\ g.audit \in Int /\ g.work \in Int
    BY <1>1 DEF GateType
  <2> HIDE DEF g, mine
  <2> QED BY <2>1, <1>3, <1>4, <1>5, <1>6
<1>8. \A p \in ProjectKeys : /\ h.projects[p] = g.projects[p] + IF key = p THEN More(r, "work") ELSE 0
                             /\ h.projects[p] <= g.projects[p]
  <2>1. \A p \in ProjectKeys : g.projects[p] \in Int
    BY <1>1 DEF GateType
  <2> HIDE DEF g, mine, key
  <2> QED BY <2>1, <1>3, <1>4, <1>5, <1>6
<1>9. \A c \in Credentials :
         /\ h.credentials[c] = g.credentials[c] + IF token = c THEN More(r, "work") ELSE 0
         /\ h.credentials[c] <= g.credentials[c]
  <2>1. \A c \in Credentials : g.credentials[c] \in Int
    BY <1>1 DEF GateType
  <2> HIDE DEF g, mine, token
  <2> QED BY <2>1, <1>3, <1>4, <1>5, <1>6
<1>10. gates'[s] = h /\ \A t \in Servers \ {s} : gates'[t] = gates[t]
  BY <1>1, <1>2
<1> HIDE DEF g
<1> QED BY <1>7, <1>8, <1>9, <1>10 DEF Balanced, Within, g

\* Time gives tokens back, and no slot.
LEMMA RefillingMovesNoSlot ==
    ASSUME NEW g \in GateType, NEW earned
    PROVE  /\ Refilled(g, earned).auth = g.auth /\ Refilled(g, earned).audit = g.audit
           /\ Refilled(g, earned).work = g.work /\ Refilled(g, earned).projects = g.projects
           /\ Refilled(g, earned).credentials = g.credentials
<1> DEFINE tokens == Min({Burst, g.tokens + earned})
<1>1. Refilled(g, earned) = [g EXCEPT !.tokens = tokens]
  BY DEF Refilled
<1> HIDE DEF tokens
<1> QED BY <1>1 DEF GateType

LEMMA UnmovedBalances ==
    ASSUME Typed, NEW r \in Requests, NEW h \in GateType,
           gates' = [gates EXCEPT ![Server(r)] = h], req'[r].holds = req[r].holds,
           h.auth = gates[Server(r)].auth, h.audit = gates[Server(r)].audit,
           h.work = gates[Server(r)].work, h.projects = gates[Server(r)].projects,
           h.credentials = gates[Server(r)].credentials
    PROVE  Balanced(r)
<1> DEFINE s == Server(r)
           g == gates[s]
<1>1. s \in Servers /\ g \in GateType /\ gates \in [Servers -> GateType]
  BY PlanIsTyped DEF Typed
<1>2. gates'[s] = h /\ \A t \in Servers \ {s} : gates'[t] = gates[t]
  BY <1>1
<1>3. \A slot : More(r, slot) = 0
  BY DEF More, Has
<1>4. /\ g.auth \in Int /\ g.audit \in Int /\ g.work \in Int
      /\ \A p \in ProjectKeys : g.projects[p] \in Int
      /\ \A c \in Credentials : g.credentials[c] \in Int
  BY <1>1 DEF GateType
<1> HIDE DEF g
<1> QED BY <1>2, <1>3, <1>4 DEF Balanced, Within, g

LEMMA NothingMovedBalances ==
    ASSUME Typed, NEW r \in Requests, gates' = gates, req'[r].holds = req[r].holds
    PROVE  Balanced(r)
<1> DEFINE h == gates[Server(r)]
<1>1. h \in GateType /\ gates' = [gates EXCEPT ![Server(r)] = h]
  BY PlanIsTyped DEF Typed
<1> QED BY <1>1, UnmovedBalances

LEMMA AuthenticatePays ==
    ASSUME Lawful, Accounted, NEW r \in Requests, NEW earned \in 0 .. Burst, Authenticate(r, earned)
    PROVE  Pays(r)
<1> DEFINE s == Server(r)
           g == gates[s]
           full == Refilled(g, earned)
<1>1. /\ s \in Servers /\ g \in GateType /\ full \in GateType /\ gates \in [Servers -> GateType]
      /\ WithAuth(full) \in GateType
  BY PlanIsTyped, RefilledIsTyped, GateIsTyped DEF Lawful, Typed
<1>2. /\ full.auth = g.auth /\ full.audit = g.audit /\ full.work = g.work
      /\ full.projects = g.projects /\ full.credentials = g.credentials
  BY <1>1, RefillingMovesNoSlot
<1> HIDE DEF full
<1>3. req[r].holds = {} /\ Typed
  BY DEF Accounted, HoldsItsShare, Authenticate, At, Lawful
<1>4. CASE Authenticates(s, full) /\ Takes(r, "resolving", "auth", WithAuth(full))
  <2>1. Alone(r) /\ req'[r].phase = "resolving" /\ req'[r].holds = {"auth"}
    BY <1>3, <1>4, TakesDoes DEF Stands, Phases, AllSlots
  <2> DEFINE h == WithAuth(full)
  <2>2. gates'[s] = h /\ \A t \in Servers \ {s} : gates'[t] = gates[t]
    BY <1>1, <1>4 DEF Takes
  <2>3. /\ h.auth = g.auth + 1 /\ h.audit = g.audit /\ h.work = g.work
        /\ h.projects = g.projects /\ h.credentials = g.credentials
    BY <1>1, <1>2, SlotsMoveTheGate
  <2> HIDE DEF h
  <2>4. More(r, "auth") = 1 /\ More(r, "audit") = 0 /\ More(r, "work") = 0
    BY <1>3, <2>1 DEF More, Has
  <2>5. /\ g.auth \in Int /\ g.audit \in Int /\ g.work \in Int
        /\ \A p \in ProjectKeys : g.projects[p] \in Int
        /\ \A c \in Credentials : g.credentials[c] \in Int
    BY <1>1 DEF GateType
  <2>6. AuthLimit(s) \in Nat /\ g.auth < AuthLimit(s)
    BY <1>1, <1>2, <1>4, LimitsAreTyped DEF Authenticates
  <2> HIDE DEF g
  <2>7. Balanced(r)
    BY <2>2, <2>3, <2>4, <2>5, <2>6 DEF Balanced, Within, g
  <2>8. HoldsItsShare(r)'
    BY <2>1 DEF HoldsItsShare
  <2> QED BY <2>1, <2>7, <2>8 DEF Pays
<1>5. CASE /\ req' = [req EXCEPT ![r].phase = "answered", ![r].answer = "busy"]
           /\ gates' = [gates EXCEPT ![s] = full]
  <2>1. Alone(r) /\ req'[r].phase = "answered" /\ req'[r].holds = req[r].holds
    BY <1>3, <1>5, TurnedAwayDoes DEF Stands
  <2>2. Balanced(r)
    BY <1>1, <1>2, <1>3, <1>5, <2>1, UnmovedBalances
  <2> QED BY <1>3, <2>1, <2>2 DEF Pays, HoldsItsShare
<1> QED BY <1>4, <1>5 DEF Authenticate, full

LEMMA AnswersPays ==
    ASSUME Lawful, NEW r \in Requests, NEW answer \in Replies \cup {None}, Answers(r, answer)
    PROVE  Pays(r)
<1>1. Alone(r) /\ req'[r].phase = "answered" /\ req'[r].holds = {}
  BY AnswersDoes DEF Lawful, Stands
<1>2. req[r].holds \ AllSlots = {}
  BY DEF Lawful, Typed, RequestType
<1>3. Balanced(r)
  BY <1>1, <1>2, FreeingBalances DEF Lawful, Answers
<1> QED BY <1>1, <1>3 DEF Pays, HoldsItsShare

LEMMA GoesOnPays ==
    ASSUME Lawful, NEW r \in Requests, NEW phase \in Phases, NEW what \in SUBSET AllSlots,
           GoesOn(r, phase, what),
           phase \in {"new", "admitting", "answered"} => req[r].holds \ what = {},
           phase \in {"resolving", "checking", "stranger"} => req[r].holds \ what \subseteq {"auth"}
    PROVE  Pays(r)
<1>1. Alone(r) /\ req'[r].phase = phase /\ req'[r].holds = req[r].holds \ what
  BY GoesOnDoes DEF Lawful, Stands
<1>2. Balanced(r)
  BY <1>1, FreeingBalances DEF Lawful, GoesOn
<1> QED BY <1>1, <1>2 DEF Pays, HoldsItsShare

LEMMA RecordsPays ==
    ASSUME Lawful, NEW r \in Requests, NEW row \in Rows, NEW answer \in Replies, Records(r, row, answer)
    PROVE  Pays(r)
<1>1. Alone(r) /\ req'[r].phase = "recording" /\ req'[r].holds = req[r].holds /\ gates' = gates
  BY RecordsDoes DEF Lawful, Stands
<1>2. Balanced(r)
  BY <1>1, NothingMovedBalances DEF Lawful
<1> QED BY <1>1, <1>2 DEF Pays, HoldsItsShare

LEMMA ConcludesPays ==
    ASSUME Lawful, NEW r \in Requests, req[r].phase \in Working, Concludes(r)
    PROVE  Pays(r)
<1>1. Scope(r) \in ProjectKeys
  BY ScopeIsTyped DEF Lawful, Shown, Inside
<1>2. \A m \in Nat, outcome \in {"allowed", "refused"} : Outcome(r, Scope(r), outcome, m) \in Rows
  BY <1>1, OutcomeIsTyped DEF Lawful
<1>3. CASE Declined(r) \/ Failed(r)
  <2>1. PICK answer \in {"declined", "failed"} :
           Records(r, Outcome(r, Scope(r), "refused", 0), answer) \/ Answers(r, answer)
    BY <1>3 DEF Declined, Failed, RefusedOr
  <2> QED BY <1>2, <2>1, RecordsPays, AnswersPays DEF Replies
<1>4. ASSUME NEW m \in Nat, Allowed(r, m) PROVE Pays(r)
  BY <1>2, <1>4, RecordsPays DEF Allowed, Replies
<1>5. ASSUME NEW answer \in Replies, Answers(r, answer) PROVE Pays(r)
  BY <1>5, AnswersPays
<1> QED BY <1>3, <1>4, <1>5 DEF Concludes

-----------------------------------------------------------------------------
(* Every step is accounted for.                                             *)

LEMMA DoorPays ==
    ASSUME Lawful, Accounted, NEW r \in Requests,
           FindSession(r) \/ Resolve(r) \/ ResolveFails(r) \/ ResolveSession(r)
    PROVE  Pays(r)
<1>1. /\ req[r].phase = "new" => req[r].holds = {}
      /\ req[r].phase = "resolving" => req[r].holds \subseteq {"auth"}
  BY DEF Accounted, HoldsItsShare
<1>2. \A answer \in {"ok", "failed", "login"} : Answers(r, answer) => Pays(r)
  BY AnswersPays DEF Replies
<1>3. CASE FindSession(r)
  BY <1>1, <1>2, <1>3, GoesOnPays DEF FindSession, At, Phases
<1>4. ASSUME At(r, "resolving"),
             \/ \E phase \in {"acting", "checking"} : GoesOn(r, phase, {})
             \/ GoesOn(r, "admitting", {"auth"})
             \/ \E what \in SUBSET {"auth"} : GoesOn(r, "stranger", what)
      PROVE  Pays(r)
  BY <1>1, <1>4, GoesOnPays DEF At, Phases, Inside, AllSlots
<1>5. CASE Resolve(r)
  BY <1>2, <1>4, <1>5 DEF Resolve
<1>6. CASE ResolveFails(r) \/ ResolveSession(r)
  BY <1>2, <1>4, <1>6 DEF ResolveFails, ResolveSession
<1> QED BY <1>3, <1>5, <1>6

LEMMA ActPays ==
    ASSUME Lawful, NEW r \in Requests, Act(r)
    PROVE  Pays(r)
<1>1. CASE GoesOn(r, "running", {})
  BY <1>1, GoesOnPays DEF Phases, Inside, Working
<1>2. ASSUME NEW project \in ProjectKeys, Records(r, Outcome(r, project, "refused", 0), "refused")
      PROVE  Pays(r)
  <2>1. Outcome(r, project, "refused", 0) \in Rows
    BY OutcomeIsTyped DEF Lawful
  <2> QED BY <1>2, <2>1, RecordsPays DEF Replies
<1>3. "" \in ProjectKeys /\ Plan(r).project \in ProjectKeys
  BY PlanIsTyped DEF Lawful, ProjectKeys
<1> QED BY <1>1, <1>2, <1>3 DEF Act

LEMMA SamplePays ==
    ASSUME Lawful, Accounted, NEW r \in Requests, NEW minutePassed \in BOOLEAN, Sample(r, minutePassed)
    PROVE  Pays(r)
<1> DEFINE s == Server(r)
           g == gates[s]
           h == WithAudit(g)
           b == Renewed(budgets[s], minutePassed)
           row == Row(r, "authenticate", "unresolved", "", "refused", b.suppressed + 1)
<1>1. s \in Servers /\ g \in GateType /\ h \in GateType /\ Typed /\ gates \in [Servers -> GateType]
  BY PlanIsTyped, GateIsTyped DEF Lawful, Typed
<1>2. row \in Rows
  BY <1>1, BudgetIsTyped, StrangersRowIsTyped
<1> HIDE DEF row, b
<1>3. CASE Answers(r, "unauthenticated")
  BY <1>3, AnswersPays DEF Replies
<1>4. CASE /\ AdmitsAudit(s, g)
           /\ req' = [req EXCEPT ![r].phase = "recording", ![r].holds = @ \cup {"audit"},
                                  ![r].row = row, ![r].answer = "unauthenticated"]
           /\ gates' = [gates EXCEPT ![s] = WithAudit(@)]
  <2>1. gates' = [gates EXCEPT ![s] = h]
    BY <1>4
  <2>2. /\ Stands(r, "recording", "unauthenticated", req[r].holds \cup {"audit"})
        /\ gates' \in [Servers -> GateType] /\ req'[r].row = row
    <3>1. Typed /\ row \in Rows /\ h \in GateType
      BY <1>1, <1>2
    <3>2. req' = [req EXCEPT ![r].phase = "recording", ![r].holds = @ \cup {"audit"},
                             ![r].row = row, ![r].answer = "unauthenticated"]
      BY <1>4
    <3> QED BY <2>1, <3>1, <3>2, SampleDoes
  <2>3. "audit" \notin req[r].holds
    BY DEF Accounted, HoldsItsShare, Sample, At
  <2>4. gates'[s] = h /\ \A t \in Servers \ {s} : gates'[t] = gates[t]
    BY <1>1, <2>1
  <2>5. /\ h.auth = g.auth /\ h.audit = g.audit + 1 /\ h.work = g.work + 1
        /\ h.projects = g.projects /\ h.credentials = g.credentials
    BY <1>1, SlotsMoveTheGate
  <2> HIDE DEF h
  <2>6. More(r, "auth") = 0 /\ More(r, "audit") = 1 /\ More(r, "work") = 0
    BY <2>2, <2>3 DEF More, Has, Stands
  <2>7. /\ g.auth \in Int /\ g.audit \in Int /\ g.work \in Int
        /\ \A p \in ProjectKeys : g.projects[p] \in Int
        /\ \A c \in Credentials : g.credentials[c] \in Int
    BY <1>1 DEF GateType
  <2>8. WorkLimit(s) \in Nat /\ g.work < WorkLimit(s) /\ g.audit = 0
    BY <1>1, <1>4, LimitsAreTyped DEF AdmitsAudit
  <2> HIDE DEF g
  <2>9. Balanced(r)
    BY <2>4, <2>5, <2>6, <2>7, <2>8 DEF Balanced, Within, g
  <2> QED BY <2>2, <2>9 DEF Pays, HoldsItsShare, Stands
<1> QED BY <1>3, <1>4 DEF Sample, row, b

LEMMA CheckActivePays ==
    ASSUME Lawful, Accounted, NEW r \in Requests, CheckActive(r)
    PROVE  Pays(r)
<1>1. /\ req[r].phase = "checking" /\ Typed /\ Shown(r) /\ Plan(r).token \in Credentials
      /\ req[r].holds \subseteq {"auth"}
  BY DEF CheckActive, At, Lawful, Shown, Inside, Accounted, HoldsItsShare
<1>2. CASE Answers(r, "failed")
  BY <1>2, AnswersPays DEF Replies
<1>3. CASE /\ req' = [req EXCEPT ![r].phase = "new", ![r].inner = TRUE, ![r].holds = {}]
           /\ gates' = Freed(r, {"auth"})
  <2>1. Alone(r) /\ req'[r].phase = "new" /\ req'[r].holds = {}
    BY <1>1, <1>3, LoopsDoes DEF Stands
  <2>2. req[r].holds \ {"auth"} = {}
    BY <1>1
  <2>3. Balanced(r)
    BY <1>1, <1>3, <2>1, <2>2, FreeingBalances DEF AllSlots
  <2> QED BY <2>1, <2>3 DEF Pays, HoldsItsShare
<1>4. CASE GoesOn(r, "admitting", {"auth"})
  BY <1>1, <1>4, GoesOnPays DEF Phases, Inside, AllSlots
<1>5. CASE Records(r, Row(r, "authenticate", Plan(r).token, Scope(r), "refused", 0), "unauthenticated")
  <2>1. Row(r, "authenticate", Plan(r).token, Scope(r), "refused", 0) \in Rows
    BY <1>1, StrangersRowIsTyped
  <2> QED BY <1>5, <2>1, RecordsPays DEF Replies
<1> QED BY <1>2, <1>3, <1>4, <1>5 DEF CheckActive

LEMMA AdmitPays ==
    ASSUME Lawful, Accounted, NEW r \in Requests, Admit(r)
    PROVE  Pays(r)
<1> DEFINE s == Server(r)
           g == gates[s]
           key == WorkKey(r)
           token == Plan(r).token
           h == WithWork(g, key, token)
           allowed == AtMemory(r) => permitted(AccessOf[Plan(r).token], Plan(r).op)
           row == Outcome(r, Scope(r), "refused", 0)
<1>1. /\ req[r].phase = "admitting" /\ Typed /\ token \in Credentials /\ key \in ProjectKeys
      /\ Scope(r) \in ProjectKeys /\ req[r].holds = {}
  BY ScopeIsTyped DEF Admit, At, Lawful, Shown, Inside, Accounted, HoldsItsShare
<1>2. s \in Servers /\ g \in GateType /\ gates \in [Servers -> GateType]
  BY <1>1, PlanIsTyped DEF Typed
<1>3. CASE Answers(r, "busy")
  BY <1>3, AnswersPays DEF Replies
<1>4. CASE /\ Admits(s, g, key, token)
           /\ gates' = [gates EXCEPT ![s] = WithWork(@, key, token)]
           /\ req' = [req EXCEPT ![r].holds = @ \cup {"work"},
                      ![r].phase = IF allowed THEN "running" ELSE "recording",
                      ![r].row = IF allowed THEN None ELSE row,
                      ![r].answer = IF allowed THEN None ELSE "forbidden"]
  <2>1. row \in Rows /\ allowed \in BOOLEAN
    BY <1>1, OutcomeIsTyped DEF permitted
  <2>2. /\ Alone(r) /\ req'[r].holds = req[r].holds \cup {"work"}
        /\ req'[r].phase = IF allowed THEN "running" ELSE "recording"
    BY <1>1, <1>4, <2>1, AdmitDoes
  <2> HIDE DEF allowed, row
  <2>3. gates'[s] = h /\ \A t \in Servers \ {s} : gates'[t] = gates[t]
    BY <1>2, <1>4
  <2>4. /\ h.auth = g.auth /\ h.audit = g.audit /\ h.work = g.work + 1
        /\ \A p \in ProjectKeys : h.projects[p] = g.projects[p] + IF key = p THEN 1 ELSE 0
        /\ \A c \in Credentials : h.credentials[c] = g.credentials[c] + IF token = c THEN 1 ELSE 0
    BY <1>1, <1>2, WorkMovesTheGate DEF WithWork
  <2> HIDE DEF h
  <2>5. More(r, "auth") = 0 /\ More(r, "audit") = 0 /\ More(r, "work") = 1
    BY <1>1, <2>2 DEF More, Has
  <2>6. /\ g.auth \in Int /\ g.audit \in Int /\ g.work \in Int
        /\ \A p \in ProjectKeys : g.projects[p] \in Int
        /\ \A c \in Credentials : g.credentials[c] \in Int
    BY <1>2 DEF GateType
  <2>7. /\ WorkLimit(s) \in Nat /\ ProjectLimit(s) \in Nat /\ CredentialLimit(s) \in Nat
        /\ g.work < WorkLimit(s) /\ g.projects[key] < ProjectLimit(s)
        /\ g.credentials[token] < CredentialLimit(s)
    BY <1>2, <1>4, LimitsAreTyped DEF Admits
  <2> HIDE DEF g, key, token
  <2>8. /\ h.auth = g.auth + More(r, "auth") /\ Within(h.auth, g.auth, AuthLimit(s))
        /\ h.audit = g.audit + More(r, "audit") /\ Within(h.audit, g.audit, 1)
        /\ h.work = g.work + More(r, "work") + More(r, "audit") /\ Within(h.work, g.work, WorkLimit(s))
    BY <2>4, <2>5, <2>6, <2>7 DEF Within
  <2>9. \A p \in ProjectKeys :
           /\ h.projects[p] = g.projects[p] + IF key = p THEN More(r, "work") ELSE 0
           /\ Within(h.projects[p], g.projects[p], ProjectLimit(s))
    BY <2>4, <2>5, <2>6, <2>7 DEF Within
  <2>10. \A c \in Credentials :
           /\ h.credentials[c] = g.credentials[c] + IF token = c THEN More(r, "work") ELSE 0
           /\ Within(h.credentials[c], g.credentials[c], CredentialLimit(s))
    BY <2>4, <2>5, <2>6, <2>7 DEF Within
  <2>11. Balanced(r)
    BY <2>3, <2>8, <2>9, <2>10 DEF Balanced, g, key, token
  <2> QED BY <2>2, <2>11 DEF Pays, HoldsItsShare
<1> QED BY <1>3, <1>4 DEF Admit

LEMMA WorkingPays ==
    ASSUME Lawful, NEW r \in Requests,
           \/ Malformed(r) \/ Read(r) \/ Preview(r) \/ TellVerdict(r) \/ Change(r) \/ SetSuspended(r)
           \/ RevokeCredential(r) \/ CheckProject(r) \/ Mint(r)
           \/ CommitStore(r) \/ AbortStore(r)
           \/ AskSeal(r) \/ Seal(r) \/ GiveUpSeal(r) \/ StartVerify(r) \/ VerifyFails(r)
    PROVE  Pays(r)
<1>1. req[r].phase \in Working
  BY DEF Malformed, Read, Preview, TellVerdict, Change, SetSuspended, RevokeCredential, CheckProject,
     Mint, CommitStore, AbortStore, AskSeal, Seal, GiveUpSeal, StartVerify, VerifyFails, At, Working
<1>2. ASSUME NEW phase \in {"minting", "sealing", "verifying"}, GoesOn(r, phase, {}) PROVE Pays(r)
  BY <1>2, GoesOnPays DEF Phases, Inside, Working
<1>3. Declined(r) \/ Failed(r) => Pays(r)
  BY <1>1, ConcludesPays DEF Concludes
<1>4. \A m \in Nat : Allowed(r, m) => Pays(r)
  BY <1>1, ConcludesPays DEF Concludes
<1>5. \A answer \in Replies : Answers(r, answer) => Pays(r)
  BY <1>1, ConcludesPays DEF Concludes
<1>6. Op(r) \in DOMAIN Handlers /\ Did(r) => Pays(r)
  BY <1>1, DidConcludes, ConcludesPays
<1>7. CASE Malformed(r) \/ Read(r) \/ TellVerdict(r) \/ GiveUpSeal(r) \/ VerifyFails(r)
  BY <1>3, <1>4, <1>5, <1>7 DEF Malformed, Read, TellVerdict, GiveUpSeal, VerifyFails, Replies
<1>8. CASE Preview(r)
  BY <1>4, <1>8 DEF Preview, Allowed
<1>9. CASE Change(r) \/ SetSuspended(r) \/ RevokeCredential(r) \/ CheckProject(r) \/ Mint(r)
  <2>1. Op(r) \in DOMAIN Handlers
    BY <1>9, WritersDiffer DEF Change, SetSuspended, RevokeCredential, CheckProject, Mint, Special,
       Lawful, Authority
  <2> QED BY <1>2, <1>3, <1>4, <1>6, <1>9, <2>1
      DEF Change, Replayed, SetSuspended, RevokeCredential, CheckProject, Mint
<1>10. CASE CommitStore(r) \/ AbortStore(r)
  BY <1>3, <1>5, <1>10 DEF CommitStore, AbortStore, Replies
<1>11. CASE AskSeal(r) \/ Seal(r) \/ StartVerify(r)
  BY <1>2, <1>3, <1>4, <1>11 DEF AskSeal, Seal, StartVerify
<1> QED BY <1>7, <1>8, <1>9, <1>10, <1>11

LEMMA WritingPays ==
    ASSUME Lawful, Accounted, NEW r \in Requests,
           \/ OpenStore(r) \/ GoOnWriting(r) \/ VerifySeal(r) \/ VerifyRest(r)
           \/ AppendRow(r) \/ RowKept(r) \/ RowLost(r)
    PROVE  Pays(r)
<1>1. Typed /\ req[r].answer \in Replies \cup {None} /\ HoldsItsShare(r)
  BY DEF Lawful, Typed, RequestType, Accounted
<1>2. CASE RowKept(r) \/ RowLost(r)
  BY <1>1, <1>2, AnswersPays DEF RowKept, RowLost
<1>3. ASSUME Alone(r), req'[r].holds = req[r].holds, gates' = gates,
             req'[r].phase \in {"writing", "verifying", "appending"}
      PROVE  Pays(r)
  BY <1>1, <1>3, NothingMovedBalances DEF Pays, HoldsItsShare
<1>4. CASE VerifySeal(r) \/ VerifyRest(r)
  <2>1. req' = req /\ gates' = gates /\ req[r].phase = "verifying"
    BY <1>4 DEF VerifySeal, VerifyRest, At
  <2>2. Alone(r)
    BY <1>1, <2>1 DEF Alone, Typed
  <2> QED BY <1>3, <2>1, <2>2
<1>5. CASE GoOnWriting(r)
  BY <1>1, <1>3, <1>5, GoOnWritingDoes DEF Stands, GoOnWriting
<1>6. CASE AppendRow(r)
  BY <1>1, <1>3, <1>6, AppendRowDoes DEF Stands, AppendRow
<1>7. CASE OpenStore(r)
  <2>1. PICK ops \in Handlers[Op(r)].rows, v \in Verdicts(r) :
          req' = [req EXCEPT ![r].phase = "writing", ![r].row = Outcome(r, Scope(r), v[1], v[2]),
                             ![r].left = Tail(ops), ![r].numbers = {Len(entry) + 1}]
    BY <1>7 DEF OpenStore
  <2>2. Op(r) \in StoreRecorded /\ gates' = gates /\ Scope(r) \in ProjectKeys
    BY <1>1, <1>7, ScopeIsTyped DEF OpenStore, Lawful, Shown, Inside, Working, At
  <2> DEFINE row == Outcome(r, Scope(r), v[1], v[2])
  <2>3. row \in Rows /\ Tail(ops) \in Seq(RecordableOperation)
    BY <1>1, <2>2, StoreIsKnown, OutcomeIsTyped
  <2> HIDE DEF row
  <2>4. Stands(r, "writing", req[r].answer, req[r].holds)
    BY <1>1, <2>1, <2>3, OpenStoreDoes DEF row
  <2> QED BY <1>3, <2>2, <2>4 DEF Stands
<1> QED BY <1>2, <1>4, <1>5, <1>6, <1>7

LEMMA StepPays ==
    ASSUME Lawful, Accounted, NEW r \in Requests, RequestStep(r)
    PROVE  Pays(r)
<1>1. ASSUME NEW earned \in 0 .. Burst, Authenticate(r, earned) PROVE Pays(r)
  BY <1>1, AuthenticatePays
<1>2. ASSUME NEW minutePassed \in BOOLEAN, Sample(r, minutePassed) PROVE Pays(r)
  BY <1>2, SamplePays
<1>3. CASE FindSession(r) \/ Resolve(r) \/ ResolveFails(r) \/ ResolveSession(r) \/ Act(r)
           \/ CheckActive(r) \/ Admit(r)
  BY <1>3, DoorPays, ActPays, CheckActivePays, AdmitPays
<1>4. CASE Malformed(r) \/ Read(r) \/ Change(r) \/ SetSuspended(r) \/ RevokeCredential(r)
           \/ CheckProject(r) \/ Mint(r) \/ Preview(r) \/ TellVerdict(r)
  BY <1>4, WorkingPays
<1>5. CASE OpenStore(r) \/ GoOnWriting(r) \/ CommitStore(r) \/ AbortStore(r)
  BY <1>5, WorkingPays, WritingPays
<1>6. CASE AskSeal(r) \/ Seal(r) \/ GiveUpSeal(r)
           \/ StartVerify(r) \/ VerifySeal(r) \/ VerifyRest(r) \/ VerifyFails(r)
  BY <1>6, WorkingPays, WritingPays
<1>7. CASE AppendRow(r) \/ RowKept(r) \/ RowLost(r)
  BY <1>7, WritingPays
<1> QED BY <1>1, <1>2, <1>3, <1>4, <1>5, <1>6, <1>7 DEF RequestStep

LEMMA BesidesIsAccounted ==
    ASSUME Accounted, UNCHANGED <<req, gates>> PROVE Accounted'
<1>1. \A s, slot : Holders(s, slot)' = Holders(s, slot)
  BY DEF Holders, Server, Plan
<1>2. /\ \A s, p : OfProject(s, p)' = OfProject(s, p)
      /\ \A s, c : OfCredential(s, c)' = OfCredential(s, c)
  BY DEF OfProject, OfCredential, Holders, Server, Plan, WorkKey, AtMemory, Scope
<1>3. ASSUME NEW s \in Servers PROVE Accounts(s)'
  BY <1>1, <1>2 DEF Accounted, Accounts
<1>4. \A r \in Requests : HoldsItsShare(r)'
  BY DEF Accounted, HoldsItsShare
<1> QED BY <1>3, <1>4 DEF Accounted

LEMMA InitIsAccounted ==
    ASSUME Init PROVE Accounted
<1>1. \A r \in Requests : req[r].holds = {}
  BY DEF Init
<1>2. ASSUME NEW s \in Servers PROVE Accounts(s)
  <2>1. \A slot : Holders(s, slot) = {}
    BY <1>1 DEF Holders
  <2>2. (\A p : OfProject(s, p) = {}) /\ \A c : OfCredential(s, c) = {}
    BY <2>1 DEF OfProject, OfCredential
  <2>3. Cardinality({}) = 0
    BY FS_EmptySet
  <2>4. /\ gates[s].auth = 0 /\ gates[s].audit = 0 /\ gates[s].work = 0
        /\ \A p \in ProjectKeys : gates[s].projects[p] = 0
        /\ \A c \in Credentials : gates[s].credentials[c] = 0
    BY DEF Init, NewGate, Counted
  <2>5. /\ AuthLimit(s) \in Nat /\ WorkLimit(s) \in Nat
        /\ ProjectLimit(s) \in Nat /\ CredentialLimit(s) \in Nat
    BY LimitsAreTyped
  <2>6. /\ \A slot : Cardinality(Holders(s, slot)) = 0
        /\ \A p : Cardinality(OfProject(s, p)) = 0
        /\ \A c : Cardinality(OfCredential(s, c)) = 0
    BY <2>1, <2>2, <2>3
  <2> QED BY <2>4, <2>5, <2>6 DEF Accounts
<1> QED BY <1>1, <1>2 DEF Accounted, HoldsItsShare

\* Every slot a gate counts is held by a request under way, no gate has given out more than its
\* limits, and whichever way a request ends each slot it took has come back once.
THEOREM EverySlotComesBack == Spec => []SlotsAreAccounted
<1>1. Init => Accounted
  BY InitIsAccounted
<1>2. Lawful /\ Accounted /\ [Next]_vars => Accounted'
  <2> SUFFICES ASSUME Lawful, Accounted, [Next]_vars PROVE Accounted'
    OBVIOUS
  <2>1. ASSUME NEW r \in Requests, RequestStep(r) PROVE Accounted'
    BY <2>1, StepPays, PayingIsAccounted DEF Lawful
  <2>2. ASSUME \/ \E c \in Credentials : CommandLineRevokes(c) \/ SessionEnds(c)
               \/ \E p \in Projects : CommandLineSuspends(p)
               \/ DriverAsks \/ DriverSeals \/ AnotherCommits \/ Alter \/ Finished
               \/ UNCHANGED vars
        PROVE  Accounted'
    BY <2>2, OtherStepsAreBesides, BesidesIsAccounted DEF Besides
  <2> QED BY <2>1, <2>2 DEF Next
<1>3. Accounted => SlotsAreAccounted
  <2> SUFFICES ASSUME Accounted PROVE SlotsAreAccounted
    OBVIOUS
  <2>1. \A s \in Servers, p \in ProjectKeys, c \in Credentials :
           /\ OfProject(s, p) = {r \in Holders(s, "work") : WorkKey(r) = p}
           /\ OfCredential(s, c) = {r \in Holders(s, "work") : Plan(r).token = c}
    BY DEF OfProject, OfCredential
  <2> QED BY <2>1 DEF Accounted, Accounts, HoldsItsShare, SlotsAreAccounted, At, OfProject, OfCredential
<1> QED BY <1>1, <1>2, <1>3, LawfulInvariant, PTL DEF Spec

-----------------------------------------------------------------------------
(* The seals: what they say of the rows below, told of the ledger's entries *)
(* `e` and a sequence of seals `ss`.                                        *)

Contents == SUBSET (Nat \X Rows)
SealType ==
    [from : Nat, to : Nat, count : Nat, entries : Contents,
     previous : Seq(Contents), digest : Seq(Contents)]
CheckType ==
    [at : {"idle", "seals", "valid", "invalid"}, seals : Seq(SealType),
     expected : Seq(Contents), entries : Nat, unsealed : Nat,
     before : BOOLEAN, clean : BOOLEAN, held : Nat]

KeptIn(e) == {i \in DOMAIN e : e[i].state = "kept"}
Between(e, from, to) == {i \in KeptIn(e) : from <= i /\ i <= to}
Digest(e, from, to) == {<<i, e[i].row>> : i \in Between(e, from, to)}
Under(e, b) == {i \in KeptIn(e) : i < b}
Above(e, b) == {i \in KeptIn(e) : i >= b}
End(ss) == IF ss = << >> THEN 0 ELSE ss[Len(ss)].to + 1

Right(e, s, expected) ==
    /\ Digest(e, s.from, s.to) = s.entries
    /\ s.previous = expected
    /\ Chain(s.previous, s.entries) = s.digest
\* What the seal at k of `ss` has to follow, where `digest` and `start` come before them.
Before(ss, k, digest) == IF k = 1 THEN digest ELSE ss[k - 1].digest
Starts(ss, k, start) == IF k = 1 THEN start ELSE ss[k - 1].to + 1
Chained(e, ss, start, digest) ==
    \A k \in 1 .. Len(ss) :
        /\ Right(e, ss[k], Before(ss, k, digest))
        /\ ss[k].from = Starts(ss, k, start) /\ ss[k].from <= ss[k].to + 1
        /\ ss[k].count = Cardinality(Between(e, ss[k].from, ss[k].to))
Broken(e, ss, digest) == \E k \in 1 .. Len(ss) : ~Right(e, ss[k], Before(ss, k, digest))
Below(ss, low) == \A k \in 1 .. Len(ss) : ss[k].to < low

\* Two ledgers with the same kept rows under a number.
SameUnder(e, f, low) ==
    \A i \in Nat : i < low =>
        /\ i \in KeptIn(e) <=> i \in KeptIn(f)
        /\ i \in KeptIn(e) => e[i].row = f[i].row

LEMMA KeptIsFinite ==
    ASSUME NEW e \in Seq(Entries)
    PROVE  /\ KeptIn(e) \in SUBSET Nat /\ KeptIn(e) \in SUBSET (0 .. Len(e))
           /\ IsFiniteSet(KeptIn(e)) /\ Cardinality(KeptIn(e)) \in Nat
           /\ \A S : S \subseteq KeptIn(e) => IsFiniteSet(S) /\ Cardinality(S) \in Nat
<1>1. Len(e) \in Nat /\ KeptIn(e) \in SUBSET Nat /\ \A i \in KeptIn(e) : i <= Len(e)
  BY DEF KeptIn
<1>2. IsFiniteSet(KeptIn(e))
  BY <1>1, FS_BoundedSetOfNaturals
<1>3. \A S : S \subseteq KeptIn(e) => IsFiniteSet(S) /\ Cardinality(S) \in Nat
  BY <1>2, FS_Subset, FS_CardinalityType
<1> QED BY <1>1, <1>2, <1>3

LEMMA DigestIsTyped ==
    ASSUME NEW e \in Seq(Entries), NEW from, NEW to
    PROVE  Digest(e, from, to) \in Contents
<1>1. \A i \in KeptIn(e) : i \in Nat /\ e[i].row \in Rows
  <2>1. \A i \in KeptIn(e) : i \in Nat /\ e[i] \in Entries
    BY DEF KeptIn
  <2>2. \A x \in Entries : x.row \in Rows
    BY DEF Entries
  <2> QED BY <2>1, <2>2
<1> QED BY <1>1 DEF Digest, Between, Contents

LEMMA SameIsSealedAlike ==
    ASSUME NEW e \in Seq(Entries), NEW f \in Seq(Entries), NEW low \in Nat, SameUnder(e, f, low),
           NEW from \in Nat, NEW to \in Nat, to < low
    PROVE  Between(e, from, to) = Between(f, from, to) /\ Digest(e, from, to) = Digest(f, from, to)
<1>1. KeptIn(e) \subseteq Nat /\ KeptIn(f) \subseteq Nat
  BY KeptIsFinite
<1>2. Between(e, from, to) = Between(f, from, to)
  BY <1>1 DEF Between, SameUnder
<1>3. \A i \in Between(e, from, to) : e[i].row = f[i].row
  BY <1>1 DEF Between, SameUnder
<1> QED BY <1>2, <1>3 DEF Digest

LEMMA SameIsCountedAlike ==
    ASSUME NEW e \in Seq(Entries), NEW f \in Seq(Entries), NEW low \in Nat, SameUnder(e, f, low),
           NEW b \in Nat, b <= low
    PROVE  Under(e, b) = Under(f, b)
<1>1. KeptIn(e) \subseteq Nat /\ KeptIn(f) \subseteq Nat
  BY KeptIsFinite
<1> QED BY <1>1 DEF Under, SameUnder

LEMMA SameIsChainedAlike ==
    ASSUME NEW e \in Seq(Entries), NEW f \in Seq(Entries), NEW low \in Nat, SameUnder(e, f, low),
           NEW ss \in Seq(SealType), Below(ss, low), NEW start, NEW digest
    PROVE  /\ Chained(e, ss, start, digest) => Chained(f, ss, start, digest)
           /\ Broken(e, ss, digest) => Broken(f, ss, digest)
<1>1. ASSUME NEW k \in 1 .. Len(ss)
      PROVE  /\ Between(e, ss[k].from, ss[k].to) = Between(f, ss[k].from, ss[k].to)
             /\ Digest(e, ss[k].from, ss[k].to) = Digest(f, ss[k].from, ss[k].to)
  <2>1. ss[k] \in SealType /\ ss[k].to < low
    BY DEF Below
  <2>2. ss[k].from \in Nat /\ ss[k].to \in Nat
    BY <2>1 DEF SealType
  <2> QED BY <2>1, <2>2, SameIsSealedAlike
<1>2. \A k \in 1 .. Len(ss) : \A x : Right(e, ss[k], x) <=> Right(f, ss[k], x)
  BY <1>1 DEF Right
<1> QED BY <1>1, <1>2 DEF Chained, Broken

\* What was counted under a number and what a seal counts from there.
LEMMA CountsMeet ==
    ASSUME NEW e \in Seq(Entries), NEW b \in Nat, NEW to \in Nat, b <= to + 1
    PROVE  /\ Cardinality(Under(e, b)) \in Nat /\ Cardinality(Between(e, b, to)) \in Nat
           /\ Cardinality(Under(e, to + 1)) = Cardinality(Under(e, b)) + Cardinality(Between(e, b, to))
<1> DEFINE S == Under(e, b)
           T == Between(e, b, to)
<1>1. S \subseteq KeptIn(e) /\ T \subseteq KeptIn(e)
  BY DEF Under, Between
<1>2. IsFiniteSet(S) /\ IsFiniteSet(T) /\ Cardinality(S) \in Nat /\ Cardinality(T) \in Nat
  BY <1>1, KeptIsFinite
<1>3. S \cap T = {} /\ S \cup T = Under(e, to + 1)
  <2>1. KeptIn(e) \subseteq Nat
    BY KeptIsFinite
  <2> QED BY <2>1 DEF Under, Between
<1> HIDE DEF S, T
<1>4. Cardinality(S \cup T) = Cardinality(S) + Cardinality(T) - Cardinality(S \cap T)
  BY <1>2, FS_Union
<1>5. Cardinality(S \cap T) = 0
  BY <1>3, FS_EmptySet
<1>6. Cardinality(S \cup T) = Cardinality(S) + Cardinality(T)
  BY <1>2, <1>4, <1>5
<1> QED BY <1>2, <1>3, <1>6 DEF S, T

LEMMA CountsFit ==
    ASSUME NEW e \in Seq(Entries), NEW b \in Nat, NEW low \in Nat, b <= low
    PROVE  /\ Cardinality(Above(e, low)) \in Nat /\ Cardinality(Under(e, b)) \in Nat
           /\ Cardinality(Under(e, b)) + Cardinality(Above(e, low)) <= Cardinality(KeptIn(e))
<1> DEFINE S == Under(e, b)
           T == Above(e, low)
<1>1. S \subseteq KeptIn(e) /\ T \subseteq KeptIn(e)
  BY DEF Under, Above
<1>2. IsFiniteSet(S) /\ IsFiniteSet(T) /\ Cardinality(S) \in Nat /\ Cardinality(T) \in Nat
  BY <1>1, KeptIsFinite
<1>3. S \cap T = {} /\ S \cup T \in SUBSET KeptIn(e)
  <2>1. KeptIn(e) \subseteq Nat
    BY KeptIsFinite
  <2> QED BY <2>1 DEF Under, Above
<1> HIDE DEF S, T
<1>4. Cardinality(S \cup T) = Cardinality(S) + Cardinality(T) - Cardinality(S \cap T)
  BY <1>2, FS_Union
<1>5. Cardinality(S \cap T) = 0
  BY <1>3, FS_EmptySet
<1>6. Cardinality(S \cup T) <= Cardinality(KeptIn(e))
  BY <1>3, KeptIsFinite, FS_Subset
<1>7. Cardinality(S) + Cardinality(T) <= Cardinality(KeptIn(e))
  BY <1>4, <1>5, <1>6, <1>2
<1> QED BY <1>2, <1>7 DEF S, T

-----------------------------------------------------------------------------
(* Where the next seal ends.                                                *)

\* A non-empty set of naturals has a least element.
LEMMA LeastExists ==
    ASSUME NEW S \in SUBSET Nat, S # {}
    PROVE  \E x \in S : \A y \in S : x <= y
<1> DEFINE R == {ss \in Nat \X Nat : ss[1] < ss[2]}
<1>1. IsWellFoundedOn(R, Nat)
  BY NatLessThanWellFounded, Zenon DEF OpToRel
<1>2. PICK x \in S : \A y \in S : ~(<<y, x>> \in R)
  BY <1>1, WFMin
<1>3. \A y \in S : x <= y
  <2> SUFFICES ASSUME NEW y \in S, ~(x <= y) PROVE FALSE
    OBVIOUS
  <2>1. <<y, x>> \in Nat \X Nat /\ y < x
    OBVIOUS
  <2> QED BY <1>2, <2>1
<1> QED BY <1>3

\* A non-empty set of naturals with a bound has a greatest one.
LEMMA GreatestExists ==
    ASSUME NEW m \in Nat, NEW S \in SUBSET (0 .. m), S # {}
    PROVE  \E x \in S : \A y \in S : x >= y
<1> DEFINE T == {m - x : x \in S}
<1>1. T \in SUBSET Nat /\ T # {}
  <2>1. \A x \in S : x \in Int /\ m - x \in Nat
    OBVIOUS
  <2> QED BY <2>1
<1>2. PICK l \in T : \A y \in T : l <= y
  BY <1>1, LeastExists
<1>3. PICK x \in S : l = m - x
  BY <1>2
<1>4. \A y \in S : x >= y
  <2> TAKE y \in S
  <2>1. l <= m - y
    BY <1>2
  <2> QED BY <1>3, <2>1
<1> QED BY <1>4

\* Counted from below, one of the elements is the n-th.
LEMMA NthExists ==
    ASSUME NEW m \in Nat, NEW S \in SUBSET (0 .. m), IsFiniteSet(S),
           NEW n \in Nat \ {0}, n <= Cardinality(S)
    PROVE  \E i \in S : Cardinality({j \in S : j <= i}) = n
<1> DEFINE upTo(i) == {j \in S : j <= i}
           Enough == {i \in S : Cardinality(upTo(i)) >= n}
<1>1. Cardinality(S) \in Nat /\ S \in SUBSET Nat
  BY FS_CardinalityType
<1>2. \A i \in S : IsFiniteSet(upTo(i)) /\ Cardinality(upTo(i)) \in Nat
  <2>1. \A i \in S : upTo(i) \in SUBSET S
    OBVIOUS
  <2> QED BY <2>1, FS_Subset, FS_CardinalityType
<1>3. Enough # {} /\ Enough \in SUBSET Nat
  <2>1. S # {}
    BY <1>1, FS_EmptySet
  <2>2. PICK x \in S : \A y \in S : x >= y
    BY <2>1, GreatestExists
  <2>3. upTo(x) = S
    BY <2>2, <1>1
  <2> QED BY <1>1, <2>3
<1>4. PICK i \in Enough : \A y \in Enough : i <= y
  BY <1>3, LeastExists
<1>5. i \in S /\ Cardinality(upTo(i)) >= n
  BY <1>4
<1>6. ASSUME Cardinality(upTo(i)) # n PROVE FALSE
  <2> DEFINE less == upTo(i) \ {i}
  <2>1. i \in upTo(i)
    BY <1>1, <1>5
  <2>2. IsFiniteSet(less) /\ Cardinality(less) = Cardinality(upTo(i)) - 1
    BY <1>2, <1>5, <2>1, FS_RemoveElement
  <2>3. Cardinality(less) >= n
    BY <1>2, <1>5, <1>6, <2>2
  <2>4. less # {} /\ less \in SUBSET (0 .. m)
    <3>1. less \in SUBSET (0 .. m)
      OBVIOUS
    <3> HIDE DEF less
    <3>2. less # {}
      BY <2>3, FS_EmptySet
    <3> QED BY <3>1, <3>2
  <2>5. PICK x \in less : \A y \in less : x >= y
    BY <2>4, GreatestExists
  <2>6. x \in S /\ x < i
    BY <1>1, <1>5, <2>5
  <2>7. upTo(x) = less
    <3>1. \A j \in S : j \in Nat /\ i \in Nat /\ x \in Nat
      BY <1>1, <1>5, <2>6
    <3>2. \A j \in S : j <= x => j <= i /\ j # i
      BY <3>1, <2>6
    <3>3. \A j \in S : j <= i /\ j # i => j <= x
      BY <2>5
    <3> QED BY <3>2, <3>3
  <2> QED BY <1>4, <1>1, <1>5, <2>3, <2>6, <2>7
<1> QED BY <1>5, <1>6

\* The next seal ends at a row that no seal covers yet.
LEMMA HighestIsFresh ==
    ASSUME entry \in Seq(Entries), Fresh # {} PROVE Highest \in Fresh
<1>1. Fresh \in SUBSET (0 .. Len(entry)) /\ IsFiniteSet(Fresh) /\ Len(entry) \in Nat
       /\ Cardinality(Fresh) \in Nat
  <2>1. Fresh \subseteq KeptIn(entry)
    BY DEF Fresh, Kept, KeptIn
  <2> QED BY <2>1, KeptIsFinite
<1>2. CASE Cardinality(Fresh) >= SealLimit
  <2>1. SealLimit \in Nat \ {0} /\ SealLimit <= Cardinality(Fresh)
    BY <1>1, <1>2, RequestsAssumption
  <2>2. \E i \in Fresh : Cardinality({j \in Fresh : j <= i}) = SealLimit
    BY <1>1, <2>1, NthExists
  <2>3. Highest = CHOOSE i \in Fresh : Cardinality({j \in Fresh : j <= i}) = SealLimit
    BY <1>2 DEF Highest
  <2> QED BY <2>2, <2>3
<1>3. CASE ~(Cardinality(Fresh) >= SealLimit)
  <2>1. \E x \in Fresh : \A y \in Fresh : x >= y
    BY <1>1, GreatestExists
  <2> QED BY <1>3, <2>1 DEF Highest, Max
<1> QED BY <1>2, <1>3

-----------------------------------------------------------------------------
(* How a chain grows, is walked and is broken.                              *)

LEMMA EndIsTyped ==
    ASSUME NEW ss \in Seq(SealType) PROVE End(ss) \in Nat
<1>1. CASE ss = << >>
  BY <1>1 DEF End
<1>2. CASE ss # << >>
  <2>1. ss[Len(ss)] \in SealType
    BY <1>2
  <2>2. ss[Len(ss)].to \in Nat
    BY <2>1 DEF SealType
  <2> QED BY <1>2, <2>2 DEF End
<1> QED BY <1>1, <1>2

\* A seal over what follows the last one continues the chain.
LEMMA ChainGrows ==
    ASSUME NEW e, NEW ss \in Seq(SealType), Chained(e, ss, 0, Zero), NEW s \in SealType,
           Right(e, s, IF ss = << >> THEN Zero ELSE ss[Len(ss)].digest),
           s.from = End(ss), s.from <= s.to + 1,
           s.count = Cardinality(Between(e, s.from, s.to))
    PROVE  Chained(e, Append(ss, s), 0, Zero)
<1> DEFINE n == Len(ss)
           tt == Append(ss, s)
           last == IF ss = << >> THEN Zero ELSE ss[n].digest
<1>0. Right(e, s, last)
  OBVIOUS
<1>1. n \in Nat /\ Len(tt) = n + 1 /\ tt[n + 1] = s
       /\ \A k \in 1 .. n : tt[k] = ss[k]
  OBVIOUS
<1>2. ss = << >> <=> n = 0
  OBVIOUS
<1> HIDE DEF tt, n, last
<1>3. ASSUME NEW k \in 1 .. n
      PROVE  Before(tt, k, Zero) = Before(ss, k, Zero) /\ Starts(tt, k, 0) = Starts(ss, k, 0)
  <2>1. k = 1 \/ k - 1 \in 1 .. n
    BY <1>1
  <2> QED BY <1>1, <2>1 DEF Before, Starts
<1>4. Before(tt, n + 1, Zero) = last /\ Starts(tt, n + 1, 0) = End(ss)
  <2>1. CASE n = 0
    <3>1. n + 1 = 1 /\ ss = << >>
      BY <1>2, <2>1
    <3> QED BY <3>1 DEF Before, Starts, End, last
  <2>2. CASE n # 0
    <3>1. n + 1 # 1 /\ (n + 1) - 1 = n /\ ss # << >> /\ tt[n] = ss[n]
      BY <1>1, <1>2, <2>2
    <3>2. End(ss) = ss[n].to + 1 /\ last = ss[n].digest
      BY <3>1 DEF End, n, last
    <3>3. Before(tt, n + 1, Zero) = tt[n].digest
      BY <3>1 DEF Before
    <3>4. Starts(tt, n + 1, 0) = tt[n].to + 1
      BY <3>1 DEF Starts
    <3> QED BY <3>1, <3>2, <3>3, <3>4
  <2> QED BY <2>1, <2>2
<1>5. ASSUME NEW k \in 1 .. n + 1
      PROVE  /\ Right(e, tt[k], Before(tt, k, Zero))
             /\ tt[k].from = Starts(tt, k, 0) /\ tt[k].from <= tt[k].to + 1
             /\ tt[k].count = Cardinality(Between(e, tt[k].from, tt[k].to))
  <2>1. CASE k \in 1 .. n
    <3>1. tt[k] = ss[k]
      BY <1>1, <2>1
    <3>2. /\ Right(e, ss[k], Before(ss, k, Zero))
          /\ ss[k].from = Starts(ss, k, 0) /\ ss[k].from <= ss[k].to + 1
          /\ ss[k].count = Cardinality(Between(e, ss[k].from, ss[k].to))
      BY <2>1 DEF Chained, n
    <3> QED BY <3>1, <3>2, <1>3, <2>1
  <2>2. CASE k = n + 1
    <3>1. tt[k] = s /\ Before(tt, k, Zero) = last /\ Starts(tt, k, 0) = End(ss)
      BY <1>1, <1>4, <2>2
    <3> QED BY <1>0, <3>1
  <2> QED BY <1>1, <2>1, <2>2
<1>6. Chained(e, tt, 0, Zero)
  BY <1>1, <1>5 DEF Chained
<1> QED BY <1>6 DEF tt

LEMMA BrokenStaysBroken ==
    ASSUME NEW e, NEW ss \in Seq(SealType), Broken(e, ss, Zero), NEW s \in SealType
    PROVE  Broken(e, Append(ss, s), Zero)
<1> DEFINE tt == Append(ss, s)
<1>1. Len(ss) \in Nat /\ Len(tt) = Len(ss) + 1 /\ \A k \in 1 .. Len(ss) : tt[k] = ss[k]
  OBVIOUS
<1>2. PICK k \in 1 .. Len(ss) : ~Right(e, ss[k], Before(ss, k, Zero))
  BY DEF Broken
<1> HIDE DEF tt
<1>3. k \in 1 .. Len(tt) /\ tt[k] = ss[k] /\ Before(tt, k, Zero) = Before(ss, k, Zero)
  <2>1. k = 1 \/ k - 1 \in 1 .. Len(ss)
    BY <1>1
  <2> QED BY <1>1, <2>1 DEF Before
<1>4. Broken(e, tt, Zero)
  BY <1>2, <1>3 DEF Broken
<1> QED BY <1>4 DEF tt

\* The first seal of a chain, and the chain after it.
LEMMA ChainIsWalked ==
    ASSUME NEW e, NEW ss \in Seq(SealType), ss # << >>, NEW start, NEW digest
    PROVE  /\ Chained(e, ss, start, digest) =>
                /\ Right(e, Head(ss), digest) /\ Head(ss).from = start /\ start <= Head(ss).to + 1
                /\ Head(ss).count = Cardinality(Between(e, start, Head(ss).to))
                /\ Chained(e, Tail(ss), Head(ss).to + 1, Head(ss).digest)
           /\ Broken(e, ss, digest) /\ Right(e, Head(ss), digest) =>
                Broken(e, Tail(ss), Head(ss).digest)
<1> DEFINE tt == Tail(ss)
           n == Len(ss)
<1>1. n \in Nat \ {0} /\ Head(ss) = ss[1] /\ Len(tt) = n - 1
       /\ \A k \in 1 .. n - 1 : tt[k] = ss[k + 1]
  OBVIOUS
<1> HIDE DEF tt
<1>2. ASSUME NEW k \in 1 .. n - 1
      PROVE  /\ k + 1 \in 1 .. n /\ tt[k] = ss[k + 1]
             /\ Before(tt, k, ss[1].digest) = Before(ss, k + 1, digest)
             /\ Starts(tt, k, ss[1].to + 1) = Starts(ss, k + 1, start)
  <2>1. k + 1 \in 1 .. n /\ k + 1 # 1 /\ (k + 1) - 1 = k /\ tt[k] = ss[k + 1]
    BY <1>1
  <2>2. CASE k = 1
    BY <2>1, <2>2 DEF Before, Starts
  <2>3. CASE k # 1
    <3>1. k - 1 \in 1 .. n - 1 /\ (k - 1) + 1 = k
      BY <1>1, <2>3
    <3>2. tt[k - 1] = ss[k]
      BY <1>1, <3>1
    <3> QED BY <2>1, <2>3, <3>2 DEF Before, Starts
  <2> QED BY <2>1, <2>2, <2>3
<1>3. 1 \in 1 .. n /\ Before(ss, 1, digest) = digest /\ Starts(ss, 1, start) = start
  BY <1>1 DEF Before, Starts
<1>4. ASSUME Chained(e, ss, start, digest)
      PROVE  /\ Right(e, ss[1], digest) /\ ss[1].from = start /\ start <= ss[1].to + 1
             /\ ss[1].count = Cardinality(Between(e, start, ss[1].to))
             /\ Chained(e, tt, ss[1].to + 1, ss[1].digest)
  <2>1. \A k \in 1 .. n :
            /\ Right(e, ss[k], Before(ss, k, digest))
            /\ ss[k].from = Starts(ss, k, start) /\ ss[k].from <= ss[k].to + 1
            /\ ss[k].count = Cardinality(Between(e, ss[k].from, ss[k].to))
    BY <1>4 DEF Chained
  <2>2. /\ Right(e, ss[1], digest) /\ ss[1].from = start /\ start <= ss[1].to + 1
        /\ ss[1].count = Cardinality(Between(e, start, ss[1].to))
    BY <1>3, <2>1
  <2>3. ASSUME NEW k \in 1 .. n - 1
        PROVE  /\ Right(e, tt[k], Before(tt, k, ss[1].digest))
               /\ tt[k].from = Starts(tt, k, ss[1].to + 1) /\ tt[k].from <= tt[k].to + 1
               /\ tt[k].count = Cardinality(Between(e, tt[k].from, tt[k].to))
    BY <1>2, <2>1
  <2>4. Chained(e, tt, ss[1].to + 1, ss[1].digest)
    BY <1>1, <2>3 DEF Chained
  <2> QED BY <2>2, <2>4
<1>5. ASSUME Broken(e, ss, digest), Right(e, ss[1], digest)
      PROVE  Broken(e, tt, ss[1].digest)
  <2>1. PICK k \in 1 .. n : ~Right(e, ss[k], Before(ss, k, digest))
    BY <1>5 DEF Broken
  <2>2. k # 1
    BY <1>3, <1>5, <2>1
  <2>3. k - 1 \in 1 .. n - 1 /\ (k - 1) + 1 = k
    BY <1>1, <2>2
  <2>4. ~Right(e, tt[k - 1], Before(tt, k - 1, ss[1].digest))
    BY <1>2, <2>1, <2>3
  <2> QED BY <1>1, <2>3, <2>4 DEF Broken
<1> QED BY <1>1, <1>4, <1>5 DEF tt

\* A covered row that is gone or reads otherwise breaks the chain.
LEMMA ForgingBreaks ==
    ASSUME NEW e \in Seq(Entries), NEW f, NEW ss \in Seq(SealType), Chained(e, ss, 0, Zero),
           NEW i \in KeptIn(e), NEW k \in 1 .. Len(ss), ss[k].from <= i, i <= ss[k].to,
           i \in KeptIn(f) => f[i].row # e[i].row
    PROVE  Broken(f, ss, Zero)
<1>1. Digest(e, ss[k].from, ss[k].to) = ss[k].entries
  BY DEF Chained, Right
<1>2. <<i, e[i].row>> \in Digest(e, ss[k].from, ss[k].to)
  BY DEF Digest, Between
<1>3. <<i, e[i].row>> \notin Digest(f, ss[k].from, ss[k].to)
  <2> SUFFICES ASSUME NEW j \in Between(f, ss[k].from, ss[k].to), <<i, e[i].row>> = <<j, f[j].row>>
               PROVE  FALSE
    BY DEF Digest
  <2>1. i = j /\ e[i].row = f[i].row /\ i \in KeptIn(f)
    BY DEF Between
  <2> QED BY <2>1
<1>4. ~Right(f, ss[k], Before(ss, k, Zero))
  BY <1>1, <1>2, <1>3 DEF Right
<1> QED BY <1>4 DEF Broken

\* A seal that another one follows cannot be taken away unseen.
LEMMA RemovingBreaks ==
    ASSUME NEW e, NEW ss \in Seq(SealType), Chained(e, ss, 0, Zero), NEW i \in 1 .. Len(ss) - 1
    PROVE  /\ RemoveAt(ss, i) \in Seq(SealType) /\ End(RemoveAt(ss, i)) = End(ss)
           /\ \A low : Below(ss, low) => Below(RemoveAt(ss, i), low)
           /\ Broken(e, RemoveAt(ss, i), Zero)
<1> DEFINE n == Len(ss)
           tt == RemoveAt(ss, i)
<1>1. n \in Nat /\ i \in Nat /\ 1 <= i /\ i < n
  OBVIOUS
<1>2. /\ SubSeq(ss, 1, i - 1) \in Seq(SealType) /\ Len(SubSeq(ss, 1, i - 1)) = i - 1
      /\ SubSeq(ss, i + 1, n) \in Seq(SealType) /\ Len(SubSeq(ss, i + 1, n)) = n - i
      /\ \A k \in 1 .. i - 1 : SubSeq(ss, 1, i - 1)[k] = ss[k]
      /\ \A k \in 1 .. n - i : SubSeq(ss, i + 1, n)[k] = ss[k + i]
  BY <1>1
<1>3. tt \in Seq(SealType) /\ Len(tt) = n - 1
  BY <1>1, <1>2 DEF RemoveAt
<1>4. \A k \in 1 .. n - 1 : tt[k] = IF k < i THEN ss[k] ELSE ss[k + 1]
  <2> TAKE k \in 1 .. n - 1
  <2>1. CASE k < i
    <3>1. k \in 1 .. i - 1
      BY <1>1, <2>1
    <3> QED BY <1>1, <1>2, <2>1, <3>1 DEF RemoveAt
  <2>2. CASE ~(k < i)
    <3>1. k - (i - 1) \in 1 .. n - i /\ (k - (i - 1)) + i = k + 1 /\ k > i - 1 /\ k <= (i - 1) + (n - i)
      BY <1>1, <2>2
    <3>2. tt[k] = SubSeq(ss, i + 1, n)[k - (i - 1)]
      <4> DEFINE a == SubSeq(ss, 1, i - 1)
                 b == SubSeq(ss, i + 1, n)
      <4>1. tt = a \o b
        BY DEF RemoveAt
      <4>2. a \in Seq(SealType) /\ b \in Seq(SealType) /\ Len(a) = i - 1 /\ Len(b) = n - i
        BY <1>2
      <4> HIDE DEF a, b, tt
      <4>3. k \in 1 .. Len(a) + Len(b) /\ k > Len(a)
        BY <1>1, <3>1, <4>2
      <4>4. (a \o b)[k] = b[k - Len(a)]
        BY <4>2, <4>3
      <4> QED BY <4>1, <4>2, <4>4 DEF b
    <3> QED BY <1>2, <2>2, <3>1, <3>2
  <2> QED BY <2>1, <2>2
<1> HIDE DEF tt
<1>5. End(tt) = End(ss)
  <2>1. ss # << >> /\ tt # << >> /\ n - 1 \in 1 .. n - 1 /\ ~(n - 1 < i) /\ (n - 1) + 1 = n
    BY <1>1, <1>3
  <2>2. tt[n - 1] = ss[n]
    BY <1>4, <2>1
  <2> QED BY <1>3, <2>1, <2>2 DEF End
<1>6. ASSUME NEW low, Below(ss, low) PROVE Below(tt, low)
  <2> SUFFICES ASSUME NEW k \in 1 .. n - 1 PROVE tt[k].to < low
    BY <1>3 DEF Below
  <2>1. k \in 1 .. n /\ k + 1 \in 1 .. n
    BY <1>1
  <2> QED BY <1>4, <1>6, <2>1 DEF Below
<1>7. ss[i].digest # Before(ss, i, Zero)
  <2>1. /\ i \in 1 .. n
        /\ ss[i] \in SealType /\ Right(e, ss[i], Before(ss, i, Zero))
    BY <1>1 DEF Chained
  <2>2. ss[i].previous \in Seq(Contents) /\ ss[i].entries \in Contents
    BY <2>1 DEF SealType
  <2>3. ss[i].digest = Append(ss[i].previous, ss[i].entries) /\ ss[i].previous = Before(ss, i, Zero)
    BY <2>1 DEF Right, Chain
  <2>4. Len(Append(ss[i].previous, ss[i].entries)) = Len(ss[i].previous) + 1 /\ Len(ss[i].previous) \in Nat
    BY <2>2
  <2>5. Append(ss[i].previous, ss[i].entries) # ss[i].previous
    BY <2>4
  <2> QED BY <2>3, <2>5
<1>8. i \in 1 .. n - 1 /\ tt[i] = ss[i + 1] /\ Before(tt, i, Zero) = Before(ss, i, Zero)
  <2>1. i = 1 \/ (i - 1 \in 1 .. n - 1 /\ i - 1 < i)
    BY <1>1
  <2>2. i = 1 \/ tt[i - 1] = ss[i - 1]
    BY <1>4, <2>1
  <2> QED BY <1>1, <1>4, <2>2 DEF Before
<1>9. ss[i + 1].previous = ss[i].digest
  <2>1. i + 1 \in 1 .. n /\ i + 1 # 1 /\ (i + 1) - 1 = i
    BY <1>1
  <2>2. Right(e, ss[i + 1], Before(ss, i + 1, Zero))
    BY <2>1 DEF Chained
  <2> QED BY <2>1, <2>2 DEF Right, Before
<1>10. ~Right(e, tt[i], Before(tt, i, Zero))
  BY <1>7, <1>8, <1>9 DEF Right
<1>11. Broken(e, tt, Zero)
  BY <1>3, <1>8, <1>10 DEF Broken
<1> QED BY <1>3, <1>5, <1>6, <1>11 DEF tt

-----------------------------------------------------------------------------
(* The invariant of seals and verifications, step by step.                  *)

LedgerTyped ==
    /\ seals \in Seq(SealType)
    /\ check \in [Auditors -> CheckType]
    /\ tampered \in BOOLEAN

\* Nothing that a seal covers is still open.
Frozen ==
    /\ End(seals) <= Len(entry) + 1
    /\ \A i \in DOMAIN entry : entry[i].state = "open" => i >= End(seals)
    /\ Below(seals, End(seals))

\* While nobody has altered the ledger its seals are a chain over every number up to the last
\* one's end; from then on one of them does not agree with it.
Covering(ss) ==
    \A i \in Nat \ {0} : i < End(ss) => \E k \in 1 .. Len(ss) : ss[k].from <= i /\ i <= ss[k].to
SealsTell ==
    IF tampered THEN Broken(entry, seals, Zero)
    ELSE Chained(entry, seals, 0, Zero) /\ Covering(seals)

\* What a verification has added up is what lies under the place it has come to; one that began
\* after an alteration still has the seal ahead that does not agree.
Sane(e, c, low, altered) ==
    /\ Below(c.seals, low)
    /\ c.before => altered
    /\ c.at = "seals" /\ ~altered =>
           \E b \in 0 .. low : Chained(e, c.seals, b, c.expected) /\ c.entries = Cardinality(Under(e, b))
    /\ c.at = "seals" /\ c.before => Broken(e, c.seals, c.expected)
    /\ c.at = "invalid" => ~c.clean
    /\ c.at = "valid" => ~c.before /\ (c.clean => c.entries + c.unsealed <= c.held)
Vouched ==
    /\ LedgerTyped /\ Frozen /\ SealsTell
    /\ \A a \in Auditors : Sane(entry, check[a], End(seals), tampered)

LEMMA SameIsSane ==
    ASSUME NEW e \in Seq(Entries), NEW f \in Seq(Entries), NEW low \in Nat, SameUnder(e, f, low),
           NEW c \in CheckType, NEW altered, Sane(e, c, low, altered)
    PROVE  Sane(f, c, low, altered)
<1>1. c.seals \in Seq(SealType) /\ Below(c.seals, low)
  BY DEF Sane, CheckType
<1>2. \A start, digest :
        /\ Chained(e, c.seals, start, digest) => Chained(f, c.seals, start, digest)
        /\ Broken(e, c.seals, digest) => Broken(f, c.seals, digest)
  BY <1>1, SameIsChainedAlike
<1>3. \A b \in 0 .. low : Under(e, b) = Under(f, b)
  <2> TAKE b \in 0 .. low
  <2>1. b \in Nat /\ b <= low
    OBVIOUS
  <2> QED BY <2>1, SameIsCountedAlike
<1> QED BY <1>2, <1>3 DEF Sane

LEMMA LaterIsSane ==
    ASSUME NEW e, NEW low \in Nat, NEW later \in Nat, low <= later, NEW c \in CheckType,
           NEW altered, Sane(e, c, low, altered)
    PROVE  Sane(e, c, later, altered)
<1>1. Below(c.seals, low) /\ c.seals \in Seq(SealType)
  BY DEF Sane, CheckType
<1>2. Below(c.seals, later)
  <2> SUFFICES ASSUME NEW k \in 1 .. Len(c.seals) PROVE c.seals[k].to < later
    BY DEF Below
  <2>1. c.seals[k] \in SealType /\ c.seals[k].to < low
    BY <1>1 DEF Below
  <2>2. c.seals[k].to \in Nat
    BY <2>1 DEF SealType
  <2> QED BY <2>1, <2>2
<1>3. \A b \in 0 .. low : b \in 0 .. later
  OBVIOUS
<1> QED BY <1>2, <1>3 DEF Sane

\* Rows that come, or come to an end, above what is sealed.
LEMMA EntriesVouch ==
    ASSUME Vouched, entry \in Seq(Entries), entry' \in Seq(Entries),
           UNCHANGED <<seals, check, tampered>>, SameUnder(entry, entry', End(seals)),
           Len(entry') >= Len(entry),
           \A i \in DOMAIN entry' : entry'[i].state = "open" => i >= End(seals)
    PROVE  Vouched'
<1>1. End(seals) \in Nat /\ seals \in Seq(SealType)
  BY EndIsTyped DEF Vouched, LedgerTyped
<1>2. LedgerTyped'
  BY DEF Vouched, LedgerTyped
<1>3. Frozen'
  BY <1>1 DEF Vouched, Frozen
<1>4. SealsTell'
  BY <1>1, SameIsChainedAlike DEF Vouched, Frozen, SealsTell
<1>5. ASSUME NEW a \in Auditors PROVE Sane(entry', check[a], End(seals), tampered)
  <2>1. check[a] \in CheckType /\ Sane(entry, check[a], End(seals), tampered)
    BY DEF Vouched, LedgerTyped
  <2> QED BY <1>1, <2>1, SameIsSane
<1> QED BY <1>2, <1>3, <1>4, <1>5 DEF Vouched

LEMMA NothingVouches ==
    ASSUME Vouched, UNCHANGED <<entry, seals, check, tampered>> PROVE Vouched'
BY DEF Vouched, LedgerTyped, Frozen, SealsTell

LEMMA DrawVouches ==
    ASSUME Vouched, entry \in Seq(Entries), entry' \in Seq(Entries), NEW row, NEW first,
           Draw(row, first)
    PROVE  Vouched'
<1>1. End(seals) \in Nat /\ End(seals) <= Len(entry) + 1
  BY EndIsTyped DEF Vouched, LedgerTyped, Frozen
<1> DEFINE n == Len(entry)
           new == [row |-> row, state |-> "open"]
<1>2. entry' = Append(entry, new) /\ n \in Nat
  BY DEF Draw
<1> HIDE DEF new
<1>3. Len(entry') = n + 1 /\ \A i \in 1 .. n : entry'[i] = entry[i]
  BY <1>2
<1>4. \A i \in DOMAIN entry' : i \in DOMAIN entry \/ i = n + 1
  BY <1>3
<1>5. SameUnder(entry, entry', End(seals))
  BY <1>1, <1>2, <1>3 DEF SameUnder, KeptIn
<1>6. \A i \in DOMAIN entry' : entry'[i].state = "open" => i >= End(seals)
  BY <1>1, <1>2, <1>3, <1>4 DEF Vouched, Frozen
<1> QED BY <1>2, <1>3, <1>5, <1>6, EntriesVouch DEF Draw

LEMMA SettleVouches ==
    ASSUME Vouched, entry \in Seq(Entries), entry' \in Seq(Entries), NEW numbers,
           NEW state \in {"kept", "lost"}, Settle(numbers, state)
    PROVE  Vouched'
<1>1. End(seals) \in Nat /\ \A i \in DOMAIN entry : entry[i].state = "open" => i >= End(seals)
  BY EndIsTyped DEF Vouched, LedgerTyped, Frozen
<1>2. DOMAIN entry' = DOMAIN entry /\ Len(entry') = Len(entry)
  BY DEF Settle
<1>3. ASSUME NEW i \in DOMAIN entry
      PROVE  /\ i \in numbers => entry[i].state = "open" /\ entry'[i].state = state
             /\ i \notin numbers => entry'[i] = entry[i]
  <2>1. entry[i] \in Entries
    OBVIOUS
  <2>2. i \in numbers => entry'[i] = [entry[i] EXCEPT !.state = state]
    BY DEF Settle
  <2>3. i \in numbers => entry'[i].state = state
    BY <2>1, <2>2 DEF Entries
  <2> QED BY <2>3 DEF Settle, Open
<1>4. SameUnder(entry, entry', End(seals))
  <2> SUFFICES ASSUME NEW i \in Nat, i < End(seals)
               PROVE  /\ i \in KeptIn(entry) <=> i \in KeptIn(entry')
                      /\ i \in KeptIn(entry) => entry[i].row = entry'[i].row
    BY DEF SameUnder
  <2>1. i \in DOMAIN entry => i \notin numbers
    BY <1>1, <1>3
  <2> QED BY <1>2, <1>3, <2>1 DEF KeptIn
<1>5. \A i \in DOMAIN entry' : entry'[i].state = "open" => i >= End(seals)
  BY <1>1, <1>2, <1>3
<1>6. Len(entry') >= Len(entry)
  BY <1>2
<1> QED BY <1>4, <1>5, <1>6, EntriesVouch DEF Settle

\* One verification goes a statement further.
LEMMA CheckVouches ==
    ASSUME Vouched, UNCHANGED <<entry, seals, tampered>>, NEW a, NEW c,
           check' = [check EXCEPT ![a] = c],
           a \in Auditors => c \in CheckType /\ Sane(entry, c, End(seals), tampered)
    PROVE  Vouched'
<1>1. LedgerTyped' /\ Frozen' /\ SealsTell'
  BY DEF Vouched, LedgerTyped, Frozen, SealsTell
<1>2. ASSUME NEW b \in Auditors PROVE Sane(entry, check'[b], End(seals), tampered)
  BY DEF Vouched, LedgerTyped
<1> QED BY <1>1, <1>2 DEF Vouched

LEMMA UncheckedIsSane ==
    ASSUME NEW e, NEW low \in Nat, NEW altered
    PROVE  Unchecked \in CheckType /\ Sane(e, Unchecked, low, altered)
<1>1. << >> \in Seq(SealType) /\ Zero \in Seq(Contents) /\ Len(<< >>) = 0
  BY DEF Zero
<1>2. Unchecked \in CheckType
  BY <1>1 DEF Unchecked, CheckType
<1>3. Unchecked.at = "idle" /\ Unchecked.seals = << >> /\ ~Unchecked.before
  BY DEF Unchecked
<1>4. Below(<< >>, low)
  BY <1>1 DEF Below
<1> QED BY <1>2, <1>3, <1>4 DEF Sane

LEMMA ReadingVouches ==
    ASSUME Vouched, entry \in Seq(Entries), NEW a, ReadSeals(a) PROVE Vouched'
<1> DEFINE c == [Unchecked EXCEPT !.at = "seals", !.seals = seals, !.before = tampered]
<1>1. /\ End(seals) \in Nat /\ seals \in Seq(SealType) /\ tampered \in BOOLEAN
      /\ Below(seals, End(seals)) /\ SealsTell
  BY EndIsTyped DEF Vouched, LedgerTyped, Frozen
<1>2. Unchecked \in CheckType
  BY <1>1, UncheckedIsSane
<1>3. c \in CheckType
  BY <1>1, <1>2 DEF CheckType
<1>4. /\ c.at = "seals" /\ c.seals = seals /\ c.before = tampered /\ c.expected = Zero
      /\ c.entries = 0
  BY DEF Unchecked
<1>5. check' = [check EXCEPT ![a] = c] /\ UNCHANGED <<entry, seals, tampered>>
  BY DEF ReadSeals
<1> HIDE DEF c
<1>6. Under(entry, 0) = {}
  <2>1. KeptIn(entry) \subseteq Nat
    BY KeptIsFinite
  <2> QED BY <2>1 DEF Under
<1>7. Cardinality(Under(entry, 0)) = 0 /\ 0 \in 0 .. End(seals)
  <2>1. Cardinality(Under(entry, 0)) = 0
    BY <1>6, FS_EmptySet, Zenon
  <2>2. 0 \in 0 .. End(seals)
    BY <1>1
  <2> QED BY <2>1, <2>2
<1>8. Sane(entry, c, End(seals), tampered)
  BY <1>1, <1>4, <1>7 DEF Sane, SealsTell
<1> QED BY <1>3, <1>5, <1>8, CheckVouches

LEMMA SealAgrees ==
    ASSUME NEW s, NEW expected PROVE Agrees(s, expected) <=> Right(entry, s, expected)
<1>1. EntriesDigest(s.from, s.to) = Digest(entry, s.from, s.to)
  BY DEF EntriesDigest, Digest, Between, Kept, KeptIn
<1> QED BY <1>1 DEF Agrees, Right

LEMMA CheckingVouches ==
    ASSUME Vouched, entry \in Seq(Entries), NEW a, CheckSeal(a) PROVE Vouched'
<1> DEFINE c == check[a]
           s == Head(c.seals)
           good == [c EXCEPT !.seals = Tail(c.seals), !.expected = s.digest, !.entries = c.entries + s.count]
           bad == [c EXCEPT !.at = "invalid", !.clean = ~tampered]
           next == IF Right(entry, s, c.expected) THEN good ELSE bad
<1>1. check' = [check EXCEPT ![a] = next] /\ UNCHANGED <<entry, seals, tampered>>
  <2>1. check' = [check EXCEPT ![a] = IF Agrees(s, c.expected) THEN good ELSE bad]
    BY DEF CheckSeal
  <2> QED BY <2>1, SealAgrees DEF CheckSeal
<1>2. End(seals) \in Nat /\ tampered \in BOOLEAN
  BY EndIsTyped DEF Vouched, LedgerTyped
<1>3. ASSUME a \in Auditors
      PROVE  next \in CheckType /\ Sane(entry, next, End(seals), tampered)
  <2> DEFINE low == End(seals)
  <2>1. c \in CheckType /\ Sane(entry, c, low, tampered) /\ c.at = "seals" /\ c.seals # << >>
    BY <1>3 DEF Vouched, LedgerTyped, CheckSeal
  <2> HIDE DEF c, low
  <2>2. c.seals \in Seq(SealType) /\ c.entries \in Nat /\ Below(c.seals, low)
    BY <2>1 DEF CheckType, Sane
  <2>3. /\ s = c.seals[1] /\ 1 \in 1 .. Len(c.seals) /\ s \in SealType
        /\ Tail(c.seals) \in Seq(SealType) /\ Len(Tail(c.seals)) = Len(c.seals) - 1
        /\ \A k \in 1 .. Len(c.seals) - 1 : Tail(c.seals)[k] = c.seals[k + 1]
    BY <2>1, <2>2
  <2>4. /\ s.digest \in Seq(Contents) /\ s.count \in Nat /\ s.to \in Nat /\ s.to < low
        /\ c.entries + s.count \in Nat
    <3>1. s.digest \in Seq(Contents) /\ s.count \in Nat /\ s.to \in Nat
      <4>1. \A x \in SealType : x.digest \in Seq(Contents) /\ x.count \in Nat /\ x.to \in Nat
        BY DEF SealType
      <4> QED BY <2>3, <4>1
    <3>2. s.to < low
      BY <2>2, <2>3 DEF Below
    <3> HIDE DEF s
    <3> QED BY <2>2, <3>1, <3>2
  <2>5. /\ good \in CheckType /\ good.at = "seals" /\ good.seals = Tail(c.seals)
        /\ good.expected = s.digest /\ good.entries = c.entries + s.count /\ good.before = c.before
    BY <2>1, <2>3, <2>4 DEF CheckType
  <2>6. /\ bad \in CheckType /\ bad.at = "invalid" /\ bad.clean = ~tampered
        /\ bad.before = c.before /\ bad.seals = c.seals
    BY <1>2, <2>1 DEF CheckType
  <2>7. Below(Tail(c.seals), low)
    <3> SUFFICES ASSUME NEW k \in 1 .. Len(c.seals) - 1 PROVE Tail(c.seals)[k].to < low
      BY <2>3 DEF Below
    <3>1. k + 1 \in 1 .. Len(c.seals)
      BY <2>2
    <3> QED BY <2>2, <2>3, <3>1 DEF Below
  <2> HIDE DEF good, bad, s
  <2>8. CASE Right(entry, s, c.expected)
    <3>1. ASSUME ~tampered
          PROVE  \E b \in 0 .. low :
                    /\ Chained(entry, good.seals, b, good.expected)
                    /\ good.entries = Cardinality(Under(entry, b))
      <4>1. PICK b \in 0 .. low :
                Chained(entry, c.seals, b, c.expected) /\ c.entries = Cardinality(Under(entry, b))
        BY <2>1, <3>1 DEF Sane
      <4>2. /\ b <= s.to + 1 /\ s.count = Cardinality(Between(entry, b, s.to))
            /\ Chained(entry, Tail(c.seals), s.to + 1, s.digest)
        BY <2>1, <2>2, <4>1, ChainIsWalked DEF s
      <4>3. Cardinality(Under(entry, s.to + 1)) = c.entries + s.count
        <5>1. b \in Nat /\ s.to \in Nat /\ b <= s.to + 1
          BY <2>4, <4>2
        <5>2. Cardinality(Under(entry, s.to + 1))
                = Cardinality(Under(entry, b)) + Cardinality(Between(entry, b, s.to))
          BY <5>1, CountsMeet
        <5> QED BY <4>1, <4>2, <5>2
      <4>4. s.to + 1 \in 0 .. low
        BY <1>2, <2>4 DEF low
      <4> QED BY <2>5, <4>2, <4>3, <4>4
    <3>2. c.before => Broken(entry, good.seals, good.expected)
      <4>1. c.before => Broken(entry, c.seals, c.expected)
        BY <2>1 DEF Sane
      <4>2. Broken(entry, c.seals, c.expected) => Broken(entry, Tail(c.seals), s.digest)
        BY <2>1, <2>2, <2>8, ChainIsWalked DEF s
      <4> QED BY <2>5, <4>1, <4>2
    <3>3. c.before => tampered
      BY <2>1 DEF Sane
    <3>4. Sane(entry, good, low, tampered)
      BY <2>5, <2>7, <3>1, <3>2, <3>3 DEF Sane
    <3> QED BY <2>5, <2>8, <3>4 DEF low
  <2>9. CASE ~Right(entry, s, c.expected)
    <3>1. tampered
      <4> SUFFICES ASSUME ~tampered PROVE FALSE
        OBVIOUS
      <4>1. PICK b \in 0 .. low : Chained(entry, c.seals, b, c.expected)
        BY <2>1 DEF Sane
      <4>2. Right(entry, s, c.expected)
        BY <2>1, <2>2, <4>1, ChainIsWalked DEF s
      <4> QED BY <2>9, <4>2
    <3>2. Sane(entry, bad, low, tampered)
      BY <2>2, <2>6, <3>1 DEF Sane
    <3> QED BY <2>6, <2>9, <3>2 DEF low
  <2> QED BY <2>8, <2>9
<1> HIDE DEF next
<1> QED BY <1>1, <1>3, CheckVouches

LEMMA LowestIsEnd == Lowest = End(seals)
BY DEF Lowest, End, Last

LEMMA FreshIsAbove == Fresh = Above(entry, End(seals)) /\ Kept = KeptIn(entry)
BY LowestIsEnd DEF Fresh, Above, Kept, KeptIn

LEMMA CountingVouches ==
    ASSUME Vouched, entry \in Seq(Entries), NEW a, CountUnsealed(a) PROVE Vouched'
<1> DEFINE c == check[a]
           next == [c EXCEPT !.at = "valid", !.unsealed = Cardinality(Fresh), !.clean = ~tampered,
                             !.held = Cardinality(Kept)]
<1>1. check' = [check EXCEPT ![a] = next] /\ UNCHANGED <<entry, seals, tampered>>
  BY DEF CountUnsealed
<1>2. End(seals) \in Nat /\ tampered \in BOOLEAN
  BY EndIsTyped DEF Vouched, LedgerTyped
<1>3. ASSUME a \in Auditors
      PROVE  next \in CheckType /\ Sane(entry, next, End(seals), tampered)
  <2> DEFINE low == End(seals)
             u == Cardinality(Fresh)
             h == Cardinality(Kept)
  <2>1. c \in CheckType /\ Sane(entry, c, low, tampered) /\ c.at = "seals" /\ c.seals = << >>
    BY <1>3 DEF Vouched, LedgerTyped, CountUnsealed
  <2>2. /\ u \in Nat /\ h \in Nat
        /\ \A b \in 0 .. low : Cardinality(Under(entry, b)) + u <= h
    <3>1. h \in Nat
      BY KeptIsFinite, FreshIsAbove
    <3>2. \A b \in 0 .. low : b \in Nat /\ b <= low
      OBVIOUS
    <3>3. u = Cardinality(Above(entry, low)) /\ h = Cardinality(KeptIn(entry))
      BY FreshIsAbove
    <3>4. low \in Nat
      BY <1>2
    <3> HIDE DEF u, h, low
    <3>5. u \in Nat
      BY <3>3, <3>4, CountsFit
    <3>6. \A b \in 0 .. low : Cardinality(Under(entry, b)) + u <= h
      BY <3>2, <3>3, <3>4, CountsFit
    <3> QED BY <3>1, <3>5, <3>6
  <2> HIDE DEF c, u, h, low
  <2>3. next = [c EXCEPT !.at = "valid", !.unsealed = u, !.clean = ~tampered, !.held = h]
    BY DEF u, h
  <2>4. /\ next \in CheckType /\ next.at = "valid" /\ next.unsealed = u /\ next.clean = ~tampered
        /\ next.held = h /\ next.before = c.before /\ next.entries = c.entries
        /\ next.seals = c.seals
    BY <1>2, <2>1, <2>2, <2>3 DEF CheckType
  <2> HIDE DEF next
  <2>5. ~c.before
    <3>1. Len(<< >>) = 0
      OBVIOUS
    <3>2. ~Broken(entry, << >>, c.expected)
      BY <3>1 DEF Broken
    <3> QED BY <2>1, <3>2 DEF Sane
  <2>6. ~tampered => c.entries + u <= h
    BY <2>1, <2>2 DEF Sane
  <2>7. Sane(entry, next, low, tampered)
    BY <2>1, <2>4, <2>5, <2>6 DEF Sane
  <2> QED BY <2>4, <2>7 DEF low
<1> HIDE DEF next
<1> QED BY <1>1, <1>3, CheckVouches

LEMMA AbandoningVouches ==
    ASSUME Vouched, NEW a, AbandonCheck(a) PROVE Vouched'
<1>1. End(seals) \in Nat
  BY EndIsTyped DEF Vouched, LedgerTyped
<1> QED BY <1>1, UncheckedIsSane, CheckVouches DEF AbandonCheck

LEMMA NewSealIsRight ==
    ASSUME Vouched, entry \in Seq(Entries), Fresh # {}
    PROVE  /\ Highest \in Nat /\ Highest <= Len(entry) /\ End(seals) <= Highest
           /\ NewSeal \in SealType
           /\ NewSeal.from = End(seals) /\ NewSeal.to = Highest
           /\ NewSeal.count = Cardinality(Between(entry, End(seals), Highest))
           /\ Right(entry, NewSeal, IF seals = << >> THEN Zero ELSE seals[Len(seals)].digest)
<1>1. /\ seals \in Seq(SealType) /\ End(seals) \in Nat
  BY EndIsTyped DEF Vouched, LedgerTyped
<1>2. /\ Highest \in Nat /\ Highest <= Len(entry) /\ End(seals) <= Highest
  <2>1. Highest \in Above(entry, End(seals))
    BY HighestIsFresh, FreshIsAbove
  <2>2. \A i \in KeptIn(entry) : i \in 0 .. Len(entry) /\ Len(entry) \in Nat
    BY KeptIsFinite
  <2> QED BY <1>1, <2>1, <2>2 DEF Above
<1> DEFINE low == End(seals)
           high == Highest
           previous == IF seals = << >> THEN Zero ELSE seals[Len(seals)].digest
           entries == Digest(entry, low, high)
           count == Cardinality(Between(entry, low, high))
<1>3. previous \in Seq(Contents)
  <2>1. Zero \in Seq(Contents)
    BY DEF Zero
  <2>2. CASE seals # << >>
    <3>1. seals[Len(seals)] \in SealType
      BY <1>1, <2>2
    <3>2. seals[Len(seals)].digest \in Seq(Contents)
      BY <3>1 DEF SealType
    <3> QED BY <2>2, <3>2
  <2> QED BY <2>1, <2>2
<1>4. entries \in Contents /\ count \in Nat
  <2>1. entries \in Contents
    BY DigestIsTyped
  <2>2. Between(entry, low, high) \subseteq KeptIn(entry)
    BY DEF Between
  <2> QED BY <2>1, <2>2, KeptIsFinite
<1>5. Lowest = low /\ LastDigest = previous
  BY LowestIsEnd DEF LastDigest, Last
<1>6. EntriesDigest(low, high) = entries /\ Covers(low, high) = count
  BY DEF EntriesDigest, Covers, Digest, Between, Kept, KeptIn
<1>7. NewSeal = [from |-> low, to |-> high, count |-> count, entries |-> entries,
                 previous |-> previous, digest |-> Append(previous, entries)]
  BY <1>5, <1>6 DEF NewSeal, Chain
<1> HIDE DEF low, high, previous, entries, count
<1>8. /\ NewSeal \in SealType /\ NewSeal.from = low /\ NewSeal.to = high /\ NewSeal.count = count
      /\ NewSeal.entries = entries /\ NewSeal.previous = previous
      /\ NewSeal.digest = Append(previous, entries)
  <2>1. Append(previous, entries) \in Seq(Contents)
    BY <1>3, <1>4
  <2>2. low \in Nat /\ high \in Nat
    BY <1>1, <1>2 DEF low, high
  <2> QED BY <1>3, <1>4, <1>7, <2>1, <2>2 DEF SealType
<1>9. Right(entry, NewSeal, previous)
  <2>1. Digest(entry, low, high) = entries
    BY DEF entries
  <2> QED BY <1>8, <2>1 DEF Right, Chain
<1> QED BY <1>2, <1>8, <1>9 DEF low, high, count, previous

\* The seal is over everything kept since the last one, and nothing is open then.
LEMMA SealingVouches ==
    ASSUME Vouched, entry \in Seq(Entries), NEW q, SealNow(q) PROVE Vouched'
<1>1. CASE Fresh = {}
  BY <1>1, NothingVouches DEF SealNow
<1>2. CASE Fresh # {}
  <2> DEFINE s == NewSeal
             tt == Append(seals, s)
             low == End(seals)
             high == Highest
  <2>1. seals' = tt /\ UNCHANGED <<entry, check, tampered>> /\ Open = {}
    BY <1>2 DEF SealNow, Lockable
  <2>2. /\ seals \in Seq(SealType) /\ low \in Nat /\ Below(seals, low)
        /\ check \in [Auditors -> CheckType] /\ tampered \in BOOLEAN
    BY EndIsTyped DEF Vouched, LedgerTyped, Frozen
  <2>3. /\ high \in Nat /\ high <= Len(entry) /\ low <= high
        /\ s \in SealType /\ s.from = low /\ s.to = high
        /\ s.count = Cardinality(Between(entry, low, high))
        /\ Right(entry, s, IF seals = << >> THEN Zero ELSE seals[Len(seals)].digest)
    BY <1>2, NewSealIsRight
  <2> HIDE DEF s, low, high
  <2>4. /\ tt \in Seq(SealType) /\ Len(seals) \in Nat /\ Len(tt) = Len(seals) + 1
        /\ tt[Len(seals) + 1] = s /\ \A k \in 1 .. Len(seals) : tt[k] = seals[k]
    BY <2>2, <2>3
  <2> HIDE DEF tt
  <2>5. End(tt) = high + 1
    <3>1. tt # << >>
      BY <2>4
    <3> QED BY <2>3, <2>4, <3>1 DEF End
  <2>6. LedgerTyped'
    BY <2>1, <2>2, <2>4 DEF LedgerTyped
  <2>7. Frozen'
    <3>1. \A i \in DOMAIN entry : entry[i].state # "open"
      BY <2>1 DEF Open
    <3>2. Below(tt, high + 1)
      <4> SUFFICES ASSUME NEW k \in 1 .. Len(seals) + 1 PROVE tt[k].to < high + 1
        BY <2>4 DEF Below
      <4>1. CASE k \in 1 .. Len(seals)
        <5>1. tt[k] = seals[k] /\ seals[k] \in SealType /\ seals[k].to < low
          BY <2>2, <2>4, <4>1 DEF Below
        <5>2. seals[k].to \in Nat
          BY <5>1 DEF SealType
        <5> QED BY <2>2, <2>3, <5>1, <5>2
      <4>2. CASE k = Len(seals) + 1
        BY <2>3, <2>4, <4>2
      <4> QED BY <2>4, <4>1, <4>2
    <3>3. high + 1 <= Len(entry) + 1
      BY <2>3
    <3> QED BY <2>1, <2>5, <3>1, <3>2, <3>3 DEF Frozen
  <2>8. SealsTell'
    <3>1. CASE tampered
      <4>1. Broken(entry, seals, Zero)
        BY <3>1 DEF Vouched, SealsTell
      <4>2. Broken(entry, tt, Zero)
        BY <2>2, <2>3, <4>1, BrokenStaysBroken DEF tt
      <4> QED BY <2>1, <3>1, <4>2 DEF SealsTell
    <3>2. CASE ~tampered
      <4>1. Chained(entry, seals, 0, Zero) /\ Covering(seals)
        BY <3>2 DEF Vouched, SealsTell
      <4>2. Chained(entry, tt, 0, Zero)
        <5>1. s.from = End(seals) /\ s.from <= s.to + 1
               /\ s.count = Cardinality(Between(entry, s.from, s.to))
          BY <2>2, <2>3 DEF low
        <5> QED BY <2>2, <2>3, <4>1, <5>1, ChainGrows DEF tt
      <4>3. Covering(tt)
        <5> SUFFICES ASSUME NEW i \in Nat \ {0}, i < high + 1
                     PROVE  \E k \in 1 .. Len(tt) : tt[k].from <= i /\ i <= tt[k].to
          BY <2>5 DEF Covering
        <5>1. CASE i < low
          <6>1. PICK k \in 1 .. Len(seals) : seals[k].from <= i /\ i <= seals[k].to
            BY <4>1, <5>1 DEF Covering, low
          <6> QED BY <2>4, <6>1
        <5>2. CASE ~(i < low)
          BY <2>2, <2>3, <2>4, <5>2
        <5> QED BY <5>1, <5>2
      <4> QED BY <2>1, <3>2, <4>2, <4>3 DEF SealsTell
    <3> QED BY <3>1, <3>2
  <2>9. ASSUME NEW a \in Auditors PROVE Sane(entry, check[a], high + 1, tampered)
    <3>1. check[a] \in CheckType /\ Sane(entry, check[a], low, tampered)
      BY <2>2 DEF Vouched, low
    <3>2. high + 1 \in Nat /\ low <= high + 1
      BY <2>2, <2>3
    <3> QED BY <2>2, <3>1, <3>2, LaterIsSane
  <2> QED BY <2>1, <2>5, <2>6, <2>7, <2>8, <2>9 DEF Vouched
<1> QED BY <1>1, <1>2

\* Whatever is altered under a seal, a seal that does not agree is left.
LEMMA TamperVouches ==
    ASSUME Vouched, entry \in Seq(Entries), entry' \in Seq(Entries), Tamper PROVE Vouched'
<1> DEFINE low == End(seals)
<1>1. ~tampered /\ tampered' /\ tampered' \in BOOLEAN /\ check' = check
  BY DEF Tamper
<1>2. /\ seals \in Seq(SealType) /\ low \in Nat /\ check \in [Auditors -> CheckType]
      /\ Below(seals, low) /\ low <= Len(entry) + 1
      /\ \A i \in DOMAIN entry : entry[i].state = "open" => i >= low
      /\ Chained(entry, seals, 0, Zero) /\ Covering(seals)
  BY <1>1, EndIsTyped DEF Vouched, LedgerTyped, Frozen, SealsTell
<1>3. \A a \in Auditors : Sane(entry', check[a], low, TRUE)
  <2>1. \A a \in Auditors : Sane(entry, check[a], low, FALSE)
    BY <1>1 DEF Vouched, LedgerTyped
  <2> QED BY <2>1 DEF Sane
<1>4. ASSUME /\ seals' \in Seq(SealType) /\ End(seals') = low /\ Below(seals', low)
             /\ Len(entry') = Len(entry)
             /\ \A i \in DOMAIN entry' : entry'[i].state = "open" => i >= low
             /\ Broken(entry', seals', Zero)
      PROVE  Vouched'
  <2>1. LedgerTyped'
    BY <1>1, <1>2, <1>4 DEF LedgerTyped
  <2>2. Frozen'
    BY <1>2, <1>4 DEF Frozen
  <2>3. SealsTell'
    BY <1>1, <1>4 DEF SealsTell
  <2>4. \A a \in Auditors : Sane(entry', check'[a], End(seals'), tampered')
    BY <1>1, <1>3, <1>4
  <2> QED BY <2>1, <2>2, <2>3, <2>4 DEF Vouched
<1>5. ASSUME NEW i \in Sealed, NEW x, entry' = [entry EXCEPT ![i] = x], seals' = seals,
             x.state # "open", x.state = "kept" => x.row # entry[i].row
      PROVE  Vouched'
  <2>1. i \in KeptIn(entry) /\ i < low /\ i \in DOMAIN entry /\ i \in Nat \ {0}
    BY LowestIsEnd DEF Sealed, Kept, KeptIn
  <2>2. PICK k \in 1 .. Len(seals) : seals[k].from <= i /\ i <= seals[k].to
    <3>1. Covering(seals) /\ i < End(seals) /\ i \in Nat \ {0}
      BY <1>2, <2>1
    <3> QED BY <3>1 DEF Covering
  <2>3. DOMAIN entry' = DOMAIN entry /\ entry'[i] = x /\ Len(entry') = Len(entry)
         /\ \A j \in DOMAIN entry : j # i => entry'[j] = entry[j]
    BY <1>5, <2>1
  <2>4. i \in KeptIn(entry') => entry'[i].row # entry[i].row
    BY <1>5, <2>3 DEF KeptIn
  <2>5. Broken(entry', seals, Zero)
    <3>1. Chained(entry, seals, 0, Zero) /\ seals \in Seq(SealType)
      BY <1>2
    <3> QED BY <3>1, <2>1, <2>2, <2>4, ForgingBreaks
  <2>6. \A j \in DOMAIN entry' : entry'[j].state = "open" => j >= low
    BY <1>2, <1>5, <2>3
  <2> QED BY <1>2, <1>4, <1>5, <2>3, <2>5, <2>6
<1>6. ASSUME NEW i \in Sealed,
             entry' = [entry EXCEPT ![i] = [row |-> Forged(@.row), state |-> "kept"]], seals' = seals
      PROVE  Vouched'
  <2> DEFINE x == [row |-> Forged(entry[i].row), state |-> "kept"]
  <2>1. entry' = [entry EXCEPT ![i] = x] /\ x.state = "kept" /\ x.row = Forged(entry[i].row)
    BY <1>6
  <2>2. entry[i].row \in Rows
    <3>1. entry[i] \in Entries
      BY DEF Sealed, Kept
    <3> QED BY <3>1 DEF Entries
  <2>3. \A row \in Rows : Forged(row) # row
    <3> SUFFICES ASSUME NEW row \in Rows PROVE Forged(row).outcome # row.outcome
      OBVIOUS
    <3>1. Forged(row).outcome = IF row.outcome = "allowed" THEN "refused" ELSE "allowed"
      BY DEF Forged, Rows
    <3> QED BY <3>1
  <2> HIDE DEF x
  <2> QED BY <1>5, <1>6, <2>1, <2>2, <2>3
<1>7. ASSUME NEW i \in Sealed, entry' = [entry EXCEPT ![i].state = "lost"], seals' = seals
      PROVE  Vouched'
  <2> DEFINE x == [entry[i] EXCEPT !.state = "lost"]
  <2>1. entry[i] \in Entries
    BY DEF Sealed, Kept
  <2>2. entry' = [entry EXCEPT ![i] = x] /\ x.state = "lost"
    BY <1>7, <2>1 DEF Entries
  <2> HIDE DEF x
  <2> QED BY <1>5, <1>7, <2>2
<1>8. ASSUME NEW i \in 1 .. Len(seals) - 1, seals' = RemoveAt(seals, i), entry' = entry
      PROVE  Vouched'
  <2>1. /\ RemoveAt(seals, i) \in Seq(SealType) /\ End(RemoveAt(seals, i)) = low
        /\ Below(RemoveAt(seals, i), low) /\ Broken(entry, RemoveAt(seals, i), Zero)
    <3>1. Chained(entry, seals, 0, Zero) /\ seals \in Seq(SealType) /\ Below(seals, low)
      BY <1>2
    <3> QED BY <3>1, RemovingBreaks
  <2> QED BY <1>2, <1>4, <1>8, <2>1
<1> QED BY <1>6, <1>7, <1>8 DEF Tamper

LEMMA InitIsVouched ==
    ASSUME Init PROVE Vouched
<1> DEFINE n == InitiallySealed
           first == {<<i, Initially[i]>> : i \in 1 .. n}
           s == [from |-> 0, to |-> n, count |-> n, entries |-> first, previous |-> Zero,
                 digest |-> Chain(Zero, first)]
<1>1. /\ Initially \in Seq(Rows) /\ Len(Initially) \in Nat /\ n \in Nat /\ n <= Len(Initially)
      /\ \A i \in Elsewhere : i > n
  BY RequestsAssumption
<1>2. /\ entry = [i \in 1 .. Len(Initially) |->
                     [row |-> Initially[i], state |-> IF i \in Elsewhere THEN "open" ELSE "kept"]]
      /\ seals = IF n = 0 THEN << >> ELSE <<s>>
      /\ check = [a \in Auditors |-> Unchecked] /\ tampered = FALSE
  <2>1. StartsWith(Initially, n, Elsewhere)
    BY DEF Init
  <2> QED BY <2>1 DEF StartsWith
<1>3. entry \in Seq(Entries)
  BY InitIsLawful DEF Lawful, Typed
<1>4. /\ Len(entry) = Len(Initially) /\ DOMAIN entry = 1 .. Len(Initially)
      /\ \A i \in 1 .. Len(Initially) :
             /\ entry[i].row = Initially[i]
             /\ entry[i].state = IF i \in Elsewhere THEN "open" ELSE "kept"
  <2>1. Len(entry) = Len(Initially)
    BY <1>1, <1>2
  <2>2. DOMAIN entry = 1 .. Len(Initially)
    BY <1>2
  <2> QED BY <1>2, <2>1, <2>2
<1>5. Between(entry, 0, n) = 1 .. n /\ Digest(entry, 0, n) = first
  <2>1. Between(entry, 0, n) = 1 .. n
    BY <1>1, <1>4 DEF Between, KeptIn
  <2> QED BY <1>1, <1>4, <2>1 DEF Digest
<1>6. Cardinality(Between(entry, 0, n)) = n
  BY <1>1, <1>5, FS_Interval
<1>7. s \in SealType /\ s.from = 0 /\ s.to = n /\ Right(entry, s, Zero) /\ s.count = n
  <2>1. first \in Contents
    BY <1>5, <1>3, DigestIsTyped
  <2>2. Zero \in Seq(Contents) /\ Chain(Zero, first) \in Seq(Contents)
    BY <2>1 DEF Zero, Chain
  <2> HIDE DEF first
  <2> QED BY <1>1, <1>5, <2>1, <2>2 DEF SealType, Right
<1> HIDE DEF s, first
<1>8. /\ seals \in Seq(SealType) /\ End(seals) \in {0, n + 1} /\ End(seals) <= n + 1
      /\ Below(seals, End(seals)) /\ Chained(entry, seals, 0, Zero) /\ Covering(seals)
  <2>1. CASE n = 0
    <3>1. seals = << >> /\ Len(<< >>) = 0 /\ << >> \in Seq(SealType)
      <4>1. seals = << >>
        BY <1>2, <2>1
      <4> QED BY <4>1
    <3>2. End(seals) = 0
      BY <3>1 DEF End
    <3> QED BY <1>1, <3>1, <3>2 DEF Below, Chained, Covering
  <2>2. CASE n # 0
    <3>1. seals = <<s>> /\ seals # << >> /\ Len(seals) = 1 /\ seals[1] = s /\ seals \in Seq(SealType)
      <4>1. seals = <<s>> /\ s \in SealType
        BY <1>2, <1>7, <2>2
      <4> QED BY <4>1
    <3>2. End(seals) = n + 1
      BY <1>7, <3>1 DEF End
    <3>3. Below(seals, n + 1)
      BY <1>1, <1>7, <3>1 DEF Below
    <3>4. Chained(entry, seals, 0, Zero)
      BY <1>1, <1>6, <1>7, <3>1 DEF Chained, Before, Starts
    <3>5. Covering(seals)
      BY <1>1, <1>7, <3>1, <3>2 DEF Covering
    <3> QED BY <1>1, <3>1, <3>2, <3>3, <3>4, <3>5
  <2> QED BY <2>1, <2>2
<1>9. Frozen
  BY <1>1, <1>4, <1>8 DEF Frozen
<1>10. Unchecked \in CheckType /\ Sane(entry, Unchecked, End(seals), FALSE)
  <2>1. End(seals) \in Nat
    BY <1>1, <1>8
  <2> QED BY <2>1, UncheckedIsSane
<1>11. tampered = FALSE /\ \A a \in Auditors : check[a] = Unchecked
  BY <1>2
<1>12. LedgerTyped
  BY <1>2, <1>8, <1>10 DEF LedgerTyped
<1>13. SealsTell
  BY <1>8, <1>11 DEF SealsTell
<1> QED BY <1>9, <1>10, <1>11, <1>12, <1>13 DEF Vouched

LEMMA StepVouches ==
    ASSUME Lawful, Lawful', Vouched, NEW r \in Requests, RequestStep(r) PROVE Vouched'
<1> USE DEF ledgerVars
<1>1. entry \in Seq(Entries) /\ entry' \in Seq(Entries)
  BY DEF Lawful, Typed
<1>2. ASSUME NEW earned \in 0 .. Burst, Authenticate(r, earned) PROVE Vouched'
  BY <1>2, NothingVouches DEF Authenticate
<1>3. ASSUME NEW minutePassed \in BOOLEAN, Sample(r, minutePassed) PROVE Vouched'
  BY <1>3, NothingVouches DEF Sample
<1>4. CASE FindSession(r)
  BY <1>4, NothingVouches DEF FindSession
<1>5. CASE Resolve(r) \/ ResolveFails(r)
  BY <1>5, NothingVouches DEF Resolve, ResolveFails
<1>6. CASE ResolveSession(r) \/ Act(r)
  BY <1>6, NothingVouches DEF ResolveSession, Act
<1>7. CASE CheckActive(r) \/ Admit(r)
  BY <1>7, NothingVouches DEF CheckActive, Admit
<1>8. CASE Malformed(r) \/ Read(r) \/ Change(r)
  BY <1>8, NothingVouches DEF Malformed, Read, Change
<1>9. CASE SetSuspended(r) \/ RevokeCredential(r) \/ CheckProject(r) \/ Mint(r)
  BY <1>9, NothingVouches DEF SetSuspended, RevokeCredential, CheckProject, Mint
<1>10. CASE Preview(r) \/ TellVerdict(r)
  BY <1>10, NothingVouches DEF Preview, TellVerdict
<1>11. CASE OpenStore(r) \/ GoOnWriting(r) \/ AppendRow(r)
  <2>1. \E row, first : Draw(row, first)
    BY <1>11 DEF OpenStore, GoOnWriting, AppendRow
  <2> QED BY <1>1, <2>1, DrawVouches
<1>12. CASE CommitStore(r) \/ AbortStore(r) \/ RowKept(r) \/ RowLost(r)
  <2>1. (\E numbers : Settle(numbers, "kept") \/ Settle(numbers, "lost")) \/ UNCHANGED ledgerVars
    BY <1>12 DEF CommitStore, AbortStore, RowKept, RowLost
  <2>2. CASE UNCHANGED ledgerVars
    BY <2>2, NothingVouches
  <2>3. ASSUME NEW numbers, Settle(numbers, "kept") \/ Settle(numbers, "lost") PROVE Vouched'
    BY <1>1, <2>3, SettleVouches
  <2> QED BY <2>1, <2>2, <2>3
<1>13. CASE AskSeal(r) \/ GiveUpSeal(r)
  BY <1>13, NothingVouches DEF AskSeal, GiveUpSeal, WaitToSeal, LeaveQueue
<1>14. CASE Seal(r)
  BY <1>1, <1>14, SealingVouches DEF Seal
<1>15. CASE StartVerify(r)
  BY <1>1, <1>15, ReadingVouches DEF StartVerify
<1>16. CASE VerifySeal(r)
  BY <1>1, <1>16, CheckingVouches DEF VerifySeal
<1>17. CASE VerifyRest(r)
  BY <1>1, <1>17, CountingVouches DEF VerifyRest
<1>18. CASE VerifyFails(r)
  BY <1>18, AbandoningVouches DEF VerifyFails
<1> QED BY <1>2, <1>3, <1>4, <1>5, <1>6, <1>7, <1>8, <1>9, <1>10, <1>11, <1>12, <1>13, <1>14, <1>15,
       <1>16, <1>17, <1>18 DEF RequestStep

LEMMA OtherStepsVouch ==
    ASSUME Lawful, Lawful', Vouched,
           \/ \E c \in Credentials : CommandLineRevokes(c) \/ SessionEnds(c)
           \/ \E p \in Projects : CommandLineSuspends(p)
           \/ DriverAsks \/ DriverSeals \/ AnotherCommits \/ Alter \/ Finished
           \/ UNCHANGED vars
    PROVE  Vouched'
<1>1. entry \in Seq(Entries) /\ entry' \in Seq(Entries)
  BY DEF Lawful, Typed
<1>2. CASE \/ \E c \in Credentials : CommandLineRevokes(c) \/ SessionEnds(c)
           \/ \E p \in Projects : CommandLineSuspends(p)
  BY <1>2, NothingVouches DEF CommandLineRevokes, SessionEnds, CommandLineSuspends, ledgerVars
<1>3. CASE DriverAsks
  BY <1>3, NothingVouches DEF DriverAsks, WaitToSeal
<1>4. CASE DriverSeals
  BY <1>1, <1>4, SealingVouches DEF DriverSeals
<1>5. CASE AnotherCommits
  BY <1>1, <1>5, SettleVouches DEF AnotherCommits
<1>6. CASE Alter
  BY <1>1, <1>6, TamperVouches DEF Alter
<1>7. CASE Finished \/ UNCHANGED vars
  BY <1>7, NothingVouches DEF Finished, vars, ledgerVars
<1> QED BY <1>2, <1>3, <1>4, <1>5, <1>6, <1>7

\* The invariant of seals and verifications: nothing below the last seal is open, the seals are a
\* chain over all of it until somebody alters the ledger and disagree with it from then on, and
\* a verification has counted what lies under the place it has come to.
THEOREM VouchedInvariant == Spec => []Vouched
<1>1. Init => Vouched
  BY InitIsVouched
<1>2. Lawful /\ Lawful' /\ Vouched /\ [Next]_vars => Vouched'
  BY StepVouches, OtherStepsVouch DEF Next
<1> QED BY <1>1, <1>2, LawfulInvariant, PTL DEF Spec

\* A verification accuses only a ledger that was altered, clears none that had been altered when
\* it began, and claims no more rows than the ledger held, whatever is written and sealed
\* between its statements.
THEOREM VerificationsAreHonest == Spec => []VerificationIsHonest
<1>1. Vouched => VerificationIsHonest
  BY DEF Vouched, Sane, VerificationIsHonest
<1> QED BY <1>1, VouchedInvariant, PTL
=============================================================================
