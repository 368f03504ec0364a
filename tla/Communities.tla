----------------------------- MODULE Communities -----------------------------
(***************************************************************************)
(* The subjects of a project and the reports written about them:           *)
(* formation/subjects.go (the pass), infra/pg/communitystore.go (its       *)
(* store), report/report.go (what a report is written from), SQL 0031 (a   *)
(* report follows the facts of its sources) and 0060 (and its writer).     *)
(*                                                                         *)
(* A pass reads the graph, replaces the stored partition, asks which       *)
(* communities have no report of this deployment's writer, and writes a    *)
(* few of them from what it reads in several queries and a model call.     *)
(* Several passes run at once (a worker's, another replica's, an           *)
(* operator's `rebuild reports`) while turns form, are withdrawn, rebuilt  *)
(* and erased.  Each turn here states one relation between two entities;   *)
(* how a graph is partitioned is a parameter, and module Leiden its value. *)
(***************************************************************************)
EXTENDS Integers, Sequences, FiniteSets, FiniteSetsExt, Functions

CONSTANTS
    Turn,          \* source observations, numbered: facts are read in their order
    Early,         \* turns formed before the first pass, under an earlier version
    Ends,          \* Turn -> the two entities its relation joins
    Person,        \* Turn -> whose turn it is
    Formed,        \* what Build makes of each set of edges (module Leiden)
    Pass,          \* processes that run the subject pass
    Limit,         \* Pass -> communities it takes up at a time: ReportsPerPass, or an operator's --limit
    FactSize, ReportSize, Budget,   \* what a context may hold (report.go)
    Late,          \* passes whose deployment is still to be upgraded
    Frail,         \* passes of processes that nobody restarts (an operator's command)
    MaxEdits       \* bound: withdrawals and erasures

ASSUME CommunitiesAssumption ==
    /\ Turn \subseteq Nat /\ IsFiniteSet(Turn) /\ Early \subseteq Turn
    /\ \A t \in Turn : Ends[t] \subseteq Nat /\ Cardinality(Ends[t]) = 2
    /\ Limit \in [Pass -> Nat \ {0}] /\ {FactSize, ReportSize, Budget} \subseteq Nat
    /\ Late \cup Frail \subseteq Pass /\ MaxEdits \in Nat
    \* a subject has members, and one below the top is part of its parent
    /\ \A f \in Formed : \A c \in f.subjects :
         /\ c.level \in Nat /\ c.members # {} /\ (c.level = 0) = (c.parent = {})
         /\ c.level > 0 => c.members \subseteq c.parent

VARIABLES
    said,       \* [Turn -> the state of its fact]
    revision,   \* [Turn -> observation.fact_revision]
    community,  \* the rows of community with their members
    report,     \* [identity -> its community_report and registrations], partial
    writer,     \* [Pass -> the identity of the writer its deployment runs]
    pass,       \* [Pass -> where the pass is and what it holds]
    edits

vars == <<said, revision, community, report, writer, pass, edits>>
facts == <<said, revision>>

Current == {t \in Turn : said[t] = "current"}

\* Identity: a level and a set of members.
Identity(c) == [level |-> c.level, members |-> c.members]
Identities(cs) == {Identity(c) : c \in cs}

\* What Graph reads: the relations of the current turns, counted by pair.
Edges(turns) ==
    {[source |-> Min(e), target |-> Max(e),
      weight |-> Cardinality({t \in turns : Ends[t] = e})] : e \in {Ends[t] : t \in turns}}

\* Build, over the graph of some turns.
Hierarchy(turns) == UNION {f.subjects : f \in {g \in Formed : g.edges = Edges(turns)}}

Idle == [at |-> "idle"]

Init ==
    /\ said = [t \in Turn |-> IF t \in Early THEN "current" ELSE "unsaid"]
    /\ revision = [t \in Turn |-> 1]
    /\ community = {}
    /\ report = <<>>
    /\ writer = [p \in Pass |-> IF p \in Late THEN 1 ELSE 2]
    /\ pass = [p \in Pass |-> Idle]
    /\ edits = 0

(***************************************************************************)
(* What changes the facts.  invalidate_fact_reports: every change of a     *)
(* fact or of its evidence raises the source's revision and deletes every  *)
(* report registered to the source.                                        *)
(***************************************************************************)
Without(turns) ==
    Restrict(report, {id \in DOMAIN report : DOMAIN report[id].sources \cap turns = {}})
Touch(turns, to) ==
    /\ said' = [t \in Turn |-> IF t \in turns THEN to ELSE said[t]]
    /\ revision' = [t \in Turn |-> revision[t] + IF t \in turns THEN 1 ELSE 0]
    /\ report' = Without(turns)
Edit(turns, to, cost) ==
    /\ edits + cost <= MaxEdits
    /\ edits' = edits + cost
    /\ Touch(turns, to)
    /\ UNCHANGED <<community, writer, pass>>

\* A worker forms a turn and then runs the pass over its project.
Form(p, t) ==
    /\ pass[p] = Idle /\ said[t] = "unsaid"
    /\ Touch({t}, "current")
    /\ pass' = [pass EXCEPT ![p] = [at |-> "graph"]]
    /\ UNCHANGED <<community, writer, edits>>

\* A retraction, correction or supersession closes the fact; a rebuild states
\* it again; an erasure deletes a person's turns with all that was made of them.
Withdraw(t) == said[t] = "current" /\ Edit({t}, "withdrawn", 1)
Rebuild(t) == said[t] = "withdrawn" /\ Edit({t}, "current", 0)
Erase(who) ==
    LET theirs == {t \in Turn : Person[t] = who /\ said[t] \in {"current", "withdrawn"}}
    IN  theirs # {} /\ Edit(theirs, "erased", 1)

\* A deployment whose report prompt or model changed stops its process and
\* starts another.
Upgrade(p) ==
    /\ writer[p] = 1
    /\ writer' = [writer EXCEPT ![p] = 2]
    /\ pass' = [pass EXCEPT ![p] = Idle]
    /\ UNCHANGED <<facts, community, report, edits>>

(***************************************************************************)
(* The pass.                                                               *)
(***************************************************************************)
\* Mutant: any report will do, whoever wrote it.
OwedNothingWritten(p) == {c \in community : Identity(c) \notin DOMAIN report}

Owed(p) ==
    {c \in community : ~(Identity(c) \in DOMAIN report /\ report[Identity(c)].by = writer[p])}

At(p, where) == pass[p].at = where
Goto(p, state) ==
    /\ pass' = [pass EXCEPT ![p] = state]
    /\ UNCHANGED <<facts, writer, edits>>

\* The driver visits a project in which it formed a turn or that owes a report;
\* an operator may, too.  Run reads the graph and partitions it, and without a
\* relation it returns.
ReadGraph(p) ==
    /\ At(p, "graph") \/ (pass[p] = Idle /\ Owed(p) # {})
    /\ Goto(p, IF Current = {} THEN Idle ELSE [at |-> "replace", h |-> Hierarchy(Current)])
    /\ UNCHANGED <<community, report>>

\* Replace's DELETE sees the rows committed when it starts, and removes them
\* when its transaction commits.
Replace(p) ==
    /\ At(p, "replace")
    /\ Goto(p, [at |-> "store", h |-> pass[p].h,
                gone |-> Identities(community) \ Identities(pass[p].h)])
    /\ UNCHANGED <<community, report>>

\* The upserts and the commit; reports of deleted communities go by cascade.
\* A row that is stored anew is not one that another DELETE has seen.
Store(p) ==
    /\ At(p, "store")
    /\ LET h == pass[p].h
           new == Identities(h) \ Identities(community)
       IN  /\ community' = {c \in community : Identity(c) \notin pass[p].gone \cup Identities(h)}
                              \cup h
           /\ report' = Restrict(report, DOMAIN report \ pass[p].gone)
           /\ pass' = [q \in Pass |->
                IF q = p THEN [at |-> "select"]
                ELSE IF At(q, "store")
                     THEN [at |-> "store", h |-> pass[q].h, gone |-> pass[q].gone \ new]
                ELSE pass[q]]
    /\ UNCHANGED <<facts, writer, edits>>

\* Two transactions that each delete a row the other stores may wait for each
\* other: the database fails one, and its pass ends with the error.
Abort(p) ==
    /\ \E q \in Pass \ {p} :
         /\ At(p, "store") /\ At(q, "store")
         /\ pass[p].gone \cap Identities(pass[q].h) # {}
         /\ pass[q].gone \cap Identities(pass[p].h) # {}
    /\ Goto(p, Idle)
    /\ UNCHANGED <<community, report>>

\* Unwritten: deepest first, then by identity, which is a hash: here the
\* members read as a binary number.
Number(set) == MapThenSumSet(LAMBDA n : 2 ^ n, set)
Before(c, d) ==
    c.level > d.level \/ (c.level = d.level /\ Number(c.members) < Number(d.members))
First(cs, limit) ==
    [i \in 1 .. Min({limit, Cardinality(cs)}) |->
       CHOOSE c \in cs : Cardinality({d \in cs : Before(d, c)}) = i - 1]

Onward(todo) == IF todo = <<>> THEN Idle ELSE [at |-> "facts", todo |-> todo]

Select(p) ==
    /\ At(p, "select")
    /\ Goto(p, Onward(First(Owed(p), Limit[p])))
    /\ UNCHANGED <<community, report>>

\* Material: the current facts with both ends among the members, each with
\* the revision its source has now.
Among(members) == {t \in Current : Ends[t] \subseteq members}
Material(members) == [t \in Among(members) |-> revision[t]]

\* A community with no relation among its members is a failure, and the next
\* one of the page is tried.
ReadFacts(p) ==
    /\ At(p, "facts")
    /\ LET c == Head(pass[p].todo)
       IN  Goto(p, IF Among(c.members) = {} THEN Onward(Tail(pass[p].todo))
                   ELSE [at |-> "kids", todo |-> pass[p].todo, facts |-> Material(c.members)])
    /\ UNCHANGED <<community, report>>

\* children: for each child, what belongs to it and the report it has.
Kids(c) == {Identity(d) : d \in {d \in community : d.level > 0 /\ d.parent = c.members
                                                   /\ d.level = c.level + 1}}

(***************************************************************************)
(* BuildContext.  While the facts do not fit, the child with the most      *)
(* material that has a report is replaced by it; then facts are dropped    *)
(* from the end.                                                           *)
(***************************************************************************)
Context(material, owned, reports) ==
    LET Kept(out) == DOMAIN material \ UNION {owned[k] : k \in out}
        Fits(n, out) == FactSize * n + ReportSize * Cardinality(out) <= Budget
        Larger(k, l) == \/ Cardinality(owned[k]) > Cardinality(owned[l])
                        \/ /\ Cardinality(owned[k]) = Cardinality(owned[l])
                           /\ Number(k.members) < Number(l.members)
        replaced[i \in 0 .. Cardinality(DOMAIN reports)] ==
          IF i = 0 THEN {}
          ELSE LET out == replaced[i - 1]
                   left == DOMAIN reports \ out
               IN  IF FactSize * Cardinality(Kept(out)) <= Budget THEN out
                   ELSE out \cup {CHOOSE k \in left : \A l \in left \ {k} : Larger(k, l)}
        out == replaced[Cardinality(DOMAIN reports)] \cap DOMAIN reports
        kept == Kept(out)
        fit == {n \in 0 .. Cardinality(kept) : Fits(n, out)}
        held == {t \in kept : Cardinality({u \in kept : u < t}) < Max(fit \cup {0})}
    IN  [facts |-> Restrict(material, held), children |-> Restrict(reports, out)]

ReadKids(p) ==
    /\ At(p, "kids")
    /\ LET kids == Kids(Head(pass[p].todo))
           written == Restrict(report, kids \cap DOMAIN report)
           owned == [k \in kids |-> Among(k.members)]
       IN  Goto(p, [at |-> "write", todo |-> pass[p].todo,
                    context |-> Context(pass[p].facts, owned, written)])
    /\ UNCHANGED <<community, report>>

(***************************************************************************)
(* Write: the sources of the facts and of the substituted children, each   *)
(* at one revision and still at it under the lock; a report of the same    *)
(* writer stays; one of another writer is replaced and keeps what it was   *)
(* registered to.                                                          *)
(***************************************************************************)
Sources(c) ==
    {<<t, c.facts[t]>> : t \in DOMAIN c.facts} \cup
    UNION {{<<t, c.children[k].sources[t]>> : t \in DOMAIN c.children[k].sources} :
             k \in DOMAIN c.children}
\* Mutant: only that the sources still exist.
AvailableUnrevised(sources) ==
    sources # {} /\ \A s \in sources : said[s[1]] # "erased"

Available(sources) ==
    sources # {} /\ \A s \in sources : said[s[1]] # "erased" /\ revision[s[1]] = s[2]
Text(c) == DOMAIN c.facts \cup UNION {c.children[k].text : k \in DOMAIN c.children}

Storable(p, id, sources) ==
    /\ Available(sources)
    /\ id \in Identities(community)
    /\ ~(id \in DOMAIN report /\ report[id].by = writer[p])

Write(p) ==
    /\ At(p, "write")
    /\ LET id == Identity(Head(pass[p].todo))
           c == pass[p].context
           sources == Sources(c)
           old == IF id \in DOMAIN report THEN DOMAIN report[id].sources ELSE {}
           registered == [t \in old \cup {s[1] : s \in sources} |->
                            IF t \in old THEN report[id].sources[t] ELSE revision[t]]
       IN  report' = IF Storable(p, id, sources)
                     THEN [r \in DOMAIN report \cup {id} |->
                             IF r = id THEN [by |-> writer[p], text |-> Text(c), sources |-> registered]
                             ELSE report[r]]
                     ELSE report
    /\ Goto(p, Onward(Tail(pass[p].todo)))
    /\ UNCHANGED community

\* The model fails, or answers what validate refuses.
Fail(p) ==
    /\ At(p, "write")
    /\ Goto(p, Onward(Tail(pass[p].todo)))
    /\ UNCHANGED <<community, report>>

\* The process dies; an open transaction rolls back.
Crash(p) ==
    /\ p \in Frail /\ pass[p] # Idle
    /\ Goto(p, Idle)
    /\ UNCHANGED <<community, report>>

Step(p) ==
    \/ ReadGraph(p) \/ Replace(p) \/ Store(p) \/ Abort(p)
    \/ Select(p) \/ ReadFacts(p) \/ ReadKids(p) \/ Write(p)

Next ==
    \/ \E p \in Pass : Step(p) \/ Fail(p) \/ Crash(p) \/ Upgrade(p)
    \/ \E p \in Pass, t \in Turn : Form(p, t)
    \/ \E t \in Turn : Withdraw(t) \/ Rebuild(t)
    \/ \E who \in {Person[t] : t \in Turn} : Erase(who)

Spec == Init /\ [][Next]_vars

\* A transaction that is open ends, by its commit, by the database or with its
\* process; a worker's pass goes on, and every deployment comes to be upgraded.
Ended(p) == Store(p) \/ Abort(p) \/ (At(p, "store") /\ Crash(p))
FairSpec ==
    /\ Spec
    /\ \A p \in Pass \ Frail : WF_vars(Step(p)) /\ SF_vars(Write(p)) /\ WF_vars(Upgrade(p))
    /\ \A p \in Frail : WF_vars(Ended(p))

(***************************************************************************)
(* Properties.                                                             *)
(***************************************************************************)
TypeOK ==
    /\ said \in [Turn -> {"unsaid", "current", "withdrawn", "erased"}]
    /\ revision \in [Turn -> 1 .. 2 * MaxEdits + 2]
    /\ \A c \in community : c.level \in Nat /\ c.members # {} /\ (c.level = 0) = (c.parent = {})
    /\ DOMAIN report \subseteq Identities(community)
    /\ \A id \in DOMAIN report : /\ report[id].by \in {1, 2}
                                 /\ report[id].text \subseteq DOMAIN report[id].sources
    /\ writer \in [Pass -> {1, 2}]
    /\ edits \in 0 .. MaxEdits

\* What has been withdrawn, rebuilt or erased is in no report, however it got
\* into one: from the facts of the community, or through a child's report that
\* was read before the change and stored after it.
NoReportTellsTheWithdrawn ==
    \A id \in DOMAIN report : \A t \in DOMAIN report[id].sources :
       said[t] = "current" /\ report[id].sources[t] = revision[t]

\* A report tells only of relations among the members of its community, also
\* while two passes store partitions of different graphs.
ReportsTellOfTheirOwn ==
    \A id \in DOMAIN report : \A t \in report[id].text : Ends[t] \subseteq id.members

\* The entities of every subject that a pass finds hold together: relations
\* of the graph it read join them, also after its coarsest partition.
SubjectsHoldTogether ==
    [][\A p \in Pass : At(p, "replace")' /\ ~At(p, "replace") =>
         \A c \in pass'[p].h : \A part \in (SUBSET c.members) \ {{}, c.members} :
            \E t \in Current : Ends[t] \subseteq c.members /\ Ends[t] \cap part \notin {{}, Ends[t]}]_vars

\* A community with no relation among its members stays owing: as many of them as a pass takes up
\* at a time, ahead in its order, leave no room for the ones after them.
Crowded(p, c) ==
    Cardinality({d \in community : Among(d.members) = {} /\ Before(d, c)}) >= Limit[p]

\* Once nothing changes, every stored community that has a relation among its members, and is not
\* crowded out, comes to have a report by the running writer, and keeps it.
EverySubjectIsDescribed ==
    <>[](\A p \in Pass \ Frail : \A c \in community :
           \/ Among(c.members) = {} \/ Crowded(p, c)
           \/ Identity(c) \in DOMAIN report /\ report[Identity(c)].by = writer[p])
=============================================================================
