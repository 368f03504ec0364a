------------------------------- MODULE Recall -------------------------------
(***************************************************************************)
(* Answering a question from memory (src/internal/recall over              *)
(* src/internal/infra/pg/recallstore.go): names in the question become     *)
(* anchors, a walk from the anchors collects facts, and community reports  *)
(* and source passages fill what the caller's budget has left.             *)
(*                                                                         *)
(* Each surface is a database statement of its own, so the store changes   *)
(* between them: formation, withdrawals, erasure and the end of retention  *)
(* are the other actions.  A writer reads its clock before it commits.     *)
(* What a question is about by meaning (similarity of embeddings) is any   *)
(* order over what the statement may return.                               *)
(***************************************************************************)
EXTENDS Integers, FiniteSets, SequencesExt, FiniteSetsExt, Functions, TLC

CONSTANTS
    Sources,        \* messages: [id, scope, role, person, dated, size]
    Entities,       \* [id, scope, kind, name, person, size]: `named', or the `speaker' entity of a
                    \* person, and the length of its name
    Claims,         \* what formation may read in a message:
                    \* [id, src, from, pred, label, to, at, size], with entities of the source's
                    \* scope, the length of the relation's name and that of the whole fact
    Reports,        \* community reports: [id, scope, parent, size]
    Single,         \* the relations of cardinality one
    Requests,       \* [scopes, names, roles, person, hops, surfaces, themes, budget, valid]
    None,
    Fanout,         \* facts followed out of one entity in one direction
    MaxRows,        \* facts one answer may hold
    MaxMatches,     \* names one question may match
    MaxSemanticAnchors, MaxReportHits, MaxReportChildren, MaxPassageHits,
    Learned,        \* the claims already recorded, of slots apart
    Remembered,     \* bound: the requests an earlier answer to which is kept for the properties
    MaxWrites,      \* bound: transactions that change what is known
    MaxErasures     \* bound: sources erased

AllSurfaces == {"facts", "reports", "passages"}
Instants == 1 .. MaxWrites + 1
Never == MaxWrites + 2

VARIABLES
    alive,      \* sources whose observation is held
    rows,       \* table fact: a claim, when it is true, when it is known, and who ended it
    past,       \* table fact_history: what a row said before it was superseded
    clock,
    writer,     \* a write that has its timestamp and has not committed, or None
    lapsed,     \* the retention of the dated sources has ended
    answer,     \* the recall under way, and the bundle it is composing
    told        \* an earlier answer about the present, given while nothing was being written

store == <<alive, rows, past, clock, writer, lapsed>>
vars == <<alive, rows, past, clock, writer, lapsed, answer, told>>

-----------------------------------------------------------------------------
(* The walk                                                                *)

\* What a statement selects of a fact: what it says, and when that is true.
Version(x) == [c |-> x.c, vf |-> x.vf, vt |-> x.vt]

BelievedOfLiveRows(known) ==
    {Version(x) : x \in {y \in rows : IF known = None THEN y.kt = Never
                                     ELSE y.kf <= known /\ known < y.kt}}

\* The versions the question is about: the open ones, or those believed at an instant.
Believed(known) ==
    {Version(x) : x \in IF known = None THEN {y \in rows : y.kt = Never}
                        ELSE {y \in rows \cup past : y.kf <= known /\ known < y.kt}}

Holds(x, valid) == IF valid = None THEN x.vt = Never ELSE x.vf <= valid /\ valid < x.vt

Retained(s) == ~(lapsed /\ s.dated)

\* Whose words the caller may be given.
Admits(q, s) == s.scope \in ToSet(q.scopes) /\ s.role \in q.roles /\ q.person \in {None, s.person}

Visible(q, known) ==
    {x \in Believed(known) : Holds(x, q.valid) /\ Admits(q, x.c.src) /\ Retained(x.c.src)}

FirstById(S, n) == {x \in S : Cardinality({y \in S : y.c.id < x.c.id}) < n}

EdgesCutBeforeFilters(q, known, e) ==
    LET near == FirstById({y \in Believed(known) : y.c.from = e}, Fanout)
                \cup FirstById({y \in Believed(known) : y.c.to = e}, Fanout)
        seen == Visible(q, known) \cap near
    IN {<<x, x.c.to>> : x \in {y \in seen : y.c.from = e}}
       \cup {<<x, x.c.from>> : x \in {y \in seen : y.c.to = e}}

\* The facts read out of an entity, each with its other end: every filter is applied before the limit.
Edges(q, known, e) ==
    LET seen == Visible(q, known)
    IN {<<x, x.c.to>> : x \in FirstById({y \in seen : y.c.from = e}, Fanout)}
       \cup {<<x, x.c.from>> : x \in FirstById({y \in seen : y.c.to = e}, Fanout)}

StepsOfAnyone(q, known, w) ==
    LET whose == IF w.via = << >> THEN q ELSE [q EXCEPT !.person = None]
    IN {[anchor |-> w.anchor, path |-> Append(w.path, s[2]), via |-> Append(w.via, s[1])] :
        s \in {t \in Edges(whose, known, Last(w.path)) : t[2] # None /\ t[2] \notin ToSet(w.path)}}

Steps(q, known, w) ==
    {[anchor |-> w.anchor, path |-> Append(w.path, s[2]), via |-> Append(w.via, s[1])] :
        s \in {t \in Edges(q, known, Last(w.path)) : t[2] # None /\ t[2] \notin ToSet(w.path)}}

Seeds(anchors) == {[anchor |-> e, path |-> <<e>>, via |-> << >>] : e \in anchors}

\* All walks of one to q.hops steps.
Walks(q, known, anchors) ==
    LET one == UNION {Steps(q, known, w) : w \in Seeds(anchors)}
    IN one \cup IF q.hops < 2 THEN {} ELSE UNION {Steps(q, known, w) : w \in one}

Hops(w) == Len(w.via)
Found(w) == Last(w.via)

\* DISTINCT ON (fact_id) ... ORDER BY fact_id, hops: one of the shortest walks to each fact.
Shortest(walks) == {w \in walks : \A v \in walks : Found(v) = Found(w) => Hops(w) <= Hops(v)}

Before(v, w) ==
    \/ Hops(v) < Hops(w)
    \/ Hops(v) = Hops(w) /\ Found(v).c.pred < Found(w).c.pred
    \/ Hops(v) = Hops(w) /\ Found(v).c.pred = Found(w).c.pred /\ Found(v).c.id < Found(w).c.id

\* Every ordered answer the statement may give: which of the shortest walks leads to a fact is open.
FactLists(q, known, anchors) ==
    LET best == Shortest(Walks(q, known, anchors))
        facts == {Found(w) : w \in best}
        place == [w \in best |-> Cardinality({Found(v) : v \in {u \in best : Before(u, w)}}) + 1]
    IN {list \in [1 .. Cardinality(facts) -> best] : \A i \in DOMAIN list : place[list[i]] = i}

-----------------------------------------------------------------------------
(* The bundle                                                              *)

\* A fact found beyond the first step is given with the chain that leads to it: the names on the
\* way and the relations.  It is charged too, so what a fact costs depends on the walk kept.
Chain(w) ==
    IF Hops(w) < 2 THEN 0
    ELSE w.path[1].size + w.path[2].size + w.path[3].size + w.via[1].c.label + w.via[2].c.label

Size(x) == IF "via" \in DOMAIN x THEN Found(x).c.size + Chain(x) ELSE x.size

ASSUME RecallAssumption ==
    /\ {Fanout, MaxRows, MaxMatches, MaxReportHits, MaxReportChildren, MaxPassageHits, MaxWrites}
          \subseteq Nat
    /\ None \notin Int /\ None \notin Entities
    /\ IsFiniteSet(Claims) /\ Learned \subseteq Claims
    /\ \A c \in Claims : /\ {c.id, c.pred} \subseteq Int /\ {c.label, c.size} \subseteq Nat
                         /\ c.from \in Entities /\ c.to \in Entities \cup {None}
    /\ \A c, d \in Claims : c.id = d.id => c = d
    /\ \A e \in Entities : e.size \in Nat
    /\ \A x \in Sources \cup Reports : Size(x) \in Nat
    /\ \A r, s \in Reports : r.parent = s.id => r.scope = s.scope
    /\ \A q \in Requests : /\ q.scopes \in Seq(Range(q.scopes)) /\ IsInjective(q.scopes)
                           /\ q.budget \in Nat /\ q.hops \in 1 .. 2

Cost(items) == FoldLeft(LAMBDA n, x : n + Size(x), 0, items)

\* The longest prefix the budget has room for.
Fitting(items, left) ==
    SubSeq(items, 1, Max({n \in 0 .. Len(items) : Cost(SubSeq(items, 1, n)) <= left}))

Empty == [anchors |-> {}, meant |-> {}, facts |-> << >>, reports |-> << >>, passages |-> << >>,
          truncated |-> FALSE, degraded |-> {}, spent |-> 0]

NoAnswer == [at |-> "idle"]
Wants(q, surface) == surface \in IF q.surfaces = None THEN AllSurfaces ELSE q.surfaces

\* A surface that cannot be consulted is named when the caller asked for surfaces by name.
Unavailable(b, q, name) ==
    IF q.surfaces = None THEN b ELSE [b EXCEPT !.degraded = @ \cup {name}]

ChargeAfresh(b, q, field, hits) ==
    LET kept == Fitting(hits, q.budget)
    IN [b EXCEPT ![field] = @ \o kept,
                 !.spent = @ + Cost(kept),
                 !.truncated = @ \/ Len(kept) < Len(hits)]

\* Put a surface's hits after what the bundle already holds and charge them to the same budget.
Charge(b, q, field, hits) ==
    LET kept == Fitting(hits, q.budget - b.spent)
    IN [b EXCEPT ![field] = @ \o kept,
                 !.spent = @ + Cost(kept),
                 !.truncated = @ \/ Len(kept) < Len(hits)]

Continue(next, b, left) == answer' = [answer EXCEPT !.at = next, !.bundle = b, !.left = left]

\* Facts of one message about one subject are one person saying one thing once: each names the
\* others, of those the caller is given.
CoDerived(facts) ==
    LET given == {Found(w).c : w \in Range(facts)}
    IN [c \in given |-> {d \in given \ {c} : d.src = c.src /\ d.from = c.from}]

RInit ==
    /\ alive = Sources
    /\ rows = {[c |-> c, vf |-> c.at, vt |-> Never, kf |-> 1, kt |-> Never, by |-> None] : c \in Learned}
    /\ past = {}
    /\ clock = 1
    /\ writer = None
    /\ lapsed = FALSE
    /\ answer = NoAnswer
    /\ told = None

-----------------------------------------------------------------------------
(* What changes the store (ClaimStore has it in detail)                    *)

Registered(e, person) == \E x \in rows : e \in {x.c.from, x.c.to} /\ x.c.src.person = person
Exists(e) == \E x \in rows : e \in {x.c.from, x.c.to}
Slot(c) == <<c.from, c.pred>>
Live(c) == {x \in rows : x.c = c /\ x.kt = Never}

\* Reports and passages do not read the fact table, and nothing reads a finished bundle: a write
\* interleaves with what comes before them, an erasure or an expiry with all but the last.
FactsUnread == answer.at \in {"idle", "anchors", "propose", "facts"}

StartWrite(kind, c) ==
    /\ FactsUnread
    /\ writer = None
    /\ clock <= MaxWrites
    /\ c.src \in alive
    /\ IF kind = "assert" THEN \A x \in rows : x.c # c ELSE Live(c) # {}
    /\ clock' = clock + 1
    /\ writer' = [kind |-> kind, c |-> c, at |-> clock + 1]
    /\ UNCHANGED <<alive, rows, past, lapsed, answer, told>>

\* A later value of a relation that holds one ends the earlier value and keeps what was believed;
\* a value that would overlap another is refused.
Superseded(c) ==
    {x \in rows : c.pred \in Single /\ Slot(x.c) = Slot(c) /\ x.kt = Never /\ x.vt = Never
                  /\ x.vf < c.at}
Refused(c) ==
    \E x \in rows \ Superseded(c) : c.pred \in Single /\ Slot(x.c) = Slot(c) /\ x.kt = Never
                                    /\ c.at < x.vt

CommitAssert ==
    LET c == writer.c
        ended == Superseded(c)
    IN /\ FactsUnread
       /\ writer # None
       /\ writer.kind = "assert"
       /\ writer' = None
       /\ IF Refused(c)
          THEN UNCHANGED <<rows, past>>
          ELSE /\ rows' = (rows \ ended)
                          \cup {[x EXCEPT !.vt = c.at, !.kf = writer.at, !.by = c.src] : x \in ended}
                          \cup {[c |-> c, vf |-> c.at, vt |-> Never, kf |-> writer.at, kt |-> Never,
                                 by |-> None]}
               /\ past' = past \cup {[x EXCEPT !.kt = writer.at, !.by = c.src] : x \in ended}
       /\ UNCHANGED <<alive, clock, lapsed, answer, told>>

CommitRetract ==
    /\ FactsUnread
    /\ writer # None
    /\ writer.kind = "retract"
    /\ writer' = None
    /\ rows' = (rows \ Live(writer.c)) \cup {[x EXCEPT !.kt = writer.at] : x \in Live(writer.c)}
    /\ UNCHANGED <<alive, past, clock, lapsed, answer, told>>

\* An erased source takes what it said and what it ended; nothing is promised of earlier answers.
Erase(s) ==
    LET gone == {x.c : x \in {y \in rows : y.c.src = s \/ y.by = s}}
    IN /\ answer.at # "done"
       /\ s \in alive
       /\ Cardinality(Sources \ alive) < MaxErasures
       /\ writer = None
       /\ alive' = alive \ {s}
       /\ rows' = {x \in rows : x.c \notin gone}
       /\ past' = {x \in past : x.c \notin gone}
       /\ told' = None
       /\ UNCHANGED <<clock, writer, lapsed, answer>>

Lapse ==
    /\ answer.at # "done"
    /\ ~lapsed
    /\ lapsed' = TRUE
    /\ told' = None
    /\ UNCHANGED <<alive, rows, past, clock, writer, answer>>

-----------------------------------------------------------------------------
(* Answering                                                               *)

\* RecallWithControls has refused repeated, unknown or empty selections and a budget above the
\* server's; a question with no authorised project is answered at once.  `semantic' says whether
\* the deployment has embeddings to search.  Once an answer is kept, it is what is asked again.
Ask(q, known, semantic) ==
    /\ answer = NoAnswer
    /\ IF told = None THEN known = None ELSE q = told.q /\ known = told.asked
    /\ answer' = [at |-> IF q.scopes = << >> THEN "done" ELSE "anchors", q |-> q, known |-> known,
                  semantic |-> semantic, asked |-> clock, unmatched |-> TRUE, left |-> q.scopes,
                  from |-> {}, bundle |-> Empty]
    /\ UNCHANGED <<store, told>>

\* What follows the facts: reports if they are wanted and the question named nothing or asked for
\* themes, then passages while the budget is not spent.
Surface(b, unmatched) ==
    LET q == answer.q
        reports == Wants(q, "reports") /\ (q.themes \/ unmatched)
        withheld == [b EXCEPT !.degraded = @ \cup {"reports_withheld_for_subject"}]
        after == IF reports /\ q.person # None THEN withheld
                 ELSE IF reports /\ ~answer.semantic THEN Unavailable(b, q, "reports") ELSE b
    IN IF reports /\ q.person = None /\ answer.semantic THEN [next |-> "reports", b |-> b]
       ELSE [next |-> "passages", b |-> after]

Rest(b, unmatched) ==
    answer' = [answer EXCEPT !.at = Surface(b, unmatched).next, !.bundle = Surface(b, unmatched).b,
                             !.unmatched = unmatched, !.left = answer.q.scopes]

\* AnchorsForSubject: the entities the question names (those the person is registered with, when it
\* is about one), and the person's own entity.
Named(q) ==
    {e \in Entities : /\ Exists(e) /\ e.scope \in ToSet(q.scopes)
                      /\ \/ /\ e.kind = "named" /\ e.name \in q.names
                            /\ (q.person # None => Registered(e, q.person))
                         \/ e.kind = "speaker" /\ q.person # None /\ e.person = q.person}

ReadAnchors ==
    LET q == answer.q
        found == Named(q)
        b == [Empty EXCEPT !.anchors = IF Wants(q, "facts") THEN found ELSE {}]
    IN /\ answer.at = "anchors"
       /\ IF Cardinality(found) > MaxMatches
          THEN answer' = NoAnswer                     \* ErrRecallMatches: no partial bundle
          ELSE IF ~Wants(q, "facts") THEN Rest(b, found = {})
          ELSE IF found # {} THEN answer' = [answer EXCEPT !.at = "facts", !.bundle = b, !.unmatched = FALSE]
          ELSE IF answer.semantic THEN Continue("propose", b, q.scopes)
          ELSE Rest(Unavailable(b, q, "semantic_anchors"), TRUE)
       /\ UNCHANGED <<store, told>>

\* Up to n of a set, best first.
Rankings(S, n) == {f \in UNION {[1 .. k -> S] : k \in 0 .. n} : IsInjective(f)}

\* What a search by meaning may find: names and evidence are embedded, so whatever the project holds.
Proposable(scope) == {e \in Entities : Exists(e) /\ e.scope = scope}
Findable(scope) == {r \in Reports : r.scope = scope}

\* Entities the question may mean, a project at a time; the search may fail or not be configured.
Propose(found) ==
    LET scope == Head(answer.left)
        more == answer.bundle.meant \cup found
        b == [answer.bundle EXCEPT !.anchors = more, !.meant = more]
        enough == Cardinality(more) >= MaxSemanticAnchors \/ Len(answer.left) = 1
    IN /\ answer.at = "propose"
       /\ found \subseteq Proposable(scope)
       /\ Cardinality(more) <= MaxSemanticAnchors
       /\ IF ~enough THEN Continue("propose", b, Tail(answer.left))
          ELSE IF more = {} THEN Rest(b, TRUE)
          ELSE Continue("facts", b, << >>)
       /\ UNCHANGED <<store, told>>

ProposeFails ==
    LET b == [answer.bundle EXCEPT !.degraded = @ \cup {"semantic_anchors"}]
    IN /\ answer.at = "propose"
       /\ IF b.anchors = {} THEN Rest(b, TRUE) ELSE Continue("facts", b, << >>)
       /\ UNCHANGED <<store, told>>

\* FactsAboutForSubject and the cut.  A proposed anchor the person has no fact about is dropped.
Cut(list) ==
    LET q == answer.q
        limited == SubSeq(list, 1, Min({Len(list), MaxRows}))
        kept == Fitting(limited, q.budget)
        cited == {w.anchor : w \in Range(kept)}
    IN [answer.bundle EXCEPT
           !.facts = kept,
           !.spent = Cost(kept),
           !.truncated = Len(kept) < Len(list),
           !.anchors = IF q.person = None THEN @
                       ELSE {e \in @ : e \notin answer.bundle.meant \/ e \in cited}]

\* What a caller was told of each fact, and how far from the question it was found.
Account(facts) ==
    [i \in DOMAIN facts |->
        <<Found(facts[i]).c, Found(facts[i]).vf, Found(facts[i]).vt, Hops(facts[i])>>]

\* The first answer about the present given while no write was under way is kept for the properties.
Keep(b) ==
    IF /\ told = None /\ answer.q \in Remembered /\ answer.q.valid = None /\ answer.known = None
       /\ writer = None /\ answer.asked = clock
    THEN [q |-> answer.q, asked |-> clock, from |-> answer.bundle.anchors, facts |-> Account(b.facts),
          truncated |-> b.truncated]
    ELSE told

ReadFacts ==
    /\ answer.at = "facts"
    /\ \E list \in FactLists(answer.q, answer.known, answer.bundle.anchors) :
          LET after == Surface(Cut(list), answer.unmatched)
          IN /\ answer' = [answer EXCEPT !.at = after.next, !.bundle = after.b, !.left = answer.q.scopes,
                                         !.asked = None, !.from = answer.bundle.anchors]
             /\ told' = Keep(after.b)
    /\ UNCHANGED <<store>>

\* The reports nearest the question, best first, with children of the best; a report that was
\* rewritten since the search is skipped, and none is listed twice.
Hits(found, kids, gone) ==
    LET list == IF found = << >> THEN found ELSE <<Head(found)>> \o kids \o Tail(found)
    IN FoldLeft(LAMBDA hits, r : IF r \in gone \cup Range(hits) THEN hits ELSE Append(hits, r),
                << >>, list)

\* The children of the best that have a report, if it still has one itself.
Children(found, gone) ==
    IF found = << >> \/ Head(found) \in gone THEN {}
    ELSE {r \in Reports \ gone : r.parent = Head(found).id}

NextScope(at, after, b) ==
    IF Len(answer.left) = 1 THEN Continue(after, b, answer.q.scopes)
    ELSE Continue(at, b, Tail(answer.left))

ReadReports ==
    /\ answer.at = "reports"
    /\ \E found \in Rankings(Findable(Head(answer.left)), MaxReportHits), gone \in SUBSET Reports :
       \E kids \in Rankings(Children(found, gone), MaxReportChildren) :
          /\ Len(kids) = Min({Cardinality(Children(found, gone)), MaxReportChildren})
          /\ NextScope("reports", "passages",
                       Charge(answer.bundle, answer.q, "reports", Hits(found, kids, gone)))
    /\ UNCHANGED <<store, told>>

ReportsFail ==
    /\ answer.at = "reports"
    /\ Continue("passages", [answer.bundle EXCEPT !.degraded = @ \cup {"reports"}], answer.q.scopes)
    /\ UNCHANGED <<store, told>>

\* Passages are not looked for with nothing left to spend.
SkipPassages ==
    LET b == answer.bundle
        wanted == Wants(answer.q, "passages") /\ (b.spent < answer.q.budget \/ answer.left # answer.q.scopes)
    IN /\ answer.at = "passages"
       /\ ~(wanted /\ answer.semantic)
       /\ Continue("done", IF wanted THEN Unavailable(b, answer.q, "passages") ELSE b, << >>)
       /\ UNCHANGED <<store, told>>

\* The messages nearest the question.  One role is asked of the search, several are filtered after
\* its limit: then fewer may come back than there are, and so any number up to the limit.
Quotable(q, scope) ==
    {s \in alive : /\ s.scope = scope /\ q.person \in {None, s.person} /\ Retained(s)
                   /\ s.role \in q.roles}

ReadPassages ==
    LET q == answer.q
    IN /\ answer.at = "passages"
       /\ answer.semantic /\ Wants(q, "passages")
       /\ answer.bundle.spent < q.budget \/ answer.left # q.scopes
       /\ \E quoted \in Rankings(Quotable(q, Head(answer.left)), MaxPassageHits) :
             NextScope("passages", "done", Charge(answer.bundle, q, "passages", quoted))
       /\ UNCHANGED <<store, told>>

PassagesFail ==
    /\ answer.at = "passages"
    /\ answer.semantic /\ Wants(answer.q, "passages")
    /\ answer.bundle.spent < answer.q.budget \/ answer.left # answer.q.scopes
    /\ Continue("done", [answer.bundle EXCEPT !.degraded = @ \cup {"passages"}], << >>)
    /\ UNCHANGED <<store, told>>

Return ==
    /\ answer.at = "done"
    /\ answer' = NoAnswer
    /\ UNCHANGED <<store, told>>

RNext ==
    \/ \E c \in Claims : StartWrite("assert", c) \/ StartWrite("retract", c)
    \/ CommitAssert \/ CommitRetract
    \/ \E s \in Sources : Erase(s)
    \/ Lapse
    \/ \E q \in Requests, known \in {None} \cup Instants, semantic \in BOOLEAN :
          Ask(q, known, semantic)
    \/ ReadAnchors
    \/ \E found \in SUBSET Entities : Propose(found)
    \/ ProposeFails
    \/ ReadFacts
    \/ ReadReports \/ ReportsFail
    \/ SkipPassages \/ ReadPassages \/ PassagesFail
    \/ Return

RSpec == RInit /\ [][RNext]_vars

-----------------------------------------------------------------------------
(* Properties                                                              *)

\* A bundle holds nobody's words but those the caller asked for, from projects it may read: this is
\* so of every fact, of every fact on the way to one, of passages, of proposed names, and of the
\* facts a fact is said to share its message with; and a report, which nobody said, is not given in
\* an answer about one person.
AnswersStayInside ==
    answer # NoAnswer =>
        LET q == answer.q
            b == answer.bundle
            given == {Found(w).c : w \in Range(b.facts)}
        IN /\ \A w \in Range(b.facts) : \A x \in Range(w.via) : Admits(q, x.c.src)
           /\ \A s \in Range(b.passages) : Admits(q, s)
           /\ \A e \in b.anchors : e.scope \in ToSet(q.scopes)
           /\ \A r \in Range(b.reports) : r.scope \in ToSet(q.scopes) /\ q.person = None
           /\ \A c \in given : CoDerived(b.facts)[c] \subseteq given
           /\ answer.at = "done" /\ q.person # None =>
                 \A e \in b.meant \cap b.anchors : \E w \in Range(b.facts) : w.anchor = e

\* What is charged is what is given: nothing is given twice, and facts, reports and passages
\* together never exceed the budget.
AnswersFit ==
    answer # NoAnswer =>
        LET b == answer.bundle
        IN /\ b.spent = Cost(b.facts) + Cost(b.reports) + Cost(b.passages)
           /\ b.spent <= answer.q.budget
           /\ \A i, j \in DOMAIN b.facts : Found(b.facts[i]).c = Found(b.facts[j]).c => i = j
           /\ IsInjective(b.reports) /\ IsInjective(b.passages)

\* What "within so many hops" means, by distance alone: the facts with an end nearer than that to
\* an anchor.
Near(q, known, anchors) ==
    LET edges == {x \in Visible(q, known) : x.c.to # None /\ x.c.to # x.c.from}
        Ends(x) == {x.c.from, x.c.to}
        beside == anchors \cup UNION {Ends(x) : x \in {y \in edges : Ends(y) \cap anchors # {}}}
    IN {x \in edges : Ends(x) \cap (IF q.hops = 1 THEN anchors ELSE beside) # {}}

Crowded(q, known) ==
    \E e \in Entities : \/ Cardinality({x \in Visible(q, known) : x.c.from = e}) > Fanout
                        \/ Cardinality({x \in Visible(q, known) : x.c.to = e}) > Fanout

\* An answer that is not marked as cut holds every fact the caller may see within the hops asked
\* for, of the moment asked about, unless some entity has more facts than are followed out of one.
AnswersAreComplete ==
    [][answer.at = "facts" /\ answer'.at # "facts" /\ answer' # NoAnswer
          /\ ~answer'.bundle.truncated /\ ~Crowded(answer.q, answer.known) =>
        {Found(w) : w \in Range(answer'.bundle.facts)}
            = Near(answer.q, answer.known, answer.bundle.anchors)]_vars

\* Of two accounts neither says otherwise, and one ends before the other only when it says so.
Agree(one, cut, other, otherCut) ==
    \/ one = other
    \/ cut /\ IsStrictPrefix(one, other)
    \/ otherCut /\ IsStrictPrefix(other, one)

\* Asked again what it would have said then, the memory says it again: the same facts, by walks of
\* the same length, with the dates they had, though they were superseded or withdrawn since.  Which
\* of the shortest walks leads to a fact may differ, and with it where the budget ends: so one of
\* the two answers may stop sooner, and then it is marked as truncated.
PastAnswersStand ==
    (/\ answer.at = "done" /\ told # None /\ answer.known # None
     /\ answer.from = told.from)
        => Agree(Account(answer.bundle.facts), answer.bundle.truncated, told.facts, told.truncated)
=============================================================================
