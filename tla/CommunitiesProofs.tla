-------------------------- MODULE CommunitiesProofs --------------------------
(***************************************************************************)
(* Proofs about Communities, for any turns and entities, any partition of  *)
(* every graph, and any number of passes, writers, edits and budgets: the  *)
(* type invariant, that no report tells what was withdrawn, and that a     *)
(* report tells only of its own community.                                 *)
(***************************************************************************)
EXTENDS Communities, TLAPS

-----------------------------------------------------------------------------
(* The inductive invariant.                                                 *)

Says == {"unsaid", "current", "withdrawn", "erased"}

\* Every change of a turn's fact raises its revision, and costs an edit at
\* least every second time.
FactsOK ==
    /\ said \in [Turn -> Says] /\ revision \in [Turn -> Nat] /\ edits \in 0 .. MaxEdits
    /\ \A t \in Turn :
        /\ revision[t] >= 1
        /\ said[t] = "unsaid" => revision[t] = 1
        /\ revision[t] <= 2 * edits + (IF said[t] = "withdrawn" THEN 1 ELSE 2)

\* A subject has members, and one below the top is part of its parent.
RowsOK(rows) ==
    \A c \in rows :
        /\ c.level \in Nat /\ c.members # {} /\ (c.level = 0) = (c.parent = {})
        /\ c.level > 0 => c.members \subseteq c.parent

\* Turns at the revisions they were read at: one that still has its revision
\* still says what it said.
Reading(read) ==
    /\ DOMAIN read \subseteq Turn
    /\ \A t \in DOMAIN read : /\ read[t] \in Nat /\ read[t] <= revision[t]
                              /\ read[t] = revision[t] => said[t] = "current"

\* A report, of now or of earlier, of a community with some members.
Told(r, members) ==
    /\ r.by \in {1, 2}
    /\ r.text \subseteq DOMAIN r.sources
    /\ \A t \in r.text : Ends[t] \subseteq members
    /\ Reading(r.sources)

ReportsOK ==
    /\ DOMAIN report \subseteq Identities(community)
    /\ \A id \in DOMAIN report :
        /\ Told(report[id], id.members)
        /\ \A t \in DOMAIN report[id].sources :
              said[t] = "current" /\ report[id].sources[t] = revision[t]

\* The facts of a community as they were read.
Own(read, members) == Reading(read) /\ \A t \in DOMAIN read : Ends[t] \subseteq members

\* What a report is to be written from.
Chosen(context, members) ==
    /\ Own(context.facts, members)
    /\ \A k \in DOMAIN context.children :
          k.members \subseteq members /\ Told(context.children[k], k.members)

\* What a pass holds between two of its steps.
Standing(w) ==
    /\ w.at \in {"replace", "store"} => RowsOK(w.h)
    /\ w.at = "kids" => Own(w.facts, Head(w.todo).members)
    /\ w.at = "write" => Chosen(w.context, Head(w.todo).members)

PassesOK ==
    /\ pass = [p \in Pass |-> pass[p]] /\ writer \in [Pass -> {1, 2}]
    /\ \A p \in Pass : Standing(pass[p])

IInv == FactsOK /\ RowsOK(community) /\ ReportsOK /\ PassesOK

-----------------------------------------------------------------------------
(* Nothing that was read becomes current again at its old revision.         *)

\* Facts stay as they are, or get a higher revision.
Aging ==
    \A t \in Turn : /\ revision'[t] \in Nat /\ revision'[t] >= revision[t]
                    /\ revision'[t] = revision[t] => said'[t] = said[t]

LEMMA ReadingAges ==
    ASSUME FactsOK, Aging, NEW read, Reading(read)
    PROVE  Reading(read)'
<1> SUFFICES ASSUME NEW t \in DOMAIN read
             PROVE  /\ read[t] \in Nat /\ read[t] <= revision'[t]
                    /\ read[t] = revision'[t] => said'[t] = "current"
  BY DEF Reading
<1>1. t \in Turn /\ read[t] \in Nat /\ read[t] <= revision[t] /\ revision[t] \in Nat
  BY DEF Reading, FactsOK
<1>2. revision'[t] \in Nat /\ revision'[t] >= revision[t]
  BY <1>1 DEF Aging
<1>3. read[t] = revision'[t] => revision'[t] = revision[t] /\ read[t] = revision[t]
  BY <1>1, <1>2
<1> QED BY <1>1, <1>2, <1>3 DEF Aging, Reading

LEMMA ToldAges ==
    ASSUME FactsOK, Aging, NEW r, NEW members, Told(r, members)
    PROVE  Told(r, members)'
<1>1. Reading(r.sources)'
  BY ReadingAges DEF Told
<1> QED BY <1>1 DEF Told

LEMMA StandingAges ==
    ASSUME FactsOK, Aging, NEW w, Standing(w)
    PROVE  Standing(w)'
<1>1. w.at \in {"replace", "store"} => RowsOK(w.h)'
  BY DEF Standing, RowsOK
<1>2. ASSUME w.at = "kids" PROVE Own(w.facts, Head(w.todo).members)'
  <2>1. Own(w.facts, Head(w.todo).members)
    BY <1>2 DEF Standing
  <2> QED BY <2>1, ReadingAges DEF Own
<1>3. ASSUME w.at = "write" PROVE Chosen(w.context, Head(w.todo).members)'
  <2> DEFINE members == Head(w.todo).members
  <2>1. Chosen(w.context, members)
    BY <1>3 DEF Standing
  <2>2. Own(w.context.facts, members)'
    BY <2>1, ReadingAges DEF Chosen, Own
  <2>3. \A k \in DOMAIN w.context.children : Told(w.context.children[k], k.members)'
    BY <2>1, ToldAges DEF Chosen
  <2> QED BY <2>1, <2>2, <2>3 DEF Chosen
<1> QED BY <1>1, <1>2, <1>3 DEF Standing

-----------------------------------------------------------------------------
(* The passes: facts as they are.                                           *)

\* Places where a pass holds nothing.
LEMMA HoldsNothing ==
    /\ Standing(Idle) /\ Standing([at |-> "graph"]) /\ Standing([at |-> "select"])
    /\ \A todo : Standing(Onward(todo))
BY DEF Standing, Idle, Onward

\* A pass goes on, and what is stored does not change.
LEMMA GotoKeeps ==
    ASSUME IInv, NEW p \in Pass, NEW w, Standing(w), Goto(p, w), UNCHANGED <<community, report>>
    PROVE  IInv'
<1>1. /\ UNCHANGED <<said, revision, writer, edits, community, report>>
      /\ pass' = [pass EXCEPT ![p] = w]
  BY DEF Goto, facts
<1>2. FactsOK' /\ RowsOK(community)'
  BY <1>1 DEF IInv, FactsOK, RowsOK
<1>3. ReportsOK'
  BY <1>1 DEF IInv, ReportsOK, Told, Reading, Identities
<1>4. \A x : Standing(x)' <=> Standing(x)
  BY <1>1 DEF Standing, RowsOK, Own, Chosen, Told, Reading
<1>5. PassesOK'
  BY <1>1, <1>4 DEF IInv, PassesOK
<1> QED BY <1>2, <1>3, <1>5 DEF IInv

LEMMA HierarchyIsOK == ASSUME NEW turns PROVE RowsOK(Hierarchy(turns))
BY CommunitiesAssumption DEF RowsOK, Hierarchy

LEMMA ReadGraphKeeps == ASSUME IInv, NEW p \in Pass, ReadGraph(p) PROVE IInv'
<1> DEFINE w == IF Current = {} THEN Idle ELSE [at |-> "replace", h |-> Hierarchy(Current)]
<1>1. Standing(w)
  <2>1. Standing([at |-> "replace", h |-> Hierarchy(Current)])
    BY HierarchyIsOK DEF Standing
  <2> QED BY <2>1, HoldsNothing
<1>2. Goto(p, w) /\ UNCHANGED <<community, report>>
  BY DEF ReadGraph
<1> HIDE DEF w
<1> QED BY <1>1, <1>2, GotoKeeps

LEMMA ReplaceKeeps == ASSUME IInv, NEW p \in Pass, Replace(p) PROVE IInv'
<1> DEFINE w == [at |-> "store", h |-> pass[p].h,
                 gone |-> Identities(community) \ Identities(pass[p].h)]
<1>1. Standing(w)
  BY DEF Standing, Replace, At, IInv, PassesOK
<1>2. Goto(p, w) /\ UNCHANGED <<community, report>>
  BY DEF Replace
<1> HIDE DEF w
<1> QED BY <1>1, <1>2, GotoKeeps

LEMMA EndKeeps ==
    ASSUME IInv, NEW p \in Pass, Abort(p) \/ Crash(p) \/ Fail(p) \/ Select(p)
    PROVE  IInv'
<1>1. CASE Abort(p) \/ Crash(p)
  BY <1>1, GotoKeeps, HoldsNothing DEF Abort, Crash
<1>2. CASE Fail(p)
  BY <1>2, GotoKeeps, HoldsNothing DEF Fail
<1>3. CASE Select(p)
  BY <1>3, GotoKeeps, HoldsNothing DEF Select
<1> QED BY <1>1, <1>2, <1>3

LEMMA ReadFactsKeeps == ASSUME IInv, NEW p \in Pass, ReadFacts(p) PROVE IInv'
<1> DEFINE c == Head(pass[p].todo)
           w == [at |-> "kids", todo |-> pass[p].todo, facts |-> Material(c.members)]
           v == IF Among(c.members) = {} THEN Onward(Tail(pass[p].todo)) ELSE w
<1>1. Own(Material(c.members), c.members)
  <2> SUFFICES ASSUME NEW read, read = Material(c.members) PROVE Own(read, c.members)
    OBVIOUS
  <2>1. DOMAIN read = Among(c.members) /\ \A t \in Among(c.members) : read[t] = revision[t]
    BY DEF Material
  <2>2. \A t \in Among(c.members) : t \in Turn /\ said[t] = "current" /\ Ends[t] \subseteq c.members
    BY DEF Among, Current
  <2>3. \A t \in Turn : revision[t] \in Nat
    BY DEF IInv, FactsOK
  <2> HIDE DEF c
  <2> QED BY <2>1, <2>2, <2>3 DEF Own, Reading
<1>2. Standing(w)
  BY <1>1 DEF Standing
<1>3. Standing(v)
  BY <1>2, HoldsNothing
<1>4. Goto(p, v) /\ UNCHANGED <<community, report>>
  BY ZenonT(60) DEF ReadFacts
<1> HIDE DEF v, w, c
<1> QED BY <1>3, <1>4, GotoKeeps

\* However much fits, a context has some of the facts and some of the reports.
LEMMA ContextChooses ==
    ASSUME NEW material, NEW owned, NEW reports
    PROVE  LET c == Context(material, owned, reports) IN
           /\ DOMAIN c.facts \subseteq DOMAIN material
           /\ \A t \in DOMAIN c.facts : c.facts[t] = material[t]
           /\ DOMAIN c.children \subseteq DOMAIN reports
           /\ \A k \in DOMAIN c.children : c.children[k] = reports[k]
BY DEF Context, Restrict

LEMMA ReadKidsKeeps == ASSUME IInv, NEW p \in Pass, ReadKids(p) PROVE IInv'
<1> DEFINE members == Head(pass[p].todo).members
           kids == Kids(Head(pass[p].todo))
           written == Restrict(report, kids \cap DOMAIN report)
           owned == [k \in kids |-> Among(k.members)]
           context == Context(pass[p].facts, owned, written)
           w == [at |-> "write", todo |-> pass[p].todo, context |-> context]
<1>1. Own(pass[p].facts, members)
  BY DEF ReadKids, At, IInv, PassesOK, Standing
<1>2. \A k \in kids : k.members \subseteq members
  BY DEF Kids, Identity, IInv, RowsOK
<1>3. \A k \in DOMAIN written : k \in kids /\ written[k] = report[k] /\ Told(report[k], k.members)
  BY DEF Restrict, IInv, ReportsOK
<1>4. /\ DOMAIN context.facts \subseteq DOMAIN pass[p].facts
      /\ \A t \in DOMAIN context.facts : context.facts[t] = pass[p].facts[t]
      /\ DOMAIN context.children \subseteq DOMAIN written
      /\ \A k \in DOMAIN context.children : context.children[k] = written[k]
  BY ContextChooses
<1>5. Goto(p, w) /\ UNCHANGED <<community, report>>
  BY DEF ReadKids
<1> HIDE DEF context, written, kids
<1>6. Chosen(context, members)
  <2>1. Own(context.facts, members)
    BY <1>1, <1>4 DEF Own, Reading
  <2> QED BY <1>2, <1>3, <1>4, <2>1 DEF Chosen
<1>7. Standing(w)
  BY <1>6 DEF Standing
<1> HIDE DEF w
<1> QED BY <1>5, <1>7, GotoKeeps

\* A partition replaces the stored one; what goes takes its reports along.
LEMMA StoreKeeps == ASSUME IInv, NEW p \in Pass, Store(p) PROVE IInv'
<1> USE DEF IInv
<1> DEFINE h == pass[p].h
           gone == pass[p].gone
           new == Identities(h) \ Identities(community)
<1>1. /\ UNCHANGED <<said, revision, writer, edits>>
      /\ community' = {c \in community : Identity(c) \notin gone \cup Identities(h)} \cup h
      /\ report' = Restrict(report, DOMAIN report \ gone)
      /\ pass' = [q \in Pass |->
            IF q = p THEN [at |-> "select"]
            ELSE IF At(q, "store") THEN [at |-> "store", h |-> pass[q].h, gone |-> pass[q].gone \ new]
            ELSE pass[q]]
  BY DEF Store, facts
<1>2. RowsOK(h)
  BY DEF Store, At, PassesOK, Standing
<1>3. DOMAIN report' = DOMAIN report \ gone /\ \A id \in DOMAIN report' : report'[id] = report[id]
  BY <1>1 DEF Restrict
<1>4. FactsOK' /\ RowsOK(community)'
  BY <1>1, <1>2 DEF FactsOK, RowsOK
<1>5. ReportsOK'
  <2>1. ASSUME NEW id \in DOMAIN report' PROVE id \in Identities(community')
    <3>1. id \in DOMAIN report /\ id \notin gone
      BY <1>3
    <3>2. PICK c \in community : id = Identity(c)
      BY <3>1 DEF ReportsOK, Identities
    <3>3. CASE id \in Identities(h)
      BY <1>1, <3>3 DEF Identities
    <3>4. CASE id \notin Identities(h)
      <4>1. c \in community'
        BY <1>1, <3>1, <3>2, <3>4
      <4> QED BY <3>2, <4>1 DEF Identities
    <3> QED BY <3>3, <3>4
  <2>2. DOMAIN report' \subseteq Identities(community)'
    BY <2>1 DEF Identities
  <2>3. ASSUME NEW id \in DOMAIN report' PROVE id \in DOMAIN report /\ report'[id] = report[id]
    BY <1>3
  <2>4. \A r, members : Told(r, members)' <=> Told(r, members)
    BY <1>1 DEF Told, Reading
  <2> HIDE DEF h, gone, new
  <2>5. ASSUME NEW id \in DOMAIN report'
        PROVE  /\ Told(report'[id], id.members)
               /\ \A t \in DOMAIN report'[id].sources :
                    said'[t] = "current" /\ report'[id].sources[t] = revision'[t]
    <3>1. id \in DOMAIN report /\ report'[id] = report[id]
      BY <2>3
    <3>2. /\ Told(report[id], id.members)
          /\ \A t \in DOMAIN report[id].sources :
               said[t] = "current" /\ report[id].sources[t] = revision[t]
      BY <3>1 DEF ReportsOK
    <3> QED BY <1>1, <3>1, <3>2
  <2> QED BY <2>2, <2>4, <2>5 DEF ReportsOK
<1>6. \A x : Standing(x)' <=> Standing(x)
  BY <1>1 DEF Standing, RowsOK, Own, Chosen, Told, Reading
<1>7. PassesOK'
  <2>1. ASSUME NEW q \in Pass PROVE Standing(pass'[q])
    <3>1. CASE q = p
      BY <1>1, <3>1, HoldsNothing
    <3>2. CASE q # p /\ At(q, "store")
      <4>1. RowsOK(pass[q].h)
        BY <3>2 DEF At, PassesOK, Standing
      <4>2. Standing([at |-> "store", h |-> pass[q].h, gone |-> pass[q].gone \ new])
        BY <4>1 DEF Standing
      <4> QED BY <1>1, <3>2, <4>2
    <3>3. CASE q # p /\ ~At(q, "store")
      BY <1>1, <3>3 DEF PassesOK
    <3> QED BY <3>1, <3>2, <3>3
  <2>2. pass' = [q \in Pass |-> pass'[q]] /\ writer' \in [Pass -> {1, 2}]
    BY <1>1 DEF PassesOK
  <2> HIDE DEF h, gone, new
  <2> QED BY <1>6, <2>1, <2>2 DEF PassesOK
<1> QED BY <1>4, <1>5, <1>7

\* Write: what is told was read, and was still so when it was stored.
LEMMA WriteKeeps == ASSUME IInv, NEW p \in Pass, Write(p) PROVE IInv'
<1> USE DEF IInv
<1> DEFINE head == Head(pass[p].todo)
           id == Identity(head)
           c == pass[p].context
           sources == Sources(c)
           old == IF id \in DOMAIN report THEN DOMAIN report[id].sources ELSE {}
           registered == [t \in old \cup {s[1] : s \in sources} |->
                            IF t \in old THEN report[id].sources[t] ELSE revision[t]]
           w == Onward(Tail(pass[p].todo))
<1>1. /\ UNCHANGED <<said, revision, writer, edits, community>>
      /\ pass' = [pass EXCEPT ![p] = w]
      /\ report' = IF Storable(p, id, sources)
                   THEN [r \in DOMAIN report \cup {id} |->
                           IF r = id THEN [by |-> writer[p], text |-> Text(c), sources |-> registered]
                           ELSE report[r]]
                   ELSE report
  BY DEF Write, Goto, facts
<1>2. CASE ~Storable(p, id, sources)
  <2>1. Goto(p, w) /\ UNCHANGED <<community, report>>
    BY <1>1, <1>2 DEF Goto, facts
  <2>2. Standing(w)
    BY HoldsNothing
  <2> HIDE DEF w
  <2> QED BY <2>1, <2>2, GotoKeeps
<1>3. CASE Storable(p, id, sources)
  <2>1. Chosen(c, head.members)
    <3>1. pass[p].at = "write" /\ Standing(pass[p])
      BY DEF Write, At, PassesOK
    <3> QED BY <3>1 DEF Standing
  <2>2. Available(sources) /\ id \in Identities(community) /\ id.members = head.members
    BY <1>3 DEF Storable, Identity
  <2>3. \A t \in DOMAIN c.facts : <<t, c.facts[t]>> \in sources
    BY DEF Sources
  <2>4. \A k \in DOMAIN c.children : \A t \in DOMAIN c.children[k].sources :
          <<t, c.children[k].sources[t]>> \in sources
    BY DEF Sources
  <2>5. \A s \in sources :
          s[1] \in Turn /\ s[2] \in Nat /\ (s[2] = revision[s[1]] => said[s[1]] = "current")
    BY <2>1, SMTT(30) DEF Sources, Chosen, Own, Told, Reading
  <2>6. \A s \in sources : s[1] \in Turn /\ said[s[1]] = "current"
    BY <2>2, <2>5 DEF Available
  <2>7. \A t \in old : /\ t \in Turn /\ said[t] = "current"
                       /\ report[id].sources[t] = revision[t]
    BY DEF ReportsOK, Told, Reading
  <2>8. /\ DOMAIN registered = old \cup {s[1] : s \in sources}
        /\ \A t \in DOMAIN registered : t \in Turn /\ said[t] = "current" /\ registered[t] = revision[t]
    BY <2>6, <2>7
  <2>9. Text(c) \subseteq {s[1] : s \in sources} /\ \A t \in Text(c) : Ends[t] \subseteq id.members
    <3> SUFFICES ASSUME NEW t \in Text(c)
                 PROVE  (\E s \in sources : t = s[1]) /\ Ends[t] \subseteq id.members
      OBVIOUS
    <3>1. CASE t \in DOMAIN c.facts
      BY <2>1, <2>2, <2>3, <3>1 DEF Chosen, Own
    <3>2. ASSUME NEW k \in DOMAIN c.children, t \in c.children[k].text
          PROVE  (\E s \in sources : t = s[1]) /\ Ends[t] \subseteq id.members
      <4>1. k.members \subseteq head.members /\ Told(c.children[k], k.members)
        BY <2>1 DEF Chosen
      <4>2. t \in DOMAIN c.children[k].sources /\ Ends[t] \subseteq k.members
        BY <3>2, <4>1 DEF Told
      <4>3. <<t, c.children[k].sources[t]>> \in sources
        BY <2>4, <4>2
      <4> QED BY <2>2, <4>1, <4>2, <4>3
    <3> QED BY <3>1, <3>2 DEF Text
  <2> DEFINE stored == [by |-> writer[p], text |-> Text(c), sources |-> registered]
  <2> HIDE DEF c, sources, registered, head, id
  <2>10. Told(stored, id.members)
    <3>1. Reading(registered)
      BY <2>8 DEF Reading, FactsOK
    <3> QED BY <2>8, <2>9, <3>1 DEF Told, PassesOK
  <2> HIDE DEF stored
  <2>11. \A t \in DOMAIN stored.sources : said[t] = "current" /\ stored.sources[t] = revision[t]
    BY <2>8 DEF stored
  <2>12. DOMAIN report' = DOMAIN report \cup {id} /\ report'[id] = stored
         /\ \A r \in DOMAIN report \ {id} : report'[r] = report[r]
    BY <1>1, <1>3 DEF stored
  <2>13. \A x, members : Told(x, members)' <=> Told(x, members)
    BY <1>1 DEF Told, Reading
  <2>14. ASSUME NEW r \in DOMAIN report'
         PROVE  /\ Told(report'[r], r.members)
                /\ \A t \in DOMAIN report'[r].sources :
                     said'[t] = "current" /\ report'[r].sources[t] = revision'[t]
    <3>1. CASE r = id
      BY <1>1, <2>10, <2>11, <2>12, <3>1
    <3>2. CASE r # id
      BY <1>1, <2>12, <3>2 DEF ReportsOK
    <3> QED BY <3>1, <3>2
  <2>15. DOMAIN report' \subseteq Identities(community)'
    BY <1>1, <2>2, <2>12 DEF ReportsOK, Identities
  <2>16. ReportsOK'
    BY <2>13, <2>14, <2>15 DEF ReportsOK
  <2>17. FactsOK' /\ RowsOK(community)'
    BY <1>1 DEF FactsOK, RowsOK
  <2>18. \A x : Standing(x)' <=> Standing(x)
    BY <1>1 DEF Standing, RowsOK, Own, Chosen, Told, Reading
  <2>19. Standing(w)
    BY HoldsNothing
  <2> HIDE DEF w
  <2>20. PassesOK'
    BY <1>1, <2>18, <2>19 DEF PassesOK
  <2> QED BY <2>16, <2>17, <2>20
<1> QED BY <1>2, <1>3

-----------------------------------------------------------------------------
(* The facts change.                                                        *)

LEMMA TouchAges ==
    ASSUME FactsOK, NEW turns \in SUBSET Turn, NEW to \in Says, Touch(turns, to)
    PROVE  Aging
BY DEF Aging, Touch, FactsOK

\* A change raises the revision by one, and is bounded as an edit is.
LEMMA TouchCosts ==
    ASSUME FactsOK, NEW turns \in SUBSET Turn, NEW to \in Says \ {"unsaid"}, Touch(turns, to),
           NEW cost \in {0, 1}, edits' = edits + cost, edits' <= MaxEdits,
           \A t \in turns : revision[t] + 1 <= 2 * edits' + (IF to = "withdrawn" THEN 1 ELSE 2)
    PROVE  FactsOK'
<1>1. edits \in Nat /\ edits' \in 0 .. MaxEdits
  BY CommunitiesAssumption DEF FactsOK
<1>2. said' \in [Turn -> Says] /\ revision' \in [Turn -> Nat]
  BY DEF Touch, FactsOK
<1>3. ASSUME NEW t \in Turn
      PROVE  /\ revision'[t] >= 1
             /\ said'[t] = "unsaid" => revision'[t] = 1
             /\ revision'[t] <= 2 * edits' + (IF said'[t] = "withdrawn" THEN 1 ELSE 2)
  <2>1. revision[t] \in Nat /\ revision[t] >= 1
    BY DEF FactsOK
  <2>2. CASE t \in turns
    <3>1. said'[t] = to /\ revision'[t] = revision[t] + 1
      BY <2>2 DEF Touch
    <3> QED BY <2>1, <2>2, <3>1
  <2>3. CASE t \notin turns
    <3>1. said'[t] = said[t] /\ revision'[t] = revision[t]
      BY <2>1, <2>3 DEF Touch
    <3>2. /\ said[t] = "unsaid" => revision[t] = 1
          /\ revision[t] <= 2 * edits + (IF said[t] = "withdrawn" THEN 1 ELSE 2)
      BY DEF FactsOK
    <3> QED BY <1>1, <2>1, <3>1, <3>2
  <2> QED BY <2>2, <2>3
<1> QED BY <1>1, <1>2, <1>3 DEF FactsOK

\* The reports that tell of a turn go with its change; what the others tell,
\* and what a pass has read, keeps its age.
LEMMA TouchKeeps ==
    ASSUME IInv, NEW turns \in SUBSET Turn, NEW to \in Says, Touch(turns, to), FactsOK',
           UNCHANGED <<community, writer>>,
           pass' = [p \in Pass |-> pass'[p]], \A p \in Pass : Standing(pass'[p])
    PROVE  IInv'
<1> USE DEF IInv
<1>1. Aging
  BY TouchAges
<1>2. RowsOK(community)'
  BY DEF RowsOK
<1>3. /\ DOMAIN report' = {id \in DOMAIN report : DOMAIN report[id].sources \cap turns = {}}
      /\ \A id \in DOMAIN report' : report'[id] = report[id]
  BY DEF Touch, Without, Restrict
<1>4. \A t \in Turn \ turns : said'[t] = said[t] /\ revision'[t] = revision[t]
  BY DEF Touch, FactsOK
<1>5. \A r, members : Told(r, members) => Told(r, members)'
  BY <1>1, ToldAges
<1>6. ASSUME NEW id \in DOMAIN report'
      PROVE  /\ Told(report'[id], id.members)
             /\ \A t \in DOMAIN report'[id].sources :
                  said'[t] = "current" /\ report'[id].sources[t] = revision'[t]
  BY <1>3, <1>4 DEF ReportsOK, Told, Reading
<1>7. ReportsOK'
  <2>1. DOMAIN report' \subseteq Identities(community)'
    BY <1>3 DEF ReportsOK, Identities
  <2> QED BY <1>5, <1>6, <2>1 DEF ReportsOK
<1>8. \A w : Standing(w) => Standing(w)'
  BY <1>1, StandingAges
<1>9. PassesOK'
  BY <1>8 DEF PassesOK
<1> QED BY <1>2, <1>7, <1>9

LEMMA FormKeeps == ASSUME IInv, NEW p \in Pass, NEW t \in Turn, Form(p, t) PROVE IInv'
<1>1. /\ said[t] = "unsaid" /\ Touch({t}, "current") /\ UNCHANGED <<community, writer, edits>>
      /\ pass' = [pass EXCEPT ![p] = [at |-> "graph"]]
  BY DEF Form
<1>2. FactsOK'
  <2>1. revision[t] = 1 /\ edits \in Nat /\ edits <= MaxEdits
    BY <1>1, CommunitiesAssumption DEF IInv, FactsOK
  <2>2. edits' = edits + 0 /\ edits' <= MaxEdits /\ revision[t] + 1 <= 2 * edits' + 2
    BY <1>1, <2>1
  <2> QED BY <1>1, <2>2, TouchCosts DEF Says, IInv
<1>3. pass' = [q \in Pass |-> pass'[q]] /\ \A q \in Pass : Standing(pass'[q])
  BY <1>1, HoldsNothing DEF IInv, PassesOK
<1> QED BY <1>1, <1>2, <1>3, TouchKeeps DEF Says

\* An edit of facts that were current or withdrawn.
LEMMA EditKeeps ==
    ASSUME IInv, NEW turns \in SUBSET Turn, NEW to \in Says \ {"unsaid"}, NEW cost \in {0, 1},
           Edit(turns, to, cost),
           \A t \in turns : \/ said[t] = "withdrawn" /\ to = "current"
                            \/ said[t] \in {"current", "withdrawn"} /\ cost = 1
    PROVE  IInv'
<1>1. /\ edits' = edits + cost /\ edits' <= MaxEdits /\ Touch(turns, to)
      /\ UNCHANGED <<community, writer, pass>>
  BY DEF Edit
<1>2. edits \in Nat
  BY CommunitiesAssumption DEF IInv, FactsOK
<1>3. ASSUME NEW t \in turns
      PROVE  revision[t] + 1 <= 2 * edits' + (IF to = "withdrawn" THEN 1 ELSE 2)
  <2>1. /\ revision[t] \in Nat
        /\ revision[t] <= 2 * edits + (IF said[t] = "withdrawn" THEN 1 ELSE 2)
    BY DEF IInv, FactsOK
  <2> QED BY <1>1, <1>2, <2>1
<1>4. FactsOK'
  BY <1>1, <1>3, TouchCosts DEF IInv
<1>5. pass' = [p \in Pass |-> pass'[p]] /\ \A p \in Pass : Standing(pass'[p])
  BY <1>1 DEF IInv, PassesOK
<1> QED BY <1>1, <1>4, <1>5, TouchKeeps

LEMMA UpgradeKeeps == ASSUME IInv, NEW p \in Pass, Upgrade(p) PROVE IInv'
<1> USE DEF IInv
<1>1. /\ UNCHANGED <<said, revision, community, report, edits>>
      /\ writer' = [writer EXCEPT ![p] = 2] /\ pass' = [pass EXCEPT ![p] = Idle]
  BY DEF Upgrade, facts
<1>2. FactsOK' /\ RowsOK(community)'
  BY <1>1 DEF FactsOK, RowsOK
<1>3. ReportsOK'
  BY <1>1 DEF ReportsOK, Told, Reading, Identities
<1>4. \A x : Standing(x)' <=> Standing(x)
  BY <1>1 DEF Standing, RowsOK, Own, Chosen, Told, Reading
<1>5. PassesOK'
  BY <1>1, <1>4, HoldsNothing DEF PassesOK
<1> QED BY <1>2, <1>3, <1>5

-----------------------------------------------------------------------------
LEMMA StepKeepsIInv == ASSUME IInv, [Next]_vars PROVE IInv'
<1>1. ASSUME NEW p \in Pass, Step(p) PROVE IInv'
  BY <1>1, ReadGraphKeeps, ReplaceKeeps, StoreKeeps, EndKeeps, ReadFactsKeeps, ReadKidsKeeps,
     WriteKeeps DEF Step
<1>2. ASSUME NEW p \in Pass, Fail(p) \/ Crash(p) \/ Upgrade(p) PROVE IInv'
  BY <1>2, EndKeeps, UpgradeKeeps
<1>3. ASSUME NEW p \in Pass, NEW t \in Turn, Form(p, t) PROVE IInv'
  BY <1>3, FormKeeps
<1>4. ASSUME NEW t \in Turn, Withdraw(t) PROVE IInv'
  BY <1>4, EditKeeps DEF Withdraw, Says
<1>5. ASSUME NEW t \in Turn, Rebuild(t) PROVE IInv'
  BY <1>5, EditKeeps DEF Rebuild, Says
<1>6. ASSUME NEW who, Erase(who) PROVE IInv'
  <2> DEFINE theirs == {t \in Turn : Person[t] = who /\ said[t] \in {"current", "withdrawn"}}
  <2>1. Edit(theirs, "erased", 1) /\ \A t \in theirs : said[t] \in {"current", "withdrawn"}
    BY <1>6 DEF Erase
  <2>2. theirs \in SUBSET Turn
    OBVIOUS
  <2> HIDE DEF theirs
  <2> QED BY <2>1, <2>2, EditKeeps DEF Says
<1>7. CASE UNCHANGED vars
  <2>1. UNCHANGED <<said, revision, community, report, writer, pass, edits>>
    BY <1>7 DEF vars
  <2>2. \A x : Standing(x)' <=> Standing(x)
    BY <2>1 DEF Standing, RowsOK, Own, Chosen, Told, Reading
  <2>3. FactsOK' /\ RowsOK(community)'
    BY <2>1 DEF IInv, FactsOK, RowsOK
  <2>4. ReportsOK'
    BY <2>1 DEF IInv, ReportsOK, Told, Reading, Identities
  <2>5. PassesOK'
    BY <2>1, <2>2 DEF IInv, PassesOK
  <2> QED BY <2>3, <2>4, <2>5 DEF IInv
<1> QED BY <1>1, <1>2, <1>3, <1>4, <1>5, <1>6, <1>7 DEF Next

LEMMA InitIsIInv == ASSUME Init PROVE IInv
<1>1. FactsOK
  BY CommunitiesAssumption DEF Init, FactsOK, Says
<1>2. RowsOK(community) /\ ReportsOK
  BY DEF Init, RowsOK, ReportsOK
<1>3. PassesOK
  BY HoldsNothing DEF Init, PassesOK
<1> QED BY <1>1, <1>2, <1>3 DEF IInv

\* The inductive invariant holds throughout.
THEOREM Invariant == Spec => []IInv
BY InitIsIInv, StepKeepsIInv, PTL DEF Spec

\* Every variable keeps its type; a report belongs to a stored community, and
\* tells nothing it is not registered to.
THEOREM TypeCorrect == Spec => []TypeOK
<1>1. IInv => TypeOK
  <2> SUFFICES ASSUME IInv PROVE TypeOK
    OBVIOUS
  <2>1. ASSUME NEW t \in Turn PROVE revision[t] \in 1 .. 2 * MaxEdits + 2
    BY CommunitiesAssumption DEF IInv, FactsOK
  <2>2. revision \in [Turn -> 1 .. 2 * MaxEdits + 2]
    BY <2>1 DEF IInv, FactsOK
  <2> QED BY <2>2 DEF TypeOK, IInv, FactsOK, RowsOK, ReportsOK, Told, PassesOK, Says
<1> QED BY <1>1, Invariant, PTL

\* What has been withdrawn, rebuilt or erased is in no report, however it got
\* into one: from the facts, or through a child's report that was read before
\* the change and stored after it.
THEOREM ReportsForgetTheWithdrawn == Spec => []NoReportTellsTheWithdrawn
<1>1. IInv => NoReportTellsTheWithdrawn
  BY DEF IInv, ReportsOK, NoReportTellsTheWithdrawn
<1> QED BY <1>1, Invariant, PTL

\* A report tells only of relations among the members of its community, also
\* while passes store partitions of different graphs.
THEOREM ReportsTellTheirOwn == Spec => []ReportsTellOfTheirOwn
<1>1. IInv => ReportsTellOfTheirOwn
  BY DEF IInv, ReportsOK, Told, ReportsTellOfTheirOwn
<1> QED BY <1>1, Invariant, PTL
=============================================================================
