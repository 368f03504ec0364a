----------------------------- MODULE Embeddings ------------------------------
(* Vector generations.  Messages, named entities and community reports are  *)
(* each embedded by a model into generations; one generation of a kind is   *)
(* active, and a search reads it.  A generation is built page by page: a    *)
(* builder takes a session lock and writes a lease, reads a page of inputs, *)
(* asks the model with no transaction open, and commits the page if the     *)
(* lease, the state and the cursor are still what it read.  Messages are    *)
(* immutable and have a boundary in the log that a follower extends;        *)
(* entities and reports are a snapshot of targets, and change underneath.   *)
(*                                                                         *)
(* Code: internal/infra/pg/embeddinggeneration.go, embeddingbuild.go,       *)
(* embeddingcatchup.go, embeddingsearch.go, entityembedding.go,             *)
(* reportembedding.go, and the triggers of migrations 0049 and 0050.        *)
EXTENDS Naturals, FiniteSets, FiniteSetsExt

CONSTANTS
    Kinds,         \* the kinds of input a behaviour may be about
    Gens,          \* generation identifiers
    MaxItem,       \* bound on the inputs that ever exist
    Builders,      \* processes that build or follow
    None,
    PageLimit,     \* inputs in a page
    MaxRetained,   \* MaxRetainedEmbeddingGenerations
    MaxVersion,    \* bound: no input changes once one has changed so often
    MaxTroubles    \* bound on repairs, and builders that fail, die or lose their session

Items == 1 .. MaxItem

\* The row of a generation and of its build.
GenState == [state : {"building", "ready", "stale", "cancelled", "discarded"},
             after : 0 .. MaxItem, lease : Builders \cup {None},
             covered : 0 .. MaxItem, through : 0 .. MaxItem, targets : SUBSET Items]

ASSUME EmbeddingAssumption ==
    /\ Kinds \subseteq {"message", "entity", "report"} /\ Kinds # {}
    /\ MaxItem \in Nat /\ PageLimit \in Nat \ {0} /\ MaxRetained \in Nat
    /\ MaxVersion \in Nat /\ MaxTroubles \in Nat
    /\ IsFiniteSet(Gens)
    /\ None \notin Gens \cup Builders \cup Nat /\ None \notin GenState

VARIABLES
    kind,      \* which of the three stores a behaviour is about
    item,      \* an observation, entity or report: "absent", "here", "gone"
    version,   \* what its digest identifies: 0 for a message
    gen,       \* *_embedding_generation and *_embedding_build
    active,    \* *_embedding_active
    vec,       \* the vectors: the version each was computed from
    holder,    \* the session lock of each generation's build
    builder,   \* the local state of each process
    writer,    \* an open transaction that changes an entity
    troubles   \* repairs and faults so far

vars == <<kind, item, version, gen, active, vec, holder, builder, writer, troubles>>

Here == {i \in Items : item[i] = "here"}
Exists(g) == gen[g] # None
NoVector == [i \in Items |-> None]
Idle == [at |-> "idle", gen |-> None, after |-> 0,
         follow |-> FALSE, page |-> NoVector, upto |-> 0, complete |-> FALSE]

Init ==
    /\ kind \in Kinds
    /\ item = [i \in Items |-> "absent"]
    /\ version = [i \in Items |-> 0]
    /\ gen = [g \in Gens |-> None]
    /\ active = None
    /\ vec = [g \in Gens |-> NoVector]
    /\ holder = [g \in Gens |-> None]
    /\ builder = [b \in Builders |-> Idle]
    /\ writer = [i \in Items |-> None]
    /\ troubles = 0

-----------------------------------------------------------------------------
(* The inputs, and what their changes do to generations.                    *)

\* A build's row that an open change of an entity has updated, or a vector it
\* has deleted: whoever needs either waits for that transaction.
Held(g) == \E i \in Items : writer[i] # None /\ g \in writer[i]

\* The state of a generation one of whose vectors is deleted: the trigger
\* mark_*_embedding_incomplete.
Incomplete(r) ==
    IF kind # "message" /\ r.state = "ready"
    THEN [r EXCEPT !.state = "building", !.after = 0, !.lease = None]
    ELSE r

\* Generations after the vectors of one input are deleted.
WithoutVectorsOf(i) ==
    [g \in Gens |-> IF vec[g][i] # None THEN Incomplete(gen[g]) ELSE gen[g]]

\* stale_*_embedding_snapshots: a new input or any change of the set of reports.
Staled ==
    [g \in Gens |-> IF Exists(g) /\ gen[g].state # "discarded"
                    THEN [gen[g] EXCEPT !.state = "stale", !.lease = None]
                    ELSE gen[g]]

\* The targets that outlive an input, by the cascade of their foreign key.
Untargeted(G, i) ==
    [g \in Gens |-> IF G[g] # None THEN [G[g] EXCEPT !.targets = @ \ {i}] ELSE None]

NoVectorOf(i) == [g \in Gens |-> [vec[g] EXCEPT ![i] = None]]

\* A turn is ingested; a name is resolved to a new entity; a report is written.
Create(i) ==
    /\ item[i] = "absent"
    /\ kind = "message" => \A k \in Items : k < i => item[k] # "absent"
    /\ kind = "entity" => \A g \in Gens : ~Held(g)
    /\ item' = [item EXCEPT ![i] = "here"]
    /\ gen' = IF kind = "message" THEN gen ELSE Staled
    /\ UNCHANGED <<kind, version, active, vec, holder, builder, writer, troubles>>

\* An erasure or a sweep removes the observation, the entity or the report.
Remove(i) ==
    /\ item[i] = "here" /\ writer[i] = None
    /\ \A g \in Gens : ~Held(g)
    /\ item' = [item EXCEPT ![i] = "gone"]
    /\ vec' = NoVectorOf(i)
    /\ gen' = CASE kind = "message" -> gen
                [] kind = "entity" -> Untargeted(WithoutVectorsOf(i), i)
                [] OTHER -> Untargeted(Staled, i)
    /\ UNCHANGED <<kind, version, active, holder, builder, writer, troubles>>

\* A report is written again.  Its triggers update every build's row, so a
\* publication comes wholly before or wholly after.
ChangeReport(i) ==
    /\ kind = "report" /\ i \in Here
    /\ \A k \in Items : version[k] < MaxVersion
    /\ version' = [version EXCEPT ![i] = @ + 1]
    /\ vec' = NoVectorOf(i)
    /\ gen' = Staled
    /\ UNCHANGED <<kind, item, active, holder, builder, writer, troubles>>

\* A fact, its evidence or a name of an entity is written: the trigger deletes
\* the vectors that exist now.  The advisory lock it takes is named after the
\* project, the publication's after the schema, so neither waits for the other.
\* One change is open at a time; one that rolls back never began.
BeginChange(i) ==
    /\ kind = "entity" /\ i \in Here
    /\ \A k \in Items : writer[k] = None
    /\ \A k \in Items : version[k] < MaxVersion
    /\ writer' = [writer EXCEPT ![i] = {g \in Gens : vec[g][i] # None}]
    /\ UNCHANGED <<kind, item, version, gen, active, vec, holder, builder, troubles>>

\* That transaction commits.
CommitChange(i) ==
    /\ writer[i] # None
    /\ version' = [version EXCEPT ![i] = @ + 1]
    /\ vec' = [g \in Gens |-> IF g \in writer[i] THEN [vec[g] EXCEPT ![i] = None] ELSE vec[g]]
    /\ gen' = [g \in Gens |-> IF g \in writer[i] THEN Incomplete(gen[g]) ELSE gen[g]]
    /\ writer' = [writer EXCEPT ![i] = None]
    /\ UNCHANGED <<kind, item, active, holder, builder, troubles>>

-----------------------------------------------------------------------------
(* The operator's operations, each in one transaction under the project's    *)
(* policy lock.                                                             *)

LogEnd == Max({0} \cup Here)

\* Start: a boundary in the log, or the snapshot of targets.
Start(g) ==
    /\ ~Exists(g)
    /\ Cardinality({h \in Gens : Exists(h) /\ gen[h].state # "discarded"}) < MaxRetained
    /\ gen' = [gen EXCEPT ![g] =
         [state |-> "building", after |-> 0, lease |-> None, covered |-> 0,
          through |-> IF kind = "message" THEN LogEnd ELSE 0,
          targets |-> IF kind = "message" THEN {} ELSE Here]]
    /\ UNCHANGED <<kind, item, version, active, vec, holder, builder, writer, troubles>>

\* The inputs a generation is to cover: the messages up to its boundary, or
\* the targets of its snapshot.
Inputs(g) == IF kind = "message" THEN {i \in Here : i <= gen[g].through} ELSE gen[g].targets

\* What Activate counts for itself, whatever the build's state says.
NothingMissing(g) == \A i \in Inputs(g) : vec[g][i] # None

Activate(g) ==
    /\ Exists(g) /\ ~Held(g)
    /\ active # g
    /\ gen[g].state = "ready"
    /\ NothingMissing(g)
    /\ active' = g
    /\ UNCHANGED <<kind, item, version, gen, vec, holder, builder, writer, troubles>>

\* Cancel, of a generation that is not active.
Cancel(g) ==
    /\ Exists(g) /\ ~Held(g)
    /\ active # g
    /\ gen[g].state \notin {"cancelled", "discarded"}
    /\ gen' = [gen EXCEPT ![g].state = "cancelled", ![g].lease = None]
    /\ UNCHANGED <<kind, item, version, active, vec, holder, builder, writer, troubles>>

\* Whether a generation may lose its vectors.
Prunable(g) == active # g /\ gen[g].state \notin {"building", "discarded"}

\* Prune deletes a page of vectors, and the generation when none is left.
\* Deleting from a ready snapshot makes it incomplete, by the same trigger.
Stored(g) == {i \in Items : vec[g][i] # None}
FirstPage(g) == {i \in Stored(g) : Cardinality({k \in Stored(g) : k < i}) < PageLimit}
Emptied(g) == FirstPage(g) = Stored(g)

Prune(g) ==
    LET left == IF FirstPage(g) = {} THEN gen[g] ELSE Incomplete(gen[g]) IN
    /\ Exists(g) /\ ~Held(g)
    /\ Prunable(g)
    /\ vec' = [vec EXCEPT ![g] = [i \in Items |-> IF i \in FirstPage(g) THEN None ELSE @[i]]]
    /\ gen' = [gen EXCEPT ![g] =
         IF Emptied(g) THEN [left EXCEPT !.state = "discarded", !.lease = None] ELSE left]
    /\ UNCHANGED <<kind, item, version, active, holder, builder, writer, troubles>>

\* What Repair makes of a build: its range again from the start, and no page
\* that is on its way.
Reset(r) == [r EXCEPT !.state = "building", !.after = 0, !.lease = None, !.covered = 0]

Repair(g) ==
    /\ Exists(g) /\ ~Held(g)
    /\ gen[g].state # "discarded"
    /\ kind # "message" => gen[g].state # "stale"
    /\ troubles < MaxTroubles
    /\ troubles' = troubles + 1
    /\ gen' = [gen EXCEPT ![g] = Reset(gen[g])]
    /\ UNCHANGED <<kind, item, version, active, vec, holder, builder, writer>>

\* CatchUpPage, first part: the active generation of messages covers its
\* boundary, and the log has moved on.  The follower then builds a page.
LogHead == Cardinality({i \in Items : item[i] # "absent"})

Extend(g) ==
    /\ kind = "message" /\ active = g
    /\ gen[g].state = "ready"
    /\ gen[g].covered = gen[g].through
    /\ LogHead > gen[g].through
    /\ gen' = [gen EXCEPT ![g].state = "building", ![g].through = LogHead,
                          ![g].after = gen[g].through, ![g].lease = None]
    /\ UNCHANGED <<kind, item, version, active, vec, holder, builder, writer, troubles>>

-----------------------------------------------------------------------------
(* A builder: BuildPage, and CatchUpPage with follow.                       *)

Stop(b) ==
    /\ builder' = [builder EXCEPT ![b] = Idle]
    /\ holder' = [g \in Gens |-> IF holder[g] = b THEN None ELSE holder[g]]

\* Nobody can present the lease of a page that was given up.
Unleased(b) ==
    [g \in Gens |-> IF Exists(g) /\ gen[g].lease = b THEN [gen[g] EXCEPT !.lease = None]
                                                    ELSE gen[g]]

\* The session lock, then the lease.  A lease is a fresh identifier; a process
\* has one page at a time, so here it is the name of the process.
Take(b, g, follow) ==
    /\ builder[b].at = "idle"
    /\ Exists(g) /\ ~Held(g)
    /\ holder[g] = None
    /\ gen[g].state = "building"
    /\ follow => kind = "message" /\ active = g
    /\ gen' = [gen EXCEPT ![g].lease = b]
    /\ builder' = [builder EXCEPT ![b] =
         [Idle EXCEPT !.at = "read", !.gen = g, !.follow = follow, !.after = gen[g].after]]
    /\ holder' = [holder EXCEPT ![g] = b]
    /\ UNCHANGED <<kind, item, version, active, vec, writer, troubles>>

\* The next inputs after the cursor, with one more to know whether any is left.
Ahead(b) == {i \in Inputs(builder[b].gen) : i > builder[b].after}
PageOf(b) == {i \in Ahead(b) : Cardinality({k \in Ahead(b) : k < i}) < PageLimit}

\* The inputs of a page are read, and the model is asked about them.
Read(b) ==
    /\ builder[b].at = "read"
    /\ builder' = [builder EXCEPT
         ![b].at = "commit",
         ![b].page = [i \in Items |-> IF i \in PageOf(b) THEN version[i] ELSE None],
         ![b].upto = Max(PageOf(b) \cup {builder[b].after}),
         ![b].complete = (PageOf(b) = Ahead(b))]
    /\ UNCHANGED <<kind, item, version, gen, active, vec, holder, writer, troubles>>

\* The page is current while the build goes on, whoever has it.
CurrentAnyLease(b) ==
    LET w == builder[b] IN
    /\ gen[w.gen].state = "building"
    /\ w.follow => active = w.gen

\* The build is what it was when the lease was written.
Current(b) ==
    LET w == builder[b] IN
    /\ gen[w.gen].state = "building"
    /\ gen[w.gen].lease = b
    /\ gen[w.gen].after = w.after
    /\ w.follow => active = w.gen

\* The inputs of the page, whatever became of them.
WholePage(b) == {i \in Items : builder[b].page[i] # None}

\* The inputs of the page that are still there, and the input it was made from.
Surviving(b) == {i \in Items : builder[b].page[i] # None /\ item[i] = "here"}
Unmoved(b) == \A i \in Surviving(b) : version[i] = builder[b].page[i]

\* A vector that is stored already was computed from the same input.
Compatible(b) ==
    \A i \in Surviving(b) : vec[builder[b].gen][i] \in {None, builder[b].page[i]}

\* The page commits.
Commit(b) ==
    LET w == builder[b] IN
    /\ w.at = "commit"
    /\ ~Held(w.gen)
    /\ Current(b) /\ Unmoved(b) /\ Compatible(b)
    /\ vec' = [vec EXCEPT ![w.gen] =
         [i \in Items |-> IF i \in Surviving(b) THEN w.page[i] ELSE @[i]]]
    /\ gen' = [gen EXCEPT ![w.gen] =
         [@ EXCEPT !.after = w.upto, !.lease = None,
                   !.state = IF w.complete THEN "ready" ELSE "building",
                   !.covered = IF w.complete THEN gen[w.gen].through ELSE gen[w.gen].covered]]
    /\ Stop(b)
    /\ UNCHANGED <<kind, item, version, active, writer, troubles>>

\* The page is refused (ErrEmbeddingConflict), and nothing of it is kept.
Refuse(b) ==
    /\ builder[b].at = "commit"
    /\ ~Held(builder[b].gen)
    /\ ~(Current(b) /\ Unmoved(b) /\ Compatible(b))
    /\ gen' = Unleased(b)
    /\ Stop(b)
    /\ UNCHANGED <<kind, item, version, active, vec, writer, troubles>>

\* The process dies, or the model or the database fails it.
Fail(b) ==
    /\ builder[b].at # "idle"
    /\ troubles < MaxTroubles
    /\ troubles' = troubles + 1
    /\ gen' = Unleased(b)
    /\ Stop(b)
    /\ UNCHANGED <<kind, item, version, active, vec, writer>>

\* The session that holds the lock is cut, and the process goes on.
Disconnect(b) ==
    /\ \E g \in Gens : holder[g] = b
    /\ troubles < MaxTroubles
    /\ troubles' = troubles + 1
    /\ holder' = [g \in Gens |-> IF holder[g] = b THEN None ELSE holder[g]]
    /\ UNCHANGED <<kind, item, version, gen, active, vec, builder, writer>>

-----------------------------------------------------------------------------
(* What a search reads, in one transaction: the vectors of the active        *)
(* generation.  A search of messages asks nothing of its state; one of a     *)
(* snapshot is refused until the generation is ready again.                  *)

Found == {i \in Here : vec[active][i] # None}
Refused == kind # "message" /\ gen[active].state # "ready"

-----------------------------------------------------------------------------
Step(b) == Read(b) \/ Commit(b) \/ Refuse(b)

Next ==
    \/ \E i \in Items : \/ Create(i) \/ Remove(i) \/ ChangeReport(i)
                        \/ BeginChange(i) \/ CommitChange(i)
    \/ \E g \in Gens : \/ Start(g) \/ Activate(g) \/ Cancel(g) \/ Prune(g)
                       \/ Repair(g) \/ Extend(g)
    \/ \E b \in Builders : \/ Step(b) \/ Fail(b) \/ Disconnect(b)
                           \/ \E g \in Gens, f \in BOOLEAN : Take(b, g, f)

Spec == Init /\ [][Next]_vars

-----------------------------------------------------------------------------
(* Properties.                                                              *)

\* The tables' own constraints: coverage lies within its boundary, at most two
\* generations are retained, a discarded one has no vector.
TypeOK ==
    /\ kind \in Kinds
    /\ item \in [Items -> {"absent", "here", "gone"}]
    /\ version \in [Items -> 0 .. MaxVersion]
    /\ gen \in [Gens -> GenState \cup {None}]
    /\ active \in Gens \cup {None}
    /\ vec \in [Gens -> [Items -> 0 .. MaxVersion \cup {None}]]
    /\ holder \in [Gens -> Builders \cup {None}]
    /\ \A i \in Items : writer[i] = None \/ writer[i] \subseteq Gens
    /\ \A g \in Gens : Exists(g) =>
        /\ gen[g].covered <= gen[g].through
        /\ gen[g].state = "discarded" => \A i \in Items : vec[g][i] = None
    /\ Cardinality({g \in Gens : Exists(g) /\ gen[g].state # "discarded"}) <= MaxRetained

\* The generation a search reads is never cancelled or discarded under it, and
\* no generation of any state keeps a vector of an input that is gone.
ActiveStands ==
    /\ active # None =>
        /\ Exists(active)
        /\ gen[active].state \notin {"cancelled", "discarded"}
    /\ \A g \in Gens, i \in Items : vec[g][i] # None => item[i] = "here"

\* A search answers for what it says it covers, while builds, repairs,
\* cancellations, prunes, changes and late pages come in any order.  Messages:
\* every message up to the covered boundary is found.  Reports: every
\* report of a ready generation's snapshot has the vector of its current text.
SearchAnswersForItsRange ==
    active # None =>
        /\ kind = "message" => {i \in Here : i <= gen[active].covered} \subseteq Found
        /\ kind = "report" /\ ~Refused =>
            /\ gen[active].targets \subseteq Found
            /\ \A i \in Found : vec[active][i] = version[i]

=============================================================================
