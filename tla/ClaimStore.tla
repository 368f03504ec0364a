------------------------------ MODULE ClaimStore ------------------------------
(***************************************************************************)
(* The facts of one project, as src/internal/infra/pg keeps them: claims   *)
(* asserted from a source, superseded, withdrawn and corrected by people,  *)
(* reinterpreted by a published generation, lost, recovered and erased.    *)
(*                                                                         *)
(* A fact holds a value of a slot (a subject and a relation) over two      *)
(* half-open intervals: [vf, vt), when it is true, and [kf, kt), when the  *)
(* store believes it.  The receipt of a fact is kept equal to its row by a *)
(* trigger, so `fact' stands for both, and `lost' names the facts whose    *)
(* row is gone and whose receipt is left.                                  *)
(*                                                                         *)
(* A transaction of the store that other writers can interleave with is    *)
(* two actions: the first takes the source lock and reads the clock, the   *)
(* second takes the last locks, writes and commits.  A transaction that    *)
(* waits for a lock is an action that is not enabled.                      *)
(***************************************************************************)
EXTENDS Integers, FiniteSets, SequencesExt, FiniteSetsExt

CONSTANTS
    Turns,          \* sources a conversation wrote
    Edits,          \* sources a person's edit will write
    Slots,          \* pairs of a subject and a relation
    Single,         \* the slots whose relation has cardinality one
    Values,         \* the objects a claim can name
    Claims,         \* what a message can be read to say, and what a person may author
    Versions,       \* extractor versions; `curated/v1' is not one of them
    Writers,        \* concurrent transactions
    Curated,        \* CuratedExtractorVersion
    None,
    Rebuilt,        \* bound: the turns that are reinterpreted
    Horizon,        \* bound: the last instant of either axis
    MaxGenerations, \* bound: generations published for one source
    MaxLosses       \* bound: no row is lost once so many slots are vacated

Sources == Turns \cup Edits
Instants == 1 .. Horizon
Never == Horizon + 1

ASSUME ClaimAssumption ==
    /\ Turns \cap Edits = {}
    /\ Single \subseteq Slots /\ Rebuilt \subseteq Turns
    /\ Claims \subseteq [src : Sources, slot : Slots, val : Values, at : Instants]
    /\ IsFiniteSet(Claims)
    /\ Curated \notin Versions
    /\ None \notin Sources \cup Versions
    /\ None \notin [ver : Versions \cup {Curated}, gen : 0 .. MaxGenerations]
    /\ Horizon \in Nat /\ MaxGenerations \in Nat /\ MaxLosses \in Nat

\* The identity of a fact: a hash of its source, its message and its claim, and of the generation
\* that admitted it when one did (generation 0 is none).
Identities ==
    [src : Sources, slot : Slots, val : Values, at : Instants, gen : 0 .. MaxGenerations]

Identity(c, n) == [src |-> c.src, slot |-> c.slot, val |-> c.val, at |-> c.at, gen |-> n]

VARIABLES
    alive,      \* sources whose observation row exists
    fact,       \* the receipt of each fact ever admitted and not erased
    lost,       \* facts whose row is missing
    history,    \* intervals a fact had before it was superseded
    withdrawn,  \* record_retraction: what people withdrew, and the correction that replaced it
    pin,        \* source_extraction: the version that interprets a source, and its generation
    applied,    \* fact_generation: when each generation of a source was published
    prepared,   \* what a rebuild holds of a source: a snapshot that still matches it, or not
    tx,         \* the transaction each writer has open
    vacated     \* slots that lost a row, or a fact an erased source had ended (for the properties)

vars == <<alive, fact, lost, history, withdrawn, pin, applied, prepared, tx, vacated>>

Stored == [vf : Instants, vt : 2 .. Never, kf : Instants, kt : 2 .. Never,
           by : Sources \cup {None}, ver : Versions \cup {Curated}]
Idle == [kind |-> "idle"]

-----------------------------------------------------------------------------
(* Reading the store                                                       *)

Ids == DOMAIN fact
Overlap(a, b, c, d) == a < d /\ c < b
OpenKnown(f, i) == f[i].kt = Never
OpenValid(f, i) == f[i].vt = Never
RowsOf(f, l, slot) == {i \in DOMAIN f \ l : i.slot = slot}

ClashingOpenOnly(f, l, slot, vf, vt, kf, kt) ==
    {i \in RowsOf(f, l, slot) :
        slot \in Single /\ OpenKnown(f, i) /\ Overlap(f[i].vf, f[i].vt, vf, vt)}

\* Facts of a slot that the exclusion constraint will not let stand beside a new row.
Clashing(f, l, slot, vf, vt, kf, kt) ==
    {i \in RowsOf(f, l, slot) :
        /\ slot \in Single
        /\ Overlap(f[i].vf, f[i].vt, vf, vt)
        /\ Overlap(f[i].kf, f[i].kt, kf, kt)}

\* The open facts that an ordinary assertion starting at vf closes.
Previous(f, l, slot, vf) ==
    {i \in RowsOf(f, l, slot) :
        slot \in Single /\ OpenValid(f, i) /\ OpenKnown(f, i) /\ f[i].vf < vf}

\* The instant a new fact is known from: the clock, and never before knowledge it follows.
Stamp(slot, vf, clock) ==
    IF slot \notin Single THEN clock
    ELSE Max({clock}
             \cup {fact[i].kf + 1 : i \in Previous(fact, lost, slot, vf)}
             \cup {fact[i].kt : i \in {j \in RowsOf(fact, lost, slot) :
                       ~OpenKnown(fact, j) /\ Overlap(fact[j].vf, fact[j].vt, vf, Never)}})

Withdrawn(c) == \E w \in withdrawn : w.src = c.src /\ w.slot = c.slot /\ w.val = c.val /\ w.at = c.at
Corrected(c) ==
    \E w \in withdrawn : w.src = c.src /\ w.slot = c.slot /\ w.at = c.at
        /\ w.replacement # None /\ w.target \in Ids
RefusedForWithdrawal(c) == Withdrawn(c)
RefusedForCorrection(c) == Corrected(c)
RefusedFromPlan(c) == Withdrawn(c) \/ Corrected(c)

-----------------------------------------------------------------------------
(* Locks.  The advisory lock of a source and the row lock of a slot's      *)
(* subject are held from where the first action of a transaction takes     *)
(* them; the rows a transaction closed are locked until it commits.        *)

\* A correction also holds the source it authors, which nobody else can see yet.
Sourced(p) ==
    CASE tx[p].kind = "idle" -> {}
      [] tx[p].kind = "correct" -> {tx[p].src, tx[p].edit}
      [] OTHER -> {tx[p].src}
Seated(p) == IF tx[p].kind = "assert" THEN {tx[p].claim.slot} ELSE {}
Rows(p) ==
    CASE tx[p].kind = "correct" -> {tx[p].target}
      [] tx[p].kind = "publish" -> tx[p].retired
      [] OTHER -> {}
HeldBy(lock(_), p) == UNION {lock(q) : q \in Writers \ {p}}
Quiet(s) == \A p \in Writers : s \notin Sourced(p)
FreeRows(rows) == \A p \in Writers : Rows(p) \cap rows = {}

\* A supersession waits for the rows it ends and, since ending one advances the revision of the
\* source it came from, for the transactions on that source; an insertion for the rows it meets,
\* the ones a transaction has restored and not committed among them.
Reachable(p, ended, met) ==
    /\ HeldBy(Rows, p) \cap (ended \cup met) = {}
    /\ HeldBy(Sourced, p) \cap {i.src : i \in ended} = {}

-----------------------------------------------------------------------------
(* Writing the store                                                       *)

\* A change to the facts of a source, or to its pin, changes the digest a prepared rebuild holds.
Store(f, l, h, n) ==
    /\ fact' = f
    /\ lost' = l
    /\ history' = h
    /\ pin' = n
    /\ prepared' = [s \in Sources |->
           LET Of(g) == [i \in {j \in DOMAIN g : j.src = s} |-> g[i]]
               Gone(k) == {i \in k : i.src = s}
           IN IF prepared[s] = "fresh"
                 /\ (Of(f) # Of(fact) \/ Gone(l) # Gone(lost) \/ n[s] # pin[s])
              THEN "stale" ELSE prepared[s]]

\* supersedeSQL: save the earlier interval, then end it where the new fact starts.
Supersede(f, prev, vf, at, src) ==
    [i \in DOMAIN f |->
        IF i \in prev THEN [f[i] EXCEPT !.vt = vf, !.kf = at, !.by = src] ELSE f[i]]
ArchiveNothing(f, prev, at, src) == {}
Archive(f, prev, at, src) ==
    {[id |-> i, vf |-> f[i].vf, vt |-> f[i].vt, kf |-> f[i].kf, kt |-> at, by |-> src] : i \in prev}

\* fact_history refuses an interval that would be empty.
Archivable(f, prev, at) == \A i \in prev : f[i].kf < at

Close(f, rows, at) == [i \in DOMAIN f |-> IF i \in rows THEN [f[i] EXCEPT !.kt = at] ELSE f[i]]
\* A fact recorded once is not rewritten by a second insertion.
With(f, i, row) ==
    [j \in DOMAIN f \cup {i} |-> IF j \in DOMAIN f THEN f[j] ELSE row]
NewFact(vf, vt, kf, by, ver) ==
    [vf |-> vf, vt |-> vt, kf |-> kf, kt |-> Never, by |-> by, ver |-> ver]

Init ==
    /\ alive = Turns
    /\ fact = << >>
    /\ lost = {}
    /\ history = {}
    /\ withdrawn = {}
    /\ pin = [s \in Sources |-> None]
    /\ applied = [s \in Sources |-> << >>]
    /\ prepared = [s \in Sources |-> "none"]
    /\ tx = [p \in Writers |-> Idle]
    /\ vacated = {}

-----------------------------------------------------------------------------
(* An ordinary assertion: a claim a worker extracted, or a record a person *)
(* authored (a source of its own, which the transaction creates).          *)

MayInterpret(s, v) == pin[s] = None \/ pin[s] = [ver |-> v, gen |-> 0]

BeginAssert(p, c, v, clock) ==
    /\ tx[p].kind = "idle"
    /\ IF c.src \in Edits THEN c.src \notin alive /\ v = Curated
       ELSE c.src \in alive /\ v \in Versions
    /\ c.src \notin HeldBy(Sourced, p)
    /\ MayInterpret(c.src, v)
    /\ ~Withdrawn(c)
    /\ Identity(c, 0) \notin Ids
    /\ c.slot \notin HeldBy(Seated, p)
    /\ Stamp(c.slot, c.at, clock) < Never
    /\ tx' = [tx EXCEPT ![p] =
           [kind |-> "assert", src |-> c.src, claim |-> c, ver |-> v,
            at |-> Stamp(c.slot, c.at, clock)]]
    /\ UNCHANGED <<alive, fact, lost, history, withdrawn, pin, applied, prepared, vacated>>

FinishAssert(p) ==
    LET t == tx[p]
        prev == Previous(fact, lost, t.claim.slot, t.claim.at)
        ended == Supersede(fact, prev, t.claim.at, t.at, t.src)
    IN /\ t.kind = "assert"
       /\ Reachable(p, prev, Clashing(fact, {}, t.claim.slot, t.claim.at, Never, t.at, Never))
       /\ tx' = [tx EXCEPT ![p] = Idle]
       /\ IF /\ Archivable(fact, prev, t.at)
             /\ Clashing(ended, lost, t.claim.slot, t.claim.at, Never, t.at, Never) = {}
          THEN /\ Store(With(ended, Identity(t.claim, 0), NewFact(t.claim.at, Never, t.at, None, t.ver)),
                        lost, history \cup Archive(fact, prev, t.at, t.src),
                        [pin EXCEPT ![t.src] = [ver |-> t.ver, gen |-> 0]])
               /\ alive' = alive \cup {t.src}
               /\ UNCHANGED <<withdrawn, applied, vacated>>
          ELSE \* ErrConflictingValue, or a refused interval: the whole transaction is rolled back
               UNCHANGED <<alive, fact, lost, history, withdrawn, pin, applied, prepared, vacated>>

\* A claim already recorded is not repeated: a lost row comes back from its receipt as it was.
Met(i, missing) ==
    Clashing(fact, missing, i.slot, fact[i].vf, fact[i].vt, fact[i].kf, fact[i].kt) \ {i}

Restorable(ids) ==
    \A i \in ids :
        /\ fact[i].by \in alive \cup {None}
        /\ Met(i, lost \ ids) = {}
        /\ FreeRows(Met(i, {}))

Restore(ids) ==
    /\ Restorable(ids)
    /\ Store(fact, lost \ ids, history, pin)

Reassert(c) ==
    LET i == Identity(c, 0)
    IN /\ c.src \in alive
       /\ i \in lost
       /\ ~Withdrawn(c)
       /\ MayInterpret(c.src, fact[i].ver)
       /\ Quiet(c.src)
       /\ Restore({i})
       /\ UNCHANGED <<alive, withdrawn, applied, tx, vacated>>

\* RecoverFacts on the receipts of one source: all of the page, or none.
Recover(s) ==
    /\ \E i \in lost : i.src = s
    /\ Quiet(s)
    /\ Restore({i \in lost : i.src = s})
    /\ UNCHANGED <<alive, withdrawn, applied, tx, vacated>>

\* PinExtraction: a worker fixes the version of a source before it asserts or rejects anything.
PinExtraction(s, v) ==
    /\ s \in alive /\ pin[s] = None
    /\ Quiet(s)
    /\ Store(fact, lost, history, [pin EXCEPT ![s] = [ver |-> v, gen |-> 0]])
    /\ UNCHANGED <<alive, withdrawn, applied, tx, vacated>>

-----------------------------------------------------------------------------
(* Edits by people                                                         *)

\* What a withdrawal leaves behind: the source, message and claim it must not come from again.
Tombstone(i, replacement) ==
    [src |-> i.src, slot |-> i.slot, val |-> i.val, at |-> i.at, target |-> i,
     replacement |-> replacement]

Withdrawable(p, i) ==
    /\ tx[p].kind = "idle"
    /\ i \in Ids \ lost
    /\ OpenKnown(fact, i)
    /\ i.src \notin HeldBy(Sourced, p)
    /\ FreeRows({i})

EndOfKnowledge(i, clock) == Max({clock, fact[i].kf + 1})

Retract(p, i, clock) ==
    /\ Withdrawable(p, i)
    /\ EndOfKnowledge(i, clock) < Never
    /\ Store(Close(fact, {i}, EndOfKnowledge(i, clock)), lost, history, pin)
    /\ withdrawn' = withdrawn \cup {Tombstone(i, None)}
    /\ UNCHANGED <<alive, applied, tx, vacated>>

\* correctTx, up to the append of the authored source: the target is closed and locked.
BeginCorrect(p, i, c, dated, clock) ==
    /\ Withdrawable(p, i)
    /\ OpenValid(fact, i)
    /\ EndOfKnowledge(i, clock) < Never
    /\ c.src \in Edits \ alive /\ c.src \notin HeldBy(Sourced, p) /\ c.slot = i.slot
    /\ tx' = [tx EXCEPT ![p] =
           [kind |-> "correct", src |-> i.src, target |-> i, edit |-> c.src, val |-> c.val,
            since |-> IF dated THEN c.at ELSE EndOfKnowledge(i, clock),
            at |-> EndOfKnowledge(i, clock)]]
    /\ UNCHANGED <<alive, fact, lost, history, withdrawn, pin, applied, prepared, vacated>>

\* The rest of it: the replacement is known from the instant its target stops being known.
FinishCorrect(p) ==
    LET t == tx[p]
        slot == t.target.slot
        closed == Close(fact, {t.target}, t.at)
        prev == Previous(closed, lost, slot, t.since)
        ended == Supersede(closed, prev, t.since, t.at, t.edit)
        new == [src |-> t.edit, slot |-> slot, val |-> t.val, at |-> t.since, gen |-> 0]
    IN /\ t.kind = "correct"
       /\ slot \notin HeldBy(Seated, p)
       /\ Reachable(p, prev, Clashing(closed, {}, slot, t.since, Never, t.at, Never))
       /\ tx' = [tx EXCEPT ![p] = Idle]
       /\ IF /\ Archivable(closed, prev, t.at)
             /\ Clashing(ended, lost, slot, t.since, Never, t.at, Never) = {}
          THEN /\ Store(With(ended, new, NewFact(t.since, Never, t.at, None, Curated)),
                        lost, history \cup Archive(closed, prev, t.at, t.edit),
                        [pin EXCEPT ![t.edit] = [ver |-> Curated, gen |-> 0]])
               /\ alive' = alive \cup {t.edit}
               /\ withdrawn' = withdrawn \cup {Tombstone(t.target, t.edit)}
               /\ UNCHANGED <<applied, vacated>>
          ELSE UNCHANGED <<alive, fact, lost, history, withdrawn, pin, applied, prepared, vacated>>

-----------------------------------------------------------------------------
(* Reinterpretation: a generation replaces what the model made of a turn   *)

Prepare(s) ==
    /\ s \in Rebuilt \cap alive
    /\ prepared[s] # "fresh"
    /\ Len(applied[s]) < MaxGenerations
    /\ prepared' = [prepared EXCEPT ![s] = "fresh"]
    /\ UNCHANGED <<alive, fact, lost, history, withdrawn, pin, applied, tx, vacated>>

\* The digest of the source no longer matches: nothing is published.
RefusePublish(s) ==
    /\ prepared[s] = "stale"
    /\ prepared' = [prepared EXCEPT ![s] = "none"]
    /\ UNCHANGED <<alive, fact, lost, history, withdrawn, pin, applied, tx, vacated>>

PresentOf(s) ==
    {i \in Ids \ lost : i.src = s /\ OpenKnown(fact, i) /\ fact[i].ver # Curated}
OpenOf(s) == {i \in Ids : i.src = s /\ OpenKnown(fact, i) /\ fact[i].ver # Curated}

\* After everything this source was known by, and after its last generation.
AppliedAt(s, clock) ==
    Max({clock}
        \cup {a + 1 : a \in ToSet(applied[s])}
        \cup {(IF OpenKnown(fact, i) THEN fact[i].kf ELSE fact[i].kt) + 1 :
                  i \in {j \in Ids \ (lost \ OpenOf(s)) : j.src = s}})

\* ApplyGeneration, up to the first claim: lost open facts return, and all open facts are locked.
BeginPublish(p, s, v, clock) ==
    /\ tx[p].kind = "idle"
    /\ prepared[s] = "fresh"
    /\ s \notin HeldBy(Sourced, p)
    /\ FreeRows(OpenOf(s))
    /\ Restorable(lost \cap OpenOf(s))
    /\ AppliedAt(s, clock) < Never
    /\ tx' = [tx EXCEPT ![p] = [kind |-> "publish", src |-> s, ver |-> v, retired |-> OpenOf(s),
                                at |-> AppliedAt(s, clock)]]
    /\ UNCHANGED <<alive, fact, lost, history, withdrawn, pin, applied, prepared, vacated>>

\* The facts of its own generation that a claim falls into, the later facts that bound it, and the
\* first of those.
Own(g, t, n, c) ==
    {i \in RowsOf(g.f, g.l, c.slot) :
        /\ i.src = t.src /\ i.gen = n /\ OpenKnown(g.f, i)
        /\ g.f[i].vf < c.at /\ c.at < g.f[i].vt}
Later(g, c) == {i \in RowsOf(g.f, g.l, c.slot) : OpenKnown(g.f, i) /\ g.f[i].vf > c.at}
First(g, c) == CHOOSE i \in Later(g, c) : \A j \in Later(g, c) : g.f[i].vf <= g.f[j].vf

\* The rows once the claim has shortened those of its own generation.
Shortened(g, t, n, c) ==
    IF c.slot \notin Single THEN g.f
    ELSE [i \in DOMAIN g.f |->
             IF i \in Own(g, t, n, c) THEN [g.f[i] EXCEPT !.vt = c.at, !.by = t.src] ELSE g.f[i]]

\* One claim of a generation: what it would overlap all the same refuses it.
Admit(g, t, n, c) ==
    LET cut == Shortened(g, t, n, c)
        bounded == Later(g, c) # {} /\ c.slot \in Single
        until == IF bounded THEN g.f[First(g, c)].vf ELSE Never
        by == IF bounded THEN First(g, c).src ELSE None
    IN IF RefusedFromPlan(c)
          \/ Clashing(cut, g.l, c.slot, c.at, until, t.at, Never) # {}
       THEN g
       ELSE [f |-> With(cut, Identity(c, n), NewFact(c.at, until, t.at, by, t.ver)), l |-> g.l]

\* The orders a model can have given its claims in, once they are sorted by what they say.
Orders(claims) ==
    {o \in [1 .. Cardinality(claims) -> claims] :
        \A i, j \in DOMAIN o : i < j => o[i] # o[j] /\ o[i].at <= o[j].at}

\* The rows and the missing rows after each claim: each in a savepoint of its own.
Admitted(start, t, n, order) ==
    LET g[k \in 0 .. Len(order)] ==
            IF k = 0 THEN start ELSE Admit(g[k - 1], t, n, order[k])
    IN g[Len(order)]

\* The rest of ApplyGeneration: what is locked is closed, the claims are admitted, the source pinned.
FinishPublish(p, claims, order) ==
    LET t == tx[p]
        n == Len(applied[t.src]) + 1
        start == [f |-> Close(fact, t.retired, t.at), l |-> lost \ t.retired]
        g == Admitted(start, t, n, order)
        slots == {c.slot : c \in claims}
    IN /\ t.kind = "publish"
       /\ slots \cap HeldBy(Seated, p) = {}
       /\ \A c \in claims :
              Reachable(p, {}, Clashing(start.f, {}, c.slot, c.at, Never, t.at, Never))
       /\ Store(g.f, g.l, history, [pin EXCEPT ![t.src] = [ver |-> t.ver, gen |-> n]])
       /\ applied' = [applied EXCEPT ![t.src] = Append(applied[t.src], t.at)]
       /\ tx' = [tx EXCEPT ![p] = Idle]
       /\ UNCHANGED <<alive, withdrawn, vacated>>

-----------------------------------------------------------------------------
(* Rollback, erasure and faults                                            *)

\* A connection is lost, a process dies, or the database breaks a cycle of waits.
Abort(p) ==
    /\ tx[p].kind # "idle"
    /\ tx' = [tx EXCEPT ![p] = Idle]
    /\ UNCHANGED <<alive, fact, lost, history, withdrawn, pin, applied, prepared, vacated>>

SaidBy(gone) == {i \in Ids : i.src \in gone}

\* An erased source takes the facts it caused with it: those it said and those it ended.
Derived(gone) == {i \in Ids : i.src \in gone \/ fact[i].by \in gone}

Erase(gone) ==
    /\ gone # {} /\ gone \subseteq alive
    /\ \A s \in gone : Quiet(s)
    /\ FreeRows(Derived(gone))
    /\ alive' = alive \ gone
    /\ fact' = [i \in Ids \ Derived(gone) |-> fact[i]]
    /\ lost' = lost \ Derived(gone)
    /\ history' = {h \in history : h.id \notin Derived(gone) /\ h.by \notin gone}
    /\ withdrawn' = {[w EXCEPT !.replacement = IF w.replacement \in gone THEN None ELSE w.replacement] :
                         w \in {x \in withdrawn : x.src \notin gone}}
    /\ pin' = [s \in Sources |-> IF s \in gone THEN None ELSE pin[s]]
    /\ applied' = [s \in Sources |-> IF s \in gone THEN << >> ELSE applied[s]]
    /\ prepared' = [s \in Sources |->
           IF s \in gone THEN "none"
           ELSE IF prepared[s] = "fresh" /\ \E i \in Derived(gone) \ lost : i.src = s THEN "stale"
           ELSE prepared[s]]
    /\ vacated' = vacated \cup {i.slot : i \in {j \in Derived(gone) : j.src \notin gone}}
    /\ UNCHANGED tx

\* Losing a row: a damaged or truncated projection, which the receipts are kept for.
Lose(i) ==
    /\ i \in Ids \ lost
    /\ Cardinality(vacated) < MaxLosses
    /\ FreeRows({i})
    /\ Store(fact, lost \cup {i}, history, pin)
    /\ vacated' = vacated \cup {i.slot}
    /\ UNCHANGED <<alive, withdrawn, applied, tx>>

Next ==
    \/ \E p \in Writers, clock \in Instants :
          \/ \E c \in Claims, v \in Versions \cup {Curated} : BeginAssert(p, c, v, clock)
          \/ \E i \in Ids : Retract(p, i, clock)
          \/ \E i \in Ids, c \in Claims, dated \in BOOLEAN : BeginCorrect(p, i, c, dated, clock)
          \/ \E s \in Turns, v \in Versions : BeginPublish(p, s, v, clock)
    \/ \E p \in Writers :
          \/ FinishAssert(p)
          \/ FinishCorrect(p)
          \/ \E claims \in SUBSET {c \in Claims : Sourced(p) = {c.src}} :
                \E order \in Orders(claims) : FinishPublish(p, claims, order)
          \/ Abort(p)
    \/ \E s \in Turns :
          \/ \E v \in Versions : PinExtraction(s, v)
          \/ Prepare(s)
          \/ RefusePublish(s)
    \/ \E i \in lost : Reassert([src |-> i.src, slot |-> i.slot, val |-> i.val, at |-> i.at])
    \/ \E s \in Sources : Recover(s)
    \/ \E gone \in {{s} : s \in Sources} \cup {alive} : Erase(gone)
    \/ \E i \in Ids : Lose(i)

Spec == Init /\ [][Next]_vars

-----------------------------------------------------------------------------
(* Properties                                                              *)

Transactions ==
    {Idle}
    \cup [kind : {"assert"}, src : Sources, ver : Versions \cup {Curated}, at : Instants,
          claim : Claims]
    \cup [kind : {"correct"}, src : Sources, target : Identities, edit : Edits, val : Values,
          since : Instants, at : Instants]
    \cup [kind : {"publish"}, src : Turns, ver : Versions, retired : SUBSET Identities, at : Instants]

\* Every variable has its type, and no interval is empty.
TypeOK ==
    /\ alive \subseteq Sources
    /\ Ids \subseteq Identities
    /\ \A i \in Ids : fact[i] \in Stored /\ fact[i].vf < fact[i].vt /\ fact[i].kf < fact[i].kt
    /\ lost \subseteq Ids
    /\ \A h \in history : h.id \in Ids /\ h.vf < h.vt /\ h.kf < h.kt /\ h.by \in Sources
    /\ \A w \in withdrawn : w.src \in Sources /\ w.replacement \in Edits \cup {None}
    /\ pin \in [Sources -> [ver : Versions \cup {Curated}, gen : 0 .. MaxGenerations] \cup {None}]
    /\ \A s \in Sources : applied[s] \in BoundedSeq(Instants, MaxGenerations)
    /\ prepared \in [Sources -> {"none", "fresh", "stale"}]
    /\ \A p \in Writers : tx[p] \in Transactions

\* Everything a reader can be told: live facts, and the intervals saved when they were superseded.
Told(f, l, h) ==
    {[id |-> i, vf |-> f[i].vf, vt |-> f[i].vt, kf |-> f[i].kf, kt |-> f[i].kt] : i \in DOMAIN f \ l}
    \cup {[id |-> x.id, vf |-> x.vf, vt |-> x.vt, kf |-> x.kf, kt |-> x.kt] :
              x \in {y \in h : y.id \notin l}}

\* What a slot held at the instant v, as it was known at the instant k.
Answer(told, slot, v, k) ==
    {t.id : t \in {u \in told : /\ u.id.slot = slot
                                /\ u.vf <= v /\ v < u.vt /\ u.kf <= k /\ k < u.kt}}

\* A relation of cardinality one never had two answers, whatever instant is asked about and whatever
\* instant it was known at, the intervals kept for history included.  The exclusion constraint sees
\* the live rows only.  (In a slot that lost rows, a new
\* fact cannot be ordered after what is missing.)
OneAnswer ==
    LET told == Told(fact, lost, history)
    IN \A slot \in Single \ vacated, v \in Instants, k \in Instants :
           Cardinality(Answer(told, slot, v, k)) <= 1

\* The first instant whose answer about v nothing has fixed: what is believed at v has been believed
\* for an instant, and what is not was believed until its end.
Settled(told, slot, v) ==
    Max({1} \cup {IF t.kt = Never THEN t.kf + 1 ELSE t.kt :
                     t \in {u \in told : u.id.slot = slot /\ u.vf <= v /\ v < u.vt}})

\* What was believed is not rewritten: but by an erasure, no step changes the answer
\* about an instant as it was known at a time already settled, even if the clock has stepped back.
PastKnowledgeStands ==
    [][alive \subseteq alive' =>
         LET before == Told(fact, lost, history)
             after == Told(fact', lost', history')
         IN before # after => \A slot \in Single \ vacated', v \in Instants :
              \A k \in 1 .. (Settled(before, slot, v) - 1) :
                 Answer(before, slot, v, k) = Answer(after, slot, v, k)]_vars

\* A claim a person withdrew is not believed again from the message it came from, however often the
\* message is retried, recovered or reinterpreted.
WithdrawnStaysWithdrawn ==
    \A i \in Ids : OpenKnown(fact, i) =>
        ~Withdrawn([src |-> i.src, slot |-> i.slot, val |-> i.val, at |-> i.at])

\* Nor does a reinterpretation make the message say anything else in the single-valued slot a person
\* corrected.  (A retry of the first extraction is held to the withdrawal alone.)
CorrectionGoverns ==
    \A i \in Ids \ lost : (OpenKnown(fact, i) /\ i.slot \in Single /\ i.gen > 0) =>
        ~Corrected([src |-> i.src, slot |-> i.slot, val |-> i.val, at |-> i.at])

\* What is believed of a source comes from one extraction of it: the one its pin names.
OneExtraction ==
    \A i \in Ids : OpenKnown(fact, i) => pin[i.src] = [ver |-> fact[i].ver, gen |-> i.gen]

\* An erased source leaves nothing: no fact it said or ended, no history, no instruction, no pin.
ErasedLeavesNothing ==
    \A s \in Sources \ alive :
        /\ \A i \in Ids : i.src # s /\ fact[i].by # s
        /\ \A h \in history : h.by # s /\ h.id.src # s
        /\ \A w \in withdrawn : w.src # s /\ w.replacement # s
        /\ pin[s] = None /\ applied[s] = << >>
=============================================================================
