----------------------------- MODULE Compaction ------------------------------
(* The roll-up of one person's history.  The newest formed turns stay as     *)
(* they were said; behind them every run of Branch units becomes a segment,  *)
(* a summary a model writes: of turns at level 1, of segments of the level   *)
(* below above that.  A replica's pass reads the turns, reads the segments,  *)
(* plans the next segment, reads its material, asks the model and writes,    *)
(* each a statement of its own and no lock held between them.  Meanwhile     *)
(* turns form, out of order when one failed or was parked, turns are erased, *)
(* and other replicas run the same pass.                                     *)
(*                                                                          *)
(* Code: internal/compaction/compaction.go, internal/formation/compaction.go,*)
(* internal/infra/pg/segmentstore.go, migration 0055.                        *)
EXTENDS Integers, FiniteSets, Sequences, FiniteSetsExt

CONSTANTS
    MaxTurn,    \* bound on the turns of the person, numbered as in the log
    Replicas,   \* worker processes that run the pass
    Branch,     \* units in a segment
    Verbatim,   \* newest turns that are never covered
    MinGapRun,  \* the shortest run that a covered unit closes
    MaxLevel,
    TurnSize,   \* the characters of a turn's messages
    MaxMaterial,\* MaxMaterialCharacters: what one summary is written from, at most
    MaxWaiting, \* bound on the turns left waiting while a later one forms
    MaxErased   \* bound on erased turns

ASSUME CompactionAssumption ==
    /\ {MaxTurn, MaxWaiting, MaxErased} \subseteq Nat
    /\ {Branch, Verbatim, MinGapRun, MaxLevel} \subseteq Nat \ {0}
    /\ MinGapRun <= Branch
    /\ MaxMaterial \in Nat /\ TurnSize \in [1 .. MaxTurn -> Nat]

VARIABLES
    turn,      \* of each turn: "waiting" to form or parked, "formed", "gone"
    segments,  \* the rows of segment, with what each was written from
    pass,      \* of each replica: where its pass is, and what it has read
    newest,    \* the latest turn that has ever formed
    missed     \* whether a turn formed after a later one, or a plan passed over a turn

cvars == <<turn, segments, pass, newest, missed>>

Turns == 1 .. MaxTurn
Formed == {t \in Turns : turn[t] = "formed"}
Within(S, r) == {t \in S : r.from <= t /\ t <= r.to}

NoPlan == [level |-> 0, from |-> 0, to |-> 0, units |-> {}, turns |-> 0]
Idle == [at |-> "idle", turns |-> {}, plan |-> NoPlan, said |-> {}]

CInit ==
    /\ turn = [t \in Turns |-> "waiting"]
    /\ segments = {}
    /\ pass = [r \in Replicas |-> Idle]
    /\ newest = 0
    /\ missed = FALSE

-----------------------------------------------------------------------------
(* The planner: compaction.Next.                                            *)

\* The turns of T that a segment may cover: all but the newest.
Compactable(T) == {t \in T : Cardinality({u \in T : u > t}) >= Verbatim}

\* What a segment of a level is made of: turns, or segments of the level below.
Units(level, T, S) ==
    IF level = 1
    THEN {[from |-> t, to |-> t, covered |-> 1, said |-> {t}, registered |-> {t}] : t \in Compactable(T)}
    ELSE {s \in S : s.level = level - 1}

CoveredAt(level, S, t) == \E s \in S : s.level = level /\ s.from <= t /\ t <= s.to

\* Two units next to each other, with no turn that has to be covered between them.
Adjacent(a, b, T) ==
    /\ a.to < b.from
    /\ \A t \in Compactable(T) : ~(a.to < t /\ t < b.from)

\* The units by where they begin.
Ordered(units) ==
    [i \in 1 .. Cardinality(units) |->
        CHOOSE u \in units : Cardinality({v \in units : v.from < u.from}) = i - 1]

TurnsOf(units) == MapThenSumSet(LAMBDA u : u.covered, units)

\* Whether the n units from the i-th on make a segment.  A run is of uncovered
\* units, each adjacent to the next; it is complete at Branch units, or shorter when
\* a covered unit closes it, which is the gap an erasure left.
MakesSegment(i, n, order, free, linked) ==
    /\ i - 1 \notin free \cap linked
    /\ i .. i + n - 1 \subseteq free /\ i .. i + n - 2 \subseteq linked
    /\ n = Branch \/ i + n \in DOMAIN order \ free

\* The oldest run of a level that makes a segment.
Scan(level, T, S) ==
    LET order == Ordered(Units(level, T, S))
        free == {i \in DOMAIN order : ~CoveredAt(level, S, order[i].from)}
        linked == {i \in DOMAIN order : /\ i + 1 \in DOMAIN order
                                        /\ Adjacent(order[i], order[i + 1], T)}
        runs == {ends \in free \X free :
                    /\ ends[2] - ends[1] + 1 \in MinGapRun .. Branch
                    /\ MakesSegment(ends[1], ends[2] - ends[1] + 1, order, free, linked)}
        oldest == CHOOSE ends \in runs : \A other \in runs : ends[1] <= other[1]
        units == {order[k] : k \in oldest[1] .. oldest[2]}
    IN IF runs = {} THEN NoPlan
       ELSE [level |-> level, from |-> order[oldest[1]].from, to |-> order[oldest[2]].to,
             units |-> units, turns |-> TurnsOf(units)]

\* The plan of the lowest level that has one; none while everything is in the tail.
NextPlan(T, S) ==
    LET levels == {k \in 1 .. MaxLevel : Scan(k, T, S) # NoPlan} IN
    IF Cardinality(T) <= Verbatim \/ levels = {} THEN NoPlan ELSE Scan(Min(levels), T, S)

\* The formed turns in a plan's range that are under none of its units.
PassedOver(plan) ==
    {t \in Within(Formed, plan) : \A u \in plan.units : ~(u.from <= t /\ t <= u.to)}

-----------------------------------------------------------------------------
(* The history.                                                             *)

\* A turn forms: in the log's order, or late, after a retry or out of the park.
Form(t) ==
    /\ turn[t] = "waiting"
    /\ Cardinality({u \in 1 .. t - 1 : turn[u] = "waiting"}) <= MaxWaiting
    /\ turn' = [turn EXCEPT ![t] = "formed"]
    /\ newest' = Max({newest, t})
    /\ missed' = (missed \/ t < newest)
    /\ UNCHANGED <<segments, pass>>

\* The segments an erased turn takes with it: those registered to it.
Reached(t) == {s \in segments : t \in s.registered}

\* An erasure or a sweep removes a turn and what is registered to it.  It locks
\* the turn first, and a registration's foreign key waits for that lock, so it
\* comes wholly before or wholly after a Write.
Erase(t) ==
    /\ turn[t] # "gone"
    /\ Cardinality({u \in Turns : turn[u] = "gone"}) < MaxErased
    /\ turn' = [turn EXCEPT ![t] = "gone"]
    /\ segments' = segments \ Reached(t)
    /\ UNCHANGED <<pass, newest, missed>>

-----------------------------------------------------------------------------
(* A replica's pass: Compaction.one.                                        *)

\* The subject is listed while it has more turns than the tail; its turns are read.
ReadTurns(r) ==
    /\ pass[r].at = "idle"
    /\ Cardinality(Formed) > Verbatim
    /\ pass' = [pass EXCEPT ![r].at = "turns", ![r].turns = Formed]
    /\ UNCHANGED <<turn, segments, newest, missed>>

\* The segments are read, and the next one is planned from both.  The turns may
\* be older than the segments: then a turn can lie between two units unseen, one
\* that formed in between or one that the turns read still show in the tail.
Plan(r) ==
    LET plan == NextPlan(pass[r].turns, segments) IN
    /\ pass[r].at = "turns"
    /\ pass' = [pass EXCEPT ![r] = IF plan = NoPlan THEN Idle
                                   ELSE [Idle EXCEPT !.at = "material", !.plan = plan]]
    /\ missed' = (missed \/ PassedOver(plan) # {})
    /\ UNCHANGED <<turn, segments, newest>>

SizeOf(T) == MapThenSumSet(LAMBDA t : TurnSize[t], T)

\* From t on the turns of T are more than a model is given, and t is not the last.
TooMuch(T, t) == /\ \E u \in T : u > t
                 /\ SizeOf({u \in T : u >= t}) > MaxMaterial

\* Mutant: the newest turns go.
BoundFromTheEnd(T) ==
    {t \in T : (\A u \in T : t <= u) \/ SizeOf({u \in T : u <= t}) <= MaxMaterial}

\* Turns go, the oldest first, until the rest fits or is one turn.  Summaries do not.
Bound(T) == {t \in T : ~TooMuch(T, t)}

\* The material is read: the turns of the range, bounded, or the units' summaries,
\* each of which has to be there.  The model is asked with no transaction open.
ReadMaterial(r) ==
    LET plan == pass[r].plan IN
    /\ pass[r].at = "material"
    /\ pass' = [pass EXCEPT ![r] =
         IF plan.level > 1 /\ ~(plan.units \subseteq segments) THEN Idle
         ELSE [@ EXCEPT !.at = "write",
                        !.said = IF plan.level = 1 THEN Bound(Within(Formed, plan))
                                 ELSE UNION {u.said : u \in plan.units}]]
    /\ UNCHANGED <<turn, segments, newest, missed>>

\* A range that lost turns is written all the same.
CountedAtMost(plan) == Cardinality(Within(Formed, plan)) <= plan.turns

\* The range holds as many turns as the plan covered.
Counted(plan) == Cardinality(Within(Formed, plan)) = plan.turns

\* A key without the level.
TakenAnyLevel(plan) == \E s \in segments : s.from = plan.from

\* One segment of a level begins at an offset: the table's unique key.
Taken(plan) == \E s \in segments : s.level = plan.level /\ s.from = plan.from

\* The formed turns of the range, to which the segment is registered.
Registered(plan) == Within(Formed, plan)

\* The segment and its registrations are written in one transaction.
Write(r) ==
    LET plan == pass[r].plan IN
    /\ pass[r].at = "write"
    /\ ~Taken(plan) /\ Counted(plan)
    /\ segments' = segments \cup
         {[level |-> plan.level, from |-> plan.from, to |-> plan.to, covered |-> plan.turns,
           said |-> pass[r].said, registered |-> Registered(plan)]}
    /\ pass' = [pass EXCEPT ![r] = Idle]
    /\ UNCHANGED <<turn, newest, missed>>

\* ErrSegmentConflict: another replica wrote it, or the history moved.
Refuse(r) ==
    /\ pass[r].at = "write"
    /\ Taken(pass[r].plan) \/ ~Counted(pass[r].plan)
    /\ pass' = [pass EXCEPT ![r] = Idle]
    /\ UNCHANGED <<turn, segments, newest, missed>>

\* The model fails, or the process dies.
Fail(r) ==
    /\ pass[r].at # "idle"
    /\ pass' = [pass EXCEPT ![r] = Idle]
    /\ UNCHANGED <<turn, segments, newest, missed>>

-----------------------------------------------------------------------------
(* What a reader is handed: compaction.Assemble, before the budget's cut,    *)
(* which the answer reports.                                                *)

\* The highest segment over a turn, and of those the one that begins first.
Over(t) == {s \in segments : s.from <= t /\ t <= s.to}
Covering(t) ==
    CHOOSE s \in Over(t) : \A o \in Over(t) :
        o.level < s.level \/ (o.level = s.level /\ s.from <= o.from)

Older == Compactable(Formed)
Loose == {t \in Older : Over(t) = {}}
Chosen == {Covering(t) : t \in {u \in Older : Over(u) # {}}}

\* The turns whose words a context holds, said or summarised.
InContext == (Formed \ Older) \cup Loose \cup UNION {s.said : s \in Chosen}

-----------------------------------------------------------------------------
Step(r) == ReadTurns(r) \/ Plan(r) \/ ReadMaterial(r) \/ Write(r) \/ Refuse(r)

CNext ==
    \/ \E t \in Turns : Form(t) \/ Erase(t)
    \/ \E r \in Replicas : Step(r) \/ Fail(r)

CSpec == CInit /\ [][CNext]_cvars

-----------------------------------------------------------------------------
(* Properties.                                                              *)

\* A segment stands at one of the levels, covers a range of the log that holds
\* as many turns as it says, and no other of its level begins where it does.
CTypeOK ==
    /\ turn \in [Turns -> {"waiting", "formed", "gone"}]
    /\ newest \in 0 .. MaxTurn /\ missed \in BOOLEAN
    /\ \A r \in Replicas : pass[r].at \in {"idle", "turns", "material", "write"}
    /\ \A s \in segments :
        /\ s.level \in 1 .. MaxLevel
        /\ s.from \in Turns /\ s.to \in Turns /\ s.from <= s.to
        /\ Cardinality(s.registered) = s.covered
    /\ \A s, o \in segments : s.level = o.level /\ s.from = o.from => s = o

\* A summary is registered to every turn it was written from that still exists,
\* whatever was erased while the model wrote it.  And while no turn was missed,
\* it was written from nothing else: the words of an erased turn are in no
\* summary, though the check at the write compares only a count.
SummariesOutliveNoTurn ==
    \A s \in segments :
        /\ \A t \in s.said : turn[t] # "gone" => t \in s.registered
        /\ ~missed => \A t \in s.said : turn[t] # "gone"

\* The segment over turns, rather than summaries, that t was cut from.
CutFrom(t) == \E s \in segments : s.level = 1 /\ t \in s.registered /\ TooMuch(s.registered, t)

\* While no turn was missed a context leaves none out: a turn under a chosen segment
\* is one that the segment was written from, by way of every segment in between, or
\* one that its first summary had no room for.
NothingForgotten == ~missed => \A t \in Formed : t \in InContext \/ CutFrom(t)

\* While no turn was missed the pass never pays for a summary it cannot keep,
\* unless the history moves once more: what it would plan from the rows as they
\* are is refused by nothing as they are, so it never plans the same refused
\* segment tick after tick.  That is so of a plan behind the tail: when the newest
\* turns are erased, turns of a gap between two segments become the tail, where
\* the planner does not see that the segments are not adjacent.
PlansCanBeWritten ==
    LET plan == NextPlan(Formed, segments) IN
    ~missed /\ plan # NoPlan /\ Within(Formed, plan) \subseteq Older =>
        /\ Counted(plan) /\ ~Taken(plan)
        /\ plan.level > 1 => plan.units \subseteq segments
=============================================================================
