--------------------------- MODULE FormationProofs ---------------------------
(* Proofs about ObservationLog, for every project, key, payload, log bound and limit, and then *)
(* about the FormationWorkers that run it, for every number of workers, messages and attempts. *)
(* Nothing of the first part rests on what the second assumes of the workers.                  *)
EXTENDS FormationWorkers, FiniteSetTheorems, WellFoundedInduction, TLAPS

-----------------------------------------------------------------------------
(* The recomputed watermark *)

\* A non-empty set of naturals has a least element, and Min is it.
LEMMA MinIsLeast ==
    ASSUME NEW S \in SUBSET Nat, S # {}
    PROVE  Min(S) \in S /\ \A y \in S : Min(S) <= y
<1> DEFINE R == {ss \in Nat \X Nat : ss[1] < ss[2]}
<1>1. IsWellFoundedOn(R, Nat)
  BY NatLessThanWellFounded, Zenon DEF OpToRel
<1>2. \E x \in S : \A y \in S : ~(<<y, x>> \in R)
  BY <1>1, WFMin
<1>3. PICK x \in S : \A y \in S : ~(<<y, x>> \in R)
  BY <1>2
<1>4. \A y \in S : x <= y
  <2> SUFFICES ASSUME NEW y \in S, ~(x <= y) PROVE FALSE
    OBVIOUS
  <2>1. <<y, x>> \in Nat \X Nat /\ y < x
    OBVIOUS
  <2> QED BY <1>3, <2>1
<1> QED BY <1>4 DEF Min

\* A non-empty set of naturals with a bound has a greatest element, and Max is it.
LEMMA MaxIsGreatest ==
    ASSUME NEW m \in Nat, NEW S \in SUBSET (0 .. m), S # {}
    PROVE  Max(S) \in S /\ \A y \in S : Max(S) >= y
<1> DEFINE T == {m - x : x \in S}
<1>1. T \in SUBSET Nat /\ T # {}
  <2>1. \A x \in S : x \in Int /\ m - x \in Nat
    OBVIOUS
  <2> QED BY <2>1
<1>2. Min(T) \in T /\ \A y \in T : Min(T) <= y
  BY <1>1, MinIsLeast
<1>3. PICK x \in S : Min(T) = m - x
  BY <1>2
<1>4. \A y \in S : x >= y
  <2> TAKE y \in S
  <2>1. Min(T) <= m - y
    BY <1>2
  <2> QED BY <1>3, <2>1
<1> QED BY <1>4 DEF Max

LEMMA OffsetsAreNaturals == MaxOffset \in Nat /\ \A o \in Offsets : o \in Nat
BY LogAssumption DEF Offsets

\* advanceFormedWatermarkSQL returns an offset of the log or NULL, never one at or above
\* a turn that waits, and never one above every row there has been.
LEMMA HighestFormedIsHonest ==
    ASSUME NEW ph \in [Offsets -> Phases]
    PROVE  /\ HighestFormed(ph) \in Offsets \cup {NoOffset}
           /\ \A o \in Offsets : o <= HighestFormed(ph) => ph[o] # "backlog"
           /\ HighestFormed(ph) = NoOffset \/ \E o \in Offsets :
                  ph[o] # "none" /\ HighestFormed(ph) <= o
<1> DEFINE B == In(ph, {"backlog"})
           D == In(ph, Stored)
<1>1. CASE B # {}
  <2>1. Min(B) \in B /\ \A y \in B : Min(B) <= y
    BY <1>1, MinIsLeast, OffsetsAreNaturals DEF In
  <2>2. HighestFormed(ph) = Min(B) - 1
    BY <1>1 DEF HighestFormed
  <2>3. Min(B) \in Offsets /\ ph[Min(B)] = "backlog"
    BY <2>1 DEF In
  <2>4. \A o \in Offsets : ph[o] = "backlog" => Min(B) <= o
    BY <2>1 DEF In
  <2>5. Min(B) - 1 \in Offsets \cup {NoOffset} /\ Min(B) - 1 <= Min(B)
    BY <2>3, LogAssumption DEF Offsets, NoOffset
  <2>6. \A o \in Offsets : o <= Min(B) - 1 => ph[o] # "backlog"
    BY <2>3, <2>4, OffsetsAreNaturals
  <2> QED BY <2>2, <2>3, <2>5, <2>6
<1>2. CASE B = {} /\ D = {}
  BY <1>2, OffsetsAreNaturals DEF HighestFormed, In, NoOffset
<1>3. CASE B = {} /\ D # {}
  <2>1. Max(D) \in D /\ \A y \in D : Max(D) >= y
    BY <1>3, MaxIsGreatest, LogAssumption DEF In, Offsets
  <2>2. HighestFormed(ph) = Max(D)
    BY <1>3 DEF HighestFormed
  <2>3. Max(D) \in Offsets /\ ph[Max(D)] # "none"
    BY <2>1 DEF In, Stored
  <2>4. \A o \in Offsets : ph[o] # "backlog"
    BY <1>3 DEF In
  <2>5. Max(D) <= Max(D)
    BY <2>3, OffsetsAreNaturals
  <2> QED BY <2>2, <2>3, <2>4, <2>5
<1> QED BY <1>1, <1>2, <1>3

\* It is also the best number that can be given: any other honest one is lower, or
\* is higher only by turns that are no longer there.
LEMMA HighestFormedIsHighest ==
    ASSUME NEW ph \in [Offsets -> Phases], NEW f \in Offsets \cup {NoOffset},
           \A o \in Offsets : o <= f => ph[o] # "backlog"
    PROVE  \/ f <= HighestFormed(ph)
           \/ \A o \in Offsets : o > HighestFormed(ph) => ph[o] \in {"none", "erased"}
<1> DEFINE B == In(ph, {"backlog"})
           D == In(ph, Stored)
<1>1. CASE B # {}
  <2>1. Min(B) \in B /\ \A y \in B : Min(B) <= y
    BY <1>1, MinIsLeast, OffsetsAreNaturals DEF In
  <2>2. HighestFormed(ph) = Min(B) - 1
    BY <1>1 DEF HighestFormed
  <2>3. Min(B) \in Offsets /\ ph[Min(B)] = "backlog"
    BY <2>1 DEF In
  <2> QED BY <2>2, <2>3, LogAssumption DEF Offsets, NoOffset
<1>2. CASE B = {} /\ D = {}
  BY <1>2 DEF In, Phases, Stored
<1>3. CASE B = {} /\ D # {}
  <2>1. Max(D) \in D /\ \A y \in D : Max(D) >= y
    BY <1>3, MaxIsGreatest, LogAssumption DEF In, Offsets
  <2>2. HighestFormed(ph) = Max(D)
    BY <1>3 DEF HighestFormed
  <2>3. Max(D) \in Nat
    BY <2>1, OffsetsAreNaturals DEF In
  <2>4. ASSUME NEW o \in Offsets, o > Max(D) PROVE ph[o] \in {"none", "erased"}
    <3>1. o \notin D
      BY <2>1, <2>3, <2>4, OffsetsAreNaturals
    <3> QED BY <3>1 DEF In, Phases, Stored
  <2> QED BY <2>2, <2>4
<1> QED BY <1>1, <1>2, <1>3

-----------------------------------------------------------------------------
(* Five kinds of step.  The operations differ in what makes them happen; an invariant *)
(* is disturbed by what they change, and that comes in five kinds.                    *)

\* A turn takes the next offset: waiting, with a reservation, or formed at birth.
Wrote(s) ==
    /\ logOffset[s] < MaxOffset
    /\ \E k \in AllKeys \cup {NoKey}, p \in Payloads :
          /\ Unused(s, k)
          /\ \/ /\ Insert(s, k, p, "backlog")
                /\ Reserve(s, logOffset[s] + 1)
                /\ UNCHANGED formedOffset
             \/ /\ Insert(s, k, p, "formed")
                /\ AdvanceFormed(s)
                /\ UNCHANGED budget

\* A known key is answered again.
Answered(s) ==
    /\ \E k \in AllKeys, p \in Payloads :
          /\ receipt[s][k].status = "live"
          /\ receipt[s][k].payload = p
          /\ acks' = acks \cup {[scope |-> s, key |-> k, payload |-> p,
                                 offset |-> receipt[s][k].offset]}
    /\ formedOffset' = formedOffset
          \/ formedOffset' = [formedOffset EXCEPT ![s] = HighestFormed(phase[s])]
    /\ UNCHANGED <<rows, logOffset, receipt, budget>>

CountersTyped == /\ attempts' \in [Scopes -> [Offsets -> 0 .. AttemptCap]]
                 /\ due' \in [Scopes -> [Offsets -> BOOLEAN]]

\* Only what formation remembers of a turn's tries changes.
Tried == CountersTyped /\ UNCHANGED <<phase, marks, receipt, budget, acks>>

\* A stored turn is formed, parked or reopened.
Formed(s, o) == /\ phase[s][o] \in Stored
                /\ phase' = [phase EXCEPT ![s][o] = "formed"]
                /\ Release(s, {o})
Parked(s, o) == /\ phase[s][o] = "backlog"
                /\ phase' = [phase EXCEPT ![s][o] = "parked"]
                /\ UNCHANGED budget
Reopened(s, o) == /\ phase[s][o] = "parked"
                  /\ phase' = [phase EXCEPT ![s][o] = "backlog"]
                  /\ UNCHANGED budget
Moved(s, o) == /\ Formed(s, o) \/ Parked(s, o) \/ Reopened(s, o)
               /\ CountersTyped
               /\ AdvanceFormed(s)
               /\ UNCHANGED <<logOffset, receipt, acks>>

\* Some stored turns are forgotten.
Deleted(s) == \E O \in SUBSET In(phase[s], Stored) : Delete(s, O)

Change(s) == \/ Wrote(s) \/ Answered(s) \/ Tried \/ Deleted(s)
             \/ \E o \in Offsets : Moved(s, o)

\* Every step of the log is a step of one of these kinds.
LEMMA StepsAreChanges ==
    ASSUME TypeOK, [Next]_logVars
    PROVE  UNCHANGED logVars \/ \E s \in Scopes : Change(s)
<1>1. CASE UNCHANGED logVars
  BY <1>1
<1>2. CASE Next
  <2> SUFFICES ASSUME NEW s \in Scopes, Write(s) \/ Form(s) \/ Erase(s) \/ Sweep(s)
               PROVE  UNCHANGED logVars \/ Change(s)
    BY <1>2 DEF Next
  <2>1. CASE Erase(s) \/ Sweep(s)
    BY <2>1 DEF Erase, Sweep, Change, Deleted
  <2>2. CASE Write(s)
    <3>1. ASSUME NEW p \in Payloads, NEW k \in Keys \cup {NoKey}, Append(s, k, p)
          PROVE  Wrote(s)
      BY <3>1 DEF Append, Wrote, AllKeys
    <3>2. ASSUME NEW p \in Payloads, NEW k \in Keys, Replay(s, k, p) PROVE Answered(s)
      BY <3>2 DEF Replay, Answered, AllKeys, marks
    <3>3. ASSUME NEW p \in Payloads, NEW k \in AssertKeys, AssertRecord(s, k, p)
          PROVE  Wrote(s)
      BY <3>3 DEF AssertRecord, InsertFormed, Wrote, AllKeys
    <3>4. ASSUME NEW p \in Payloads, NEW k \in AssertKeys, ReplayAssert(s, k, p)
          PROVE  Answered(s)
      BY <3>4 DEF ReplayAssert, Answered, AllKeys
    <3>5. ASSUME Correct(s) PROVE Wrote(s)
      BY <3>5 DEF Correct, InsertFormed, Wrote, Unused
    <3>6. ASSUME NEW k, NEW p, RefuseKey(s, k, p) \/ RefuseAppend(s, k)
          PROVE  UNCHANGED logVars
      BY <3>6 DEF RefuseKey, RefuseAppend
    <3> QED BY <2>2, <3>1, <3>2, <3>3, <3>4, <3>5, <3>6 DEF Write, Change
  <2>3. CASE Form(s)
    <3> SUFFICES ASSUME NEW o \in Offsets,
                        \/ ClaimTurn(s, o) \/ BackoffElapses(s, o)
                        \/ RecordFormationFailure(s, o)
                        \/ MarkFormed(s, o) \/ Park(s, o) \/ Unpark(s, o)
                        \/ FinishGeneration(s, o)
                 PROVE  Change(s)
      BY <2>3 DEF Form
    <3>1. attempts' \in [Scopes -> [Offsets -> 0 .. AttemptCap]]
      <4>1. CASE ClaimTurn(s, o)
        BY <4>1, LogAssumption DEF ClaimTurn, TypeOK
      <4>2. CASE Unpark(s, o)
        BY <4>2, LogAssumption DEF Unpark, TypeOK
      <4> QED BY <4>1, <4>2 DEF TypeOK, BackoffElapses, RecordFormationFailure,
                                MarkFormed, Park, FinishGeneration
    <3>2. \E b \in BOOLEAN : due' = [due EXCEPT ![s][o] = b]
      BY DEF ClaimTurn, BackoffElapses, RecordFormationFailure, MarkFormed, Park, Unpark,
             FinishGeneration
    <3>3. CountersTyped
      BY <3>1, <3>2, SMTT(30) DEF CountersTyped, TypeOK
    <3>4. CASE ClaimTurn(s, o) \/ BackoffElapses(s, o) \/ RecordFormationFailure(s, o)
      BY <3>3, <3>4 DEF ClaimTurn, BackoffElapses, RecordFormationFailure, Tried, Change
    <3>5. CASE MarkFormed(s, o) \/ FinishGeneration(s, o)
      BY <3>3, <3>5 DEF MarkFormed, FinishGeneration, Moved, Formed, Change, Stored
    <3>6. CASE Park(s, o)
      BY <3>3, <3>6 DEF Park, Moved, Parked, Change
    <3>7. CASE Unpark(s, o)
      BY <3>3, <3>7 DEF Unpark, Moved, Reopened, Change
    <3> QED BY <3>4, <3>5, <3>6, <3>7
  <2> QED BY <2>1, <2>2, <2>3
<1> QED BY <1>1, <1>2

-----------------------------------------------------------------------------
(* The log and its watermark *)

LogTyped == /\ phase \in [Scopes -> [Offsets -> Phases]]
            /\ logOffset \in [Scopes -> Offsets \cup {NoOffset}]
            /\ formedOffset \in [Scopes -> Offsets \cup {NoOffset}]

LogInv == LogTyped /\ OffsetsHaveNoGap /\ FreshnessIsHonest

\* What a recompute leaves behind.
LEMMA RecomputeKeepsLogInv ==
    ASSUME LogTyped, NEW s \in Scopes,
           phase' \in [Scopes -> [Offsets -> Phases]],
           logOffset' \in [Scopes -> Offsets \cup {NoOffset}],
           AdvanceFormed(s),
           \A o \in Offsets : phase'[s][o] = "none" <=> o > logOffset'[s],
           \A t \in Scopes \ {s} :
               /\ phase'[t] = phase[t] /\ logOffset'[t] = logOffset[t]
               /\ formedOffset[t] <= logOffset[t]
               /\ \A o \in Offsets : phase[t][o] = "none" <=> o > logOffset[t]
               /\ \A o \in Offsets : o <= formedOffset[t] => phase[t][o] # "backlog"
    PROVE  LogInv'
<1> DEFINE h == HighestFormed(phase'[s])
<1>1. phase'[s] \in [Offsets -> Phases]
  OBVIOUS
<1>2. /\ h \in Offsets \cup {NoOffset}
      /\ \A o \in Offsets : o <= h => phase'[s][o] # "backlog"
      /\ h = NoOffset \/ \E o \in Offsets : phase'[s][o] # "none" /\ h <= o
  BY <1>1, HighestFormedIsHonest
<1>3. formedOffset' = [formedOffset EXCEPT ![s] = h]
  BY DEF AdvanceFormed
<1> HIDE DEF h
<1>4. formedOffset' \in [Scopes -> Offsets \cup {NoOffset}]
  BY <1>2, <1>3 DEF LogTyped
<1>5. formedOffset'[s] = h /\ \A t \in Scopes \ {s} : formedOffset'[t] = formedOffset[t]
  BY <1>3 DEF LogTyped
<1>6. h <= logOffset'[s]
  <2>1. logOffset'[s] \in Offsets \cup {NoOffset}
    OBVIOUS
  <2>2. ASSUME NEW o \in Offsets, phase'[s][o] # "none", h <= o PROVE h <= logOffset'[s]
    <3>1. ~(o > logOffset'[s])
      BY <2>2
    <3> QED BY <1>2, <2>1, <2>2, <3>1, OffsetsAreNaturals DEF NoOffset
  <2>3. CASE h = NoOffset
    BY <2>1, <2>3, OffsetsAreNaturals DEF NoOffset
  <2> QED BY <1>2, <2>2, <2>3
<1>7. OffsetsHaveNoGap'
  BY <1>5, <1>6 DEF OffsetsHaveNoGap
<1>8. FreshnessIsHonest'
  BY <1>2, <1>5 DEF FreshnessIsHonest
<1> QED BY <1>4, <1>7, <1>8 DEF LogInv, LogTyped

\* Writing a row at the next offset leaves no hole.
LEMMA InsertKeepsNoGap ==
    ASSUME LogInv, NEW s \in Scopes, NEW k, NEW p, NEW ph \in {"backlog", "formed"},
           logOffset[s] < MaxOffset, Insert(s, k, p, ph)
    PROVE  /\ logOffset[s] + 1 \in Offsets
           /\ phase[s][logOffset[s] + 1] = "none"
           /\ formedOffset[s] < logOffset[s] + 1
           /\ phase' \in [Scopes -> [Offsets -> Phases]]
           /\ logOffset' \in [Scopes -> Offsets \cup {NoOffset}]
           /\ \A o \in Offsets : phase'[s][o] = "none" <=> o > logOffset'[s]
           /\ logOffset'[s] = logOffset[s] + 1
           /\ \A t \in Scopes \ {s} : phase'[t] = phase[t] /\ logOffset'[t] = logOffset[t]
<1> DEFINE n == logOffset[s] + 1
<1>1. n \in Offsets /\ logOffset[s] \in Int /\ formedOffset[s] \in Int
  BY LogAssumption DEF LogInv, LogTyped, Offsets, NoOffset
<1>2. phase[s][n] = "none" /\ formedOffset[s] < n
  BY <1>1 DEF LogInv, OffsetsHaveNoGap
<1>3. phase' = [phase EXCEPT ![s][n] = ph] /\ logOffset' = [logOffset EXCEPT ![s] = n]
  BY DEF Insert
<1> HIDE DEF n
<1>4. phase' \in [Scopes -> [Offsets -> Phases]]
  BY <1>1, <1>3 DEF LogInv, LogTyped, Phases
<1>5. logOffset' \in [Scopes -> Offsets \cup {NoOffset}] /\ logOffset'[s] = n
  BY <1>1, <1>3 DEF LogInv, LogTyped
<1>6. \A t \in Scopes \ {s} : phase'[t] = phase[t] /\ logOffset'[t] = logOffset[t]
  BY <1>3 DEF LogInv, LogTyped
<1>7. ASSUME NEW o \in Offsets PROVE phase'[s][o] = "none" <=> o > logOffset'[s]
  <2>1. phase[s][o] = "none" <=> o > logOffset[s]
    BY DEF LogInv, OffsetsHaveNoGap
  <2>2. phase'[s][o] = IF o = n THEN ph ELSE phase[s][o]
    BY <1>3 DEF LogInv, LogTyped
  <2> QED BY <1>1, <1>5, <2>1, <2>2, OffsetsAreNaturals DEF n
<1> QED BY <1>1, <1>2, <1>4, <1>5, <1>6, <1>7 DEF n

\* The rows a change of kind Moved or Deleted rewrites were stored and stay in the log.
LEMMA MoveRewritesOneRow ==
    ASSUME LogInv, NEW s \in Scopes, NEW o \in Offsets, Moved(s, o)
    PROVE  /\ phase' \in [Scopes -> [Offsets -> Phases]]
           /\ phase[s][o] \in Stored /\ phase'[s][o] \in Stored
           /\ \A t \in Scopes : \A u \in Offsets :
                  t # s \/ u # o => phase'[t][u] = phase[t][u]
           /\ \A t \in Scopes \ {s} : phase'[t] = phase[t]
<1>1. PICK q \in Stored : phase' = [phase EXCEPT ![s][o] = q]
  BY DEF Moved, Formed, Parked, Reopened, Stored
<1>2. phase[s][o] \in Stored
  BY DEF Moved, Formed, Parked, Reopened, Stored
<1>3. Stored \subseteq Phases
  BY DEF Stored, Phases
<1> QED BY <1>1, <1>2, <1>3 DEF LogInv, LogTyped

LEMMA DeleteRewritesStoredRows ==
    ASSUME LogInv, NEW s \in Scopes, NEW O \in SUBSET In(phase[s], Stored), Delete(s, O)
    PROVE  /\ phase' \in [Scopes -> [Offsets -> Phases]]
           /\ \A u \in Offsets : phase'[s][u] = IF u \in O THEN "erased" ELSE phase[s][u]
           /\ \A u \in O : phase[s][u] \in Stored
           /\ \A t \in Scopes \ {s} : phase'[t] = phase[t]
<1>1. phase' = [phase EXCEPT ![s] =
                   [o \in Offsets |-> IF o \in O THEN "erased" ELSE phase[s][o]]]
  BY DEF Delete
<1>2. "erased" \in Phases
  BY DEF Phases
<1> QED BY <1>1, <1>2 DEF LogInv, LogTyped, In

\* The log has no hole, and its watermark stays below every turn that waits.
LEMMA LogInvStep ==
    ASSUME LogInv, NEW s \in Scopes, Change(s)
    PROVE  LogInv'
<1>1. CASE Wrote(s)
  <2>1. PICK k, p :
           \/ Insert(s, k, p, "backlog") /\ UNCHANGED formedOffset
           \/ Insert(s, k, p, "formed") /\ AdvanceFormed(s)
    BY <1>1 DEF Wrote
  <2>2. logOffset[s] < MaxOffset
    BY <1>1 DEF Wrote
  <2>3. CASE Insert(s, k, p, "backlog") /\ UNCHANGED formedOffset
    <3> DEFINE n == logOffset[s] + 1
    <3>1. /\ n \in Offsets /\ formedOffset[s] < n
          /\ phase' \in [Scopes -> [Offsets -> Phases]]
          /\ logOffset' \in [Scopes -> Offsets \cup {NoOffset}]
          /\ \A o \in Offsets : phase'[s][o] = "none" <=> o > logOffset'[s]
          /\ logOffset'[s] = n
          /\ \A t \in Scopes \ {s} : phase'[t] = phase[t] /\ logOffset'[t] = logOffset[t]
      BY <2>2, <2>3, InsertKeepsNoGap
    <3>2. \A o \in Offsets : o # n => phase'[s][o] = phase[s][o]
      BY <2>3 DEF Insert, LogInv, LogTyped
    <3>3. formedOffset' = formedOffset /\ formedOffset[s] \in Int
      BY <2>3, LogAssumption DEF LogInv, LogTyped, Offsets, NoOffset
    <3> HIDE DEF n
    <3>4. OffsetsHaveNoGap'
      <4>1. formedOffset'[s] <= logOffset'[s]
        BY <3>1, <3>3, OffsetsAreNaturals
      <4> QED BY <3>1, <3>3, <4>1 DEF OffsetsHaveNoGap, LogInv
    <3>5. FreshnessIsHonest'
      <4> SUFFICES ASSUME NEW t \in Scopes, NEW o \in Offsets, o <= formedOffset[t]
                   PROVE  phase'[t][o] # "backlog"
        BY <3>3 DEF FreshnessIsHonest
      <4>1. phase[t][o] # "backlog"
        BY DEF LogInv, FreshnessIsHonest
      <4>2. t = s => o # n
        BY <3>1, <3>3, OffsetsAreNaturals
      <4> QED BY <3>1, <3>2, <4>1, <4>2
    <3> QED BY <3>1, <3>3, <3>4, <3>5 DEF LogInv, LogTyped
  <2>4. CASE Insert(s, k, p, "formed") /\ AdvanceFormed(s)
    <3>1. /\ phase' \in [Scopes -> [Offsets -> Phases]]
          /\ logOffset' \in [Scopes -> Offsets \cup {NoOffset}]
          /\ \A o \in Offsets : phase'[s][o] = "none" <=> o > logOffset'[s]
          /\ \A t \in Scopes \ {s} : phase'[t] = phase[t] /\ logOffset'[t] = logOffset[t]
      BY <2>2, <2>4, InsertKeepsNoGap
    <3> QED BY <2>4, <3>1, RecomputeKeepsLogInv DEF LogInv, OffsetsHaveNoGap,
                                                    FreshnessIsHonest
  <2> QED BY <2>1, <2>3, <2>4
<1>2. CASE Answered(s) /\ formedOffset' = formedOffset
  BY <1>2 DEF Answered, rows, LogInv, LogTyped, OffsetsHaveNoGap, FreshnessIsHonest
<1>3. CASE Answered(s) /\ formedOffset' # formedOffset
  <2>1. phase' = phase /\ logOffset' = logOffset
    BY <1>3 DEF Answered, rows
  <2>2. AdvanceFormed(s)
    BY <1>3, <2>1 DEF Answered, AdvanceFormed
  <2> QED BY <2>1, <2>2, RecomputeKeepsLogInv DEF LogInv, LogTyped, OffsetsHaveNoGap,
                                                  FreshnessIsHonest
<1>4. CASE Tried
  BY <1>4 DEF Tried, marks, LogInv, LogTyped, OffsetsHaveNoGap, FreshnessIsHonest
<1>5. ASSUME NEW o \in Offsets, Moved(s, o) PROVE LogInv'
  <2>1. /\ phase' \in [Scopes -> [Offsets -> Phases]]
        /\ phase[s][o] \in Stored /\ phase'[s][o] \in Stored
        /\ \A t \in Scopes : \A u \in Offsets :
               t # s \/ u # o => phase'[t][u] = phase[t][u]
        /\ \A t \in Scopes \ {s} : phase'[t] = phase[t]
    BY <1>5, MoveRewritesOneRow
  <2>2. logOffset' = logOffset /\ AdvanceFormed(s)
    BY <1>5 DEF Moved
  <2>3. \A u \in Offsets : phase'[s][u] = "none" <=> phase[s][u] = "none"
    BY <2>1 DEF Stored
  <2> QED BY <2>1, <2>2, <2>3, RecomputeKeepsLogInv DEF LogInv, LogTyped, OffsetsHaveNoGap,
                                                       FreshnessIsHonest
<1>6. CASE Deleted(s)
  <2>1. PICK O \in SUBSET In(phase[s], Stored) : Delete(s, O)
    BY <1>6 DEF Deleted
  <2>2. /\ phase' \in [Scopes -> [Offsets -> Phases]]
        /\ \A u \in Offsets : phase'[s][u] = IF u \in O THEN "erased" ELSE phase[s][u]
        /\ \A u \in O : phase[s][u] \in Stored
        /\ \A t \in Scopes \ {s} : phase'[t] = phase[t]
    BY <2>1, DeleteRewritesStoredRows
  <2>3. logOffset' = logOffset /\ formedOffset' = formedOffset
    BY <2>1 DEF Delete, marks
  <2>4. \A t \in Scopes : \A u \in Offsets :
            /\ phase'[t][u] = "none" <=> phase[t][u] = "none"
            /\ phase'[t][u] = "backlog" => phase[t][u] = "backlog"
    BY <2>2 DEF Stored
  <2> QED BY <2>2, <2>3, <2>4 DEF LogInv, LogTyped, OffsetsHaveNoGap, FreshnessIsHonest
<1> QED BY <1>1, <1>2, <1>3, <1>4, <1>5, <1>6 DEF Change

-----------------------------------------------------------------------------
(* The ingestion budget *)

\* Reservations R are counted by p overall and by u in each project, within the limits.
Counted(R, p, u) ==
    /\ IsFiniteSet(R)
    /\ p = Cardinality(R) /\ p <= MaxPending
    /\ \A s \in Scopes : u[s] = Cardinality(OfScope(R, s)) /\ u[s] <= ProjectLimit

BudgetInv == /\ reserved \in SUBSET (Scopes \X Offsets)
             /\ usage \in [Scopes -> Nat]
             /\ reserved = Unfinished
             /\ Counted(reserved, pending, usage)

LEMMA ReserveCounts ==
    ASSUME BudgetInv, NEW s \in Scopes, NEW o \in Offsets, <<s, o>> \notin reserved,
           Reserve(s, o)
    PROVE  /\ Counted(reserved', pending', usage')
           /\ reserved' = reserved \cup {<<s, o>>}
           /\ usage' \in [Scopes -> Nat]
<1>1. /\ reserved' = reserved \cup {<<s, o>>} /\ pending' = pending + 1
      /\ usage' = [usage EXCEPT ![s] = @ + 1]
      /\ pending < MaxPending /\ usage[s] < ProjectLimit
  BY DEF Reserve, HasRoom
<1>2. IsFiniteSet(reserved') /\ Cardinality(reserved') = Cardinality(reserved) + 1
  BY <1>1, FS_AddElement DEF BudgetInv, Counted
<1>3. pending \in Nat /\ pending = Cardinality(reserved)
  BY FS_CardinalityType DEF BudgetInv, Counted
<1>4. pending' <= MaxPending
  BY <1>1, <1>3, LogAssumption
<1>5. ASSUME NEW t \in Scopes
      PROVE  usage'[t] = Cardinality(OfScope(reserved', t)) /\ usage'[t] <= ProjectLimit
  <2>1. usage[t] = Cardinality(OfScope(reserved, t)) /\ usage[t] <= ProjectLimit
    BY DEF BudgetInv, Counted
  <2>2. CASE t = s
    <3>1. OfScope(reserved', s) = OfScope(reserved, s) \cup {<<s, o>>}
      BY <1>1 DEF OfScope
    <3>2. <<s, o>> \notin OfScope(reserved, s) /\ OfScope(reserved, s) \in SUBSET reserved
      BY DEF OfScope
    <3>3. IsFiniteSet(OfScope(reserved, s))
      BY <3>2, FS_Subset DEF BudgetInv, Counted
    <3>4. Cardinality(OfScope(reserved', s)) = Cardinality(OfScope(reserved, s)) + 1
      BY <3>1, <3>2, <3>3, FS_AddElement
    <3>5. usage'[s] = usage[s] + 1 /\ usage[s] \in Nat
      BY <1>1 DEF BudgetInv
    <3> QED BY <1>1, <2>1, <2>2, <3>4, <3>5, LogAssumption
  <2>3. CASE t # s
    <3>1. OfScope(reserved', t) = OfScope(reserved, t)
      BY <1>1, <2>3 DEF OfScope
    <3>2. usage'[t] = usage[t]
      BY <1>1, <2>3 DEF BudgetInv
    <3> QED BY <2>1, <3>1, <3>2
  <2> QED BY <2>2, <2>3
<1>6. usage' \in [Scopes -> Nat]
  BY <1>1 DEF BudgetInv
<1> QED BY <1>1, <1>2, <1>3, <1>4, <1>5, <1>6 DEF Counted

LEMMA ReleaseCounts ==
    ASSUME BudgetInv, NEW s \in Scopes, NEW O, Release(s, O)
    PROVE  /\ Counted(reserved', pending', usage')
           /\ reserved' = reserved \ ({s} \X O)
           /\ usage' \in [Scopes -> Nat]
<1> DEFINE gone == reserved \cap ({s} \X O)
<1>1. /\ reserved' = reserved \ gone /\ pending' = pending - Cardinality(gone)
      /\ usage' = [usage EXCEPT ![s] = @ - Cardinality(gone)]
  BY DEF Release
<1>2. reserved' = reserved \ ({s} \X O)
  BY <1>1
<1>3. gone \in SUBSET OfScope(reserved, s)
  <2>1. \A r \in gone : r \in reserved /\ r[1] = s
    OBVIOUS
  <2> QED BY <2>1 DEF OfScope
<1>4. gone \in SUBSET reserved
  OBVIOUS
<1> HIDE DEF gone
<1>5. IsFiniteSet(reserved) /\ IsFiniteSet(gone) /\ IsFiniteSet(OfScope(reserved, s))
  <2>1. OfScope(reserved, s) \in SUBSET reserved
    BY DEF OfScope
  <2> QED BY <1>4, <2>1, FS_Subset DEF BudgetInv, Counted
<1>6. reserved \cap gone = gone /\ OfScope(reserved, s) \cap gone = gone
  BY <1>3, <1>4
<1>7. IsFiniteSet(reserved') /\ Cardinality(reserved') = Cardinality(reserved) - Cardinality(gone)
  BY <1>1, <1>5, <1>6, FS_Difference
<1>8. /\ Cardinality(reserved) \in Nat /\ Cardinality(gone) \in Nat
      /\ Cardinality(OfScope(reserved, s)) \in Nat
      /\ Cardinality(gone) <= Cardinality(OfScope(reserved, s))
  BY <1>3, <1>5, FS_CardinalityType, FS_Subset
<1>9. pending' = Cardinality(reserved') /\ pending' <= MaxPending
  BY <1>1, <1>7, <1>8, LogAssumption DEF BudgetInv, Counted
<1>10. ASSUME NEW t \in Scopes
       PROVE  usage'[t] = Cardinality(OfScope(reserved', t)) /\ usage'[t] <= ProjectLimit
  <2>1. usage[t] = Cardinality(OfScope(reserved, t)) /\ usage[t] <= ProjectLimit
    BY DEF BudgetInv, Counted
  <2>2. CASE t = s
    <3>1. OfScope(reserved', s) = OfScope(reserved, s) \ gone
      BY <1>1 DEF OfScope
    <3>2. Cardinality(OfScope(reserved', s))
             = Cardinality(OfScope(reserved, s)) - Cardinality(gone)
      BY <1>5, <1>6, <3>1, FS_Difference
    <3>3. usage'[s] = usage[s] - Cardinality(gone)
      BY <1>1 DEF BudgetInv
    <3> QED BY <1>8, <2>1, <2>2, <3>2, <3>3, LogAssumption
  <2>3. CASE t # s
    <3>1. \A r \in gone : r[1] = s
      BY <1>3 DEF OfScope
    <3>2. OfScope(reserved', t) = OfScope(reserved, t)
      BY <1>1, <2>3, <3>1 DEF OfScope
    <3>3. usage'[t] = usage[t]
      BY <1>1, <2>3 DEF BudgetInv
    <3> QED BY <2>1, <3>2, <3>3
  <2> QED BY <2>2, <2>3
<1>11. usage' \in [Scopes -> Nat]
  <2>1. usage'[s] \in Nat
    BY <1>1, <1>8 DEF BudgetInv, Counted
  <2> QED BY <1>1, <2>1 DEF BudgetInv
<1> QED BY <1>2, <1>7, <1>9, <1>10, <1>11 DEF Counted

\* The counters follow the turns, whatever ends a turn's wait.
LEMMA BudgetInvStep ==
    ASSUME LogInv, BudgetInv, NEW s \in Scopes, Change(s)
    PROVE  BudgetInv'
<1> DEFINE Waits(ph) == {t \in Scopes \X Offsets : ph[t[1]][t[2]] \in {"backlog", "parked"}}
<1>0. Unfinished = Waits(phase) /\ Unfinished' = Waits(phase')
  BY DEF Unfinished
<1>1. CASE UNCHANGED budget /\ Waits(phase') = Waits(phase)
  BY <1>0, <1>1 DEF budget, BudgetInv, Counted, OfScope
<1>2. ASSUME NEW n \in Offsets, Reserve(s, n), phase[s][n] = "none",
             phase' = [phase EXCEPT ![s][n] = "backlog"]
      PROVE  BudgetInv'
  <2>1. <<s, n>> \notin reserved
    BY <1>2 DEF BudgetInv, Unfinished
  <2>2. /\ Counted(reserved', pending', usage') /\ usage' \in [Scopes -> Nat]
        /\ reserved' = reserved \cup {<<s, n>>}
    BY <1>2, <2>1, ReserveCounts
  <2>3. Waits(phase') = Waits(phase) \cup {<<s, n>>}
    BY <1>2 DEF LogInv, LogTyped
  <2> QED BY <1>0, <2>2, <2>3 DEF BudgetInv
<1>3. ASSUME NEW O \in SUBSET Offsets, Release(s, O),
             \A u \in O : phase'[s][u] \in {"formed", "erased"},
             \A t \in Scopes, u \in Offsets :
                 t # s \/ u \notin O => phase'[t][u] = phase[t][u]
      PROVE  BudgetInv'
  <2>1. /\ Counted(reserved', pending', usage') /\ usage' \in [Scopes -> Nat]
        /\ reserved' = reserved \ ({s} \X O)
    BY <1>3, ReleaseCounts
  <2>2. Waits(phase') = Waits(phase) \ ({s} \X O)
    BY <1>3
  <2> QED BY <1>0, <2>1, <2>2 DEF BudgetInv
<1>4. CASE Wrote(s)
  <2>1. PICK k, p :
           \/ Insert(s, k, p, "backlog") /\ Reserve(s, logOffset[s] + 1)
           \/ Insert(s, k, p, "formed") /\ UNCHANGED budget
    BY <1>4 DEF Wrote
  <2>2. logOffset[s] < MaxOffset
    BY <1>4 DEF Wrote
  <2>3. logOffset[s] + 1 \in Offsets /\ phase[s][logOffset[s] + 1] = "none"
    BY <2>1, <2>2, InsertKeepsNoGap
  <2>4. CASE Insert(s, k, p, "backlog") /\ Reserve(s, logOffset[s] + 1)
    BY <1>2, <2>3, <2>4 DEF Insert
  <2>5. CASE Insert(s, k, p, "formed") /\ UNCHANGED budget
    <3>1. phase' = [phase EXCEPT ![s][logOffset[s] + 1] = "formed"]
      BY <2>5 DEF Insert
    <3>2. Waits(phase') = Waits(phase)
      BY <2>3, <3>1 DEF LogInv, LogTyped
    <3> QED BY <1>1, <2>5, <3>2
  <2> QED BY <2>1, <2>4, <2>5
<1>5. CASE Answered(s) \/ Tried
  <2>1. UNCHANGED budget /\ phase' = phase
    BY <1>5 DEF Answered, Tried, rows
  <2> QED BY <1>1, <2>1
<1>6. ASSUME NEW o \in Offsets, Moved(s, o) PROVE BudgetInv'
  <2>1. /\ \A t \in Scopes : \A u \in Offsets :
               t # s \/ u # o => phase'[t][u] = phase[t][u]
    BY <1>6, MoveRewritesOneRow
  <2>2. CASE Formed(s, o)
    <3>1. phase'[s][o] = "formed" /\ Release(s, {o})
      BY <2>2 DEF Formed, LogInv, LogTyped
    <3> QED BY <1>3, <2>1, <3>1
  <2>3. CASE Parked(s, o) \/ Reopened(s, o)
    <3>1. /\ UNCHANGED budget
          /\ phase[s][o] \in {"backlog", "parked"} /\ phase'[s][o] \in {"backlog", "parked"}
      BY <2>3 DEF Parked, Reopened, LogInv, LogTyped
    <3>2. Waits(phase') = Waits(phase)
      BY <2>1, <3>1
    <3> QED BY <1>1, <3>1, <3>2
  <2> QED BY <1>6, <2>2, <2>3 DEF Moved
<1>7. CASE Deleted(s)
  <2>1. PICK O \in SUBSET In(phase[s], Stored) : Delete(s, O)
    BY <1>7 DEF Deleted
  <2>2. /\ \A u \in Offsets : phase'[s][u] = IF u \in O THEN "erased" ELSE phase[s][u]
        /\ \A t \in Scopes \ {s} : phase'[t] = phase[t]
    BY <2>1, DeleteRewritesStoredRows
  <2>3. O \in SUBSET Offsets /\ Release(s, O)
    BY <2>1 DEF In, Delete
  <2> QED BY <1>3, <2>2, <2>3
<1> QED BY <1>4, <1>5, <1>6, <1>7 DEF Change

-----------------------------------------------------------------------------
(* Receipts and answers *)

ReceiptsTyped == /\ receipt \in [Scopes -> [AllKeys -> Receipts]]
                 /\ acks \in SUBSET Acks

\* A live receipt still gives the answer its key was given before, and no other key
\* was ever answered with its turn.
AcksMatch ==
    \A a \in acks :
        /\ a.offset <= logOffset[a.scope]
        /\ \A k \in AllKeys :
              receipt[a.scope][k].status = "live" =>
                  /\ a.key = k <=> a.offset = receipt[a.scope][k].offset
                  /\ a.key = k => a.payload = receipt[a.scope][k].payload

ReceiptInv == ReceiptsTyped /\ ReceiptsForgetErasedTurns /\ AcksMatch /\ OneAnswerPerKey

\* Nothing is given out and no row is rewritten, except that stored rows stay stored.
LEMMA ReceiptsUntouched ==
    ASSUME ReceiptInv, receipt' = receipt, acks' = acks, logOffset' = logOffset,
           \A s \in Scopes : In(phase[s], Stored) \subseteq In(phase'[s], Stored)
    PROVE  ReceiptInv'
<1>1. ReceiptsTyped' /\ AcksMatch' /\ OneAnswerPerKey'
  BY DEF ReceiptInv, ReceiptsTyped, AcksMatch, OneAnswerPerKey
<1>2. ReceiptsForgetErasedTurns'
  BY DEF ReceiptInv, ReceiptsForgetErasedTurns
<1> QED BY <1>1, <1>2 DEF ReceiptInv

LEMMA ReceiptInvStep ==
    ASSUME LogInv, ReceiptInv, NEW s \in Scopes, Change(s)
    PROVE  ReceiptInv'
<1>1. CASE Wrote(s)
  <2>1. PICK k \in AllKeys \cup {NoKey}, p \in Payloads, ph \in {"backlog", "formed"} :
           Unused(s, k) /\ Insert(s, k, p, ph)
    BY <1>1 DEF Wrote
  <2>2. logOffset[s] < MaxOffset
    BY <1>1 DEF Wrote
  <2> DEFINE n == logOffset[s] + 1
  <2>3. /\ n \in Offsets /\ phase[s][n] = "none" /\ logOffset'[s] = n
        /\ \A t \in Scopes \ {s} : phase'[t] = phase[t] /\ logOffset'[t] = logOffset[t]
    BY <2>1, <2>2, InsertKeepsNoGap
  <2>4. \A t \in Scopes : logOffset[t] \in Int /\ logOffset[t] <= logOffset'[t]
    BY <2>3, LogAssumption DEF LogInv, LogTyped, Offsets, NoOffset
  <2>5. \A u \in Offsets : u # n => phase'[s][u] = phase[s][u]
    BY <2>1 DEF Insert, LogInv, LogTyped
  <2>6. phase'[s][n] \in Stored
    BY <2>1, <2>3 DEF Insert, LogInv, LogTyped, Stored
  <2>7. \A t \in Scopes : In(phase[t], Stored) \subseteq In(phase'[t], Stored)
    BY <2>3, <2>5, <2>6 DEF In
  <2>8. n > logOffset[s]
    BY <2>4
  <2>9. /\ k = NoKey => receipt' = receipt /\ acks' = acks
        /\ k # NoKey => /\ receipt' = [receipt EXCEPT ![s][k] = Live(p, n)]
                        /\ acks' = acks \cup {[scope |-> s, key |-> k, payload |-> p,
                                               offset |-> n]}
    BY <2>1 DEF Insert
  <2>10. k # NoKey => receipt[s][k].status = "absent"
    BY <2>1 DEF Unused
  <2> HIDE DEF n
  <2>11. CASE k = NoKey
    <3>1. ReceiptsTyped' /\ OneAnswerPerKey'
      BY <2>9, <2>11 DEF ReceiptInv, ReceiptsTyped, OneAnswerPerKey
    <3>2. AcksMatch'
      <4> SUFFICES ASSUME NEW a \in acks PROVE a.offset <= logOffset'[a.scope]
        BY <2>9, <2>11 DEF ReceiptInv, AcksMatch
      <4>1. a.scope \in Scopes /\ a.offset \in Nat
        BY OffsetsAreNaturals DEF ReceiptInv, ReceiptsTyped, Acks
      <4>2. a.offset <= logOffset[a.scope]
        BY DEF ReceiptInv, AcksMatch
      <4>3. logOffset'[a.scope] \in Int
        BY <2>3, <2>4, <4>1, OffsetsAreNaturals
      <4> QED BY <2>4, <4>1, <4>2, <4>3
    <3>3. ReceiptsForgetErasedTurns'
      BY <2>7, <2>9, <2>11 DEF ReceiptInv, ReceiptsForgetErasedTurns
    <3> QED BY <3>1, <3>2, <3>3 DEF ReceiptInv
  <2>12. CASE k # NoKey
    <3> DEFINE new == [scope |-> s, key |-> k, payload |-> p, offset |-> n]
    <3>1. k \in AllKeys
      BY <2>12
    <3>2. new \in Acks /\ Live(p, n) \in Receipts
      BY <2>3, <3>1 DEF Acks, Receipts, Live
    <3>3. receipt' = [receipt EXCEPT ![s][k] = Live(p, n)] /\ acks' = acks \cup {new}
      BY <2>9, <2>12
    <3>4. ReceiptsTyped'
      BY <3>1, <3>2, <3>3 DEF ReceiptInv, ReceiptsTyped
    <3>5. /\ receipt'[s][k] = Live(p, n)
          /\ \A t \in Scopes, j \in AllKeys : t # s \/ j # k => receipt'[t][j] = receipt[t][j]
      BY <3>1, <3>3 DEF ReceiptInv, ReceiptsTyped
    <3>6. \A a \in acks : a.scope = s => a.key # k /\ a.offset # n
      <4> SUFFICES ASSUME NEW a \in acks, a.scope = s PROVE a.key # k /\ a.offset # n
        OBVIOUS
      <4>1. a.key # k
        BY <2>10, <2>12, <3>1 DEF ReceiptInv, ReceiptsForgetErasedTurns
      <4>2. a.offset <= logOffset[s]
        BY DEF ReceiptInv, AcksMatch
      <4>3. a.offset \in Nat
        BY OffsetsAreNaturals DEF ReceiptInv, ReceiptsTyped, Acks
      <4> QED BY <2>4, <2>8, <4>1, <4>2, <4>3
    <3>7. \A j \in AllKeys : receipt[s][j].status = "live" => receipt[s][j].offset # n
      BY <2>3 DEF ReceiptInv, ReceiptsForgetErasedTurns, In, Stored
    <3>8. \A a \in acks : a.scope \in Scopes /\ a.key \in AllKeys /\ a.offset \in Nat
      BY OffsetsAreNaturals DEF ReceiptInv, ReceiptsTyped, Acks
    <3>9. new.scope = s /\ new.key = k /\ new.offset = n /\ new.payload = p
      OBVIOUS
    <3>10. Live(p, n).status = "live" /\ Live(p, n).offset = n /\ Live(p, n).payload = p
      BY DEF Live
    <3> HIDE DEF new
    <3>11. OneAnswerPerKey'
      <4> SUFFICES ASSUME NEW a \in acks', NEW b \in acks', a.scope = b.scope
                   PROVE  /\ a.key = b.key <=> a.offset = b.offset
                          /\ a.key = b.key => a.payload = b.payload
        BY DEF OneAnswerPerKey
      <4>1. CASE a \in acks /\ b \in acks
        BY <4>1 DEF ReceiptInv, OneAnswerPerKey
      <4>2. CASE a = new \/ b = new
        BY <3>3, <3>6, <3>9, <4>2
      <4> QED BY <3>3, <4>1, <4>2
    <3>12. AcksMatch'
      <4>1. ASSUME NEW a \in acks' PROVE a.offset <= logOffset'[a.scope]
        <5>1. CASE a = new
          BY <2>3, <3>9, <5>1, OffsetsAreNaturals
        <5>2. CASE a \in acks
          <6>1. a.offset <= logOffset[a.scope]
            BY <5>2 DEF ReceiptInv, AcksMatch
          <6>2. logOffset'[a.scope] \in Int
            BY <2>3, <2>4, <3>8, <5>2, OffsetsAreNaturals
          <6> QED BY <2>4, <3>8, <5>2, <6>1, <6>2
        <5> QED BY <3>3, <5>1, <5>2
      <4>2. ASSUME NEW a \in acks', NEW j \in AllKeys, receipt'[a.scope][j].status = "live"
            PROVE  /\ a.key = j <=> a.offset = receipt'[a.scope][j].offset
                   /\ a.key = j => a.payload = receipt'[a.scope][j].payload
        <5>1. CASE a = new /\ j = k
          BY <3>5, <3>9, <3>10, <5>1
        <5>2. CASE a = new /\ j # k
          BY <3>5, <3>7, <3>9, <4>2, <5>2
        <5>3. CASE a \in acks /\ a.scope = s /\ j = k
          BY <3>5, <3>6, <3>10, <5>3
        <5>4. CASE a \in acks /\ ~(a.scope = s /\ j = k)
          <6>1. receipt'[a.scope][j] = receipt[a.scope][j]
            BY <3>5, <3>8, <5>4
          <6> QED BY <4>2, <5>4, <6>1 DEF ReceiptInv, AcksMatch
        <5> QED BY <3>3, <5>1, <5>2, <5>3, <5>4
      <4> QED BY <4>1, <4>2 DEF AcksMatch
    <3>13. ReceiptsForgetErasedTurns'
      <4> SUFFICES ASSUME NEW t \in Scopes, NEW j \in AllKeys
                   PROVE LET r == receipt'[t][j]
                         IN  /\ r.status = "live" =>
                                   /\ r.offset \in In(phase'[t], Stored)
                                   /\ r.payload \in Payloads
                                   /\ \A i \in AllKeys \ {j} : receipt'[t][i].offset # r.offset
                             /\ r.status # "live" => r = Absent \/ r = Tombstone
                             /\ r.status = "absent" =>
                                   \A a \in acks' : ~(a.scope = t /\ a.key = j)
        BY DEF ReceiptsForgetErasedTurns
      <4>1. n \in In(phase'[s], Stored)
        BY <2>3, <2>6 DEF In
      <4>2. \A i \in AllKeys : receipt[s][i].offset # n
        <5> SUFFICES ASSUME NEW i \in AllKeys PROVE receipt[s][i].offset # n
          OBVIOUS
        <5>1. receipt[s][i].status # "live" => receipt[s][i].offset = NoOffset
          BY DEF ReceiptInv, ReceiptsForgetErasedTurns, Absent, Tombstone
        <5>2. n # NoOffset
          BY <2>3, OffsetsAreNaturals DEF NoOffset
        <5> QED BY <3>7, <5>1, <5>2
      <4>3. CASE t = s /\ j = k
        BY <3>5, <3>10, <4>1, <4>2, <4>3
      <4>4. CASE ~(t = s /\ j = k)
        <5>1. receipt'[t][j] = receipt[t][j]
          BY <3>5, <4>4
        <5>2. \A i \in AllKeys \ {j} : receipt'[t][i] = receipt[t][i] \/
                                       (t = s /\ i = k /\ receipt'[t][i].offset = n)
          BY <3>5, <3>10
        <5>3. \A a \in acks' : a \in acks \/ ~(a.scope = t /\ a.key = j)
          BY <3>3, <3>9, <4>4
        <5> QED BY <2>7, <4>2, <5>1, <5>2, <5>3 DEF ReceiptInv, ReceiptsForgetErasedTurns
      <4> QED BY <4>3, <4>4
    <3> QED BY <3>4, <3>11, <3>12, <3>13 DEF ReceiptInv
  <2> QED BY <2>11, <2>12
<1>2. CASE Answered(s)
  <2>1. PICK k \in AllKeys, p \in Payloads :
           /\ receipt[s][k].status = "live" /\ receipt[s][k].payload = p
           /\ acks' = acks \cup {[scope |-> s, key |-> k, payload |-> p,
                                  offset |-> receipt[s][k].offset]}
    BY <1>2 DEF Answered
  <2>2. receipt' = receipt /\ logOffset' = logOffset /\ phase' = phase
    BY <1>2 DEF Answered, rows
  <2> DEFINE n == receipt[s][k].offset
             new == [scope |-> s, key |-> k, payload |-> p, offset |-> n]
  <2>3. /\ n \in In(phase[s], Stored)
        /\ \A j \in AllKeys \ {k} : receipt[s][j].offset # n
    BY <2>1 DEF ReceiptInv, ReceiptsForgetErasedTurns
  <2>4. n \in Offsets /\ n <= logOffset[s]
    <3>1. n \in Offsets /\ phase[s][n] # "none"
      BY <2>3 DEF In, Stored
    <3>2. ~(n > logOffset[s])
      BY <3>1 DEF LogInv, OffsetsHaveNoGap
    <3>3. logOffset[s] \in Int
      BY LogAssumption DEF LogInv, LogTyped, Offsets, NoOffset
    <3> QED BY <3>1, <3>2, <3>3, OffsetsAreNaturals
  <2>5. new \in Acks
    BY <2>4 DEF Acks
  <2>6. new.scope = s /\ new.key = k /\ new.offset = n /\ new.payload = p
    OBVIOUS
  <2>7. acks' = acks \cup {new}
    BY <2>1
  <2>8. \A a \in acks : a.scope = s => /\ a.key = k <=> a.offset = n
                                       /\ a.key = k => a.payload = p
    BY <2>1 DEF ReceiptInv, AcksMatch
  <2> HIDE DEF n, new
  <2>9. ReceiptsTyped'
    BY <2>2, <2>5, <2>7 DEF ReceiptInv, ReceiptsTyped
  <2>10. OneAnswerPerKey'
    <3> SUFFICES ASSUME NEW a \in acks', NEW b \in acks', a.scope = b.scope
                 PROVE  /\ a.key = b.key <=> a.offset = b.offset
                        /\ a.key = b.key => a.payload = b.payload
      BY DEF OneAnswerPerKey
    <3>1. CASE a \in acks /\ b \in acks
      BY <3>1 DEF ReceiptInv, OneAnswerPerKey
    <3>2. CASE a = new \/ b = new
      BY <2>6, <2>7, <2>8, <3>2
    <3> QED BY <2>7, <3>1, <3>2
  <2>11. AcksMatch'
    <3>1. ASSUME NEW j \in AllKeys, receipt[s][j].status = "live"
          PROVE  (k = j <=> n = receipt[s][j].offset) /\ (k = j => p = receipt[s][j].payload)
      BY <2>1, <2>3, <3>1 DEF n
    <3> QED BY <2>2, <2>4, <2>6, <2>7, <3>1 DEF ReceiptInv, AcksMatch
  <2>12. ReceiptsForgetErasedTurns'
    BY <2>1, <2>2, <2>6, <2>7 DEF ReceiptInv, ReceiptsForgetErasedTurns
  <2> QED BY <2>9, <2>10, <2>11, <2>12 DEF ReceiptInv
<1>3. CASE Tried
  BY <1>3, ReceiptsUntouched DEF Tried, marks
<1>4. ASSUME NEW o \in Offsets, Moved(s, o) PROVE ReceiptInv'
  <2>1. /\ phase'[s][o] \in Stored
        /\ \A t \in Scopes : \A u \in Offsets :
               t # s \/ u # o => phase'[t][u] = phase[t][u]
    BY <1>4, MoveRewritesOneRow
  <2>2. \A t \in Scopes : In(phase[t], Stored) \subseteq In(phase'[t], Stored)
    BY <2>1 DEF In
  <2> QED BY <1>4, <2>2, ReceiptsUntouched DEF Moved
<1>5. CASE Deleted(s)
  <2>1. PICK O \in SUBSET In(phase[s], Stored) : Delete(s, O)
    BY <1>5 DEF Deleted
  <2>2. /\ \A u \in Offsets : phase'[s][u] = IF u \in O THEN "erased" ELSE phase[s][u]
        /\ \A t \in Scopes \ {s} : phase'[t] = phase[t]
    BY <2>1, DeleteRewritesStoredRows
  <2>3. acks' = acks /\ logOffset' = logOffset
    BY <2>1 DEF Delete, marks
  <2>4. receipt' = [receipt EXCEPT ![s] = Forgotten(s, O)]
    BY <2>1 DEF Delete
  <2>5. \A t \in Scopes, k \in AllKeys :
            receipt'[t][k] = IF t = s /\ receipt[s][k].offset \in O
                             THEN Tombstone ELSE receipt[t][k]
    BY <2>4 DEF ReceiptInv, ReceiptsTyped, Forgotten
  <2>6. Tombstone.status = "tombstone" /\ Tombstone.offset = NoOffset /\ Tombstone \in Receipts
    BY DEF Tombstone, Receipts
  <2>7. NoOffset \notin Offsets
    BY OffsetsAreNaturals DEF NoOffset
  <2>8. ReceiptsTyped'
    <3>1. Forgotten(s, O) \in [AllKeys -> Receipts]
      BY <2>6 DEF Forgotten, ReceiptInv, ReceiptsTyped
    <3> QED BY <2>3, <2>4, <3>1 DEF ReceiptInv, ReceiptsTyped
  <2>9. OneAnswerPerKey'
    BY <2>3 DEF ReceiptInv, OneAnswerPerKey
  <2>10. AcksMatch'
    <3>1. \A a \in acks : a.scope \in Scopes
      BY DEF ReceiptInv, ReceiptsTyped, Acks
    <3> QED BY <2>3, <2>5, <2>6, <3>1 DEF ReceiptInv, AcksMatch
  <2>11. ReceiptsForgetErasedTurns'
    <3> SUFFICES ASSUME NEW t \in Scopes, NEW j \in AllKeys
                 PROVE LET r == receipt'[t][j]
                       IN  /\ r.status = "live" =>
                                 /\ r.offset \in In(phase'[t], Stored)
                                 /\ r.payload \in Payloads
                                 /\ \A i \in AllKeys \ {j} : receipt'[t][i].offset # r.offset
                           /\ r.status # "live" => r = Absent \/ r = Tombstone
                           /\ r.status = "absent" =>
                                 \A a \in acks' : ~(a.scope = t /\ a.key = j)
      BY DEF ReceiptsForgetErasedTurns
    <3>1. CASE t = s /\ receipt[s][j].offset \in O
      BY <2>5, <2>6, <3>1
    <3>2. CASE ~(t = s /\ receipt[s][j].offset \in O)
      <4>1. receipt'[t][j] = receipt[t][j]
        BY <2>5, <3>2
      <4>2. receipt[t][j].status = "live" =>
               /\ receipt[t][j].offset \in In(phase'[t], Stored)
               /\ receipt[t][j].offset \in Offsets
        BY <2>2, <3>2 DEF ReceiptInv, ReceiptsForgetErasedTurns, In
      <4>3. \A i \in AllKeys \ {j} :
               receipt[t][j].status = "live" => receipt'[t][i].offset # receipt[t][j].offset
        BY <2>5, <2>6, <2>7, <4>2 DEF ReceiptInv, ReceiptsForgetErasedTurns
      <4> QED BY <2>3, <4>1, <4>2, <4>3 DEF ReceiptInv, ReceiptsForgetErasedTurns
    <3> QED BY <3>1, <3>2
  <2> QED BY <2>8, <2>9, <2>10, <2>11 DEF ReceiptInv
<1> QED BY <1>1, <1>2, <1>3, <1>4, <1>5 DEF Change

-----------------------------------------------------------------------------
(* The inductive invariant *)

IInv == TypeOK /\ LogInv /\ BudgetInv /\ ReceiptInv

LEMMA InitEstablishesIInv == Init => IInv
<1> SUFFICES ASSUME Init PROVE IInv
  OBVIOUS
<1>1. LogInv
  <2>1. NoOffset < 0 /\ \A o \in Offsets : o > NoOffset
    BY OffsetsAreNaturals DEF NoOffset
  <2> QED BY <2>1, OffsetsAreNaturals DEF Init, LogInv, LogTyped, OffsetsHaveNoGap,
                                        FreshnessIsHonest, Phases, NoOffset
<1>2. BudgetInv
  <2>1. Unfinished = {} /\ \A s \in Scopes : OfScope(reserved, s) = {}
    BY DEF Init, Unfinished, OfScope
  <2>2. IsFiniteSet({}) /\ Cardinality({}) = 0
    BY FS_EmptySet
  <2>3. reserved = {} /\ pending = 0 /\ usage \in [Scopes -> Nat]
        /\ \A s \in Scopes : usage[s] = 0
    BY DEF Init
  <2>4. 0 <= MaxPending /\ 0 <= ProjectLimit
    BY LogAssumption
  <2> QED BY <2>1, <2>2, <2>3, <2>4 DEF BudgetInv, Counted
<1>3. ReceiptInv
  <2>1. Absent \in Receipts /\ Absent.status = "absent"
    BY DEF Absent, Receipts
  <2> QED BY <2>1 DEF Init, ReceiptInv, ReceiptsTyped, ReceiptsForgetErasedTurns, AcksMatch,
                      OneAnswerPerKey
<1>4. TypeOK
  <2>1. attempts \in [Scopes -> [Offsets -> 0 .. AttemptCap]]
    BY LogAssumption DEF Init
  <2>2. due \in [Scopes -> [Offsets -> BOOLEAN]]
    BY DEF Init
  <2>3. pending \in Nat
    BY DEF Init
  <2> QED BY <1>1, <1>2, <1>3, <2>1, <2>2, <2>3 DEF TypeOK, LogInv, LogTyped, BudgetInv,
                                                     ReceiptInv, ReceiptsTyped
<1> QED BY <1>1, <1>2, <1>3, <1>4 DEF IInv

LEMMA RowsStayTyped ==
    ASSUME TypeOK, NEW s \in Scopes, Change(s)
    PROVE  CountersTyped
<1>1. CASE Wrote(s) \/ Answered(s)
  <2>1. attempts' = attempts /\ due' = due
    BY <1>1 DEF Wrote, Insert, Answered, rows
  <2> QED BY <2>1 DEF TypeOK, CountersTyped
<1>2. CASE Tried \/ \E o \in Offsets : Moved(s, o)
  BY <1>2 DEF Tried, Moved
<1>3. CASE Deleted(s)
  <2>1. PICK O : Delete(s, O)
    BY <1>3 DEF Deleted
  <2>2. attempts' \in [Scopes -> [Offsets -> 0 .. AttemptCap]]
    <3>1. [o \in Offsets |-> IF o \in O THEN 0 ELSE attempts[s][o]]
             \in [Offsets -> 0 .. AttemptCap]
      BY LogAssumption DEF TypeOK
    <3> QED BY <2>1, <3>1 DEF Delete, TypeOK
  <2>3. due' \in [Scopes -> [Offsets -> BOOLEAN]]
    <3>1. [o \in Offsets |-> o \in O \/ due[s][o]] \in [Offsets -> BOOLEAN]
      OBVIOUS
    <3> QED BY <2>1, <3>1 DEF Delete, TypeOK
  <2> QED BY <2>2, <2>3 DEF CountersTyped
<1> QED BY <1>1, <1>2, <1>3 DEF Change

LEMMA StepKeepsIInv == IInv /\ [Next]_logVars => IInv'
<1> SUFFICES ASSUME IInv, [Next]_logVars PROVE IInv'
  OBVIOUS
<1>1. CASE UNCHANGED logVars
  <2>1. TypeOK' /\ LogInv'
    BY <1>1 DEF logVars, IInv, TypeOK, LogInv, LogTyped, OffsetsHaveNoGap, FreshnessIsHonest
  <2>2. BudgetInv'
    BY <1>1 DEF logVars, IInv, BudgetInv, Counted, Unfinished
  <2>3. ReceiptInv'
    BY <1>1 DEF logVars, IInv, ReceiptInv, ReceiptsTyped, ReceiptsForgetErasedTurns, AcksMatch,
                OneAnswerPerKey
  <2> QED BY <2>1, <2>2, <2>3 DEF IInv
<1>2. ASSUME NEW s \in Scopes, Change(s) PROVE IInv'
  <2>1. LogInv' /\ BudgetInv' /\ ReceiptInv' /\ CountersTyped
    BY <1>2, LogInvStep, BudgetInvStep, ReceiptInvStep, RowsStayTyped DEF IInv
  <2>2. pending' \in Nat
    BY <2>1, FS_CardinalityType DEF BudgetInv, Counted
  <2> QED BY <2>1, <2>2 DEF IInv, TypeOK, LogInv, LogTyped, BudgetInv, ReceiptInv,
                            ReceiptsTyped, CountersTyped
<1> QED BY <1>1, <1>2, StepsAreChanges DEF IInv

\* The inductive invariant holds of every behaviour of the log.
THEOREM LogIsSound == Spec => []IInv
BY InitEstablishesIInv, StepKeepsIInv, PTL DEF Spec

\* The state stays well typed: in particular no counter of the budget goes below zero.
THEOREM TypeCorrect == Spec => []TypeOK
<1>1. IInv => TypeOK
  BY DEF IInv
<1> QED BY <1>1, LogIsSound, PTL

\* The formed watermark is never at or above a turn that waits (MarkFormed, Park, Unpark,
\* finishGenerationTx, Erase).
THEOREM FreshnessStaysHonest == Spec => []FreshnessIsHonest
<1>1. IInv => FreshnessIsHonest
  BY DEF IInv, LogInv
<1> QED BY <1>1, LogIsSound, PTL

\* The log has no hole, and the formed watermark never passes its end (Append).
THEOREM OffsetsStayDense == Spec => []OffsetsHaveNoGap
<1>1. IInv => OffsetsHaveNoGap
  BY DEF IInv, LogInv
<1> QED BY <1>1, LogIsSound, PTL

\* The ingestion counters equal the number of unfinished turns, overall and in each
\* project, and stay within both limits (migration 0025).
THEOREM BudgetStaysExact == Spec => []BudgetIsExact
<1>1. IInv => BudgetIsExact
  BY DEF IInv, BudgetInv, Counted, BudgetIsExact
<1> QED BY <1>1, LogIsSound, PTL

\* A key is answered with one request and one offset for ever (AppendIdempotent).
THEOREM KeysHaveOneAnswer == Spec => []OneAnswerPerKey
<1>1. IInv => OneAnswerPerKey
  BY DEF IInv, ReceiptInv
<1> QED BY <1>1, LogIsSound, PTL

\* What is left of an erased turn's receipt is that its key was used (migration 0021).
THEOREM ReceiptsForget == Spec => []ReceiptsForgetErasedTurns
<1>1. IInv => ReceiptsForgetErasedTurns
  BY DEF IInv, ReceiptInv
<1> QED BY <1>1, LogIsSound, PTL

-----------------------------------------------------------------------------
(* The log keeps the promise of FormedWatermark *)

LEMMA RecomputeRestates ==
    ASSUME LogInv, LogInv', NEW s \in Scopes, AdvanceFormed(s)
    PROVE  /\ FW!Restate(s)
           /\ (\A o \in Offsets : o <= formedOffset[s] => phase'[s][o] # "backlog")
                  => FW!Advance(s)
<1> DEFINE h == HighestFormed(phase'[s])
<1>1. formedOffset' = [formedOffset EXCEPT ![s] = h] /\ formedOffset'[s] = h
  BY DEF AdvanceFormed, LogInv, LogTyped
<1>2. phase'[s] \in [Offsets -> Phases]
  BY DEF LogInv, LogTyped
<1>3. h \in Offsets \cup {NoOffset} /\ h <= logOffset'[s]
  BY <1>1, <1>2, HighestFormedIsHonest DEF LogInv, OffsetsHaveNoGap
<1>4. h \in NoOffset .. logOffset'[s]
  BY <1>3, LogAssumption DEF LogInv, LogTyped, Offsets, NoOffset
<1>5. \A o \in Offsets : o <= h => phase'[s][o] # "backlog"
  BY <1>2, HighestFormedIsHonest
<1>6. ASSUME \A o \in Offsets : o <= formedOffset[s] => phase'[s][o] # "backlog"
      PROVE  \/ formedOffset[s] <= h
             \/ \A o \in Offsets : o > h => phase'[s][o] \in {"none", "erased"}
  BY <1>2, <1>6, HighestFormedIsHighest DEF LogInv, LogTyped
<1> HIDE DEF h
<1>7. FW!Restate(s)
  BY <1>1, <1>4, <1>5 DEF FW!Restate, FW!Honest, FW!Offsets, FW!NoOffset, Offsets, NoOffset
<1>8. h \in Int /\ formedOffset[s] \in Int
  BY <1>3, LogAssumption DEF LogInv, LogTyped, Offsets, NoOffset
<1> QED BY <1>1, <1>6, <1>7, <1>8 DEF FW!Advance, FW!NothingAbove, FW!Offsets, Offsets

LEMMA KeepingAdvances ==
    ASSUME LogInv, LogInv', NEW s \in Scopes, formedOffset' = formedOffset
    PROVE  FW!Advance(s)
<1>1. formedOffset[s] \in NoOffset .. logOffset'[s]
  BY LogAssumption DEF LogInv, LogTyped, OffsetsHaveNoGap, Offsets, NoOffset
<1>2. formedOffset' = [formedOffset EXCEPT ![s] = formedOffset[s]]
  BY DEF LogInv, LogTyped
<1>3. \A o \in Offsets : o <= formedOffset[s] => phase'[s][o] # "backlog"
  BY DEF LogInv, FreshnessIsHonest
<1>4. FW!Restate(s)
  BY <1>1, <1>2, <1>3 DEF FW!Restate, FW!Honest, FW!Offsets, FW!NoOffset, Offsets, NoOffset
<1> QED BY <1>1, <1>4 DEF FW!Advance, NoOffset, LogInv, LogTyped

LEMMA InitRefines == Init => FW!Init
BY DEF Init, FW!Init, Offsets, FW!Offsets, NoOffset, FW!NoOffset

\* Every step of the log is a step the promise allows, or changes nothing it speaks of.
LEMMA StepRefines ==
    ASSUME IInv, IInv', [Next]_logVars
    PROVE  [FW!Next]_(FW!vars)
<1> USE DEF IInv
<1>1. CASE UNCHANGED logVars
  BY <1>1 DEF logVars, FW!vars
<1>2. ASSUME NEW s \in Scopes, Change(s) PROVE [FW!Next]_(FW!vars)
  <2>1. CASE Wrote(s)
    <3>0. PICK k, p :
             \/ Insert(s, k, p, "backlog") /\ formedOffset' = formedOffset
             \/ Insert(s, k, p, "formed") /\ AdvanceFormed(s)
      BY <2>1 DEF Wrote
    <3>1. PICK ph \in {"backlog", "formed"} :
             /\ Insert(s, k, p, ph)
             /\ formedOffset' = formedOffset \/ AdvanceFormed(s)
      BY <3>0
    <3>2. logOffset[s] < MaxOffset
      BY <2>1 DEF Wrote
    <3>3. FW!Advance(s)
      <4>1. /\ logOffset[s] + 1 \in Offsets /\ formedOffset[s] < logOffset[s] + 1
        BY <3>1, <3>2, InsertKeepsNoGap
      <4>2. ASSUME NEW o \in Offsets, o <= formedOffset[s] PROVE phase'[s][o] # "backlog"
        <5>1. o # logOffset[s] + 1
          BY <4>1, <4>2, LogAssumption DEF LogInv, LogTyped, Offsets, NoOffset
        <5>2. phase'[s][o] = phase[s][o]
          BY <3>1, <5>1 DEF Insert, LogInv, LogTyped
        <5> QED BY <4>2, <5>2 DEF LogInv, FreshnessIsHonest
      <4> QED BY <3>1, <4>2, RecomputeRestates, KeepingAdvances
    <3>4. FW!Accept(s)
      BY <3>1, <3>2, <3>3 DEF FW!Accept, Insert
    <3> QED BY <3>4 DEF FW!Next
  <2>2. CASE Answered(s)
    <3>1. phase' = phase /\ logOffset' = logOffset
      BY <2>2 DEF Answered, rows
    <3>2. formedOffset' = formedOffset \/ AdvanceFormed(s)
      BY <2>2, <3>1 DEF Answered, AdvanceFormed
    <3>3. \A o \in Offsets : o <= formedOffset[s] => phase'[s][o] # "backlog"
      BY <3>1 DEF LogInv, FreshnessIsHonest
    <3>4. FW!Recompute(s)
      BY <3>1, <3>2, <3>3, RecomputeRestates, KeepingAdvances DEF FW!Recompute
    <3> QED BY <3>4 DEF FW!Next
  <2>3. CASE Tried
    BY <2>3 DEF Tried, marks, FW!vars
  <2>4. ASSUME NEW o \in Offsets, Moved(s, o) PROVE FW!Next
    <3>1. /\ phase[s][o] \in Stored
          /\ \A t \in Scopes : \A u \in Offsets :
                 t # s \/ u # o => phase'[t][u] = phase[t][u]
      BY <2>4, MoveRewritesOneRow
    <3>2. logOffset' = logOffset /\ AdvanceFormed(s)
      BY <2>4 DEF Moved
    <3>3. o \in FW!Offsets
      BY DEF Offsets, FW!Offsets
    <3>4. CASE Formed(s, o) \/ Parked(s, o)
      <4>1. phase'[s][o] # "backlog"
        BY <3>4 DEF Formed, Parked, LogInv, LogTyped
      <4>2. \A u \in Offsets : u <= formedOffset[s] => phase'[s][u] # "backlog"
        BY <3>1, <4>1 DEF LogInv, FreshnessIsHonest
      <4>3. FW!Advance(s)
        BY <3>2, <4>2, RecomputeRestates
      <4>4. CASE phase' = phase
        <5>1. FW!Recompute(s)
          BY <3>2, <4>3, <4>4 DEF FW!Recompute
        <5> QED BY <5>1 DEF FW!Next
      <4>5. CASE phase' # phase
        <5>1. PICK q \in {"parked", "formed"} :
                 /\ phase' = [phase EXCEPT ![s][o] = q]
                 /\ q = "parked" => phase[s][o] = "backlog"
          BY <3>4 DEF Formed, Parked
        <5>2. phase[s][o] # "formed"
          <6> SUFFICES ASSUME phase[s][o] = "formed" PROVE FALSE
            OBVIOUS
          <6>1. q = "formed"
            BY <5>1
          <6>2. phase' = phase
            BY <5>1, <6>1 DEF LogInv, LogTyped
          <6> QED BY <4>5, <6>2
        <5>3. FW!Settle(s, o)
          BY <3>1, <3>2, <4>3, <5>1, <5>2 DEF FW!Settle, Stored
        <5> QED BY <3>3, <5>3 DEF FW!Next
      <4> QED BY <4>4, <4>5
    <3>5. CASE Reopened(s, o)
      <4>1. FW!Reopen(s, o)
        BY <3>2, <3>5, RecomputeRestates DEF FW!Reopen, Reopened
      <4> QED BY <3>3, <4>1 DEF FW!Next
    <3> QED BY <2>4, <3>4, <3>5 DEF Moved
  <2>5. CASE Deleted(s)
    <3>1. PICK O \in SUBSET In(phase[s], Stored) : Delete(s, O)
      BY <2>5 DEF Deleted
    <3>2. O \in SUBSET FW!Offsets /\ \A o \in O : phase[s][o] \in {"backlog", "parked", "formed"}
      BY <3>1 DEF In, Offsets, FW!Offsets, Stored
    <3>3. FW!Forget(s)
      BY <3>1, <3>2 DEF FW!Forget, Delete, marks, Offsets, FW!Offsets
    <3> QED BY <3>3 DEF FW!Next
  <2> QED BY <1>2, <2>1, <2>2, <2>3, <2>4, <2>5 DEF Change
<1> QED BY <1>1, <1>2, StepsAreChanges

\* The log implements FormedWatermark: whatever is appended, formed, parked, reopened,
\* rebuilt, asserted or erased, GET /v1/freshness keeps the promise stated there.
THEOREM LogImplementsWatermark == Spec => ImplementsWatermark
BY InitRefines, StepRefines, LogIsSound, PTL DEF Spec, ImplementsWatermark, FW!Spec

Retreat(s) ==
    formedOffset'[s] < formedOffset[s] =>
        \/ \E o \in Offsets : phase[s][o] = "parked" /\ phase'[s][o] = "backlog"
        \/ \A o \in Offsets : o > formedOffset'[s] => phase'[s][o] \in {"none", "erased"}

LEMMA PromiseBoundsRetreat ==
    ASSUME LogInv, LogInv', [FW!Next]_(FW!vars), NEW t \in Scopes
    PROVE  Retreat(t)
<1>1. formedOffset[t] \in Int /\ formedOffset'[t] \in Int
  BY LogAssumption DEF LogInv, LogTyped, Offsets, NoOffset
<1>2. CASE formedOffset'[t] = formedOffset[t]
  BY <1>1, <1>2 DEF Retreat
<1>3. ASSUME NEW s \in Scopes, FW!Advance(s) PROVE Retreat(t)
  <2>1. CASE t = s
    BY <1>1, <1>3, <2>1 DEF FW!Advance, FW!NothingAbove, FW!Offsets, Offsets, Retreat
  <2>2. CASE t # s
    BY <1>2, <1>3, <2>2 DEF FW!Advance, FW!Restate, LogInv, LogTyped
  <2> QED BY <2>1, <2>2
<1>4. ASSUME NEW s \in Scopes, NEW o \in FW!Offsets, FW!Reopen(s, o) PROVE Retreat(t)
  <2>1. CASE t = s
    <3>1. o \in Offsets /\ phase[s][o] = "parked" /\ phase'[s][o] = "backlog"
      BY <1>4 DEF FW!Reopen, FW!Offsets, Offsets, LogInv, LogTyped
    <3> QED BY <2>1, <3>1 DEF Retreat
  <2>2. CASE t # s
    BY <1>2, <1>4, <2>2 DEF FW!Reopen, FW!Restate, LogInv, LogTyped
  <2> QED BY <2>1, <2>2
<1>5. CASE UNCHANGED FW!vars
  BY <1>2, <1>5 DEF FW!vars
<1>6. CASE FW!Next
  <2> PICK s \in Scopes : \/ FW!Accept(s) \/ FW!Forget(s) \/ FW!Recompute(s)
                          \/ \E o \in FW!Offsets : FW!Settle(s, o) \/ FW!Reopen(s, o)
    BY <1>6 DEF FW!Next
  <2>1. CASE FW!Accept(s) \/ FW!Recompute(s) \/ \E o \in FW!Offsets : FW!Settle(s, o)
    BY <1>3, <2>1 DEF FW!Accept, FW!Recompute, FW!Settle
  <2>2. CASE FW!Forget(s)
    BY <1>2, <2>2 DEF FW!Forget
  <2> QED BY <1>4, <2>1, <2>2
<1> QED BY <1>5, <1>6

\* The watermark gives up an offset only to a reopened turn below it, or when nothing
\* above its new place is left (Unpark, UnparkAudited, Erase, Sweep).
THEOREM WatermarkRetreatsOnlyForUnpark == Spec => OnlyUnparkRetreats
<1>1. ASSUME IInv, IInv', [Next]_logVars
      PROVE  [\A s \in Scopes : Retreat(s)]_logVars
  BY <1>1, StepRefines, PromiseBoundsRetreat DEF IInv
<1>2. IInv /\ IInv' /\ [Next]_logVars =>
         [\A s \in Scopes : formedOffset'[s] < formedOffset[s] =>
            \/ \E o \in Offsets : phase[s][o] = "parked" /\ phase'[s][o] = "backlog"
            \/ \A o \in Offsets : o > formedOffset'[s] => phase'[s][o] \in {"none", "erased"}
         ]_logVars
  BY <1>1 DEF Retreat
<1> QED BY <1>2, LogIsSound, PTL DEF Spec, OnlyUnparkRetreats

-----------------------------------------------------------------------------
(* The workers *)

WTyped ==
    /\ worker \in [Workers -> WorkerState]
    /\ \A w \in Workers : worker[w].at \in OnTurn => worker[w].turn \in Offsets
    /\ lock \in [Scopes -> Workers \cup {NoWorker}]
    /\ claims \in SUBSET (Scopes \X Offsets \X (1 .. Messages))
    /\ tries \in [Scopes -> [Offsets -> 0 .. AttemptCap]]
    /\ lost \in [Scopes -> BOOLEAN]

LEMMA IdleIsTyped == Idle \in WorkerState /\ Idle.at = "idle"
<1>1. (CHOOSE s \in Scopes : TRUE) \in Scopes
  BY WorkerAssumption
<1> QED BY <1>1, WorkerAssumption DEF Idle, WorkerState, Steps

LEMMA WorkerFields ==
    ASSUME WTyped, NEW w \in Workers
    PROVE  /\ worker[w].at \in Steps /\ worker[w].scope \in Scopes
           /\ worker[w].turn \in Offsets \cup {NoOffset}
           /\ worker[w].next \in 1 .. Messages
           /\ worker[w].at \in OnTurn => worker[w].turn \in Offsets
BY DEF WTyped, WorkerState

-----------------------------------------------------------------------------
(* The workers run the log *)

\* What any worker does to the store is an operation of ObservationLog, or nothing.
LEMMA WorkerStepsAreLogSteps ==
    ASSUME WTyped, [WNext]_vars
    PROVE  [Next]_logVars
<1>1. CASE UNCHANGED vars
  BY <1>1 DEF vars
<1>2. ASSUME NEW w \in Workers, WorkerStep(w) PROVE [Next]_logVars
  <2>1. CASE TakeTurn(w)
    <3>1. PICK o \in Ready(worker[w].scope) : ClaimTurn(worker[w].scope, o)
      BY <2>1 DEF TakeTurn
    <3>2. o \in Offsets /\ worker[w].scope \in Scopes
      BY <3>1, WorkerFields DEF Ready, Waiting, In
    <3> QED BY <3>1, <3>2 DEF Next, Form
  <2>2. CASE MarkTurn(w)
    <3>1. worker[w].scope \in Scopes /\ worker[w].turn \in Offsets
      BY <2>2, WorkerFields DEF MarkTurn, OnTurn
    <3> QED BY <2>2, <3>1 DEF MarkTurn, Next, Form
  <2>3. CASE RecordFailure(w)
    <3>1. worker[w].scope \in Scopes /\ worker[w].turn \in Offsets
      BY <2>3, WorkerFields DEF RecordFailure, OnTurn
    <3> QED BY <2>3, <3>1 DEF RecordFailure, Next, Form
  <2>4. CASE ParkTurn(w)
    <3>1. worker[w].scope \in Scopes /\ worker[w].turn \in Offsets
      BY <2>4, WorkerFields DEF ParkTurn, OnTurn
    <3> QED BY <2>4, <3>1 DEF ParkTurn, Next, Form
  <2> QED BY <1>2, <2>1, <2>2, <2>3, <2>4 DEF WorkerStep, StartDrain, NothingDue,
                                              FormMessage, FormFails
<1>3. ASSUME NEW w \in Workers, Stop(w) \/ Crash(w) PROVE [Next]_logVars
  BY <1>3 DEF Stop, Crash
<1>4. ASSUME NEW s \in Scopes, LoseSession(s) \/ ReapSession(s) PROVE [Next]_logVars
  BY <1>4 DEF LoseSession, ReapSession
<1>5. CASE Clients
  <2>1. ASSUME NEW s \in Scopes, AuthorRecord(s) PROVE Next
    BY <2>1 DEF AuthorRecord, Next, Write
  <2>2. ASSUME NEW s \in Scopes, ForgetTurns(s) PROVE Next
    BY <2>2 DEF ForgetTurns, Next
  <2>3. ASSUME NEW s \in Scopes, NEW p \in Payloads, Append(s, NoKey, p) PROVE Next
    BY <2>3 DEF Next, Write
  <2>4. ASSUME NEW s \in Scopes, NEW o \in Offsets, BackoffElapses(s, o) \/ Reopen(s, o)
        PROVE  Next
    BY <2>4 DEF Reopen, Next, Form
  <2> QED BY <1>5, <2>1, <2>2, <2>3, <2>4 DEF Clients
<1> QED BY <1>1, <1>2, <1>3, <1>4, <1>5 DEF WNext

-----------------------------------------------------------------------------
(* Where a worker can go *)

WorkersTyped == /\ worker \in [Workers -> WorkerState]
                /\ \A w \in Workers : worker[w].at \in OnTurn => worker[w].turn \in Offsets

LEMMA GoingStaysTyped ==
    ASSUME WorkersTyped, NEW w \in Workers, NEW step \in Steps,
           worker[w].turn \in Offsets, Goes(w, step)
    PROVE  /\ WorkersTyped'
           /\ worker'[w] = [worker[w] EXCEPT !.at = step]
           /\ \A v \in Workers \ {w} : worker'[v] = worker[v]
<1>1. worker' = [worker EXCEPT ![w] = [worker[w] EXCEPT !.at = step]]
  BY DEF Goes, WorkersTyped
<1>2. [worker[w] EXCEPT !.at = step] \in WorkerState
  BY DEF WorkersTyped, WorkerState
<1> QED BY <1>1, <1>2 DEF WorkersTyped, WorkerState

LEMMA LoopingStaysTyped ==
    ASSUME WorkersTyped, NEW w \in Workers, Loops(w)
    PROVE  /\ WorkersTyped'
           /\ worker'[w].at = "draining" /\ worker'[w].scope = worker[w].scope
           /\ \A v \in Workers \ {w} : worker'[v] = worker[v]
<1> DEFINE r == [at |-> "draining", scope |-> worker[w].scope, turn |-> NoOffset, next |-> 1]
<1>1. worker' = [worker EXCEPT ![w] = r]
  BY DEF Loops
<1>2. r \in WorkerState /\ r.at = "draining" /\ r.scope = worker[w].scope
  <2>1. worker[w].scope \in Scopes /\ 1 \in 1 .. Messages
    BY WorkerAssumption DEF WorkersTyped, WorkerState
  <2> QED BY <2>1 DEF WorkerState, Steps
<1> HIDE DEF r
<1> QED BY <1>1, <1>2 DEF WorkersTyped, OnTurn

LEMMA ReturningStaysTyped ==
    ASSUME WorkersTyped, NEW w \in Workers, worker' = [worker EXCEPT ![w] = Idle]
    PROVE  /\ WorkersTyped'
           /\ worker'[w].at = "idle"
           /\ \A v \in Workers \ {w} : worker'[v] = worker[v]
BY IdleIsTyped DEF WorkersTyped, OnTurn

\* Starting a drain, taking a turn, or extracting one more message.
LEMMA WorkStaysTyped ==
    ASSUME WorkersTyped, NEW w \in Workers, NEW r \in WorkerState,
           r.at \in OnTurn => r.turn \in Offsets,
           worker' = [worker EXCEPT ![w] = r]
    PROVE  /\ WorkersTyped'
           /\ worker'[w] = r
           /\ \A v \in Workers \ {w} : worker'[v] = worker[v]
BY DEF WorkersTyped

\* What each step does to the worker that takes it.
LEMMA StartDrainMoves ==
    ASSUME WorkersTyped, NEW w \in Workers, NEW s \in Scopes, StartDrain(w, s)
    PROVE  /\ WorkersTyped'
           /\ worker'[w].at = "draining" /\ worker'[w].scope = s
           /\ \A v \in Workers \ {w} : worker'[v] = worker[v]
<1> DEFINE r == [Idle EXCEPT !.at = "draining", !.scope = s]
<1>1. r \in WorkerState /\ r.at = "draining" /\ r.scope = s
  BY IdleIsTyped DEF WorkerState, Steps
<1>2. worker' = [worker EXCEPT ![w] = r]
  BY DEF StartDrain
<1> HIDE DEF r
<1> QED BY <1>1, <1>2, WorkStaysTyped DEF OnTurn

LEMMA TakeTurnMoves ==
    ASSUME WorkersTyped, NEW w \in Workers, TakeTurn(w)
    PROVE  \E o \in Offsets :
               /\ phase[worker[w].scope][o] = "backlog"
               /\ ClaimTurn(worker[w].scope, o)
               /\ tries' = [tries EXCEPT ![worker[w].scope][o] =
                                 IF @ < AttemptCap THEN @ + 1 ELSE @]
               /\ WorkersTyped'
               /\ worker'[w].at = "forming" /\ worker'[w].next = 1
               /\ worker'[w].scope = worker[w].scope /\ worker'[w].turn = o
               /\ \A v \in Workers \ {w} : worker'[v] = worker[v]
<1>1. PICK o \in Ready(worker[w].scope) :
         /\ ClaimTurn(worker[w].scope, o)
         /\ tries' = [tries EXCEPT ![worker[w].scope][o] = IF @ < AttemptCap THEN @ + 1 ELSE @]
         /\ worker' = [worker EXCEPT ![w] = [at |-> "forming", scope |-> worker[w].scope,
                                             turn |-> o, next |-> 1]]
  BY DEF TakeTurn
<1>2. o \in Offsets /\ phase[worker[w].scope][o] = "backlog"
  BY <1>1 DEF ClaimTurn, Ready, Waiting, In
<1> DEFINE r == [at |-> "forming", scope |-> worker[w].scope, turn |-> o, next |-> 1]
<1>3. /\ r \in WorkerState /\ r.at = "forming" /\ r.next = 1
      /\ r.scope = worker[w].scope /\ r.turn = o
  <2>1. worker[w].scope \in Scopes /\ 1 \in 1 .. Messages
    BY WorkerAssumption DEF WorkersTyped, WorkerState
  <2> QED BY <1>2, <2>1 DEF WorkerState, Steps
<1>4. worker' = [worker EXCEPT ![w] = r]
  BY <1>1
<1> HIDE DEF r
<1>5. /\ WorkersTyped' /\ worker'[w] = r
      /\ \A v \in Workers \ {w} : worker'[v] = worker[v]
  BY <1>2, <1>3, <1>4, WorkStaysTyped
<1> QED BY <1>1, <1>2, <1>3, <1>5

LEMMA FormMessageMoves ==
    ASSUME WorkersTyped, NEW w \in Workers, FormMessage(w)
    PROVE  /\ WorkersTyped'
           /\ worker'[w].scope = worker[w].scope /\ worker'[w].turn = worker[w].turn
           /\ \/ worker[w].next = Messages /\ worker'[w].at = "formed"
              \/ /\ worker[w].next # Messages /\ worker'[w].at = "forming"
                 /\ worker'[w].next = worker[w].next + 1
           /\ \A v \in Workers \ {w} : worker'[v] = worker[v]
<1>1. worker[w].at = "forming" /\ worker[w].turn \in Offsets
  BY DEF FormMessage, WorkersTyped, OnTurn
<1>2. CASE worker[w].next = Messages
  <2>1. Goes(w, "formed")
    BY <1>2 DEF FormMessage
  <2>2. "formed" \in Steps
    BY DEF Steps
  <2>3. /\ WorkersTyped' /\ worker'[w] = [worker[w] EXCEPT !.at = "formed"]
        /\ \A v \in Workers \ {w} : worker'[v] = worker[v]
    BY <1>1, <2>1, <2>2, GoingStaysTyped
  <2> QED BY <1>2, <2>3 DEF WorkersTyped, WorkerState
<1>3. CASE worker[w].next # Messages
  <2> DEFINE r == [worker[w] EXCEPT !.next = worker[w].next + 1]
  <2>1. worker[w].next \in 1 .. Messages
    BY DEF WorkersTyped, WorkerState
  <2>2. worker[w].next + 1 \in 1 .. Messages
    BY <1>3, <2>1, WorkerAssumption
  <2>3. /\ r \in WorkerState /\ r.at = "forming" /\ r.next = worker[w].next + 1
        /\ r.scope = worker[w].scope /\ r.turn = worker[w].turn
    BY <1>1, <2>2 DEF WorkersTyped, WorkerState
  <2>4. worker' = [worker EXCEPT ![w] = r]
    BY <1>3 DEF FormMessage, WorkersTyped
  <2> HIDE DEF r
  <2>5. /\ WorkersTyped' /\ worker'[w] = r
        /\ \A v \in Workers \ {w} : worker'[v] = worker[v]
    BY <1>1, <2>3, <2>4, WorkStaysTyped
  <2> QED BY <1>3, <2>3, <2>5
<1> QED BY <1>2, <1>3

-----------------------------------------------------------------------------
(* The inductive invariant *)

\* What is true of a worker wherever it stands: while its lock has not been lost it has
\* it; its turn exists, and is parked by nobody else; what it has extracted is there; and
\* a turn it is about to park has had its tries.
Sound(w) ==
    LET s == worker[w].scope
        o == worker[w].turn
    IN  /\ worker[w].at # "idle" /\ ~lost[s] => lock[s] = w
        /\ worker[w].at \in OnTurn => /\ phase[s][o] # "none"
                                      /\ phase[s][o] = "parked" => lost[s]
        /\ worker[w].at \in {"forming", "formed"} /\ phase[s][o] \in Stored =>
               \A m \in 1 .. Messages :
                   worker[w].at = "formed" \/ m < worker[w].next => <<s, o, m>> \in claims
        /\ worker[w].at = "exhausted" /\ ~lost[s] /\ phase[s][o] = "backlog" =>
               tries[s][o] >= MaxAttempts

\* formation_attempts is the number of tries since the turn last joined the backlog.
AttemptsAreTries ==
    \A s \in Scopes : \A o \in Offsets :
        phase[s][o] # "erased" => attempts[s][o] = tries[s][o]

TurnsSound == /\ NoClaimOutlivesItsTurn
              /\ FreshnessIsEarned
              /\ AttemptsAreTries
              /\ ParkedTurnsHadTheirTries

WInv == WTyped /\ IInv /\ TurnsSound /\ \A w \in Workers : Sound(w)

\* What a step may do to a turn somebody is working on.
Spared(s, o) ==
    /\ phase[s][o] # "none" =>
          \/ phase'[s][o] = phase[s][o]
          \/ phase[s][o] \in Stored /\ phase'[s][o] \in {"formed", "erased"}
          \/ phase[s][o] = "parked" /\ phase'[s][o] = "backlog"
          \/ phase[s][o] = "backlog" /\ phase'[s][o] = "parked"
    /\ phase'[s][o] \in Stored => \A m \in 1 .. Messages :
                                      <<s, o, m>> \in claims => <<s, o, m>> \in claims'
    /\ phase[s][o] = "backlog" /\ phase'[s][o] = "backlog" => tries'[s][o] >= tries[s][o]

\* A worker that takes no step stays sound if its turn is spared, nobody parks it under a
\* lock the worker has, and its lock is left to it.
LEMMA BystandersStaySound ==
    ASSUME WInv, WTyped', NEW w \in Workers, worker'[w] = worker[w],
           lost[worker[w].scope] => lost'[worker[w].scope],
           worker[w].at # "idle" /\ ~lost'[worker[w].scope] => lock'[worker[w].scope] = w,
           worker[w].at \in OnTurn =>
               /\ Spared(worker[w].scope, worker[w].turn)
               /\ \/ phase'[worker[w].scope][worker[w].turn] # "parked"
                  \/ phase[worker[w].scope][worker[w].turn] = "parked"
                  \/ lost'[worker[w].scope]
    PROVE  Sound(w)'
<1> DEFINE s == worker[w].scope
           o == worker[w].turn
<1>1. s \in Scopes /\ worker[w].at \in Steps /\ (worker[w].at \in OnTurn => o \in Offsets)
  BY WorkerFields DEF WInv
<1>2. Sound(w)
  BY DEF WInv
<1>3. CASE worker[w].at \notin OnTurn
  BY <1>3 DEF Sound, OnTurn
<1>4. CASE worker[w].at \in OnTurn
  <2>1. /\ Spared(s, o)
        /\ phase'[s][o] # "parked" \/ phase[s][o] = "parked" \/ lost'[s]
    BY <1>4
  <2>2. phase[s][o] # "none" /\ (phase[s][o] = "parked" => lost[s])
    BY <1>2, <1>4 DEF Sound
  <2>3. phase'[s][o] # "none" /\ (phase'[s][o] = "parked" => lost'[s])
    BY <2>1, <2>2 DEF Spared, Stored
  <2>4. phase'[s][o] \in Stored => phase[s][o] \in Stored
    BY <2>1, <2>2 DEF Spared, Stored
  <2>5. worker[w].at \in {"forming", "formed"} /\ phase'[s][o] \in Stored =>
            \A m \in 1 .. Messages :
                worker[w].at = "formed" \/ m < worker[w].next => <<s, o, m>> \in claims'
    BY <1>2, <2>1, <2>4 DEF Sound, Spared
  <2>6. worker[w].at = "exhausted" /\ ~lost'[s] /\ phase'[s][o] = "backlog" =>
            tries'[s][o] >= MaxAttempts
    <3> SUFFICES ASSUME worker[w].at = "exhausted", ~lost'[s], phase'[s][o] = "backlog"
                 PROVE  tries'[s][o] >= MaxAttempts
      OBVIOUS
    <3>1. phase[s][o] = "backlog"
      BY <2>1, <2>2 DEF Spared, Stored
    <3>2. tries[s][o] >= MaxAttempts /\ tries'[s][o] >= tries[s][o]
      BY <1>2, <2>1, <3>1 DEF Sound, Spared
    <3>3. tries[s][o] \in Int /\ tries'[s][o] \in Int /\ MaxAttempts \in Int
      BY <1>1, <1>4, LogAssumption, WorkerAssumption DEF WInv, WTyped
    <3> QED BY <3>2, <3>3
  <2> QED BY <2>3, <2>5, <2>6 DEF Sound
<1> QED BY <1>3, <1>4

\* A step that touches no row, claim or try, beyond what formation remembers of a backoff.
RowsKept == phase' = phase /\ attempts' = attempts /\ claims' = claims /\ tries' = tries

LEMMA KeptRowsAreSpared ==
    ASSUME WInv, RowsKept, NEW s \in Scopes, NEW o \in Offsets PROVE Spared(s, o)
<1>1. tries[s][o] \in Int
  BY LogAssumption DEF WInv, WTyped
<1> QED BY <1>1 DEF RowsKept, Spared

LEMMA KeptRowsKeepTurnsSound ==
    ASSUME WInv, RowsKept, \A s \in Scopes : lost[s] => lost'[s]
    PROVE  TurnsSound'
BY DEF WInv, RowsKept, TurnsSound, NoClaimOutlivesItsTurn, FreshnessIsEarned,
       AttemptsAreTries, ParkedTurnsHadTheirTries

Rest == WTyped /\ TurnsSound /\ \A w \in Workers : Sound(w)

\* A worker moves, and no row changes.
LEMMA MovesKeepRest ==
    ASSUME WInv, RowsKept, NEW w \in Workers, WorkersTyped',
           lock' \in [Scopes -> Workers \cup {NoWorker}], lost' = lost,
           \A v \in Workers \ {w} : worker'[v] = worker[v],
           \A s \in Scopes, v \in Workers \ {w} : lock[s] = v => lock'[s] = v,
           Sound(w)'
    PROVE  Rest'
<1>1. WTyped'
  BY DEF WInv, WTyped, WorkersTyped, RowsKept
<1>2. ASSUME NEW v \in Workers \ {w} PROVE Sound(v)'
  <2>1. worker'[v] = worker[v] /\ worker[v].scope \in Scopes
    BY WorkerFields DEF WInv
  <2>2. worker[v].at # "idle" /\ ~lost[worker[v].scope] => lock[worker[v].scope] = v
    BY DEF WInv, Sound
  <2>3. worker[v].at \in OnTurn =>
            /\ Spared(worker[v].scope, worker[v].turn)
            /\ \/ phase'[worker[v].scope][worker[v].turn] # "parked"
               \/ phase[worker[v].scope][worker[v].turn] = "parked"
               \/ lost'[worker[v].scope]
    BY <2>1, KeptRowsAreSpared, WorkerFields DEF WInv, RowsKept
  <2> QED BY <1>1, <2>1, <2>2, <2>3, BystandersStaySound
<1>3. TurnsSound'
  BY KeptRowsKeepTurnsSound
<1> QED BY <1>1, <1>2, <1>3 DEF Rest

LEMMA ReturnsKeepRest ==
    ASSUME WInv, RowsKept, NEW w \in Workers, Return(w), lost' = lost
    PROVE  Rest'
<1>1. /\ worker' = [worker EXCEPT ![w] = Idle]
      /\ lock' = [s \in Scopes |-> IF lock[s] = w THEN NoWorker ELSE lock[s]]
  BY DEF Return
<1>2. /\ WorkersTyped' /\ worker'[w].at = "idle"
      /\ \A v \in Workers \ {w} : worker'[v] = worker[v]
  BY <1>1, ReturningStaysTyped DEF WInv, WTyped, WorkersTyped
<1>3. lock' \in [Scopes -> Workers \cup {NoWorker}]
  BY <1>1 DEF WInv, WTyped
<1>4. Sound(w)'
  BY <1>2 DEF Sound, OnTurn
<1> QED BY <1>1, <1>2, <1>3, <1>4, MovesKeepRest

\* A worker on a turn goes to a step that promises nothing about it, or loops.
LEMMA LoopsKeepRest ==
    ASSUME WInv, RowsKept, NEW w \in Workers, worker[w].at # "idle", Loops(w),
           lock' = lock, lost' = lost
    PROVE  Rest'
<1>1. /\ WorkersTyped' /\ worker'[w].at = "draining" /\ worker'[w].scope = worker[w].scope
      /\ \A v \in Workers \ {w} : worker'[v] = worker[v]
  BY LoopingStaysTyped DEF WInv, WTyped, WorkersTyped
<1>2. Sound(w)
  BY DEF WInv
<1>3. Sound(w)'
  BY <1>1, <1>2 DEF Sound, OnTurn
<1> QED BY <1>1, <1>3, MovesKeepRest DEF WInv, WTyped

LEMMA GoesKeepRest ==
    ASSUME WInv, RowsKept, NEW w \in Workers, NEW step \in {"failed", "exhausted"},
           worker[w].at \in OnTurn, Goes(w, step), lock' = lock, lost' = lost,
           step = "exhausted" =>
               tries[worker[w].scope][worker[w].turn] >= MaxAttempts
               \/ phase[worker[w].scope][worker[w].turn] # "backlog"
    PROVE  Rest'
<1>1. worker[w].turn \in Offsets /\ step \in Steps /\ step \in OnTurn
  BY WorkerFields DEF WInv, Steps, OnTurn
<1>2. /\ WorkersTyped' /\ worker'[w] = [worker[w] EXCEPT !.at = step]
      /\ \A v \in Workers \ {w} : worker'[v] = worker[v]
  BY <1>1, GoingStaysTyped DEF WInv, WTyped, WorkersTyped
<1>3. /\ worker'[w].at = step /\ worker'[w].scope = worker[w].scope
      /\ worker'[w].turn = worker[w].turn
  BY <1>2 DEF WInv, WTyped, WorkerState
<1>4. Sound(w)
  BY DEF WInv
<1>5. "idle" \notin OnTurn
  BY DEF OnTurn
<1>6. Sound(w)'
  BY <1>1, <1>3, <1>4, <1>5 DEF Sound, RowsKept
<1> QED BY <1>2, <1>6, MovesKeepRest DEF WInv, WTyped

LEMMA StartDrainKeepsRest ==
    ASSUME WInv, NEW w \in Workers, NEW s \in Scopes, StartDrain(w, s)
    PROVE  Rest'
<1>1. /\ WorkersTyped' /\ worker'[w].at = "draining" /\ worker'[w].scope = s
      /\ \A v \in Workers \ {w} : worker'[v] = worker[v]
  BY StartDrainMoves DEF WInv, WTyped, WorkersTyped
<1>2. lock[s] = NoWorker /\ lock' = [lock EXCEPT ![s] = w] /\ lost' = lost /\ RowsKept
  BY DEF StartDrain, RowsKept, logVars
<1>3. lock' \in [Scopes -> Workers \cup {NoWorker}] /\ lock'[s] = w
  BY <1>2 DEF WInv, WTyped
<1>4. \A t \in Scopes, v \in Workers \ {w} : lock[t] = v => lock'[t] = v
  BY <1>2, WorkerAssumption DEF WInv, WTyped
<1>5. Sound(w)'
  BY <1>1, <1>3 DEF Sound, OnTurn
<1> QED BY <1>1, <1>2, <1>3, <1>4, <1>5, MovesKeepRest

LEMMA CrashKeepsRest ==
    ASSUME WInv, NEW w \in Workers, Crash(w)
    PROVE  Rest'
<1>1. worker' = [worker EXCEPT ![w] = Idle] /\ lock' = lock /\ lost' = lost /\ RowsKept
  BY DEF Crash, RowsKept, logVars
<1>2. /\ WorkersTyped' /\ worker'[w].at = "idle"
      /\ \A v \in Workers \ {w} : worker'[v] = worker[v]
  BY <1>1, ReturningStaysTyped DEF WInv, WTyped, WorkersTyped
<1>3. Sound(w)'
  BY <1>2 DEF Sound, OnTurn
<1> QED BY <1>1, <1>2, <1>3, MovesKeepRest DEF WInv, WTyped

\* A session ends, under a live worker or a dead one; or the store changes under workers
\* that take no step.
LEMMA SessionsKeepRest ==
    ASSUME WInv, NEW s \in Scopes, LoseSession(s) \/ ReapSession(s)
    PROVE  Rest'
<1>1. worker' = worker /\ lock' = [lock EXCEPT ![s] = NoWorker] /\ RowsKept
  BY DEF LoseSession, ReapSession, RowsKept, logVars
<1>2. WTyped'
  BY <1>1 DEF LoseSession, ReapSession, WInv, WTyped, RowsKept
<1>3. \A t \in Scopes : lost[t] => lost'[t]
  BY DEF LoseSession, ReapSession, WInv, WTyped
<1>4. ASSUME NEW v \in Workers PROVE Sound(v)'
  <2>1. worker'[v] = worker[v] /\ worker[v].scope \in Scopes
    BY <1>1, WorkerFields DEF WInv
  <2>2. worker[v].at # "idle" /\ ~lost[worker[v].scope] => lock[worker[v].scope] = v
    BY DEF WInv, Sound
  <2>3. worker[v].at # "idle" /\ ~lost'[worker[v].scope] => lock'[worker[v].scope] = v
    <3> SUFFICES ASSUME worker[v].at # "idle", ~lost'[worker[v].scope]
                 PROVE  lock'[worker[v].scope] = v
      OBVIOUS
    <3>1. ~lost[worker[v].scope] /\ lock[worker[v].scope] = v
      BY <1>3, <2>1, <2>2
    <3>2. worker[v].scope # s
      <4> SUFFICES ASSUME worker[v].scope = s PROVE FALSE
        OBVIOUS
      <4>1. CASE LoseSession(s)
        BY <4>1 DEF LoseSession, WInv, WTyped
      <4>2. CASE ReapSession(s)
        BY <3>1, <4>2 DEF ReapSession
      <4> QED BY <4>1, <4>2
    <3> QED BY <1>1, <2>1, <3>1, <3>2 DEF WInv, WTyped
  <2>4. worker[v].at \in OnTurn =>
            /\ Spared(worker[v].scope, worker[v].turn)
            /\ \/ phase'[worker[v].scope][worker[v].turn] # "parked"
               \/ phase[worker[v].scope][worker[v].turn] = "parked"
               \/ lost'[worker[v].scope]
    BY <1>1, <2>1, KeptRowsAreSpared, WorkerFields DEF WInv, RowsKept
  <2> QED BY <1>2, <1>3, <2>1, <2>3, <2>4, BystandersStaySound
<1>5. TurnsSound'
  BY <1>1, <1>3, KeptRowsKeepTurnsSound
<1> QED BY <1>2, <1>4, <1>5 DEF Rest

-----------------------------------------------------------------------------
(* Steps that change the rows *)

\* The rows change under workers that are spared, and a worker that moves stays sound.
LEMMA RowStepsKeepRest ==
    ASSUME WInv, WorkersTyped', lock' = lock, lost' = lost,
           claims' \in SUBSET (Scopes \X Offsets \X (1 .. Messages)),
           tries' \in [Scopes -> [Offsets -> 0 .. AttemptCap]],
           \A v \in Workers : worker'[v] = worker[v] \/ Sound(v)',
           \A v \in Workers : worker'[v] = worker[v] /\ worker[v].at \in OnTurn =>
               /\ Spared(worker[v].scope, worker[v].turn)
               /\ \/ phase'[worker[v].scope][worker[v].turn] # "parked"
                  \/ phase[worker[v].scope][worker[v].turn] = "parked"
                  \/ lost[worker[v].scope],
           TurnsSound'
    PROVE  Rest'
<1>1. WTyped'
  BY DEF WInv, WTyped, WorkersTyped
<1>2. ASSUME NEW v \in Workers, worker'[v] = worker[v] PROVE Sound(v)'
  <2>1. worker[v].at # "idle" /\ ~lost[worker[v].scope] => lock[worker[v].scope] = v
    BY DEF WInv, Sound
  <2> QED BY <1>1, <1>2, <2>1, BystandersStaySound
<1> QED BY <1>1, <1>2 DEF Rest

LEMMA NothingDueKeepsRest ==
    ASSUME WInv, NEW w \in Workers, NothingDue(w) \/ Stop(w) PROVE Rest'
<1>1. RowsKept /\ Return(w) /\ lost' = lost
  BY DEF NothingDue, Stop, RowsKept, logVars
<1> QED BY <1>1, ReturnsKeepRest

LEMMA FormFailsKeepsRest ==
    ASSUME WInv, NEW w \in Workers, FormFails(w) PROVE Rest'
<1>1. /\ RowsKept /\ Goes(w, "failed") /\ lock' = lock /\ lost' = lost
      /\ worker[w].at \in OnTurn
  BY DEF FormFails, RowsKept, logVars, OnTurn
<1> QED BY <1>1, GoesKeepRest

LEMMA RecordFailureKeepsRest ==
    ASSUME WInv, NEW w \in Workers, RecordFailure(w) PROVE Rest'
<1> DEFINE s == worker[w].scope
           o == worker[w].turn
<1>1. /\ worker[w].at = "failed" /\ RowsKept /\ lock' = lock /\ lost' = lost
      /\ s \in Scopes /\ o \in Offsets
  <2>1. worker[w].at = "failed"
    BY DEF RecordFailure
  <2> QED BY <2>1, WorkerFields DEF WInv, RecordFailure, RecordFormationFailure, RowsKept,
                                    logVars, OnTurn
<1>2. CASE Loops(w)
  BY <1>1, <1>2, LoopsKeepRest
<1>3. CASE ~Loops(w)
  <2>1. phase[s][o] = "backlog" /\ ~(attempts[s][o] < MaxAttempts) /\ Goes(w, "exhausted")
    BY <1>3 DEF RecordFailure, RecordFormationFailure
  <2>2. attempts[s][o] = tries[s][o]
    BY <1>1, <2>1 DEF WInv, TurnsSound, AttemptsAreTries
  <2>3. tries[s][o] \in Int /\ MaxAttempts \in Int
    BY <1>1, LogAssumption, WorkerAssumption DEF WInv, WTyped
  <2>4. tries[s][o] >= MaxAttempts
    BY <2>1, <2>2, <2>3
  <2>5. worker[w].at \in OnTurn
    BY <1>1 DEF OnTurn
  <2> QED BY <1>1, <2>1, <2>4, <2>5, GoesKeepRest
<1> QED BY <1>2, <1>3
LEMMA OneRowChanges ==
    ASSUME WInv, NEW s \in Scopes, NEW o \in Offsets, NEW x,
           phase' = [phase EXCEPT ![s][o] = x]
    PROVE  /\ phase'[s][o] = x
           /\ \A t \in Scopes, p \in Offsets : t # s \/ p # o => phase'[t][p] = phase[t][p]
BY DEF WInv, IInv, TypeOK

LEMMA TriesAreIntegers ==
    ASSUME WInv
    PROVE  /\ MaxAttempts \in Int /\ AttemptCap \in Int
           /\ \A s \in Scopes, o \in Offsets :
                 tries[s][o] \in Int /\ tries[s][o] <= AttemptCap /\ 0 <= tries[s][o]
BY LogAssumption, WorkerAssumption DEF WInv, WTyped

\* A turn with every claim committed is marked, under whoever else is still at it.
LEMMA MarkTurnKeepsRest ==
    ASSUME WInv, NEW w \in Workers, MarkTurn(w) PROVE Rest'
<1> DEFINE s == worker[w].scope
           o == worker[w].turn
<1>1. /\ worker[w].at = "formed" /\ s \in Scopes /\ o \in Offsets
      /\ claims' = claims /\ tries' = tries /\ lost' = lost
  BY WorkerFields DEF WInv, MarkTurn, OnTurn
<1>2. CASE MarkFormed(s, o)
  <2>1. /\ phase[s][o] = "backlog" /\ phase' = [phase EXCEPT ![s][o] = "formed"]
        /\ attempts' = attempts
    BY <1>2 DEF MarkFormed
  <2>2. /\ phase'[s][o] = "formed"
        /\ \A t \in Scopes, p \in Offsets : t # s \/ p # o => phase'[t][p] = phase[t][p]
    BY <1>1, <2>1, OneRowChanges
  <2>3. Loops(w) /\ lock' = lock
    BY <1>2, <2>1 DEF MarkTurn, PhaseOf
  <2>4. /\ WorkersTyped' /\ worker'[w].at = "draining" /\ worker'[w].scope = s
        /\ \A v \in Workers \ {w} : worker'[v] = worker[v]
    BY <2>3, LoopingStaysTyped DEF WInv, WTyped, WorkersTyped
  <2>5. Sound(w)
    BY DEF WInv
  <2>6. Sound(w)'
    BY <1>1, <2>3, <2>4, <2>5 DEF Sound, OnTurn
  <2>7. \A t \in Scopes, p \in Offsets : Spared(t, p) /\ (phase'[t][p] = "parked" =>
                                                           phase[t][p] = "parked")
    BY <1>1, <2>1, <2>2, TriesAreIntegers DEF Spared, Stored
  <2>8. TurnsSound'
    <3>1. \A m \in 1 .. Messages : <<s, o, m>> \in claims
      BY <1>1, <2>1, <2>5 DEF Sound, Stored
    <3>2. FreshnessIsEarned'
      BY <1>1, <2>2, <3>1 DEF WInv, TurnsSound, FreshnessIsEarned
    <3>3. NoClaimOutlivesItsTurn'
      <4> SUFFICES ASSUME NEW c \in claims PROVE phase'[c[1]][c[2]] \in Stored
        BY <1>1 DEF NoClaimOutlivesItsTurn
      <4>1. c[1] \in Scopes /\ c[2] \in Offsets /\ phase[c[1]][c[2]] \in Stored
        BY DEF WInv, WTyped, TurnsSound, NoClaimOutlivesItsTurn
      <4> QED BY <2>2, <4>1 DEF Stored
    <3>4. AttemptsAreTries'
      BY <1>1, <2>1, <2>2 DEF WInv, TurnsSound, AttemptsAreTries
    <3>5. ParkedTurnsHadTheirTries'
      BY <1>1, <2>2 DEF WInv, TurnsSound, ParkedTurnsHadTheirTries
    <3> QED BY <3>2, <3>3, <3>4, <3>5 DEF TurnsSound
  <2>9. claims' \in SUBSET (Scopes \X Offsets \X (1 .. Messages))
        /\ tries' \in [Scopes -> [Offsets -> 0 .. AttemptCap]]
    BY <1>1 DEF WInv, WTyped
  <2>10. \A v \in Workers : worker[v].scope \in Scopes
                            /\ (worker[v].at \in OnTurn => worker[v].turn \in Offsets)
    BY WorkerFields DEF WInv
  <2> QED BY <1>1, <2>3, <2>4, <2>6, <2>7, <2>8, <2>9, <2>10, RowStepsKeepRest
<1>3. CASE ~MarkFormed(s, o)
  <2>1. RowsKept /\ (Return(w) \/ (Loops(w) /\ lock' = lock))
    BY <1>1, <1>3 DEF MarkTurn, RowsKept, logVars
  <2> QED BY <1>1, <2>1, ReturnsKeepRest, LoopsKeepRest
<1> QED BY <1>2, <1>3

\* Only the worker that has the lock parks a turn under nobody else; a worker whose lock
\* is lost may park one that another is working on, or that was reopened meanwhile.
LEMMA ParkTurnKeepsRest ==
    ASSUME WInv, NEW w \in Workers, ParkTurn(w) PROVE Rest'
<1> DEFINE s == worker[w].scope
           o == worker[w].turn
<1>1. /\ worker[w].at = "exhausted" /\ s \in Scopes /\ o \in Offsets
      /\ claims' = claims /\ tries' = tries /\ lost' = lost
  BY WorkerFields DEF WInv, ParkTurn, OnTurn
<1>2. CASE Park(s, o)
  <2>1. /\ phase[s][o] = "backlog" /\ phase' = [phase EXCEPT ![s][o] = "parked"]
        /\ attempts' = attempts /\ attempts[s][o] > 0
    BY <1>2 DEF Park
  <2>2. /\ phase'[s][o] = "parked"
        /\ \A t \in Scopes, p \in Offsets : t # s \/ p # o => phase'[t][p] = phase[t][p]
    BY <1>1, <2>1, OneRowChanges
  <2>3. Loops(w) /\ lock' = lock
    <3>1. ~(attempts[s][o] = 0)
      BY <1>1, <2>1 DEF WInv, IInv, TypeOK
    <3> QED BY <2>1, <3>1 DEF ParkTurn, PhaseOf
  <2>4. /\ WorkersTyped' /\ worker'[w].at = "draining" /\ worker'[w].scope = s
        /\ \A v \in Workers \ {w} : worker'[v] = worker[v]
    BY <2>3, LoopingStaysTyped DEF WInv, WTyped, WorkersTyped
  <2>5. Sound(w)
    BY DEF WInv
  <2>6. Sound(w)'
    BY <1>1, <2>3, <2>4, <2>5 DEF Sound, OnTurn
  <2>7. \A t \in Scopes, p \in Offsets : Spared(t, p)
    BY <1>1, <2>1, <2>2, TriesAreIntegers DEF Spared, Stored
  <2>8. lost[s] \/ (lock[s] = w /\ tries[s][o] >= MaxAttempts)
    BY <1>1, <2>1, <2>5 DEF Sound
  <2>9. \A v \in Workers : worker'[v] = worker[v] /\ worker[v].at \in OnTurn =>
               /\ Spared(worker[v].scope, worker[v].turn)
               /\ \/ phase'[worker[v].scope][worker[v].turn] # "parked"
                  \/ phase[worker[v].scope][worker[v].turn] = "parked"
                  \/ lost[worker[v].scope]
    <3> SUFFICES ASSUME NEW v \in Workers, worker'[v] = worker[v], worker[v].at \in OnTurn
                 PROVE  /\ Spared(worker[v].scope, worker[v].turn)
                        /\ \/ phase'[worker[v].scope][worker[v].turn] # "parked"
                           \/ phase[worker[v].scope][worker[v].turn] = "parked"
                           \/ lost[worker[v].scope]
      OBVIOUS
    <3>1. worker[v].scope \in Scopes /\ worker[v].turn \in Offsets /\ worker[v].at # "idle"
      BY WorkerFields DEF WInv, OnTurn
    <3>2. v # w
      BY <1>1, <2>4
    <3>3. ~lost[worker[v].scope] => lock[worker[v].scope] = v
      BY <3>1 DEF WInv, Sound
    <3>4. worker[v].scope = s => lost[s]
      BY <2>8, <3>2, <3>3
    <3> QED BY <2>2, <2>7, <3>1, <3>4
  <2>10. TurnsSound'
    <3>1. FreshnessIsEarned'
      BY <1>1, <2>2 DEF WInv, TurnsSound, FreshnessIsEarned
    <3>2. NoClaimOutlivesItsTurn'
      <4> SUFFICES ASSUME NEW c \in claims PROVE phase'[c[1]][c[2]] \in Stored
        BY <1>1 DEF NoClaimOutlivesItsTurn
      <4>1. c[1] \in Scopes /\ c[2] \in Offsets /\ phase[c[1]][c[2]] \in Stored
        BY DEF WInv, WTyped, TurnsSound, NoClaimOutlivesItsTurn
      <4> QED BY <2>2, <4>1 DEF Stored
    <3>3. AttemptsAreTries'
      BY <1>1, <2>1, <2>2 DEF WInv, TurnsSound, AttemptsAreTries
    <3>4. ParkedTurnsHadTheirTries'
      BY <1>1, <2>2, <2>8 DEF WInv, TurnsSound, ParkedTurnsHadTheirTries
    <3> QED BY <3>1, <3>2, <3>3, <3>4 DEF TurnsSound
  <2>11. claims' \in SUBSET (Scopes \X Offsets \X (1 .. Messages))
         /\ tries' \in [Scopes -> [Offsets -> 0 .. AttemptCap]]
    BY <1>1 DEF WInv, WTyped
  <2> QED BY <1>1, <2>3, <2>4, <2>6, <2>9, <2>10, <2>11, RowStepsKeepRest
<1>3. CASE ~Park(s, o)
  <2>1. RowsKept /\ (Return(w) \/ (Loops(w) /\ lock' = lock))
    BY <1>1, <1>3 DEF ParkTurn, RowsKept, logVars
  <2> QED BY <1>1, <2>1, ReturnsKeepRest, LoopsKeepRest
<1> QED BY <1>2, <1>3
LEMMA TakeTurnKeepsRest ==
    ASSUME WInv, NEW w \in Workers, TakeTurn(w) PROVE Rest'
<1> DEFINE s == worker[w].scope
<1>1. PICK o \in Offsets :
          /\ phase[s][o] = "backlog"
          /\ ClaimTurn(s, o)
          /\ tries' = [tries EXCEPT ![s][o] = IF @ < AttemptCap THEN @ + 1 ELSE @]
          /\ WorkersTyped'
          /\ worker'[w].at = "forming" /\ worker'[w].next = 1
          /\ worker'[w].scope = s /\ worker'[w].turn = o
          /\ \A v \in Workers \ {w} : worker'[v] = worker[v]
  BY TakeTurnMoves DEF WInv, WTyped, WorkersTyped
<1>2. /\ s \in Scopes /\ worker[w].at = "draining"
      /\ phase' = phase /\ claims' = claims /\ lock' = lock /\ lost' = lost
      /\ attempts' = [attempts EXCEPT ![s][o] = IF @ < AttemptCap THEN @ + 1 ELSE @]
  BY <1>1, WorkerFields DEF WInv, TakeTurn, ClaimTurn
<1>3. /\ attempts'[s][o] = IF attempts[s][o] < AttemptCap THEN attempts[s][o] + 1
                                                         ELSE attempts[s][o]
      /\ tries'[s][o] = IF tries[s][o] < AttemptCap THEN tries[s][o] + 1 ELSE tries[s][o]
      /\ \A t \in Scopes, p \in Offsets : t # s \/ p # o =>
             attempts'[t][p] = attempts[t][p] /\ tries'[t][p] = tries[t][p]
  BY <1>1, <1>2 DEF WInv, WTyped, IInv, TypeOK
<1>4. tries'[s][o] >= tries[s][o] /\ tries'[s][o] \in 0 .. AttemptCap
  BY <1>2, <1>3, TriesAreIntegers
<1>5. tries' \in [Scopes -> [Offsets -> 0 .. AttemptCap]]
  BY <1>1, <1>2, <1>3, <1>4 DEF WInv, WTyped
<1>6. \A t \in Scopes, p \in Offsets : Spared(t, p)
  <2> SUFFICES ASSUME NEW t \in Scopes, NEW p \in Offsets PROVE Spared(t, p)
    OBVIOUS
  <2>1. tries'[t][p] >= tries[t][p]
    BY <1>3, <1>4, TriesAreIntegers
  <2> QED BY <1>2, <2>1 DEF Spared
<1>7. TurnsSound'
  <2>1. FreshnessIsEarned' /\ NoClaimOutlivesItsTurn'
    BY <1>2 DEF WInv, TurnsSound, FreshnessIsEarned, NoClaimOutlivesItsTurn
  <2>2. AttemptsAreTries'
    BY <1>1, <1>2, <1>3 DEF WInv, TurnsSound, AttemptsAreTries
  <2>3. ParkedTurnsHadTheirTries'
    BY <1>1, <1>2, <1>3 DEF WInv, TurnsSound, ParkedTurnsHadTheirTries
  <2> QED BY <2>1, <2>2, <2>3 DEF TurnsSound
<1>8. Sound(w)'
  <2>1. Sound(w)
    BY DEF WInv
  <2>2. \A m \in 1 .. Messages : ~(m < 1)
    BY WorkerAssumption
  <2> QED BY <1>1, <1>2, <2>1, <2>2 DEF Sound
<1>9. claims' \in SUBSET (Scopes \X Offsets \X (1 .. Messages))
  BY <1>2 DEF WInv, WTyped
<1>10. \A v \in Workers : worker[v].scope \in Scopes
                          /\ (worker[v].at \in OnTurn => worker[v].turn \in Offsets)
  BY WorkerFields DEF WInv
<1> QED BY <1>1, <1>2, <1>5, <1>6, <1>7, <1>8, <1>9, <1>10, RowStepsKeepRest

\* A message's claims are committed while the turn is there, and never after.
LEMMA FormMessageKeepsRest ==
    ASSUME WInv, NEW w \in Workers, FormMessage(w) PROVE Rest'
<1> DEFINE s == worker[w].scope
           o == worker[w].turn
           m == worker[w].next
<1>1. /\ worker[w].at = "forming" /\ s \in Scopes /\ o \in Offsets /\ m \in 1 .. Messages
  BY WorkerFields DEF WInv, FormMessage, OnTurn
<1>2. /\ claims' = IF phase[s][o] \in Stored THEN claims \cup {<<s, o, m>>} ELSE claims
      /\ phase' = phase /\ attempts' = attempts /\ tries' = tries
      /\ lock' = lock /\ lost' = lost
  BY DEF FormMessage, PhaseOf, logVars
<1>3. /\ WorkersTyped'
      /\ worker'[w].scope = s /\ worker'[w].turn = o
      /\ \/ m = Messages /\ worker'[w].at = "formed"
         \/ m # Messages /\ worker'[w].at = "forming" /\ worker'[w].next = m + 1
      /\ \A v \in Workers \ {w} : worker'[v] = worker[v]
  BY FormMessageMoves DEF WInv, WTyped, WorkersTyped
<1>4. claims \subseteq claims'
  BY <1>2
<1>5. claims' \in SUBSET (Scopes \X Offsets \X (1 .. Messages))
      /\ tries' \in [Scopes -> [Offsets -> 0 .. AttemptCap]]
  BY <1>1, <1>2 DEF WInv, WTyped
<1>6. \A t \in Scopes, p \in Offsets : Spared(t, p)
  BY <1>2, <1>4, TriesAreIntegers DEF Spared
<1>7. TurnsSound'
  <2>1. FreshnessIsEarned'
    BY <1>2, <1>4 DEF WInv, TurnsSound, FreshnessIsEarned
  <2>2. NoClaimOutlivesItsTurn'
    BY <1>2 DEF WInv, TurnsSound, NoClaimOutlivesItsTurn
  <2>3. AttemptsAreTries' /\ ParkedTurnsHadTheirTries'
    BY <1>2 DEF WInv, TurnsSound, AttemptsAreTries, ParkedTurnsHadTheirTries
  <2> QED BY <2>1, <2>2, <2>3 DEF TurnsSound
<1>8. Sound(w)'
  <2>1. Sound(w)
    BY DEF WInv
  <2>2. phase[s][o] \in Stored =>
           \A n \in 1 .. Messages : worker'[w].at = "formed" \/ n < worker'[w].next =>
               <<s, o, n>> \in claims'
    <3> SUFFICES ASSUME phase[s][o] \in Stored, NEW n \in 1 .. Messages,
                        worker'[w].at = "formed" \/ n < worker'[w].next
                 PROVE  <<s, o, n>> \in claims'
      OBVIOUS
    <3>1. n < m \/ n = m
      BY <1>1, <1>3, WorkerAssumption
    <3>2. n < m => <<s, o, n>> \in claims
      BY <1>1, <2>1 DEF Sound
    <3> QED BY <1>2, <1>4, <3>1, <3>2
  <2>3. worker'[w].at \in {"forming", "formed"}
    BY <1>3
  <2> QED BY <1>1, <1>2, <1>3, <2>1, <2>2, <2>3 DEF Sound, OnTurn
<1>9. \A v \in Workers : worker[v].scope \in Scopes
                         /\ (worker[v].at \in OnTurn => worker[v].turn \in Offsets)
  BY WorkerFields DEF WInv
<1> QED BY <1>2, <1>3, <1>5, <1>6, <1>7, <1>8, <1>9, RowStepsKeepRest
-----------------------------------------------------------------------------
(* Steps of the store's other clients: no worker moves *)

LEMMA ClientsKeepRest ==
    ASSUME WInv, worker' = worker, lock' = lock, lost' = lost,
           claims' \in SUBSET (Scopes \X Offsets \X (1 .. Messages)),
           tries' \in [Scopes -> [Offsets -> 0 .. AttemptCap]],
           \A s \in Scopes, o \in Offsets :
               Spared(s, o) /\ (phase'[s][o] = "parked" => phase[s][o] = "parked"),
           TurnsSound'
    PROVE  Rest'
<1>1. WorkersTyped'
  BY DEF WInv, WTyped, WorkersTyped
<1>2. \A v \in Workers : worker[v].scope \in Scopes
                         /\ (worker[v].at \in OnTurn => worker[v].turn \in Offsets)
  BY WorkerFields DEF WInv
<1> QED BY <1>1, <1>2, RowStepsKeepRest

LEMMA BackoffKeepsRest ==
    ASSUME WInv, NEW s \in Scopes, NEW o \in Offsets, Untouched, BackoffElapses(s, o)
    PROVE  Rest'
<1>1. RowsKept /\ worker' = worker /\ lock' = lock /\ lost' = lost
  BY DEF Untouched, workerVars, BackoffElapses, RowsKept
<1>2. TurnsSound'
  BY <1>1, KeptRowsKeepTurnsSound
<1>3. \A t \in Scopes, p \in Offsets : Spared(t, p) /\ phase' = phase
  BY <1>1, KeptRowsAreSpared DEF RowsKept
<1> QED BY <1>1, <1>2, <1>3, ClientsKeepRest DEF RowsKept, WInv, WTyped

\* The next offset of a log has no row yet, so nobody works on it and it has no claim.
LEMMA NextOffsetIsFree ==
    ASSUME WInv, NEW s \in Scopes, logOffset[s] < MaxOffset
    PROVE  /\ logOffset[s] + 1 \in Offsets
           /\ phase[s][logOffset[s] + 1] = "none"
<1>1. logOffset[s] \in Offsets \cup {NoOffset} /\ MaxOffset \in Nat
  BY LogAssumption DEF WInv, IInv, TypeOK
<1>2. logOffset[s] + 1 \in Offsets /\ logOffset[s] + 1 > logOffset[s]
  BY <1>1 DEF Offsets, NoOffset
<1> QED BY <1>2 DEF WInv, IInv, LogInv, OffsetsHaveNoGap

LEMMA AppendKeepsRest ==
    ASSUME WInv, NEW s \in Scopes, NEW p \in Payloads, Untouched, Append(s, NoKey, p)
    PROVE  Rest'
<1> DEFINE o == logOffset[s] + 1
<1>1. o \in Offsets /\ phase[s][o] = "none"
  BY NextOffsetIsFree DEF Append
<1>2. /\ phase' = [phase EXCEPT ![s][o] = "backlog"] /\ attempts' = attempts
      /\ worker' = worker /\ lock' = lock /\ lost' = lost
      /\ claims' = claims /\ tries' = tries
  BY DEF Untouched, workerVars, Append, Insert
<1>3. /\ phase'[s][o] = "backlog"
      /\ \A t \in Scopes, q \in Offsets : t # s \/ q # o => phase'[t][q] = phase[t][q]
  BY <1>1, <1>2, OneRowChanges
<1>4. \A t \in Scopes, q \in Offsets :
          Spared(t, q) /\ (phase'[t][q] = "parked" => phase[t][q] = "parked")
  BY <1>1, <1>2, <1>3, TriesAreIntegers DEF Spared
<1>5. TurnsSound'
  <2>1. FreshnessIsEarned'
    BY <1>2, <1>3 DEF WInv, TurnsSound, FreshnessIsEarned
  <2>2. NoClaimOutlivesItsTurn'
    <3> SUFFICES ASSUME NEW c \in claims PROVE phase'[c[1]][c[2]] \in Stored
      BY <1>2 DEF NoClaimOutlivesItsTurn
    <3>1. c[1] \in Scopes /\ c[2] \in Offsets /\ phase[c[1]][c[2]] \in Stored
      BY DEF WInv, WTyped, TurnsSound, NoClaimOutlivesItsTurn
    <3> QED BY <1>3, <3>1 DEF Stored
  <2>3. AttemptsAreTries'
    BY <1>1, <1>2, <1>3 DEF WInv, TurnsSound, AttemptsAreTries
  <2>4. ParkedTurnsHadTheirTries'
    BY <1>2, <1>3 DEF WInv, TurnsSound, ParkedTurnsHadTheirTries
  <2> QED BY <2>1, <2>2, <2>3, <2>4 DEF TurnsSound
<1> QED BY <1>2, <1>4, <1>5, ClientsKeepRest DEF WInv, WTyped

LEMMA AuthorRecordKeepsRest ==
    ASSUME WInv, NEW s \in Scopes, AuthorRecord(s)
    PROVE  Rest'
<1> DEFINE o == logOffset[s] + 1
           new == {<<s, o, m>> : m \in 1 .. Messages}
<1>1. o \in Offsets /\ phase[s][o] = "none"
  BY NextOffsetIsFree DEF AuthorRecord, Correct, InsertFormed
<1>2. /\ phase' = [phase EXCEPT ![s][o] = "formed"] /\ attempts' = attempts
      /\ worker' = worker /\ lock' = lock /\ lost' = lost
      /\ claims' = claims \cup new /\ tries' = tries
  BY DEF AuthorRecord, Correct, InsertFormed, Insert
<1>3. /\ phase'[s][o] = "formed"
      /\ \A t \in Scopes, q \in Offsets : t # s \/ q # o => phase'[t][q] = phase[t][q]
  BY <1>1, <1>2, OneRowChanges
<1>4. new \subseteq Scopes \X Offsets \X (1 .. Messages)
  BY <1>1
<1>5. \A t \in Scopes, q \in Offsets :
          Spared(t, q) /\ (phase'[t][q] = "parked" => phase[t][q] = "parked")
  BY <1>1, <1>2, <1>3, TriesAreIntegers DEF Spared
<1>6. TurnsSound'
  <2>1. FreshnessIsEarned'
    BY <1>2, <1>3 DEF WInv, TurnsSound, FreshnessIsEarned
  <2>2. NoClaimOutlivesItsTurn'
    <3> SUFFICES ASSUME NEW c \in claims' PROVE phase'[c[1]][c[2]] \in Stored
      BY DEF NoClaimOutlivesItsTurn
    <3>1. CASE c \in new
      BY <1>3, <3>1 DEF Stored
    <3>2. CASE c \in claims
      <4>1. c[1] \in Scopes /\ c[2] \in Offsets /\ phase[c[1]][c[2]] \in Stored
        BY <3>2 DEF WInv, WTyped, TurnsSound, NoClaimOutlivesItsTurn
      <4> QED BY <1>3, <4>1 DEF Stored
    <3> QED BY <1>2, <3>1, <3>2
  <2>3. AttemptsAreTries'
    BY <1>1, <1>2, <1>3 DEF WInv, TurnsSound, AttemptsAreTries
  <2>4. ParkedTurnsHadTheirTries'
    BY <1>2, <1>3 DEF WInv, TurnsSound, ParkedTurnsHadTheirTries
  <2> QED BY <2>1, <2>2, <2>3, <2>4 DEF TurnsSound
<1> QED BY <1>2, <1>4, <1>5, <1>6, ClientsKeepRest DEF WInv, WTyped

\* An erased turn takes its claims with it, under whoever is at it.
LEMMA ForgetTurnsKeepsRest ==
    ASSUME WInv, NEW s \in Scopes, ForgetTurns(s)
    PROVE  Rest'
<1>1. PICK O \in SUBSET In(phase[s], Stored) : Delete(s, O)
  BY DEF ForgetTurns, Erase, Sweep
<1>2. /\ worker' = worker /\ lock' = lock /\ lost' = lost /\ tries' = tries
      /\ claims' = {c \in claims : phase'[c[1]][c[2]] # "erased"}
  BY DEF ForgetTurns
<1>3. \A t \in Scopes, q \in Offsets :
          \/ /\ phase[t][q] \in Stored /\ phase'[t][q] = "erased"
          \/ phase'[t][q] = phase[t][q] /\ attempts'[t][q] = attempts[t][q]
  BY <1>1 DEF Delete, In, WInv, IInv, TypeOK
<1>4. \A t \in Scopes, q \in Offsets :
          Spared(t, q) /\ (phase'[t][q] = "parked" => phase[t][q] = "parked")
  <2> SUFFICES ASSUME NEW t \in Scopes, NEW q \in Offsets
               PROVE  Spared(t, q) /\ (phase'[t][q] = "parked" => phase[t][q] = "parked")
    OBVIOUS
  <2>1. phase'[t][q] \in Stored => \A m \in 1 .. Messages :
                                       <<t, q, m>> \in claims => <<t, q, m>> \in claims'
    BY <1>2 DEF Stored
  <2> QED BY <1>2, <1>3, <2>1, TriesAreIntegers DEF Spared
<1>5. TurnsSound'
  <2>1. FreshnessIsEarned'
    BY <1>2, <1>3 DEF WInv, TurnsSound, FreshnessIsEarned
  <2>2. NoClaimOutlivesItsTurn'
    <3> SUFFICES ASSUME NEW c \in claims' PROVE phase'[c[1]][c[2]] \in Stored
      BY DEF NoClaimOutlivesItsTurn
    <3>1. /\ c \in claims /\ phase'[c[1]][c[2]] # "erased"
          /\ c[1] \in Scopes /\ c[2] \in Offsets /\ phase[c[1]][c[2]] \in Stored
      BY <1>2 DEF WInv, WTyped, TurnsSound, NoClaimOutlivesItsTurn
    <3> QED BY <1>3, <3>1
  <2>3. AttemptsAreTries'
    BY <1>2, <1>3 DEF WInv, TurnsSound, AttemptsAreTries
  <2>4. ParkedTurnsHadTheirTries'
    BY <1>2, <1>3 DEF WInv, TurnsSound, ParkedTurnsHadTheirTries
  <2> QED BY <2>1, <2>2, <2>3, <2>4 DEF TurnsSound
<1> QED BY <1>2, <1>4, <1>5, ClientsKeepRest DEF WInv, WTyped

LEMMA ReopenKeepsRest ==
    ASSUME WInv, NEW s \in Scopes, NEW o \in Offsets, Reopen(s, o)
    PROVE  Rest'
<1>1. /\ phase[s][o] = "parked" /\ phase' = [phase EXCEPT ![s][o] = "backlog"]
      /\ attempts' = [attempts EXCEPT ![s][o] = 0]
      /\ tries' = [tries EXCEPT ![s][o] = 0]
      /\ worker' = worker /\ lock' = lock /\ lost' = lost /\ claims' = claims
  BY DEF Reopen, Unpark
<1>2. /\ phase'[s][o] = "backlog"
      /\ \A t \in Scopes, q \in Offsets : t # s \/ q # o => phase'[t][q] = phase[t][q]
  BY <1>1, OneRowChanges
<1>3. /\ attempts'[s][o] = 0 /\ tries'[s][o] = 0
      /\ \A t \in Scopes, q \in Offsets : t # s \/ q # o =>
             attempts'[t][q] = attempts[t][q] /\ tries'[t][q] = tries[t][q]
  BY <1>1 DEF WInv, WTyped, IInv, TypeOK
<1>4. tries' \in [Scopes -> [Offsets -> 0 .. AttemptCap]]
  BY <1>1, LogAssumption DEF WInv, WTyped
<1>5. \A t \in Scopes, q \in Offsets :
          Spared(t, q) /\ (phase'[t][q] = "parked" => phase[t][q] = "parked")
  BY <1>1, <1>2, <1>3, TriesAreIntegers DEF Spared, Stored
<1>6. TurnsSound'
  <2>1. FreshnessIsEarned'
    BY <1>1, <1>2 DEF WInv, TurnsSound, FreshnessIsEarned
  <2>2. NoClaimOutlivesItsTurn'
    <3> SUFFICES ASSUME NEW c \in claims PROVE phase'[c[1]][c[2]] \in Stored
      BY <1>1 DEF NoClaimOutlivesItsTurn
    <3>1. c[1] \in Scopes /\ c[2] \in Offsets /\ phase[c[1]][c[2]] \in Stored
      BY DEF WInv, WTyped, TurnsSound, NoClaimOutlivesItsTurn
    <3> QED BY <1>2, <3>1 DEF Stored
  <2>3. AttemptsAreTries'
    BY <1>2, <1>3 DEF WInv, TurnsSound, AttemptsAreTries
  <2>4. ParkedTurnsHadTheirTries'
    BY <1>1, <1>2, <1>3 DEF WInv, TurnsSound, ParkedTurnsHadTheirTries
  <2> QED BY <2>1, <2>2, <2>3, <2>4 DEF TurnsSound
<1> QED BY <1>1, <1>4, <1>5, <1>6, ClientsKeepRest DEF WInv, WTyped

-----------------------------------------------------------------------------
(* The theorems *)

LEMMA WInitEstablishesWInv == WInit => WInv
<1> SUFFICES ASSUME WInit PROVE WInv
  OBVIOUS
<1>1. IInv
  BY InitEstablishesIInv DEF WInit
<1>2. WTyped
  BY IdleIsTyped, LogAssumption DEF WInit, WTyped, OnTurn
<1>3. TurnsSound
  BY DEF WInit, Init, TurnsSound, NoClaimOutlivesItsTurn, FreshnessIsEarned, AttemptsAreTries,
         ParkedTurnsHadTheirTries
<1>4. \A w \in Workers : Sound(w)
  BY IdleIsTyped DEF WInit, Sound, OnTurn
<1> QED BY <1>1, <1>2, <1>3, <1>4 DEF WInv

LEMMA StepKeepsWInv == WInv /\ [WNext]_vars => WInv'
<1> SUFFICES ASSUME WInv, [WNext]_vars PROVE WInv'
  OBVIOUS
<1>1. IInv'
  BY WorkerStepsAreLogSteps, StepKeepsIInv DEF WInv
<1>2. CASE UNCHANGED vars
  BY <1>1, <1>2 DEF vars, workerVars, logVars, WInv, WTyped, TurnsSound,
                    NoClaimOutlivesItsTurn, FreshnessIsEarned, AttemptsAreTries,
                    ParkedTurnsHadTheirTries, Sound
<1>3. ASSUME NEW w \in Workers, WorkerStep(w) \/ Stop(w) \/ Crash(w) PROVE Rest'
  BY <1>3, StartDrainKeepsRest, TakeTurnKeepsRest, NothingDueKeepsRest, FormMessageKeepsRest,
     FormFailsKeepsRest, MarkTurnKeepsRest, RecordFailureKeepsRest, ParkTurnKeepsRest,
     CrashKeepsRest DEF WorkerStep
<1>4. ASSUME NEW s \in Scopes, LoseSession(s) \/ ReapSession(s) PROVE Rest'
  BY <1>4, SessionsKeepRest
<1>5. ASSUME Clients PROVE Rest'
  BY <1>5, AuthorRecordKeepsRest, ForgetTurnsKeepsRest, AppendKeepsRest, BackoffKeepsRest,
     ReopenKeepsRest DEF Clients
<1>6. CASE WNext
  <2>1. Rest'
    BY <1>3, <1>4, <1>5, <1>6 DEF WNext
  <2>2. WTyped' /\ TurnsSound' /\ \A w \in Workers : Sound(w)'
    BY <2>1 DEF Rest
  <2> QED BY <1>1, <2>2 DEF WInv
<1> QED BY <1>2, <1>6

\* The strengthening all the others rest on holds of every reachable state.
THEOREM WorkersAreSound == WSpec => []WInv
BY WInitEstablishesWInv, StepKeepsWInv, PTL DEF WSpec

\* Every variable of the workers keeps its type.
THEOREM WorkersTypeCorrect == WSpec => []WorkersTypeOK
<1>1. WInv => WorkersTypeOK
  BY DEF WInv, WTyped, IInv, WorkersTypeOK
<1> QED BY <1>1, WorkersAreSound, PTL

\* The workers, however they crash, overlap or lose their locks, only ever run the log's
\* own operations: every property proved of Spec holds while they run.
THEOREM WorkersRunTheLog == WSpec => Spec
<1>1. WInit => Init
  BY DEF WInit
<1>2. WInv /\ [WNext]_vars => [Next]_logVars
  BY WorkerStepsAreLogSteps DEF WInv
<1> QED BY <1>1, <1>2, WorkersAreSound, PTL DEF WSpec, Spec

\* A turn reported as formed has all its messages extracted and their claims committed,
\* for any number of workers, wherever they stop, crash or lose their lock (Form, drain).
THEOREM FreshnessStaysEarned == WSpec => []FreshnessIsEarned
<1>1. WInv => FreshnessIsEarned
  BY DEF WInv, TurnsSound
<1> QED BY <1>1, WorkersAreSound, PTL

\* No claim is left of, or ever written for, a turn that is erased (the claim's foreign
\* key, Erase, Sweep).
THEOREM ClaimsDieWithTheirTurn == WSpec => []NoClaimOutlivesItsTurn
<1>1. WInv => NoClaimOutlivesItsTurn
  BY DEF WInv, TurnsSound
<1> QED BY <1>1, WorkersAreSound, PTL

\* Two workers are at one turn only where a lock was lost under a live worker (drain).
THEOREM ExtractorIsAlone == WSpec => []SoleExtractor
<1>1. WInv => SoleExtractor
  <2> SUFFICES ASSUME WInv, NEW v \in Workers, NEW w \in Workers, v # w,
                      worker[v].at \in OnTurn, worker[w].at \in OnTurn,
                      worker[v].scope = worker[w].scope, ~lost[worker[w].scope]
               PROVE  FALSE
    BY DEF SoleExtractor
  <2>1. Sound(v) /\ Sound(w)
    BY DEF WInv
  <2>2. worker[v].at # "idle" /\ worker[w].at # "idle"
    BY DEF OnTurn
  <2> QED BY <2>1, <2>2 DEF Sound
<1> QED BY <1>1, WorkersAreSound, PTL

\* A turn is parked only after MaxAttempts tries, unless a lock was lost (recordFailure).
THEOREM ParkingIsEarned == WSpec => []ParkedTurnsHadTheirTries
<1>1. WInv => ParkedTurnsHadTheirTries
  BY DEF WInv, TurnsSound
<1> QED BY <1>1, WorkersAreSound, PTL
=============================================================================
