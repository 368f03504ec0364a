--------------------------- MODULE AnswersProofs ---------------------------
(* Proofs about what a reader of memory is told, for every value of the constants.     *)
(*                                                                                    *)
(* WatermarkTx: how fresh it is.  The transactions that lock the watermark row before  *)
(* they read leave committed what FormedWatermark promises; what a replayed batch puts *)
(* in its place is past a turn only where that turn was reopened under it; and no      *)
(* transactions wait for each other in a circle.                                      *)
(*                                                                                    *)
(* Recall: what it says.  Nobody's words but those the caller may be given, within the *)
(* budget, all that is near where nothing was cut, and of an earlier instant what was *)
(* said then.                                                                         *)
EXTENDS WatermarkTx, Recall, FiniteSetTheorems, SequenceTheorems, WellFoundedInduction, TLAPS

-----------------------------------------------------------------------------
(* The inductive invariant *)

Seen(t) == [o \in Offsets |-> IF o \in t.locked THEN Outcome[t.op] ELSE row[o]]
Recomputing == Updates \cup {"author"}
Watermarked(t) == t.at = "holding" \/ (t.at = "ready" /\ t.op \notin Deletes)

Honest(ph, f) == \A o \in Offsets : o <= f => ph[o] # "backlog"
NothingAbove(ph, f) == \A o \in Offsets : o > f => ph[o] \in {"none", "erased"}

\* The number a transaction has computed is one the committed rows and its own writes allow.
Recomputed(t) ==
    /\ t.formed \in Offsets \cup {NoOffset}
    /\ Honest(Seen(t), t.formed)
    /\ t.formed <= IF t.op = "author" THEN stored + 1 ELSE stored
    /\ t.op = "unpark" \/ t.formed >= agreed \/ NothingAbove(Seen(t), t.formed)

\* A turn of c's replayed batch's number that waits has been reopened since it was read.
ReadBefore(c, f) == \A o \in Offsets : o <= f /\ row[o] = "backlog" => o \in reopened[c]

\* What a transaction holds and has computed, by the statement it stands at.
Steady(t) ==
    /\ t.op = "assert" => t.locked = {} /\ t.at \in {"stale", "ready"}
    /\ t.at = "stale" => t.op = "assert"
    /\ t.at \in {"idle", "offset", "row"} => t.locked = {}
    /\ t.at = "offset" => t.op \in Writers
    /\ t.at \in {"row", "updated"} => t.op \in Updates
    /\ t.at = "row" => \E o \in Offsets : t.turns = {o}
    /\ t.at = "holding" => t.op \in Recomputing
    /\ t.at = "rows" => t.op = "erase"
    /\ t.at = "rows" => \A o \in t.locked, p \in t.turns \ t.locked : o < p
    /\ t.op \in Writers /\ t.at \in {"holding", "ready"} =>
           stored < MaxOffset /\ t.locked = {stored + 1}
    /\ t.op \in Updates /\ t.at \in {"updated", "holding", "ready"} =>
           \E o \in Offsets : t.locked = {o} /\ row[o] \in Expected[t.op]
    /\ t.op \in Deletes => \A o \in t.locked : row[o] \in Stored
    /\ t.at = "ready" /\ t.op \in Recomputing => Recomputed(t)
    /\ t.op = "assert" => t.formed \in Offsets \cup {NoOffset} /\ t.formed <= stored
    /\ t.op = "assert" \/ (t.at = "ready" /\ t.op \in Recomputing) \/ t.formed = Unset

\* Two transactions lock different rows, and one at most the watermark row.
Apart(t, u) == t.locked \cap u.locked = {} /\ ~(Watermarked(t) /\ Watermarked(u))

LogInv ==
    /\ formed <= stored /\ agreed <= stored
    /\ \A o \in Offsets : o > stored => row[o] = "none"
    /\ Honest(row, agreed)
    /\ FreshnessIsHonest

\* What a replayed batch will put there.
ReplayInv == \A c \in Conns : tx[c].op = "assert" => ReadBefore(c, tx[c].formed)

TxInv == /\ \A c \in Conns : Steady(tx[c])
         /\ \A c, d \in Conns : c # d => Apart(tx[c], tx[d])

IInv == TypeOK /\ LogInv /\ TxInv /\ ReplayInv
-----------------------------------------------------------------------------
(* advanceFormedWatermarkSQL over a snapshot *)

\* A non-empty set of naturals has a least element, and Min is it.
LEMMA MinIsLeast ==
    ASSUME NEW S \in SUBSET Nat, S # {}
    PROVE  Min(S) \in S /\ \A y \in S : Min(S) <= y
<1> DEFINE R == {ss \in Nat \X Nat : ss[1] < ss[2]}
<1>1. IsWellFoundedOn(R, Nat)
  BY NatLessThanWellFounded, Zenon DEF OpToRel
<1>2. \E x \in S : \A y \in S : ~(<<y, x>> \in R)
  BY <1>1, WFMin
<1>3. PICK x \in S : \A y \in S : ~(<<y, x>> \in R)
  BY <1>2
<1>4. \A y \in S : x <= y
  <2> SUFFICES ASSUME NEW y \in S, ~(x <= y) PROVE FALSE
    OBVIOUS
  <2>1. <<y, x>> \in Nat \X Nat /\ y < x
    OBVIOUS
  <2> QED BY <1>3, <2>1
<1> QED BY <1>4 DEF Min

\* A non-empty set of naturals with a bound has a greatest element, and Max is it.
LEMMA MaxIsGreatest ==
    ASSUME NEW m \in Nat, NEW S \in SUBSET (0 .. m), S # {}
    PROVE  Max(S) \in S /\ \A y \in S : Max(S) >= y
<1> DEFINE T == {m - x : x \in S}
<1>1. T \in SUBSET Nat /\ T # {}
  <2>1. \A x \in S : x \in Int /\ m - x \in Nat
    OBVIOUS
  <2> QED BY <2>1
<1>2. Min(T) \in T /\ \A y \in T : Min(T) <= y
  BY <1>1, MinIsLeast
<1>3. PICK x \in S : Min(T) = m - x
  BY <1>2
<1>4. \A y \in S : x >= y
  <2> TAKE y \in S
  <2>1. Min(T) <= m - y
    BY <1>2
  <2>2. x \in Int /\ y \in Int /\ m - x <= m - y
    BY <1>3, <2>1
  <2> QED BY <2>2
<1> QED BY <1>4 DEF Max


LEMMA OffsetsAreNaturals == MaxOffset \in Nat /\ Offsets \subseteq Nat /\ Offsets = 0 .. MaxOffset
BY TxAssumption DEF Offsets

\* The number is an offset of a row that was there, or none, and no waiting turn is at or
\* below it; any other such number is lower, or higher only by turns that are gone.
LEMMA HighestFormedIsBest ==
    ASSUME NEW ph \in [Offsets -> Phases], NEW f \in Offsets \cup {NoOffset}, Honest(ph, f)
    PROVE  /\ HighestFormed(ph) \in Offsets \cup {NoOffset}
           /\ Honest(ph, HighestFormed(ph))
           /\ HighestFormed(ph) = NoOffset \/ \E o \in Offsets :
                  ph[o] # "none" /\ HighestFormed(ph) <= o
           /\ f <= HighestFormed(ph) \/ NothingAbove(ph, HighestFormed(ph))
<1> DEFINE B == In(ph, {"backlog"})
           D == In(ph, Stored)
<1> USE OffsetsAreNaturals
<1>1. CASE B # {}
  <2>1. Min(B) \in B /\ \A y \in B : Min(B) <= y
    BY <1>1, MinIsLeast DEF In
  <2>2. HighestFormed(ph) = Min(B) - 1
    BY <1>1 DEF HighestFormed
  <2>3. Min(B) \in Offsets /\ ph[Min(B)] = "backlog"
    BY <2>1 DEF In
  <2>4. \A o \in Offsets : ph[o] = "backlog" => Min(B) <= o
    BY <2>1 DEF In
  <2>5. Min(B) - 1 \in Offsets \cup {NoOffset} /\ Min(B) - 1 <= Min(B)
    BY <2>3 DEF NoOffset
  <2>6. Honest(ph, Min(B) - 1)
    BY <2>3, <2>4 DEF Honest
  <2>7. f <= Min(B) - 1
    <3>1. CASE f = NoOffset
      BY <3>1, <2>3 DEF NoOffset
    <3>2. CASE f \in Offsets
      BY <3>2, <2>3 DEF Honest
    <3> QED BY <3>1, <3>2
  <2> QED BY <2>2, <2>3, <2>5, <2>6, <2>7
<1>2. CASE B = {} /\ D = {}
  <2>1. HighestFormed(ph) = NoOffset
    BY <1>2 DEF HighestFormed
  <2>2. NothingAbove(ph, NoOffset)
    BY <1>2 DEF In, Phases, Stored, NothingAbove
  <2>3. Honest(ph, NoOffset)
    BY DEF Honest, NoOffset
  <2> QED BY <2>1, <2>2, <2>3
<1>3. CASE B = {} /\ D # {}
  <2>1. Max(D) \in D /\ \A y \in D : Max(D) >= y
    BY <1>3, MaxIsGreatest DEF In
  <2>2. HighestFormed(ph) = Max(D)
    BY <1>3 DEF HighestFormed
  <2>3. Max(D) \in Offsets /\ ph[Max(D)] # "none"
    BY <2>1 DEF In, Stored
  <2>4. Honest(ph, Max(D))
    BY <1>3 DEF In, Honest
  <2>5. NothingAbove(ph, Max(D))
    <3> SUFFICES ASSUME NEW o \in Offsets, o > Max(D) PROVE ph[o] \in {"none", "erased"}
      BY DEF NothingAbove
    <3>1. o \notin D
      BY <2>1, <2>3
    <3> QED BY <3>1 DEF In, Phases, Stored
  <2>6. Max(D) <= Max(D)
    BY <2>3
  <2> QED BY <2>2, <2>3, <2>4, <2>5, <2>6
<1> QED BY <1>1, <1>2, <1>3

-----------------------------------------------------------------------------
(* Statements: one connection moves on, and nothing is committed *)

LEMMA IdleIsSteady == Idle \in Transactions /\ Steady(Idle) /\ ~Watermarked(Idle)
BY DEF Idle, Transactions, Steady, Watermarked, Outcome, Writers, Updates, Deletes, Recomputing, Unset

LEMMA StatementKeepsIt ==
    ASSUME IInv, NEW c \in Conns, NEW t \in Transactions, Steady(t),
           \A d \in Conns \ {c} : Apart(t, tx[d]),
           t.op = "assert" => ReadBefore(c, t.formed),
           tx' = [tx EXCEPT ![c] = t], Uncommitted
    PROVE  IInv'
<1>1. TypeOK'
  BY DEF IInv, TypeOK, Uncommitted
<1>2. LogInv'
  BY DEF IInv, LogInv, Uncommitted, FreshnessIsHonest, Honest
<1>3. \A d \in Conns : tx'[d] = IF d = c THEN t ELSE tx[d]
  BY DEF IInv, TypeOK
<1>4. ASSUME NEW u, Steady(u) PROVE Steady(u)'
  BY <1>4 DEF Steady, Recomputed, Seen, Honest, NothingAbove, Uncommitted
<1>5. \A d \in Conns : Steady(tx[d])'
  BY <1>3, <1>4 DEF IInv, TxInv
<1>6. \A d, e \in Conns : d # e => Apart(tx[d], tx[e])'
  BY <1>3 DEF IInv, TxInv, Apart, Watermarked
<1>7. ReplayInv'
  BY <1>3 DEF IInv, ReplayInv, ReadBefore, Uncommitted
<1> QED BY <1>1, <1>2, <1>5, <1>6, <1>7 DEF IInv, TxInv

\* What a statement that takes no further lock needs to show.
LEMMA SameLocksKeepIt ==
    ASSUME IInv, NEW c \in Conns, NEW t \in Transactions, Steady(t),
           t.locked \subseteq tx[c].locked, Watermarked(t) => Watermarked(tx[c]), t.op # "assert",
           tx' = [tx EXCEPT ![c] = t], Uncommitted
    PROVE  IInv'
<1>1. \A d \in Conns \ {c} : Apart(t, tx[d])
  BY DEF IInv, TxInv, Apart
<1> QED BY <1>1, StatementKeepsIt

LEMMA RollbackKeepsIt == ASSUME IInv, NEW c \in Conns, Rollback(c) PROVE IInv'
<1>0. tx' = [tx EXCEPT ![c] = Idle] /\ reopened' = [reopened EXCEPT ![c] = {}]
      /\ UNCHANGED <<row, stored, formed, agreed, misread>>
  BY DEF Rollback
<1>1. \A d \in Conns : tx'[d] = (IF d = c THEN Idle ELSE tx[d])
                        /\ (d # c => reopened'[d] = reopened[d])
  BY <1>0 DEF IInv, TypeOK
<1>2. TypeOK' /\ LogInv'
  BY <1>0, IdleIsSteady DEF IInv, TypeOK, LogInv, FreshnessIsHonest, Honest
<1>3. ASSUME NEW u, Steady(u) PROVE Steady(u)'
  BY <1>0, <1>3 DEF Steady, Recomputed, Seen, Honest, NothingAbove
<1>4. TxInv'
  <2>1. \A d \in Conns : Steady(tx[d])'
    BY <1>1, <1>3, IdleIsSteady DEF IInv, TxInv
  <2>2. \A d, e \in Conns : d # e => Apart(tx[d], tx[e])'
    BY <1>1, IdleIsSteady DEF IInv, TxInv, Apart, Watermarked, Idle
  <2> QED BY <2>1, <2>2 DEF TxInv
<1>5. ReplayInv'
  BY <1>0, <1>1 DEF IInv, ReplayInv, ReadBefore, Idle
<1> QED BY <1>2, <1>4, <1>5 DEF IInv

\* Offsets are free above the last one.
LEMMA BeginWriteKeepsIt == ASSUME IInv, NEW c \in Conns, BeginWrite(c) PROVE IInv'
<1>1. PICK op \in Writers : Begin(c, op, "offset", {})
  BY DEF BeginWrite
<1> DEFINE t == [Idle EXCEPT !.op = op, !.at = "offset", !.turns = {}]
<1>2. t \in Transactions /\ Steady(t) /\ ~Watermarked(t) /\ t.locked = {} /\ t.op # "assert"
  BY DEF Idle, Transactions, Steady, Watermarked, Outcome, Writers, Updates, Deletes, Recomputing
<1>3. tx' = [tx EXCEPT ![c] = t] /\ Uncommitted
  BY <1>1 DEF Begin
<1> QED BY <1>2, <1>3, SameLocksKeepIt

LEMMA BeginUpdateKeepsIt == ASSUME IInv, NEW c \in Conns, BeginUpdate(c) PROVE IInv'
<1>1. PICK op \in Updates, o \in Offsets : Begin(c, op, "row", {o})
  BY DEF BeginUpdate
<1> DEFINE t == [Idle EXCEPT !.op = op, !.at = "row", !.turns = {o}]
<1>2. t \in Transactions /\ Steady(t) /\ ~Watermarked(t) /\ t.locked = {} /\ t.op # "assert"
  BY DEF Idle, Transactions, Steady, Watermarked, Outcome, Writers, Updates, Deletes, Recomputing
<1>3. tx' = [tx EXCEPT ![c] = t] /\ Uncommitted
  BY <1>1 DEF Begin
<1> QED BY <1>2, <1>3, SameLocksKeepIt

LEMMA BeginEraseKeepsIt == ASSUME IInv, NEW c \in Conns, BeginErase(c) PROVE IInv'
<1>1. PICK O \in SUBSET In(row, Stored) : Begin(c, "erase", "rows", O)
  BY DEF BeginErase
<1> DEFINE t == [Idle EXCEPT !.op = "erase", !.at = "rows", !.turns = O]
<1>2. t \in Transactions /\ Steady(t) /\ ~Watermarked(t) /\ t.locked = {} /\ t.op # "assert"
  BY DEF Idle, Transactions, Steady, Watermarked, Outcome, Writers, Updates, Deletes, Recomputing, In
<1>3. tx' = [tx EXCEPT ![c] = t] /\ Uncommitted
  BY <1>1 DEF Begin
<1> QED BY <1>2, <1>3, SameLocksKeepIt

\* A writer has the watermark row to itself, and the next offset is nobody's.
LEMMA TakeOffsetKeepsIt == ASSUME IInv, NEW c \in Conns, TakeOffset(c) PROVE IInv'
<1> DEFINE t == [tx[c] EXCEPT !.locked = {stored + 1},
                              !.at = IF tx[c].op = "append" THEN "ready" ELSE "holding"]
<1>0. tx[c] \in Transactions /\ tx[c].at = "offset" /\ tx[c].op \in Writers /\ Steady(tx[c])
  BY DEF IInv, TypeOK, TxInv, TakeOffset, Steady
<1>1. stored + 1 \in Offsets /\ stored \in Int /\ stored < MaxOffset
  BY TxAssumption DEF IInv, TypeOK, TakeOffset, Offsets, NoOffset
<1>2. t \in Transactions
  BY <1>0, <1>1 DEF Transactions
<1>3. tx' = [tx EXCEPT ![c] = t] /\ Uncommitted
  BY <1>0 DEF TakeOffset, IInv, TypeOK
<1>4. t.op = tx[c].op /\ t.formed = Unset /\ t.locked = {stored + 1}
      /\ t.at = IF tx[c].op = "append" THEN "ready" ELSE "holding"
  BY <1>0 DEF Steady, Transactions
<1>5. Steady(t)
  BY <1>0, <1>1, <1>4 DEF Steady, Writers, Updates, Deletes, Recomputing
<1>6. \A d \in Conns \ {c} : Apart(t, tx[d])
  <2> SUFFICES ASSUME NEW d \in Conns \ {c} PROVE Apart(t, tx[d])
    OBVIOUS
  <2>1. ~Watermarked(tx[d])
    BY DEF TakeOffset, WatermarkFree, HoldsWatermark, Watermarked
  <2>2. Steady(tx[d]) /\ tx[d] \in Transactions
    BY DEF IInv, TypeOK, TxInv
  <2>3. row[stored + 1] = "none"
    BY <1>1 DEF IInv, LogInv
  <2>4. stored + 1 \notin tx[d].locked
    <3>1. CASE tx[d].op \in Deletes
      BY <3>1, <2>2, <2>3 DEF Steady, Stored
    <3>2. CASE tx[d].op \in Updates
      BY <3>2, <2>2, <2>3 DEF Steady, Stored, Expected, Transactions, Updates, Writers, Deletes, Recomputing
    <3>3. CASE tx[d].op \in Writers
      BY <3>3, <2>1, <2>2 DEF Steady, Transactions, Updates, Writers, Deletes, Watermarked
    <3> QED BY <3>1, <3>2, <3>3, <2>2 DEF Steady, Transactions, Outcome, Deletes, Updates, Writers
  <2> QED BY <2>1, <2>4, <1>4 DEF Apart
<1>7. t.op # "assert"
  BY <1>0, <1>4 DEF Writers
<1> QED BY <1>2, <1>3, <1>5, <1>6, <1>7, StatementKeepsIt

LEMMA UpdateRowKeepsIt == ASSUME IInv, NEW c \in Conns, UpdateRow(c) PROVE IInv'
<1> DEFINE t == [tx[c] EXCEPT !.locked = tx[c].turns, !.at = "updated"]
<1>0. tx[c] \in Transactions /\ tx[c].at = "row" /\ Steady(tx[c])
  BY DEF IInv, TypeOK, TxInv, UpdateRow
<1>1. t \in Transactions /\ tx' = [tx EXCEPT ![c] = t] /\ Uncommitted
  BY <1>0 DEF UpdateRow, IInv, TypeOK, Transactions
<1>2. t.op = tx[c].op /\ t.formed = Unset /\ t.locked = tx[c].turns /\ t.at = "updated"
  BY <1>0 DEF Steady, Transactions
<1>3. \A o \in t.locked : row[o] \in Expected[t.op]
  BY <1>2 DEF UpdateRow
<1>4. PICK o \in Offsets : t.locked = {o}
  BY <1>0, <1>2 DEF Steady
<1>5. t.op \in Updates
  BY <1>0, <1>2 DEF Steady
<1>6. Steady(t)
  BY <1>2, <1>3, <1>4, <1>5 DEF Steady, Writers, Updates, Deletes, Recomputing
<1>7. \A d \in Conns \ {c} : Apart(t, tx[d])
  BY <1>2 DEF UpdateRow, RowFree, Apart, Watermarked
<1>8. t.op # "assert"
  BY <1>5 DEF Updates
<1> QED BY <1>1, <1>6, <1>7, <1>8, StatementKeepsIt

LEMMA LockWatermarkKeepsIt == ASSUME IInv, NEW c \in Conns, LockWatermark(c) PROVE IInv'
<1> DEFINE t == [tx[c] EXCEPT !.at = "holding"]
<1>0. tx[c] \in Transactions /\ tx[c].at = "updated" /\ Steady(tx[c])
  BY DEF IInv, TypeOK, TxInv, LockWatermark
<1>1. t \in Transactions /\ tx' = [tx EXCEPT ![c] = t] /\ Uncommitted
  BY <1>0 DEF LockWatermark, Step, IInv, TypeOK, Transactions
<1>2. t.op = tx[c].op /\ t.formed = tx[c].formed /\ t.locked = tx[c].locked /\ t.at = "holding"
  BY <1>0 DEF Transactions
<1>3. Steady(t) /\ t.op # "assert"
  BY <1>0, <1>2 DEF Steady, Writers, Updates, Deletes, Recomputing
<1>4. \A d \in Conns \ {c} : Apart(t, tx[d])
  BY <1>2 DEF LockWatermark, WatermarkFree, HoldsWatermark, Watermarked, IInv, TxInv, Apart
<1> QED BY <1>1, <1>3, <1>4, StatementKeepsIt

\* What a transaction sees is a state of the log: nothing above the last offset, its own included.
LEMMA SeenIsALog ==
    ASSUME IInv, NEW c \in Conns, tx[c].at \in {"holding", "ready"}
    PROVE  /\ Seen(tx[c]) \in [Offsets -> Phases]
           /\ \A o \in Offsets : Seen(tx[c])[o] # "none" =>
                  o <= IF tx[c].op \in Writers THEN stored + 1 ELSE stored
<1>0. tx[c] \in Transactions /\ Steady(tx[c]) /\ row \in [Offsets -> Phases]
  BY DEF IInv, TypeOK, TxInv
<1>1. Seen(tx[c]) \in [Offsets -> Phases]
  BY <1>0 DEF Seen, Transactions, Outcome, Phases
<1>2. ASSUME NEW o \in Offsets, o \in tx[c].locked
      PROVE  o <= IF tx[c].op \in Writers THEN stored + 1 ELSE stored
  <2>0. stored \in Int /\ o \in Int
    BY TxAssumption DEF IInv, TypeOK, Offsets, NoOffset
  <2>1. CASE tx[c].op \in Writers
    BY <2>0, <2>1, <1>0, <1>2 DEF Steady
  <2>2. CASE tx[c].op \in Deletes
    BY <2>0, <2>2, <1>0, <1>2 DEF Steady, IInv, LogInv, Stored, Writers, Deletes
  <2>3. CASE tx[c].op \in Updates
    BY <2>0, <2>3, <1>0, <1>2 DEF Steady, IInv, LogInv, Stored, Expected, Updates, Writers
  <2>4. CASE tx[c].op = "assert"
    BY <2>4, <1>0, <1>2 DEF Steady
  <2> QED BY <2>1, <2>2, <2>3, <2>4, <1>0 DEF Transactions, Outcome, Deletes, Updates, Writers
<1>3. ASSUME NEW o \in Offsets, o \notin tx[c].locked, Seen(tx[c])[o] # "none"
      PROVE  o <= stored
  BY <1>3, TxAssumption DEF Seen, IInv, TypeOK, LogInv, Offsets, NoOffset
<1>4. stored \in Int /\ Offsets \subseteq Int
  BY TxAssumption DEF IInv, TypeOK, Offsets, NoOffset
<1> QED BY <1>1, <1>2, <1>3, <1>4

\* A transaction that does not reopen a turn sees no turn waiting that was not.
LEMMA SeenIsHonest ==
    ASSUME IInv, NEW c \in Conns, tx[c].op \in Recomputing \ {"unpark"}
    PROVE  Honest(Seen(tx[c]), agreed)
BY DEF Honest, Seen, IInv, LogInv, Recomputing, Updates, Outcome

LEMMA RecomputeKeepsIt == ASSUME IInv, NEW c \in Conns, Recompute(c) PROVE IInv'
<1> DEFINE t == [tx[c] EXCEPT !.formed = HighestFormed(View(c)), !.at = "ready"]
<1>0. tx[c] \in Transactions /\ tx[c].at = "holding" /\ Steady(tx[c]) /\ tx[c].op \in Recomputing
  BY DEF IInv, TypeOK, TxInv, Recompute, Steady
<1>1. View(c) = Seen(tx[c]) /\ Seen(tx[c]) \in [Offsets -> Phases]
  BY <1>0, SeenIsALog DEF View, Seen
<1>2. /\ HighestFormed(View(c)) \in Offsets \cup {NoOffset}
      /\ Honest(Seen(tx[c]), HighestFormed(View(c)))
      /\ HighestFormed(View(c)) = NoOffset \/ \E o \in Offsets :
             Seen(tx[c])[o] # "none" /\ HighestFormed(View(c)) <= o
  <2>1. Honest(Seen(tx[c]), NoOffset) /\ NoOffset \in Offsets \cup {NoOffset}
    BY OffsetsAreNaturals DEF Honest, NoOffset
  <2> QED BY <1>1, <2>1, HighestFormedIsBest
<1>3. t \in Transactions /\ tx' = [tx EXCEPT ![c] = t] /\ Uncommitted
  BY <1>0, <1>2 DEF Recompute, IInv, TypeOK, Transactions
<1>4. t.op = tx[c].op /\ t.formed = HighestFormed(View(c)) /\ t.locked = tx[c].locked
      /\ t.at = "ready" /\ Seen(t) = Seen(tx[c])
  BY <1>0 DEF Transactions, Seen
<1>5. Recomputed(t)
  <2>1. t.formed <= IF t.op = "author" THEN stored + 1 ELSE stored
    <3>0. stored \in Int /\ stored >= NoOffset
      BY TxAssumption DEF IInv, TypeOK, Offsets, NoOffset
    <3>1. \A o \in Offsets : Seen(tx[c])[o] # "none" =>
              o <= IF t.op = "author" THEN stored + 1 ELSE stored
      BY <1>0, <1>4, SeenIsALog DEF Writers, Recomputing, Updates
    <3>2. CASE t.formed = NoOffset
      BY <3>0, <3>2 DEF NoOffset
    <3>3. CASE t.formed # NoOffset
      BY <1>2, <1>4, <3>0, <3>1, <3>3, OffsetsAreNaturals
    <3> QED BY <3>2, <3>3
  <2>2. t.op = "unpark" \/ t.formed >= agreed \/ NothingAbove(Seen(t), t.formed)
    <3> SUFFICES ASSUME t.op # "unpark" PROVE t.formed >= agreed \/ NothingAbove(Seen(t), t.formed)
      OBVIOUS
    <3>1. Honest(Seen(tx[c]), agreed)
      BY <1>0, <1>4, SeenIsHonest
    <3>2. agreed \in Offsets \cup {NoOffset}
      BY DEF IInv, TypeOK
    <3>3. agreed <= HighestFormed(View(c)) \/ NothingAbove(View(c), HighestFormed(View(c)))
      BY <1>1, <3>1, <3>2, HighestFormedIsBest
    <3>4. agreed \in Int /\ HighestFormed(View(c)) \in Int
      BY <1>2, <3>2, OffsetsAreNaturals DEF NoOffset
    <3> QED BY <1>1, <1>4, <3>3, <3>4
  <2> QED BY <1>2, <1>4, <2>1, <2>2 DEF Recomputed
<1>6. Steady(t) /\ t.op # "assert"
  BY <1>0, <1>4, <1>5 DEF Steady, Writers, Updates, Deletes, Recomputing
<1>7. Watermarked(tx[c]) /\ t.locked \subseteq tx[c].locked
  BY <1>0, <1>4 DEF Watermarked
<1> QED BY <1>3, <1>6, <1>7, SameLocksKeepIt

\* Rows are locked in one order, each after all that were locked before it.
LEMMA LockRowKeepsIt == ASSUME IInv, NEW c \in Conns, LockRow(c) PROVE IInv'
<1>0. tx[c] \in Transactions /\ tx[c].at = "rows" /\ Steady(tx[c]) /\ tx[c].op = "erase"
  BY DEF IInv, TypeOK, TxInv, LockRow, Steady
<1>1. PICK o \in Remaining(c) : TakeRow(c, o) /\ \A p \in Remaining(c) : o <= p
  BY DEF LockRow
<1>2. o \in Offsets /\ o \in tx[c].turns /\ o \notin tx[c].locked
  BY <1>0, <1>1 DEF Remaining, Transactions
<1> DEFINE taken == [tx[c] EXCEPT !.locked = @ \cup {o}]
           passed == [tx[c] EXCEPT !.turns = @ \ {o}]
<1>3. CASE row[o] \in Stored
  <2>1. taken \in Transactions /\ tx' = [tx EXCEPT ![c] = taken] /\ Uncommitted
    BY <1>0, <1>1, <1>2, <1>3 DEF TakeRow, IInv, TypeOK, Transactions
  <2>2. taken.op = "erase" /\ taken.at = "rows" /\ taken.formed = tx[c].formed
        /\ taken.turns = tx[c].turns /\ taken.locked = tx[c].locked \cup {o}
    BY <1>0 DEF Transactions
  <2>3. \A p \in taken.locked, r \in taken.turns \ taken.locked : p < r
    <3> SUFFICES ASSUME NEW p \in taken.locked, NEW r \in taken.turns \ taken.locked
                 PROVE  p < r
      OBVIOUS
    <3>1. r \in Remaining(c) /\ r # o /\ r \in Nat /\ o \in Nat
      BY <1>0, <1>2, <2>2, OffsetsAreNaturals DEF Remaining, Transactions
    <3>2. CASE p = o
      BY <1>1, <3>1, <3>2
    <3>3. CASE p \in tx[c].locked
      BY <1>0, <3>1, <3>3 DEF Steady, Remaining
    <3> QED BY <2>2, <3>2, <3>3
  <2>4. Steady(taken)
    BY <1>0, <1>3, <2>2, <2>3 DEF Steady, Writers, Updates, Deletes, Recomputing
  <2>5. \A d \in Conns \ {c} : Apart(taken, tx[d])
    BY <1>1, <2>2 DEF TakeRow, RowFree, Apart, Watermarked, IInv, TxInv
  <2>6. taken.op # "assert"
    BY <2>2
  <2> QED BY <2>1, <2>4, <2>5, <2>6, StatementKeepsIt
<1>4. CASE row[o] \notin Stored
  <2>1. passed \in Transactions /\ tx' = [tx EXCEPT ![c] = passed] /\ Uncommitted
    BY <1>0, <1>1, <1>4 DEF TakeRow, IInv, TypeOK, Transactions
  <2>2. passed.op = "erase" /\ passed.at = "rows" /\ passed.formed = tx[c].formed
        /\ passed.turns = tx[c].turns \ {o} /\ passed.locked = tx[c].locked
    BY <1>0 DEF Transactions
  <2>3. Steady(passed)
    BY <1>0, <2>2 DEF Steady, Writers, Updates, Deletes, Recomputing
  <2> QED BY <2>1, <2>2, <2>3, SameLocksKeepIt DEF Watermarked
<1> QED BY <1>3, <1>4

LEMMA DeleteRowsKeepsIt == ASSUME IInv, NEW c \in Conns, DeleteRows(c) PROVE IInv'
<1> DEFINE t == [tx[c] EXCEPT !.at = "ready"]
<1>0. tx[c] \in Transactions /\ tx[c].at = "rows" /\ Steady(tx[c]) /\ tx[c].op = "erase"
  BY DEF IInv, TypeOK, TxInv, DeleteRows, Steady
<1>1. t \in Transactions /\ tx' = [tx EXCEPT ![c] = t] /\ Uncommitted
  BY <1>0 DEF DeleteRows, Step, IInv, TypeOK, Transactions
<1>2. t.op = "erase" /\ t.formed = tx[c].formed /\ t.locked = tx[c].locked /\ t.at = "ready"
  BY <1>0 DEF Transactions
<1>3. Steady(t) /\ ~Watermarked(t)
  BY <1>0, <1>2 DEF Steady, Writers, Updates, Deletes, Recomputing, Watermarked
<1> QED BY <1>1, <1>2, <1>3, SameLocksKeepIt

LEMMA SweepRowsKeepsIt == ASSUME IInv, NEW c \in Conns, SweepRows(c) PROVE IInv'
<1>1. PICK O \in SUBSET In(row, Stored) :
          /\ \A o \in O : RowFree(c, o)
          /\ tx' = [tx EXCEPT ![c] = [Idle EXCEPT !.op = "sweep", !.at = "ready",
                                                  !.turns = O, !.locked = O]]
  BY DEF SweepRows
<1> DEFINE t == [Idle EXCEPT !.op = "sweep", !.at = "ready", !.turns = O, !.locked = O]
<1>2. t \in Transactions /\ Steady(t) /\ ~Watermarked(t) /\ t.locked = O /\ t.op # "assert"
  BY DEF Idle, Transactions, Steady, Watermarked, Outcome, Writers, Updates, Deletes, Recomputing, In
<1>3. \A d \in Conns \ {c} : Apart(t, tx[d])
  BY <1>1, <1>2 DEF RowFree, Apart
<1>4. tx' = [tx EXCEPT ![c] = t] /\ Uncommitted
  BY <1>1 DEF SweepRows
<1> QED BY <1>2, <1>3, <1>4, StatementKeepsIt

\* The replayed batch reads the committed rows, and so passes no turn that waits now.
LEMMA RecomputeUnlockedKeepsIt == ASSUME IInv, NEW c \in Conns, RecomputeUnlocked(c) PROVE IInv'
<1> DEFINE t == [Idle EXCEPT !.op = "assert", !.at = "stale", !.formed = HighestFormed(row)]
<1>0. row \in [Offsets -> Phases] /\ Honest(row, agreed) /\ agreed \in Offsets \cup {NoOffset}
  BY DEF IInv, TypeOK, LogInv
<1>1. /\ HighestFormed(row) \in Offsets \cup {NoOffset}
      /\ Honest(row, HighestFormed(row))
      /\ HighestFormed(row) = NoOffset \/ \E o \in Offsets :
             row[o] # "none" /\ HighestFormed(row) <= o
  BY <1>0, HighestFormedIsBest
<1>2. HighestFormed(row) <= stored
  <2>0. stored \in Int /\ stored >= NoOffset
    BY TxAssumption DEF IInv, TypeOK, Offsets, NoOffset
  <2>1. CASE HighestFormed(row) = NoOffset
    BY <2>0, <2>1 DEF NoOffset
  <2>2. CASE HighestFormed(row) # NoOffset
    <3>1. PICK o \in Offsets : row[o] # "none" /\ HighestFormed(row) <= o
      BY <1>1, <2>2
    <3>2. o \in Int /\ ~(o > stored)
      BY <3>1, OffsetsAreNaturals DEF IInv, LogInv
    <3>3. HighestFormed(row) \in Int
      BY <1>1, <2>2, OffsetsAreNaturals
    <3> QED BY <2>0, <3>1, <3>2, <3>3
  <2> QED BY <2>1, <2>2
<1>3. t \in Transactions
  BY <1>1 DEF Idle, Transactions, Outcome
<1>4. t.op = "assert" /\ t.at = "stale" /\ t.locked = {} /\ t.formed = HighestFormed(row)
  BY DEF Idle
<1>5. Steady(t) /\ ~Watermarked(t)
  BY <1>1, <1>2, <1>4 DEF Steady, Watermarked, Writers, Updates, Deletes, Recomputing
<1>6. \A d \in Conns \ {c} : Apart(t, tx[d])
  BY <1>4, <1>5 DEF Apart
<1>7. ReadBefore(c, t.formed)
  BY <1>1, <1>4 DEF ReadBefore, Honest
<1>8. tx' = [tx EXCEPT ![c] = t] /\ Uncommitted
  BY DEF RecomputeUnlocked
<1> QED BY <1>3, <1>5, <1>6, <1>7, <1>8, StatementKeepsIt

LEMMA WriteStaleKeepsIt == ASSUME IInv, NEW c \in Conns, WriteStale(c) PROVE IInv'
<1> DEFINE t == [tx[c] EXCEPT !.at = "ready"]
<1>0. tx[c] \in Transactions /\ tx[c].at = "stale" /\ Steady(tx[c]) /\ tx[c].op = "assert"
  BY DEF IInv, TypeOK, TxInv, WriteStale, Steady
<1>1. t \in Transactions /\ tx' = [tx EXCEPT ![c] = t] /\ Uncommitted
  BY <1>0 DEF WriteStale, Step, IInv, TypeOK, Transactions
<1>2. t.op = "assert" /\ t.formed = tx[c].formed /\ t.locked = tx[c].locked /\ t.at = "ready"
  BY <1>0 DEF Transactions
<1>3. Steady(t)
  BY <1>0, <1>2 DEF Steady, Writers, Updates, Deletes, Recomputing
<1>4. \A d \in Conns \ {c} : Apart(t, tx[d])
  BY <1>2 DEF WriteStale, WatermarkFree, HoldsWatermark, Watermarked, IInv, TxInv, Apart
<1>5. ReadBefore(c, t.formed)
  BY <1>0, <1>2 DEF IInv, ReplayInv
<1> QED BY <1>1, <1>3, <1>4, <1>5, StatementKeepsIt

-----------------------------------------------------------------------------
(* The end of a transaction *)

\* What a commit publishes: the transaction's view, its offset, and the number it computed.
Published(c) ==
    LET t == tx[c]
    IN  /\ row' = Seen(t)
        /\ stored' = IF t.op \in Writers THEN stored + 1 ELSE stored
        /\ formed' = IF t.op \in Recomputing \cup {"assert"} THEN t.formed ELSE formed
        /\ agreed' = IF t.op \in Recomputing THEN t.formed ELSE agreed
        /\ misread' = IF t.op \in Recomputing \cup {"assert"} THEN reopened[c] ELSE misread
        /\ reopened' = Overtaken(c)
        /\ tx' = [tx EXCEPT ![c] = Idle]

LEMMA CommitPublishes ==
    ASSUME IInv, NEW c \in Conns, Commit(c)
    PROVE  /\ Published(c)
           /\ tx[c] \in Transactions /\ Steady(tx[c]) /\ tx[c].at = "ready"
           /\ tx[c].op \in Deletes \cup {"append", "assert"} \cup Recomputing
           /\ tx[c].op \in Recomputing => Recomputed(tx[c])
<1>1. tx[c] \in Transactions /\ Steady(tx[c]) /\ tx[c].at = "ready"
  BY DEF IInv, TypeOK, TxInv, Commit
<1>2. tx[c].op \in Deletes \cup {"append", "assert"} \cup Recomputing
  BY <1>1 DEF Transactions, Steady, Outcome, Deletes, Recomputing, Updates
<1>3. tx[c].op \in Recomputing => Recomputed(tx[c])
  BY <1>1 DEF Steady
<1>4. tx[c].op \in Recomputing \cup {"assert"} => tx[c].formed # Unset
  BY <1>1, <1>3, OffsetsAreNaturals DEF Steady, Recomputed, Unset, NoOffset
<1>5. tx[c].op \notin Recomputing \cup {"assert"} => tx[c].formed = Unset
  BY <1>1 DEF Steady
<1>6. tx[c].op \in Recomputing => tx[c].op # "assert"
  BY DEF Recomputing, Updates
<1> QED BY <1>1, <1>2, <1>3, <1>4, <1>5, <1>6 DEF Commit, Published, View, Seen

LEMMA CommitKeepsType == ASSUME IInv, NEW c \in Conns, Commit(c) PROVE TypeOK'
<1> DEFINE t == tx[c]
<1>1. Published(c) /\ t \in Transactions /\ Steady(t) /\ t.at = "ready"
      /\ (t.op \in Recomputing => Recomputed(t))
  BY CommitPublishes
<1>2. row' \in [Offsets -> Phases]
  BY <1>1, SeenIsALog DEF Published
<1>3. stored' \in Offsets \cup {NoOffset}
  <2>1. CASE t.op \in Writers
    <3>1. stored < MaxOffset
      BY <1>1, <2>1 DEF Steady
    <3> QED BY <1>1, <2>1, <3>1, OffsetsAreNaturals DEF Published, IInv, TypeOK, NoOffset
  <2>2. CASE t.op \notin Writers
    BY <1>1, <2>2 DEF Published, IInv, TypeOK
  <2> QED BY <2>1, <2>2
<1>4. formed' \in Offsets \cup {NoOffset} /\ agreed' \in Offsets \cup {NoOffset}
  <2>1. t.op \in Recomputing \cup {"assert"} => t.formed \in Offsets \cup {NoOffset}
    BY <1>1 DEF Steady, Recomputed
  <2> QED BY <1>1, <2>1 DEF Published, IInv, TypeOK
<1>5. tx' \in [Conns -> Transactions]
  BY <1>1, IdleIsSteady DEF Published, IInv, TypeOK
<1>6. t.locked \subseteq Offsets /\ reopened \in [Conns -> SUBSET Offsets] /\ misread \subseteq Offsets
  BY <1>1 DEF Transactions, IInv, TypeOK
<1>7. misread' \in SUBSET Offsets
  BY <1>1, <1>6 DEF Published
<1>8. Overtaken(c) \in [Conns -> SUBSET Offsets]
  BY <1>6 DEF Overtaken
<1>9. reopened' \in [Conns -> SUBSET Offsets]
  BY <1>1, <1>8 DEF Published
<1> QED BY <1>2, <1>3, <1>4, <1>5, <1>7, <1>9 DEF TypeOK

\* Every turn that waits after a commit waited before it, is new, or was reopened by it.
LEMMA CommitMakesWait ==
    ASSUME IInv, NEW c \in Conns, Commit(c), NEW o \in Offsets, row'[o] = "backlog"
    PROVE  \/ row[o] = "backlog" /\ tx[c].op \notin Recomputing
           \/ tx[c].op = "append" /\ o = stored + 1
           \/ tx[c].op \in Recomputing
<1> DEFINE t == tx[c]
<1>0. Published(c) /\ t \in Transactions /\ Steady(t) /\ t.at = "ready"
      /\ t.op \in Deletes \cup {"append", "assert"} \cup Recomputing
  BY CommitPublishes
<1>1. row'[o] = IF o \in t.locked THEN Outcome[t.op] ELSE row[o]
  BY <1>0 DEF Published, Seen
<1>2. CASE t.op \in Deletes
  BY <1>0, <1>1, <1>2 DEF Deletes, Outcome, Recomputing, Updates
<1>3. CASE t.op = "append"
  BY <1>0, <1>1, <1>3 DEF Steady, Writers, Recomputing, Updates
<1>4. CASE t.op = "assert"
  BY <1>0, <1>1, <1>4 DEF Steady, Recomputing, Updates
<1> QED BY <1>0, <1>2, <1>3, <1>4

LEMMA CommitKeepsLog == ASSUME IInv, NEW c \in Conns, Commit(c) PROVE LogInv'
<1> DEFINE t == tx[c]
<1>0. Published(c) /\ t \in Transactions /\ Steady(t) /\ t.at = "ready"
      /\ t.op \in Deletes \cup {"append", "assert"} \cup Recomputing
      /\ (t.op \in Recomputing => Recomputed(t))
  BY CommitPublishes
<1>1. stored \in Int /\ formed \in Int /\ agreed \in Int /\ stored' \in Int /\ Offsets \subseteq Nat
  BY CommitKeepsType, OffsetsAreNaturals DEF TypeOK, IInv, NoOffset
<1>2. formed' <= stored' /\ agreed' <= stored'
  <2>1. CASE t.op \in Recomputing
    BY <1>0, <1>1, <2>1 DEF Published, Recomputed, Recomputing, Writers, Updates
  <2>2. CASE t.op = "assert"
    BY <1>0, <1>1, <2>2 DEF Published, Steady, IInv, LogInv, Writers, Recomputing, Updates
  <2>3. CASE t.op \notin Recomputing \cup {"assert"}
    BY <1>0, <1>1, <2>3 DEF Published, IInv, LogInv
  <2> QED BY <2>1, <2>2, <2>3
<1>3. \A o \in Offsets : o > stored' => row'[o] = "none"
  <2> SUFFICES ASSUME NEW o \in Offsets, o > stored', row'[o] # "none" PROVE FALSE
    OBVIOUS
  <2>1. o <= IF t.op \in Writers THEN stored + 1 ELSE stored
    BY <1>0, SeenIsALog DEF Published
  <2> QED BY <1>0, <1>1, <2>1 DEF Published
<1>4. Honest(row', agreed')
  <2>1. CASE t.op \in Recomputing
    BY <1>0, <2>1 DEF Published, Recomputed
  <2>2. CASE t.op \notin Recomputing
    <3>1. agreed' = agreed /\ agreed <= stored
      BY <1>0, <2>2 DEF Published, IInv, LogInv
    <3>2. \A o \in Offsets : row'[o] = "backlog" => row[o] = "backlog" \/ o = stored + 1
      BY <2>2, CommitMakesWait
    <3> QED BY <1>1, <3>1, <3>2 DEF IInv, LogInv, Honest
  <2> QED BY <2>1, <2>2
<1>5. FreshnessIsHonest'
  <2>1. CASE t.op \in Recomputing
    <3>1. formed' = agreed'
      BY <1>0, <2>1 DEF Published
    <3> QED BY <1>4, <3>1 DEF Honest, FreshnessIsHonest
  <2>2. CASE t.op = "assert"
    <3>1. formed' = t.formed /\ misread' = reopened[c]
      BY <1>0, <2>2 DEF Published, Recomputing, Updates
    <3>2. ReadBefore(c, t.formed)
      BY <2>2 DEF IInv, ReplayInv
    <3>3. \A o \in Offsets : row'[o] = "backlog" => row[o] = "backlog"
      BY <2>2, CommitMakesWait DEF Recomputing, Updates
    <3> QED BY <3>1, <3>2, <3>3 DEF ReadBefore, FreshnessIsHonest
  <2>3. CASE t.op \notin Recomputing \cup {"assert"}
    <3>1. formed' = formed /\ formed <= stored /\ misread' = misread
      BY <1>0, <2>3 DEF Published, IInv, LogInv
    <3>2. \A o \in Offsets : row'[o] = "backlog" => row[o] = "backlog" \/ o = stored + 1
      BY <2>3, CommitMakesWait
    <3> QED BY <1>1, <3>1, <3>2 DEF IInv, LogInv, FreshnessIsHonest
  <2> QED BY <2>1, <2>2, <2>3
<1> QED BY <1>2, <1>3, <1>4, <1>5 DEF LogInv

\* What an open replayed batch has read: a turn that waits since is new, and so above its
\* number, or was reopened, and that is noted.
LEMMA CommitKeepsReplays == ASSUME IInv, NEW c \in Conns, Commit(c) PROVE ReplayInv'
<1> DEFINE t == tx[c]
<1>0. Published(c) /\ t \in Transactions /\ Steady(t) /\ t.at = "ready"
      /\ t.op \in Deletes \cup {"append", "assert"} \cup Recomputing
  BY CommitPublishes
<1>1. stored \in Int /\ Offsets \subseteq Nat
  BY OffsetsAreNaturals DEF TypeOK, IInv, NoOffset
<1> SUFFICES ASSUME NEW d \in Conns, tx'[d].op = "assert", NEW o \in Offsets,
                    o <= tx'[d].formed, row'[o] = "backlog"
             PROVE  o \in reopened'[d]
  BY DEF ReplayInv, ReadBefore
<1>2. d # c /\ tx'[d] = tx[d]
  BY <1>0 DEF Published, IInv, TypeOK, Idle
<1>3. tx[d].op = "assert" /\ o <= tx[d].formed
  BY <1>2
<1>4. reopened'[d] = IF t.op = "unpark" THEN reopened[d] \cup t.locked ELSE reopened[d]
  BY <1>0, <1>2, <1>3 DEF Published, Overtaken
<1>5. row[o] = "backlog" => o \in reopened[d]
  BY <1>3 DEF IInv, ReplayInv, ReadBefore
<1>6. o <= stored
  <2>1. tx[d].formed \in Int /\ tx[d].formed <= stored
    BY <1>3, OffsetsAreNaturals DEF IInv, TxInv, Steady, NoOffset
  <2> QED BY <1>1, <1>3, <2>1
<1>7. row'[o] = IF o \in t.locked THEN Outcome[t.op] ELSE row[o]
  BY <1>0 DEF Published, Seen
<1>8. CASE o \notin t.locked
  BY <1>4, <1>5, <1>7, <1>8
<1>9. CASE o \in t.locked
  <2>1. Outcome[t.op] = "backlog" => t.op \in {"append", "unpark"}
    BY <1>0 DEF Outcome, Deletes, Recomputing, Updates
  <2>2. t.op # "append"
    BY <1>0, <1>1, <1>6, <1>9 DEF Steady, Writers
  <2> QED BY <1>4, <1>7, <1>9, <2>1, <2>2
<1> QED BY <1>8, <1>9

\* Another transaction still holds what it held: the committed one had other rows, and
\* the watermark row too unless it deletes, and then it leaves every computed number true.
LEMMA CommitKeepsOthers ==
    ASSUME IInv, NEW c \in Conns, Commit(c), NEW d \in Conns \ {c}
    PROVE  Steady(tx[d])'
<1> DEFINE t == tx[c]
<1>0. Published(c) /\ t \in Transactions /\ Steady(t) /\ t.at = "ready"
      /\ t.op \in Deletes \cup {"append", "assert"} \cup Recomputing
  BY CommitPublishes
<1>1. tx[d] \in Transactions /\ Steady(tx[d]) /\ tx'[d] = tx[d] /\ Apart(t, tx[d])
  BY <1>0 DEF Published, IInv, TypeOK, TxInv
<1> SUFFICES ASSUME NEW u \in Transactions, u = tx[d] PROVE Steady(u)'
  BY <1>1 DEF Steady, Recomputed, Seen
<1>2. Steady(u) /\ u.locked \subseteq Offsets
  BY <1>1 DEF Transactions
<1>3. t.locked \cap u.locked = {} /\ ~(Watermarked(t) /\ Watermarked(u))
  BY <1>1 DEF Apart
<1>4. \A o \in u.locked : row'[o] = row[o]
  BY <1>0, <1>2, <1>3 DEF Published, Seen
<1>5. CASE t.op \in Deletes
  <2>1. stored' = stored /\ agreed' = agreed
    BY <1>0, <1>5 DEF Published, Deletes, Writers, Recomputing, Updates
  <2>2. ASSUME Recomputed(u) PROVE Recomputed(u)'
    <3>1. \A o \in Offsets : Seen(u)'[o] = Seen(u)[o] \/ Seen(u)'[o] = "erased"
      BY <1>0, <1>5 DEF Published, Seen, Deletes, Outcome
    <3>2. Honest(Seen(u), u.formed)'
      BY <2>2, <3>1 DEF Recomputed, Honest
    <3>3. NothingAbove(Seen(u), u.formed) => NothingAbove(Seen(u), u.formed)'
      BY <3>1 DEF NothingAbove
    <3> QED BY <2>1, <2>2, <3>2, <3>3 DEF Recomputed
  <2> QED BY <1>2, <1>4, <2>1, <2>2 DEF Steady
<1>6. CASE t.op \notin Deletes
  <2>1. ~Watermarked(u)
    BY <1>0, <1>3, <1>6 DEF Watermarked
  <2>2. ~(u.at = "ready" /\ u.op \in Recomputing) /\ ~(u.op \in Writers /\ u.at \in {"holding", "ready"})
    BY <2>1 DEF Watermarked, Recomputing, Updates, Writers, Deletes
  <2>3. stored \in Int /\ stored' \in Int /\ stored <= stored'
    BY <1>0, OffsetsAreNaturals DEF Published, IInv, TypeOK, NoOffset
  <2>4. u.op = "assert" => u.formed \in Int /\ u.formed <= stored
    BY <1>2, OffsetsAreNaturals DEF Steady, NoOffset
  <2>5. u.op = "assert" => u.formed <= stored'
    BY <2>3, <2>4
  <2> QED BY <1>2, <1>4, <2>2, <2>5 DEF Steady
<1> QED BY <1>5, <1>6

LEMMA CommitKeepsIt == ASSUME IInv, NEW c \in Conns, Commit(c) PROVE IInv'
<1>1. tx' = [tx EXCEPT ![c] = Idle] /\ tx \in [Conns -> Transactions]
  BY DEF Commit, IInv, TypeOK
<1>2. \A d \in Conns : Steady(tx[d])'
  <2> TAKE d \in Conns
  <2>1. CASE d = c
    <3>1. tx'[d] = Idle
      BY <1>1, <2>1
    <3>2. Steady(Idle)'
      BY DEF Idle, Steady, Writers, Updates, Deletes, Recomputing, Unset
    <3> QED BY <3>1, <3>2 DEF Steady, Recomputed, Seen
  <2>2. CASE d # c
    BY <2>2, CommitKeepsOthers
  <2> QED BY <2>1, <2>2
<1>3. \A d, e \in Conns : d # e => Apart(tx[d], tx[e])'
  BY <1>1 DEF IInv, TxInv, Apart, Watermarked, Idle
<1> QED BY <1>2, <1>3, CommitKeepsType, CommitKeepsLog, CommitKeepsReplays DEF IInv, TxInv

-----------------------------------------------------------------------------
(* The invariants *)

LEMMA InitHoldsIt == Init => IInv
<1> SUFFICES ASSUME Init PROVE IInv
  OBVIOUS
<1>1. TypeOK
  BY IdleIsSteady DEF Init, TypeOK, Phases
<1>2. LogInv
  BY OffsetsAreNaturals DEF Init, LogInv, FreshnessIsHonest, Honest, NoOffset
<1>3. TxInv
  BY IdleIsSteady DEF Init, TxInv, Apart, Idle
<1>4. ReplayInv
  BY DEF Init, ReplayInv, Idle
<1> QED BY <1>1, <1>2, <1>3, <1>4 DEF IInv

LEMMA NextKeepsIt == IInv /\ [Next]_txVars => IInv'
<1> SUFFICES ASSUME IInv, [Next]_txVars PROVE IInv'
  OBVIOUS
<1>1. CASE UNCHANGED txVars
  BY <1>1 DEF IInv, TypeOK, LogInv, TxInv, FreshnessIsHonest, Steady, Apart, Watermarked,
              Recomputed, Seen, Honest, NothingAbove, ReplayInv, ReadBefore, txVars
<1>2. ASSUME NEW c \in Conns, Statement(c) PROVE IInv'
  BY <1>2, BeginWriteKeepsIt, TakeOffsetKeepsIt, BeginUpdateKeepsIt, UpdateRowKeepsIt,
     LockWatermarkKeepsIt, RecomputeKeepsIt, BeginEraseKeepsIt, LockRowKeepsIt,
     DeleteRowsKeepsIt, SweepRowsKeepsIt, RecomputeUnlockedKeepsIt, WriteStaleKeepsIt,
     CommitKeepsIt, RollbackKeepsIt DEF Statement
<1> QED BY <1>1, <1>2 DEF Next

\* The committed rows and every open transaction, statement by statement: which rows are
\* locked by whom, and what the number a transaction carries still says.
THEOREM Invariant == Spec => []IInv
<1>1. Init => IInv
  BY InitHoldsIt
<1>2. IInv /\ [Next]_txVars => IInv'
  BY NextKeepsIt
<1> QED BY <1>1, <1>2, PTL DEF Spec

\* Every variable keeps its type, whatever the statements interleave to.
THEOREM TypeCorrect == Spec => []TypeOK
<1>1. IInv => TypeOK
  BY DEF IInv
<1> QED BY <1>1, Invariant, PTL

\* Past a turn that waits the committed watermark reports only where a replayed batch put
\* it, which read before that turn was reopened and wrote after (recordassertion.go: its
\* recompute has no lockScopeWatermarkSQL before it), for any number of connections.
THEOREM FreshnessStaysHonest == Spec => []FreshnessIsHonest
<1>1. IInv => FreshnessIsHonest
  BY DEF IInv, LogInv
<1> QED BY <1>1, Invariant, PTL

-----------------------------------------------------------------------------
(* The refinement *)

LEMMA CommitRefines == ASSUME IInv, NEW c \in Conns, Commit(c) PROVE [FW!Next]_(FW!vars)
<1> DEFINE t == tx[c]
           s == Project
<1>0. Published(c) /\ t \in Transactions /\ Steady(t) /\ t.at = "ready"
      /\ t.op \in Deletes \cup {"append", "assert"} \cup Recomputing
      /\ (t.op \in Recomputing => Recomputed(t))
  BY CommitPublishes
<1>1. TypeOK /\ TypeOK' /\ LogInv /\ LogInv'
  BY CommitKeepsType, CommitKeepsLog DEF IInv
<1>2. FW!Offsets = Offsets /\ FW!NoOffset = NoOffset /\ s \in {Project}
  BY DEF FW!Offsets, Offsets, FW!NoOffset, NoOffset
<1>3. FW!Restate(s)
  <2>1. agreed' \in NoOffset .. stored'
    BY <1>1, OffsetsAreNaturals DEF TypeOK, LogInv, NoOffset
  <2>2. FW!Honest(row', agreed')
    BY <1>1, <1>2 DEF FW!Honest, LogInv, Honest
  <2> QED BY <1>2, <2>1, <2>2 DEF FW!Restate
<1>4. ASSUME t.op # "unpark" PROVE FW!Advance(s)
  <2>1. CASE t.op \in Recomputing
    <3>1. agreed' >= agreed \/ NothingAbove(row', agreed')
      BY <1>0, <1>4, <2>1 DEF Published, Recomputed
    <3> QED BY <1>2, <1>3, <3>1 DEF FW!Advance, FW!NothingAbove, NothingAbove
  <2>2. CASE t.op \notin Recomputing
    <3>1. agreed' = agreed /\ agreed \in Int
      BY <1>0, <1>1, <2>2, OffsetsAreNaturals DEF Published, TypeOK, NoOffset
    <3> QED BY <1>2, <1>3, <3>1 DEF FW!Advance
  <2> QED BY <2>1, <2>2
<1>5. CASE t.op \in Writers
  <2>1. stored < MaxOffset /\ t.locked = {stored + 1} /\ stored' = stored + 1
    BY <1>0, <1>5 DEF Steady, Published
  <2>2. row' = [row EXCEPT ![stored + 1] = Outcome[t.op]]
    BY <1>0, <1>1, <2>1 DEF Published, Seen, TypeOK
  <2>3. Outcome[t.op] \in {"backlog", "formed"} /\ t.op # "unpark"
    BY <1>5 DEF Writers, Outcome
  <2>4. FW!Accept(s)
    BY <1>2, <1>4, <2>1, <2>2, <2>3 DEF FW!Accept
  <2> QED BY <1>2, <2>4 DEF FW!Next
<1>6. CASE t.op \in Updates
  <2>1. PICK o \in Offsets : t.locked = {o} /\ row[o] \in Expected[t.op]
    BY <1>0, <1>6 DEF Steady
  <2>2. row' = [row EXCEPT ![o] = Outcome[t.op]] /\ stored' = stored
    BY <1>0, <1>1, <1>6, <2>1 DEF Published, Seen, TypeOK, Updates, Writers
  <2>3. CASE t.op = "unpark"
    <3>1. row[o] = "parked" /\ Outcome[t.op] = "backlog"
      BY <2>1, <2>3 DEF Expected, Outcome
    <3>2. FW!Reopen(s, o)
      BY <1>2, <1>3, <2>2, <3>1 DEF FW!Reopen
    <3> QED BY <1>2, <3>2 DEF FW!Next
  <2>4. CASE t.op # "unpark" /\ row[o] # Outcome[t.op]
    <3>1. /\ Outcome[t.op] \in {"parked", "formed"}
          /\ row[o] = "backlog" \/ (row[o] = "parked" /\ Outcome[t.op] = "formed")
      BY <1>6, <2>1, <2>4 DEF Expected, Outcome, Updates, Stored
    <3>2. FW!Settle(s, o)
      BY <1>2, <1>4, <2>2, <2>4, <3>1 DEF FW!Settle
    <3> QED BY <1>2, <3>2 DEF FW!Next
  <2>5. CASE t.op # "unpark" /\ row[o] = Outcome[t.op]
    <3>1. row' = row
      BY <1>1, <2>2, <2>5 DEF TypeOK
    <3>2. FW!Recompute(s)
      BY <1>4, <2>2, <2>5, <3>1 DEF FW!Recompute
    <3> QED BY <1>2, <3>2 DEF FW!Next
  <2> QED BY <2>3, <2>4, <2>5
<1>7. CASE t.op \in Deletes
  <2>1. stored' = stored /\ agreed' = agreed
    BY <1>0, <1>7 DEF Published, Deletes, Writers, Recomputing, Updates
  <2>2. \A o \in t.locked : row[o] \in {"backlog", "parked", "formed"}
    BY <1>0, <1>7 DEF Steady, Stored
  <2>3. row' = [o \in Offsets |-> IF o \in t.locked THEN "erased" ELSE row[o]]
    BY <1>0, <1>7 DEF Published, Seen, Deletes, Outcome
  <2>4. t.locked \in SUBSET Offsets
    BY <1>0 DEF Transactions
  <2>5. FW!Forget(s)
    BY <1>2, <2>1, <2>2, <2>3, <2>4 DEF FW!Forget
  <2> QED BY <1>2, <2>5 DEF FW!Next
<1>8. CASE t.op = "assert"
  <2>1. t.locked = {} /\ stored' = stored /\ agreed' = agreed
    BY <1>0, <1>8 DEF Steady, Published, Writers, Recomputing, Updates
  <2>2. row' = row
    BY <1>0, <1>1, <2>1 DEF Published, Seen, TypeOK
  <2> QED BY <2>1, <2>2 DEF FW!vars
<1> QED BY <1>0, <1>5, <1>6, <1>7, <1>8 DEF Writers, Recomputing

LEMMA StepRefines == IInv /\ [Next]_txVars => [FW!Next]_(FW!vars)
<1> SUFFICES ASSUME IInv, [Next]_txVars PROVE [FW!Next]_(FW!vars)
  OBVIOUS
<1>1. CASE UNCHANGED txVars
  BY <1>1 DEF txVars, FW!vars
<1>2. ASSUME NEW c \in Conns, Statement(c) PROVE [FW!Next]_(FW!vars)
  <2>1. CASE Commit(c)
    BY <2>1, CommitRefines
  <2>2. CASE ~Commit(c)
    <3>1. CASE Rollback(c)
      BY <3>1 DEF Rollback, FW!vars
    <3>2. CASE ~Rollback(c)
      <4>1. Uncommitted
        BY <1>2, <2>2, <3>2 DEF Statement, BeginWrite, BeginUpdate, BeginErase, Begin,
           TakeOffset, UpdateRow, LockWatermark, Recompute, LockRow, TakeRow, DeleteRows,
           SweepRows, RecomputeUnlocked, WriteStale
      <4> QED BY <4>1 DEF Uncommitted, FW!vars
    <3> QED BY <3>1, <3>2
  <2> QED BY <2>1, <2>2
<1> QED BY <1>1, <1>2 DEF Next

LEMMA InitRefines == Init => FW!Init
BY DEF Init, FW!Init, FW!Offsets, Offsets, FW!NoOffset, NoOffset

\* The transactions that lock the watermark row do, commit by commit, what FormedWatermark
\* promises, whatever else runs between their statements: the lock makes each recompute
\* one step.  A replayed batch holds no such lock when it reads, and `agreed` leaves its
\* number out.
THEOREM TransactionsImplementWatermark == Spec => ImplementsWatermark
BY InitRefines, StepRefines, Invariant, PTL DEF Spec, ImplementsWatermark, FW!Spec

-----------------------------------------------------------------------------
(* Waiting *)

\* A transaction that waits for a row waits for one that locked it while ordering its own
\* rows, and that one's next row lies further on.
LEMMA RowHoldersAreAhead ==
    ASSUME IInv, NEW C \in SUBSET Conns, \A c \in C : tx[c].at \in {"row", "rows"},
           NEW d \in C, NEW o \in tx[d].locked, NEW p \in Remaining(d)
    PROVE  tx[d].at = "rows" /\ o < p
<1>1. Steady(tx[d]) /\ tx[d].locked # {}
  BY DEF IInv, TxInv
<1>2. tx[d].at = "rows"
  BY <1>1 DEF Steady
<1>3. \A q \in tx[d].locked, r \in tx[d].turns \ tx[d].locked : q < r
  BY <1>1, <1>2 DEF Steady
<1>4. p \in tx[d].turns \ tx[d].locked
  BY DEF Remaining
<1> QED BY <1>2, <1>3, <1>4

LEMMA SomeoneGoesOn == IInv => NoWaitCycle
<1> SUFFICES ASSUME IInv, NEW C \in SUBSET Conns, C # {}
             PROVE  \E c \in C : \A d \in C : ~WaitsFor(c, d)
  BY DEF NoWaitCycle
<1> DEFINE Least(c, o) == o \in Remaining(c) /\ \A p \in Remaining(c) : o <= p
<1>0. \A c \in C : tx[c] \in Transactions /\ Steady(tx[c]) /\ Remaining(c) \subseteq Offsets
  BY DEF IInv, TypeOK, TxInv, Remaining, Transactions
<1>1. CASE \E c \in C : tx[c].at \in {"idle", "holding", "ready"}
  BY <1>1 DEF WaitsFor
<1>2. CASE /\ ~\E c \in C : tx[c].at \in {"idle", "holding", "ready"}
           /\ \E c \in C : tx[c].at \in {"offset", "updated", "stale"}
  BY <1>2 DEF WaitsFor, HoldsWatermark
<1>3. CASE /\ \A c \in C : tx[c].at \in {"row", "rows"}
           /\ \E c \in C : tx[c].at = "rows" /\ Remaining(c) = {}
  BY <1>3 DEF WaitsFor
<1>4. CASE \A c \in C : tx[c].at = "row"
  BY <1>0, <1>4 DEF WaitsFor, Steady
<1>5. CASE /\ \A c \in C : tx[c].at \in {"row", "rows"}
           /\ \A c \in C : tx[c].at = "rows" => Remaining(c) # {}
           /\ \E c \in C : tx[c].at = "rows"
  <2> DEFINE M == {o \in Offsets : \E c \in C : tx[c].at = "rows" /\ Least(c, o)}
  <2>1. ASSUME NEW c \in C, tx[c].at = "rows" PROVE \E o \in M : Least(c, o)
    <3>1. Remaining(c) \in SUBSET Nat /\ Remaining(c) # {}
      BY <1>0, <1>5, <2>1, OffsetsAreNaturals
    <3>2. Least(c, Min(Remaining(c)))
      BY <3>1, MinIsLeast
    <3> QED BY <1>0, <2>1, <3>2
  <2>2. M \in SUBSET (0 .. MaxOffset) /\ M # {}
    BY <1>5, <2>1, OffsetsAreNaturals
  <2>3. Max(M) \in M /\ \A o \in M : Max(M) >= o
    BY <2>2, MaxIsGreatest, TxAssumption
  <2>4. PICK c \in C : tx[c].at = "rows" /\ Least(c, Max(M))
    BY <2>3
  <2>5. ASSUME NEW d \in C, WaitsFor(c, d) PROVE FALSE
    <3>1. PICK o \in Remaining(c) \cap tx[d].locked : \A p \in Remaining(c) : o <= p
      BY <2>4, <2>5 DEF WaitsFor
    <3>2. o = Max(M)
      <4>1. Max(M) \in Remaining(c) /\ \A p \in Remaining(c) : Max(M) <= p
        BY <2>4
      <4>2. Max(M) \in Nat /\ o \in Nat /\ o <= Max(M) /\ Max(M) <= o
        BY <1>0, <3>1, <4>1, OffsetsAreNaturals
      <4> QED BY <4>2
    <3>3. tx[d].at = "rows"
      BY <1>0, <1>5, <3>1 DEF Steady
    <3>4. PICK p \in M : Least(d, p)
      BY <2>1, <3>3
    <3>5. o < p
      BY <1>5, <3>1, <3>4, RowHoldersAreAhead
    <3>6. p \in Nat /\ Max(M) \in Nat /\ Max(M) >= p
      <4> HIDE DEF M
      <4>1. M \subseteq Nat
        BY <2>2
      <4> QED BY <4>1, <2>3
    <3> QED BY <3>2, <3>5, <3>6
  <2> QED BY <2>5
<1> QED BY <1>0, <1>1, <1>2, <1>3, <1>4, <1>5 DEF Transactions, Steady

\* No transactions wait for one another in a circle, for any number of them and any set
\* of them: rows are locked before the watermark row, and in one order.
THEOREM NobodyWaitsInACircle == Spec => []NoWaitCycle
BY Invariant, SomeoneGoesOn, PTL

-----------------------------------------------------------------------------
(* Recall: the inductive invariant, part by part. *)


\* What the store holds: rows and earlier versions with their dates.
Shaped(x) == x = [c |-> x.c, vf |-> x.vf, vt |-> x.vt, kf |-> x.kf, kt |-> x.kt, by |-> x.by]
Dated(x) == x.c \in Claims /\ x.kf \in 1 .. clock /\ x.kt \in (1 .. clock) \cup {Never}

\* One row for each claim; earlier versions end before the row begins, and no two of one claim
\* overlap; a write under way has the latest timestamp.
StoreInv ==
    /\ clock \in 1 .. MaxWrites + 1
    /\ alive \subseteq Sources
    /\ \A x \in rows \cup past : Shaped(x) /\ Dated(x)
    /\ \A x, y \in rows : x.c = y.c => x = y
    /\ \A p \in past : p.kt # Never /\ \E x \in rows : x.c = p.c /\ p.kt <= x.kf
    /\ \A p, o \in past : p.c = o.c => p = o \/ p.kt <= o.kf \/ o.kt <= p.kf
    /\ writer # None =>
        /\ writer.c \in Claims /\ writer.at = clock
        /\ writer.kind = "assert" => \A x \in rows : x.c # writer.c

\* The records, with the fields they have.
Bundled(b) ==
    b = [anchors |-> b.anchors, meant |-> b.meant, facts |-> b.facts, reports |-> b.reports,
         passages |-> b.passages, truncated |-> b.truncated, degraded |-> b.degraded, spent |-> b.spent]

Entire(a) ==
    a = [at |-> a.at, q |-> a.q, known |-> a.known, semantic |-> a.semantic, asked |-> a.asked,
         unmatched |-> a.unmatched, left |-> a.left, from |-> a.from, bundle |-> a.bundle]

\* A list of what has a size.
Priced(s) == s \in Seq(Range(s)) /\ \A x \in Range(s) : Size(x) \in Nat

\* The named parts of what is promised of a bundle: whose words it holds,
Inside(q, b) ==
    /\ \A w \in Range(b.facts) : \A x \in Range(w.via) : Admits(q, x.c.src)
    /\ \A s \in Range(b.passages) : Admits(q, s)
    /\ \A e \in b.anchors : e.scope \in ToSet(q.scopes)
    /\ \A r \in Range(b.reports) : r.scope \in ToSet(q.scopes) /\ q.person = None

\* what it costs, and what it holds once,
Fits(q, b) ==
    /\ Priced(b.facts) /\ Priced(b.reports) /\ Priced(b.passages)
    /\ b.spent = Cost(b.facts) + Cost(b.reports) + Cost(b.passages)
    /\ b.spent \in Nat /\ b.spent <= q.budget
    /\ \A i, j \in DOMAIN b.facts : Found(b.facts[i]).c = Found(b.facts[j]).c => i = j
    /\ IsInjective(b.reports) /\ IsInjective(b.passages)

\* and, of one person, that a proposed name has a fact to show.
Cited(q, b) == q.person # None =>
    \A e \in b.meant \cap b.anchors : \E w \in Range(b.facts) : w.anchor = e

Unspent(b) ==
    /\ b.facts = << >> /\ b.reports = << >> /\ b.passages = << >> /\ b.spent = 0
    /\ ~b.truncated

\* What holds of a bundle under way: for whom, from when, at which surface, in which projects still.
Composing(q, known, at, left, from, b) ==
    /\ Bundled(b) /\ q \in Requests /\ known \in {None} \cup Instants
    /\ at \in {"anchors", "propose", "facts", "reports", "passages", "done"}
    /\ Inside(q, b) /\ Fits(q, b)
    /\ at # "done" => q.scopes # << >>
    /\ at \in {"propose", "reports", "passages"} =>
         /\ left \in Seq(Range(left)) /\ left # << >> /\ IsInjective(left)
         /\ Range(left) \subseteq ToSet(q.scopes)
    /\ at \in {"anchors", "propose", "facts"} => Unspent(b) /\ from = {}
    /\ at \in {"propose", "facts"} => b.anchors \subseteq Entities
    /\ at = "propose" => b.anchors = b.meant
    /\ at = "facts" => b.anchors # {}
    /\ at \in {"reports", "passages", "done"} => Cited(q, b)
    /\ at = "reports" =>
         /\ q.person = None /\ b.passages = << >>
         /\ \A r \in Range(b.reports) : r.scope \notin Range(left)
    /\ at = "passages" => \A s \in Range(b.passages) : s.scope \notin Range(left)

\* An answer under way.
Under(a) == Entire(a) /\ Composing(a.q, a.known, a.at, a.left, a.from, a.bundle)

AnswerInv == answer = NoAnswer \/ Under(answer)

\* What an answer keeps of the facts the statement returned.
Kept(q, list) == Fitting(SubSeq(list, 1, Min({Len(list), MaxRows})), q.budget)

\* Whatever the statement gives of that moment, the caller is told nothing else: what is kept of it
\* agrees with these facts, which are all or were cut.
Shortened(q, list) == Len(Kept(q, list)) < Len(list)
Owed(q, known, from, facts, cut) ==
    \A list \in FactLists(q, known, from) :
        Agree(Account(Kept(q, list)), Shortened(q, list), facts, cut)

\* A kept answer is of a moment before any write under way, and an answer given again is about the
\* same question and, from the same names, says the same.
ToldInv ==
    told # None =>
        /\ told.q \in Requests /\ told.from # {}
        /\ told.asked \in 1 .. clock /\ (writer # None => told.asked < clock)
        /\ Owed(told.q, told.asked, told.from, told.facts, told.truncated)
        /\ answer # NoAnswer /\ answer.known # None =>
            /\ answer.q = told.q /\ answer.known = told.asked
            /\ answer.from = told.from =>
                 Agree(Account(answer.bundle.facts), answer.bundle.truncated,
                       told.facts, told.truncated)

\* The inductive invariant.
RecallInv == StoreInv /\ AnswerInv /\ ToldInv

-----------------------------------------------------------------------------
(* Least elements, and folds over a sequence.                               *)

\* A non-empty set of naturals has a least member,
LEMMA LeastOfSet ==
    ASSUME NEW S \in SUBSET Nat, S # {}
    PROVE  \E x \in S : \A y \in S : x <= y
BY MinIsLeast

\* and one with a bound has a greatest, which is what Max takes.
LEMMA GreatestBelow ==
    ASSUME NEW n \in Nat, NEW S \in SUBSET (0 .. n), S # {}
    PROVE  Max(S) \in S /\ \A y \in S : y <= Max(S)
<1>1. Max(S) \in S /\ \A y \in S : Max(S) >= y
  BY MaxIsGreatest
<1>2. \A y \in S : y \in Int
  OBVIOUS
<1> QED BY <1>1, <1>2

\* What a fold over the places s of a sequence is, by what it is over those below the last.
Folding(F, base, g, s) == IF s = {} THEN base ELSE F[<<Max(s), g[s \ {Max(s)}]>>]
\* The equation a fold over the places 1 .. n solves.
FoldsOver(F, base, n, g) == g = [s \in SUBSET (1 .. n) |-> Folding(F, base, g, s)]

\* The places before the last of a set of places.
LEMMA PlacesBelow ==
    ASSUME NEW n \in Nat, NEW s \in SUBSET (1 .. n)
    PROVE  /\ IsFiniteSet(s) /\ Cardinality(s) \in Nat /\ Cardinality(s) <= n
           /\ s # {} => /\ Max(s) \in s /\ Max(s) \in 1 .. n
                        /\ s \ {Max(s)} \in SUBSET (1 .. n)
                        /\ Cardinality(s \ {Max(s)}) = Cardinality(s) - 1
           /\ Cardinality(s) = 0 => s = {}
<1>1. IsFiniteSet(1 .. n) /\ Cardinality(1 .. n) = n
  BY FS_Interval
<1>2. IsFiniteSet(s) /\ Cardinality(s) <= n
  BY <1>1, FS_Subset
<1>3. Cardinality(s) \in Nat /\ (Cardinality(s) = 0 => s = {})
  BY <1>2, FS_CardinalityType, FS_EmptySet
<1>4. ASSUME s # {} PROVE Max(s) \in s
  <2>1. s \in SUBSET (0 .. n)
    OBVIOUS
  <2> QED BY <1>4, <2>1, GreatestBelow
<1>5. s # {} => Cardinality(s \ {Max(s)}) = Cardinality(s) - 1
  BY <1>2, <1>4, FS_RemoveElement
<1> QED BY <1>2, <1>3, <1>4, <1>5

\* A fold of values in D is defined, and its value is in D.
LEMMA FoldExists ==
    ASSUME NEW n \in Nat, NEW D, NEW base \in D, NEW F \in [(1 .. n) \X D -> D]
    PROVE  \E g \in [SUBSET (1 .. n) -> D] : FoldsOver(F, base, n, g)
<1> DEFINE P == SUBSET (1 .. n)
           Good(m) == \E g \in [P -> D] :
                        \A s \in P : Cardinality(s) <= m => g[s] = Folding(F, base, g, s)
           Bad == {m \in Nat : ~Good(m)}
<1>1. Good(0)
  <2>1. [s \in P |-> base] \in [P -> D]
    OBVIOUS
  <2>2. ASSUME NEW s \in P, Cardinality(s) <= 0 PROVE s = {}
    <3>1. Cardinality(s) \in Nat /\ (Cardinality(s) = 0 => s = {})
      BY PlacesBelow
    <3> QED BY <2>2, <3>1
  <2>3. \A s \in P : Cardinality(s) <= 0
            => [t \in P |-> base][s] = Folding(F, base, [t \in P |-> base], s)
    BY <2>2 DEF Folding
  <2> QED BY <2>1, <2>3
<1>2. ASSUME NEW m \in Nat, Good(m) PROVE Good(m + 1)
  <2>1. PICK g \in [P -> D] : \A s \in P : Cardinality(s) <= m => g[s] = Folding(F, base, g, s)
    BY <1>2
  <2> DEFINE h == [s \in P |-> IF Cardinality(s) <= m THEN g[s] ELSE Folding(F, base, g, s)]
  <2>2. \A s \in P : Folding(F, base, g, s) \in D
    <3> TAKE s \in P
    <3>1. CASE s = {}
      BY <3>1 DEF Folding
    <3>2. CASE s # {}
      <4>1. Max(s) \in 1 .. n /\ s \ {Max(s)} \in P
        BY <3>2, PlacesBelow
      <4>2. <<Max(s), g[s \ {Max(s)}]>> \in (1 .. n) \X D
        BY <4>1
      <4> QED BY <3>2, <4>2 DEF Folding
    <3> QED BY <3>1, <3>2
  <2>3. h \in [P -> D]
    BY <2>2
  <2>4. \A s \in P : Cardinality(s) <= m => h[s] = g[s]
    OBVIOUS
  <2>5. ASSUME NEW s \in P, Cardinality(s) <= m + 1
        PROVE  Folding(F, base, h, s) = Folding(F, base, g, s)
    <3>1. CASE s = {}
      BY <3>1 DEF Folding
    <3>2. CASE s # {}
      <4>1. /\ s \ {Max(s)} \in P /\ Cardinality(s) \in Nat
            /\ Cardinality(s \ {Max(s)}) = Cardinality(s) - 1
        BY <3>2, PlacesBelow
      <4>0. Cardinality(s \ {Max(s)}) <= m
        BY <2>5, <4>1
      <4>2. h[s \ {Max(s)}] = g[s \ {Max(s)}]
        BY <2>4, <4>0, <4>1
      <4> HIDE DEF h
      <4> QED BY <4>2 DEF Folding
    <3> QED BY <3>1, <3>2
  <2>6. \A s \in P : Cardinality(s) <= m + 1 => h[s] = Folding(F, base, g, s)
    BY <2>1
  <2> HIDE DEF h, P
  <2> QED BY <2>3, <2>5, <2>6
<1> HIDE DEF Good
<1>3. \A m \in Nat : Good(m)
  <2> SUFFICES ASSUME Bad # {} PROVE FALSE
    OBVIOUS
  <2>1. PICK m \in Bad : \A k \in Bad : m <= k
    BY LeastOfSet
  <2>2. m # 0 /\ m - 1 \in Nat /\ m - 1 \notin Bad
    BY <1>1, <2>1
  <2> QED BY <1>2, <2>1, <2>2
<1>4. PICK g \in [P -> D] : \A s \in P : Cardinality(s) <= n => g[s] = Folding(F, base, g, s)
  BY <1>3 DEF Good
<1>5. \A s \in P : g[s] = Folding(F, base, g, s)
  BY <1>4, PlacesBelow
<1>6. g = [s \in P |-> Folding(F, base, g, s)]
  BY <1>4, <1>5
<1> QED BY <1>6 DEF FoldsOver

-----------------------------------------------------------------------------
(* What a list costs: the sums of its prefixes.                             *)

\* f[k] is what the first k of a list cost.
Sums(s, n, f) ==
    /\ f \in [0 .. n -> Nat] /\ f[0] = 0
    /\ \A k \in 1 .. n : f[k] = f[k - 1] + Size(s[k])

\* The last of the places 1 .. k.
LEMMA LastPlace ==
    ASSUME NEW k \in Nat, k # 0
    PROVE  Max(1 .. k) = k /\ (1 .. k) \ {k} = 1 .. (k - 1)
<1>1. 1 .. k \in SUBSET (0 .. k) /\ k \in 1 .. k
  OBVIOUS
<1>2. Max(1 .. k) \in 1 .. k /\ \A y \in 1 .. k : y <= Max(1 .. k)
  BY <1>1, GreatestBelow
<1> QED BY <1>1, <1>2

\* The places of a list, and what is at them.
LEMMA PricedList ==
    ASSUME NEW s, Priced(s)
    PROVE  /\ Len(s) \in Nat /\ DOMAIN s = 1 .. Len(s)
           /\ \A k \in 1 .. Len(s) : s[k] \in Range(s) /\ Size(s[k]) \in Nat
<1>1. Len(s) \in Nat /\ DOMAIN s = 1 .. Len(s)
  BY LenProperties DEF Priced
<1>2. \A k \in 1 .. Len(s) : s[k] \in Range(s)
  BY <1>1 DEF Range
<1> QED BY <1>1, <1>2 DEF Priced

\* The fold of the model is the sum of the sizes in their order.
LEMMA CostIsASum ==
    ASSUME NEW s, Priced(s)
    PROVE  \E f : Sums(s, Len(s), f) /\ Cost(s) = f[Len(s)]
<1> DEFINE n == Len(s)
           F == [p \in (1 .. n) \X Nat |-> p[2] + Size(s[p[1]])]
<1>1. n \in Nat /\ DOMAIN s = 1 .. n /\ \A k \in 1 .. n : Size(s[k]) \in Nat
  BY PricedList
<1> HIDE DEF n
<1>2. F \in [(1 .. n) \X Nat -> Nat]
  BY <1>1
<1>2a. \A k \in 1 .. n, v \in Nat : F[<<k, v>>] = v + Size(s[k])
  OBVIOUS
<1> HIDE DEF F
<1>3. PICK g \in [SUBSET (1 .. n) -> Nat] : FoldsOver(F, 0, n, g)
  BY <1>1, <1>2, FoldExists
<1> DEFINE H(h) == [t \in SUBSET (1 .. n) |->
                      IF t = {} THEN 0 ELSE h[t \ {Max(t)}] + Size(s[Max(t)])]
<1>4. ASSUME NEW t \in SUBSET (1 .. n), t # {}
      PROVE  F[<<Max(t), g[t \ {Max(t)}]>>] = g[t \ {Max(t)}] + Size(s[Max(t)])
  <2>1. Max(t) \in 1 .. n /\ g[t \ {Max(t)}] \in Nat
    BY <1>1, <1>4, PlacesBelow
  <2> QED BY <1>2a, <2>1
<1>5. g = H(g)
  BY <1>3, <1>4 DEF FoldsOver, Folding
<1> DEFINE iter == CHOOSE h : h = H(h)
<1>6. iter = H(iter)
  BY <1>5
<1>7. Cost(s) = iter[1 .. n]
  BY <1>1 DEF Cost, FoldLeft, MapThenFoldSet
<1> DEFINE f == [k \in 0 .. n |-> iter[1 .. k]]
<1>8. \A k \in 0 .. n : 1 .. k \in SUBSET (1 .. n)
  BY <1>1
<1> HIDE DEF iter
<1>9. f[0] = 0
  <2>1. 1 .. 0 = {} /\ f[0] = iter[1 .. 0]
    BY <1>1
  <2>2. iter[{}] = 0
    <3>1. {} \in SUBSET (1 .. n) /\ H(iter)[{}] = 0
      OBVIOUS
    <3> QED BY <1>6, <3>1
  <2> QED BY <2>1, <2>2
<1>10. \A k \in 1 .. n : f[k] = f[k - 1] + Size(s[k])
  <2> TAKE k \in 1 .. n
  <2>0. k - 1 \in 0 .. n /\ k \in 0 .. n /\ k \in 1 .. k
    BY <1>1
  <2>1. k - 1 \in 0 .. n /\ k \in 0 .. n /\ 1 .. k # {}
    BY <2>0
  <2>2. iter[1 .. k] = iter[(1 .. k) \ {Max(1 .. k)}] + Size(s[Max(1 .. k)])
    BY <1>6, <1>8, <2>1
  <2>3. Max(1 .. k) = k /\ (1 .. k) \ {k} = 1 .. (k - 1)
    BY <1>1, LastPlace
  <2>4. iter[1 .. k] = iter[1 .. (k - 1)] + Size(s[k])
    BY <2>2, <2>3
  <2> QED BY <2>1, <2>4
<1>11. f \in [0 .. n -> Nat]
  <2> DEFINE Bad == {k \in 0 .. n : f[k] \notin Nat}
  <2> SUFFICES ASSUME Bad # {} PROVE FALSE
    OBVIOUS
  <2>0. Bad \in SUBSET Nat
    BY <1>1
  <2>1. PICK k \in Bad : \A j \in Bad : k <= j
    <3> HIDE DEF Bad
    <3> QED BY <2>0, LeastOfSet
  <2>2. k \in 1 .. n
    BY <1>1, <1>9, <2>1
  <2>3. k - 1 \in 0 .. n /\ f[k] = f[k - 1] + Size(s[k])
    BY <1>1, <1>10, <2>2
  <2> HIDE DEF f
  <2>4. f[k - 1] \in Nat
    BY <1>1, <2>1, <2>2, <2>3
  <2> QED BY <1>1, <2>1, <2>2, <2>3, <2>4
<1>12. Cost(s) = f[n]
  BY <1>1, <1>7
<1> QED BY <1>9, <1>10, <1>11, <1>12 DEF Sums, n

\* Lists that cost the same place by place have the same sums.
LEMMA SumsAgree ==
    ASSUME NEW s, NEW t, NEW n \in Nat, NEW m \in Nat, NEW f, NEW g,
           Sums(s, n, f), Sums(t, m, g), m <= n, \A k \in 1 .. m : Size(s[k]) = Size(t[k])
    PROVE  \A k \in 0 .. m : f[k] = g[k]
<1> DEFINE Bad == {k \in 0 .. m : f[k] # g[k]}
<1> SUFFICES ASSUME Bad # {} PROVE FALSE
  OBVIOUS
<1>0. Bad \in SUBSET Nat
  OBVIOUS
<1>1. PICK k \in Bad : \A j \in Bad : k <= j
  <2> HIDE DEF Bad
  <2> QED BY <1>0, LeastOfSet
<1>2. k \in 1 .. m /\ k \in 1 .. n
  BY <1>1 DEF Sums
<1>3. k - 1 \in 0 .. m /\ f[k - 1] = g[k - 1]
  BY <1>1, <1>2
<1>4. f[k] = f[k - 1] + Size(s[k]) /\ g[k] = g[k - 1] + Size(t[k])
  BY <1>2 DEF Sums
<1> QED BY <1>1, <1>2, <1>3, <1>4

\* The lists dealt with here are sequences of things with a price.
LEMMA PricedMembers ==
    ASSUME NEW S, NEW s \in Seq(S), \A x \in S : Size(x) \in Nat
    PROVE  Priced(s)
<1>1. s \in Seq(Range(s)) /\ Range(s) \subseteq S
  BY SeqOfRange, RangeOfSeq
<1> QED BY <1>1 DEF Priced

\* The empty list.
LEMMA NothingIsFree ==
    Priced(<< >>) /\ Cost(<< >>) = 0 /\ Len(<< >>) = 0
<1>1. << >> \in Seq({}) /\ Len(<< >>) = 0
  BY EmptySeq
<1>2. Priced(<< >>)
  <2>1. PICK S : S = {}
    OBVIOUS
  <2>2. << >> \in Seq(S) /\ \A x \in S : Size(x) \in Nat
    BY <1>1, <2>1
  <2> QED BY <2>2, PricedMembers
<1>3. PICK f : Sums(<< >>, Len(<< >>), f) /\ Cost(<< >>) = f[Len(<< >>)]
  BY <1>2, CostIsASum
<1> QED BY <1>1, <1>2, <1>3 DEF Sums

\* A list costs a natural number,
LEMMA CostIsNatural ==
    ASSUME NEW s, Priced(s)
    PROVE  Cost(s) \in Nat
<1>1. PICK f : Sums(s, Len(s), f) /\ Cost(s) = f[Len(s)]
  BY CostIsASum
<1>2. Len(s) \in 0 .. Len(s)
  BY PricedList
<1> QED BY <1>1, <1>2 DEF Sums

\* and one list after another costs what both cost.
LEMMA CostAdds ==
    ASSUME NEW s, NEW t, Priced(s), Priced(t)
    PROVE  Priced(s \o t) /\ Cost(s \o t) = Cost(s) + Cost(t)
<1> DEFINE S == Range(s) \cup Range(t)
           u == s \o t
           n == Len(s)
           m == Len(t)
<1>0. \A x \in S : Size(x) \in Nat
  BY DEF Priced
<1>1. s \in Seq(S) /\ t \in Seq(S)
  BY SeqMonotonic DEF Priced
<1>2. n \in Nat /\ m \in Nat
  BY PricedList
<1>3. /\ u \in Seq(S) /\ Len(u) = n + m
      /\ \A i \in 1 .. n + m : u[i] = IF i <= n THEN s[i] ELSE t[i - n]
  BY <1>1, ConcatProperties
<1>4. Priced(u)
  BY <1>0, <1>3, PricedMembers
<1>5. PICK f : Sums(s, n, f) /\ Cost(s) = f[n]
  BY CostIsASum
<1>6. PICK g : Sums(t, m, g) /\ Cost(t) = g[m]
  BY CostIsASum
<1>7. PICK h : Sums(u, n + m, h) /\ Cost(u) = h[n + m]
  BY <1>3, <1>4, CostIsASum
<1> HIDE DEF n, m, u, S
<1>8. \A k \in 0 .. n : h[k] = f[k]
  <2>1. n + m \in Nat /\ n <= n + m
    BY <1>2
  <2>2. \A k \in 1 .. n : Size(u[k]) = Size(s[k])
    <3> TAKE k \in 1 .. n
    <3>1. k \in 1 .. n + m /\ k <= n
      BY <1>2
    <3> QED BY <1>3, <3>1
  <2>3. PICK l : l = n + m
    OBVIOUS
  <2>4. l \in Nat /\ n <= l /\ Sums(u, l, h)
    BY <1>7, <2>1, <2>3
  <2>5. \A k \in 0 .. n : h[k] = f[k]
    BY <1>2, <1>5, <2>2, <2>4, SumsAgree
  <2> QED BY <2>5
<1>9. h[n] = Cost(s) /\ Cost(s) \in Nat
  <2>1. n \in 0 .. n
    BY <1>2
  <2> QED BY <1>5, <1>8, <2>1 DEF Sums
<1> DEFINE e == [k \in 0 .. m |-> h[n + k] - h[n]]
<1>10. \A k \in 1 .. m : /\ h[n + k] = h[n + (k - 1)] + Size(t[k])
                         /\ {h[n + k], h[n + (k - 1)]} \subseteq Nat /\ Size(t[k]) \in Nat
  <2> TAKE k \in 1 .. m
  <2>1. n + k \in 1 .. n + m /\ (n + k) - 1 = n + (k - 1) /\ (n + k) - n = k /\ ~(n + k <= n)
        /\ n + k \in 0 .. n + m /\ n + (k - 1) \in 0 .. n + m
    BY <1>2
  <2>2. u[n + k] = t[k]
    BY <1>3, <2>1
  <2>3. Size(t[k]) \in Nat
    BY PricedList DEF m
  <2>4. h[n + k] = h[(n + k) - 1] + Size(u[n + k])
    BY <1>7, <2>1 DEF Sums
  <2> QED BY <1>7, <2>1, <2>2, <2>3, <2>4 DEF Sums
<1>11. \A k \in 0 .. m : h[n + k] \in Nat
  BY <1>2, <1>7 DEF Sums
<1>12. \A k \in 1 .. m : e[k] = e[k - 1] + Size(t[k])
  <2> TAKE k \in 1 .. m
  <2>1. k \in 0 .. m /\ k - 1 \in 0 .. m
    BY <1>2
  <2>2. e[k] = h[n + k] - h[n] /\ e[k - 1] = h[n + (k - 1)] - h[n]
    BY <2>1
  <2>3. h[n] \in Nat
    BY <1>9
  <2> HIDE DEF e
  <2> QED BY <1>10, <2>2, <2>3
<1>13. e[0] = 0
  BY <1>2, <1>9
<1>14. \A k \in 0 .. m : g[k] = e[k]
  <2> DEFINE Bad == {k \in 0 .. m : g[k] # e[k]}
  <2> SUFFICES ASSUME Bad # {} PROVE FALSE
    OBVIOUS
  <2>0. Bad \in SUBSET Nat
    BY <1>2
  <2>1. PICK k \in Bad : \A j \in Bad : k <= j
    <3> HIDE DEF Bad
    <3> QED BY <2>0, LeastOfSet
  <2>2. k \in 1 .. m
    <3> HIDE DEF e
    <3> QED BY <1>2, <1>6, <1>13, <2>1 DEF Sums
  <2>3. k - 1 \in 0 .. m /\ k - 1 < k
    BY <1>2, <2>2
  <2> HIDE DEF e
  <2>4. g[k - 1] = e[k - 1]
    BY <2>0, <2>1, <2>3
  <2>5. g[k] = g[k - 1] + Size(t[k])
    BY <1>6, <2>2 DEF Sums
  <2> QED BY <1>12, <2>1, <2>2, <2>4, <2>5
<1>15. Cost(u) = h[n] + g[m]
  <2>1. m \in 0 .. m /\ h[n + m] \in Nat /\ h[n] \in Nat /\ g[m] = h[n + m] - h[n]
    BY <1>2, <1>9, <1>11, <1>14
  <2> HIDE DEF e
  <2> QED BY <1>7, <2>1
<1> QED BY <1>4, <1>6, <1>9, <1>15 DEF u

-----------------------------------------------------------------------------
(* Cutting a list: prefixes of a list, and the longest the budget has room  *)
(* for.                                                                     *)

\* A prefix of a list is a list.
LEMMA CutLists ==
    ASSUME NEW s, Priced(s), NEW n \in 0 .. Len(s), NEW t, t = SubSeq(s, 1, n)
    PROVE  /\ Priced(t) /\ Len(t) = n
           /\ \A i \in 1 .. n : t[i] = s[i]
           /\ Range(t) \subseteq Range(s)
<1> DEFINE S == Range(s)
<1>1. /\ Len(s) \in Nat /\ DOMAIN s = 1 .. Len(s)
      /\ \A k \in 1 .. Len(s) : s[k] \in S /\ Size(s[k]) \in Nat
  BY PricedList
<1>2. n \in Int /\ \A i \in 1 .. n : s[i] \in S
  BY <1>1
<1> HIDE DEF S
<1>3. /\ t \in Seq(S) /\ Len(t) = n
      /\ \A i \in 1 .. n : t[i] = s[i]
  <2>1. /\ t \in Seq(S) /\ Len(t) = IF 1 <= n THEN n - 1 + 1 ELSE 0
        /\ \A i \in 1 .. n - 1 + 1 : t[i] = s[1 + i - 1]
    BY <1>2, SubSeqProperties
  <2>2. n - 1 + 1 = n /\ (~(1 <= n) => n = 0) /\ \A i \in 1 .. n : 1 + i - 1 = i
    BY <1>1
  <2>3. \A i \in 1 .. n : t[i] = s[i]
    BY <2>1, <2>2
  <2> QED BY <2>1, <2>2, <2>3
<1>4. \A x \in S : Size(x) \in Nat
  BY DEF Priced, S
<1>5. Priced(t)
  BY <1>3, <1>4, PricedMembers
<1>6. Range(t) \subseteq S
  BY <1>3, RangeOfSeq
<1> QED BY <1>3, <1>5, <1>6 DEF S

\* What is kept is a prefix that costs no more than is left.
LEMMA FittingFits ==
    ASSUME NEW s, Priced(s), NEW left \in Nat
    PROVE  \E n \in 0 .. Len(s) : /\ Fitting(s, left) = SubSeq(s, 1, n)
                                  /\ Cost(SubSeq(s, 1, n)) <= left
<1> DEFINE N == {n \in 0 .. Len(s) : Cost(SubSeq(s, 1, n)) <= left}
<1>1. Len(s) \in Nat
  BY PricedList
<1>2. 0 \in N
  <2>1. 0 \in 0 .. Len(s)
    BY <1>1
  <2>3. SubSeq(s, 1, 0) = << >>
    BY SubSeqEmpty
  <2>4. Cost(SubSeq(s, 1, 0)) = 0
    BY <2>3, NothingIsFree
  <2> QED BY <2>1, <2>4
<1>3. N \in SUBSET (0 .. Len(s)) /\ N # {}
  BY <1>2
<1>4. Fitting(s, left) = SubSeq(s, 1, Max(N))
  BY DEF Fitting
<1> HIDE DEF N
<1>5. Max(N) \in N
  BY <1>1, <1>3, GreatestBelow
<1> QED BY <1>4, <1>5 DEF N

-----------------------------------------------------------------------------
(* The walks through a set of versions, and the orders its facts may come   *)
(* in: the definitions of the model, with the versions the statement reads  *)
(* given as a set V.                                                        *)

\* Edges, Steps, Walks and FactLists of the model, over the versions V.
EdgesIn(V, e) ==
    {<<x, x.c.to>> : x \in FirstById({y \in V : y.c.from = e}, Fanout)}
    \cup {<<x, x.c.from>> : x \in FirstById({y \in V : y.c.to = e}, Fanout)}
StepsIn(V, w) ==
    {[anchor |-> w.anchor, path |-> Append(w.path, s[2]), via |-> Append(w.via, s[1])] :
        s \in {t \in EdgesIn(V, Last(w.path)) : t[2] # None /\ t[2] \notin ToSet(w.path)}}
OneStep(V, anchors) == UNION {StepsIn(V, w) : w \in Seeds(anchors)}
WalksIn(V, q, anchors) ==
    OneStep(V, anchors)
    \cup IF q.hops < 2 THEN {} ELSE UNION {StepsIn(V, w) : w \in OneStep(V, anchors)}
Ahead(best, w) == {Found(v) : v \in {u \in best : Before(u, w)}}
ListsOver(best) ==
    {list \in [1 .. Cardinality({Found(w) : w \in best}) -> best] :
        \A i \in DOMAIN list : [w \in best |-> Cardinality(Ahead(best, w)) + 1][list[i]] = i}
ListsIn(V, q, anchors) == ListsOver(Shortest(WalksIn(V, q, anchors)))

\* The statement depends on the store by what it sees of it alone.
LEMMA ListsAreOfWhatIsSeen ==
    ASSUME NEW q, NEW known, NEW anchors
    PROVE  FactLists(q, known, anchors) = ListsIn(Visible(q, known), q, anchors)
<1>1. \A e : Edges(q, known, e) = EdgesIn(Visible(q, known), e)
  BY DEF Edges, EdgesIn
<1>2. \A w : Steps(q, known, w) = StepsIn(Visible(q, known), w)
  BY <1>1 DEF Steps, StepsIn
<1>3. Walks(q, known, anchors) = WalksIn(Visible(q, known), q, anchors)
  BY <1>2 DEF Walks, WalksIn, OneStep
<1> QED BY <1>3 DEF FactLists, ListsIn, ListsOver, Ahead

\* One version of each claim.
Versions(V) == IsFiniteSet(V) /\ (\A x \in V : x.c \in Claims) /\ \A x, y \in V : x.c = y.c => x = y

\* A walk from an anchor over versions of V, of one step or more.
Walked(V, anchors, w) ==
    /\ w = [anchor |-> w.anchor, path |-> w.path, via |-> w.via]
    /\ w.anchor \in anchors /\ w.via \in Seq(V) /\ w.via # << >>
    /\ w.path \in Seq(Entities) /\ Len(w.path) = Len(w.via) + 1

\* A step lengthens a walk by one version that is seen,
LEMMA StepsAreTaken ==
    ASSUME NEW V, Versions(V), NEW w, w.via \in Seq(V), w.path \in Seq(Entities),
           NEW v \in StepsIn(V, w)
    PROVE  /\ v = [anchor |-> v.anchor, path |-> v.path, via |-> v.via]
           /\ v.anchor = w.anchor /\ v.via \in Seq(V) /\ v.via # << >> /\ Len(v.via) = Len(w.via) + 1
           /\ v.path \in Seq(Entities) /\ Len(v.path) = Len(w.path) + 1
<1>1. PICK s \in EdgesIn(V, Last(w.path)) :
        /\ s[2] # None
        /\ v = [anchor |-> w.anchor, path |-> Append(w.path, s[2]), via |-> Append(w.via, s[1])]
  BY DEF StepsIn
<1>2. s[1] \in V /\ s[2] \in Entities
  <2> DEFINE e == Last(w.path)
  <2>1. PICK x \in V : s = <<x, x.c.to>> \/ s = <<x, x.c.from>>
    <3>1. ASSUME NEW x \in FirstById({y \in V : y.c.from = e}, Fanout) PROVE x \in V
      BY DEF FirstById
    <3>2. ASSUME NEW x \in FirstById({y \in V : y.c.to = e}, Fanout) PROVE x \in V
      BY DEF FirstById
    <3>3. \/ \E x \in FirstById({y \in V : y.c.from = e}, Fanout) : s = <<x, x.c.to>>
          \/ \E x \in FirstById({y \in V : y.c.to = e}, Fanout) : s = <<x, x.c.from>>
      BY DEF EdgesIn
    <3> QED BY <3>1, <3>2, <3>3
  <2>2. s[1] = x /\ s[2] \in {x.c.from, x.c.to}
    BY <2>1
  <2>3. x.c.from \in Entities /\ x.c.to \in Entities \cup {None}
    <3>1. x.c \in Claims
      BY DEF Versions
    <3> QED BY <3>1, RecallAssumption
  <2> QED BY <1>1, <2>2, <2>3
<1>3. /\ Append(w.via, s[1]) \in Seq(V) /\ Append(w.via, s[1]) # << >>
      /\ Len(Append(w.via, s[1])) = Len(w.via) + 1
  BY <1>2, AppendProperties
<1>4. /\ Append(w.path, s[2]) \in Seq(Entities)
      /\ Len(Append(w.path, s[2])) = Len(w.path) + 1
  BY <1>2, AppendProperties
<1> QED BY <1>1, <1>3, <1>4

\* so every walk is one from an anchor over what is seen,
LEMMA WalksAreWalked ==
    ASSUME NEW V, Versions(V), NEW q, NEW anchors \in SUBSET Entities,
           NEW w \in WalksIn(V, q, anchors)
    PROVE  Walked(V, anchors, w)
<1>1. ASSUME NEW v \in OneStep(V, anchors) PROVE Walked(V, anchors, v)
  <2>1. PICK e \in anchors : v \in StepsIn(V, [anchor |-> e, path |-> <<e>>, via |-> << >>])
    BY <1>1 DEF OneStep, Seeds
  <2>2. PICK s : s = [anchor |-> e, path |-> <<e>>, via |-> << >>]
    OBVIOUS
  <2>3. /\ s.via \in Seq(V) /\ Len(s.via) = 0 /\ s.anchor = e
        /\ s.path \in Seq(Entities) /\ Len(s.path) = 1
    BY <2>2
  <2>4. /\ v = [anchor |-> v.anchor, path |-> v.path, via |-> v.via]
        /\ v.anchor = e /\ v.via \in Seq(V) /\ v.via # << >> /\ Len(v.via) = 0 + 1
        /\ v.path \in Seq(Entities) /\ Len(v.path) = 1 + 1
    BY <2>1, <2>2, <2>3, StepsAreTaken
  <2> QED BY <2>4 DEF Walked
<1>2. CASE w \in OneStep(V, anchors)
  BY <1>1, <1>2
<1>3. CASE w \notin OneStep(V, anchors)
  <2>1. PICK v \in OneStep(V, anchors) : w \in StepsIn(V, v)
    BY <1>3 DEF WalksIn
  <2>2. Walked(V, anchors, v)
    BY <1>1
  <2>3. /\ v.via \in Seq(V) /\ v.path \in Seq(Entities) /\ Len(v.path) = Len(v.via) + 1
        /\ v.anchor \in anchors
    BY <2>2 DEF Walked
  <2> QED BY <2>1, <2>3, StepsAreTaken DEF Walked
<1> QED BY <1>2, <1>3

\* and what it leads to, and all it passes, is seen.
LEMMA FoundOnTheWay ==
    ASSUME NEW V, NEW anchors, NEW w, Walked(V, anchors, w)
    PROVE  Found(w) \in V /\ Hops(w) \in Nat \ {0} /\ Range(w.via) \subseteq V
<1>1. Len(w.via) \in Nat \ {0} /\ Range(w.via) \subseteq V
  BY EmptySeq, RangeOfSeq DEF Walked
<1>2. Found(w) \in V
  <2>1. Len(w.via) \in 1 .. Len(w.via)
    BY <1>1
  <2>2. w.via[Len(w.via)] \in V
    BY <2>1, ElementOfSeq DEF Walked
  <2> QED BY <2>2 DEF Found, Last
<1> QED BY <1>1, <1>2 DEF Hops

\* A walk is measured by its fact and by what is given of the way to it.
LEMMA WalksAreMeasured ==
    ASSUME NEW V, Versions(V), NEW anchors, NEW w, Walked(V, anchors, w)
    PROVE  Size(w) \in Nat
<1>1. "via" \in DOMAIN w
  <2>1. w = [anchor |-> w.anchor, path |-> w.path, via |-> w.via]
    BY DEF Walked
  <2>2. PICK a, p, v : w = [anchor |-> a, path |-> p, via |-> v]
    BY <2>1
  <2> QED BY <2>2
<1>2. ASSUME NEW x \in V PROVE x.c.size \in Nat /\ x.c.label \in Nat
  <2>1. x.c \in Claims
    BY DEF Versions
  <2>2. {x.c.label, x.c.size} \subseteq Nat
    BY <2>1, RecallAssumption
  <2> QED BY <2>2
<1>3. Found(w).c.size \in Nat
  BY <1>2, FoundOnTheWay
<1>4. Chain(w) \in Nat
  <2>1. CASE Hops(w) < 2
    BY <2>1 DEF Chain
  <2>2. CASE ~(Hops(w) < 2)
    <3>1. PICK n \in Nat : n = Len(w.via) /\ n >= 2
      BY <2>2, FoundOnTheWay DEF Hops
    <3>2. w.via[1] \in V /\ w.via[2] \in V
      <4>1. 1 \in 1 .. Len(w.via) /\ 2 \in 1 .. Len(w.via)
        BY <3>1
      <4> QED BY <4>1, ElementOfSeq DEF Walked
    <3>3. w.path[1] \in Entities /\ w.path[2] \in Entities /\ w.path[3] \in Entities
      <4>1. Len(w.path) = n + 1 /\ w.path \in Seq(Entities)
        BY <3>1 DEF Walked
      <4>2. 1 \in 1 .. Len(w.path) /\ 2 \in 1 .. Len(w.path) /\ 3 \in 1 .. Len(w.path)
        BY <3>1, <4>1
      <4> QED BY <4>1, <4>2, ElementOfSeq
    <3>4. w.path[1].size \in Nat /\ w.path[2].size \in Nat /\ w.path[3].size \in Nat
      BY <3>3, RecallAssumption
    <3>5. w.via[1].c.label \in Nat /\ w.via[2].c.label \in Nat
      BY <1>2, <3>2
    <3> QED BY <2>2, <3>4, <3>5 DEF Chain
  <2> QED BY <2>1, <2>2
<1> QED BY <1>1, <1>3, <1>4 DEF Size

-----------------------------------------------------------------------------
(* The order of an answer: a fact has one place in it, whichever of the     *)
(* shortest walks found it.                                                 *)

\* Walks whose facts can be put in order: walks to one fact are of one length.
Ranked(V, best) ==
    /\ \A w \in best : Found(w) \in V /\ Hops(w) \in Nat
    /\ \A u, v \in best : Found(u) = Found(v) => Hops(u) = Hops(v)

\* The order of the statement is strict and total between different facts.
LEMMA Ordering ==
    ASSUME NEW V, NEW best, Versions(V), Ranked(V, best), NEW u \in best, NEW v \in best
    PROVE  /\ Found(u) # Found(v) => Before(u, v) \/ Before(v, u)
           /\ Found(u) = Found(v) => ~Before(u, v)
           /\ \A w \in best : Before(w, u) /\ Before(u, v) => Before(w, v)
           /\ Found(u) = Found(v) => \A w \in best : Before(w, u) <=> Before(w, v)
<1>1. \A w \in best : /\ Found(w) \in V /\ Found(w).c \in Claims
                      /\ Found(w).c.id \in Int /\ Found(w).c.pred \in Int /\ Hops(w) \in Int
  <2> TAKE w \in best
  <2>1. Found(w) \in V /\ Hops(w) \in Nat
    BY DEF Ranked
  <2>2. Found(w).c \in Claims
    BY <2>1 DEF Versions
  <2>3. {Found(w).c.id, Found(w).c.pred} \subseteq Int
    BY <2>2, RecallAssumption
  <2> QED BY <2>1, <2>2, <2>3
<1>2. ASSUME Found(u) # Found(v) PROVE Found(u).c.id # Found(v).c.id
  <2>1. Found(u).c # Found(v).c
    BY <1>1, <1>2 DEF Versions
  <2> QED BY <1>1, <2>1, RecallAssumption
<1>3. Found(u) = Found(v) => Hops(u) = Hops(v)
  BY DEF Ranked
<1>4. Found(u) # Found(v) => Before(u, v) \/ Before(v, u)
  BY <1>1, <1>2 DEF Before
<1>5. Found(u) = Found(v) => ~Before(u, v)
  BY <1>1, <1>3 DEF Before
<1>6. \A w \in best : Before(w, u) /\ Before(u, v) => Before(w, v)
  BY <1>1 DEF Before
<1>7. Found(u) = Found(v) => \A w \in best : Before(w, u) <=> Before(w, v)
  BY <1>3 DEF Before
<1> QED BY <1>4, <1>5, <1>6, <1>7

\* The facts before a walk are finitely many,
LEMMA AheadIsFinite ==
    ASSUME NEW V, NEW best, Versions(V), Ranked(V, best), NEW u
    PROVE  IsFiniteSet(Ahead(best, u)) /\ Cardinality(Ahead(best, u)) \in Nat
<1>1. Ahead(best, u) \in SUBSET V
  BY DEF Ahead, Ranked
<1> QED BY <1>1, FS_Subset, FS_CardinalityType DEF Versions

\* more of them before a later walk,
LEMMA FurtherBack ==
    ASSUME NEW V, NEW best, Versions(V), Ranked(V, best), NEW u \in best, NEW v \in best,
           Before(u, v), Found(u) # Found(v)
    PROVE  Cardinality(Ahead(best, u)) < Cardinality(Ahead(best, v))
<1> DEFINE A == Ahead(best, u)
           B == Ahead(best, v)
<1>1. A \in SUBSET B
  <2> SUFFICES ASSUME NEW w \in best, Before(w, u) PROVE \E x \in best : Before(x, v) /\ Found(x) = Found(w)
    BY DEF Ahead
  <2>1. Before(w, v)
    BY Ordering
  <2> QED BY <2>1
<1>2. Found(u) \in B
  BY DEF Ahead
<1>3. Found(u) \notin A
  <2> SUFFICES ASSUME NEW w \in best, Before(w, u), Found(w) = Found(u) PROVE FALSE
    BY DEF Ahead
  <2> QED BY Ordering
<1>4. IsFiniteSet(A) /\ Cardinality(A) \in Nat /\ IsFiniteSet(B) /\ Cardinality(B) \in Nat
  BY AheadIsFinite
<1> HIDE DEF A, B
<1>5. Cardinality(A) <= Cardinality(B) /\ (Cardinality(B) = Cardinality(A) => B = A)
  BY <1>1, <1>4, FS_Subset
<1> QED BY <1>2, <1>3, <1>4, <1>5 DEF A, B

\* so walks have the same place when they lead to the same fact, and else not.
LEMMA OnePlaceEach ==
    ASSUME NEW V, NEW best, Versions(V), Ranked(V, best), NEW u \in best, NEW v \in best
    PROVE  Found(u) = Found(v) <=> Cardinality(Ahead(best, u)) = Cardinality(Ahead(best, v))
<1>1. ASSUME Found(u) = Found(v) PROVE Ahead(best, u) = Ahead(best, v)
  <2>1. \A w \in best : Before(w, u) <=> Before(w, v)
    BY <1>1, Ordering
  <2> QED BY <2>1 DEF Ahead
<1>2. ASSUME Found(u) # Found(v) PROVE Cardinality(Ahead(best, u)) # Cardinality(Ahead(best, v))
  <2>1. Cardinality(Ahead(best, u)) \in Nat /\ Cardinality(Ahead(best, v)) \in Nat
    BY AheadIsFinite
  <2>2. CASE Before(u, v)
    BY <1>2, <2>1, <2>2, FurtherBack
  <2>3. CASE Before(v, u)
    BY <1>2, <2>1, <2>3, FurtherBack
  <2> QED BY <1>2, <2>2, <2>3, Ordering
<1> QED BY <1>1, <1>2

\* The shortest walks are such walks.
LEMMA ShortestAreRanked ==
    ASSUME NEW V, Versions(V), NEW q, NEW anchors \in SUBSET Entities,
           NEW best, best = Shortest(WalksIn(V, q, anchors))
    PROVE  Ranked(V, best) /\ \A w \in best : Walked(V, anchors, w)
<1>1. \A w \in best : w \in WalksIn(V, q, anchors)
                      /\ \A v \in WalksIn(V, q, anchors) : Found(v) = Found(w) => Hops(w) <= Hops(v)
  BY DEF Shortest
<1>2. \A w \in best : Walked(V, anchors, w)
  BY <1>1, WalksAreWalked
<1>3. \A w \in best : Found(w) \in V /\ Hops(w) \in Nat
  BY <1>2, FoundOnTheWay
<1> QED BY <1>1, <1>2, <1>3 DEF Ranked

\* Every order a statement may give: a sequence of walks, no fact twice.
LEMMA ListsAreSequences ==
    ASSUME NEW V, NEW q, NEW anchors \in SUBSET Entities, Versions(V),
           NEW list \in ListsIn(V, q, anchors)
    PROVE  /\ Priced(list) /\ \A w \in Range(list) : Walked(V, anchors, w)
           /\ \A i, j \in DOMAIN list : Found(list[i]).c = Found(list[j]).c => i = j
<1>1. PICK best : best = Shortest(WalksIn(V, q, anchors))
  OBVIOUS
<1>2. Ranked(V, best) /\ \A w \in best : Walked(V, anchors, w)
  BY <1>1, ShortestAreRanked
<1>3. PICK facts : facts = {Found(w) : w \in best}
  OBVIOUS
<1>4. IsFiniteSet(facts) /\ Cardinality(facts) \in Nat
  <2>1. facts \in SUBSET V
    BY <1>2, <1>3 DEF Ranked
  <2> QED BY <2>1, FS_Subset, FS_CardinalityType DEF Versions
<1>5. /\ list \in [1 .. Cardinality(facts) -> best]
      /\ \A i \in DOMAIN list : Cardinality(Ahead(best, list[i])) + 1 = i
  BY <1>1, <1>3 DEF ListsIn, ListsOver
<1>6. \A w \in best : Size(w) \in Nat
  <2> TAKE w \in best
  <2>1. Walked(V, anchors, w)
    BY <1>2
  <2> QED BY <2>1, WalksAreMeasured
<1>7. list \in Seq(best)
  BY <1>4, <1>5, SeqDef
<1>8. Priced(list)
  BY <1>6, <1>7, PricedMembers
<1>9. \A w \in Range(list) : Walked(V, anchors, w)
  BY <1>2, <1>7, RangeOfSeq
<1>10. ASSUME NEW i \in DOMAIN list, NEW j \in DOMAIN list, Found(list[i]).c = Found(list[j]).c
       PROVE  i = j
  <2>1. list[i] \in best /\ list[j] \in best
    BY <1>5, <1>10
  <2>2. Found(list[i]) = Found(list[j])
    BY <1>2, <1>10, <2>1 DEF Versions, Ranked
  <2>3. Cardinality(Ahead(best, list[i])) = Cardinality(Ahead(best, list[j]))
    BY <1>2, <2>1, <2>2, OnePlaceEach
  <2> QED BY <1>5, <1>10, <2>3
<1> QED BY <1>8, <1>9, <1>10

\* Two answers the statement may give to one question name the same facts in the same order, as far
\* from the question.
LEMMA ListsAlike ==
    ASSUME NEW V, NEW q, NEW anchors \in SUBSET Entities, Versions(V),
           NEW l \in ListsIn(V, q, anchors), NEW m \in ListsIn(V, q, anchors)
    PROVE  /\ Len(l) = Len(m)
           /\ \A i \in 1 .. Len(l) : Found(l[i]) = Found(m[i]) /\ Hops(l[i]) = Hops(m[i])
<1>1. PICK best : best = Shortest(WalksIn(V, q, anchors))
  OBVIOUS
<1>2. Ranked(V, best) /\ \A w \in best : Walked(V, anchors, w)
  BY <1>1, ShortestAreRanked
<1>3. PICK n : n = Cardinality({Found(w) : w \in best})
  OBVIOUS
<1>4. /\ l \in [1 .. n -> best] /\ m \in [1 .. n -> best]
      /\ \A i \in 1 .. n : Cardinality(Ahead(best, l[i])) + 1 = i
      /\ \A i \in 1 .. n : Cardinality(Ahead(best, m[i])) + 1 = i
  BY <1>1, <1>3 DEF ListsIn, ListsOver
<1>5. Priced(l) /\ Priced(m)
  BY ListsAreSequences
<1>6. DOMAIN l = 1 .. Len(l) /\ DOMAIN m = 1 .. Len(m) /\ Len(l) \in Nat /\ Len(m) \in Nat
  BY <1>5, PricedList
<1>7. Len(l) = Len(m)
  BY <1>4, <1>6
<1>8. ASSUME NEW i \in 1 .. n
      PROVE  Found(l[i]) = Found(m[i]) /\ Hops(l[i]) = Hops(m[i])
  <2>1. l[i] \in best /\ m[i] \in best
    BY <1>4, <1>8
  <2>2. /\ Cardinality(Ahead(best, l[i])) \in Nat /\ Cardinality(Ahead(best, m[i])) \in Nat
    BY <1>2, AheadIsFinite
  <2>3. Cardinality(Ahead(best, l[i])) = Cardinality(Ahead(best, m[i]))
    BY <1>4, <1>8, <2>2
  <2>4. Found(l[i]) = Found(m[i])
    BY <1>2, <2>1, <2>3, OnePlaceEach
  <2> QED BY <1>2, <2>1, <2>4 DEF Ranked
<1> QED BY <1>4, <1>6, <1>7, <1>8

-----------------------------------------------------------------------------
(* What is near the anchors, and that a statement which follows every fact  *)
(* finds all of it: the definition of Near in the model, with the versions  *)
(* the statement reads given as a set V.                                    *)

Ends(x) == {x.c.from, x.c.to}
Joining(V) == {x \in V : x.c.to # None /\ x.c.to # x.c.from}
Touching(V, anchors) == {x \in Joining(V) : Ends(x) \cap anchors # {}}
Beside(V, anchors) == anchors \cup UNION {Ends(x) : x \in Touching(V, anchors)}
NearIn(V, q, anchors) == Touching(V, IF q.hops = 1 THEN anchors ELSE Beside(V, anchors))

\* No entity has more facts than are followed out of it.
Sparse(V) == \A e \in Entities : /\ Cardinality({x \in V : x.c.from = e}) <= Fanout
                                 /\ Cardinality({x \in V : x.c.to = e}) <= Fanout

\* A version leads from one entity to another; the walk that takes it.
Along(x, e, y) == (x.c.from = e /\ x.c.to = y) \/ (x.c.to = e /\ x.c.from = y)
Further(w, x, y) == [anchor |-> w.anchor, path |-> Append(w.path, y), via |-> Append(w.via, x)]
Seed(e) == [anchor |-> e, path |-> <<e>>, via |-> << >>]

\* What is near depends on the store by what is seen of it alone.
LEMMA NearIsOfWhatIsSeen ==
    ASSUME NEW q, NEW known, NEW anchors, NEW V, V = Visible(q, known), Versions(V)
    PROVE  /\ Near(q, known, anchors) = NearIn(V, q, anchors)
           /\ ~Crowded(q, known) => Sparse(V)
<1>1. Near(q, known, anchors) = NearIn(V, q, anchors)
  BY DEF Near, NearIn, Touching, Beside, Joining, Ends
<1>2. ASSUME ~Crowded(q, known), NEW e \in Entities
      PROVE  /\ Cardinality({x \in V : x.c.from = e}) <= Fanout
             /\ Cardinality({x \in V : x.c.to = e}) <= Fanout
  <2>1. PICK S, T : S = {x \in V : x.c.from = e} /\ T = {x \in V : x.c.to = e}
    OBVIOUS
  <2>2. S \in SUBSET V /\ T \in SUBSET V
    BY <2>1
  <2>3. Cardinality(S) \in Nat /\ Cardinality(T) \in Nat /\ Fanout \in Nat
    BY <2>2, FS_Subset, FS_CardinalityType, RecallAssumption DEF Versions
  <2>4. ~(Cardinality(S) > Fanout) /\ ~(Cardinality(T) > Fanout)
    BY <1>2, <2>1 DEF Crowded
  <2>5. Cardinality(S) <= Fanout /\ Cardinality(T) <= Fanout
    BY <2>3, <2>4
  <2> QED BY <2>1, <2>5
<1> QED BY <1>1, <1>2 DEF Sparse

\* The first so many of a set that has no more are all of it.
LEMMA AllOfFew ==
    ASSUME NEW V, Versions(V), NEW S \in SUBSET V, Cardinality(S) <= Fanout
    PROVE  FirstById(S, Fanout) = S
<1>1. SUFFICES ASSUME NEW x \in S
               PROVE  Cardinality({y \in S : y.c.id < x.c.id}) < Fanout
  BY DEF FirstById
<1>2. PICK T : T = {y \in S : y.c.id < x.c.id}
  OBVIOUS
<1>3. x.c.id \in Int
  <2>1. x.c \in Claims
    BY <1>1 DEF Versions
  <2> QED BY <2>1, RecallAssumption
<1>4. T \in SUBSET S /\ x \in S /\ x \notin T
  BY <1>1, <1>2, <1>3
<1>5. IsFiniteSet(S) /\ Cardinality(S) \in Nat
  BY FS_Subset, FS_CardinalityType DEF Versions
<1>6. IsFiniteSet(T) /\ Cardinality(T) <= Cardinality(S) /\ (Cardinality(S) = Cardinality(T) => S = T)
  BY <1>4, <1>5, FS_Subset
<1>7. Cardinality(T) \in Nat /\ Fanout \in Nat
  BY <1>6, FS_CardinalityType, RecallAssumption
<1>8. Cardinality(T) < Fanout
  BY <1>4, <1>5, <1>6, <1>7
<1> QED BY <1>2, <1>8

\* So a walk goes on along every version at its end, and along no other.
LEMMA StepsAlongVersions ==
    ASSUME NEW V, Versions(V), NEW w, NEW e, e = Last(w.path)
    PROVE  /\ \A v \in StepsIn(V, w) : \E x \in V, y \in Entities :
                 /\ Along(x, e, y) /\ y \notin ToSet(w.path) /\ v = Further(w, x, y)
           /\ Sparse(V) /\ e \in Entities =>
                \A x \in V, y \in Entities : Along(x, e, y) /\ y \notin ToSet(w.path)
                                   => Further(w, x, y) \in StepsIn(V, w)
<1>1. ASSUME NEW v \in StepsIn(V, w)
      PROVE  \E x \in V, y \in Entities :
                /\ Along(x, e, y) /\ y \notin ToSet(w.path) /\ v = Further(w, x, y)
  <2>1. PICK s \in EdgesIn(V, e) :
          /\ s[2] # None /\ s[2] \notin ToSet(w.path)
          /\ v = [anchor |-> w.anchor, path |-> Append(w.path, s[2]), via |-> Append(w.via, s[1])]
    BY <1>1 DEF StepsIn
  <2>2. \/ \E x \in FirstById({y \in V : y.c.from = e}, Fanout) : s = <<x, x.c.to>>
        \/ \E x \in FirstById({y \in V : y.c.to = e}, Fanout) : s = <<x, x.c.from>>
    BY <2>1 DEF EdgesIn
  <2>3. \E x \in V : \/ x.c.from = e /\ s = <<x, x.c.to>>
                     \/ x.c.to = e /\ s = <<x, x.c.from>>
    <3>1. ASSUME NEW x \in FirstById({y \in V : y.c.from = e}, Fanout) PROVE x \in V /\ x.c.from = e
      BY <3>1 DEF FirstById
    <3>2. ASSUME NEW x \in FirstById({y \in V : y.c.to = e}, Fanout) PROVE x \in V /\ x.c.to = e
      BY <3>2 DEF FirstById
    <3> QED BY <2>2, <3>1, <3>2
  <2>4. PICK x \in V : \/ x.c.from = e /\ s = <<x, x.c.to>>
                       \/ x.c.to = e /\ s = <<x, x.c.from>>
    BY <2>3
  <2>5. PICK y : s = <<x, y>> /\ Along(x, e, y) /\ y \in {x.c.from, x.c.to}
    BY <2>4 DEF Along
  <2>6. s[1] = x /\ s[2] = y
    BY <2>5
  <2>7. y # None /\ y \notin ToSet(w.path) /\ v = Further(w, x, y)
    BY <2>1, <2>6 DEF Further
  <2>8. y \in Entities
    <3>1. x.c \in Claims
      BY DEF Versions
    <3> QED BY <2>5, <2>7, <3>1, RecallAssumption
  <2> QED BY <2>5, <2>7, <2>8
<1>2. ASSUME Sparse(V), e \in Entities, NEW x \in V, NEW y \in Entities,
             Along(x, e, y), y \notin ToSet(w.path)
      PROVE  Further(w, x, y) \in StepsIn(V, w)
  <2>1. PICK S, T : S = {z \in V : z.c.from = e} /\ T = {z \in V : z.c.to = e}
    OBVIOUS
  <2>2. /\ S \in SUBSET V /\ Cardinality(S) <= Fanout
        /\ T \in SUBSET V /\ Cardinality(T) <= Fanout
    BY <1>2, <2>1 DEF Sparse
  <2>3. FirstById(S, Fanout) = S /\ FirstById(T, Fanout) = T
    BY <2>2, AllOfFew
  <2>4. EdgesIn(V, e) = {<<z, z.c.to>> : z \in S} \cup {<<z, z.c.from>> : z \in T}
    BY <2>1, <2>3 DEF EdgesIn
  <2>5. (x \in S /\ x.c.to = y) \/ (x \in T /\ x.c.from = y)
    BY <1>2, <2>1 DEF Along
  <2>6. PICK s : s = <<x, y>>
    OBVIOUS
  <2>7. s \in EdgesIn(V, e) /\ s[1] = x /\ s[2] = y
    BY <2>4, <2>5, <2>6
  <2>8. s \in {t \in EdgesIn(V, Last(w.path)) : t[2] # None /\ t[2] \notin ToSet(w.path)}
    BY <1>2, <2>7, RecallAssumption
  <2>9. Further(w, x, y)
          = [anchor |-> w.anchor, path |-> Append(w.path, s[2]), via |-> Append(w.via, s[1])]
    BY <2>7 DEF Further
  <2> QED BY <2>8, <2>9 DEF StepsIn
<1> QED BY <1>1, <1>2

\* What is appended comes last.
LEMMA AppendedLast ==
    ASSUME NEW S, NEW s \in Seq(S), NEW x \in S
    PROVE  /\ Append(s, x) \in Seq(S) /\ Last(Append(s, x)) = x
           /\ ToSet(Append(s, x)) = ToSet(s) \cup {x}
<1>0. PICK t : t = Append(s, x)
  OBVIOUS
<1>1. /\ t \in Seq(S) /\ t # << >> /\ Len(t) = Len(s) + 1 /\ t[Len(s) + 1] = x
      /\ \A i \in 1 .. Len(s) : t[i] = s[i]
  BY <1>0, AppendProperties
<1>2. /\ Len(s) \in Nat /\ DOMAIN s = 1 .. Len(s) /\ DOMAIN t = 1 .. Len(s) + 1
  BY <1>1, LenProperties
<1>3. ToSet(t) = ToSet(s) \cup {x}
  <2>1. \A i \in DOMAIN t : i \in DOMAIN s \/ i = Len(s) + 1
    BY <1>2
  <2>2. \A i \in DOMAIN s : i \in DOMAIN t /\ t[i] = s[i]
    BY <1>1, <1>2
  <2>3. Len(s) + 1 \in DOMAIN t
    BY <1>2
  <2> QED BY <1>1, <2>1, <2>2, <2>3 DEF ToSet
<1>4. Last(t) = x
  BY <1>1 DEF Last
<1> QED BY <1>0, <1>1, <1>3, <1>4

\* Where a walk of one step from an anchor is, and what it and one of two steps find.
LEMMA FirstSteps ==
    ASSUME NEW e, NEW w, w = Seed(e), NEW V, NEW x \in V, NEW y, NEW u, u = Further(w, x, y),
           NEW z \in V, NEW t, NEW v, v = Further(u, z, t)
    PROVE  /\ Last(w.path) = e /\ ToSet(w.path) = {e}
           /\ Last(u.path) = y /\ ToSet(u.path) = {e, y} /\ Found(u) = x /\ Found(v) = z
<1>1. w.path = <<e>> /\ w.via = << >>
  BY DEF Seed
<1>2. Last(w.path) = e /\ ToSet(w.path) = {e}
  BY <1>1 DEF Last, ToSet
<1>3. u.path = Append(w.path, y) /\ u.via = Append(w.via, x)
  BY DEF Further
<1>4. v.via = Append(u.via, z)
  BY DEF Further
<1>5. w.path \in Seq({e, y}) /\ w.via \in Seq(V)
  BY <1>1
<1>6. Last(u.path) = y /\ ToSet(u.path) = {e, y}
  <2>1. PICK S, p : S = {e, y} /\ p = w.path
    OBVIOUS
  <2>2. p \in Seq(S) /\ y \in S
    BY <1>5, <2>1
  <2>3. Last(Append(p, y)) = y /\ ToSet(Append(p, y)) = ToSet(p) \cup {y}
    BY <2>2, AppendedLast
  <2> QED BY <1>2, <1>3, <2>1, <2>3
<1>7. PICK a, b, c : a = w.via /\ b = u.via /\ c = v.via
  OBVIOUS
<1>8. a \in Seq(V) /\ b = Append(a, x) /\ c = Append(b, z)
  BY <1>3, <1>4, <1>5, <1>7
<1>9. b \in Seq(V) /\ Last(b) = x
  <2>1. a \in Seq(V)
    BY <1>8
  <2>2. Append(a, x) \in Seq(V) /\ Last(Append(a, x)) = x
    BY <2>1, AppendedLast
  <2> QED BY <1>8, <2>2
<1>10. Last(c) = z
  <2>1. b \in Seq(V)
    BY <1>9
  <2>2. Last(Append(b, z)) = z
    BY <2>1, AppendedLast
  <2> QED BY <1>8, <2>2
<1>11. Found(u) = x /\ Found(v) = z
  BY <1>7, <1>9, <1>10 DEF Found
<1> QED BY <1>2, <1>6, <1>11

\* A version that leads somewhere else joins two entities.
LEMMA AlongJoins ==
    ASSUME NEW V, Versions(V), NEW x \in V, NEW e \in Entities, NEW y \in Entities, Along(x, e, y), y # e
    PROVE  x \in Joining(V) /\ Ends(x) = {e, y}
<1>1. x.c.from \in Entities /\ x.c.to \in Entities \cup {None} /\ None \notin Entities
  <2>1. x.c \in Claims
    BY DEF Versions
  <2> QED BY <2>1, RecallAssumption
<1> QED BY <1>1 DEF Along, Joining, Ends

\* Its ends are entities, and from each it leads to the other.
LEMMA JoinsAlong ==
    ASSUME NEW V, Versions(V), NEW x \in Joining(V), NEW e \in Ends(x)
    PROVE  \E y \in Entities : Along(x, e, y) /\ y # e /\ e \in Entities /\ Ends(x) = {e, y}
<1>1. x \in V /\ x.c.to # None /\ x.c.to # x.c.from
  BY DEF Joining
<1>2. x.c.from \in Entities /\ x.c.to \in Entities \cup {None} /\ None \notin Entities
  <2>1. x.c \in Claims
    BY <1>1 DEF Versions
  <2> QED BY <2>1, RecallAssumption
<1>3. CASE e = x.c.from
  <2>1. Along(x, e, x.c.to) /\ Ends(x) = {e, x.c.to} /\ e \in Entities
    BY <1>2, <1>3 DEF Along, Ends
  <2> QED BY <1>1, <1>2, <1>3, <2>1
<1>4. CASE e = x.c.to
  <2>1. Along(x, e, x.c.from) /\ Ends(x) = {e, x.c.from} /\ e \in Entities
    BY <1>1, <1>2, <1>4 DEF Along, Ends
  <2>2. x.c.from # None /\ x.c.from # e
    BY <1>1, <1>2, <1>4
  <2> QED BY <1>2, <2>1, <2>2
<1> QED BY <1>3, <1>4 DEF Ends

\* The walks of one step are those along a version from an anchor to elsewhere,
LEMMA OneStepWalks ==
    ASSUME NEW V, Versions(V), NEW anchors \in SUBSET Entities
    PROVE  /\ \A u \in OneStep(V, anchors) : \E e \in anchors, x \in V, y \in Entities :
                 Along(x, e, y) /\ y # e /\ u = Further(Seed(e), x, y)
           /\ Sparse(V) =>
                \A e \in anchors, x \in V, y \in Entities :
                    Along(x, e, y) /\ y # e => Further(Seed(e), x, y) \in OneStep(V, anchors)
<1>1. ASSUME NEW e PROVE Last(Seed(e).path) = e /\ ToSet(Seed(e).path) = {e}
  BY DEF Seed, Last, ToSet
<1>2. OneStep(V, anchors) = UNION {StepsIn(V, Seed(e)) : e \in anchors}
  BY DEF OneStep, Seeds, Seed
<1>3. ASSUME NEW u \in OneStep(V, anchors)
      PROVE  \E e \in anchors, x \in V, y \in Entities :
                Along(x, e, y) /\ y # e /\ u = Further(Seed(e), x, y)
  <2>1. PICK e \in anchors : u \in StepsIn(V, Seed(e))
    BY <1>2, <1>3
  <2>2. PICK w : w = Seed(e)
    OBVIOUS
  <2>3. e = Last(w.path) /\ ToSet(w.path) = {e}
    BY <1>1, <2>2
  <2>4. PICK x \in V, y \in Entities : Along(x, e, y) /\ y \notin ToSet(w.path) /\ u = Further(w, x, y)
    BY <2>1, <2>2, <2>3, StepsAlongVersions
  <2> QED BY <2>2, <2>3, <2>4
<1>4. ASSUME Sparse(V), NEW e \in anchors, NEW x \in V, NEW y \in Entities, Along(x, e, y), y # e
      PROVE  Further(Seed(e), x, y) \in OneStep(V, anchors)
  <2>1. PICK w : w = Seed(e)
    OBVIOUS
  <2>2. e = Last(w.path) /\ y \notin ToSet(w.path) /\ e \in Entities
    BY <1>1, <1>4, <2>1
  <2>3. Further(w, x, y) \in StepsIn(V, w)
    BY <1>4, <2>2, StepsAlongVersions
  <2> QED BY <1>2, <2>1, <2>3
<1> QED BY <1>3, <1>4

\* and find what touches the anchors;
LEMMA OneStepFinds ==
    ASSUME NEW V, Versions(V), Sparse(V), NEW anchors \in SUBSET Entities
    PROVE  {Found(u) : u \in OneStep(V, anchors)} = Touching(V, anchors)
<1>1. ASSUME NEW u \in OneStep(V, anchors) PROVE Found(u) \in Touching(V, anchors)
  <2>1. PICK e \in anchors, x \in V, y \in Entities :
          Along(x, e, y) /\ y # e /\ u = Further(Seed(e), x, y)
    BY <1>1, OneStepWalks
  <2>2. Found(u) = x
    BY <2>1, FirstSteps
  <2>3. x \in Joining(V) /\ Ends(x) = {e, y}
    BY <2>1, AlongJoins
  <2> QED BY <2>2, <2>3 DEF Touching
<1>2. ASSUME NEW x \in Touching(V, anchors) PROVE \E u \in OneStep(V, anchors) : x = Found(u)
  <2>1. x \in Joining(V) /\ x \in V
    BY <1>2 DEF Touching, Joining
  <2>2. PICK e \in Ends(x) : e \in anchors
    BY <1>2 DEF Touching
  <2>3. PICK y \in Entities : Along(x, e, y) /\ y # e
    BY <2>1, <2>2, JoinsAlong
  <2>4. PICK u : u = Further(Seed(e), x, y)
    OBVIOUS
  <2>5. u \in OneStep(V, anchors)
    BY <2>1, <2>2, <2>3, <2>4, OneStepWalks
  <2>6. Found(u) = x
    BY <2>1, <2>4, FirstSteps
  <2> QED BY <2>5, <2>6
<1> QED BY <1>1, <1>2

\* those of one step or two find what touches the anchors or what is beside them.
LEMMA TwoStepsFind ==
    ASSUME NEW V, Versions(V), Sparse(V), NEW anchors \in SUBSET Entities, NEW two,
           two = UNION {StepsIn(V, u) : u \in OneStep(V, anchors)}
    PROVE  {Found(v) : v \in OneStep(V, anchors) \cup two} = Touching(V, Beside(V, anchors))
<1>1. Touching(V, anchors) \subseteq Touching(V, Beside(V, anchors))
  BY DEF Touching, Beside
<1>2. ASSUME NEW v \in two PROVE Found(v) \in Touching(V, Beside(V, anchors))
  <2>1. PICK u \in OneStep(V, anchors) : v \in StepsIn(V, u)
    BY <1>2
  <2>2. PICK e \in anchors, x \in V, y \in Entities :
          Along(x, e, y) /\ y # e /\ u = Further(Seed(e), x, y)
    BY <2>1, OneStepWalks
  <2>3. Last(u.path) = y /\ ToSet(u.path) = {e, y}
    BY <2>2, FirstSteps
  <2>4. PICK z \in V, t \in Entities : Along(z, y, t) /\ t \notin ToSet(u.path) /\ v = Further(u, z, t)
    BY <2>1, <2>3, StepsAlongVersions
  <2>5. Found(v) = z
    BY <2>2, <2>4, FirstSteps
  <2>6. x \in Joining(V) /\ Ends(x) = {e, y} /\ y \in Entities
    BY <2>2, AlongJoins
  <2>7. y \in Beside(V, anchors)
    BY <2>2, <2>6 DEF Beside, Touching
  <2>8. z \in Joining(V) /\ Ends(z) = {y, t}
    BY <2>3, <2>4, <2>6, AlongJoins
  <2> QED BY <2>5, <2>7, <2>8 DEF Touching
<1>3. ASSUME NEW z \in Touching(V, Beside(V, anchors)), z \notin Touching(V, anchors)
      PROVE  \E v \in two : z = Found(v)
  <2>1. z \in Joining(V) /\ z \in V /\ Ends(z) \cap anchors = {}
    BY <1>3 DEF Touching, Joining
  <2>2. PICK y \in Ends(z) : y \in Beside(V, anchors)
    BY <1>3 DEF Touching
  <2>3. y \notin anchors
    BY <2>1, <2>2
  <2>4. PICK x \in Touching(V, anchors) : y \in Ends(x)
    BY <2>2, <2>3 DEF Beside
  <2>5. x \in Joining(V) /\ x \in V
    BY <2>4 DEF Touching, Joining
  <2>6. PICK e \in Ends(x) : e \in anchors
    BY <2>4 DEF Touching
  <2>7. PICK o \in Entities : Along(x, e, o) /\ o # e /\ Ends(x) = {e, o}
    BY <2>5, <2>6, JoinsAlong
  <2>8. y = o
    BY <2>3, <2>4, <2>6, <2>7
  <2>9. PICK u : u = Further(Seed(e), x, y)
    OBVIOUS
  <2>10. u \in OneStep(V, anchors)
    BY <2>5, <2>6, <2>7, <2>8, <2>9, OneStepWalks
  <2>11. PICK t \in Entities : Along(z, y, t) /\ t # y /\ y \in Entities /\ Ends(z) = {y, t}
    BY <2>1, <2>2, JoinsAlong
  <2>12. t # e
    BY <2>1, <2>6, <2>11
  <2>13. PICK v : v = Further(u, z, t)
    OBVIOUS
  <2>14. Last(u.path) = y /\ ToSet(u.path) = {e, y} /\ Found(v) = z
    BY <2>1, <2>5, <2>9, <2>13, FirstSteps
  <2>15. v \in StepsIn(V, u)
    BY <2>1, <2>11, <2>12, <2>13, <2>14, StepsAlongVersions
  <2> QED BY <2>10, <2>14, <2>15
<1>4. {Found(u) : u \in OneStep(V, anchors)} = Touching(V, anchors)
  BY OneStepFinds
<1> QED BY <1>1, <1>2, <1>3, <1>4

\* So the walks through sparse versions find all that is near,
LEMMA WalksFindWhatIsNear ==
    ASSUME NEW V, Versions(V), Sparse(V), NEW anchors \in SUBSET Entities, NEW q \in Requests
    PROVE  {Found(w) : w \in WalksIn(V, q, anchors)} = NearIn(V, q, anchors)
<1>1. q.hops \in 1 .. 2
  BY RecallAssumption
<1>2. CASE q.hops = 1
  <2>1. WalksIn(V, q, anchors) = OneStep(V, anchors)
    BY <1>2 DEF WalksIn
  <2>2. NearIn(V, q, anchors) = Touching(V, anchors)
    BY <1>2 DEF NearIn
  <2> QED BY <2>1, <2>2, OneStepFinds
<1>3. CASE q.hops = 2
  <2>1. PICK two : two = UNION {StepsIn(V, u) : u \in OneStep(V, anchors)}
    OBVIOUS
  <2>2. WalksIn(V, q, anchors) = OneStep(V, anchors) \cup two
    BY <1>3, <2>1 DEF WalksIn
  <2>3. NearIn(V, q, anchors) = Touching(V, Beside(V, anchors))
    BY <1>3 DEF NearIn
  <2> QED BY <2>1, <2>2, <2>3, TwoStepsFind
<1> QED BY <1>1, <1>2, <1>3

\* to each fact there is a shortest of them,
LEMMA ShortestFindAll ==
    ASSUME NEW V, Versions(V), NEW q, NEW anchors \in SUBSET Entities
    PROVE  \A w \in WalksIn(V, q, anchors) :
              \E v \in Shortest(WalksIn(V, q, anchors)) : Found(v) = Found(w)
<1>1. PICK W : W = WalksIn(V, q, anchors)
  OBVIOUS
<1>2. ASSUME NEW w \in W PROVE \E v \in Shortest(W) : Found(v) = Found(w)
  <2>1. PICK N : N = {Hops(v) : v \in {u \in W : Found(u) = Found(w)}}
    OBVIOUS
  <2>2. \A v \in W : Hops(v) \in Nat
    <3> TAKE v \in W
    <3>1. Walked(V, anchors, v)
      BY <1>1, WalksAreWalked
    <3> QED BY <3>1, FoundOnTheWay
  <2>3. N \in SUBSET Nat /\ N # {}
    BY <1>2, <2>1, <2>2
  <2>4. PICK n \in N : \A m \in N : n <= m
    BY <2>3, LeastOfSet
  <2>5. PICK v \in W : Found(v) = Found(w) /\ Hops(v) = n
    BY <2>1, <2>4
  <2>6. \A u \in W : Found(u) = Found(v) => Hops(v) <= Hops(u)
    BY <2>1, <2>4, <2>5
  <2> QED BY <2>5, <2>6 DEF Shortest
<1> QED BY <1>1, <1>2

\* and an answer names every fact that was found.
LEMMA ListsNameAll ==
    ASSUME NEW V, NEW q, NEW anchors \in SUBSET Entities, Versions(V),
           NEW list \in ListsIn(V, q, anchors)
    PROVE  {Found(w) : w \in Range(list)} = {Found(w) : w \in WalksIn(V, q, anchors)}
<1>1. PICK best : best = Shortest(WalksIn(V, q, anchors))
  OBVIOUS
<1>2. Ranked(V, best)
  BY <1>1, ShortestAreRanked
<1>3. PICK facts : facts = {Found(w) : w \in best}
  OBVIOUS
<1>4. facts = {Found(w) : w \in WalksIn(V, q, anchors)}
  <2>1. \A w \in WalksIn(V, q, anchors) : \E v \in best : Found(v) = Found(w)
    BY <1>1, ShortestFindAll
  <2>2. best \subseteq WalksIn(V, q, anchors)
    BY <1>1 DEF Shortest
  <2> QED BY <1>3, <2>1, <2>2
<1>5. IsFiniteSet(facts) /\ Cardinality(facts) \in Nat
  <2>1. facts \in SUBSET V
    BY <1>2, <1>3 DEF Ranked
  <2> QED BY <2>1, FS_Subset, FS_CardinalityType DEF Versions
<1>6. PICK n \in Nat : n = Cardinality(facts)
  BY <1>5
<1>7. list \in [1 .. n -> best]
  BY <1>1, <1>3, <1>6 DEF ListsIn, ListsOver
<1>8. \A i, j \in 1 .. n : Found(list[i]).c = Found(list[j]).c => i = j
  BY <1>7, ListsAreSequences
<1>9. PICK f : f = [i \in 1 .. n |-> Found(list[i])]
  OBVIOUS
<1>10. f \in Injection(1 .. n, facts)
  <2>1. f \in [1 .. n -> facts]
    BY <1>3, <1>7, <1>9
  <2>2. \A i, j \in 1 .. n : f[i] = f[j] => i = j
    BY <1>8, <1>9
  <2> QED BY <2>1, <2>2 DEF Injection, IsInjective
<1>11. Cardinality(1 .. n) = n
  BY FS_Interval
<1>12. f \in Surjection(1 .. n, facts)
  BY <1>5, <1>6, <1>10, <1>11, FS_Injection
<1>13. facts = {Found(list[i]) : i \in 1 .. n}
  BY <1>9, <1>12 DEF Surjection
<1>14. {Found(w) : w \in Range(list)} = {Found(list[i]) : i \in 1 .. n}
  BY <1>7 DEF Range
<1> QED BY <1>4, <1>13, <1>14

-----------------------------------------------------------------------------
(* The store: what its transactions make of a fact's rows.                  *)

\* The instants, and the one after all of them.
LEMMA Bounds ==
    /\ MaxWrites \in Nat /\ Never = MaxWrites + 2 /\ Instants = 1 .. MaxWrites + 1 /\ None \notin Int
    /\ StoreInv => clock \in Instants /\ clock < Never /\ clock \in Nat
<1>1. MaxWrites \in Nat /\ None \notin Int
  BY RecallAssumption
<1> QED BY <1>1 DEF Never, Instants, StoreInv

\* What a supersession and a withdrawal write.
Amend(x, vt, kf, by) == [x EXCEPT !.vt = vt, !.kf = kf, !.by = by]
Archive(x, kt, by) == [x EXCEPT !.kt = kt, !.by = by]
Withdraw(x, kt) == [x EXCEPT !.kt = kt]

\* The fields of a row after each of them.
LEMMA Amended ==
    ASSUME NEW x, Shaped(x), NEW vt, NEW kf, NEW by, NEW y, y = Amend(x, vt, kf, by)
    PROVE  Shaped(y) /\ y.c = x.c /\ y.vf = x.vf /\ y.vt = vt /\ y.kf = kf /\ y.kt = x.kt
<1>1. PICK c, vf, v, f, kt, b : x = [c |-> c, vf |-> vf, vt |-> v, kf |-> f, kt |-> kt, by |-> b]
  BY DEF Shaped
<1>2. y = [c |-> c, vf |-> vf, vt |-> vt, kf |-> kf, kt |-> kt, by |-> by]
  BY <1>1 DEF Amend
<1> QED BY <1>1, <1>2 DEF Shaped

LEMMA Archived ==
    ASSUME NEW x, Shaped(x), NEW kt, NEW by, NEW y, y = Archive(x, kt, by)
    PROVE  Shaped(y) /\ y.c = x.c /\ y.vf = x.vf /\ y.vt = x.vt /\ y.kf = x.kf /\ y.kt = kt
<1>1. PICK c, vf, v, f, k, b : x = [c |-> c, vf |-> vf, vt |-> v, kf |-> f, kt |-> k, by |-> b]
  BY DEF Shaped
<1>2. y = [c |-> c, vf |-> vf, vt |-> v, kf |-> f, kt |-> kt, by |-> by]
  BY <1>1 DEF Archive
<1> QED BY <1>1, <1>2 DEF Shaped

LEMMA Withdrawn ==
    ASSUME NEW x, Shaped(x), NEW kt, NEW y, y = Withdraw(x, kt)
    PROVE  Shaped(y) /\ y.c = x.c /\ y.vf = x.vf /\ y.vt = x.vt /\ y.kf = x.kf /\ y.kt = kt
<1>1. PICK c, vf, v, f, k, b : x = [c |-> c, vf |-> vf, vt |-> v, kf |-> f, kt |-> k, by |-> b]
  BY DEF Shaped
<1>2. y = [c |-> c, vf |-> vf, vt |-> v, kf |-> f, kt |-> kt, by |-> b]
  BY <1>1 DEF Withdraw
<1> QED BY <1>1, <1>2 DEF Shaped

LEMMA Recorded ==
    ASSUME NEW c, NEW kf, NEW y,
           y = [c |-> c, vf |-> c.at, vt |-> Never, kf |-> kf, kt |-> Never, by |-> None]
    PROVE  Shaped(y) /\ y.c = c /\ y.vf = c.at /\ y.vt = Never /\ y.kf = kf /\ y.kt = Never
BY DEF Shaped

\* The store begins in order.
LEMMA StoreBegins == RInit => StoreInv
<1> SUFFICES ASSUME RInit PROVE StoreInv
  OBVIOUS
<1>1. clock \in 1 .. MaxWrites + 1 /\ clock = 1
  BY Bounds DEF RInit
<1>2. \A x \in rows : Shaped(x) /\ x.c \in Learned /\ x.kf = 1 /\ x.kt = Never
  <2> TAKE x \in rows
  <2>1. PICK c \in Learned :
          x = [c |-> c, vf |-> c.at, vt |-> Never, kf |-> 1, kt |-> Never, by |-> None]
    BY DEF RInit
  <2> QED BY <2>1, Recorded
<1>3. \A x \in rows \cup past : Shaped(x) /\ Dated(x)
  BY <1>1, <1>2, RecallAssumption DEF RInit, Dated
<1>4. \A x, y \in rows : x.c = y.c => x = y
  BY DEF RInit
<1> QED BY <1>1, <1>3, <1>4 DEF RInit, StoreInv

\* What an assertion that is not refused makes of the rows: those it ends are amended, and archived
\* as they were; it adds one.
LEMMA AssertedRows ==
    ASSUME StoreInv, CommitAssert, ~Refused(writer.c),
           NEW ended, ended = Superseded(writer.c)
    PROVE  /\ \A x \in ended : x \in rows /\ x.kt = Never
           /\ \A y \in rows' : y \notin rows \ ended =>
                /\ Shaped(y) /\ y.kf = clock /\ y.kt = Never
                /\ y.c = writer.c \/ \E x \in ended : y.c = x.c
           /\ \A y, z \in rows' : y \notin rows \ ended /\ z \notin rows \ ended /\ y.c = z.c => y = z
           /\ rows \ ended \subseteq rows'
           /\ \A x \in ended : \E y \in rows' : y.c = x.c /\ y.kf = clock
           /\ \A p \in past' : p \notin past =>
                /\ Shaped(p) /\ p.kt = clock
                /\ \E x \in ended : p.c = x.c /\ p.vf = x.vf /\ p.vt = x.vt /\ p.kf = x.kf
           /\ \A p, o \in past' : p \notin past /\ o \notin past /\ p.c = o.c => p = o
           /\ past \subseteq past'
           /\ \A x \in ended : \E p \in past' :
                p.kt = clock /\ p.c = x.c /\ p.vf = x.vf /\ p.vt = x.vt /\ p.kf = x.kf
<1>0. PICK c, at, by, now : c = writer.c /\ at = c.at /\ by = c.src /\ now = writer.at
  OBVIOUS
<1> DEFINE fresh == [c |-> c, vf |-> at, vt |-> Never, kf |-> now, kt |-> Never, by |-> None]
<1>1. /\ writer # None /\ now = clock
      /\ rows' = (rows \ ended) \cup {Amend(x, at, now, by) : x \in ended} \cup {fresh}
      /\ past' = past \cup {Archive(x, now, by) : x \in ended}
  <2>1. writer # None /\ writer.kind = "assert" /\ now = clock
    BY <1>0 DEF CommitAssert, StoreInv
  <2>2. /\ rows' = (rows \ Superseded(writer.c))
                   \cup {[x EXCEPT !.vt = writer.c.at, !.kf = writer.at, !.by = writer.c.src] :
                            x \in Superseded(writer.c)}
                   \cup {[c |-> writer.c, vf |-> writer.c.at, vt |-> Never, kf |-> writer.at,
                          kt |-> Never, by |-> None]}
        /\ past' = past \cup {[x EXCEPT !.kt = writer.at, !.by = writer.c.src] : x \in Superseded(writer.c)}
    BY DEF CommitAssert
  <2> QED BY <1>0, <2>1, <2>2 DEF Amend, Archive
<1>2. /\ \A x \in ended : x \in rows /\ x.kt = Never /\ Shaped(x)
      /\ \A x, y \in ended : x.c = y.c => x = y
      /\ \A x \in ended : x.c # c
  <2>1. /\ writer # None /\ writer.kind = "assert"
    BY DEF CommitAssert
  <2> QED BY <1>0, <2>1 DEF Superseded, StoreInv
<1>3. \A x \in ended : /\ Shaped(Amend(x, at, now, by)) /\ Amend(x, at, now, by).c = x.c
                       /\ Amend(x, at, now, by).kf = clock /\ Amend(x, at, now, by).kt = Never
  <2> TAKE x \in ended
  <2>1. PICK y : y = Amend(x, at, now, by)
    OBVIOUS
  <2>2. Shaped(x) /\ x.kt = Never
    BY <1>2
  <2>3. Shaped(y) /\ y.c = x.c /\ y.kf = now /\ y.kt = x.kt
    BY <2>1, <2>2, Amended
  <2> QED BY <1>1, <2>1, <2>2, <2>3
<1>4. \A x \in ended : /\ Shaped(Archive(x, now, by)) /\ Archive(x, now, by).kt = clock
                       /\ Archive(x, now, by).c = x.c /\ Archive(x, now, by).vf = x.vf
                       /\ Archive(x, now, by).vt = x.vt /\ Archive(x, now, by).kf = x.kf
  <2> TAKE x \in ended
  <2>1. PICK y : y = Archive(x, now, by)
    OBVIOUS
  <2>2. Shaped(x)
    BY <1>2
  <2>3. Shaped(y) /\ y.c = x.c /\ y.vf = x.vf /\ y.vt = x.vt /\ y.kf = x.kf /\ y.kt = now
    BY <2>1, <2>2, Archived
  <2> QED BY <1>1, <2>1, <2>3
<1>5. Shaped(fresh) /\ fresh.c = c /\ fresh.kf = clock /\ fresh.kt = Never
  BY <1>1 DEF Shaped
<1> HIDE DEF fresh
<1>6. \A y \in rows' : y \notin rows \ ended => y = fresh \/ \E x \in ended : y = Amend(x, at, now, by)
  BY <1>1
<1>7. \A y \in rows' : y \notin rows \ ended =>
        /\ Shaped(y) /\ y.kf = clock /\ y.kt = Never
        /\ y.c = c \/ \E x \in ended : y.c = x.c
  BY <1>3, <1>5, <1>6
<1>8. \A y, z \in rows' : y \notin rows \ ended /\ z \notin rows \ ended /\ y.c = z.c => y = z
  BY <1>2, <1>3, <1>5, <1>6
<1>9. rows \ ended \subseteq rows' /\ \A x \in ended : Amend(x, at, now, by) \in rows'
  BY <1>1
<1>10. \A p \in past' : p \notin past => \E x \in ended : p = Archive(x, now, by)
  BY <1>1
<1>11. \A p \in past' : p \notin past =>
         /\ Shaped(p) /\ p.kt = clock
         /\ \E x \in ended : p.c = x.c /\ p.vf = x.vf /\ p.vt = x.vt /\ p.kf = x.kf
  BY <1>4, <1>10
<1>12. \A p, o \in past' : p \notin past /\ o \notin past /\ p.c = o.c => p = o
  BY <1>2, <1>4, <1>10
<1>13. past \subseteq past' /\ \A x \in ended : Archive(x, now, by) \in past'
  BY <1>1
<1> QED BY <1>0, <1>2, <1>3, <1>4, <1>7, <1>8, <1>9, <1>11, <1>12, <1>13

\* A row says what was believed at k.
Believes(x, k) == x.kf <= k /\ k < x.kt

\* What is believed at an instant is what the rows and their history say of it.
LEMMA BelievedAt ==
    ASSUME NEW k \in Int
    PROVE  Believed(k) = {Version(x) : x \in {y \in rows \cup past : Believes(y, k)}}
BY Bounds DEF Believed, Believes

\* A version is its claim and when that is true.
LEMMA SameVersion ==
    ASSUME NEW x, NEW p, p.c = x.c, p.vf = x.vf, p.vt = x.vt
    PROVE  Version(p) = Version(x)
BY DEF Version

\* The dates of a row.
LEMMA StoreDates ==
    ASSUME StoreInv, NEW x \in rows \cup past
    PROVE  Shaped(x) /\ x.c \in Claims /\ x.kf \in Nat /\ x.kf <= clock /\ x.kt \in Nat
           /\ (x.kt = Never \/ x.kt <= clock) /\ 1 <= x.kf
BY Bounds DEF StoreInv, Dated

\* A claim recorded leaves the store in order,
LEMMA AssertKeepsStore ==
    ASSUME StoreInv, CommitAssert
    PROVE  StoreInv'
<1>1. CASE Refused(writer.c)
  <2>1. UNCHANGED <<alive, rows, past, clock>> /\ writer' = None
    BY <1>1 DEF CommitAssert
  <2> QED BY <2>1 DEF StoreInv, Dated
<1>2. CASE ~Refused(writer.c)
  <2>0. PICK ended : ended = Superseded(writer.c)
    OBVIOUS
  <2>1. /\ \A x \in ended : x \in rows /\ x.kt = Never
        /\ \A y \in rows' : y \notin rows \ ended =>
             /\ Shaped(y) /\ y.kf = clock /\ y.kt = Never
             /\ y.c = writer.c \/ \E x \in ended : y.c = x.c
        /\ \A y, z \in rows' : y \notin rows \ ended /\ z \notin rows \ ended /\ y.c = z.c => y = z
        /\ rows \ ended \subseteq rows'
        /\ \A x \in ended : \E y \in rows' : y.c = x.c /\ y.kf = clock
        /\ \A p \in past' : p \notin past =>
             /\ Shaped(p) /\ p.kt = clock
             /\ \E x \in ended : p.c = x.c /\ p.vf = x.vf /\ p.vt = x.vt /\ p.kf = x.kf
        /\ \A p, o \in past' : p \notin past /\ o \notin past /\ p.c = o.c => p = o
        /\ past \subseteq past'
    BY <1>2, <2>0, AssertedRows
  <2>2. /\ writer # None /\ writer' = None /\ clock' = clock /\ alive' = alive
        /\ writer.c \in Claims /\ \A x \in rows : x.c # writer.c
    BY DEF CommitAssert, StoreInv
  <2>3. \A x \in rows' \cup past' : Shaped(x) /\ x.c \in Claims /\ x.kf \in 1 .. clock
                                     /\ x.kt \in (1 .. clock) \cup {Never}
    <3> TAKE x \in rows' \cup past'
    <3>0. clock \in 1 .. clock
      BY Bounds DEF StoreInv
    <3>1. CASE x \in (rows \ ended) \cup past
      BY <3>1 DEF StoreInv, Dated
    <3>2. CASE x \in rows' /\ x \notin rows \ ended
      BY <2>1, <2>2, <3>0, <3>2 DEF StoreInv, Dated
    <3>3. CASE x \in past' /\ x \notin past
      <4>1. PICK y \in ended : x.c = y.c /\ x.kf = y.kf
        BY <2>1, <3>3
      <4>2. y.c \in Claims /\ y.kf \in 1 .. clock
        BY <2>1 DEF StoreInv, Dated
      <4> QED BY <2>1, <3>0, <3>3, <4>1, <4>2
    <3> QED BY <3>1, <3>2, <3>3
  <2>4. \A y, z \in rows' : y.c = z.c => y = z
    <3> TAKE y, z \in rows'
    <3> HAVE y.c = z.c
    <3>1. CASE y \in rows \ ended /\ z \in rows \ ended
      BY <3>1 DEF StoreInv
    <3>2. CASE y \notin rows \ ended /\ z \notin rows \ ended
      BY <2>1, <3>2
    <3>3. \A u \in rows \ ended : u.c # writer.c /\ \A x \in ended : u.c # x.c
      BY <2>1, <2>2 DEF StoreInv
    <3> QED BY <2>1, <3>1, <3>2, <3>3
  <2>5. \A p \in past' : p.kt # Never /\ \E x \in rows' : x.c = p.c /\ p.kt <= x.kf
    <3> TAKE p \in past'
    <3>0. clock \in Nat /\ clock < Never /\ Never \in Nat
      BY Bounds
    <3>1. CASE p \in past
      <4>1. p.kt # Never
        BY <3>1 DEF StoreInv
      <4>2. PICK x \in rows : x.c = p.c /\ p.kt <= x.kf
        BY <3>1 DEF StoreInv
      <4>3. CASE x \notin ended
        BY <2>1, <4>1, <4>2, <4>3
      <4>4. CASE x \in ended
        <5>1. PICK y \in rows' : y.c = x.c /\ y.kf = clock
          BY <2>1, <4>4
        <5>2. p.kt <= clock
          BY <3>1, <4>1, StoreDates
        <5> QED BY <4>1, <4>2, <5>1, <5>2
      <4> QED BY <4>3, <4>4
    <3>2. CASE p \notin past
      <4>1. p.kt = clock /\ \E x \in ended : p.c = x.c
        BY <2>1, <3>2
      <4> QED BY <2>1, <3>0, <4>1
    <3> QED BY <3>1, <3>2
  <2>6. \A p, o \in past' : p.c = o.c => p = o \/ p.kt <= o.kf \/ o.kt <= p.kf
    <3>1. ASSUME NEW p \in past, NEW o \in past', o \notin past, p.c = o.c PROVE p.kt <= o.kf
      <4>1. PICK x \in ended : o.c = x.c /\ o.kf = x.kf
        BY <2>1, <3>1
      <4>2. PICK y \in rows : y.c = p.c /\ p.kt <= y.kf
        BY DEF StoreInv
      <4>3. y = x
        BY <2>1, <3>1, <4>1, <4>2 DEF StoreInv
      <4> QED BY <4>1, <4>2, <4>3
    <3> TAKE p, o \in past'
    <3> HAVE p.c = o.c
    <3>2. CASE p \in past /\ o \in past
      BY <3>2 DEF StoreInv
    <3>3. CASE p \notin past /\ o \notin past
      BY <2>1, <3>3
    <3> QED BY <3>1, <3>2, <3>3
  <2> QED BY <2>2, <2>3, <2>4, <2>5, <2>6 DEF StoreInv, Dated
<1> QED BY <1>1, <1>2

\* What a withdrawal makes of the rows.
LEMMA RetractedRows ==
    ASSUME StoreInv, CommitRetract
    PROVE  /\ \A y \in rows' : \E x \in rows :
                /\ Shaped(y) /\ y.c = x.c /\ y.vf = x.vf /\ y.vt = x.vt /\ y.kf = x.kf
                /\ y.kt = x.kt \/ (y.kt = clock /\ x.kt = Never)
                /\ x.kt = y.kt => y = x
           /\ \A x \in rows : \E y \in rows' :
                /\ y.c = x.c /\ y.vf = x.vf /\ y.vt = x.vt /\ y.kf = x.kf
                /\ y.kt = x.kt \/ (y.kt = clock /\ x.kt = Never)
           /\ \A y, z \in rows' : y.c = z.c => y = z
<1>0. PICK now : now = writer.at
  OBVIOUS
<1> DEFINE live == Live(writer.c)
<1>1. now = clock /\ rows' = (rows \ live) \cup {Withdraw(x, now) : x \in live}
  <2>1. writer # None /\ rows' = (rows \ Live(writer.c)) \cup {[x EXCEPT !.kt = writer.at] : x \in Live(writer.c)}
    BY DEF CommitRetract
  <2> QED BY <1>0, <2>1 DEF Withdraw, StoreInv
<1>2. /\ \A x \in live : x \in rows /\ x.kt = Never /\ x.c = writer.c
      /\ \A x \in rows : Shaped(x)
      /\ \A x, y \in rows : x.c = y.c => x = y
  BY DEF Live, StoreInv
<1> HIDE DEF live
<1>3. \A x \in live : /\ Shaped(Withdraw(x, now)) /\ Withdraw(x, now).c = x.c
                      /\ Withdraw(x, now).vf = x.vf /\ Withdraw(x, now).vt = x.vt
                      /\ Withdraw(x, now).kf = x.kf /\ Withdraw(x, now).kt = now
  <2> TAKE x \in live
  <2>1. PICK y : y = Withdraw(x, now)
    OBVIOUS
  <2>2. Shaped(y) /\ y.c = x.c /\ y.vf = x.vf /\ y.vt = x.vt /\ y.kf = x.kf /\ y.kt = now
    BY <1>2, <2>1, Withdrawn
  <2> QED BY <2>1, <2>2
<1>4. \A y \in rows' : y \in rows \ live \/ \E x \in live : y = Withdraw(x, now)
  BY <1>1
<1>5. rows \ live \subseteq rows' /\ \A x \in live : Withdraw(x, now) \in rows'
  BY <1>1
<1>6. now < Never /\ now # Never
  BY <1>1, Bounds
<1>7. ASSUME NEW y \in rows'
      PROVE  \E x \in rows :
                /\ Shaped(y) /\ y.c = x.c /\ y.vf = x.vf /\ y.vt = x.vt /\ y.kf = x.kf
                /\ y.kt = x.kt \/ (y.kt = clock /\ x.kt = Never)
                /\ x.kt = y.kt => y = x
  <2>1. CASE y \in rows \ live
    <3>1. y \in rows /\ Shaped(y)
      BY <1>2, <2>1
    <3> QED BY <3>1
  <2>2. CASE y \notin rows \ live
    <3>1. PICK x \in live : y = Withdraw(x, now)
      BY <1>4, <1>7, <2>2
    <3> QED BY <1>1, <1>2, <1>3, <1>6, <3>1
  <2> QED BY <2>1, <2>2
<1>8. ASSUME NEW x \in rows
      PROVE  \E y \in rows' :
                /\ y.c = x.c /\ y.vf = x.vf /\ y.vt = x.vt /\ y.kf = x.kf
                /\ y.kt = x.kt \/ (y.kt = clock /\ x.kt = Never)
  <2>1. CASE x \notin live
    <3>1. x \in rows'
      BY <1>5, <1>8, <2>1
    <3> QED BY <3>1
  <2>2. CASE x \in live
    BY <1>1, <1>2, <1>3, <1>5, <2>2
  <2> QED BY <2>1, <2>2
<1>9. \A y, z \in rows' : y.c = z.c => y = z
  BY <1>2, <1>3, <1>4
<1> QED BY <1>7, <1>8, <1>9

\* a withdrawal,
LEMMA RetractKeepsStore ==
    ASSUME StoreInv, CommitRetract
    PROVE  StoreInv'
<1>1. /\ \A y \in rows' : \E x \in rows :
           /\ Shaped(y) /\ y.c = x.c /\ y.kf = x.kf
           /\ y.kt = x.kt \/ (y.kt = clock /\ x.kt = Never)
      /\ \A x \in rows : \E y \in rows' : y.c = x.c /\ y.kf = x.kf
      /\ \A y, z \in rows' : y.c = z.c => y = z
  BY RetractedRows
<1>2. writer' = None /\ UNCHANGED <<alive, past, clock>>
  BY DEF CommitRetract
<1>3. \A x \in rows' \cup past : Shaped(x) /\ x.c \in Claims /\ x.kf \in 1 .. clock
                                  /\ x.kt \in (1 .. clock) \cup {Never}
  <2>0. clock \in 1 .. clock
    BY Bounds DEF StoreInv
  <2> TAKE y \in rows' \cup past
  <2>1. CASE y \in past
    BY <2>1 DEF StoreInv, Dated
  <2>2. CASE y \in rows'
    <3>1. PICK x \in rows : /\ Shaped(y) /\ y.c = x.c /\ y.kf = x.kf
                            /\ y.kt = x.kt \/ (y.kt = clock /\ x.kt = Never)
      BY <1>1, <2>2
    <3> QED BY <2>0, <3>1 DEF StoreInv, Dated
  <2> QED BY <2>1, <2>2
<1>4. \A p \in past : p.kt # Never /\ \E y \in rows' : y.c = p.c /\ p.kt <= y.kf
  <2> TAKE p \in past
  <2>1. PICK x \in rows : x.c = p.c /\ p.kt <= x.kf
    BY DEF StoreInv
  <2> QED BY <1>1, <2>1 DEF StoreInv
<1> QED BY <1>1, <1>2, <1>3, <1>4 DEF StoreInv, Dated

\* the start of a write,
LEMMA StartKeepsStore ==
    ASSUME StoreInv, NEW kind, NEW c \in Claims, StartWrite(kind, c)
    PROVE  StoreInv'
<1>1. /\ clock <= MaxWrites /\ clock' = clock + 1
      /\ writer' = [kind |-> kind, c |-> c, at |-> clock + 1]
      /\ (kind = "assert" => \A x \in rows : x.c # c)
      /\ UNCHANGED <<alive, rows, past>>
  BY DEF StartWrite
<1>2. clock' \in 1 .. MaxWrites + 1 /\ \A k \in 1 .. clock : k \in 1 .. clock'
  BY <1>1, Bounds DEF StoreInv
<1>3. \A x \in rows \cup past : Shaped(x) /\ Dated(x)'
  BY <1>1, <1>2 DEF StoreInv, Dated
<1>4. writer'.c = c /\ writer'.at = clock' /\ writer'.kind = kind
  BY <1>1
<1>5. writer' # None => /\ writer'.c \in Claims /\ writer'.at = clock'
                        /\ (writer'.kind = "assert" => \A x \in rows : x.c # writer'.c)
  BY <1>1, <1>4
<1> QED BY <1>1, <1>2, <1>3, <1>5 DEF StoreInv, Dated

\* and an erasure.
LEMMA EraseKeepsStore ==
    ASSUME StoreInv, NEW s \in Sources, Erase(s)
    PROVE  StoreInv'
<1> DEFINE gone == {x.c : x \in {y \in rows : y.c.src = s \/ y.by = s}}
<1>1. /\ writer = None /\ UNCHANGED <<clock, writer>> /\ alive' = alive \ {s}
      /\ rows' = {x \in rows : x.c \notin gone} /\ past' = {x \in past : x.c \notin gone}
  BY DEF Erase
<1> HIDE DEF gone
<1>2. \A x \in rows' \cup past' : Shaped(x) /\ x.c \in Claims /\ x.kf \in 1 .. clock
                                  /\ x.kt \in (1 .. clock) \cup {Never}
  BY <1>1 DEF StoreInv, Dated
<1>3. \A x, y \in rows' : x.c = y.c => x = y
  BY <1>1 DEF StoreInv
<1>4. \A p \in past' : p.kt # Never /\ \E y \in rows' : y.c = p.c /\ p.kt <= y.kf
  <2> TAKE p \in past'
  <2>1. p \in past /\ p.c \notin gone
    BY <1>1
  <2>2. PICK x \in rows : x.c = p.c /\ p.kt <= x.kf
    BY <2>1 DEF StoreInv
  <2> QED BY <1>1, <2>1, <2>2 DEF StoreInv
<1>5. \A p, o \in past' : p.c = o.c => p = o \/ p.kt <= o.kf \/ o.kt <= p.kf
  BY <1>1 DEF StoreInv
<1> QED BY <1>1, <1>2, <1>3, <1>4, <1>5 DEF StoreInv, Dated

\* Every step leaves the store in order.
LEMMA StoreStep ==
    ASSUME StoreInv, [RNext]_vars
    PROVE  StoreInv'
<1>1. CASE UNCHANGED <<alive, rows, past, clock, writer>>
  BY <1>1 DEF StoreInv, Dated
<1>2. CASE Lapse
  BY <1>1, <1>2 DEF Lapse
<1>3. CASE UNCHANGED store
  BY <1>1, <1>3 DEF store
<1>4. CASE UNCHANGED vars
  BY <1>1, <1>4 DEF vars
<1>5. CASE \/ \E q \in Requests, known \in {None} \cup Instants, semantic \in BOOLEAN :
                Ask(q, known, semantic)
           \/ ReadAnchors \/ (\E found \in SUBSET Entities : Propose(found)) \/ ProposeFails
           \/ ReadFacts \/ ReadReports \/ ReportsFail \/ SkipPassages \/ ReadPassages
           \/ PassagesFail \/ Return
  <2>1. UNCHANGED store
    BY <1>5 DEF Ask, ReadAnchors, Propose, ProposeFails, ReadFacts, ReadReports, ReportsFail,
                SkipPassages, ReadPassages, PassagesFail, Return
  <2> QED BY <1>3, <2>1
<1> QED BY <1>2, <1>4, <1>5, AssertKeepsStore, RetractKeepsStore, StartKeepsStore, EraseKeepsStore
        DEF RNext

-----------------------------------------------------------------------------
(* What is believed: one version of a claim at a time, and of an earlier    *)
(* time always the same.                                                    *)

\* No claim is believed in two versions at once.
LEMMA OneVersionEach ==
    ASSUME StoreInv, NEW known \in {None} \cup Int, NEW q
    PROVE  Versions(Visible(q, known))
<1> DEFINE B == Believed(known)
<1>1. PICK Y : Y = IF known = None THEN {y \in rows : y.kt = Never}
                   ELSE {y \in rows \cup past : y.kf <= known /\ known < y.kt}
  OBVIOUS
<1>2. B = {Version(x) : x \in Y}
  BY <1>1 DEF Believed
<1>3. ASSUME NEW x \in Y, NEW y \in Y, x.c = y.c PROVE x = y
  <2>1. CASE known = None
    BY <1>1, <1>3, <2>1 DEF StoreInv
  <2>2. CASE known # None
    <3>1. /\ x \in rows \cup past /\ x.kf <= known /\ known < x.kt
          /\ y \in rows \cup past /\ y.kf <= known /\ known < y.kt /\ known \in Int
      BY <1>1, <1>3, <2>2
    <3>2. /\ x.kf \in Nat /\ x.kt \in Nat /\ y.kf \in Nat /\ y.kt \in Nat
      BY <3>1, StoreDates
    <3>3. ASSUME NEW p \in past, NEW r \in rows, p.c = r.c PROVE p.kt <= r.kf
      BY <3>3 DEF StoreInv
    <3>4. CASE x \in rows /\ y \in rows
      BY <1>3, <3>4 DEF StoreInv
    <3>5. CASE x \in past /\ y \in past
      BY <1>3, <3>1, <3>2, <3>5 DEF StoreInv
    <3> QED BY <1>3, <3>1, <3>2, <3>3, <3>4, <3>5
  <2> QED BY <2>1, <2>2
<1>4. \A v \in B : v.c \in Claims /\ \E x \in Y : v = Version(x) /\ v.c = x.c
  <2> TAKE v \in B
  <2>1. PICK x \in Y : v = Version(x)
    BY <1>2
  <2>2. x \in rows \cup past
    BY <1>1
  <2>3. x.c \in Claims
    BY <2>2, StoreDates
  <2> QED BY <2>1, <2>3 DEF Version
<1>5. \A v, w \in B : v.c = w.c => v = w
  BY <1>3, <1>4
<1> HIDE DEF B
<1>6. IsFiniteSet(B)
  <2> DEFINE f == [v \in B |-> v.c]
  <2>1. f \in Injection(B, Claims)
    BY <1>4, <1>5 DEF Injection, IsInjective
  <2> QED BY <2>1, FS_Injection, RecallAssumption
<1>7. Visible(q, known) \in SUBSET B
  BY DEF Visible, B
<1>8. IsFiniteSet(Visible(q, known))
  BY <1>6, <1>7, FS_Subset
<1> QED BY <1>4, <1>5, <1>7, <1>8 DEF Versions

\* The open rows say what is believed at this instant.
LEMMA ThePresent ==
    ASSUME StoreInv
    PROVE  Believed(None) = Believed(clock)
<1>1. clock \in Int /\ clock < Never /\ Never \in Int
  BY Bounds
<1>2. {y \in rows \cup past : Believes(y, clock)} = {y \in rows : y.kt = Never}
  <2>1. \A y \in rows \cup past : /\ y.kf \in Nat /\ y.kf <= clock /\ y.kt \in Nat
                                  /\ (y.kt = Never \/ y.kt <= clock)
    BY StoreDates
  <2>2. \A y \in past : y.kt # Never
    BY DEF StoreInv
  <2> QED BY <1>1, <2>1, <2>2 DEF Believes
<1>3. Believed(None) = {Version(x) : x \in {y \in rows : y.kt = Never}}
  BY DEF Believed
<1> QED BY <1>1, <1>2, <1>3, BelievedAt

\* A write that commits changes nothing of what was believed before it began.
LEMMA ThePastStands ==
    ASSUME StoreInv, CommitAssert \/ CommitRetract, NEW k \in Nat, k < clock
    PROVE  Believed(k)' = Believed(k)
<1>0. clock \in Nat /\ clock < Never /\ Never \in Nat
  BY Bounds
<1>1. /\ Believed(k) = {Version(x) : x \in {y \in rows \cup past : Believes(y, k)}}
      /\ Believed(k)' = {Version(x) : x \in {y \in rows' \cup past' : Believes(y, k)}}
  <2>1. k # None
    BY Bounds
  <2> QED BY <2>1 DEF Believed, Believes
<1>2. SUFFICES /\ \A x \in rows \cup past : Believes(x, k) =>
                    \E y \in rows' \cup past' : Believes(y, k) /\ Version(y) = Version(x)
               /\ \A y \in rows' \cup past' : Believes(y, k) =>
                    \E x \in rows \cup past : Believes(x, k) /\ Version(x) = Version(y)
  BY <1>1
<1>3. CASE CommitRetract
  <2>1. past' = past
    BY <1>3 DEF CommitRetract
  <2>2. /\ \A y \in rows' : \E x \in rows :
             /\ y.c = x.c /\ y.vf = x.vf /\ y.vt = x.vt /\ y.kf = x.kf
             /\ y.kt = x.kt \/ (y.kt = clock /\ x.kt = Never)
        /\ \A x \in rows : \E y \in rows' :
             /\ y.c = x.c /\ y.vf = x.vf /\ y.vt = x.vt /\ y.kf = x.kf
             /\ y.kt = x.kt \/ (y.kt = clock /\ x.kt = Never)
    BY <1>3, RetractedRows
  <2>3. ASSUME NEW x, NEW y, y.c = x.c, y.vf = x.vf, y.vt = x.vt, y.kf = x.kf,
               y.kt = x.kt \/ (y.kt = clock /\ x.kt = Never)
        PROVE  Version(y) = Version(x) /\ (Believes(x, k) <=> Believes(y, k))
    BY <1>0, <2>3 DEF Version, Believes
  <2> QED BY <2>1, <2>2, <2>3
<1>4. CASE CommitAssert /\ Refused(writer.c)
  <2>1. rows' = rows /\ past' = past
    BY <1>4 DEF CommitAssert
  <2> QED BY <2>1
<1>5. CASE CommitAssert /\ ~Refused(writer.c)
  <2>0. PICK ended : ended = Superseded(writer.c)
    OBVIOUS
  <2>1. /\ \A x \in ended : x \in rows /\ x.kt = Never
        /\ \A y \in rows' : y \notin rows \ ended => y.kf = clock
        /\ rows \ ended \subseteq rows'
        /\ \A p \in past' : p \notin past =>
             /\ p.kt = clock
             /\ \E x \in ended : p.c = x.c /\ p.vf = x.vf /\ p.vt = x.vt /\ p.kf = x.kf
        /\ past \subseteq past'
        /\ \A x \in ended : \E p \in past' :
             p.kt = clock /\ p.c = x.c /\ p.vf = x.vf /\ p.vt = x.vt /\ p.kf = x.kf
    BY <1>5, <2>0, AssertedRows
  <2>2. ASSUME NEW x, NEW y, y.c = x.c, y.vf = x.vf, y.vt = x.vt, y.kf = x.kf,
               y.kt = clock, x.kt = Never
        PROVE  Version(y) = Version(x) /\ (Believes(x, k) <=> Believes(y, k))
    BY <1>0, <2>2 DEF Version, Believes
  <2>3. ASSUME NEW x \in rows \cup past, Believes(x, k)
        PROVE  \E y \in rows' \cup past' : Believes(y, k) /\ Version(y) = Version(x)
    <3>1. CASE x \in ended
      <4>1. PICK p \in past' : p.kt = clock /\ p.c = x.c /\ p.vf = x.vf /\ p.vt = x.vt /\ p.kf = x.kf
        BY <2>1, <3>1
      <4> QED BY <2>1, <2>2, <2>3, <3>1, <4>1
    <3>2. CASE x \notin ended
      BY <2>1, <2>3, <3>2
    <3> QED BY <3>1, <3>2
  <2>4. ASSUME NEW y \in rows' \cup past', Believes(y, k)
        PROVE  \E x \in rows \cup past : Believes(x, k) /\ Version(x) = Version(y)
    <3>1. CASE y \in (rows \ ended) \cup past
      BY <2>4, <3>1
    <3>2. CASE y \in rows' /\ y \notin rows \ ended
      <4>1. y.kf = clock
        BY <2>1, <3>2
      <4> QED BY <1>0, <2>4, <4>1 DEF Believes
    <3>3. CASE y \in past' /\ y \notin past
      <4>1. PICK x \in ended : y.c = x.c /\ y.vf = x.vf /\ y.vt = x.vt /\ y.kf = x.kf
        BY <2>1, <3>3
      <4> QED BY <2>1, <2>2, <2>4, <3>3, <4>1
    <3> QED BY <3>1, <3>2, <3>3
  <2> QED BY <2>3, <2>4
<1> QED BY <1>3, <1>4, <1>5

\* So what a question sees of an earlier instant does not change when a write commits.
LEMMA WhatWasSeenStands ==
    ASSUME StoreInv, CommitAssert \/ CommitRetract, NEW k \in Nat, k < clock, NEW q
    PROVE  Visible(q, k)' = Visible(q, k)
<1>1. Believed(k)' = Believed(k)
  BY ThePastStands
<1>2. lapsed' = lapsed
  BY DEF CommitAssert, CommitRetract
<1>3. \A s : Retained(s)' <=> Retained(s)
  BY <1>2 DEF Retained
<1> QED BY <1>1, <1>3 DEF Visible

-----------------------------------------------------------------------------
(* The records: what an update of a bundle or of an answer leaves alone.    *)

\* Bundles that differ in what could not be consulted.
Alike(b, c) ==
    /\ Bundled(c) /\ c.truncated = b.truncated /\ c.anchors = b.anchors /\ c.meant = b.meant /\ c.facts = b.facts
    /\ c.reports = b.reports /\ c.passages = b.passages /\ c.spent = b.spent

\* The updates of the model, each as an operator of the record.
Degrade(b, d) == [b EXCEPT !.degraded = d]
Grounded(b, anchors, meant) == [b EXCEPT !.anchors = anchors, !.meant = meant]
WithReports(b, rs, n, t) == [b EXCEPT !.reports = rs, !.spent = n, !.truncated = t]
WithPassages(b, ps, n, t) == [b EXCEPT !.passages = ps, !.spent = n, !.truncated = t]
WithFacts(b, fs, n, t, anchors) ==
    [b EXCEPT !.facts = fs, !.spent = n, !.truncated = t, !.anchors = anchors]

\* Each update leaves every other field as it was.
LEMMA Degrading ==
    ASSUME NEW b, Bundled(b), NEW d, NEW c, c = Degrade(b, d)
    PROVE  Alike(b, c)
<1>1. PICK v1, v2, v3, v4, v5, v6, v7, v8 :
        b = [anchors |-> v1, meant |-> v2, facts |-> v3, reports |-> v4,
             passages |-> v5, truncated |-> v6, degraded |-> v7, spent |-> v8]
  BY DEF Bundled
<1>2. c = [anchors |-> v1, meant |-> v2, facts |-> v3, reports |-> v4,
           passages |-> v5, truncated |-> v6, degraded |-> d, spent |-> v8]
  BY <1>1 DEF Degrade
<1> QED BY <1>1, <1>2 DEF Alike, Bundled

LEMMA Grounding ==
    ASSUME NEW b, Bundled(b), NEW anchors, NEW meant, NEW c, c = Grounded(b, anchors, meant)
    PROVE  /\ Bundled(c) /\ c.anchors = anchors /\ c.meant = meant /\ c.facts = b.facts
           /\ c.reports = b.reports /\ c.passages = b.passages /\ c.spent = b.spent
           /\ c.truncated = b.truncated
<1>1. PICK v1, v2, v3, v4, v5, v6, v7, v8 :
        b = [anchors |-> v1, meant |-> v2, facts |-> v3, reports |-> v4,
             passages |-> v5, truncated |-> v6, degraded |-> v7, spent |-> v8]
  BY DEF Bundled
<1>2. c = [anchors |-> anchors, meant |-> meant, facts |-> v3, reports |-> v4,
           passages |-> v5, truncated |-> v6, degraded |-> v7, spent |-> v8]
  BY <1>1 DEF Grounded
<1> QED BY <1>1, <1>2 DEF Bundled

LEMMA Reporting ==
    ASSUME NEW b, Bundled(b), NEW rs, NEW n, NEW t, NEW c, c = WithReports(b, rs, n, t)
    PROVE  /\ Bundled(c) /\ c.anchors = b.anchors /\ c.meant = b.meant /\ c.facts = b.facts
           /\ c.reports = rs /\ c.passages = b.passages /\ c.spent = n /\ c.truncated = t
<1>1. PICK v1, v2, v3, v4, v5, v6, v7, v8 :
        b = [anchors |-> v1, meant |-> v2, facts |-> v3, reports |-> v4,
             passages |-> v5, truncated |-> v6, degraded |-> v7, spent |-> v8]
  BY DEF Bundled
<1>2. c = [anchors |-> v1, meant |-> v2, facts |-> v3, reports |-> rs,
           passages |-> v5, truncated |-> t, degraded |-> v7, spent |-> n]
  BY <1>1 DEF WithReports
<1> QED BY <1>1, <1>2 DEF Bundled

LEMMA Quoting ==
    ASSUME NEW b, Bundled(b), NEW ps, NEW n, NEW t, NEW c, c = WithPassages(b, ps, n, t)
    PROVE  /\ Bundled(c) /\ c.anchors = b.anchors /\ c.meant = b.meant /\ c.facts = b.facts
           /\ c.reports = b.reports /\ c.passages = ps /\ c.spent = n /\ c.truncated = t
<1>1. PICK v1, v2, v3, v4, v5, v6, v7, v8 :
        b = [anchors |-> v1, meant |-> v2, facts |-> v3, reports |-> v4,
             passages |-> v5, truncated |-> v6, degraded |-> v7, spent |-> v8]
  BY DEF Bundled
<1>2. c = [anchors |-> v1, meant |-> v2, facts |-> v3, reports |-> v4,
           passages |-> ps, truncated |-> t, degraded |-> v7, spent |-> n]
  BY <1>1 DEF WithPassages
<1> QED BY <1>1, <1>2 DEF Bundled

LEMMA Gathering ==
    ASSUME NEW b, Bundled(b), NEW fs, NEW n, NEW t, NEW anchors, NEW c,
           c = WithFacts(b, fs, n, t, anchors)
    PROVE  /\ Bundled(c) /\ c.anchors = anchors /\ c.meant = b.meant /\ c.facts = fs
           /\ c.reports = b.reports /\ c.passages = b.passages /\ c.spent = n
           /\ c.truncated = t
<1>1. PICK v1, v2, v3, v4, v5, v6, v7, v8 :
        b = [anchors |-> v1, meant |-> v2, facts |-> v3, reports |-> v4,
             passages |-> v5, truncated |-> v6, degraded |-> v7, spent |-> v8]
  BY DEF Bundled
<1>2. c = [anchors |-> anchors, meant |-> v2, facts |-> fs, reports |-> v4,
           passages |-> v5, truncated |-> t, degraded |-> v7, spent |-> n]
  BY <1>1 DEF WithFacts
<1> QED BY <1>1, <1>2 DEF Bundled

\* The bundle a question begins with.
LEMMA EmptyBundle ==
    /\ Bundled(Empty) /\ Empty.anchors = {} /\ Empty.meant = {}
    /\ Empty.facts = << >> /\ Empty.reports = << >> /\ Empty.passages = << >> /\ Empty.spent = 0
    /\ ~Empty.truncated
BY DEF Empty, Bundled

\* What Under asks of a bundle does not depend on what could not be consulted.
LEMMA AlikeBundles ==
    ASSUME NEW b, NEW c, Alike(b, c), NEW q
    PROVE  /\ Inside(q, b) => Inside(q, c)
           /\ Fits(q, b) => Fits(q, c)
           /\ Cited(q, b) => Cited(q, c)
           /\ Unspent(b) => Unspent(c)
<1>1. Inside(q, b) => Inside(q, c)
  BY DEF Alike, Inside
<1>2. Fits(q, b) => Fits(q, c)
  BY DEF Alike, Fits
<1>3. Cited(q, b) => Cited(q, c)
  BY DEF Alike, Cited
<1>4. Unspent(b) => Unspent(c)
  BY DEF Alike, Unspent
<1> QED BY <1>1, <1>2, <1>3, <1>4

\* The updates of an answer, each as an operator of the record.
Advance(a, at, b, left) == [a EXCEPT !.at = at, !.bundle = b, !.left = left]
Conclude(a, at, b, unmatched, left) ==
    [a EXCEPT !.at = at, !.bundle = b, !.unmatched = unmatched, !.left = left]
Root(a, at, b, unmatched) == [a EXCEPT !.at = at, !.bundle = b, !.unmatched = unmatched]
Gather(a, at, b, left, asked, from) ==
    [a EXCEPT !.at = at, !.bundle = b, !.left = left, !.asked = asked, !.from = from]

\* The same question, about the same moment.
Passes(a, c) == Entire(c) /\ c.q = a.q /\ c.known = a.known

\* Each update leaves every other field as it was.
LEMMA Advancing ==
    ASSUME NEW a, Entire(a), NEW at, NEW b, NEW left, NEW c, c = Advance(a, at, b, left)
    PROVE  Passes(a, c) /\ c.at = at /\ c.bundle = b /\ c.left = left /\ c.from = a.from
<1>1. PICK v1, v2, v3, v4, v5, v6, v7, v8, v9 :
        a = [at |-> v1, q |-> v2, known |-> v3, semantic |-> v4, asked |-> v5,
             unmatched |-> v6, left |-> v7, from |-> v8, bundle |-> v9]
  BY DEF Entire
<1>2. c = [at |-> at, q |-> v2, known |-> v3, semantic |-> v4, asked |-> v5,
           unmatched |-> v6, left |-> left, from |-> v8, bundle |-> b]
  BY <1>1 DEF Advance
<1> QED BY <1>1, <1>2 DEF Entire, Passes

LEMMA Concluding ==
    ASSUME NEW a, Entire(a), NEW at, NEW b, NEW unmatched, NEW left, NEW c,
           c = Conclude(a, at, b, unmatched, left)
    PROVE  Passes(a, c) /\ c.at = at /\ c.bundle = b /\ c.left = left /\ c.from = a.from
<1>1. PICK v1, v2, v3, v4, v5, v6, v7, v8, v9 :
        a = [at |-> v1, q |-> v2, known |-> v3, semantic |-> v4, asked |-> v5,
             unmatched |-> v6, left |-> v7, from |-> v8, bundle |-> v9]
  BY DEF Entire
<1>2. c = [at |-> at, q |-> v2, known |-> v3, semantic |-> v4, asked |-> v5,
           unmatched |-> unmatched, left |-> left, from |-> v8, bundle |-> b]
  BY <1>1 DEF Conclude
<1> QED BY <1>1, <1>2 DEF Entire, Passes

LEMMA Rooting ==
    ASSUME NEW a, Entire(a), NEW at, NEW b, NEW unmatched, NEW c, c = Root(a, at, b, unmatched)
    PROVE  Passes(a, c) /\ c.at = at /\ c.bundle = b /\ c.left = a.left /\ c.from = a.from
<1>1. PICK v1, v2, v3, v4, v5, v6, v7, v8, v9 :
        a = [at |-> v1, q |-> v2, known |-> v3, semantic |-> v4, asked |-> v5,
             unmatched |-> v6, left |-> v7, from |-> v8, bundle |-> v9]
  BY DEF Entire
<1>2. c = [at |-> at, q |-> v2, known |-> v3, semantic |-> v4, asked |-> v5,
           unmatched |-> unmatched, left |-> v7, from |-> v8, bundle |-> b]
  BY <1>1 DEF Root
<1> QED BY <1>1, <1>2 DEF Entire, Passes

LEMMA Collecting ==
    ASSUME NEW a, Entire(a), NEW at, NEW b, NEW left, NEW asked, NEW from, NEW c,
           c = Gather(a, at, b, left, asked, from)
    PROVE  Passes(a, c) /\ c.at = at /\ c.bundle = b /\ c.left = left /\ c.from = from
<1>1. PICK v1, v2, v3, v4, v5, v6, v7, v8, v9 :
        a = [at |-> v1, q |-> v2, known |-> v3, semantic |-> v4, asked |-> v5,
             unmatched |-> v6, left |-> v7, from |-> v8, bundle |-> v9]
  BY DEF Entire
<1>2. c = [at |-> at, q |-> v2, known |-> v3, semantic |-> v4, asked |-> asked,
           unmatched |-> v6, left |-> left, from |-> from, bundle |-> b]
  BY <1>1 DEF Gather
<1> QED BY <1>1, <1>2 DEF Entire, Passes

-----------------------------------------------------------------------------
(* What a surface hands the bundle.                                         *)

\* The smaller of two naturals.
LEMMA Least ==
    ASSUME NEW a \in Nat, NEW b \in Nat
    PROVE  Min({a, b}) \in Nat /\ Min({a, b}) <= a
<1>1. \E x \in {a, b} : \A y \in {a, b} : x =< y
  <2>1. CASE a <= b
    BY <2>1
  <2>2. CASE b <= a
    BY <2>2
  <2> QED BY <2>1, <2>2
<1>2. Min({a, b}) \in {a, b} /\ \A y \in {a, b} : Min({a, b}) =< y
  BY <1>1 DEF Min
<1> QED BY <1>2

\* The facts of an answer: each once, all within the budget, none of anybody else.
LEMMA KeptFacts ==
    ASSUME NEW q \in Requests, NEW V, Versions(V), NEW anchors \in SUBSET Entities,
           NEW list \in ListsIn(V, q, anchors), NEW kept, kept = Kept(q, list)
    PROVE  /\ Priced(kept) /\ Cost(kept) \in Nat /\ Cost(kept) <= q.budget
           /\ \A w \in Range(kept) : Walked(V, anchors, w)
           /\ \A i, j \in DOMAIN kept : Found(kept[i]).c = Found(kept[j]).c => i = j
           /\ ~(Len(kept) < Len(list)) => Range(kept) = Range(list)
<1>1. /\ Priced(list) /\ \A w \in Range(list) : Walked(V, anchors, w)
      /\ \A i, j \in DOMAIN list : Found(list[i]).c = Found(list[j]).c => i = j
  BY ListsAreSequences
<1>2. Len(list) \in Nat /\ DOMAIN list = 1 .. Len(list)
  BY <1>1, PricedList
<1>3. PICK n : n = Min({Len(list), MaxRows})
  OBVIOUS
<1>4. n \in 0 .. Len(list)
  <2>1. MaxRows \in Nat
    BY RecallAssumption
  <2>2. PICK l \in Nat : l = Len(list)
    BY <1>2
  <2>3. n \in Nat /\ n <= l
    BY <1>3, <2>1, <2>2, Least
  <2> QED BY <2>2, <2>3
<1>5. PICK limited : limited = SubSeq(list, 1, n)
  OBVIOUS
<1>6. /\ Priced(limited) /\ Len(limited) = n /\ \A i \in 1 .. n : limited[i] = list[i]
      /\ Range(limited) \subseteq Range(list)
  <2>1. Priced(list)
    BY <1>1
  <2> QED BY <1>4, <1>5, <2>1, CutLists
<1>7. q.budget \in Nat /\ kept = Fitting(limited, q.budget)
  BY <1>3, <1>5, RecallAssumption DEF Kept
<1>8. PICK m \in 0 .. Len(limited) : kept = SubSeq(limited, 1, m) /\ Cost(SubSeq(limited, 1, m)) <= q.budget
  BY <1>6, <1>7, FittingFits
<1>9. /\ Priced(kept) /\ Len(kept) = m /\ \A i \in 1 .. m : kept[i] = limited[i]
      /\ Range(kept) \subseteq Range(limited)
  BY <1>6, <1>8, CutLists
<1>10. Cost(kept) \in Nat /\ Cost(kept) <= q.budget
  BY <1>8, <1>9, CostIsNatural
<1>11. DOMAIN kept = 1 .. m /\ \A i \in 1 .. m : i \in DOMAIN list /\ kept[i] = list[i]
  <2>1. DOMAIN kept = 1 .. m
    BY <1>9, PricedList
  <2>2. \A i \in 1 .. m : i \in 1 .. n /\ i \in 1 .. Len(list)
    BY <1>2, <1>4, <1>6
  <2> QED BY <1>2, <1>6, <1>9, <2>1, <2>2
<1>12. ASSUME ~(Len(kept) < Len(list)) PROVE Range(kept) = Range(list)
  <2>1. PICK l \in Nat : l = Len(list)
    BY <1>2
  <2>2. DOMAIN kept = DOMAIN list
    <3>1. m = l
      BY <1>4, <1>6, <1>8, <1>9, <1>12, <2>1
    <3> QED BY <1>2, <1>11, <2>1, <3>1
  <2>3. \A i \in DOMAIN list : kept[i] = list[i]
    BY <1>11, <2>2
  <2> QED BY <2>2, <2>3 DEF Range
<1> QED BY <1>1, <1>6, <1>9, <1>10, <1>11, <1>12

\* The first part of a list of functions is the first part of any that begins alike.
LEMMA EarlierAccount ==
    ASSUME NEW f, NEW g, NEW S, f \in Seq(S), g \in Seq(S), Len(f) < Len(g),
           \A k \in 1 .. Len(f) : f[k] = g[k]
    PROVE  IsStrictPrefix(f, g)
<1>1. PICK n \in Nat : n = Len(f)
  BY LenProperties
<1>2. Len(g) \in Nat
  BY LenProperties
<1>3. n \in Int /\ (\A k \in 1 .. n : f[k] \in S) /\ (\A k \in 1 .. n : g[k] \in S)
  BY <1>1, ElementOfSeq
<1>4. PICK a, b : a = SubSeq(f, 1, n) /\ b = SubSeq(g, 1, n)
  OBVIOUS
<1>5. /\ a \in Seq(S) /\ Len(a) = IF 1 <= n THEN n - 1 + 1 ELSE 0
      /\ \A k \in 1 .. n - 1 + 1 : a[k] = f[1 + k - 1]
  BY <1>3, <1>4, SubSeqProperties
<1>6. /\ b \in Seq(S) /\ Len(b) = IF 1 <= n THEN n - 1 + 1 ELSE 0
      /\ \A k \in 1 .. n - 1 + 1 : b[k] = g[1 + k - 1]
  BY <1>3, <1>4, SubSeqProperties
<1>7. n - 1 + 1 = n /\ (~(1 <= n) => n = 0) /\ \A k \in 1 .. n : 1 + k - 1 = k
  OBVIOUS
<1>8. Len(a) = n /\ Len(b) = n /\ \A k \in 1 .. n : a[k] = f[k] /\ b[k] = g[k]
  BY <1>5, <1>6, <1>7
<1>9. \A k \in 1 .. Len(a) : a[k] = b[k]
  BY <1>1, <1>8
<1>10. a = b
  BY <1>5, <1>6, <1>8, <1>9, SeqEqual
<1> QED BY <1>1, <1>2, <1>4, <1>10 DEF IsStrictPrefix, IsPrefix

\* Lists of facts found alike, each of them all that was found or cut short: neither account says
\* otherwise.
LEMMA PartsAgree ==
    ASSUME NEW x, NEW y, Priced(x), Priced(y), NEW all \in Nat, Len(x) <= all, Len(y) <= all,
           \A k \in 1 .. Len(x) : k <= Len(y) => Found(x[k]) = Found(y[k]) /\ Hops(x[k]) = Hops(y[k])
    PROVE  Agree(Account(x), Len(x) < all, Account(y), Len(y) < all)
<1>1. PICK p, r : p = Len(x) /\ r = Len(y)
  OBVIOUS
<1>2. p \in Nat /\ r \in Nat /\ DOMAIN x = 1 .. p /\ DOMAIN y = 1 .. r
  BY <1>1, PricedList
<1>3. PICK f, g : f = Account(x) /\ g = Account(y)
  OBVIOUS
<1>4. /\ f = [k \in 1 .. p |-> <<Found(x[k]).c, Found(x[k]).vf, Found(x[k]).vt, Hops(x[k])>>]
      /\ g = [k \in 1 .. r |-> <<Found(y[k]).c, Found(y[k]).vf, Found(y[k]).vt, Hops(y[k])>>]
  BY <1>2, <1>3 DEF Account
<1>5. PICK S : S = {f[k] : k \in 1 .. p} \cup {g[k] : k \in 1 .. r}
  OBVIOUS
<1>6. f \in [1 .. p -> S] /\ g \in [1 .. r -> S]
  BY <1>4, <1>5
<1>7. f \in Seq(S) /\ g \in Seq(S)
  BY <1>2, <1>6, SeqDef
<1>8. Len(f) = p /\ Len(g) = r
  <2>1. Len(f) \in Nat /\ Len(g) \in Nat /\ 1 .. Len(f) = 1 .. p /\ 1 .. Len(g) = 1 .. r
    BY <1>6, <1>7, LenProperties
  <2> QED BY <1>2, <2>1
<1>9. \A k \in 1 .. p : k <= r => f[k] = g[k]
  <2> SUFFICES ASSUME NEW k \in 1 .. p, k <= r PROVE f[k] = g[k]
    OBVIOUS
  <2>1. k \in 1 .. r /\ Found(x[k]) = Found(y[k]) /\ Hops(x[k]) = Hops(y[k])
    BY <1>1, <1>2
  <2> QED BY <1>4, <2>1
<1>10. CASE p = r
  <2>1. Len(f) = Len(g) /\ \A k \in 1 .. Len(f) : f[k] = g[k]
    BY <1>2, <1>8, <1>9, <1>10
  <2>2. f = g
    BY <1>7, <2>1, SeqEqual
  <2> QED BY <1>3, <2>2 DEF Agree
<1>11. CASE p < r
  <2>1. IsStrictPrefix(f, g)
    BY <1>2, <1>7, <1>8, <1>9, <1>11, EarlierAccount
  <2>2. Len(x) < all
    BY <1>1, <1>2, <1>11
  <2> QED BY <1>3, <2>1, <2>2 DEF Agree
<1>12. CASE r < p
  <2>1. \A k \in 1 .. r : g[k] = f[k]
    BY <1>2, <1>9, <1>12
  <2>2. IsStrictPrefix(g, f)
    BY <1>2, <1>7, <1>8, <1>12, <2>1, EarlierAccount
  <2>3. Len(y) < all
    BY <1>1, <1>2, <1>12
  <2> QED BY <1>3, <2>2, <2>3 DEF Agree
<1> QED BY <1>2, <1>10, <1>11, <1>12

\* What is kept of a list is the first part of it.
LEMMA KeptIsAPart ==
    ASSUME NEW q \in Requests, NEW list, Priced(list), NEW kept, kept = Kept(q, list)
    PROVE  Priced(kept) /\ Len(kept) <= Len(list) /\ \A i \in 1 .. Len(kept) : kept[i] = list[i]
<1>1. PICK l \in Nat : l = Len(list)
  BY PricedList
<1>2. PICK n : n = Min({l, MaxRows})
  OBVIOUS
<1>3. n \in Nat /\ n <= l
  BY <1>2, Least, RecallAssumption
<1>4. PICK limited : limited = SubSeq(list, 1, n)
  OBVIOUS
<1>5. Priced(limited) /\ Len(limited) = n /\ \A i \in 1 .. n : limited[i] = list[i]
  <2>1. n \in 0 .. Len(list)
    BY <1>1, <1>3
  <2> QED BY <1>4, <2>1, CutLists
<1>6. q.budget \in Nat /\ kept = Fitting(limited, q.budget)
  BY <1>1, <1>2, <1>4, RecallAssumption DEF Kept
<1>7. PICK m \in 0 .. Len(limited) : kept = SubSeq(limited, 1, m)
  BY <1>5, <1>6, FittingFits
<1>8. Priced(kept) /\ Len(kept) = m /\ \A i \in 1 .. m : kept[i] = limited[i]
  BY <1>5, <1>7, CutLists
<1>9. m \in Nat /\ m <= n
  BY <1>3, <1>5, <1>7
<1>10. \A i \in 1 .. m : kept[i] = list[i]
  <2> TAKE i \in 1 .. m
  <2>1. i \in 1 .. n
    BY <1>3, <1>9
  <2> QED BY <1>5, <1>8, <2>1
<1> QED BY <1>1, <1>3, <1>8, <1>9, <1>10

\* Two runs of the statement over what was seen then give accounts that agree: the walks they keep
\* may cost differently, so one may stop before the other.
LEMMA SameAccount ==
    ASSUME NEW q \in Requests, NEW V, Versions(V), NEW anchors \in SUBSET Entities,
           NEW l \in ListsIn(V, q, anchors), NEW m \in ListsIn(V, q, anchors)
    PROVE  Agree(Account(Kept(q, l)), Shortened(q, l), Account(Kept(q, m)), Shortened(q, m))
<1>1. Priced(l) /\ Priced(m)
  BY ListsAreSequences
<1>2. PICK all \in Nat : all = Len(l)
  BY <1>1, PricedList
<1>3. /\ Len(m) = all
      /\ \A i \in 1 .. all : Found(l[i]) = Found(m[i]) /\ Hops(l[i]) = Hops(m[i])
  BY <1>2, ListsAlike
<1>4. PICK x, y : x = Kept(q, l) /\ y = Kept(q, m)
  OBVIOUS
<1>5. Priced(x) /\ Len(x) <= all /\ \A i \in 1 .. Len(x) : x[i] = l[i]
  BY <1>1, <1>2, <1>4, KeptIsAPart
<1>6. Priced(y) /\ Len(y) <= all /\ \A i \in 1 .. Len(y) : y[i] = m[i]
  BY <1>1, <1>3, <1>4, KeptIsAPart
<1>7. Len(x) \in Nat /\ Len(y) \in Nat
  BY <1>5, <1>6, PricedList
<1>8. \A k \in 1 .. Len(x) : k <= Len(y) => Found(x[k]) = Found(y[k]) /\ Hops(x[k]) = Hops(y[k])
  <2> SUFFICES ASSUME NEW k \in 1 .. Len(x), k <= Len(y)
               PROVE  Found(x[k]) = Found(y[k]) /\ Hops(x[k]) = Hops(y[k])
    OBVIOUS
  <2>1. k \in 1 .. Len(y) /\ k \in 1 .. all
    BY <1>5, <1>7
  <2> QED BY <1>3, <1>5, <1>6, <2>1
<1>9. Agree(Account(x), Len(x) < all, Account(y), Len(y) < all)
  BY <1>5, <1>6, <1>8, PartsAgree
<1> QED BY <1>2, <1>3, <1>4, <1>9 DEF Shortened

\* Hits of the next project go after those of earlier ones: still none twice, and what is charged is
\* what is added.
Elsewhere(items, scope) == \A x \in Range(items) : x.scope # scope
\* All of one project.
OfScope(items, scope) == \A x \in Range(items) : x.scope = scope

\* One list of hits after another.
Joined(old, hits, left, kept, new) ==
    /\ Priced(new) /\ IsInjective(new) /\ Range(new) \subseteq Range(old) \cup Range(hits)
    /\ Cost(new) = Cost(old) + Cost(kept)
    /\ Cost(kept) \in Nat /\ Cost(kept) <= left /\ Cost(old) \in Nat

\* Hits of another project are put after those there are: none twice, and the sum is right.
LEMMA HitsAppended ==
    ASSUME NEW old, NEW hits, Priced(old), Priced(hits), IsInjective(old), IsInjective(hits),
           NEW scope, Elsewhere(old, scope), OfScope(hits, scope),
           NEW left \in Nat, NEW kept, kept = Fitting(hits, left), NEW new, new = old \o kept
    PROVE  Joined(old, hits, left, kept, new)
<1>1. PICK n \in 0 .. Len(hits) : kept = SubSeq(hits, 1, n) /\ Cost(SubSeq(hits, 1, n)) <= left
  BY FittingFits
<1>2. /\ Priced(kept) /\ Len(kept) = n /\ \A i \in 1 .. n : kept[i] = hits[i]
      /\ Range(kept) \subseteq Range(hits)
  BY <1>1, CutLists
<1>3. Cost(kept) \in Nat /\ Cost(kept) <= left /\ Cost(old) \in Nat
  BY <1>1, <1>2, CostIsNatural
<1>4. Priced(new) /\ Cost(new) = Cost(old) + Cost(kept)
  BY <1>2, CostAdds
<1>5. PICK S : S = Range(old) \cup Range(kept)
  OBVIOUS
<1>6. old \in Seq(S) /\ kept \in Seq(S)
  <2>1. old \in Seq(Range(old)) /\ kept \in Seq(Range(kept))
    BY <1>2 DEF Priced
  <2>2. Range(old) \subseteq S /\ Range(kept) \subseteq S
    BY <1>5
  <2> QED BY <2>1, <2>2, SeqMonotonic
<1>7. PICK m : m = Len(old)
  OBVIOUS
<1>8. /\ m \in Nat /\ n \in Nat /\ DOMAIN old = 1 .. m /\ DOMAIN kept = 1 .. n
      /\ DOMAIN hits = 1 .. Len(hits) /\ Len(hits) \in Nat
  BY <1>1, <1>2, <1>7, PricedList
<1>9. /\ new \in Seq(S) /\ Len(new) = m + n
      /\ \A i \in 1 .. m + n : new[i] = IF i <= m THEN old[i] ELSE kept[i - m]
  BY <1>2, <1>6, <1>7, ConcatProperties
<1>10. DOMAIN new = 1 .. m + n /\ Range(new) \subseteq S
  BY <1>9, LenProperties, RangeOfSeq
<1>11. \A i \in 1 .. m + n : /\ i <= m => i \in 1 .. m /\ new[i] = old[i] /\ old[i] \in Range(old)
                             /\ i > m => i - m \in 1 .. Len(hits) /\ new[i] = hits[i - m]
                                         /\ hits[i - m] \in Range(hits)
  <2> TAKE i \in 1 .. m + n
  <2>1. CASE i <= m
    <3>1. i \in 1 .. m /\ ~(i > m)
      BY <1>8, <2>1
    <3> QED BY <1>8, <1>9, <2>1, <3>1 DEF Range
  <2>2. CASE ~(i <= m)
    <3>1. i - m \in 1 .. n /\ i - m \in 1 .. Len(hits)
      BY <1>1, <1>8, <2>2
    <3>2. new[i] = hits[i - m]
      BY <1>2, <1>9, <2>2, <3>1
    <3> QED BY <1>8, <2>2, <3>1, <3>2 DEF Range
  <2> QED BY <2>1, <2>2
<1>12. ASSUME NEW i \in 1 .. m + n, NEW j \in 1 .. m + n, new[i] = new[j] PROVE i = j
  <2>1. CASE i <= m /\ j <= m
    BY <1>8, <1>11, <1>12, <2>1 DEF IsInjective
  <2>2. CASE i > m /\ j > m
    <3>1. /\ i - m \in DOMAIN hits /\ j - m \in DOMAIN hits /\ hits[i - m] = hits[j - m]
      BY <1>8, <1>11, <1>12, <2>2
    <3>2. i - m = j - m
      BY <3>1 DEF IsInjective
    <3> QED BY <1>8, <3>2
  <2>3. CASE i <= m /\ j > m
    BY <1>11, <1>12, <2>3 DEF Elsewhere, OfScope
  <2>4. CASE i > m /\ j <= m
    BY <1>11, <1>12, <2>4 DEF Elsewhere, OfScope
  <2> QED BY <1>8, <2>1, <2>2, <2>3, <2>4
<1>13. IsInjective(new)
  BY <1>10, <1>12 DEF IsInjective
<1> QED BY <1>2, <1>3, <1>4, <1>5, <1>10, <1>13 DEF Joined

\* A ranking is a list without repetition.
LEMMA RankingsAreLists ==
    ASSUME NEW S, NEW n \in Nat, NEW f \in Rankings(S, n)
    PROVE  f \in Seq(S) /\ IsInjective(f)
<1>1. PICK k \in 0 .. n : f \in [1 .. k -> S]
  BY DEF Rankings
<1>2. k \in Nat
  BY <1>1
<1>3. f \in Seq(S)
  BY <1>1, <1>2, SeqDef
<1> QED BY <1>3 DEF Rankings

\* Lists without repetition.
Once(R) == {h \in Seq(R) : IsInjective(h)}

\* A report is added when it is neither gone nor there already,
LEMMA OneMore ==
    ASSUME NEW R, NEW h \in Once(R), NEW r \in R, NEW gone
    PROVE  (IF r \in gone \cup Range(h) THEN h ELSE Append(h, r)) \in Once(R)
<1>1. CASE r \in gone \cup Range(h)
  BY <1>1
<1>2. CASE r \notin gone \cup Range(h)
  <2>1. h \in Seq(R) /\ IsInjective(h)
    BY DEF Once
  <2>2. PICK n \in Nat : n = Len(h)
    BY <2>1, LenProperties
  <2>3. DOMAIN h = 1 .. n
    BY <2>1, <2>2, LenProperties
  <2>4. PICK a : a = Append(h, r)
    OBVIOUS
  <2>5. /\ a \in Seq(R) /\ Len(a) = n + 1 /\ a[n + 1] = r
        /\ \A i \in 1 .. n : a[i] = h[i]
    BY <2>1, <2>2, <2>4, AppendProperties
  <2>6. DOMAIN a = 1 .. n + 1
    BY <2>5, LenProperties
  <2>7. ASSUME NEW i \in 1 .. n + 1, NEW j \in 1 .. n + 1, a[i] = a[j] PROVE i = j
    <3>1. \A k \in 1 .. n : h[k] # r
      BY <1>2, <2>3 DEF Range
    <3>2. CASE i \in 1 .. n /\ j \in 1 .. n
      BY <2>1, <2>3, <2>5, <2>7, <3>2 DEF IsInjective
    <3>3. CASE i = n + 1 /\ j \in 1 .. n
      BY <2>5, <2>7, <3>1, <3>3
    <3>4. CASE i \in 1 .. n /\ j = n + 1
      BY <2>5, <2>7, <3>1, <3>4
    <3> QED BY <2>7, <3>2, <3>3, <3>4
  <2>8. IsInjective(a)
    BY <2>6, <2>7 DEF IsInjective
  <2> QED BY <1>2, <2>4, <2>5, <2>8 DEF Once
<1> QED BY <1>1, <1>2

\* and so down the whole list.
Sifted(gone, list) ==
    FoldLeft(LAMBDA hits, r : IF r \in gone \cup Range(hits) THEN hits ELSE Append(hits, r),
             << >>, list)

\* Dropping what is gone and what came before leaves no report twice.
LEMMA FoldedOnce ==
    ASSUME NEW R, NEW list \in Seq(R), NEW gone
    PROVE  Sifted(gone, list) \in Once(R)
<1>0. PICK n \in Nat : n = Len(list)
  BY LenProperties
<1>1. DOMAIN list = 1 .. n /\ \A i \in 1 .. n : list[i] \in R
  BY <1>0, LenProperties, ElementOfSeq
<1> DEFINE D == Once(R)
           More(h, r) == IF r \in gone \cup Range(h) THEN h ELSE Append(h, r)
           F == [p \in (1 .. n) \X D |-> More(p[2], list[p[1]])]
<1>2. \A k \in 1 .. n, h \in D : More(h, list[k]) \in D
  BY <1>1, OneMore
<1>3. << >> \in D
  BY EmptySeq DEF Once, IsInjective
<1> HIDE DEF D
<1>4. F \in [(1 .. n) \X D -> D]
  <2> HIDE DEF More
  <2> QED BY <1>2
<1>5. \A k \in 1 .. n, h \in D : F[<<k, h>>] = More(h, list[k])
  <2> HIDE DEF More
  <2> QED OBVIOUS
<1> HIDE DEF F
<1>6. PICK g \in [SUBSET (1 .. n) -> D] : FoldsOver(F, << >>, n, g)
  BY <1>3, <1>4, FoldExists
<1> DEFINE H(h) == [t \in SUBSET (1 .. n) |->
                      IF t = {} THEN << >> ELSE More(h[t \ {Max(t)}], list[Max(t)])]
<1>7. ASSUME NEW t \in SUBSET (1 .. n), t # {}
      PROVE  F[<<Max(t), g[t \ {Max(t)}]>>] = More(g[t \ {Max(t)}], list[Max(t)])
  <2>1. Max(t) \in 1 .. n /\ g[t \ {Max(t)}] \in D
    BY <1>6, <1>7, PlacesBelow
  <2> HIDE DEF More
  <2> QED BY <1>5, <2>1
<1>8. g = H(g)
  <2> HIDE DEF More
  <2> QED BY <1>6, <1>7 DEF FoldsOver, Folding
<1> DEFINE iter == CHOOSE h : h = H(h)
<1>9. iter = H(iter)
  <2> HIDE DEF More
  <2> QED BY <1>8
<1>10. Sifted(gone, list) = iter[1 .. n]
  BY <1>1 DEF Sifted, FoldLeft, MapThenFoldSet
<1> HIDE DEF More, iter
<1>11. iter[{}] = << >>
  <2>1. {} \in SUBSET (1 .. n) /\ H(iter)[{}] = << >>
    OBVIOUS
  <2> QED BY <1>9, <2>1
<1>12. \A k \in 1 .. n : iter[1 .. k] = More(iter[1 .. (k - 1)], list[k])
  <2> TAKE k \in 1 .. n
  <2>0. k \in 1 .. k /\ 1 .. k \in SUBSET (1 .. n) /\ k \in Nat /\ k # 0
    OBVIOUS
  <2>1. iter[1 .. k] = More(iter[(1 .. k) \ {Max(1 .. k)}], list[Max(1 .. k)])
    BY <1>9, <2>0
  <2>2. Max(1 .. k) = k /\ (1 .. k) \ {k} = 1 .. (k - 1)
    BY <2>0, LastPlace
  <2> QED BY <2>1, <2>2
<1> DEFINE Bad == {k \in 0 .. n : iter[1 .. k] \notin D}
<1>13. Bad = {}
  <2> SUFFICES ASSUME Bad # {} PROVE FALSE
    OBVIOUS
  <2>0. Bad \in SUBSET Nat
    OBVIOUS
  <2>1. PICK k \in Bad : \A j \in Bad : k <= j
    <3> HIDE DEF Bad
    <3> QED BY <2>0, LeastOfSet
  <2>2. 1 .. 0 = {}
    OBVIOUS
  <2>3. k \in 1 .. n
    BY <1>3, <1>11, <2>1, <2>2
  <2>4. k - 1 \in 0 .. n /\ k - 1 < k
    BY <2>3
  <2>5. iter[1 .. (k - 1)] \in D
    BY <2>0, <2>1, <2>4
  <2> QED BY <1>2, <1>12, <2>1, <2>3, <2>5
<1>14. iter[1 .. n] \in D
  <2>1. n \in 0 .. n
    OBVIOUS
  <2> QED BY <1>13, <2>1
<1> QED BY <1>10, <1>14 DEF D

\* The reports of a search are of the project searched, children included, and none twice.
LEMMA HitsAreNew ==
    ASSUME NEW scope, NEW found \in Rankings(Findable(scope), MaxReportHits), NEW gone,
           NEW kids \in Rankings(Children(found, gone), MaxReportChildren),
           NEW hits, hits = Hits(found, kids, gone)
    PROVE  hits \in Seq(Findable(scope)) /\ IsInjective(hits)
<1>1. PICK R : R = Findable(scope)
  OBVIOUS
<1>2. found \in Seq(R)
  <2>1. MaxReportHits \in Nat
    BY RecallAssumption
  <2> QED BY <1>1, <2>1, RankingsAreLists
<1>3. kids \in Seq(Children(found, gone))
  <2>1. MaxReportChildren \in Nat
    BY RecallAssumption
  <2> QED BY <2>1, RankingsAreLists
<1>4. Children(found, gone) \subseteq R
  <2>1. CASE found = << >>
    BY <2>1 DEF Children
  <2>2. CASE found # << >>
    <3>1. Head(found) \in R
      BY <1>2, <2>2, HeadTailProperties
    <3>2. Head(found) \in Reports /\ Head(found).scope = scope
      BY <1>1, <3>1 DEF Findable
    <3>3. \A r \in Reports : r.parent = Head(found).id => r.scope = scope
      BY <3>2, RecallAssumption
    <3> QED BY <1>1, <3>3 DEF Children, Findable
  <2> QED BY <2>1, <2>2
<1>5. kids \in Seq(R)
  BY <1>3, <1>4, SeqMonotonic
<1>6. PICK list : list = IF found = << >> THEN found ELSE <<Head(found)>> \o kids \o Tail(found)
  OBVIOUS
<1>7. list \in Seq(R)
  <2>1. CASE found = << >>
    BY <1>2, <1>6, <2>1
  <2>2. CASE found # << >>
    <3>1. Head(found) \in R /\ Tail(found) \in Seq(R)
      BY <1>2, <2>2, HeadTailProperties
    <3>2. <<Head(found)>> \in Seq(R)
      BY <3>1
    <3>3. <<Head(found)>> \o kids \in Seq(R)
      BY <1>5, <3>2, ConcatProperties
    <3>4. (<<Head(found)>> \o kids) \o Tail(found) \in Seq(R)
      BY <3>1, <3>3, ConcatProperties
    <3> QED BY <1>6, <2>2, <3>4
  <2> QED BY <2>1, <2>2
<1>8. hits = Sifted(gone, list)
  BY <1>6 DEF Hits, Sifted
<1>9. hits \in Once(R)
  BY <1>7, <1>8, FoldedOnce
<1> QED BY <1>1, <1>9 DEF Once

-----------------------------------------------------------------------------
(* Each surface, and each way it may fail, keeps what holds of the bundle.  *)

\* What holds of the empty list.
LEMMA Nothing ==
    /\ Priced(<< >>) /\ Cost(<< >>) = 0 /\ IsInjective(<< >>) /\ Range(<< >>) = {}
    /\ DOMAIN << >> = {}
BY NothingIsFree DEF IsInjective, Range

\* A bundle with nothing in it but anchors.
LEMMA UnspentBundle ==
    ASSUME NEW q \in Requests, NEW b, Unspent(b), \A e \in b.anchors : e.scope \in ToSet(q.scopes)
    PROVE  Inside(q, b) /\ Fits(q, b)
<1>1. b.facts = << >> /\ b.reports = << >> /\ b.passages = << >> /\ b.spent = 0
  BY DEF Unspent
<1>2. Inside(q, b)
  BY <1>1, Nothing DEF Inside
<1>3. b.spent = Cost(b.facts) + Cost(b.reports) + Cost(b.passages)
  BY <1>1, Nothing
<1>4. b.spent \in Nat /\ b.spent <= q.budget
  BY <1>1, RecallAssumption
<1>5. Fits(q, b)
  BY <1>1, <1>3, <1>4, Nothing DEF Fits
<1> QED BY <1>2, <1>5

\* The projects of a request, each once.
LEMMA ScopesInOrder ==
    ASSUME NEW q \in Requests
    PROVE  /\ q.scopes \in Seq(Range(q.scopes)) /\ IsInjective(q.scopes)
           /\ Range(q.scopes) = ToSet(q.scopes)
BY RecallAssumption DEF Range, ToSet

\* After the first of the projects left, the rest are others.
LEMMA TailOfLeft ==
    ASSUME NEW left, left \in Seq(Range(left)), left # << >>, IsInjective(left)
    PROVE  /\ Head(left) \in Range(left) /\ Head(left) \notin Range(Tail(left))
           /\ Tail(left) \in Seq(Range(Tail(left))) /\ IsInjective(Tail(left))
           /\ Range(Tail(left)) \subseteq Range(left)
           /\ Len(left) # 1 => Tail(left) # << >>
<1>1. PICK S : S = Range(left)
  OBVIOUS
<1>2. left \in Seq(S)
  BY <1>1
<1>3. PICK n \in Nat : n = Len(left) /\ n # 0
  BY <1>2, EmptySeq
<1>4. DOMAIN left = 1 .. n
  BY <1>2, <1>3, LenProperties
<1>5. PICK t : t = Tail(left)
  OBVIOUS
<1>6. /\ t \in Seq(S) /\ Len(t) = n - 1 /\ Head(left) \in S
      /\ \A i \in 1 .. Len(t) : t[i] = left[i + 1]
  BY <1>2, <1>3, <1>5, HeadTailProperties
<1>7. DOMAIN t = 1 .. n - 1 /\ n - 1 \in Nat
  BY <1>3, <1>6, LenProperties
<1>8. \A i \in 1 .. n - 1 : i + 1 \in 1 .. n /\ t[i] = left[i + 1] /\ i + 1 # 1
  BY <1>6
<1>9. Head(left) = left[1] /\ 1 \in 1 .. n
  BY <1>3
<1>10. \A i \in 1 .. n - 1 : t[i] # Head(left)
  BY <1>4, <1>8, <1>9 DEF IsInjective
<1>11. Head(left) \notin Range(t)
  BY <1>7, <1>10 DEF Range
<1>12. IsInjective(t)
  <2> SUFFICES ASSUME NEW i \in 1 .. n - 1, NEW j \in 1 .. n - 1, t[i] = t[j] PROVE i = j
    BY <1>7 DEF IsInjective
  <2>1. i + 1 = j + 1
    BY <1>4, <1>8 DEF IsInjective
  <2> QED BY <2>1
<1>13. Range(t) \subseteq S /\ t \in Seq(Range(t))
  BY <1>6, RangeOfSeq, SeqOfRange
<1>14. n # 1 => t # << >>
  <2> SUFFICES ASSUME t = << >> PROVE n = 1
    OBVIOUS
  <2>1. Len(t) = 0
    OBVIOUS
  <2> QED BY <1>6, <2>1
<1> QED BY <1>1, <1>3, <1>5, <1>6, <1>11, <1>12, <1>13, <1>14

\* A surface that is not consulted changes nothing that is promised of the bundle.
LEMMA NotConsulted ==
    ASSUME NEW b, Bundled(b), NEW q, NEW name, NEW d
    PROVE  /\ Alike(b, b) /\ Alike(b, Unavailable(b, q, name))
           /\ Alike(b, [b EXCEPT !.degraded = @ \cup d])
<1>1. Alike(b, b)
  BY DEF Alike
<1>2. \A e : Alike(b, [b EXCEPT !.degraded = @ \cup e])
  <2> TAKE e
  <2>1. PICK c : c = Degrade(b, b.degraded \cup e)
    OBVIOUS
  <2>2. c = [b EXCEPT !.degraded = @ \cup e]
    BY <2>1 DEF Degrade
  <2>3. Alike(b, c)
    BY <2>1, Degrading
  <2> QED BY <2>2, <2>3
<1>3. CASE q.surfaces = None
  BY <1>1, <1>2, <1>3 DEF Unavailable
<1>4. CASE q.surfaces # None
  <2>1. Unavailable(b, q, name) = [b EXCEPT !.degraded = @ \cup {name}]
    BY <1>4 DEF Unavailable
  <2> QED BY <1>1, <1>2, <2>1
<1> QED BY <1>3, <1>4

\* Which surface follows the facts.
LEMMA SurfaceFollows ==
    ASSUME NEW b, Bundled(b), NEW u, NEW s, s = Surface(b, u)
    PROVE  /\ s.next \in {"reports", "passages"} /\ Alike(b, s.b)
           /\ s.next = "reports" => answer.q.person = None
<1> DEFINE q == answer.q
           reports == Wants(q, "reports") /\ (q.themes \/ u)
           withheld == [b EXCEPT !.degraded = @ \cup {"reports_withheld_for_subject"}]
<1>1. Alike(b, b) /\ Alike(b, withheld) /\ Alike(b, Unavailable(b, q, "reports"))
  BY NotConsulted
<1>2. CASE reports /\ q.person = None /\ answer.semantic
  <2>1. s = [next |-> "reports", b |-> b]
    BY <1>2 DEF Surface
  <2> QED BY <1>1, <1>2, <2>1
<1>3. CASE ~(reports /\ q.person = None /\ answer.semantic)
  <2>1. s = [next |-> "passages",
             b |-> IF reports /\ q.person # None THEN withheld
                   ELSE IF reports /\ ~answer.semantic THEN Unavailable(b, q, "reports") ELSE b]
    BY <1>3 DEF Surface
  <2> HIDE DEF reports, withheld
  <2> QED BY <1>1, <2>1
<1> QED BY <1>2, <1>3

\* A step that keeps the question, its moment, the facts and that they were cut, or ends the answer.
Carried ==
    \/ answer' = NoAnswer
    \/ /\ Under(answer') /\ answer'.q = answer.q /\ answer'.known = answer.known
       /\ answer'.from = answer.from /\ answer'.bundle.facts = answer.bundle.facts
       /\ answer.bundle.truncated => answer'.bundle.truncated

\* A bundle before its reports and passages.
Ready(q, known, b) ==
    /\ q \in Requests /\ q.scopes # << >> /\ known \in {None} \cup Instants
    /\ Bundled(b) /\ Inside(q, b) /\ Fits(q, b) /\ Cited(q, b)
    /\ b.reports = << >> /\ b.passages = << >>

\* Reports or passages begin with the first of the projects and with none of their own.
LEMMA SurfaceBegins ==
    ASSUME NEW q, NEW known, NEW b, Ready(q, known, b), NEW from,
           NEW u, NEW s, s = Surface(b, u), q = answer.q
    PROVE  /\ Composing(q, known, s.next, q.scopes, from, s.b) /\ s.b.facts = b.facts
           /\ s.b.truncated = b.truncated
<1>0. /\ q \in Requests /\ q.scopes # << >> /\ known \in {None} \cup Instants
      /\ Bundled(b) /\ Inside(q, b) /\ Fits(q, b) /\ Cited(q, b)
      /\ b.reports = << >> /\ b.passages = << >>
  BY DEF Ready
<1>1. /\ s.next \in {"reports", "passages"} /\ Alike(b, s.b)
      /\ s.next = "reports" => q.person = None
  BY <1>0, SurfaceFollows
<1>2. Inside(q, s.b) /\ Fits(q, s.b) /\ Cited(q, s.b)
  BY <1>0, <1>1, AlikeBundles
<1>3. /\ Bundled(s.b) /\ s.b.facts = b.facts /\ s.b.reports = << >> /\ s.b.passages = << >>
      /\ s.b.truncated = b.truncated
  BY <1>0, <1>1 DEF Alike
<1>4. /\ q.scopes \in Seq(Range(q.scopes)) /\ IsInjective(q.scopes)
      /\ Range(q.scopes) \subseteq ToSet(q.scopes)
  BY <1>0, ScopesInOrder
<1>5. \A x \in Range(s.b.reports) \cup Range(s.b.passages) : x.scope \notin Range(q.scopes)
  BY <1>3, Nothing
<1> QED BY <1>0, <1>1, <1>2, <1>3, <1>4, <1>5 DEF Composing

\* On to reports and passages, without facts.
LEMMA RestCarries ==
    ASSUME Under(answer), answer.at \in {"anchors", "propose"},
           NEW b, Bundled(b), Unspent(b), b.anchors = {}, NEW u, Rest(b, u)
    PROVE  Carried
<1>1. PICK q : q = answer.q
  OBVIOUS
<1>2. PICK s : s = Surface(b, u)
  OBVIOUS
<1>3. /\ Entire(answer) /\ q \in Requests /\ answer.known \in {None} \cup Instants
      /\ q.scopes # << >> /\ Unspent(answer.bundle)
  BY <1>1 DEF Under, Composing
<1>4. Inside(q, b) /\ Fits(q, b)
  BY <1>3, UnspentBundle
<1>5. /\ Cited(q, b) /\ b.reports = << >> /\ b.passages = << >> /\ b.facts = answer.bundle.facts
      /\ ~answer.bundle.truncated
  BY <1>3 DEF Cited, Unspent
<1>6. Composing(q, answer.known, s.next, q.scopes, answer.from, s.b) /\ s.b.facts = b.facts
  <2>1. PICK known, from : known = answer.known /\ from = answer.from
    OBVIOUS
  <2>2. Ready(q, known, b)
    BY <1>3, <1>4, <1>5, <2>1 DEF Ready
  <2>3. Composing(q, known, s.next, q.scopes, from, s.b) /\ s.b.facts = b.facts
    BY <1>1, <1>2, <2>2, SurfaceBegins
  <2> QED BY <2>1, <2>3
<1>7. answer' = Conclude(answer, s.next, s.b, u, q.scopes)
  BY <1>1, <1>2 DEF Rest, Conclude
<1>8. /\ Passes(answer, answer') /\ answer'.at = s.next /\ answer'.bundle = s.b
      /\ answer'.left = q.scopes /\ answer'.from = answer.from
  BY <1>3, <1>7, Concluding
<1> QED BY <1>1, <1>5, <1>6, <1>8 DEF Carried, Under, Passes

\* A step to another surface, with what it left of the bundle.
LEMMA ContinueCarries ==
    ASSUME Under(answer), NEW at, NEW b, NEW left, Continue(at, b, left),
           Composing(answer.q, answer.known, at, left, answer.from, b),
           b.facts = answer.bundle.facts, answer.bundle.truncated => b.truncated
    PROVE  Carried
<1>1. Entire(answer)
  BY DEF Under
<1>2. answer' = Advance(answer, at, b, left)
  BY DEF Continue, Advance
<1>3. /\ Passes(answer, answer') /\ answer'.at = at /\ answer'.bundle = b
      /\ answer'.left = left /\ answer'.from = answer.from
  BY <1>1, <1>2, Advancing
<1> QED BY <1>3 DEF Carried, Under, Passes

\* The names are read.
LEMMA AnchorsCarry ==
    ASSUME Under(answer), ReadAnchors
    PROVE  Carried
<1>1. PICK q : q = answer.q
  OBVIOUS
<1>2. PICK found : found = Named(q)
  OBVIOUS
<1>3. PICK b : b = [Empty EXCEPT !.anchors = IF Wants(q, "facts") THEN found ELSE {}]
  OBVIOUS
<1>4. /\ answer.at = "anchors" /\ Entire(answer) /\ q \in Requests /\ q.scopes # << >>
      /\ answer.known \in {None} \cup Instants /\ answer.from = {} /\ Unspent(answer.bundle)
  BY <1>1 DEF ReadAnchors, Under, Composing
<1>5. /\ Bundled(b) /\ b.anchors = (IF Wants(q, "facts") THEN found ELSE {}) /\ b.meant = {}
      /\ Unspent(b)
  <2>1. PICK x : x = IF Wants(q, "facts") THEN found ELSE {}
    OBVIOUS
  <2>2. b = [Empty EXCEPT !.anchors = x]
    BY <1>3, <2>1
  <2>3. b = [anchors |-> x, meant |-> {}, facts |-> << >>, reports |-> << >>, passages |-> << >>,
             truncated |-> FALSE, degraded |-> {}, spent |-> 0]
    BY <2>2 DEF Empty
  <2> QED BY <2>1, <2>3 DEF Bundled, Unspent
<1>6. /\ \A e \in b.anchors : e.scope \in ToSet(q.scopes)
      /\ b.anchors \subseteq Entities
  BY <1>2, <1>5 DEF Named
<1>7. Inside(q, b) /\ Fits(q, b) /\ b.facts = answer.bundle.facts /\ ~answer.bundle.truncated
  BY <1>4, <1>5, <1>6, UnspentBundle DEF Unspent
<1>8. CASE answer' = NoAnswer
  BY <1>8 DEF Carried
<1>9. CASE Rest(b, found = {}) /\ b.anchors = {}
  BY <1>4, <1>5, <1>9, RestCarries
<1>10. CASE answer' = [answer EXCEPT !.at = "facts", !.bundle = b, !.unmatched = FALSE] /\ b.anchors # {}
  <2>0. PICK u : u = FALSE
    OBVIOUS
  <2>1. answer' = Root(answer, "facts", b, u)
    BY <1>10, <2>0 DEF Root
  <2>2. /\ Passes(answer, answer') /\ answer'.at = "facts" /\ answer'.bundle = b
        /\ answer'.from = answer.from
    BY <1>4, <2>1, Rooting
  <2>3. Composing(q, answer.known, "facts", answer'.left, {}, b)
    BY <1>4, <1>5, <1>6, <1>7, <1>10 DEF Composing
  <2> QED BY <1>1, <1>4, <1>7, <2>2, <2>3 DEF Carried, Under, Passes
<1>11. CASE Continue("propose", b, q.scopes) /\ b.anchors = {}
  <2>1. /\ q.scopes \in Seq(Range(q.scopes)) /\ IsInjective(q.scopes)
        /\ Range(q.scopes) \subseteq ToSet(q.scopes)
    BY <1>4, ScopesInOrder
  <2>2. Composing(q, answer.known, "propose", q.scopes, answer.from, b)
    BY <1>4, <1>5, <1>6, <1>7, <1>11, <2>1 DEF Composing
  <2> QED BY <1>1, <1>7, <1>11, <2>2, ContinueCarries
<1>12. CASE Rest(Unavailable(b, q, "semantic_anchors"), TRUE) /\ b.anchors = {}
  <2>1. PICK c : c = Unavailable(b, q, "semantic_anchors")
    OBVIOUS
  <2>2. Alike(b, c)
    BY <1>5, <2>1, NotConsulted
  <2>3. Bundled(c) /\ Unspent(c) /\ c.anchors = {}
    BY <1>5, <1>12, <2>2, AlikeBundles DEF Alike
  <2> QED BY <1>4, <1>12, <2>1, <2>3, RestCarries
<1> QED BY <1>1, <1>2, <1>3, <1>5, <1>8, <1>9, <1>10, <1>11, <1>12 DEF ReadAnchors

\* Names are proposed in one more project,
LEMMA ProposalsCarry ==
    ASSUME Under(answer), NEW found, Propose(found)
    PROVE  Carried
<1>1. PICK q : q = answer.q
  OBVIOUS
<1>2. PICK left : left = answer.left
  OBVIOUS
<1>3. PICK more : more = answer.bundle.meant \cup found
  OBVIOUS
<1>4. PICK b : b = [answer.bundle EXCEPT !.anchors = more, !.meant = more]
  OBVIOUS
<1>5. /\ answer.at = "propose" /\ Entire(answer) /\ q \in Requests /\ q.scopes # << >>
      /\ answer.known \in {None} \cup Instants /\ answer.from = {} /\ Unspent(answer.bundle)
      /\ Bundled(answer.bundle) /\ Inside(q, answer.bundle)
      /\ answer.bundle.anchors = answer.bundle.meant /\ answer.bundle.anchors \subseteq Entities
      /\ left \in Seq(Range(left)) /\ left # << >> /\ IsInjective(left)
      /\ Range(left) \subseteq ToSet(q.scopes)
  BY <1>1, <1>2 DEF Propose, Under, Composing
<1>6. b = Grounded(answer.bundle, more, more)
  BY <1>4 DEF Grounded
<1>7. /\ Bundled(b) /\ b.anchors = more /\ b.meant = more /\ b.facts = answer.bundle.facts
      /\ b.reports = answer.bundle.reports /\ b.passages = answer.bundle.passages
      /\ b.spent = answer.bundle.spent /\ b.truncated = answer.bundle.truncated
  BY <1>5, <1>6, Grounding
<1>8. Unspent(b)
  BY <1>5, <1>7 DEF Unspent
<1>9. /\ \A e \in b.anchors : e.scope \in ToSet(q.scopes)
      /\ b.anchors \subseteq Entities
  <2>1. Head(left) \in ToSet(q.scopes)
    BY <1>5, TailOfLeft
  <2>2. \A e \in found : e.scope = Head(left)
    BY <1>2 DEF Propose, Proposable
  <2>3. \A e \in answer.bundle.meant : e.scope \in ToSet(q.scopes)
    BY <1>5 DEF Inside
  <2>4. found \subseteq Entities
    BY DEF Propose, Proposable
  <2> QED BY <1>3, <1>5, <1>7, <2>1, <2>2, <2>3, <2>4
<1>10. Inside(q, b) /\ Fits(q, b)
  BY <1>5, <1>8, <1>9, UnspentBundle
<1>11. CASE Continue("propose", b, Tail(left)) /\ Len(left) # 1
  <2>1. PICK t : t = Tail(left)
    OBVIOUS
  <2>2. /\ t \in Seq(Range(t)) /\ IsInjective(t) /\ t # << >> /\ Range(t) \subseteq ToSet(q.scopes)
    BY <1>5, <1>11, <2>1, TailOfLeft
  <2>3. Composing(q, answer.known, "propose", t, answer.from, b)
    BY <1>5, <1>7, <1>8, <1>9, <1>10, <2>2 DEF Composing
  <2> QED BY <1>1, <1>7, <1>11, <2>1, <2>3, ContinueCarries
<1>12. CASE Rest(b, TRUE) /\ more = {}
  BY <1>5, <1>7, <1>8, <1>12, RestCarries
<1>13. CASE Continue("facts", b, << >>) /\ more # {}
  <2>1. Composing(q, answer.known, "facts", << >>, answer.from, b)
    BY <1>5, <1>7, <1>8, <1>9, <1>10, <1>13 DEF Composing
  <2> QED BY <1>1, <1>7, <1>13, <2>1, ContinueCarries
<1> QED BY <1>2, <1>3, <1>4, <1>11, <1>12, <1>13 DEF Propose

\* or cannot be.
LEMMA FailedProposalsCarry ==
    ASSUME Under(answer), ProposeFails
    PROVE  Carried
<1>1. PICK q : q = answer.q
  OBVIOUS
<1>2. PICK b : b = [answer.bundle EXCEPT !.degraded = @ \cup {"semantic_anchors"}]
  OBVIOUS
<1>3. /\ answer.at = "propose" /\ Entire(answer) /\ q \in Requests /\ q.scopes # << >>
      /\ answer.known \in {None} \cup Instants /\ answer.from = {} /\ Unspent(answer.bundle)
      /\ Bundled(answer.bundle) /\ Inside(q, answer.bundle) /\ Fits(q, answer.bundle)
      /\ answer.bundle.anchors \subseteq Entities
  BY <1>1 DEF ProposeFails, Under, Composing
<1>4. Alike(answer.bundle, b)
  <2>1. PICK o : o = answer.bundle
    OBVIOUS
  <2>2. Alike(o, b)
    BY <1>2, <1>3, <2>1, NotConsulted
  <2> QED BY <2>1, <2>2
<1>5. /\ Bundled(b) /\ Unspent(b) /\ Inside(q, b) /\ Fits(q, b) /\ b.facts = answer.bundle.facts
      /\ b.anchors \subseteq Entities /\ b.truncated = answer.bundle.truncated
  BY <1>3, <1>4, AlikeBundles DEF Alike
<1>6. CASE Rest(b, TRUE) /\ b.anchors = {}
  BY <1>3, <1>5, <1>6, RestCarries
<1>7. CASE Continue("facts", b, << >>) /\ b.anchors # {}
  <2>1. Composing(q, answer.known, "facts", << >>, answer.from, b)
    BY <1>3, <1>5, <1>7 DEF Composing
  <2> QED BY <1>1, <1>5, <1>7, <2>1, ContinueCarries
<1> QED BY <1>2, <1>6, <1>7 DEF ProposeFails

\* The facts are cut to the budget, and the names of one person to those with facts.
LEMMA CutFacts ==
    ASSUME Under(answer), answer.at = "facts", StoreInv, NEW q, q = answer.q,
           NEW list \in FactLists(q, answer.known, answer.bundle.anchors), NEW c, c = Cut(list)
    PROVE  /\ Ready(q, answer.known, c) /\ c.facts = Kept(q, list)
           /\ c.truncated = (Len(Kept(q, list)) < Len(list))
<1>1. PICK b : b = answer.bundle
  OBVIOUS
<1>2. PICK known : known = answer.known
  OBVIOUS
<1>3. /\ q \in Requests /\ q.scopes # << >> /\ known \in {None} \cup Instants
      /\ Unspent(b) /\ Bundled(b) /\ Inside(q, b) /\ b.anchors \in SUBSET Entities
  BY <1>1, <1>2 DEF Under, Composing
<1>4. PICK V : V = Visible(q, known)
  OBVIOUS
<1>5. Versions(V)
  <2>1. known \in {None} \cup Int
    BY <1>3, Bounds
  <2> QED BY <1>4, <2>1, OneVersionEach
<1>6. list \in ListsIn(V, q, b.anchors)
  BY <1>1, <1>2, <1>4, ListsAreOfWhatIsSeen
<1>7. PICK kept : kept = Kept(q, list)
  OBVIOUS
<1>8. PICK anchors : anchors = IF q.person = None THEN b.anchors
                               ELSE {e \in b.anchors : e \notin b.meant \/ e \in {w.anchor : w \in Range(kept)}}
  OBVIOUS
<1>9. PICK n, t : n = Cost(kept) /\ t = (Len(kept) < Len(list))
  OBVIOUS
<1>10. c = WithFacts(b, kept, n, t, anchors)
  <2>1. c = [answer.bundle EXCEPT
               !.facts = kept,
               !.spent = Cost(kept),
               !.truncated = Len(kept) < Len(list),
               !.anchors = IF q.person = None THEN @
                           ELSE {e \in @ : e \notin answer.bundle.meant \/ e \in {w.anchor : w \in Range(kept)}}]
    BY <1>7 DEF Cut, Kept
  <2> QED BY <1>1, <1>8, <1>9, <2>1 DEF WithFacts
<1>11. /\ Bundled(c) /\ c.anchors = anchors /\ c.meant = b.meant /\ c.facts = kept
       /\ c.reports = b.reports /\ c.passages = b.passages /\ c.spent = n
       /\ c.truncated = t
  BY <1>3, <1>10, Gathering
<1>12. c.reports = << >> /\ c.passages = << >>
  BY <1>3, <1>11 DEF Unspent
<1>13. /\ Priced(kept) /\ Cost(kept) \in Nat /\ Cost(kept) <= q.budget
       /\ \A w \in Range(kept) : Walked(V, b.anchors, w)
       /\ \A i, j \in DOMAIN kept : Found(kept[i]).c = Found(kept[j]).c => i = j
  BY <1>3, <1>5, <1>6, <1>7, KeptFacts
<1>14. Fits(q, c)
  <2>1. Priced(c.facts) /\ Priced(c.reports) /\ Priced(c.passages)
    BY <1>11, <1>12, <1>13, Nothing
  <2>2. c.spent = Cost(c.facts) + Cost(c.reports) + Cost(c.passages)
    BY <1>9, <1>11, <1>12, <1>13, Nothing
  <2>3. c.spent \in Nat /\ c.spent <= q.budget
    BY <1>9, <1>11, <1>13
  <2>4. IsInjective(c.reports) /\ IsInjective(c.passages)
    BY <1>12, Nothing
  <2> QED BY <1>11, <1>13, <2>1, <2>2, <2>3, <2>4 DEF Fits
<1>15. Inside(q, c)
  <2>1. \A w \in Range(c.facts) : \A x \in Range(w.via) : Admits(q, x.c.src)
    <3> SUFFICES ASSUME NEW w \in Range(kept), NEW x \in Range(w.via) PROVE Admits(q, x.c.src)
      BY <1>11
    <3>1. Walked(V, b.anchors, w)
      BY <1>13
    <3>2. x \in V
      BY <3>1, FoundOnTheWay
    <3> QED BY <1>4, <3>2 DEF Visible
  <2>2. \A e \in c.anchors : e.scope \in ToSet(q.scopes)
    BY <1>3, <1>8, <1>11 DEF Inside
  <2> QED BY <1>12, <2>1, <2>2, Nothing DEF Inside
<1>16. Cited(q, c)
  BY <1>8, <1>11 DEF Cited
<1>17. c.truncated = (Len(Kept(q, list)) < Len(list))
  BY <1>7, <1>9, <1>11, Zenon
<1> QED BY <1>2, <1>3, <1>7, <1>11, <1>12, <1>14, <1>15, <1>16, <1>17 DEF Ready

\* What is kept of an answer is what it said, of the present, with no write under way.
Remembers ==
    \/ told' = told
    \/ /\ told' # None /\ told = None /\ writer = None /\ answer.known = None
       /\ told'.q = answer.q /\ told'.asked = clock /\ told'.from = answer.bundle.anchors
       /\ told'.facts = Account(answer'.bundle.facts) /\ told'.truncated = answer'.bundle.truncated

\* The facts are read.
LEMMA FactsCarry ==
    ASSUME Under(answer), StoreInv, ReadFacts
    PROVE  /\ Under(answer') /\ answer'.q = answer.q /\ answer'.known = answer.known
           /\ answer'.from = answer.bundle.anchors /\ answer'.from # {}
           /\ answer'.from \subseteq Entities
           /\ \E list \in FactLists(answer.q, answer.known, answer.bundle.anchors) :
                /\ answer'.bundle.facts = Kept(answer.q, list)
                /\ answer'.bundle.truncated = (Len(Kept(answer.q, list)) < Len(list))
           /\ Remembers
<1>1. /\ answer.at = "facts" /\ Entire(answer) /\ answer.bundle.anchors # {}
      /\ answer.bundle.anchors \subseteq Entities
  BY DEF ReadFacts, Under, Composing
<1>2. PICK list \in FactLists(answer.q, answer.known, answer.bundle.anchors) :
        LET after == Surface(Cut(list), answer.unmatched)
        IN /\ answer' = [answer EXCEPT !.at = after.next, !.bundle = after.b, !.left = answer.q.scopes,
                                       !.asked = None, !.from = answer.bundle.anchors]
           /\ told' = Keep(after.b)
  BY DEF ReadFacts
<1>3. PICK q : q = answer.q
  OBVIOUS
<1>4. PICK c : c = Cut(list)
  OBVIOUS
<1>5. PICK u : u = answer.unmatched
  OBVIOUS
<1>6. PICK s : s = Surface(c, u)
  OBVIOUS
<1>7. PICK known : known = answer.known
  OBVIOUS
<1>8. PICK from : from = answer.bundle.anchors
  OBVIOUS
<1>9. /\ Ready(q, known, c) /\ c.facts = Kept(q, list)
      /\ c.truncated = (Len(Kept(q, list)) < Len(list))
  BY <1>1, <1>2, <1>3, <1>4, <1>7, CutFacts
<1>10. /\ Composing(q, known, s.next, q.scopes, from, s.b) /\ s.b.facts = c.facts
       /\ s.b.truncated = c.truncated
  BY <1>3, <1>6, <1>9, SurfaceBegins
<1>11. answer' = Gather(answer, s.next, s.b, q.scopes, None, from) /\ told' = Keep(s.b)
  BY <1>2, <1>3, <1>4, <1>5, <1>6, <1>8 DEF Gather
<1>12. /\ Passes(answer, answer') /\ answer'.at = s.next /\ answer'.bundle = s.b
       /\ answer'.left = q.scopes /\ answer'.from = from
  BY <1>1, <1>11, Collecting
<1>13. Under(answer') /\ answer'.q = q /\ answer'.known = known
  BY <1>3, <1>7, <1>10, <1>12 DEF Under, Passes
<1>14. Remembers
  <2>1. CASE told' = told
    BY <2>1 DEF Remembers
  <2>2. CASE told' # told
    <3>1. /\ told = None /\ answer.known = None /\ writer = None
          /\ told' = [q |-> answer.q, asked |-> clock, from |-> answer.bundle.anchors,
                      facts |-> Account(s.b.facts), truncated |-> s.b.truncated]
      BY <1>11, <2>2 DEF Keep
    <3>2. /\ told'.q = answer.q /\ told'.asked = clock /\ told'.from = answer.bundle.anchors
          /\ told'.facts = Account(answer'.bundle.facts)
          /\ told'.truncated = answer'.bundle.truncated
      BY <1>12, <3>1
    <3> QED BY <2>2, <3>1, <3>2 DEF Remembers
  <2> QED BY <2>1, <2>2
<1>15. answer'.bundle.facts = Kept(answer.q, list)
  BY <1>3, <1>9, <1>10, <1>12
<1>16. answer'.bundle.truncated = (Len(Kept(answer.q, list)) < Len(list))
  BY <1>3, <1>9, <1>10, <1>12, Zenon
<1> QED BY <1>1, <1>2, <1>3, <1>7, <1>8, <1>12, <1>13, <1>14, <1>15, <1>16

\* The lists a surface hands over hold what is measured.
LEMMA SearchedIsPriced ==
    ASSUME NEW S, S \subseteq Sources \cup Reports, NEW hits \in Seq(S)
    PROVE  Priced(hits) /\ Range(hits) \subseteq S
<1>1. Range(hits) \subseteq S /\ hits \in Seq(Range(hits))
  BY RangeOfSeq, SeqOfRange
<1>2. \A x \in Range(hits) : Size(x) \in Nat
  BY <1>1, RecallAssumption
<1> QED BY <1>1, <1>2 DEF Priced

\* What a bundle must be for the reports of a project to be added.
Chargeable(q, o, scope) ==
    /\ Bundled(o) /\ Inside(q, o) /\ Fits(q, o) /\ Cited(q, o) /\ q.person = None
    /\ scope \in ToSet(q.scopes) /\ \A x \in Range(o.reports) : x.scope # scope

\* Hits of one project, charged to what is left of the budget.
LEMMA ChargedReports ==
    ASSUME NEW q \in Requests, NEW o, NEW scope, Chargeable(q, o, scope),
           NEW hits \in Seq(Findable(scope)), IsInjective(hits),
           NEW b, b = Charge(o, q, "reports", hits)
    PROVE  /\ Bundled(b) /\ Inside(q, b) /\ Fits(q, b) /\ Cited(q, b)
           /\ b.facts = o.facts /\ b.passages = o.passages /\ (o.truncated => b.truncated)
           /\ \A x \in Range(b.reports) : x \in Range(o.reports) \/ x.scope = scope
<1>0. /\ Bundled(o) /\ Inside(q, o) /\ Fits(q, o) /\ Cited(q, o) /\ q.person = None
      /\ scope \in ToSet(q.scopes) /\ \A x \in Range(o.reports) : x.scope # scope
  BY DEF Chargeable
<1>1. PICK left : left = q.budget - o.spent
  OBVIOUS
<1>2. PICK kept : kept = Fitting(hits, left)
  OBVIOUS
<1>3. PICK new : new = o.reports \o kept
  OBVIOUS
<1>4. PICK n, t : n = o.spent + Cost(kept) /\ t = (o.truncated \/ Len(kept) < Len(hits))
  OBVIOUS
<1>5. b = WithReports(o, new, n, t)
  <2>1. b = [o EXCEPT !["reports"] = @ \o kept,
                      !.spent = @ + Cost(kept),
                      !.truncated = @ \/ Len(kept) < Len(hits)]
    BY <1>1, <1>2 DEF Charge
  <2> QED BY <1>3, <1>4, <2>1 DEF WithReports
<1>6. /\ Bundled(b) /\ b.anchors = o.anchors /\ b.meant = o.meant /\ b.facts = o.facts
      /\ b.reports = new /\ b.passages = o.passages /\ b.spent = n /\ b.truncated = t
  BY <1>0, <1>5, Reporting
<1>7. /\ Priced(o.facts) /\ Priced(o.reports) /\ Priced(o.passages)
      /\ o.spent = Cost(o.facts) + Cost(o.reports) + Cost(o.passages)
      /\ o.spent \in Nat /\ o.spent <= q.budget /\ q.budget \in Nat
      /\ \A i, j \in DOMAIN o.facts : Found(o.facts[i]).c = Found(o.facts[j]).c => i = j
      /\ IsInjective(o.reports) /\ IsInjective(o.passages)
  BY <1>0, RecallAssumption DEF Fits
<1>8. left \in Nat
  BY <1>1, <1>7
<1>9. /\ Priced(hits) /\ Range(hits) \subseteq Findable(scope)
      /\ \A x \in Range(hits) : x.scope = scope
  <2>1. Findable(scope) \subseteq Sources \cup Reports
    BY DEF Findable
  <2>2. Priced(hits) /\ Range(hits) \subseteq Findable(scope)
    BY <2>1, SearchedIsPriced
  <2> QED BY <2>2 DEF Findable
<1>10. /\ Priced(new) /\ IsInjective(new) /\ Range(new) \subseteq Range(o.reports) \cup Range(hits)
       /\ Cost(new) = Cost(o.reports) + Cost(kept)
       /\ Cost(kept) \in Nat /\ Cost(kept) <= left /\ Cost(o.reports) \in Nat
  <2>1. PICK old : old = o.reports
    OBVIOUS
  <2>2. Priced(old) /\ IsInjective(old) /\ \A x \in Range(old) : x.scope # scope
    BY <1>0, <1>7, <2>1
  <2>3. /\ Priced(new) /\ IsInjective(new) /\ Range(new) \subseteq Range(old) \cup Range(hits)
        /\ Cost(new) = Cost(old) + Cost(kept)
        /\ Cost(kept) \in Nat /\ Cost(kept) <= left /\ Cost(old) \in Nat
    <3>1. Elsewhere(old, scope) /\ OfScope(hits, scope)
      BY <1>9, <2>2 DEF Elsewhere, OfScope
    <3>2. new = old \o kept
      BY <1>3, <2>1
    <3>3. Priced(old) /\ IsInjective(old) /\ Priced(hits) /\ IsInjective(hits)
      BY <1>9, <2>2
    <3>4. Joined(old, hits, left, kept, new)
      BY <1>2, <1>8, <3>1, <3>2, <3>3, HitsAppended
    <3> QED BY <3>4 DEF Joined
  <2> QED BY <2>1, <2>3
<1>11. Cost(o.facts) \in Nat /\ Cost(o.passages) \in Nat
  BY <1>7, CostIsNatural
<1>12. /\ b.spent = Cost(b.facts) + Cost(b.reports) + Cost(b.passages)
       /\ b.spent \in Nat /\ b.spent <= q.budget
  <2>1. PICK f, r, p, k, s, w : /\ f = Cost(o.facts) /\ r = Cost(o.reports) /\ p = Cost(o.passages)
                                /\ k = Cost(kept) /\ s = o.spent /\ w = q.budget
    OBVIOUS
  <2>2. /\ f \in Nat /\ r \in Nat /\ p \in Nat /\ k \in Nat /\ s \in Nat /\ w \in Nat
        /\ s = f + r + p /\ k <= w - s
    BY <1>1, <1>7, <1>10, <1>11, <2>1
  <2>3. s + k = f + (r + k) + p /\ s + k \in Nat /\ s + k <= w
    BY <2>2
  <2>4. b.spent = s + k /\ Cost(b.facts) = f /\ Cost(b.reports) = r + k /\ Cost(b.passages) = p
    BY <1>4, <1>6, <1>10, <2>1
  <2> QED BY <2>1, <2>3, <2>4
<1>13. Fits(q, b)
  BY <1>6, <1>7, <1>10, <1>12 DEF Fits
<1>14. \A x \in Range(b.reports) : x \in Range(o.reports) \/ x.scope = scope
  BY <1>6, <1>9, <1>10
<1>15. Inside(q, b)
  BY <1>0, <1>6, <1>14 DEF Inside
<1>16. Cited(q, b)
  BY <1>0, <1>6 DEF Cited
<1>17. o.truncated => b.truncated
  BY <1>4, <1>6, Zenon
<1> QED BY <1>6, <1>13, <1>14, <1>15, <1>16, <1>17

\* The reports of one more project are read.
LEMMA ReportsCarry ==
    ASSUME Under(answer), ReadReports
    PROVE  Carried
<1>1. answer.at = "reports"
  BY DEF ReadReports
<1>2. PICK q, known, left, from, o : /\ q = answer.q /\ known = answer.known /\ left = answer.left
                                    /\ from = answer.from /\ o = answer.bundle
  OBVIOUS
<1>3. PICK found \in Rankings(Findable(Head(left)), MaxReportHits), gone \in SUBSET Reports :
      \E kids \in Rankings(Children(found, gone), MaxReportChildren) :
         NextScope("reports", "passages", Charge(o, q, "reports", Hits(found, kids, gone)))
  BY <1>2 DEF ReadReports
<1>4. PICK kids \in Rankings(Children(found, gone), MaxReportChildren) :
         NextScope("reports", "passages", Charge(o, q, "reports", Hits(found, kids, gone)))
  BY <1>3
<1>5. PICK scope : scope = Head(left)
  OBVIOUS
<1>6. PICK hits : hits = Hits(found, kids, gone)
  OBVIOUS
<1>7. PICK b : b = Charge(o, q, "reports", hits)
  OBVIOUS
<1>8. /\ Bundled(o) /\ q \in Requests /\ known \in {None} \cup Instants
      /\ Inside(q, o) /\ Fits(q, o) /\ Cited(q, o) /\ q.scopes # << >>
      /\ left \in Seq(Range(left)) /\ left # << >> /\ IsInjective(left)
      /\ Range(left) \subseteq ToSet(q.scopes)
      /\ q.person = None /\ o.passages = << >>
      /\ \A r \in Range(o.reports) : r.scope \notin Range(left)
  BY <1>1, <1>2 DEF Under, Composing
<1>9. PICK rest : rest = Tail(left)
  OBVIOUS
<1>10. /\ scope \in Range(left) /\ scope \notin Range(rest)
       /\ rest \in Seq(Range(rest)) /\ IsInjective(rest) /\ Range(rest) \subseteq Range(left)
       /\ Len(left) # 1 => rest # << >>
  BY <1>5, <1>8, <1>9, TailOfLeft
<1>11. hits \in Seq(Findable(scope)) /\ IsInjective(hits)
  <2>1. found \in Rankings(Findable(scope), MaxReportHits)
    BY <1>3, <1>5
  <2> QED BY <1>4, <1>6, <2>1, HitsAreNew
<1>12. /\ Bundled(b) /\ Inside(q, b) /\ Fits(q, b) /\ Cited(q, b)
       /\ b.facts = o.facts /\ b.passages = o.passages /\ (o.truncated => b.truncated)
       /\ \A x \in Range(b.reports) : x \in Range(o.reports) \/ x.scope = scope
  <2>1. scope \in ToSet(q.scopes) /\ \A x \in Range(o.reports) : x.scope # scope
    BY <1>8, <1>10
  <2>2. Chargeable(q, o, scope)
    BY <1>8, <2>1 DEF Chargeable
  <2> QED BY <1>7, <1>8, <1>11, <2>2, ChargedReports
<1>13. /\ q.scopes \in Seq(Range(q.scopes)) /\ IsInjective(q.scopes)
       /\ Range(q.scopes) \subseteq ToSet(q.scopes)
  BY <1>8, ScopesInOrder
<1>14. Composing(q, known, "passages", q.scopes, from, b)
  <2>1. \A s \in Range(b.passages) : s.scope \notin Range(q.scopes)
    BY <1>8, <1>12, Nothing
  <2> QED BY <1>8, <1>12, <1>13, <2>1 DEF Composing
<1>15. Len(left) # 1 => Composing(q, known, "reports", rest, from, b)
  <2>1. \A r \in Range(b.reports) : r.scope \notin Range(rest)
    BY <1>8, <1>10, <1>12
  <2>2. Range(rest) \subseteq ToSet(q.scopes)
    BY <1>8, <1>10
  <2> QED BY <1>8, <1>10, <1>12, <2>1, <2>2 DEF Composing
<1>16. NextScope("reports", "passages", b)
  BY <1>4, <1>6, <1>7
<1>17. CASE Len(left) = 1
  <2>1. Continue("passages", b, q.scopes)
    BY <1>2, <1>16, <1>17 DEF NextScope
  <2> QED BY <1>2, <1>12, <1>14, <2>1, ContinueCarries
<1>18. CASE Len(left) # 1
  <2>1. Continue("reports", b, rest)
    BY <1>2, <1>9, <1>16, <1>18 DEF NextScope
  <2> QED BY <1>2, <1>12, <1>15, <1>18, <2>1, ContinueCarries
<1> QED BY <1>17, <1>18

\* A search that fails, or is not made, leaves the bundle as it was and names what is missing.
LEMMA FailedReportsCarry ==
    ASSUME Under(answer), ReportsFail
    PROVE  Carried
<1>1. PICK q, known, from, o : /\ q = answer.q /\ known = answer.known
                              /\ from = answer.from /\ o = answer.bundle
  OBVIOUS
<1>2. PICK b : b = [o EXCEPT !.degraded = @ \cup {"reports"}]
  OBVIOUS
<1>3. /\ answer.at = "reports" /\ Bundled(o) /\ q \in Requests /\ known \in {None} \cup Instants
      /\ Inside(q, o) /\ Fits(q, o) /\ Cited(q, o) /\ q.scopes # << >> /\ o.passages = << >>
  BY <1>1 DEF ReportsFail, Under, Composing
<1>4. Alike(o, b)
  BY <1>2, <1>3, NotConsulted
<1>5. /\ Bundled(b) /\ Inside(q, b) /\ Fits(q, b) /\ Cited(q, b)
      /\ b.facts = o.facts /\ b.passages = << >> /\ b.truncated = o.truncated
  BY <1>3, <1>4, AlikeBundles DEF Alike
<1>6. /\ q.scopes \in Seq(Range(q.scopes)) /\ IsInjective(q.scopes)
      /\ Range(q.scopes) \subseteq ToSet(q.scopes)
  BY <1>3, ScopesInOrder
<1>7. \A s \in Range(b.passages) : s.scope \notin Range(q.scopes)
  BY <1>5, Nothing
<1>8. Composing(q, known, "passages", q.scopes, from, b)
  BY <1>3, <1>5, <1>6, <1>7 DEF Composing
<1>9. Continue("passages", b, q.scopes)
  BY <1>1, <1>2 DEF ReportsFail
<1> QED BY <1>1, <1>5, <1>8, <1>9, ContinueCarries

\* The end of an answer, with a bundle that differs in nothing that is promised of it.
LEMMA EndCarries ==
    ASSUME Under(answer), answer.at = "passages", NEW b, Alike(answer.bundle, b),
           Continue("done", b, << >>)
    PROVE  Carried
<1>1. PICK q, known, from, o : /\ q = answer.q /\ known = answer.known
                              /\ from = answer.from /\ o = answer.bundle
  OBVIOUS
<1>2. /\ Bundled(o) /\ q \in Requests /\ known \in {None} \cup Instants
      /\ Inside(q, o) /\ Fits(q, o) /\ Cited(q, o)
  BY <1>1 DEF Under, Composing
<1>3. /\ Bundled(b) /\ Inside(q, b) /\ Fits(q, b) /\ Cited(q, b) /\ b.facts = o.facts
      /\ b.truncated = o.truncated
  BY <1>1, <1>2, AlikeBundles DEF Alike
<1>4. Composing(q, known, "done", << >>, from, b)
  BY <1>2, <1>3 DEF Composing
<1> QED BY <1>1, <1>3, <1>4, ContinueCarries

\* Passages are not looked for,
LEMMA SkippedPassagesCarry ==
    ASSUME Under(answer), SkipPassages
    PROVE  Carried
<1>1. PICK o, q : o = answer.bundle /\ q = answer.q
  OBVIOUS
<1>2. PICK b : Continue("done", b, << >>) /\ (b = o \/ b = Unavailable(o, q, "passages"))
  BY <1>1 DEF SkipPassages
<1>3. answer.at = "passages"
  BY DEF SkipPassages
<1>4. Bundled(o)
  BY <1>1 DEF Under, Composing
<1>5. Alike(o, b)
  <2>1. Alike(o, o)
    BY <1>4, NotConsulted
  <2>2. Alike(o, Unavailable(o, q, "passages"))
    BY <1>4, NotConsulted
  <2> QED BY <1>2, <2>1, <2>2
<1> QED BY <1>1, <1>2, <1>3, <1>5, EndCarries

\* or cannot be.
LEMMA FailedPassagesCarry ==
    ASSUME Under(answer), PassagesFail
    PROVE  Carried
<1>1. PICK o : o = answer.bundle
  OBVIOUS
<1>2. PICK b : b = [o EXCEPT !.degraded = @ \cup {"passages"}]
  OBVIOUS
<1>3. answer.at = "passages" /\ Continue("done", b, << >>)
  BY <1>1, <1>2 DEF PassagesFail
<1>4. Bundled(o)
  BY <1>1 DEF Under, Composing
<1>5. Alike(o, b)
  BY <1>2, <1>4, NotConsulted
<1> QED BY <1>1, <1>3, <1>5, EndCarries

\* What a bundle must be for the passages of a project to be added.
MayTake(q, o, scope) ==
    /\ Bundled(o) /\ Inside(q, o) /\ Fits(q, o) /\ Cited(q, o)
    /\ scope \in ToSet(q.scopes) /\ \A x \in Range(o.passages) : x.scope # scope

\* Messages of one project that the caller may be given, charged likewise.
LEMMA ChargedPassages ==
    ASSUME NEW q \in Requests, NEW o, NEW scope, MayTake(q, o, scope), alive \subseteq Sources,
           NEW hits \in Seq(Quotable(q, scope)), IsInjective(hits),
           NEW b, b = Charge(o, q, "passages", hits)
    PROVE  /\ Bundled(b) /\ Inside(q, b) /\ Fits(q, b) /\ Cited(q, b)
           /\ b.facts = o.facts /\ (o.truncated => b.truncated)
           /\ \A x \in Range(b.passages) : x \in Range(o.passages) \/ x.scope = scope
<1>0. /\ Bundled(o) /\ Inside(q, o) /\ Fits(q, o) /\ Cited(q, o)
      /\ scope \in ToSet(q.scopes) /\ \A x \in Range(o.passages) : x.scope # scope
  BY DEF MayTake
<1>1. PICK left : left = q.budget - o.spent
  OBVIOUS
<1>2. PICK kept : kept = Fitting(hits, left)
  OBVIOUS
<1>3. PICK new : new = o.passages \o kept
  OBVIOUS
<1>4. PICK n, t : n = o.spent + Cost(kept) /\ t = (o.truncated \/ Len(kept) < Len(hits))
  OBVIOUS
<1>5. b = WithPassages(o, new, n, t)
  <2>1. b = [o EXCEPT !["passages"] = @ \o kept,
                      !.spent = @ + Cost(kept),
                      !.truncated = @ \/ Len(kept) < Len(hits)]
    BY <1>1, <1>2 DEF Charge
  <2> QED BY <1>3, <1>4, <2>1 DEF WithPassages
<1>6. /\ Bundled(b) /\ b.anchors = o.anchors /\ b.meant = o.meant /\ b.facts = o.facts
      /\ b.reports = o.reports /\ b.passages = new /\ b.spent = n /\ b.truncated = t
  BY <1>0, <1>5, Quoting
<1>7. /\ Priced(o.facts) /\ Priced(o.reports) /\ Priced(o.passages)
      /\ o.spent = Cost(o.facts) + Cost(o.reports) + Cost(o.passages)
      /\ o.spent \in Nat /\ o.spent <= q.budget /\ q.budget \in Nat
      /\ \A i, j \in DOMAIN o.facts : Found(o.facts[i]).c = Found(o.facts[j]).c => i = j
      /\ IsInjective(o.reports) /\ IsInjective(o.passages)
  BY <1>0, RecallAssumption DEF Fits
<1>8. left \in Nat
  BY <1>1, <1>7
<1>9. /\ Priced(hits) /\ \A x \in Range(hits) : x.scope = scope /\ Admits(q, x)
  <2>1. Quotable(q, scope) \subseteq Sources \cup Reports
    BY DEF Quotable
  <2>2. Priced(hits) /\ Range(hits) \subseteq Quotable(q, scope)
    BY <2>1, SearchedIsPriced
  <2>3. \A x \in Quotable(q, scope) : x.scope = scope /\ Admits(q, x)
    BY <1>0 DEF Quotable, Admits
  <2> QED BY <2>2, <2>3
<1>10. /\ Priced(new) /\ IsInjective(new) /\ Range(new) \subseteq Range(o.passages) \cup Range(hits)
       /\ Cost(new) = Cost(o.passages) + Cost(kept)
       /\ Cost(kept) \in Nat /\ Cost(kept) <= left /\ Cost(o.passages) \in Nat
  <2>1. PICK old : old = o.passages
    OBVIOUS
  <2>2. Priced(old) /\ IsInjective(old) /\ \A x \in Range(old) : x.scope # scope
    BY <1>0, <1>7, <2>1
  <2>3. /\ Priced(new) /\ IsInjective(new) /\ Range(new) \subseteq Range(old) \cup Range(hits)
        /\ Cost(new) = Cost(old) + Cost(kept)
        /\ Cost(kept) \in Nat /\ Cost(kept) <= left /\ Cost(old) \in Nat
    <3>1. Elsewhere(old, scope) /\ OfScope(hits, scope)
      BY <1>9, <2>2 DEF Elsewhere, OfScope
    <3>2. new = old \o kept
      BY <1>3, <2>1
    <3>3. Priced(old) /\ IsInjective(old) /\ Priced(hits) /\ IsInjective(hits)
      BY <1>9, <2>2
    <3>4. Joined(old, hits, left, kept, new)
      BY <1>2, <1>8, <3>1, <3>2, <3>3, HitsAppended
    <3> QED BY <3>4 DEF Joined
  <2> QED BY <2>1, <2>3
<1>11. Cost(o.facts) \in Nat /\ Cost(o.reports) \in Nat
  BY <1>7, CostIsNatural
<1>12. /\ b.spent = Cost(b.facts) + Cost(b.reports) + Cost(b.passages)
       /\ b.spent \in Nat /\ b.spent <= q.budget
  <2>1. PICK f, r, p, k, s, w : /\ f = Cost(o.facts) /\ r = Cost(o.reports) /\ p = Cost(o.passages)
                                /\ k = Cost(kept) /\ s = o.spent /\ w = q.budget
    OBVIOUS
  <2>2. /\ f \in Nat /\ r \in Nat /\ p \in Nat /\ k \in Nat /\ s \in Nat /\ w \in Nat
        /\ s = f + r + p /\ k <= w - s
    BY <1>1, <1>7, <1>10, <1>11, <2>1
  <2>3. s + k = f + r + (p + k) /\ s + k \in Nat /\ s + k <= w
    BY <2>2
  <2>4. b.spent = s + k /\ Cost(b.facts) = f /\ Cost(b.reports) = r /\ Cost(b.passages) = p + k
    BY <1>4, <1>6, <1>10, <2>1
  <2> QED BY <2>1, <2>3, <2>4
<1>13. Fits(q, b)
  BY <1>6, <1>7, <1>10, <1>12 DEF Fits
<1>14. \A x \in Range(b.passages) : x \in Range(o.passages) \/ (x.scope = scope /\ Admits(q, x))
  BY <1>6, <1>9, <1>10
<1>15. Inside(q, b)
  BY <1>0, <1>6, <1>14 DEF Inside
<1>16. Cited(q, b)
  BY <1>0, <1>6 DEF Cited
<1>17. o.truncated => b.truncated
  BY <1>4, <1>6, Zenon
<1> QED BY <1>6, <1>13, <1>14, <1>15, <1>16, <1>17

\* The passages of one more project are read.
LEMMA PassagesCarry ==
    ASSUME Under(answer), ReadPassages, StoreInv
    PROVE  Carried
<1>1. answer.at = "passages"
  BY DEF ReadPassages
<1>2. PICK q, known, left, from, o : /\ q = answer.q /\ known = answer.known /\ left = answer.left
                                    /\ from = answer.from /\ o = answer.bundle
  OBVIOUS
<1>3. PICK hits \in Rankings(Quotable(q, Head(left)), MaxPassageHits) :
         NextScope("passages", "done", Charge(o, q, "passages", hits))
  BY <1>2 DEF ReadPassages
<1>5. PICK scope : scope = Head(left)
  OBVIOUS
<1>7. PICK b : b = Charge(o, q, "passages", hits)
  OBVIOUS
<1>8. /\ Bundled(o) /\ q \in Requests /\ known \in {None} \cup Instants
      /\ Inside(q, o) /\ Fits(q, o) /\ Cited(q, o) /\ q.scopes # << >>
      /\ left \in Seq(Range(left)) /\ left # << >> /\ IsInjective(left)
      /\ Range(left) \subseteq ToSet(q.scopes)
      /\ \A s \in Range(o.passages) : s.scope \notin Range(left)
  BY <1>1, <1>2 DEF Under, Composing
<1>9. PICK rest : rest = Tail(left)
  OBVIOUS
<1>10. /\ scope \in Range(left) /\ scope \notin Range(rest)
       /\ rest \in Seq(Range(rest)) /\ IsInjective(rest) /\ Range(rest) \subseteq Range(left)
       /\ Len(left) # 1 => rest # << >>
  BY <1>5, <1>8, <1>9, TailOfLeft
<1>11. hits \in Seq(Quotable(q, scope)) /\ IsInjective(hits)
  <2>1. MaxPassageHits \in Nat
    BY RecallAssumption
  <2> QED BY <1>3, <1>5, <2>1, RankingsAreLists
<1>12. /\ Bundled(b) /\ Inside(q, b) /\ Fits(q, b) /\ Cited(q, b)
       /\ b.facts = o.facts /\ (o.truncated => b.truncated)
       /\ \A x \in Range(b.passages) : x \in Range(o.passages) \/ x.scope = scope
  <2>1. scope \in ToSet(q.scopes) /\ \A x \in Range(o.passages) : x.scope # scope
    BY <1>8, <1>10
  <2>2. MayTake(q, o, scope)
    BY <1>8, <2>1 DEF MayTake
  <2>3. alive \subseteq Sources
    BY DEF StoreInv
  <2> QED BY <1>7, <1>8, <1>11, <2>2, <2>3, ChargedPassages
<1>14. Composing(q, known, "done", q.scopes, from, b)
  BY <1>8, <1>12 DEF Composing
<1>15. Len(left) # 1 => Composing(q, known, "passages", rest, from, b)
  <2>1. \A r \in Range(b.passages) : r.scope \notin Range(rest)
    BY <1>8, <1>10, <1>12
  <2>2. Range(rest) \subseteq ToSet(q.scopes)
    BY <1>8, <1>10
  <2> QED BY <1>8, <1>10, <1>12, <2>1, <2>2 DEF Composing
<1>16. NextScope("passages", "done", b)
  BY <1>3, <1>7
<1>17. CASE Len(left) = 1
  <2>1. Continue("done", b, q.scopes)
    BY <1>2, <1>16, <1>17 DEF NextScope
  <2> QED BY <1>2, <1>12, <1>14, <2>1, ContinueCarries
<1>18. CASE Len(left) # 1
  <2>1. Continue("passages", b, rest)
    BY <1>2, <1>9, <1>16, <1>18 DEF NextScope
  <2> QED BY <1>2, <1>12, <1>15, <1>18, <2>1, ContinueCarries
<1> QED BY <1>17, <1>18

\* A question begins with nothing given; once an answer is kept it is asked as it was asked then.
LEMMA QuestionsCarry ==
    ASSUME NEW q \in Requests, NEW known \in {None} \cup Instants, NEW semantic, Ask(q, known, semantic)
    PROVE  /\ Under(answer') /\ answer'.q = q /\ answer'.known = known /\ answer'.from = {}
           /\ answer'.bundle.facts = << >>
<1>1. PICK at : at = IF q.scopes = << >> THEN "done" ELSE "anchors"
  OBVIOUS
<1>2. answer' = [at |-> at, q |-> q, known |-> known,
                 semantic |-> semantic, asked |-> clock, unmatched |-> TRUE, left |-> q.scopes,
                 from |-> {}, bundle |-> Empty]
  BY <1>1 DEF Ask
<1>3. PICK u : u = TRUE
  OBVIOUS
<1>4. answer' = [at |-> at, q |-> q, known |-> known,
                 semantic |-> semantic, asked |-> clock, unmatched |-> u, left |-> q.scopes,
                 from |-> {}, bundle |-> Empty]
  BY <1>2, <1>3
<1>5. /\ Entire(answer') /\ answer'.q = q /\ answer'.known = known /\ answer'.from = {}
      /\ answer'.bundle = Empty /\ answer'.at = at /\ answer'.left = q.scopes
  BY <1>4 DEF Entire
<1>6. PICK b : b = Empty
  OBVIOUS
<1>7. Bundled(b) /\ Unspent(b) /\ b.anchors = {} /\ b.meant = {}
  BY <1>6, EmptyBundle DEF Unspent
<1>8. Inside(q, b) /\ Fits(q, b)
  BY <1>7, UnspentBundle
<1>9. Cited(q, b)
  BY <1>7 DEF Cited
<1>10. at \in {"anchors", "done"} /\ (at # "done" => q.scopes # << >>)
  BY <1>1
<1>11. Composing(q, known, at, q.scopes, {}, b)
  BY <1>7, <1>8, <1>9, <1>10 DEF Composing
<1> QED BY <1>5, <1>6, <1>7, <1>11 DEF Under, Unspent

\* The steps of an answer but the question and the reading of the facts.
Answering ==
    \/ ReadAnchors \/ (\E found \in SUBSET Entities : Propose(found)) \/ ProposeFails
    \/ ReadReports \/ ReportsFail \/ SkipPassages \/ ReadPassages \/ PassagesFail \/ Return

\* Each of them carries the answer on and leaves the store alone.
LEMMA AnswersCarry ==
    ASSUME StoreInv, AnswerInv, Answering
    PROVE  Carried /\ UNCHANGED store /\ told' = told /\ answer # NoAnswer
<1>1. UNCHANGED store /\ told' = told
  BY DEF Answering, ReadAnchors, Propose, ProposeFails, ReadReports, ReportsFail,
         SkipPassages, ReadPassages, PassagesFail, Return
<1>2. NoAnswer.at = "idle"
  BY DEF NoAnswer
<1>3. answer.at # "idle"
  BY DEF Answering, ReadAnchors, Propose, ProposeFails, ReadReports, ReportsFail,
         SkipPassages, ReadPassages, PassagesFail, Return
<1>4. answer # NoAnswer
  BY <1>2, <1>3
<1>5. Under(answer)
  BY <1>4 DEF AnswerInv
<1> SUFFICES Carried
  BY <1>1, <1>4
<1>6. CASE Return
  BY <1>6 DEF Return, Carried
<1>7. CASE \E found \in SUBSET Entities : Propose(found)
  <2>1. PICK found : Propose(found)
    BY <1>7
  <2> QED BY <1>5, <2>1, ProposalsCarry
<1>8. CASE ReadAnchors
  BY <1>5, <1>8, AnchorsCarry
<1>9. CASE ProposeFails
  BY <1>5, <1>9, FailedProposalsCarry
<1>10. CASE ReadReports
  BY <1>5, <1>10, ReportsCarry
<1>11. CASE ReportsFail
  BY <1>5, <1>11, FailedReportsCarry
<1>12. CASE SkipPassages
  BY <1>5, <1>12, SkippedPassagesCarry
<1>13. CASE ReadPassages
  BY <1>5, <1>13, PassagesCarry
<1>14. CASE PassagesFail
  BY <1>5, <1>14, FailedPassagesCarry
<1> QED BY <1>6, <1>7, <1>8, <1>9, <1>10, <1>11, <1>12, <1>13, <1>14 DEF Answering

\* What a step may do to answers.
Moves ==
    \/ UNCHANGED <<answer, told>> /\ \/ \E c \in Claims, kind \in {"assert", "retract"} : StartWrite(kind, c)
                                     \/ CommitAssert \/ CommitRetract \/ UNCHANGED vars
    \/ answer' = answer /\ told' = None
    \/ /\ \E q \in Requests, known \in {None} \cup Instants, semantic \in BOOLEAN : Ask(q, known, semantic)
       /\ UNCHANGED store /\ told' = told
    \/ Answering
    \/ ReadFacts /\ UNCHANGED store

\* There are no other steps.
LEMMA StepsOfRecall ==
    ASSUME [RNext]_vars
    PROVE  Moves
<1>1. CASE UNCHANGED vars
  BY <1>1 DEF vars, Moves
<1>2. CASE \E c \in Claims : StartWrite("assert", c) \/ StartWrite("retract", c)
  <2>1. PICK c \in Claims, kind \in {"assert", "retract"} : StartWrite(kind, c)
    BY <1>2
  <2>2. UNCHANGED <<answer, told>>
    BY <2>1 DEF StartWrite
  <2> QED BY <2>1, <2>2 DEF Moves
<1>3. CASE CommitAssert \/ CommitRetract
  <2>1. UNCHANGED <<answer, told>>
    BY <1>3 DEF CommitAssert, CommitRetract
  <2> QED BY <1>3, <2>1 DEF Moves
<1>4. CASE (\E s \in Sources : Erase(s)) \/ Lapse
  <2>1. answer' = answer /\ told' = None
    BY <1>4 DEF Erase, Lapse
  <2> QED BY <2>1 DEF Moves
<1>5. CASE \E q \in Requests, known \in {None} \cup Instants, semantic \in BOOLEAN : Ask(q, known, semantic)
  <2>1. UNCHANGED store /\ told' = told
    BY <1>5 DEF Ask
  <2> QED BY <1>5, <2>1 DEF Moves
<1>6. CASE Answering
  BY <1>6 DEF Moves
<1>7. CASE ReadFacts
  <2>1. UNCHANGED store
    BY <1>7 DEF ReadFacts
  <2> QED BY <1>7, <2>1 DEF Moves
<1> QED BY <1>1, <1>2, <1>3, <1>4, <1>5, <1>6, <1>7 DEF RNext, Answering

\* The facts are read for an answer under way.
LEMMA FactsAreRead ==
    ASSUME AnswerInv, ReadFacts
    PROVE  Under(answer) /\ answer # NoAnswer
<1>1. NoAnswer.at = "idle"
  BY DEF NoAnswer
<1>2. answer.at = "facts"
  BY DEF ReadFacts
<1> QED BY <1>1, <1>2 DEF AnswerInv

\* Every step leaves the answer under way in order.
LEMMA AnswerStep ==
    ASSUME StoreInv, AnswerInv, [RNext]_vars
    PROVE  AnswerInv'
<1>1. Moves
  BY StepsOfRecall
<1>2. SUFFICES answer' = NoAnswer \/ Under(answer')
  BY DEF AnswerInv
<1>3. CASE answer' = answer
  BY <1>3 DEF AnswerInv
<1>4. CASE \E q \in Requests, known \in {None} \cup Instants, semantic \in BOOLEAN : Ask(q, known, semantic)
  <2>1. PICK q \in Requests, known \in {None} \cup Instants, semantic \in BOOLEAN : Ask(q, known, semantic)
    BY <1>4
  <2> QED BY <2>1, QuestionsCarry
<1>5. CASE Answering
  BY <1>5, AnswersCarry DEF Carried
<1>6. CASE ReadFacts
  <2>1. Under(answer)
    BY <1>6, FactsAreRead
  <2> QED BY <1>6, <2>1, FactsCarry
<1> QED BY <1>1, <1>3, <1>4, <1>5, <1>6 DEF Moves

\* Where the same versions are seen, the statement gives the same lists.
LEMMA OwedStands ==
    ASSUME NEW q, NEW known, NEW from, NEW facts, NEW cut,
           Visible(q, known)' = Visible(q, known), Owed(q, known, from, facts, cut)
    PROVE  Owed(q, known, from, facts, cut)'
<1>1. PICK V : V = Visible(q, known)
  OBVIOUS
<1>2. Visible(q, known)' = V
  BY <1>1
<1>3. FactLists(q, known, from) = ListsIn(V, q, from)
  BY <1>1, ListsAreOfWhatIsSeen
<1>4. FactLists(q, known, from)' = ListsIn(V, q, from)
  <2>1. \A e : Edges(q, known, e)' = EdgesIn(V, e)
    BY <1>2 DEF Edges, EdgesIn
  <2>2. \A w : Steps(q, known, w)' = StepsIn(V, w)
    BY <2>1 DEF Steps, StepsIn
  <2>3. Walks(q, known, from)' = WalksIn(V, q, from)
    BY <2>2 DEF Walks, WalksIn, OneStep
  <2> QED BY <2>3 DEF FactLists, ListsIn, ListsOver, Ahead
<1> QED BY <1>3, <1>4 DEF Owed

\* The same rows and the same retention show the same versions.
LEMMA SameRowsAreSeen ==
    ASSUME UNCHANGED <<rows, past, lapsed>>, NEW q, NEW known
    PROVE  Visible(q, known)' = Visible(q, known)
<1>1. Believed(known)' = Believed(known)
  BY DEF Believed
<1>2. \A s : Retained(s)' <=> Retained(s)
  BY DEF Retained
<1> QED BY <1>1, <1>2 DEF Visible


\* A kept answer stays what would be said of its moment, through every write that commits.
LEMMA ToldStands ==
    ASSUME StoreInv, ToldInv, told' = told, told # None,
           \/ \E c \in Claims, kind \in {"assert", "retract"} : StartWrite(kind, c)
           \/ CommitAssert \/ CommitRetract \/ UNCHANGED store
    PROVE  /\ told'.q \in Requests /\ told'.from # {}
           /\ told'.asked \in 1 .. clock' /\ (writer' # None => told'.asked < clock')
           /\ Owed(told.q, told.asked, told.from, told.facts, told.truncated)'
<1>1. PICK q, k, from, facts, cut : /\ q = told.q /\ k = told.asked /\ from = told.from
                                    /\ facts = told.facts /\ cut = told.truncated
  OBVIOUS
<1>2. /\ q \in Requests /\ from # {} /\ k \in 1 .. clock /\ (writer # None => k < clock)
      /\ Owed(q, k, from, facts, cut)
  BY <1>1 DEF ToldInv
<1>3. clock \in Nat /\ k \in Nat
  BY <1>2, Bounds
<1>4. CASE \E c \in Claims, kind \in {"assert", "retract"} : StartWrite(kind, c)
  <2>1. UNCHANGED <<rows, past, lapsed>> /\ clock' = clock + 1
    BY <1>4 DEF StartWrite
  <2>2. Visible(q, k)' = Visible(q, k)
    BY <2>1, SameRowsAreSeen
  <2>3. Owed(q, k, from, facts, cut)'
    BY <1>2, <2>2, OwedStands
  <2>4. k \in 1 .. clock' /\ k < clock'
    BY <1>2, <1>3, <2>1
  <2> QED BY <1>1, <1>2, <2>3, <2>4
<1>5. CASE CommitAssert \/ CommitRetract
  <2>1. writer # None /\ writer' = None /\ clock' = clock
    BY <1>5 DEF CommitAssert, CommitRetract
  <2>2. Visible(q, k)' = Visible(q, k)
    BY <1>2, <1>3, <1>5, <2>1, WhatWasSeenStands
  <2>3. Owed(q, k, from, facts, cut)'
    BY <1>2, <2>2, OwedStands
  <2> QED BY <1>1, <1>2, <2>1, <2>3
<1>6. CASE UNCHANGED store
  <2>1. UNCHANGED <<rows, past, lapsed, clock, writer>>
    BY <1>6 DEF store
  <2>2. Visible(q, k)' = Visible(q, k)
    BY <2>1, SameRowsAreSeen
  <2>3. Owed(q, k, from, facts, cut)'
    BY <1>2, <2>2, OwedStands
  <2> QED BY <1>1, <1>2, <2>1, <2>3
<1> QED BY <1>4, <1>5, <1>6

\* What is kept is what any run of the statement would have said, of the present by its own clock.
LEMMA ToldBegins ==
    ASSUME StoreInv, NEW q \in Requests, NEW from \in SUBSET Entities,
           NEW list \in FactLists(q, None, from),
           NEW facts, facts = Account(Kept(q, list)), NEW cut, cut = Shortened(q, list)
    PROVE  Owed(q, clock, from, facts, cut)
<1>1. PICK V : V = Visible(q, None)
  OBVIOUS
<1>2. Visible(q, clock) = V
  <2>1. Believed(None) = Believed(clock)
    BY ThePresent
  <2> QED BY <1>1, <2>1 DEF Visible
<1>3. Versions(V)
  BY <1>1, OneVersionEach
<1>4. list \in ListsIn(V, q, from)
  BY <1>1, ListsAreOfWhatIsSeen
<1>5. FactLists(q, clock, from) = ListsIn(V, q, from)
  BY <1>2, ListsAreOfWhatIsSeen
<1>6. ASSUME NEW l \in ListsIn(V, q, from)
      PROVE  Agree(Account(Kept(q, l)), Shortened(q, l), facts, cut)
  BY <1>3, <1>4, SameAccount
<1> QED BY <1>5, <1>6 DEF Owed

\* Every step leaves the kept answer, and the answer being given again, in agreement.
LEMMA ToldStep ==
    ASSUME StoreInv, AnswerInv, ToldInv, [RNext]_vars
    PROVE  ToldInv'
<1>1. Moves
  BY StepsOfRecall
<1>2. SUFFICES ASSUME told' # None PROVE ToldInv'
  BY DEF ToldInv
<1> DEFINE Held == /\ told'.q \in Requests /\ told'.from # {}
                    /\ told'.asked \in 1 .. clock' /\ (writer' # None => told'.asked < clock')
                    /\ Owed(told.q, told.asked, told.from, told.facts, told.truncated)'
           Agrees == answer' # NoAnswer /\ answer'.known # None =>
                       /\ answer'.q = told'.q /\ answer'.known = told'.asked
                       /\ answer'.from = told'.from =>
                            Agree(Account(answer'.bundle.facts), answer'.bundle.truncated,
                                  told'.facts, told'.truncated)
<1>3. SUFFICES Held /\ Agrees
  BY DEF ToldInv
<1>4. ASSUME told' = told PROVE /\ told.asked # None /\ told.from # {} /\ told.q \in Requests
                                /\ answer # NoAnswer /\ answer.known # None =>
                                     /\ answer.q = told'.q /\ answer.known = told'.asked
                                     /\ answer.from = told'.from =>
                                          Agree(Account(answer.bundle.facts), answer.bundle.truncated,
                                                told'.facts, told'.truncated)
  <2>1. told.asked \in Int /\ None \notin Int
    BY <1>2, <1>4, Bounds DEF ToldInv
  <2> QED BY <1>2, <1>4, <2>1 DEF ToldInv
<1>5. CASE /\ UNCHANGED <<answer, told>>
           /\ \/ \E c \in Claims, kind \in {"assert", "retract"} : StartWrite(kind, c)
              \/ CommitAssert \/ CommitRetract \/ UNCHANGED vars
  <2>1. UNCHANGED vars => UNCHANGED store
    BY DEF vars, store
  <2>2. Held
    BY <1>2, <1>5, <2>1, ToldStands
  <2>3. Agrees
    BY <1>4, <1>5
  <2> QED BY <2>2, <2>3
<1>6. CASE UNCHANGED store /\ told' = told /\ Answering
  <2>1. Held
    BY <1>2, <1>6, ToldStands
  <2>2. Carried /\ answer # NoAnswer
    BY <1>6, AnswersCarry
  <2>3. Agrees
    <3>1. CASE answer' = NoAnswer
      BY <3>1
    <3>2. CASE answer' # NoAnswer
      <4>1. /\ answer'.q = answer.q /\ answer'.known = answer.known
            /\ answer'.from = answer.from /\ answer'.bundle.facts = answer.bundle.facts
            /\ answer.bundle.truncated => answer'.bundle.truncated
        BY <2>2, <3>2 DEF Carried
      <4> QED BY <1>4, <1>6, <2>2, <4>1 DEF Agree
    <3> QED BY <3>1, <3>2
  <2> QED BY <2>1, <2>3
<1>7. CASE /\ \E q \in Requests, known \in {None} \cup Instants, semantic \in BOOLEAN : Ask(q, known, semantic)
           /\ UNCHANGED store /\ told' = told
  <2>1. Held
    BY <1>2, <1>7, ToldStands
  <2>2. PICK q \in Requests, known \in {None} \cup Instants, semantic \in BOOLEAN : Ask(q, known, semantic)
    BY <1>7
  <2>3. q = told.q /\ known = told.asked
    BY <1>2, <1>7, <2>2 DEF Ask
  <2>4. answer'.q = q /\ answer'.known = known /\ answer'.from = {}
    BY <2>2, QuestionsCarry
  <2>5. Agrees
    BY <1>4, <1>7, <2>3, <2>4
  <2> QED BY <2>1, <2>5
<1>8. CASE ReadFacts /\ UNCHANGED store
  <2>1. Under(answer) /\ answer # NoAnswer
    BY <1>8, FactsAreRead
  <2>2. /\ answer'.q = answer.q /\ answer'.known = answer.known
        /\ answer'.from = answer.bundle.anchors /\ answer'.from # {}
        /\ answer'.from \in SUBSET Entities /\ Remembers
    BY <1>8, <2>1, FactsCarry
  <2>3. PICK list \in FactLists(answer.q, answer.known, answer.bundle.anchors) :
              /\ answer'.bundle.facts = Kept(answer.q, list)
              /\ answer'.bundle.truncated = Shortened(answer.q, list)
    BY <1>8, <2>1, FactsCarry DEF Shortened
  <2>4. CASE told' = told
    <3>1. Held
      BY <1>2, <1>8, <2>4, ToldStands
    <3>2. ASSUME answer.known # None, answer.bundle.anchors = told.from
          PROVE  Agree(Account(answer'.bundle.facts), answer'.bundle.truncated,
                       told.facts, told.truncated)
      <4>1. answer.q = told.q /\ answer.known = told.asked
        BY <1>4, <2>1, <2>4, <3>2
      <4>2. Owed(told.q, told.asked, told.from, told.facts, told.truncated)
        BY <1>2, <2>4 DEF ToldInv
      <4>3. list \in FactLists(told.q, told.asked, told.from)
        BY <2>3, <3>2, <4>1
      <4>4. Agree(Account(Kept(told.q, list)), Shortened(told.q, list), told.facts, told.truncated)
        BY <4>2, <4>3 DEF Owed
      <4> QED BY <2>3, <4>1, <4>4
    <3>3. Agrees
      BY <1>4, <2>1, <2>2, <2>4, <3>2
    <3> QED BY <3>1, <3>3
  <2>5. CASE told' # told
    <3>1. /\ told = None /\ writer = None /\ answer.known = None
          /\ told'.q = answer.q /\ told'.asked = clock /\ told'.from = answer.bundle.anchors
          /\ told'.facts = Account(answer'.bundle.facts)
          /\ told'.truncated = answer'.bundle.truncated
      BY <2>2, <2>5 DEF Remembers
    <3>2. UNCHANGED <<rows, past, lapsed, clock, writer>>
      BY <1>8 DEF store
    <3>3. PICK q, k, from, facts, cut : /\ q = told'.q /\ k = told'.asked /\ from = told'.from
                                        /\ facts = told'.facts /\ cut = told'.truncated
      OBVIOUS
    <3>4. q \in Requests
      BY <2>1, <3>1, <3>3 DEF Under, Composing
    <3>5. /\ list \in FactLists(q, None, from) /\ facts = Account(Kept(q, list))
          /\ cut = Shortened(q, list) /\ from \in SUBSET Entities
      BY <2>2, <2>3, <3>1, <3>3
    <3>6. Owed(q, clock, from, facts, cut)
      BY <3>4, <3>5, ToldBegins
    <3>7. Owed(q, k, from, facts, cut)'
      <4>1. Visible(q, k)' = Visible(q, k)
        BY <3>2, SameRowsAreSeen
      <4>2. k = clock
        BY <3>1, <3>3
      <4> QED BY <3>6, <4>1, <4>2, OwedStands
    <3>8. clock \in 1 .. clock /\ writer' = None /\ clock' = clock
      BY <3>1, <3>2, Bounds DEF StoreInv
    <3>9. Held
      BY <2>2, <3>1, <3>3, <3>4, <3>7, <3>8
    <3>10. Agrees
      BY <2>2, <3>1
    <3> QED BY <3>9, <3>10
  <2> QED BY <2>4, <2>5
<1> QED BY <1>1, <1>2, <1>5, <1>6, <1>7, <1>8, AnswersCarry DEF Moves

\* The invariant holds at first,
LEMMA RecallBegins == RInit => RecallInv
<1> SUFFICES ASSUME RInit PROVE RecallInv
  OBVIOUS
<1>1. AnswerInv /\ ToldInv
  BY DEF RInit, AnswerInv, ToldInv
<1> QED BY <1>1, StoreBegins DEF RecallInv

\* and after every step.
LEMMA RecallGoesOn == RecallInv /\ [RNext]_vars => RecallInv'
BY StoreStep, AnswerStep, ToldStep DEF RecallInv

\* In every reachable state the store, the answer under way and the answer kept are in order.
THEOREM RecallInvariant == RSpec => []RecallInv
<1> QED BY RecallBegins, RecallGoesOn, PTL DEF RSpec

\* It implies each of the properties.
LEMMA InOrderIsInside == RecallInv => AnswersStayInside
<1> SUFFICES ASSUME RecallInv, answer # NoAnswer PROVE AnswersStayInside
  BY DEF AnswersStayInside
<1>1. PICK q, b : q = answer.q /\ b = answer.bundle
  OBVIOUS
<1>2. Inside(q, b) /\ (answer.at = "done" => Cited(q, b))
  BY <1>1 DEF RecallInv, AnswerInv, Under, Composing
<1>3. PICK given : given = {Found(w).c : w \in Range(b.facts)}
  OBVIOUS
<1>4. \A c \in given : CoDerived(b.facts)[c] \subseteq given
  BY <1>3 DEF CoDerived
<1> QED BY <1>1, <1>2, <1>3, <1>4 DEF AnswersStayInside, Inside, Cited

\* Nobody's words but those the caller may be given, in any bundle, under way or finished.
THEOREM AnswersAlwaysStayInside == RSpec => []AnswersStayInside
<1> QED BY RecallInvariant, InOrderIsInside, PTL

LEMMA InOrderFits == RecallInv => AnswersFit
BY DEF RecallInv, AnswerInv, Under, Composing, Fits, AnswersFit

\* What is charged is what is given, nothing twice, and never more than the budget.
THEOREM AnswersAlwaysFit == RSpec => []AnswersFit
<1> QED BY RecallInvariant, InOrderFits, PTL

LEMMA InOrderStands == RecallInv => PastAnswersStand
<1> SUFFICES ASSUME RecallInv, answer.at = "done", told # None, answer.known # None, answer.from = told.from
             PROVE  Agree(Account(answer.bundle.facts), answer.bundle.truncated,
                          told.facts, told.truncated)
  BY DEF PastAnswersStand
<1>1. NoAnswer.at = "idle"
  BY DEF NoAnswer
<1>2. answer # NoAnswer
  BY <1>1
<1> QED BY <1>2 DEF RecallInv, ToldInv

\* An answer about an earlier instant is the answer that was given then; where the two differ one of
\* them stops sooner and says that it was cut.
THEOREM PastAnswersAlwaysStand == RSpec => []PastAnswersStand
<1> QED BY RecallInvariant, InOrderStands, PTL

\* The step that reads the facts is the only one from there to another surface.
LEMMA OnlyReadingFactsGoesOn ==
    ASSUME RecallInv, [RNext]_vars, answer.at = "facts", answer'.at # "facts", answer' # NoAnswer
    PROVE  ReadFacts
<1>1. Moves
  BY StepsOfRecall
<1>2. NoAnswer.at = "idle"
  BY DEF NoAnswer
<1>3. answer # NoAnswer
  BY <1>2
<1>4. CASE answer' = answer
  BY <1>4
<1>5. CASE \E q \in Requests, known \in {None} \cup Instants, semantic \in BOOLEAN : Ask(q, known, semantic)
  BY <1>3, <1>5 DEF Ask
<1>6. CASE Answering
  BY <1>6 DEF Answering, ReadAnchors, Propose, ProposeFails, ReadReports, ReportsFail, SkipPassages,
              ReadPassages, PassagesFail, Return
<1> QED BY <1>1, <1>4, <1>5, <1>6 DEF Moves

\* It hands over all that is near, if nothing was cut.
LEMMA ReadingIsComplete ==
    ASSUME RecallInv, ReadFacts, ~answer'.bundle.truncated, ~Crowded(answer.q, answer.known)
    PROVE  {Found(w) : w \in Range(answer'.bundle.facts)}
             = Near(answer.q, answer.known, answer.bundle.anchors)
<1>1. Under(answer) /\ answer # NoAnswer /\ StoreInv
  BY FactsAreRead DEF RecallInv
<1>2. PICK q, known, anchors : q = answer.q /\ known = answer.known /\ anchors = answer.bundle.anchors
  OBVIOUS
<1>3. /\ answer.at = "facts" /\ q \in Requests /\ known \in {None} \cup Instants
      /\ anchors \in SUBSET Entities
  BY <1>1, <1>2 DEF ReadFacts, Under, Composing
<1>4. PICK V : V = Visible(q, known)
  OBVIOUS
<1>5. Versions(V)
  <2>1. known \in {None} \cup Int
    BY <1>3, Bounds
  <2> QED BY <1>1, <1>4, <2>1, OneVersionEach
<1>6. PICK list \in FactLists(q, known, anchors) :
        /\ answer'.bundle.facts = Kept(q, list)
        /\ answer'.bundle.truncated = (Len(Kept(q, list)) < Len(list))
  BY <1>1, <1>2, FactsCarry
<1>7. list \in ListsIn(V, q, anchors)
  BY <1>4, <1>6, ListsAreOfWhatIsSeen
<1>8. PICK kept : kept = Kept(q, list)
  OBVIOUS
<1>9. ~(Len(kept) < Len(list))
  BY <1>6, <1>8
<1>10. Range(kept) = Range(list)
  BY <1>3, <1>5, <1>7, <1>8, <1>9, KeptFacts
<1>11. Sparse(V) /\ Near(q, known, anchors) = NearIn(V, q, anchors)
  BY <1>2, <1>4, <1>5, NearIsOfWhatIsSeen
<1>12. {Found(w) : w \in Range(list)} = {Found(w) : w \in WalksIn(V, q, anchors)}
  BY <1>3, <1>5, <1>7, ListsNameAll
<1>13. {Found(w) : w \in WalksIn(V, q, anchors)} = NearIn(V, q, anchors)
  BY <1>3, <1>5, <1>11, WalksFindWhatIsNear
<1> QED BY <1>2, <1>6, <1>8, <1>10, <1>11, <1>12, <1>13

\* An answer that is not marked as cut holds every fact the caller may see within the hops asked for,
\* and no other, unless some entity has more facts than are followed out of one.
THEOREM AnswersAreAlwaysComplete == RSpec => AnswersAreComplete
<1>1. RecallInv /\ RecallInv' /\ [RNext]_vars =>
        [answer.at = "facts" /\ answer'.at # "facts" /\ answer' # NoAnswer
           /\ ~answer'.bundle.truncated /\ ~Crowded(answer.q, answer.known) =>
         {Found(w) : w \in Range(answer'.bundle.facts)}
             = Near(answer.q, answer.known, answer.bundle.anchors)]_vars
  BY OnlyReadingFactsGoesOn, ReadingIsComplete
<1> QED BY <1>1, RecallInvariant, PTL DEF RSpec, AnswersAreComplete
=============================================================================
