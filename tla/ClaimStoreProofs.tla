--------------------------- MODULE ClaimStoreProofs ---------------------------
(* Proofs about ClaimStore, for every set of sources, claims and writers, every    *)
(* horizon and every number of generations: a slot of cardinality one never had    *)
(* two answers, what people withdrew or corrected stays so, what is believed of a  *)
(* source comes from one extraction of it, and an erased source leaves nothing.    *)
EXTENDS ClaimStore, FiniteSetTheorems, WellFoundedInduction, TLAPS

-----------------------------------------------------------------------------
(* Spans: the rectangle of a row, true from vf to vt and known from kf to kt. *)

IsSpan(x) == x.vf \in Int /\ x.vt \in Int /\ x.kf \in Int /\ x.kt \in Int
Apart(x, y) == ~(Overlap(x.vf, x.vt, y.vf, y.vt) /\ Overlap(x.kf, x.kt, y.kf, y.kt))
Inside(x, y) == y.vf <= x.vf /\ x.vt <= y.vt /\ y.kf <= x.kf /\ x.kt <= y.kt

\* Spans that lie inside spans that are apart are apart.
LEMMA InsideStaysApart ==
    ASSUME NEW x, NEW y, NEW u, NEW v, IsSpan(x), IsSpan(y), IsSpan(u), IsSpan(v),
           Inside(x, u), Inside(y, v), Apart(u, v)
    PROVE  Apart(x, y)
BY DEF IsSpan, Apart, Inside, Overlap

LEMMA ApartIsSymmetric ==
    ASSUME NEW x, NEW y, Apart(x, y)
    PROVE  Apart(y, x)
BY DEF Apart, Overlap

-----------------------------------------------------------------------------
(* Least and greatest *)

\* A non-empty set of naturals has a least element, and Min is it.
LEMMA MinIsLeast ==
    ASSUME NEW S \in SUBSET Nat, S # {}
    PROVE  Min(S) \in S /\ \A y \in S : Min(S) <= y
<1> DEFINE R == {ss \in Nat \X Nat : ss[1] < ss[2]}
<1>1. IsWellFoundedOn(R, Nat)
  BY NatLessThanWellFounded, Zenon DEF OpToRel
<1>2. \E x \in S : \A y \in S : ~(<<y, x>> \in R)
  BY <1>1, WFMin
<1>3. PICK x \in S : \A y \in S : ~(<<y, x>> \in R)
  BY <1>2
<1>4. \A y \in S : x <= y
  <2> SUFFICES ASSUME NEW y \in S, ~(x <= y) PROVE FALSE
    OBVIOUS
  <2>1. <<y, x>> \in Nat \X Nat /\ y < x
    OBVIOUS
  <2> QED BY <1>3, <2>1
<1> QED BY <1>4 DEF Min

\* A non-empty set of naturals with a bound has a greatest element, and Max is it.
LEMMA MaxIsGreatest ==
    ASSUME NEW m \in Nat, NEW S \in SUBSET (0 .. m), S # {}
    PROVE  Max(S) \in S /\ \A y \in S : Max(S) >= y
<1> DEFINE T == {m - x : x \in S}
<1>1. T \in SUBSET Nat /\ T # {}
  <2>1. \A x \in S : x \in Int /\ m - x \in Nat
    OBVIOUS
  <2> QED BY <2>1
<1>2. Min(T) \in T /\ \A y \in T : Min(T) <= y
  BY <1>1, MinIsLeast
<1>3. PICK x \in S : Min(T) = m - x
  BY <1>2
<1>4. \A y \in S : x >= y
  <2> TAKE y \in S
  <2>1. Min(T) <= m - y
    BY <1>2
  <2> QED BY <1>3, <2>1
<1> QED BY <1>4 DEF Max

-----------------------------------------------------------------------------
(* The book: the rows and the intervals saved when they were superseded. *)

\* What a supersession saves: an interval that was open to the right in validity.
Saved == [id : Identities, vf : Instants, vt : {Never}, kf : Instants, kt : Instants, by : Sources]

RowsOK(f) ==
    /\ DOMAIN f \subseteq Identities
    /\ f \in [DOMAIN f -> Stored]
    /\ \A i \in DOMAIN f : f[i].vf = i.at /\ f[i].vf < f[i].vt /\ f[i].kf < f[i].kt

\* A fact is superseded once at most, and its row tells by whom and since when.
SavedOK(f, h) ==
    /\ h \subseteq Saved
    /\ \A x \in h :
        /\ x.id \in DOMAIN f
        /\ x.vf = x.id.at /\ x.kf < x.kt /\ x.kt = f[x.id].kf /\ x.by = f[x.id].by
        /\ f[x.id].vt < Never
    /\ \A x, y \in h : x.id = y.id => x = y

\* What ended a fact stands, and goes on where it ended, unless it was superseded in turn.
Followed(f, h, i) ==
    \E j \in DOMAIN f :
        /\ j.slot = i.slot /\ j.src = f[i].by /\ f[j].vf = f[i].vt /\ f[j].kf >= f[i].kf
        /\ f[j].vt = Never \/ \E g \in h : g.id = j

ChainedIn(f, h, S) == \A x \in h : x.id.slot \in S => Followed(f, h, x.id)

\* No two spans of a slot meet, saved ones included.
PartedIn(f, h, S) ==
    /\ \A i, j \in DOMAIN f : i # j /\ i.slot = j.slot /\ i.slot \in S => Apart(f[i], f[j])
    /\ \A x \in h, j \in DOMAIN f : x.id.slot = j.slot /\ j.slot \in S => Apart(x, f[j])
    /\ \A x, y \in h : x # y /\ x.id.slot = y.id.slot /\ x.id.slot \in S => Apart(x, y)

BookOK(f, h, S) == RowsOK(f) /\ SavedOK(f, h) /\ ChainedIn(f, h, S) /\ PartedIn(f, h, S)

LEMMA TimesAreNumbers ==
    /\ Horizon \in Nat /\ Never \in Nat /\ Never = Horizon + 1
    /\ \A k : k \in Instants <=> k \in Int /\ 1 <= k /\ k < Never
    /\ \A k : k \in 2 .. Never <=> k \in Int /\ 2 <= k /\ k <= Never
BY ClaimAssumption DEF Never, Instants

LEMMA RowsAreSpans ==
    ASSUME NEW f, RowsOK(f), NEW i \in DOMAIN f
    PROVE  /\ f[i] \in Stored /\ IsSpan(f[i]) /\ i \in Identities
           /\ f[i].vf \in Instants /\ f[i].kf \in Instants
           /\ f[i].vf = i.at /\ f[i].vf < f[i].vt /\ f[i].kf < f[i].kt
           /\ f[i].vt <= Never /\ f[i].kt <= Never
<1>1. f[i] \in Stored
  BY DEF RowsOK
<1> QED BY <1>1, TimesAreNumbers DEF RowsOK, Stored, IsSpan

LEMMA SavedAreSpans ==
    ASSUME NEW f, NEW h, SavedOK(f, h), NEW x \in h
    PROVE  /\ IsSpan(x) /\ x.vf \in Instants /\ x.kf \in Instants /\ x.kt \in Instants
           /\ x.vt = Never /\ x.id \in DOMAIN f /\ x.kf < x.kt
<1>1. x \in Saved
  BY DEF SavedOK
<1> QED BY <1>1, TimesAreNumbers DEF SavedOK, Saved, IsSpan

\* Wherever a saved interval was true something of its slot is, known since it was saved or later.
LEMMA WhatFollowsCovers ==
    ASSUME NEW f, NEW h, NEW S, RowsOK(f), SavedOK(f, h), ChainedIn(f, h, S),
           NEW x \in h, x.id.slot \in S, NEW v \in Instants, x.vf <= v
    PROVE  \E j \in DOMAIN f : /\ j.slot = x.id.slot
                               /\ f[j].vf <= v /\ v < f[j].vt /\ f[j].kf >= x.kt
<1> DEFINE Covers(j, y) == j.slot = x.id.slot /\ f[j].vf <= v /\ v < f[j].vt /\ f[j].kf >= y.kt
           Bad == {y \in h : y.id.slot = x.id.slot /\ y.vf <= v /\ ~\E j \in DOMAIN f : Covers(j, y)}
           Left == {Never - y.vf : y \in Bad}
<1>1. SUFFICES ASSUME Bad # {} PROVE FALSE
  OBVIOUS
<1>2. \A y \in h : y.vf \in Int /\ Never - y.vf \in Nat /\ y.kt \in Int
  BY SavedAreSpans, TimesAreNumbers
<1>3. Left \subseteq Nat /\ Left # {}
  BY <1>1, <1>2
<1>4. Min(Left) \in Left /\ \A m \in Left : Min(Left) <= m
  BY <1>3, MinIsLeast
<1>5. PICK y \in Bad : Min(Left) = Never - y.vf
  BY <1>4
<1>6. \A z \in Bad : z.vf <= y.vf
  <2> SUFFICES ASSUME NEW z \in Bad PROVE z.vf <= y.vf
    OBVIOUS
  <2>1. Never - y.vf <= Never - z.vf
    BY <1>4, <1>5
  <2>2. z.vf \in Int /\ y.vf \in Int /\ Never \in Int
    BY <1>2, TimesAreNumbers
  <2> HIDE DEF Left, Bad
  <2> QED BY <2>1, <2>2
<1>7. y \in h /\ y.id \in DOMAIN f /\ y.id.slot = x.id.slot /\ y.vf <= v
      /\ y.vf = y.id.at /\ y.kt = f[y.id].kf
  BY <1>5 DEF SavedOK
<1>8. f[y.id].vf = y.vf /\ f[y.id].vt \in Int /\ f[y.id].kf \in Int
  BY <1>7, RowsAreSpans DEF IsSpan
<1>9. f[y.id].vt <= v
  <2> SUFFICES ASSUME ~(f[y.id].vt <= v) PROVE FALSE
    OBVIOUS
  <2>1. Covers(y.id, y)
    BY <1>7, <1>8, TimesAreNumbers
  <2> QED BY <1>5, <1>7, <2>1
<1>10. PICK j \in DOMAIN f : /\ j.slot = y.id.slot /\ f[j].vf = f[y.id].vt /\ f[j].kf >= f[y.id].kf
                             /\ f[j].vt = Never \/ \E g \in h : g.id = j
  BY <1>7 DEF ChainedIn, Followed
<1>11. IsSpan(f[j]) /\ f[j].vf = j.at /\ f[y.id].vf < f[y.id].vt
  BY <1>7, RowsAreSpans
<1>12. CASE f[j].vt = Never
  <2>1. Covers(j, y)
    BY <1>7, <1>9, <1>10, <1>11, <1>12, TimesAreNumbers
  <2> QED BY <1>5, <2>1
<1>13. CASE \E g \in h : g.id = j
  <2>1. PICK g \in h : g.id = j
    BY <1>13
  <2>2. g.vf = f[j].vf /\ g.kt = f[j].kf
    BY <1>11, <2>1 DEF SavedOK
  <2>3. g.vf <= v /\ ~(g.vf <= y.vf)
    <3>1. y.vf \in Int /\ f[y.id].vt \in Int
      BY <1>2, <1>7, <1>8
    <3>2. g.vf = f[y.id].vt /\ y.vf < f[y.id].vt
      BY <1>8, <1>10, <1>11, <2>2
    <3> QED BY <1>9, <3>1, <3>2
  <2>4. g \notin Bad
    BY <1>6, <2>3
  <2>5. PICK k \in DOMAIN f : Covers(k, g)
    BY <1>7, <1>10, <2>1, <2>3, <2>4
  <2>6. f[k].kf \in Int /\ f[j].kf \in Int
    BY <1>11, RowsAreSpans DEF IsSpan
  <2>7. f[k].kf >= y.kt
    BY <1>2, <1>7, <1>8, <1>10, <2>2, <2>5, <2>6
  <2>8. Covers(k, y)
    BY <2>5, <2>7
  <2> QED BY <1>5, <2>8
<1> QED BY <1>10, <1>12, <1>13

-----------------------------------------------------------------------------
(* What a step does to the book *)

\* Every row of g is one of f, over a narrower span.
Narrowed(f, g) ==
    /\ DOMAIN g \subseteq DOMAIN f
    /\ \A i \in DOMAIN g : Inside(g[i], f[i])

LEMMA NarrowedStaysParted ==
    ASSUME NEW f, NEW g, NEW h, NEW S, RowsOK(f), RowsOK(g), SavedOK(f, h),
           Narrowed(f, g), PartedIn(f, h, S), NEW T \in SUBSET S, NEW k \in SUBSET h
    PROVE  PartedIn(g, k, T)
<1>1. \A i \in DOMAIN g : i \in DOMAIN f /\ IsSpan(f[i]) /\ IsSpan(g[i]) /\ Inside(g[i], f[i])
  BY RowsAreSpans DEF Narrowed
<1>2. \A x \in h : IsSpan(x) /\ Inside(x, x)
  BY SavedAreSpans DEF Inside, IsSpan
<1>3. ASSUME NEW i \in DOMAIN g, NEW j \in DOMAIN g, i # j, i.slot = j.slot, i.slot \in T
      PROVE  Apart(g[i], g[j])
  <2>1. Apart(f[i], f[j])
    BY <1>1, <1>3 DEF PartedIn
  <2> QED BY <1>1, <2>1, InsideStaysApart
<1>4. ASSUME NEW x \in k, NEW j \in DOMAIN g, x.id.slot = j.slot, j.slot \in T
      PROVE  Apart(x, g[j])
  <2>1. x \in h /\ Apart(x, f[j])
    BY <1>1, <1>4 DEF PartedIn
  <2> QED BY <1>1, <1>2, <2>1, InsideStaysApart
<1>5. ASSUME NEW x \in k, NEW y \in k, x # y, x.id.slot = y.id.slot, x.id.slot \in T
      PROVE  Apart(x, y)
  BY <1>5 DEF PartedIn
<1> QED BY <1>3, <1>4, <1>5 DEF PartedIn

\* Facts that stop being known.
LEMMA ClosingKeepsBook ==
    ASSUME NEW f, NEW h, NEW S, BookOK(f, h, S), NEW rows, NEW at \in Instants,
           \A i \in rows \cap DOMAIN f : f[i].kt = Never /\ f[i].kf < at
    PROVE  /\ BookOK(Close(f, rows, at), h, S)
           /\ DOMAIN Close(f, rows, at) = DOMAIN f
           /\ \A i \in DOMAIN f : Close(f, rows, at)[i] =
                 IF i \in rows THEN [f[i] EXCEPT !.kt = at] ELSE f[i]
<1>1. SUFFICES ASSUME NEW g, g = Close(f, rows, at)
               PROVE  /\ BookOK(g, h, S)
                      /\ DOMAIN g = DOMAIN f
                      /\ \A i \in DOMAIN f : g[i] =
                           IF i \in rows THEN [f[i] EXCEPT !.kt = at] ELSE f[i]
  OBVIOUS
<1>2. /\ DOMAIN g = DOMAIN f
      /\ \A i \in DOMAIN f : g[i] = IF i \in rows THEN [f[i] EXCEPT !.kt = at] ELSE f[i]
  BY <1>1 DEF Close
<1>3. ASSUME NEW i \in DOMAIN f
      PROVE  /\ g[i] \in Stored /\ Inside(g[i], f[i]) /\ g[i].kf < g[i].kt
             /\ g[i].vf = f[i].vf /\ g[i].vt = f[i].vt /\ g[i].kf = f[i].kf /\ g[i].by = f[i].by
  <2>1. f[i] \in Stored /\ IsSpan(f[i]) /\ f[i].kf < f[i].kt /\ f[i].kf \in Instants
    BY RowsAreSpans DEF BookOK
  <2>2. CASE i \in rows
    <3>1. g[i] = [f[i] EXCEPT !.kt = at]
      BY <1>2, <2>2
    <3>2. f[i].kt = Never /\ f[i].kf < at /\ at < Never /\ at \in 2 .. Never
      BY <2>1, <2>2, TimesAreNumbers
    <3>3. g[i].vf = f[i].vf /\ g[i].vt = f[i].vt /\ g[i].kf = f[i].kf /\ g[i].by = f[i].by
          /\ g[i].kt = at /\ g[i] \in Stored
      BY <2>1, <3>1, <3>2 DEF Stored
    <3> QED BY <2>1, <3>2, <3>3, TimesAreNumbers DEF Inside, IsSpan
  <2>3. CASE i \notin rows
    BY <1>2, <2>1, <2>3 DEF Inside, IsSpan
  <2> QED BY <2>2, <2>3
<1>4. RowsOK(g)
  <2>1. g = [i \in DOMAIN g |-> g[i]]
    BY <1>1 DEF Close
  <2>2. g \in [DOMAIN g -> Stored]
    BY <1>2, <1>3, <2>1
  <2> QED BY <1>2, <1>3, <2>2 DEF RowsOK, BookOK
<1>5. SavedOK(g, h)
  BY <1>2, <1>3 DEF SavedOK, BookOK
<1>6. ChainedIn(g, h, S)
  <2> SUFFICES ASSUME NEW x \in h, x.id.slot \in S PROVE Followed(g, h, x.id)
    BY DEF ChainedIn
  <2>1. x.id \in DOMAIN f /\ Followed(f, h, x.id)
    BY DEF ChainedIn, BookOK, SavedOK
  <2> QED BY <1>2, <1>3, <2>1 DEF Followed
<1>7. PartedIn(g, h, S)
  <2>1. Narrowed(f, g)
    BY <1>2, <1>3 DEF Narrowed
  <2> QED BY <1>4, <2>1, NarrowedStaysParted DEF BookOK
<1> QED BY <1>2, <1>4, <1>5, <1>6, <1>7 DEF BookOK

\* A fact that nothing clashes with is recorded.
Clear(f, x, row, S) ==
    \A j \in DOMAIN f : j.slot = x.slot /\ j.slot \in S =>
        ~(Overlap(f[j].vf, f[j].vt, row.vf, row.vt) /\ Overlap(f[j].kf, f[j].kt, row.kf, row.kt))

LEMMA SavedIsClear ==
    ASSUME NEW f, NEW h, NEW S, BookOK(f, h, S), NEW x, NEW row, Clear(f, x, row, S),
           IsSpan(row), row.vf \in Instants, row.kf \in Instants, row.vf < row.vt, row.vt <= Never, row.kt = Never,
           NEW y \in h, y.id.slot = x.slot, x.slot \in S
    PROVE  Apart(y, row)
<1> SUFFICES ASSUME Overlap(y.vf, y.vt, row.vf, row.vt), Overlap(y.kf, y.kt, row.kf, row.kt)
             PROVE  FALSE
  BY DEF Apart
<1>1. IsSpan(y) /\ y.vf \in Instants /\ y.vt = Never /\ y.kt \in Instants /\ y.kf < y.kt
  BY SavedAreSpans DEF BookOK
<1>2. PICK v \in Instants : y.vf <= v /\ row.vf <= v /\ v < row.vt
  <2>1. CASE y.vf <= row.vf
    BY <1>1, <2>1, TimesAreNumbers DEF Overlap, IsSpan
  <2>2. CASE ~(y.vf <= row.vf)
    BY <1>1, <2>2, TimesAreNumbers DEF Overlap, IsSpan
  <2> QED BY <2>1, <2>2
<1>3. PICK j \in DOMAIN f : j.slot = x.slot /\ f[j].vf <= v /\ v < f[j].vt /\ f[j].kf >= y.kt
  BY <1>2, WhatFollowsCovers DEF BookOK
<1>4. IsSpan(f[j]) /\ f[j].kf \in Instants /\ f[j].kf < f[j].kt /\ f[j].kt <= Never
  BY RowsAreSpans DEF BookOK
<1>5. v \in Int /\ Never \in Int /\ f[j].kf < Never
  BY <1>4, TimesAreNumbers
<1>6. Overlap(f[j].vf, f[j].vt, row.vf, row.vt)
  BY <1>2, <1>3, <1>4, <1>5 DEF Overlap, IsSpan
<1>7. Overlap(f[j].kf, f[j].kt, row.kf, row.kt)
  BY <1>1, <1>3, <1>4, <1>5 DEF Overlap, IsSpan
<1> QED BY <1>3, <1>6, <1>7 DEF Clear

LEMMA WithAdds ==
    ASSUME NEW f, NEW x, NEW row, x \notin DOMAIN f
    PROVE  /\ DOMAIN With(f, x, row) = DOMAIN f \cup {x}
           /\ \A j \in DOMAIN f : With(f, x, row)[j] = f[j]
           /\ With(f, x, row)[x] = row
           /\ With(f, x, row) = [j \in DOMAIN f \cup {x} |-> With(f, x, row)[j]]
BY DEF With

LEMMA RecordingKeepsBook ==
    ASSUME NEW f, NEW h, NEW S, BookOK(f, h, S), NEW x \in Identities, x \notin DOMAIN f,
           NEW row \in Stored, Clear(f, x, row, S), row.vf = x.at, row.vf < row.vt, row.kt = Never
    PROVE  BookOK(With(f, x, row), h, S)
<1>1. SUFFICES ASSUME NEW g, g = With(f, x, row) PROVE BookOK(g, h, S)
  OBVIOUS
<1>2. /\ DOMAIN g = DOMAIN f \cup {x} /\ g[x] = row /\ \A j \in DOMAIN f : g[j] = f[j]
      /\ g = [j \in DOMAIN f \cup {x} |-> g[j]]
  BY <1>1 DEF With
<1>3. IsSpan(row) /\ row.vf \in Instants /\ row.kf \in Instants /\ row.vt <= Never
  BY TimesAreNumbers DEF Stored, IsSpan
<1>4. RowsOK(g)
  <2>1. \A j \in DOMAIN g : g[j] \in Stored
    BY <1>2, RowsAreSpans DEF BookOK
  <2>2. g \in [DOMAIN g -> Stored]
    BY <1>2, <2>1
  <2>3. row.kf < row.kt
    BY <1>3, TimesAreNumbers
  <2> QED BY <1>2, <2>2, <2>3, RowsAreSpans DEF RowsOK, BookOK
<1>5. SavedOK(g, h)
  BY <1>2 DEF SavedOK, BookOK
<1>6. ChainedIn(g, h, S)
  <2> SUFFICES ASSUME NEW y \in h, y.id.slot \in S PROVE Followed(g, h, y.id)
    BY DEF ChainedIn
  <2>1. y.id \in DOMAIN f /\ Followed(f, h, y.id)
    BY DEF ChainedIn, BookOK, SavedOK
  <2> QED BY <1>2, <2>1 DEF Followed
<1>7. ASSUME NEW j \in DOMAIN f, j.slot = x.slot, j.slot \in S
      PROVE  Apart(g[j], g[x])
  BY <1>2, <1>7 DEF Clear, Apart
<1>8. ASSUME NEW i \in DOMAIN g, NEW j \in DOMAIN g, i # j, i.slot = j.slot, i.slot \in S
      PROVE  Apart(g[i], g[j])
  <2>1. CASE i = x
    BY <1>2, <1>7, <1>8, <2>1, ApartIsSymmetric
  <2>2. CASE j = x
    BY <1>2, <1>7, <1>8, <2>2
  <2>3. CASE i # x /\ j # x
    BY <1>2, <1>8, <2>3 DEF BookOK, PartedIn
  <2> QED BY <2>1, <2>2, <2>3
<1>9. ASSUME NEW y \in h, NEW j \in DOMAIN g, y.id.slot = j.slot, j.slot \in S
      PROVE  Apart(y, g[j])
  <2>1. CASE j = x
    BY <1>2, <1>3, <1>9, <2>1, SavedIsClear
  <2>2. CASE j # x
    BY <1>2, <1>9, <2>2 DEF BookOK, PartedIn
  <2> QED BY <2>1, <2>2
<1>10. PartedIn(g, h, S)
  BY <1>8, <1>9 DEF PartedIn, BookOK
<1> QED BY <1>4, <1>5, <1>6, <1>10 DEF BookOK

\* The facts a new one ends, in a slot of cardinality one whose rows are all there.
LEMMA SupersedingKeepsBook ==
    ASSUME NEW f, NEW h, NEW S, BookOK(f, h, S),
           NEW prev \in SUBSET DOMAIN f, NEW src \in Sources, NEW at \in Instants,
           NEW x \in Identities, x \notin DOMAIN f, x.src = src,
           NEW row \in Stored, row.vf = x.at, row.vt = Never, row.kf = at, row.kt = Never,
           \A i \in prev : /\ i.slot = x.slot /\ f[i].vt = Never /\ f[i].kt = Never
                           /\ f[i].vf < x.at /\ f[i].kf < at,
           Clear(Supersede(f, prev, x.at, at, src), x, row, S)
    PROVE  BookOK(With(Supersede(f, prev, x.at, at, src), x, row),
                  h \cup Archive(f, prev, at, src), S)
<1> DEFINE e == Supersede(f, prev, x.at, at, src)
           k == h \cup Archive(f, prev, at, src)
           saved(i) == [id |-> i, vf |-> f[i].vf, vt |-> f[i].vt, kf |-> f[i].kf, kt |-> at, by |-> src]
<1>1. /\ RowsOK(f) /\ SavedOK(f, h) /\ ChainedIn(f, h, S) /\ PartedIn(f, h, S)
      /\ x.at \in Instants /\ at < Never
  BY TimesAreNumbers DEF BookOK, Identities
<1>2. /\ DOMAIN e = DOMAIN f /\ e = [i \in DOMAIN f |-> e[i]]
      /\ \A i \in DOMAIN f : e[i] = IF i \in prev THEN [f[i] EXCEPT !.vt = x.at, !.kf = at, !.by = src]
                                                  ELSE f[i]
  BY DEF Supersede
<1>3. \A y : y \in k <=> y \in h \/ \E i \in prev : y = saved(i)
  BY DEF Archive
<1>4. ASSUME NEW i \in prev
      PROVE  /\ e[i] \in Stored /\ e[i].vf = f[i].vf /\ e[i].vt = x.at /\ e[i].kf = at
             /\ e[i].kt = Never /\ e[i].by = src
             /\ e[i].vf < e[i].vt /\ Inside(e[i], f[i])
             /\ IsSpan(e[i]) /\ IsSpan(f[i]) /\ f[i].kf \in Instants
  <2>1. /\ f[i] \in Stored /\ IsSpan(f[i]) /\ f[i].kf \in Instants /\ f[i].vf \in Instants
        /\ f[i].vt = Never /\ f[i].kt = Never /\ f[i].vf < x.at /\ f[i].kf < at
    BY <1>1, RowsAreSpans
  <2>2. e[i] = [f[i] EXCEPT !.vt = x.at, !.kf = at, !.by = src]
    BY <1>2
  <2>3. x.at \in 2 .. Never
    BY <1>1, <2>1, TimesAreNumbers
  <2>4. /\ e[i] \in Stored /\ e[i].vf = f[i].vf /\ e[i].vt = x.at /\ e[i].kf = at
        /\ e[i].kt = Never /\ e[i].by = src
    BY <2>1, <2>2, <2>3 DEF Stored
  <2> QED BY <1>1, <2>1, <2>4, TimesAreNumbers DEF Inside, IsSpan
<1>5. ASSUME NEW i \in DOMAIN f, i \notin prev
      PROVE  e[i] = f[i]
  BY <1>2, <1>5
<1> HIDE DEF e
<1>6. RowsOK(e)
  <2>1. \A i \in DOMAIN f : /\ e[i] \in Stored /\ e[i].vf = i.at /\ e[i].vf < e[i].vt
                             /\ e[i].kf < e[i].kt
    <3> SUFFICES ASSUME NEW i \in DOMAIN f
                 PROVE  /\ e[i] \in Stored /\ e[i].vf = i.at /\ e[i].vf < e[i].vt
                        /\ e[i].kf < e[i].kt
      OBVIOUS
    <3>1. CASE i \in prev
      BY <1>1, <1>4, <3>1, RowsAreSpans
    <3>2. CASE i \notin prev
      BY <1>1, <1>5, <3>2, RowsAreSpans
    <3> QED BY <3>1, <3>2
  <2>2. e \in [DOMAIN e -> Stored]
    BY <1>2, <2>1
  <2> QED BY <1>1, <1>2, <2>1, <2>2 DEF RowsOK
<1>7. ASSUME NEW i \in prev
      PROVE  /\ saved(i) \in Saved /\ saved(i).id = i /\ saved(i).kt = at /\ saved(i).by = src
             /\ saved(i).kf < at /\ saved(i).vf = i.at
             /\ IsSpan(saved(i)) /\ Inside(saved(i), f[i])
  <2>1. f[i] \in Stored /\ f[i].vf \in Instants /\ f[i].kf \in Instants /\ f[i].vf = i.at
        /\ i \in Identities /\ f[i].vt = Never /\ f[i].kt = Never /\ f[i].kf < at
    BY <1>1, RowsAreSpans
  <2> QED BY <1>1, <2>1, TimesAreNumbers DEF Saved, IsSpan, Inside
<1>8. ASSUME NEW y \in h
      PROVE  y.id \notin prev /\ y.id \in DOMAIN f /\ e[y.id] = f[y.id]
  <2>1. y.id \in DOMAIN f /\ f[y.id].vt < Never
    BY <1>1 DEF SavedOK
  <2>2. y.id \notin prev
    BY <2>1, TimesAreNumbers
  <2> QED BY <1>5, <2>1, <2>2
<1>9. SavedOK(e, k)
  <2>1. k \subseteq Saved
    BY <1>1, <1>3, <1>7 DEF SavedOK
  <2>2. ASSUME NEW y \in k
        PROVE  /\ y.id \in DOMAIN e
               /\ y.vf = y.id.at /\ y.kf < y.kt /\ y.kt = e[y.id].kf /\ y.by = e[y.id].by
               /\ e[y.id].vt < Never
    <3>1. CASE y \in h
      BY <1>1, <1>2, <1>8, <3>1 DEF SavedOK
    <3>2. CASE \E i \in prev : y = saved(i)
      <4>1. PICK i \in prev : y = saved(i)
        BY <3>2
      <4>2. e[i].kf = at /\ e[i].by = src /\ e[i].vt = x.at /\ x.at < Never /\ i \in DOMAIN e
        BY <1>1, <1>2, <1>4, TimesAreNumbers
      <4>3. y.id = i /\ y.kt = at /\ y.by = src /\ y.kf < at /\ y.vf = i.at
        BY <1>7, <4>1
      <4> QED BY <4>2, <4>3
    <3> QED BY <1>3, <3>1, <3>2
  <2>3. ASSUME NEW y \in k, NEW z \in k, y.id = z.id
        PROVE  y = z
    <3>1. CASE y \in h /\ z \in h
      BY <1>1, <2>3, <3>1 DEF SavedOK
    <3>2. CASE y \in h /\ \E i \in prev : z = saved(i)
      BY <1>7, <1>8, <2>3, <3>2
    <3>3. CASE z \in h /\ \E i \in prev : y = saved(i)
      BY <1>7, <1>8, <2>3, <3>3
    <3>4. CASE (\E i \in prev : y = saved(i)) /\ (\E i \in prev : z = saved(i))
      BY <1>7, <2>3, <3>4
    <3> QED BY <1>3, <3>1, <3>2, <3>3, <3>4
  <2> QED BY <2>1, <2>2, <2>3 DEF SavedOK
<1> HIDE DEF k
<1>10. SUFFICES ASSUME NEW g, g = With(e, x, row) PROVE BookOK(g, k, S)
  BY DEF e, k
<1>11. /\ DOMAIN g = DOMAIN f \cup {x} /\ g[x] = row /\ \A j \in DOMAIN f : g[j] = e[j]
       /\ g = [j \in DOMAIN f \cup {x} |-> g[j]]
  BY <1>2, <1>10 DEF With
<1>12. IsSpan(row) /\ row.vf \in Instants /\ row.kf \in Instants /\ row.vf < row.vt
       /\ row.kf < row.kt /\ row.vt <= Never
  BY <1>1, TimesAreNumbers DEF Stored, IsSpan
<1>13. RowsOK(g)
  <2>1. \A j \in DOMAIN g : /\ g[j] \in Stored /\ g[j].vf = j.at /\ g[j].vf < g[j].vt
                             /\ g[j].kf < g[j].kt /\ j \in Identities
    <3> SUFFICES ASSUME NEW j \in DOMAIN g
                 PROVE  /\ g[j] \in Stored /\ g[j].vf = j.at /\ g[j].vf < g[j].vt
                        /\ g[j].kf < g[j].kt /\ j \in Identities
      OBVIOUS
    <3>1. CASE j = x
      BY <1>11, <1>12, <3>1
    <3>2. CASE j # x
      <4>1. j \in DOMAIN e /\ g[j] = e[j]
        BY <1>2, <1>11, <3>2
      <4> QED BY <1>6, <4>1, RowsAreSpans
    <3> QED BY <3>1, <3>2
  <2>2. g \in [DOMAIN g -> Stored]
    BY <1>11, <2>1
  <2> QED BY <2>1, <2>2 DEF RowsOK
<1>14. SavedOK(g, k)
  BY <1>2, <1>9, <1>11 DEF SavedOK
<1>15. ASSUME NEW i \in DOMAIN f
       PROVE  /\ IsSpan(e[i]) /\ IsSpan(f[i]) /\ Inside(e[i], f[i])
              /\ e[i].vf = f[i].vf /\ e[i].kf >= f[i].kf
  <2>1. IsSpan(f[i])
    BY <1>1, RowsAreSpans
  <2>2. CASE i \in prev
    BY <1>4, <2>1, <2>2 DEF Inside
  <2>3. CASE i \notin prev
    BY <1>5, <2>1, <2>3 DEF Inside, IsSpan
  <2> QED BY <2>2, <2>3
<1>16. ChainedIn(g, k, S)
  <2> SUFFICES ASSUME NEW y \in k, y.id.slot \in S PROVE Followed(g, k, y.id)
    BY DEF ChainedIn
  <2>1. CASE y \in h
    <3>1. y.id \in DOMAIN f /\ e[y.id] = f[y.id] /\ g[y.id] = f[y.id]
      BY <1>8, <1>11, <2>1
    <3>2. PICK j \in DOMAIN f : /\ j.slot = y.id.slot /\ j.src = f[y.id].by /\ f[j].vf = f[y.id].vt
                                /\ f[j].kf >= f[y.id].kf
                                /\ f[j].vt = Never \/ \E z \in h : z.id = j
      BY <1>1, <2>1 DEF ChainedIn, Followed
    <3>3. g[j] = e[j] /\ j \in DOMAIN g /\ e[j].vf = f[j].vf /\ e[j].kf >= f[y.id].kf
      <4>1. e[j].kf \in Int /\ f[j].kf \in Int /\ f[y.id].kf \in Int
        BY <1>15, <3>1 DEF IsSpan
      <4> QED BY <1>11, <1>15, <3>2, <4>1
    <3>4. g[j].vt = Never \/ \E z \in k : z.id = j
      <4>1. CASE j \in prev
        BY <1>3, <1>7, <4>1
      <4>2. CASE j \notin prev
        BY <1>3, <1>5, <3>2, <3>3, <4>2
      <4> QED BY <4>1, <4>2
    <3> QED BY <3>1, <3>2, <3>3, <3>4 DEF Followed
  <2>2. CASE \E i \in prev : y = saved(i)
    <3>1. PICK i \in prev : y = saved(i)
      BY <2>2
    <3>2. /\ y.id = i /\ g[i] = e[i] /\ e[i].by = src /\ e[i].vt = x.at /\ e[i].kf = at
          /\ x.slot = i.slot /\ x \in DOMAIN g
      BY <1>4, <1>7, <1>11, <3>1
    <3>3. g[x].vf = x.at /\ g[x].kf = at /\ g[x].vt = Never /\ at >= at
      BY <1>11, TimesAreNumbers
    <3> QED BY <3>2, <3>3 DEF Followed
  <2> QED BY <1>3, <2>1, <2>2
<1>17. ASSUME NEW j \in DOMAIN f, j.slot = x.slot, j.slot \in S
       PROVE  Apart(e[j], row)
  <2>1. Clear(e, x, row, S)
    BY DEF e
  <2> QED BY <1>2, <1>17, <2>1 DEF Clear, Apart
<1>18. ASSUME NEW y \in h, y.id.slot = x.slot, x.slot \in S
       PROVE  Apart(y, row)
  <2> SUFFICES ASSUME Overlap(y.vf, y.vt, row.vf, row.vt), Overlap(y.kf, y.kt, row.kf, row.kt)
               PROVE  FALSE
    BY DEF Apart
  <2>1. IsSpan(y) /\ y.vf \in Instants /\ y.vt = Never /\ y.kt \in Instants /\ y.kf < y.kt
    BY <1>1, SavedAreSpans
  <2>2. PICK v \in Instants : y.vf <= v /\ row.vf <= v
    <3>1. y.vf <= row.vf \/ row.vf <= y.vf
      BY <1>12, <2>1 DEF IsSpan
    <3> QED BY <1>12, <2>1, <3>1, TimesAreNumbers
  <2>3. PICK j \in DOMAIN f : j.slot = x.slot /\ f[j].vf <= v /\ v < f[j].vt /\ f[j].kf >= y.kt
    BY <1>1, <1>18, <2>2, WhatFollowsCovers
  <2>4. IsSpan(f[j]) /\ f[j].kf < f[j].kt /\ f[j].kt <= Never /\ f[j].kf \in Instants
    BY <1>1, RowsAreSpans
  <2>5. at < y.kt /\ at \in Int /\ v \in Int /\ v < Never /\ Never \in Int
    BY <1>12, TimesAreNumbers DEF Overlap
  <2>6. j \notin prev
    <3> SUFFICES ASSUME f[j].kf < at PROVE FALSE
      OBVIOUS
    <3> QED BY <2>1, <2>3, <2>4, <2>5 DEF IsSpan
  <2>7. Apart(f[j], row)
    BY <1>5, <1>17, <1>18, <2>3, <2>6
  <2>8. Overlap(f[j].vf, f[j].vt, row.vf, row.vt)
    BY <1>12, <2>2, <2>3, <2>4, <2>5 DEF Overlap, IsSpan
  <2>9. Overlap(f[j].kf, f[j].kt, row.kf, row.kt)
    <3>1. f[j].kf < Never
      BY <2>4, TimesAreNumbers
    <3> QED BY <1>12, <2>1, <2>3, <2>4, <2>5, <3>1 DEF Overlap, IsSpan
  <2> QED BY <2>7, <2>8, <2>9 DEF Apart
<1>19. ASSUME NEW i \in DOMAIN g, NEW j \in DOMAIN g, i # j, i.slot = j.slot, i.slot \in S
       PROVE  Apart(g[i], g[j])
  <2>1. CASE i = x
    BY <1>11, <1>17, <1>19, <2>1, ApartIsSymmetric
  <2>2. CASE j = x
    BY <1>11, <1>17, <1>19, <2>2
  <2>3. CASE i # x /\ j # x
    <3>1. i \in DOMAIN f /\ j \in DOMAIN f /\ Apart(f[i], f[j]) /\ g[i] = e[i] /\ g[j] = e[j]
      BY <1>1, <1>11, <1>19, <2>3 DEF PartedIn
    <3> QED BY <1>15, <3>1, InsideStaysApart
  <2> QED BY <2>1, <2>2, <2>3
<1>20. ASSUME NEW y \in k, NEW j \in DOMAIN g, y.id.slot = j.slot, j.slot \in S
       PROVE  Apart(y, g[j])
  <2>1. CASE y \in h /\ j = x
    BY <1>11, <1>18, <1>20, <2>1
  <2>2. CASE y \in h /\ j # x
    <3>1. j \in DOMAIN f /\ Apart(y, f[j]) /\ g[j] = e[j] /\ IsSpan(y) /\ Inside(y, y)
      BY <1>1, <1>11, <1>20, <2>2, SavedAreSpans DEF PartedIn, Inside, IsSpan
    <3> QED BY <1>15, <3>1, InsideStaysApart
  <2>3. CASE \E i \in prev : y = saved(i)
    <3>1. PICK i \in prev : y = saved(i)
      BY <2>3
    <3>2. y.id = i /\ y.kt = at /\ IsSpan(y) /\ Inside(y, f[i])
      BY <1>7, <3>1
    <3>3. CASE j = x
      BY <1>11, <1>12, <3>2, <3>3 DEF Apart, Overlap, IsSpan
    <3>4. CASE j = i
      BY <1>4, <1>11, <3>2, <3>4 DEF Apart, Overlap, IsSpan
    <3>5. CASE j # x /\ j # i
      <4>1. j \in DOMAIN f /\ Apart(f[i], f[j]) /\ g[j] = e[j]
        BY <1>1, <1>11, <1>20, <3>2, <3>5 DEF PartedIn
      <4> QED BY <1>15, <3>2, <4>1, InsideStaysApart
    <3> QED BY <3>3, <3>4, <3>5
  <2> QED BY <1>3, <2>1, <2>2, <2>3
<1>21. ASSUME NEW y \in k, NEW z \in k, y # z, y.id.slot = z.id.slot, y.id.slot \in S
       PROVE  Apart(y, z)
  <2>1. CASE y \in h /\ z \in h
    BY <1>1, <1>21, <2>1 DEF PartedIn
  <2>2. ASSUME NEW u \in h, NEW i \in prev, u.id.slot = i.slot, i.slot \in S
        PROVE  Apart(u, saved(i))
    <3>1. Apart(u, f[i]) /\ IsSpan(u) /\ Inside(u, u)
      BY <1>1, <2>2, SavedAreSpans DEF PartedIn, Inside, IsSpan
    <3> QED BY <1>4, <1>7, <3>1, InsideStaysApart
  <2>3. CASE y \in h /\ \E i \in prev : z = saved(i)
    BY <1>7, <1>21, <2>2, <2>3
  <2>4. CASE z \in h /\ \E i \in prev : y = saved(i)
    <3>1. PICK i \in prev : y = saved(i)
      BY <2>4
    <3>2. Apart(z, saved(i))
      BY <1>7, <1>21, <2>2, <2>4, <3>1
    <3> QED BY <3>1, <3>2, ApartIsSymmetric
  <2>5. CASE (\E i \in prev : y = saved(i)) /\ (\E i \in prev : z = saved(i))
    <3>1. PICK i \in prev, j \in prev : y = saved(i) /\ z = saved(j)
      BY <2>5
    <3>2. i # j /\ Apart(f[i], f[j])
      BY <1>1, <1>7, <1>21, <3>1 DEF PartedIn
    <3>3. Apart(saved(i), saved(j))
      BY <1>4, <1>7, <3>2, InsideStaysApart
    <3> QED BY <3>1, <3>3
  <2> QED BY <1>3, <2>1, <2>3, <2>4, <2>5
<1> QED BY <1>13, <1>14, <1>16, <1>19, <1>20, <1>21 DEF BookOK, PartedIn

\* What an erasure leaves: the facts outside d, and what was saved of them.  Where it took a fact
\* whose source stays, the slot is given up.
Erasing(f, h, S, d, gone, T, g, k) ==
    /\ BookOK(f, h, S) /\ T \subseteq S
    /\ \A i \in DOMAIN f : i \in d <=> i.src \in gone \/ f[i].by \in gone
    /\ \A i \in d \cap DOMAIN f : i.src \notin gone => i.slot \notin T
    /\ g = [i \in DOMAIN f \ d |-> f[i]]
    /\ k = {x \in h : x.id \notin d /\ x.by \notin gone}

LEMMA ErasingKeepsBook ==
    ASSUME NEW f, NEW h, NEW S, NEW d, NEW gone, NEW T, NEW g, NEW k,
           Erasing(f, h, S, d, gone, T, g, k)
    PROVE  BookOK(g, k, T)
<1>0. /\ BookOK(f, h, S) /\ T \in SUBSET S
      /\ \A i \in DOMAIN f : i \in d <=> i.src \in gone \/ f[i].by \in gone
      /\ \A i \in d \cap DOMAIN f : i.src \notin gone => i.slot \notin T
      /\ g = [i \in DOMAIN f \ d |-> f[i]]
      /\ k = {x \in h : x.id \notin d /\ x.by \notin gone}
  BY DEF Erasing
<1>1. DOMAIN g = DOMAIN f \ d /\ \A i \in DOMAIN g : g[i] = f[i]
  BY <1>0
<1>2. RowsOK(g)
  <2>1. \A i \in DOMAIN g : g[i] \in Stored
    BY <1>0, <1>1, RowsAreSpans DEF BookOK
  <2>2. g \in [DOMAIN g -> Stored]
    BY <1>0, <1>1, <2>1
  <2> QED BY <1>0, <1>1, <2>2, RowsAreSpans DEF RowsOK, BookOK
<1>3. k \subseteq h /\ \A x \in k : x.id \in DOMAIN g
  BY <1>0, <1>1 DEF BookOK, SavedOK
<1>4. SavedOK(g, k)
  BY <1>0, <1>1, <1>3 DEF BookOK, SavedOK
<1>5. ChainedIn(g, k, T)
  <2> SUFFICES ASSUME NEW x \in k, x.id.slot \in T PROVE Followed(g, k, x.id)
    BY <1>0 DEF ChainedIn
  <2>1. x \in h /\ x.id \in DOMAIN g /\ x.by \notin gone /\ x.by = f[x.id].by /\ x.id.slot \in S
    BY <1>0, <1>3 DEF BookOK, SavedOK
  <2>2. PICK j \in DOMAIN f : /\ j.slot = x.id.slot /\ j.src = f[x.id].by /\ f[j].vf = f[x.id].vt
                              /\ f[j].kf >= f[x.id].kf
                              /\ f[j].vt = Never \/ \E y \in h : y.id = j
    BY <1>0, <2>1 DEF BookOK, ChainedIn, Followed
  <2>3. j \notin d
    BY <1>0, <2>1, <2>2
  <2>4. g[j] = f[j] /\ j \in DOMAIN g /\ g[x.id] = f[x.id]
    BY <1>0, <1>1, <2>1, <2>2, <2>3
  <2>5. ASSUME NEW y \in h, y.id = j PROVE y \in k
    <3>1. y.by = f[j].by
      BY <1>0, <2>5 DEF BookOK, SavedOK
    <3> QED BY <1>0, <2>2, <2>3, <2>5, <3>1
  <2> QED BY <1>0, <2>2, <2>4, <2>5 DEF Followed
<1>6. PartedIn(g, k, T)
  <2>1. Narrowed(f, g)
    BY <1>0, <1>1, RowsAreSpans DEF Narrowed, Inside, IsSpan, BookOK
  <2> QED BY <1>0, <1>2, <1>3, <2>1, NarrowedStaysParted DEF BookOK
<1> QED BY <1>0, <1>2, <1>4, <1>5, <1>6 DEF BookOK

\* Facts added that no supersession counts on: the ones there before are as they were.
LEMMA AddingKeepsChains ==
    ASSUME NEW f, NEW g, NEW h, NEW S, SavedOK(f, h), ChainedIn(f, h, S),
           DOMAIN f \subseteq DOMAIN g, \A i \in DOMAIN f : g[i] = f[i]
    PROVE  SavedOK(g, h) /\ ChainedIn(g, h, S)
<1>1. SavedOK(g, h)
  BY DEF SavedOK
<1>2. ASSUME NEW x \in h, x.id.slot \in S PROVE Followed(g, h, x.id)
  <2>1. x.id \in DOMAIN f /\ Followed(f, h, x.id)
    BY <1>2 DEF ChainedIn, SavedOK
  <2> QED BY <2>1 DEF Followed
<1> QED BY <1>1, <1>2 DEF ChainedIn

-----------------------------------------------------------------------------
(* A generation's claims, one after the other *)

LEMMA AdmittedIsBuilt ==
    ASSUME NEW start, NEW t, NEW n, NEW order, Len(order) \in Nat
    PROVE  \E g : /\ g[0] = start
                  /\ \A k \in 1 .. Len(order) : g[k] = Admit(g[k - 1], t, n, order[k])
                  /\ Admitted(start, t, n, order) = g[Len(order)]
<1> HIDE DEF Admit
<1> DEFINE Built(g, m) == g = [k \in 0 .. m |-> IF k = 0 THEN start ELSE Admit(g[k - 1], t, n, order[k])]
           Bad == {m \in Nat : ~\E g : Built(g, m)}
<1>1. Bad = {}
  <2> SUFFICES ASSUME Bad # {} PROVE FALSE
    OBVIOUS
  <2> DEFINE m == Min(Bad)
  <2>1. m \in Bad /\ m \in Nat /\ \A y \in Bad : m <= y
    BY MinIsLeast
  <2> HIDE DEF m
  <2>2. CASE m = 0
    <3> DEFINE g == [k \in 0 .. 0 |-> start]
    <3>1. Built(g, 0)
      OBVIOUS
    <3> QED BY <2>1, <2>2, <3>1
  <2>3. CASE m # 0
    <3>1. m - 1 \in Nat /\ m - 1 \notin Bad
      <4>1. m - 1 \in Nat /\ ~(m <= m - 1)
        BY <2>1, <2>3
      <4> HIDE DEF Bad
      <4> QED BY <2>1, <4>1
    <3>2. PICK g : Built(g, m - 1)
      BY <3>1
    <3> DEFINE e == [k \in 0 .. m |-> IF k = m THEN Admit(g[m - 1], t, n, order[m]) ELSE g[k]]
    <3>3. \A k \in 0 .. m - 1 : g[k] = IF k = 0 THEN start ELSE Admit(g[k - 1], t, n, order[k])
      BY <3>1, <3>2
    <3>4. \A k \in 0 .. m : e[k] = IF k = 0 THEN start ELSE Admit(e[k - 1], t, n, order[k])
      <4> SUFFICES ASSUME NEW k \in 0 .. m
                   PROVE  e[k] = IF k = 0 THEN start ELSE Admit(e[k - 1], t, n, order[k])
        OBVIOUS
      <4>1. CASE k = m
        <5>1. k - 1 \in 0 .. m /\ k - 1 # m /\ e[k - 1] = g[m - 1]
          BY <2>1, <2>3, <4>1
        <5> QED BY <2>1, <2>3, <4>1, <5>1
      <4>2. CASE k # m
        <5>1. k \in 0 .. m - 1 /\ e[k] = g[k]
          BY <2>1, <4>2
        <5>2. k # 0 => k - 1 \in 0 .. m /\ k - 1 # m /\ e[k - 1] = g[k - 1]
          BY <2>1, <5>1
        <5> QED BY <3>3, <5>1, <5>2
      <4> QED BY <4>1, <4>2
    <3>5. e = [k \in 0 .. m |-> e[k]]
      OBVIOUS
    <3>6. Built(e, m)
      <4> HIDE DEF e
      <4> QED BY <3>4, <3>5
    <3> QED BY <2>1, <3>6
  <2> QED BY <2>2, <2>3
<1> DEFINE c == CHOOSE g : Built(g, Len(order))
<1>2. Built(c, Len(order))
  <2>1. \E g : Built(g, Len(order))
    BY <1>1
  <2> HIDE DEF Built
  <2> QED BY <2>1
<1>3. Admitted(start, t, n, order) = c[Len(order)]
  BY DEF Admitted
<1> HIDE DEF c
<1>4. c[0] = start /\ \A k \in 1 .. Len(order) : c[k] = Admit(c[k - 1], t, n, order[k])
  BY <1>2
<1> QED BY <1>3, <1>4

\* What is there when the claims of a generation are admitted: rows f whose facts of the source
\* are of earlier generations, and slots S of which no row is missing.
Publishing(t, n, f, l, S) ==
    /\ t.src \in Sources /\ t.src \in alive /\ t.at \in Instants /\ t.ver \in Versions \cup {Curated}
    /\ n \in 1 .. MaxGenerations
    /\ alive \subseteq Sources
    /\ \A i \in DOMAIN f : i.src \in alive /\ (i.src = t.src => i.gen < n)
    /\ l \subseteq DOMAIN f
    /\ S \subseteq Single /\ \A i \in l : i.slot \notin S

\* What stands after each claim.
PlanOK(g, t, n, f, l, h, S) ==
    /\ g = [f |-> g.f, l |-> l]
    /\ BookOK(g.f, h, S)
    /\ DOMAIN f \subseteq DOMAIN g.f /\ \A i \in DOMAIN f : g.f[i] = f[i]
    /\ \A i \in DOMAIN g.f \ DOMAIN f :
        /\ i.src = t.src /\ i.gen = n
        /\ g.f[i].kf = t.at /\ g.f[i].kt = Never /\ g.f[i].ver = t.ver
        /\ g.f[i].by \in alive \cup {None}
        /\ ~Withdrawn(i) /\ ~Corrected(i)
    /\ \A i, j \in DOMAIN g.f \ DOMAIN f :
        i.slot = j.slot /\ i.slot \in Single /\ i.at = j.at => i = j

LEMMA ShorteningKeepsPlan ==
    ASSUME NEW g, NEW t, NEW n, NEW f, NEW l, NEW h, NEW S, NEW c \in Claims, c.src = t.src,
           Publishing(t, n, f, l, S), BookOK(f, h, S), PlanOK(g, t, n, f, l, h, S),
           NEW e, e = Shortened(g, t, n, c)
    PROVE  PlanOK([f |-> e, l |-> l], t, n, f, l, h, S)
<1>1. CASE c.slot \notin Single
  BY <1>1 DEF Shortened, PlanOK
<1>2. CASE c.slot \in Single
  <2> DEFINE own == Own(g, t, n, c)
  <2>1. /\ DOMAIN e = DOMAIN g.f /\ e = [i \in DOMAIN g.f |-> e[i]]
        /\ \A i \in DOMAIN g.f :
              e[i] = IF i \in own THEN [g.f[i] EXCEPT !.vt = c.at, !.by = t.src] ELSE g.f[i]
    BY <1>2 DEF Shortened
  <2>2. \A i \in own : /\ i \in DOMAIN g.f \ DOMAIN f
                       /\ g.f[i].vf < c.at /\ c.at < g.f[i].vt
    BY DEF Own, RowsOf, Publishing
  <2>3. RowsOK(g.f) /\ c.at \in Instants /\ t.src \in Sources
    BY ClaimAssumption DEF PlanOK, BookOK, Publishing
  <2> HIDE DEF own
  <2>4. ASSUME NEW i \in DOMAIN g.f
        PROVE  /\ e[i] \in Stored /\ e[i].vf = g.f[i].vf /\ e[i].kf = g.f[i].kf
               /\ e[i].kt = g.f[i].kt /\ e[i].ver = g.f[i].ver
               /\ e[i].vf < e[i].vt /\ Inside(e[i], g.f[i])
               /\ i \in DOMAIN f => e[i] = g.f[i]
               /\ e[i].by \in {g.f[i].by, t.src}
    <3>1. g.f[i] \in Stored /\ IsSpan(g.f[i]) /\ g.f[i].vf \in Instants /\ g.f[i].vf < g.f[i].vt
      BY <2>3, RowsAreSpans
    <3>2. CASE i \in own
      <4>1. e[i] = [g.f[i] EXCEPT !.vt = c.at, !.by = t.src]
        BY <2>1, <3>2
      <4>2. c.at \in 2 .. Never /\ g.f[i].vf < c.at /\ c.at < g.f[i].vt
        BY <2>2, <2>3, <3>1, <3>2, TimesAreNumbers
      <4>3. /\ e[i] \in Stored /\ e[i].vf = g.f[i].vf /\ e[i].kf = g.f[i].kf
            /\ e[i].kt = g.f[i].kt /\ e[i].ver = g.f[i].ver /\ e[i].vt = c.at /\ e[i].by = t.src
        BY <2>3, <3>1, <4>1, <4>2 DEF Stored
      <4>4. /\ c.at \in Int /\ g.f[i].vf \in Int /\ g.f[i].vt \in Int /\ g.f[i].kf \in Int
            /\ g.f[i].kt \in Int
        BY <2>3, <3>1, TimesAreNumbers DEF IsSpan
      <4>5. Inside(e[i], g.f[i]) /\ e[i].vf < e[i].vt
        BY <4>2, <4>3, <4>4 DEF Inside
      <4>6. i \notin DOMAIN f
        BY <2>2, <3>2
      <4> QED BY <4>3, <4>5, <4>6
    <3>3. CASE i \notin own
      <4>1. e[i] = g.f[i]
        BY <2>1, <3>3
      <4>2. Inside(g.f[i], g.f[i])
        BY <3>1 DEF Inside, IsSpan
      <4> QED BY <3>1, <4>1, <4>2, SMTT(20)
    <3> QED BY <3>2, <3>3
  <2>5. RowsOK(e)
    <3>1. e \in [DOMAIN e -> Stored]
      BY <2>1, <2>4
    <3>2. ASSUME NEW i \in DOMAIN g.f
          PROVE  i \in Identities /\ e[i].vf = i.at /\ e[i].vf < e[i].vt /\ e[i].kf < e[i].kt
      <4>1. i \in Identities /\ g.f[i].vf = i.at /\ g.f[i].kf < g.f[i].kt
        BY <2>3, RowsAreSpans
      <4> QED BY <2>4, <4>1
    <3>3. DOMAIN e \subseteq Identities
      BY <2>1, <3>2
    <3> QED BY <2>1, <3>1, <3>2, <3>3 DEF RowsOK
  <2>6. DOMAIN f \subseteq DOMAIN e /\ \A i \in DOMAIN f : e[i] = f[i]
    BY <2>1, <2>4 DEF PlanOK
  <2>7. SavedOK(e, h) /\ ChainedIn(e, h, S)
    BY <2>6, AddingKeepsChains DEF BookOK
  <2>8. PartedIn(e, h, S)
    <3>1. Narrowed(g.f, e)
      BY <2>1, <2>4 DEF Narrowed
    <3> QED BY <2>3, <2>5, <3>1, NarrowedStaysParted DEF PlanOK, BookOK
  <2>9. BookOK(e, h, S)
    BY <2>5, <2>7, <2>8 DEF BookOK
  <2>10. \A i \in DOMAIN e \ DOMAIN f :
           /\ i.src = t.src /\ i.gen = n
           /\ e[i].kf = t.at /\ e[i].kt = Never /\ e[i].ver = t.ver
           /\ e[i].by \in alive \cup {None}
           /\ ~Withdrawn(i) /\ ~Corrected(i)
    <3> SUFFICES ASSUME NEW i \in DOMAIN e \ DOMAIN f
                 PROVE  /\ i.src = t.src /\ i.gen = n
                        /\ e[i].kf = t.at /\ e[i].kt = Never /\ e[i].ver = t.ver
                        /\ e[i].by \in alive \cup {None}
                        /\ ~Withdrawn(i) /\ ~Corrected(i)
      OBVIOUS
    <3>1. /\ i \in DOMAIN g.f \ DOMAIN f /\ i.src = t.src /\ i.gen = n
          /\ g.f[i].kf = t.at /\ g.f[i].kt = Never /\ g.f[i].ver = t.ver
          /\ g.f[i].by \in alive \cup {None} /\ t.src \in alive
          /\ ~Withdrawn(i) /\ ~Corrected(i)
      BY <2>1 DEF PlanOK, Publishing
    <3>2. /\ e[i].kf = g.f[i].kf /\ e[i].kt = g.f[i].kt /\ e[i].ver = g.f[i].ver
          /\ e[i].by \in {g.f[i].by, t.src}
      BY <2>4, <3>1
    <3> QED BY <3>1, <3>2
  <2>11. \A i, j \in DOMAIN e \ DOMAIN f :
           i.slot = j.slot /\ i.slot \in Single /\ i.at = j.at => i = j
    BY <2>1 DEF PlanOK
  <2> QED BY <2>6, <2>9, <2>10, <2>11 DEF PlanOK
<1> QED BY <1>1, <1>2

\* The first of the later facts is one of them.
LEMMA FirstIsThere ==
    ASSUME NEW g, RowsOK(g.f), NEW c, Later(g, c) # {}
    PROVE  First(g, c) \in Later(g, c)
<1> DEFINE T == {g.f[i].vf : i \in Later(g, c)}
<1>1. ASSUME NEW i \in Later(g, c) PROVE g.f[i].vf \in Nat
  <2>1. i \in DOMAIN g.f
    BY DEF Later, RowsOf
  <2> QED BY <2>1, RowsAreSpans, TimesAreNumbers
<1>2. Min(T) \in T /\ \A y \in T : Min(T) <= y
  <2>1. T \in SUBSET Nat /\ T # {}
    BY <1>1
  <2> QED BY <2>1, MinIsLeast
<1>3. \E i \in Later(g, c) : \A j \in Later(g, c) : g.f[i].vf <= g.f[j].vf
  BY <1>2
<1> QED BY <1>3 DEF First

LEMMA AdmittingKeepsPlan ==
    ASSUME NEW g, NEW t, NEW n, NEW f, NEW l, NEW h, NEW S, NEW c \in Claims, c.src = t.src,
           Publishing(t, n, f, l, S), BookOK(f, h, S), PlanOK(g, t, n, f, l, h, S)
    PROVE  PlanOK(Admit(g, t, n, c), t, n, f, l, h, S)
<1> DEFINE x == Identity(c, n)
           bounded == Later(g, c) # {} /\ c.slot \in Single
           until == IF bounded THEN g.f[First(g, c)].vf ELSE Never
           by == IF bounded THEN First(g, c).src ELSE None
           row == NewFact(c.at, until, t.at, by, t.ver)
<1>1. PICK e : e = Shortened(g, t, n, c)
  OBVIOUS
<1>2. PlanOK([f |-> e, l |-> l], t, n, f, l, h, S)
  BY <1>1, ShorteningKeepsPlan
<1>3. CASE RefusedFromPlan(c) \/ Clashing(e, g.l, c.slot, c.at, until, t.at, Never) # {}
  <2>1. Admit(g, t, n, c) = g
    BY <1>1, <1>3 DEF Admit
  <2> QED BY <2>1
<1>4. CASE ~RefusedFromPlan(c) /\ Clashing(e, g.l, c.slot, c.at, until, t.at, Never) = {}
  <2>1. Admit(g, t, n, c) = [f |-> With(e, x, row), l |-> g.l] /\ g.l = l
    <3>1. g.l = l
      BY DEF PlanOK
    <3> QED BY <1>1, <1>4, <3>1 DEF Admit
  <2>2. RowsOK(g.f) /\ BookOK(e, h, S) /\ RowsOK(e)
    BY <1>2 DEF PlanOK, BookOK
  <2>3. c \in [src : Sources, slot : Slots, val : Values, at : Instants] /\ c.at \in Instants
    BY ClaimAssumption
  <2>4. x \in Identities /\ x.src = c.src /\ x.slot = c.slot /\ x.at = c.at /\ x.gen = n /\ x.val = c.val
    BY <2>3 DEF Identity, Identities, Publishing
  <2>5. /\ until \in 2 .. Never /\ c.at < until /\ by \in Sources \cup {None}
        /\ by \in alive \cup {None}
    <3>1. CASE bounded
      <4>1. /\ First(g, c) \in DOMAIN g.f /\ g.f[First(g, c)].vf > c.at
        BY <2>2, <3>1, FirstIsThere DEF Later, RowsOf
      <4>2. g.f[First(g, c)].vf \in Instants
        BY <2>2, <4>1, RowsAreSpans
      <4>3. First(g, c).src \in alive
        BY <4>1 DEF Publishing, PlanOK
      <4> QED BY <2>3, <3>1, <4>1, <4>2, <4>3, TimesAreNumbers DEF Publishing
    <3>2. CASE ~bounded
      BY <2>3, <3>2, TimesAreNumbers
    <3> QED BY <3>1, <3>2
  <2> HIDE DEF until, by
  <2>6. /\ row \in Stored /\ row.vf = c.at /\ row.vt = until /\ row.kf = t.at /\ row.kt = Never
        /\ row.by = by /\ row.ver = t.ver
    BY <2>3, <2>5, TimesAreNumbers DEF NewFact, Stored, Publishing
  <2> HIDE DEF x, row
  <2>7. CASE x \in DOMAIN e
    <3>1. With(e, x, row) = e
      <4>1. e = [j \in DOMAIN e |-> e[j]]
        BY <2>2 DEF RowsOK
      <4> QED BY <2>7, <4>1 DEF With
    <3> QED BY <1>2, <2>1, <3>1
  <2>8. CASE x \notin DOMAIN e
    <3> DEFINE k == With(e, x, row)
    <3>1. DOMAIN k = DOMAIN e \cup {x} /\ k[x] = row /\ \A j \in DOMAIN e : k[j] = e[j]
      BY <2>8 DEF With
    <3>2. Clear(e, x, row, S)
      <4> SUFFICES ASSUME NEW j \in DOMAIN e, j.slot = x.slot, j.slot \in S,
                          Overlap(e[j].vf, e[j].vt, row.vf, row.vt),
                          Overlap(e[j].kf, e[j].kt, row.kf, row.kt)
                   PROVE  FALSE
        BY DEF Clear
      <4>1. j \notin l /\ c.slot \in Single
        BY <2>4 DEF Publishing
      <4>2. j \in Clashing(e, g.l, c.slot, c.at, until, t.at, Never)
        BY <2>1, <2>4, <2>6, <4>1 DEF Clashing, RowsOf
      <4> QED BY <1>4, <4>2
    <3> HIDE DEF k
    <3>3. BookOK(k, h, S)
      <4>1. row.vf = x.at /\ row.vf < row.vt
        BY <2>4, <2>5, <2>6
      <4> QED BY <2>2, <2>4, <2>6, <2>8, <3>2, <4>1, RecordingKeepsBook DEF k
    <3>4. DOMAIN f \subseteq DOMAIN k /\ \A i \in DOMAIN f : k[i] = f[i]
      BY <1>2, <3>1 DEF PlanOK
    <3>5. ~Withdrawn(x) /\ ~Corrected(x)
      BY <1>4, <2>4 DEF RefusedFromPlan, Withdrawn, Corrected
    <3>6. ASSUME NEW i \in DOMAIN k \ DOMAIN f
          PROVE  /\ i.src = t.src /\ i.gen = n
                 /\ k[i].kf = t.at /\ k[i].kt = Never /\ k[i].ver = t.ver
                 /\ k[i].by \in alive \cup {None}
                 /\ ~Withdrawn(i) /\ ~Corrected(i)
      <4>1. CASE i = x
        BY <2>4, <2>5, <2>6, <3>1, <3>5, <4>1
      <4>2. CASE i # x
        BY <1>2, <3>1, <4>2 DEF PlanOK
      <4> QED BY <4>1, <4>2
    <3>7. ASSUME NEW i \in DOMAIN e \ DOMAIN f, i.slot = x.slot, i.slot \in Single, i.at = x.at
          PROVE  FALSE
      <4>1. /\ i \notin l /\ e[i].kf = t.at /\ e[i].kt = Never /\ e[i].vf = i.at /\ e[i].vf < e[i].vt
        BY <1>2, <2>2, <3>7, RowsAreSpans DEF PlanOK, Publishing
      <4>2. Overlap(e[i].vf, e[i].vt, c.at, until)
        BY <2>4, <2>5, <3>7, <4>1 DEF Overlap
      <4>3. Overlap(e[i].kf, e[i].kt, t.at, Never)
        BY <4>1, TimesAreNumbers DEF Overlap, Publishing
      <4>4. i \in Clashing(e, g.l, c.slot, c.at, until, t.at, Never)
        BY <2>1, <2>4, <3>7, <4>1, <4>2, <4>3 DEF Clashing, RowsOf
      <4> QED BY <1>4, <4>4
    <3>8. ASSUME NEW i \in DOMAIN k \ DOMAIN f, NEW j \in DOMAIN k \ DOMAIN f,
                 i.slot = j.slot, i.slot \in Single, i.at = j.at
          PROVE  i = j
      <4>1. CASE i = x /\ j # x
        BY <3>1, <3>7, <3>8, <4>1
      <4>2. CASE i # x /\ j = x
        BY <3>1, <3>7, <3>8, <4>2
      <4>3. CASE i # x /\ j # x
        BY <1>2, <3>1, <3>8, <4>3 DEF PlanOK
      <4> QED BY <4>1, <4>2, <4>3
    <3>9. PlanOK([f |-> k, l |-> l], t, n, f, l, h, S)
      BY <3>3, <3>4, <3>6, <3>8 DEF PlanOK
    <3> QED BY <2>1, <3>9 DEF k
  <2> QED BY <2>7, <2>8
<1> QED BY <1>3, <1>4

\* What a generation leaves, whatever its claims are and in whatever order they come.
LEMMA AdmittedIsPlanned ==
    ASSUME NEW t, NEW n, NEW f, NEW l, NEW h, NEW S, Publishing(t, n, f, l, S), BookOK(f, h, S),
           NEW order, Len(order) \in Nat,
           \A k \in 1 .. Len(order) : order[k] \in Claims /\ order[k].src = t.src
    PROVE  PlanOK(Admitted([f |-> f, l |-> l], t, n, order), t, n, f, l, h, S)
<1>1. PICK g : /\ g[0] = [f |-> f, l |-> l]
               /\ \A k \in 1 .. Len(order) : g[k] = Admit(g[k - 1], t, n, order[k])
               /\ Admitted([f |-> f, l |-> l], t, n, order) = g[Len(order)]
  <2> HIDE DEF Admit
  <2> QED BY AdmittedIsBuilt
<1> DEFINE Bad == {k \in 0 .. Len(order) : ~PlanOK(g[k], t, n, f, l, h, S)}
<1>2. Bad = {}
  <2> SUFFICES ASSUME Bad # {} PROVE FALSE
    OBVIOUS
  <2>0. Bad \in SUBSET Nat
    OBVIOUS
  <2> DEFINE m == Min(Bad)
  <2>1. m \in Bad /\ m \in Nat /\ \A y \in Bad : m <= y
    <3> HIDE DEF Bad
    <3> QED BY <2>0, MinIsLeast
  <2> HIDE DEF m
  <2>2. CASE m = 0
    <3>1. PlanOK([f |-> f, l |-> l], t, n, f, l, h, S)
      BY DEF PlanOK
    <3> QED BY <1>1, <2>1, <2>2, <3>1
  <2>3. CASE m # 0
    <3>1. m - 1 \in 0 .. Len(order) /\ m - 1 \notin Bad /\ m \in 1 .. Len(order)
      BY <2>1, <2>3
    <3>2. PlanOK(g[m - 1], t, n, f, l, h, S)
      BY <3>1
    <3>3. g[m] = Admit(g[m - 1], t, n, order[m])
      BY <1>1, <3>1
    <3>4. PlanOK(g[m], t, n, f, l, h, S)
      BY <3>1, <3>2, <3>3, AdmittingKeepsPlan
    <3> QED BY <2>1, <3>4
  <2> QED BY <2>2, <2>3
<1>3. PlanOK(g[Len(order)], t, n, f, l, h, S)
  BY <1>2
<1> QED BY <1>1, <1>3

-----------------------------------------------------------------------------
(* The inductive invariant *)

\* The slots of cardinality one that lost nothing.
Alone == Single \ vacated

Typed ==
    /\ alive \subseteq Sources
    /\ lost \subseteq Ids /\ \A i \in lost : i.slot \in vacated
    /\ \A w \in withdrawn : \E i \in Identities, r \in Edits \cup {None} : w = Tombstone(i, r)
    /\ pin \in [Sources -> [ver : Versions \cup {Curated}, gen : 0 .. MaxGenerations] \cup {None}]
    /\ applied \in [Sources -> Seq(Instants)]
    /\ \A s \in Sources : Len(applied[s]) <= MaxGenerations
    /\ prepared \in [Sources -> {"none", "fresh", "stale"}]
    /\ \A s \in Sources : prepared[s] = "fresh" =>
           s \in alive /\ s \in Turns /\ Len(applied[s]) < MaxGenerations
    /\ tx \in [Writers -> Transactions]

\* Whatever is recorded was caused by sources that are there.
Owned ==
    /\ \A i \in Ids : i.src \in alive /\ fact[i].by \in alive \cup {None}
    /\ \A x \in history : x.by \in alive
    /\ \A w \in withdrawn : w.src \in alive /\ w.replacement \in alive \cup {None}
    /\ \A s \in Sources \ alive : pin[s] = None /\ applied[s] = << >>

\* What is known of a source comes from its pinned extraction, and people have the last word on it.
Interpreted ==
    /\ \A i \in Ids : i.gen <= Len(applied[i.src]) /\ (fact[i].ver = Curated <=> i.src \in Edits)
    /\ \A s \in Sources : pin[s] # None => pin[s].gen <= Len(applied[s])
    /\ \A w \in withdrawn : w.target.gen <= Len(applied[w.src])
    /\ OneExtraction
    /\ \A i, j \in Ids :
           /\ i.slot \in Single /\ i.gen > 0 /\ i.gen = j.gen
           /\ i.src = j.src /\ i.slot = j.slot /\ i.at = j.at
           => i = j
    /\ \A i \in Ids : OpenKnown(fact, i) => ~Withdrawn(i)
    /\ \A i \in Ids : OpenKnown(fact, i) /\ i.slot \in Single /\ i.gen > 0 => ~Corrected(i)

\* What an open transaction has read still stands.
Held(p) ==
    LET t == tx[p] IN
    /\ t.kind = "assert" =>
         /\ t.claim.src = t.src /\ ~Withdrawn(t.claim) /\ MayInterpret(t.src, t.ver)
         /\ Identity(t.claim, 0) \notin Ids
         /\ t.src \in Edits => t.src \notin alive /\ t.ver = Curated
         /\ t.src \notin Edits => t.src \in alive /\ t.ver # Curated
    /\ t.kind = "correct" =>
         /\ t.target \in Ids /\ t.target.src = t.src /\ t.edit \notin alive
         /\ OpenKnown(fact, t.target) /\ OpenValid(fact, t.target)
         /\ fact[t.target].kf < t.at
    /\ t.kind = "publish" =>
         /\ t.src \in alive /\ t.ver # Curated /\ t.retired = OpenOf(t.src)
         /\ Len(applied[t.src]) < MaxGenerations
         /\ \A i \in t.retired : fact[i].kf < t.at

Locked ==
    /\ \A p \in Writers : Held(p)
    /\ \A p, q \in Writers : p # q => Sourced(p) \cap Sourced(q) = {}

IInv == Typed /\ BookOK(fact, history, Alone) /\ Owned /\ Interpreted /\ Locked

-----------------------------------------------------------------------------
(* What open transactions rely on *)

USE DEF Ids

\* A step of others that leaves p's source alone.
Kept(p) ==
    LET t == tx[p] IN
    t.kind # "idle" =>
    /\ \A i \in Ids' : i.src = t.src => i \in Ids /\ fact'[i] = fact[i]
    /\ Rows(p) \subseteq Ids'
    /\ pin'[t.src] = pin[t.src] /\ applied'[t.src] = applied[t.src]
    /\ t.src \in alive' <=> t.src \in alive
    /\ \A w \in withdrawn' : w.src = t.src =>
           \E u \in withdrawn : u.src = w.src /\ u.slot = w.slot /\ u.val = w.val /\ u.at = w.at
    /\ t.kind = "correct" => t.edit \notin alive'

LEMMA HeldStays ==
    ASSUME NEW p \in Writers, tx[p] \in Transactions, Held(p), tx'[p] = tx[p], Kept(p)
    PROVE  Held(p)'
<1> DEFINE t == tx[p]
<1>1. CASE t.kind = "idle"
  BY <1>1 DEF Held
<1>2. CASE t.kind = "assert"
  <2> SUFFICES ASSUME NEW u, u = tx[p]
               PROVE  /\ u.claim.src = u.src /\ ~Withdrawn(u.claim)' /\ MayInterpret(u.src, u.ver)'
                      /\ Identity(u.claim, 0) \notin Ids'
                      /\ u.src \in Edits => u.src \notin alive' /\ u.ver = Curated
                      /\ u.src \notin Edits => u.src \in alive' /\ u.ver # Curated
    BY <1>2 DEF Held
  <2>1. /\ u.claim.src = u.src /\ ~Withdrawn(u.claim) /\ MayInterpret(u.src, u.ver)
        /\ Identity(u.claim, 0) \notin Ids
        /\ u.src \in Edits => u.src \notin alive /\ u.ver = Curated
        /\ u.src \notin Edits => u.src \in alive /\ u.ver # Curated
    BY <1>2 DEF Held
  <2>2. /\ \A i \in Ids' : i.src = u.src => i \in Ids /\ fact'[i] = fact[i]
        /\ pin'[u.src] = pin[u.src] /\ (u.src \in alive' <=> u.src \in alive)
        /\ \A w \in withdrawn' : w.src = u.src =>
             \E v \in withdrawn : v.src = w.src /\ v.slot = w.slot /\ v.val = w.val /\ v.at = w.at
    BY <1>2 DEF Kept
  <2>3. ~Withdrawn(u.claim)'
    BY <2>1, <2>2 DEF Withdrawn
  <2>4. MayInterpret(u.src, u.ver)'
    BY <2>1, <2>2 DEF MayInterpret
  <2>5. Identity(u.claim, 0) \notin Ids'
    <3>1. Identity(u.claim, 0).src = u.src
      BY <2>1 DEF Identity
    <3> QED BY <2>1, <2>2, <3>1
  <2> QED BY <2>1, <2>2, <2>3, <2>4, <2>5
<1>3. CASE t.kind = "correct"
  <2> SUFFICES ASSUME NEW u, u = tx[p]
               PROVE  /\ u.target \in Ids' /\ u.target.src = u.src /\ u.edit \notin alive'
                      /\ OpenKnown(fact', u.target) /\ OpenValid(fact', u.target)
                      /\ fact'[u.target].kf < u.at
    BY <1>3 DEF Held
  <2>1. /\ u.target \in Ids /\ u.target.src = u.src
        /\ OpenKnown(fact, u.target) /\ OpenValid(fact, u.target)
        /\ fact[u.target].kf < u.at
    BY <1>3 DEF Held
  <2>2. u.target \in Ids' /\ fact'[u.target] = fact[u.target] /\ u.edit \notin alive'
    BY <1>3, <2>1 DEF Kept, Rows
  <2> QED BY <2>1, <2>2 DEF OpenKnown, OpenValid
<1>4. CASE t.kind = "publish"
  <2> SUFFICES ASSUME NEW u, u = tx[p]
               PROVE  /\ u.src \in alive' /\ u.ver # Curated /\ u.retired = OpenOf(u.src)'
                      /\ Len(applied'[u.src]) < MaxGenerations
                      /\ \A i \in u.retired : fact'[i].kf < u.at
    BY <1>4 DEF Held
  <2>1. /\ u.src \in alive /\ u.ver # Curated /\ u.retired = OpenOf(u.src)
        /\ Len(applied[u.src]) < MaxGenerations
        /\ \A i \in u.retired : fact[i].kf < u.at
    BY <1>4 DEF Held
  <2>2. /\ \A i \in Ids' : i.src = u.src => i \in Ids /\ fact'[i] = fact[i]
        /\ u.retired \subseteq Ids' /\ applied'[u.src] = applied[u.src] /\ u.src \in alive'
    BY <1>4, <2>1 DEF Kept, Rows
  <2>3. \A i \in u.retired : i.src = u.src /\ i \in Ids /\ fact'[i] = fact[i]
    BY <2>1, <2>2 DEF OpenOf
  <2>4. u.retired = OpenOf(u.src)'
    BY <2>1, <2>2, <2>3 DEF OpenOf, OpenKnown
  <2> QED BY <2>1, <2>2, <2>3, <2>4
<1> QED BY <1>1, <1>2, <1>3, <1>4 DEF Transactions, Idle

\* A step of nobody's transaction.
LEMMA WorldKeepsLocked ==
    ASSUME Typed, Locked, tx' = tx, \A p \in Writers : Kept(p)
    PROVE  Locked'
<1>1. \A p \in Writers : Held(p)'
  BY HeldStays DEF Locked, Typed
<1>2. \A p \in Writers : Sourced(p)' = Sourced(p)
  BY DEF Sourced
<1> QED BY <1>1, <1>2 DEF Locked

\* A step of q's transaction that ends it.
LEMMA EndingKeepsLocked ==
    ASSUME Typed, Locked, NEW q \in Writers, tx' = [tx EXCEPT ![q] = Idle],
           \A p \in Writers \ {q} : Kept(p)
    PROVE  Locked'
<1>1. tx'[q] = Idle /\ \A p \in Writers \ {q} : tx'[p] = tx[p] /\ tx[p] \in Transactions
  BY DEF Typed
<1>2. Held(q)' /\ Sourced(q)' = {}
  BY <1>1 DEF Held, Idle, Sourced
<1>3. \A p \in Writers \ {q} : Held(p)' /\ Sourced(p)' = Sourced(p)
  BY <1>1, HeldStays DEF Locked, Sourced
<1> QED BY <1>2, <1>3 DEF Locked

\* A step that begins one, on sources nobody holds.
LEMMA BeginningKeepsLocked ==
    ASSUME Typed, Locked, NEW q \in Writers, NEW t, tx' = [tx EXCEPT ![q] = t],
           \A p \in Writers \ {q} : Kept(p), Held(q)',
           \A s \in Sourced(q)' : s \notin HeldBy(Sourced, q)
    PROVE  Locked'
<1>1. \A p \in Writers \ {q} : tx'[p] = tx[p] /\ tx[p] \in Transactions
  BY DEF Typed
<1>2. \A p \in Writers \ {q} : Held(p)' /\ Sourced(p)' = Sourced(p)
  BY <1>1, HeldStays DEF Locked, Sourced
<1>3. \A p \in Writers \ {q} : Sourced(q)' \cap Sourced(p) = {}
  BY DEF HeldBy
<1>4. \A p, r \in Writers : p # r => Sourced(p)' \cap Sourced(r)' = {}
  BY <1>2, <1>3 DEF Locked
<1>5. \A p \in Writers : Held(p)'
  BY <1>2
<1> QED BY <1>4, <1>5 DEF Locked

LEMMA BookShrinks ==
    ASSUME NEW f, NEW h, NEW S, BookOK(f, h, S), NEW T \in SUBSET S
    PROVE  BookOK(f, h, T)
BY DEF BookOK, ChainedIn, PartedIn

\* A step that writes no fact and no instruction keeps what they say.
LEMMA NothingWritten ==
    ASSUME IInv, fact' = fact, history' = history, withdrawn' = withdrawn, alive' = alive,
           applied' = applied, pin' = pin, vacated \subseteq vacated'
    PROVE  /\ BookOK(fact, history, Alone)' /\ Owned' /\ Interpreted'
           /\ \A p \in Writers : Kept(p)
<1>1. BookOK(fact', history', Alone')
  <2>1. Alone' \in SUBSET Alone
    BY DEF Alone
  <2> QED BY <2>1, BookShrinks DEF IInv
<1>2. Owned'
  BY DEF IInv, Owned
<1>3. Interpreted'
  <2>1. \A c : (Withdrawn(c)' <=> Withdrawn(c)) /\ (Corrected(c)' <=> Corrected(c))
    BY DEF Withdrawn, Corrected
  <2>2. OneExtraction'
    BY DEF IInv, Interpreted, OneExtraction, OpenKnown
  <2> QED BY <2>1, <2>2 DEF IInv, Interpreted, OpenKnown
<1>4. ASSUME NEW p \in Writers PROVE Kept(p)
  <2>1. Rows(p) \subseteq Ids
    BY DEF Rows, IInv, Locked, Held, OpenOf
  <2> QED BY <2>1 DEF Kept, IInv, Locked, Held
<1> QED BY <1>1, <1>2, <1>3, <1>4

LEMMA AbortKeepsIt == ASSUME IInv, NEW p \in Writers, Abort(p) PROVE IInv'
<1>1. /\ fact' = fact /\ history' = history /\ withdrawn' = withdrawn /\ alive' = alive
      /\ applied' = applied /\ pin' = pin /\ vacated' = vacated /\ lost' = lost
      /\ prepared' = prepared /\ tx' = [tx EXCEPT ![p] = Idle]
  BY DEF Abort
<1>2. Typed'
  BY <1>1 DEF IInv, Typed, Transactions
<1> QED BY <1>1, <1>2, NothingWritten, EndingKeepsLocked DEF IInv

LEMMA PrepareKeepsIt == ASSUME IInv, NEW s \in Turns, Prepare(s) \/ RefusePublish(s) PROVE IInv'
<1>1. /\ fact' = fact /\ history' = history /\ withdrawn' = withdrawn /\ alive' = alive
      /\ applied' = applied /\ pin' = pin /\ vacated' = vacated /\ lost' = lost /\ tx' = tx
  BY DEF Prepare, RefusePublish
<1>2. prepared' = [prepared EXCEPT ![s] = "none"]
      \/ (/\ prepared' = [prepared EXCEPT ![s] = "fresh"]
          /\ s \in alive /\ Len(applied[s]) < MaxGenerations)
  BY DEF Prepare, RefusePublish
<1>3. Typed'
  BY <1>1, <1>2 DEF IInv, Typed
<1> QED BY <1>1, <1>3, NothingWritten, WorldKeepsLocked DEF IInv

\* What Store does to the prepared rebuilds.
LEMMA StoreKeepsPrepared ==
    ASSUME NEW f, NEW l, NEW h, NEW n, Store(f, l, h, n), IInv
    PROVE  /\ fact' = f /\ lost' = l /\ history' = h /\ pin' = n
           /\ prepared' \in [Sources -> {"none", "fresh", "stale"}]
           /\ \A s \in Sources : prepared'[s] = "fresh" => prepared[s] = "fresh" /\ n[s] = pin[s]
<1> DEFINE Same(s) == LET Of(g) == [i \in {j \in DOMAIN g : j.src = s} |-> g[i]]
                          Gone(k) == {i \in k : i.src = s}
                      IN ~(Of(f) # Of(fact) \/ Gone(l) # Gone(lost))
<1>1. fact' = f /\ lost' = l /\ history' = h /\ pin' = n
  BY DEF Store
<1>2. prepared' = [s \in Sources |-> IF prepared[s] = "fresh" /\ (~Same(s) \/ n[s] # pin[s])
                                     THEN "stale" ELSE prepared[s]]
  BY DEF Store
<1> HIDE DEF Same
<1>3. prepared \in [Sources -> {"none", "fresh", "stale"}]
  BY DEF IInv, Typed
<1> QED BY <1>1, <1>2, <1>3

LEMMA RestoreKeepsIt ==
    ASSUME IInv, NEW ids, Restore(ids), UNCHANGED <<alive, withdrawn, applied, tx, vacated>>
    PROVE  IInv'
<1>1. /\ fact' = fact /\ lost' = lost \ ids /\ history' = history /\ pin' = pin
      /\ prepared' \in [Sources -> {"none", "fresh", "stale"}]
      /\ \A s \in Sources : prepared'[s] = "fresh" => prepared[s] = "fresh"
  BY StoreKeepsPrepared DEF Restore
<1>2. Typed'
  BY <1>1 DEF IInv, Typed
<1> QED BY <1>1, <1>2, NothingWritten, WorldKeepsLocked DEF IInv

LEMMA LoseKeepsIt == ASSUME IInv, NEW i \in Ids, Lose(i) PROVE IInv'
<1>1. /\ fact' = fact /\ lost' = lost \cup {i} /\ history' = history /\ pin' = pin
      /\ prepared' \in [Sources -> {"none", "fresh", "stale"}]
      /\ \A s \in Sources : prepared'[s] = "fresh" => prepared[s] = "fresh"
  BY StoreKeepsPrepared DEF Lose
<1>2. alive' = alive /\ withdrawn' = withdrawn /\ applied' = applied /\ tx' = tx
      /\ vacated' = vacated \cup {i.slot}
  BY DEF Lose
<1>3. Typed'
  BY <1>1, <1>2 DEF IInv, Typed
<1> QED BY <1>1, <1>2, <1>3, NothingWritten, WorldKeepsLocked DEF IInv

-----------------------------------------------------------------------------
(* The clock *)

LEMMA GreatestInstant ==
    ASSUME NEW T, T # {}, \A k \in T : k \in Int /\ 1 <= k /\ k <= Never + 1
    PROVE  Max(T) \in T /\ Max(T) >= 1 /\ Max(T) \in Int /\ \A k \in T : Max(T) >= k
<1>1. Never + 1 \in Nat
  BY TimesAreNumbers
<1>2. T \in SUBSET (0 .. Never + 1)
  BY <1>1
<1>3. Max(T) \in T /\ \A y \in T : Max(T) >= y
  BY <1>1, <1>2, MaxIsGreatest
<1> QED BY <1>3

LEMMA StampIsAnInstant ==
    ASSUME IInv, NEW slot, NEW vf, NEW clock \in Instants, Stamp(slot, vf, clock) < Never
    PROVE  Stamp(slot, vf, clock) \in Instants
<1>1. CASE slot \notin Single
  BY <1>1 DEF Stamp
<1>2. CASE slot \in Single
  <2> DEFINE T == {clock}
                  \cup {fact[i].kf + 1 : i \in Previous(fact, lost, slot, vf)}
                  \cup {fact[i].kt : i \in {j \in RowsOf(fact, lost, slot) :
                            ~OpenKnown(fact, j) /\ Overlap(fact[j].vf, fact[j].vt, vf, Never)}}
  <2>1. \A i \in Ids : /\ fact[i].kf \in Int /\ 1 <= fact[i].kf /\ fact[i].kf < Never
                       /\ fact[i].kt \in Int /\ 1 <= fact[i].kt /\ fact[i].kt <= Never
    <3> SUFFICES ASSUME NEW i \in Ids
                 PROVE  /\ fact[i].kf \in Int /\ 1 <= fact[i].kf /\ fact[i].kf < Never
                        /\ fact[i].kt \in Int /\ 1 <= fact[i].kt /\ fact[i].kt <= Never
      OBVIOUS
    <3>1. IsSpan(fact[i]) /\ fact[i].kf \in Instants /\ fact[i].kf < fact[i].kt /\ fact[i].kt <= Never
      BY RowsAreSpans DEF IInv, BookOK
    <3> QED BY <3>1, TimesAreNumbers DEF IsSpan
  <2>2. \A k \in T : k \in Int /\ 1 <= k /\ k <= Never + 1
    BY <2>1, TimesAreNumbers DEF Previous, RowsOf
  <2>3. Stamp(slot, vf, clock) = Max(T)
    BY <1>2 DEF Stamp
  <2> HIDE DEF T
  <2>4. T # {}
    BY DEF T
  <2> QED BY <2>2, <2>3, <2>4, GreatestInstant, TimesAreNumbers
<1> QED BY <1>1, <1>2

LEMMA EndIsLater ==
    ASSUME IInv, NEW i \in Ids, NEW clock \in Instants, EndOfKnowledge(i, clock) < Never
    PROVE  EndOfKnowledge(i, clock) \in Instants /\ fact[i].kf < EndOfKnowledge(i, clock)
<1> DEFINE T == {clock, fact[i].kf + 1}
<1>1. fact[i].kf \in Instants
  BY RowsAreSpans DEF IInv, BookOK
<1>2. \A k \in T : k \in Int /\ 1 <= k /\ k <= Never + 1
  BY <1>1, TimesAreNumbers
<1>3. EndOfKnowledge(i, clock) = Max(T) /\ T # {} /\ fact[i].kf + 1 \in T
  BY DEF EndOfKnowledge
<1> HIDE DEF T
<1>4. Max(T) \in Int /\ Max(T) >= 1 /\ Max(T) >= fact[i].kf + 1
  BY <1>2, <1>3, GreatestInstant
<1> QED BY <1>1, <1>3, <1>4, TimesAreNumbers

LEMMA AppliedIsLater ==
    ASSUME IInv, NEW s \in Sources, NEW clock \in Instants, AppliedAt(s, clock) < Never
    PROVE  AppliedAt(s, clock) \in Instants /\ \A i \in OpenOf(s) : fact[i].kf < AppliedAt(s, clock)
<1> DEFINE T == {clock}
               \cup {a + 1 : a \in ToSet(applied[s])}
               \cup {(IF OpenKnown(fact, i) THEN fact[i].kf ELSE fact[i].kt) + 1 :
                       i \in {j \in Ids \ (lost \ OpenOf(s)) : j.src = s}}
<1>1. ASSUME NEW i \in Ids
      PROVE  /\ fact[i].kf \in Int /\ 1 <= fact[i].kf /\ fact[i].kf < Never
             /\ fact[i].kt \in Int /\ 1 <= fact[i].kt /\ fact[i].kt <= Never
  <2>1. IsSpan(fact[i]) /\ fact[i].kf \in Instants /\ fact[i].kf < fact[i].kt /\ fact[i].kt <= Never
    BY RowsAreSpans DEF IInv, BookOK
  <2> QED BY <2>1, TimesAreNumbers DEF IsSpan
<1>2. \A a \in ToSet(applied[s]) : a \in Instants
  BY DEF ToSet, IInv, Typed
<1>3. \A k \in T : k \in Int /\ 1 <= k /\ k <= Never + 1
  BY <1>1, <1>2, TimesAreNumbers
<1>4. AppliedAt(s, clock) = Max(T) /\ T # {} /\ \A i \in OpenOf(s) : fact[i].kf + 1 \in T
  BY DEF AppliedAt, OpenOf
<1> HIDE DEF T
<1>5. Max(T) \in Int /\ Max(T) >= 1 /\ \A k \in T : Max(T) >= k
  BY <1>3, <1>4, GreatestInstant
<1>6. ASSUME NEW i \in OpenOf(s) PROVE fact[i].kf < AppliedAt(s, clock)
  <2>1. i \in Ids /\ Max(T) >= fact[i].kf + 1
    BY <1>4, <1>5 DEF OpenOf
  <2> QED BY <1>1, <1>4, <1>5, <2>1
<1> QED BY <1>4, <1>5, <1>6, TimesAreNumbers

-----------------------------------------------------------------------------
(* Transactions that begin *)

LEMMA PinKeepsIt ==
    ASSUME IInv, NEW s \in Turns, NEW v \in Versions, PinExtraction(s, v)
    PROVE  IInv'
<1>0. s \in Sources /\ s \in alive /\ pin[s] = None /\ \A p \in Writers : s \notin Sourced(p)
  BY DEF PinExtraction, Quiet, Sources
<1>1. /\ fact' = fact /\ lost' = lost /\ history' = history
      /\ pin' = [pin EXCEPT ![s] = [ver |-> v, gen |-> 0]]
      /\ prepared' \in [Sources -> {"none", "fresh", "stale"}]
      /\ \A r \in Sources : prepared'[r] = "fresh" => prepared[r] = "fresh"
  BY StoreKeepsPrepared DEF PinExtraction
<1>2. alive' = alive /\ withdrawn' = withdrawn /\ applied' = applied /\ tx' = tx /\ vacated' = vacated
  BY DEF PinExtraction
<1>3. /\ pin'[s] = [ver |-> v, gen |-> 0] /\ \A r \in Sources : r # s => pin'[r] = pin[r]
      /\ pin' \in [Sources -> [ver : Versions \cup {Curated}, gen : 0 .. MaxGenerations] \cup {None}]
  BY <1>0, <1>1, ClaimAssumption DEF IInv, Typed
<1>4. Typed'
  BY <1>1, <1>2, <1>3 DEF IInv, Typed
<1>5. BookOK(fact', history', Alone')
  BY <1>1, <1>2 DEF IInv, Alone
<1>6. Owned'
  BY <1>0, <1>1, <1>2, <1>3 DEF IInv, Owned
<1>7. Interpreted'
  <2>1. \A c : (Withdrawn(c)' <=> Withdrawn(c)) /\ (Corrected(c)' <=> Corrected(c))
    BY <1>1, <1>2 DEF Withdrawn, Corrected
  <2>2. ASSUME NEW i \in Ids, OpenKnown(fact, i)
        PROVE  pin'[i.src] = [ver |-> fact[i].ver, gen |-> i.gen]
    <3>1. pin[i.src] = [ver |-> fact[i].ver, gen |-> i.gen] /\ i.src \in Sources
      BY <2>2 DEF IInv, Interpreted, OneExtraction, Owned, Typed
    <3>2. i.src # s
      <4>1. i \in Identities /\ fact[i] \in Stored
        BY RowsAreSpans DEF IInv, BookOK
      <4>2. [ver |-> fact[i].ver, gen |-> i.gen] \in [ver : Versions \cup {Curated}, gen : 0 .. MaxGenerations]
        BY <4>1 DEF Identities, Stored
      <4> QED BY <1>0, <3>1, <4>2, ClaimAssumption
    <3> QED BY <1>3, <3>1, <3>2
  <2>3. OneExtraction'
    BY <1>1, <2>2 DEF OneExtraction, OpenKnown
  <2>4. \A r \in Sources : pin'[r] # None => pin'[r].gen <= Len(applied'[r])
    <3>1. Len(applied[s]) \in Nat
      BY <1>0 DEF IInv, Typed
    <3> QED BY <1>2, <1>3, <3>1 DEF IInv, Interpreted
  <2> QED BY <1>1, <1>2, <2>1, <2>3, <2>4 DEF IInv, Interpreted, OpenKnown
<1>8. ASSUME NEW p \in Writers PROVE Kept(p)
  <2>1. Rows(p) \subseteq Ids
    BY DEF Rows, IInv, Locked, Held, OpenOf
  <2>2. tx[p].kind # "idle" => tx[p].src # s /\ tx[p].src \in Sources
    BY <1>0 DEF Sourced, IInv, Typed, Transactions, Idle, Sources
  <2> QED BY <1>1, <1>2, <1>3, <2>1, <2>2 DEF Kept, IInv, Locked, Held
<1> QED BY <1>2, <1>4, <1>5, <1>6, <1>7, <1>8, WorldKeepsLocked DEF IInv

\* A transaction that has written nothing yet.
LEMMA BeginningKeepsIt ==
    ASSUME IInv, NEW p \in Writers, NEW t \in Transactions, tx' = [tx EXCEPT ![p] = t],
           UNCHANGED <<alive, fact, lost, history, withdrawn, pin, applied, prepared, vacated>>,
           Held(p)', \A s \in Sourced(p)' : s \notin HeldBy(Sourced, p)
    PROVE  IInv'
<1>1. Typed'
  BY DEF IInv, Typed
<1>2. \A q \in Writers : Kept(q)
  BY NothingWritten DEF IInv
<1>3. Locked'
  BY <1>2, BeginningKeepsLocked DEF IInv
<1> QED BY <1>1, <1>3, NothingWritten DEF IInv

LEMMA BeginAssertKeepsIt ==
    ASSUME IInv, NEW p \in Writers, NEW clock \in Instants, NEW c \in Claims,
           NEW v \in Versions \cup {Curated}, BeginAssert(p, c, v, clock)
    PROVE  IInv'
<1>1. c \in [src : Sources, slot : Slots, val : Values, at : Instants]
  BY ClaimAssumption
<1> DEFINE t == [kind |-> "assert", src |-> c.src, claim |-> c, ver |-> v,
                 at |-> Stamp(c.slot, c.at, clock)]
<1>2. /\ tx' = [tx EXCEPT ![p] = t]
      /\ UNCHANGED <<alive, fact, lost, history, withdrawn, pin, applied, prepared, vacated>>
      /\ c.src \notin HeldBy(Sourced, p) /\ MayInterpret(c.src, v) /\ ~Withdrawn(c)
      /\ Identity(c, 0) \notin Ids /\ Stamp(c.slot, c.at, clock) < Never
      /\ c.src \in Edits => c.src \notin alive /\ v = Curated
      /\ c.src \notin Edits => c.src \in alive /\ v # Curated
  BY ClaimAssumption DEF BeginAssert
<1>3. t \in Transactions
  BY <1>1, <1>2, StampIsAnInstant DEF Transactions
<1>4. tx'[p] = t /\ t.kind = "assert" /\ t.src = c.src /\ t.claim = c /\ t.ver = v
  BY <1>2 DEF IInv, Typed
<1> HIDE DEF t
<1>5. Sourced(p)' = {c.src}
  BY <1>4 DEF Sourced
<1>6. Held(p)'
  <2>1. ~Withdrawn(c)' /\ MayInterpret(c.src, v)'
    BY <1>2 DEF Withdrawn, MayInterpret
  <2> QED BY <1>2, <1>4, <2>1 DEF Held
<1> QED BY <1>2, <1>3, <1>5, <1>6, BeginningKeepsIt

LEMMA BeginCorrectKeepsIt ==
    ASSUME IInv, NEW p \in Writers, NEW clock \in Instants, NEW i \in Ids, NEW c \in Claims,
           NEW dated \in BOOLEAN, BeginCorrect(p, i, c, dated, clock)
    PROVE  IInv'
<1>1. c \in [src : Sources, slot : Slots, val : Values, at : Instants]
  BY ClaimAssumption
<1> DEFINE t == [kind |-> "correct", src |-> i.src, target |-> i, edit |-> c.src, val |-> c.val,
                 since |-> IF dated THEN c.at ELSE EndOfKnowledge(i, clock),
                 at |-> EndOfKnowledge(i, clock)]
<1>2. /\ tx' = [tx EXCEPT ![p] = t]
      /\ UNCHANGED <<alive, fact, lost, history, withdrawn, pin, applied, prepared, vacated>>
      /\ c.src \notin HeldBy(Sourced, p) /\ i.src \notin HeldBy(Sourced, p)
      /\ OpenKnown(fact, i) /\ OpenValid(fact, i) /\ EndOfKnowledge(i, clock) < Never
      /\ c.src \in Edits /\ c.src \notin alive
  BY DEF BeginCorrect, Withdrawable
<1>3. EndOfKnowledge(i, clock) \in Instants /\ fact[i].kf < EndOfKnowledge(i, clock)
  BY <1>2, EndIsLater
<1>4. i \in Identities /\ i.src \in Sources
  BY RowsAreSpans DEF IInv, BookOK, Identities
<1>5. t \in Transactions
  BY <1>1, <1>2, <1>3, <1>4 DEF Transactions
<1>6. /\ tx'[p] = t /\ t.kind = "correct" /\ t.src = i.src /\ t.target = i /\ t.edit = c.src
      /\ t.at = EndOfKnowledge(i, clock)
  BY <1>2 DEF IInv, Typed
<1> HIDE DEF t
<1>7. Sourced(p)' = {i.src, c.src}
  BY <1>6 DEF Sourced
<1>8. Held(p)'
  BY <1>2, <1>3, <1>6 DEF Held, OpenKnown, OpenValid
<1> QED BY <1>2, <1>5, <1>7, <1>8, BeginningKeepsIt

LEMMA BeginPublishKeepsIt ==
    ASSUME IInv, NEW p \in Writers, NEW clock \in Instants, NEW s \in Turns, NEW v \in Versions,
           BeginPublish(p, s, v, clock)
    PROVE  IInv'
<1> DEFINE t == [kind |-> "publish", src |-> s, ver |-> v, retired |-> OpenOf(s),
                 at |-> AppliedAt(s, clock)]
<1>1. /\ tx' = [tx EXCEPT ![p] = t]
      /\ UNCHANGED <<alive, fact, lost, history, withdrawn, pin, applied, prepared, vacated>>
      /\ s \notin HeldBy(Sourced, p) /\ prepared[s] = "fresh" /\ AppliedAt(s, clock) < Never
      /\ s \in Sources
  BY DEF BeginPublish, Sources
<1>2. /\ AppliedAt(s, clock) \in Instants /\ \A i \in OpenOf(s) : fact[i].kf < AppliedAt(s, clock)
  BY <1>1, AppliedIsLater
<1>3. OpenOf(s) \in SUBSET Identities
  BY DEF OpenOf, IInv, BookOK, RowsOK
<1>4. t \in Transactions
  BY <1>1, <1>2, <1>3 DEF Transactions
<1>5. /\ tx'[p] = t /\ t.kind = "publish" /\ t.src = s /\ t.ver = v /\ t.retired = OpenOf(s)
      /\ t.at = AppliedAt(s, clock)
  BY <1>1 DEF IInv, Typed
<1> HIDE DEF t
<1>6. Sourced(p)' = {s}
  BY <1>5 DEF Sourced
<1>7. Held(p)'
  <2>1. OpenOf(s)' = OpenOf(s) /\ s \in alive /\ Len(applied[s]) < MaxGenerations /\ v # Curated
    BY <1>1, ClaimAssumption DEF OpenOf, OpenKnown, IInv, Typed
  <2> QED BY <1>1, <1>2, <1>5, <2>1 DEF Held
<1> QED BY <1>1, <1>4, <1>6, <1>7, BeginningKeepsIt

-----------------------------------------------------------------------------
(* Withdrawals *)

\* What is believed of a source is of one generation.
LEMMA OneGeneration ==
    ASSUME IInv, NEW i \in Ids, NEW j \in Ids, OpenKnown(fact, i), OpenKnown(fact, j), i.src = j.src
    PROVE  i.gen = j.gen
<1>1. OneExtraction
  BY DEF IInv, Interpreted
<1>2. /\ pin[i.src] = [ver |-> fact[i].ver, gen |-> i.gen]
      /\ pin[j.src] = [ver |-> fact[j].ver, gen |-> j.gen]
  BY <1>1 DEF OneExtraction
<1>3. pin[i.src].gen = i.gen /\ pin[j.src].gen = j.gen
  BY <1>2
<1> QED BY <1>3

\* So the claim names it.
LEMMA OneOpenPerClaim ==
    ASSUME IInv, NEW i \in Ids, NEW j \in Ids, OpenKnown(fact, i), OpenKnown(fact, j),
           i.src = j.src, i.slot = j.slot, i.val = j.val, i.at = j.at
    PROVE  i = j
<1>1. i.gen = j.gen
  BY OneGeneration
<1>2. i \in Identities /\ j \in Identities
  BY RowsAreSpans DEF IInv, BookOK
<1> QED BY <1>1, <1>2 DEF Identities

\* In a slot of cardinality one a generation says one thing of one instant.
LEMMA OneOpenPerInstant ==
    ASSUME IInv, NEW i \in Ids, NEW j \in Ids, OpenKnown(fact, i), OpenKnown(fact, j),
           i.src = j.src, i.slot = j.slot, i.at = j.at, i.slot \in Single, i.gen > 0
    PROVE  i = j
<1>1. i.gen = j.gen
  BY OneGeneration
<1> QED BY <1>1 DEF IInv, Interpreted

\* No instruction of k, whose targets are looked up in ids, is against what j says.
Ungoverned(j, k, ids) ==
    /\ ~\E w \in k : w.src = j.src /\ w.slot = j.slot /\ w.val = j.val /\ w.at = j.at
    /\ j.slot \in Single /\ j.gen > 0 =>
         ~\E w \in k : /\ w.src = j.src /\ w.slot = j.slot /\ w.at = j.at
                       /\ w.replacement # None /\ w.target \in ids

\* A fact closed and withdrawn, with a replacement or without.
LEMMA WithdrawingGoverns ==
    ASSUME IInv, NEW i \in Ids, OpenKnown(fact, i), NEW r,
           NEW j \in Ids, j # i, OpenKnown(fact, j), NEW k,
           k = withdrawn \cup {Tombstone(i, r)}
    PROVE  Ungoverned(j, k, Ids)
<1>1. ~Withdrawn(j) /\ (j.slot \in Single /\ j.gen > 0 => ~Corrected(j))
  BY DEF IInv, Interpreted
<1>2. /\ Tombstone(i, r).src = i.src /\ Tombstone(i, r).slot = i.slot
      /\ Tombstone(i, r).val = i.val /\ Tombstone(i, r).at = i.at
  BY DEF Tombstone
<1>3. ~(i.src = j.src /\ i.slot = j.slot /\ i.val = j.val /\ i.at = j.at)
  BY OneOpenPerClaim
<1>4. j.slot \in Single /\ j.gen > 0 => ~(i.src = j.src /\ i.slot = j.slot /\ i.at = j.at)
  BY OneOpenPerInstant
<1> QED BY <1>1, <1>2, <1>3, <1>4 DEF Withdrawn, Corrected, Ungoverned

\* A step that changes nothing of the sources in the rest of the world but those of M.
LEMMA OthersKept ==
    ASSUME IInv, NEW q \in Writers, NEW M, Sourced(q) \cap M = {},
           \A i \in Ids' : i.src \notin M => i \in Ids /\ fact'[i] = fact[i],
           Rows(q) \cap Ids \subseteq Ids',
           \A s \in Sources \ M : /\ pin'[s] = pin[s] /\ applied'[s] = applied[s]
                                  /\ s \in alive' <=> s \in alive,
           \A w \in withdrawn' : w.src \notin M =>
               \E u \in withdrawn : u.src = w.src /\ u.slot = w.slot /\ u.val = w.val /\ u.at = w.at
    PROVE  Kept(q)
<1>1. CASE tx[q].kind = "idle"
  BY <1>1 DEF Kept
<1>2. CASE tx[q].kind # "idle"
  <2>1. tx[q] \in Transactions /\ Held(q)
    BY DEF IInv, Typed, Locked
  <2>2. tx[q].src \in Sourced(q) /\ tx[q].src \in Sources
    BY <1>2, <2>1 DEF Sourced, Transactions, Idle, Sources
  <2>3. tx[q].kind = "correct" => tx[q].edit \in Sourced(q) /\ tx[q].edit \in Sources /\ tx[q].edit \notin alive
    BY <2>1 DEF Sourced, Transactions, Idle, Sources, Held
  <2>4. Rows(q) \subseteq Ids
    BY <2>1 DEF Rows, Held, OpenOf
  <2> QED BY <2>2, <2>3, <2>4 DEF Kept
<1> QED BY <1>1, <1>2

\* Retract closes a fact and leaves its tombstone.
LEMMA RetractKeepsIt ==
    ASSUME IInv, NEW p \in Writers, NEW clock \in Instants, NEW i \in Ids, Retract(p, i, clock)
    PROVE  IInv'
<1>1. PICK at : at = EndOfKnowledge(i, clock)
  OBVIOUS
<1>2. /\ Store(Close(fact, {i}, at), lost, history, pin)
      /\ withdrawn' = withdrawn \cup {Tombstone(i, None)}
      /\ alive' = alive /\ applied' = applied /\ tx' = tx /\ vacated' = vacated
      /\ OpenKnown(fact, i) /\ i.src \notin HeldBy(Sourced, p) /\ tx[p].kind = "idle" /\ at < Never
  BY <1>1 DEF Retract, Withdrawable
<1>3. at \in Instants /\ fact[i].kf < at /\ at # Never
  BY <1>1, <1>2, EndIsLater, TimesAreNumbers
<1>4. /\ BookOK(Close(fact, {i}, at), history, Alone) /\ DOMAIN Close(fact, {i}, at) = Ids
      /\ \A j \in Ids : Close(fact, {i}, at)[j] = IF j \in {i} THEN [fact[j] EXCEPT !.kt = at] ELSE fact[j]
  BY <1>2, <1>3, ClosingKeepsBook DEF IInv, OpenKnown
<1>5. /\ fact' = Close(fact, {i}, at) /\ lost' = lost /\ history' = history /\ pin' = pin
      /\ prepared' \in [Sources -> {"none", "fresh", "stale"}]
      /\ \A s \in Sources : prepared'[s] = "fresh" => prepared[s] = "fresh"
  BY <1>2, StoreKeepsPrepared
<1>6. Ids' = Ids /\ BookOK(fact', history', Alone')
  BY <1>2, <1>4, <1>5 DEF Alone
<1>7. ASSUME NEW j \in Ids
      PROVE  /\ fact'[j].ver = fact[j].ver /\ fact'[j].by = fact[j].by
             /\ j # i => fact'[j] = fact[j]
             /\ OpenKnown(fact', j) => j # i /\ OpenKnown(fact, j)
  <2>1. fact[j] \in Stored
    BY RowsAreSpans DEF IInv, BookOK
  <2>2. CASE j = i
    <3>1. fact'[j] = [fact[j] EXCEPT !.kt = at]
      BY <1>4, <1>5, <2>2
    <3>2. fact'[j].ver = fact[j].ver /\ fact'[j].by = fact[j].by /\ fact'[j].kt = at
      BY <2>1, <3>1 DEF Stored
    <3> QED BY <1>3, <2>2, <3>2 DEF OpenKnown
  <2>3. CASE j # i
    BY <1>4, <1>5, <2>3 DEF OpenKnown
  <2> QED BY <2>2, <2>3
<1>8. i \in Identities /\ i.src \in alive /\ i.gen <= Len(applied[i.src])
  BY RowsAreSpans DEF IInv, BookOK, Owned, Interpreted
<1>9. /\ Tombstone(i, None).src = i.src /\ Tombstone(i, None).replacement = None
      /\ Tombstone(i, None).target = i
  BY DEF Tombstone
<1>10. Typed'
  BY <1>2, <1>5, <1>6, <1>8 DEF IInv, Typed
<1>11. Owned'
  <2>1. \A w \in withdrawn' : w.src \in alive' /\ w.replacement \in alive' \cup {None}
    BY <1>2, <1>8, <1>9 DEF IInv, Owned
  <2>2. \A j \in Ids' : j.src \in alive' /\ fact'[j].by \in alive' \cup {None}
    BY <1>2, <1>6, <1>7 DEF IInv, Owned
  <2> QED BY <1>2, <1>5, <2>1, <2>2 DEF IInv, Owned
<1>12. Interpreted'
  <2>1. \A j \in Ids' : j.gen <= Len(applied'[j.src]) /\ (fact'[j].ver = Curated <=> j.src \in Edits)
    <3>1. \A j \in Ids : j.gen <= Len(applied[j.src]) /\ (fact[j].ver = Curated <=> j.src \in Edits)
      BY DEF IInv, Interpreted
    <3> QED BY <1>2, <1>6, <1>7, <3>1
  <2>2. \A w \in withdrawn' : w.target.gen <= Len(applied'[w.src])
    BY <1>2, <1>8, <1>9 DEF IInv, Interpreted
  <2>3. OneExtraction'
    <3> SUFFICES ASSUME NEW j \in Ids', OpenKnown(fact', j)
                 PROVE  pin'[j.src] = [ver |-> fact'[j].ver, gen |-> j.gen]
      BY DEF OneExtraction
    <3>1. j \in Ids /\ OpenKnown(fact, j) /\ fact'[j].ver = fact[j].ver
      BY <1>6, <1>7
    <3>2. pin[j.src] = [ver |-> fact[j].ver, gen |-> j.gen]
      BY <3>1 DEF IInv, Interpreted, OneExtraction
    <3> QED BY <1>5, <3>1, <3>2
  <2>4. ASSUME NEW j \in Ids', OpenKnown(fact', j)
        PROVE  ~Withdrawn(j)' /\ (j.slot \in Single /\ j.gen > 0 => ~Corrected(j)')
    <3>1. j \in Ids /\ j # i /\ OpenKnown(fact, j)
      BY <1>6, <1>7, <2>4
    <3>2. Ungoverned(j, withdrawn', Ids)
      BY <1>2, <3>1, WithdrawingGoverns
    <3> QED BY <1>6, <3>2 DEF Withdrawn, Corrected, Ungoverned
  <2>5. \A j, k \in Ids' :
           /\ j.slot \in Single /\ j.gen > 0 /\ j.gen = k.gen
           /\ j.src = k.src /\ j.slot = k.slot /\ j.at = k.at
           => j = k
    BY <1>6 DEF IInv, Interpreted
  <2>6. \A s \in Sources : pin'[s] # None => pin'[s].gen <= Len(applied'[s])
    BY <1>2, <1>5 DEF IInv, Interpreted
  <2> QED BY <2>1, <2>2, <2>3, <2>4, <2>5, <2>6 DEF Interpreted
<1>13. ASSUME NEW q \in Writers PROVE Kept(q)
  <2>1. Sourced(q) \cap {i.src} = {}
    BY <1>2 DEF HeldBy, Sourced
  <2>2. \A j \in Ids' : j.src \notin {i.src} => j \in Ids /\ fact'[j] = fact[j]
    BY <1>6, <1>7
  <2>3. \A w \in withdrawn' : w.src \notin {i.src} =>
           \E u \in withdrawn : u.src = w.src /\ u.slot = w.slot /\ u.val = w.val /\ u.at = w.at
    BY <1>2, <1>9
  <2> QED BY <1>2, <1>5, <1>6, <2>1, <2>2, <2>3, OthersKept
<1>14. Locked'
  BY <1>2, <1>13, WorldKeepsLocked DEF IInv
<1> QED BY <1>6, <1>10, <1>11, <1>12, <1>14 DEF IInv

-----------------------------------------------------------------------------
(* Assertions *)

\* What an assertion of x makes of the rows f, of which l are missing: the facts it follows are ended
\* and saved, and the new one is recorded.
Asserting(f, h, l, S, x, at, ver, prev, g, k) ==
    /\ BookOK(f, h, S) /\ S \subseteq Single /\ \A i \in l : i.slot \notin S
    /\ x \in Identities /\ x \notin DOMAIN f /\ at \in Instants /\ ver \in Versions \cup {Curated}
    /\ prev = Previous(f, l, x.slot, x.at) /\ Archivable(f, prev, at)
    /\ Clashing(Supersede(f, prev, x.at, at, x.src), l, x.slot, x.at, Never, at, Never) = {}
    /\ g = With(Supersede(f, prev, x.at, at, x.src), x, NewFact(x.at, Never, at, None, ver))
    /\ k = h \cup Archive(f, prev, at, x.src)

Asserted(f, h, S, x, ver, prev, g, k) ==
    /\ BookOK(g, k, S)
    /\ DOMAIN g = DOMAIN f \cup {x}
    /\ g[x].ver = ver /\ g[x].kt = Never /\ g[x].by = None
    /\ \A j \in DOMAIN f \ prev : g[j] = f[j]
    /\ \A j \in prev : j \in DOMAIN f /\ g[j].ver = f[j].ver /\ g[j].kt = f[j].kt /\ g[j].by = x.src
    /\ \A y \in k : y \in h \/ y.by = x.src

LEMMA AssertingKeepsBook ==
    ASSUME NEW f, NEW h, NEW l, NEW S, NEW x, NEW at, NEW ver, NEW prev, NEW g, NEW k,
           Asserting(f, h, l, S, x, at, ver, prev, g, k)
    PROVE  Asserted(f, h, S, x, ver, prev, g, k)
<1> DEFINE row == NewFact(x.at, Never, at, None, ver)
           e == Supersede(f, prev, x.at, at, x.src)
<1>0. /\ BookOK(f, h, S) /\ S \subseteq Single /\ \A i \in l : i.slot \notin S
      /\ x \in Identities /\ x \notin DOMAIN f /\ at \in Instants /\ ver \in Versions \cup {Curated}
      /\ prev = Previous(f, l, x.slot, x.at) /\ Archivable(f, prev, at)
      /\ Clashing(e, l, x.slot, x.at, Never, at, Never) = {}
      /\ g = With(e, x, row) /\ k = h \cup Archive(f, prev, at, x.src)
  BY DEF Asserting
<1>1. x.src \in Sources /\ x.at \in Instants
  BY <1>0 DEF Identities
<1>2. row \in Stored /\ row.vf = x.at /\ row.vt = Never /\ row.kf = at /\ row.kt = Never
      /\ row.ver = ver /\ row.by = None
  BY <1>0, <1>1, TimesAreNumbers DEF NewFact, Stored
<1>3. /\ DOMAIN e = DOMAIN f
      /\ \A i \in DOMAIN f : e[i] = IF i \in prev THEN [f[i] EXCEPT !.vt = x.at, !.kf = at, !.by = x.src]
                                                  ELSE f[i]
  BY DEF Supersede
<1> HIDE DEF row, e
<1>4. Clear(e, x, row, S)
  <2> SUFFICES ASSUME NEW j \in DOMAIN e, j.slot = x.slot, j.slot \in S,
                      Overlap(e[j].vf, e[j].vt, row.vf, row.vt),
                      Overlap(e[j].kf, e[j].kt, row.kf, row.kt)
               PROVE  FALSE
    BY DEF Clear
  <2>1. j \in Clashing(e, l, x.slot, x.at, Never, at, Never)
    BY <1>0, <1>2 DEF Clashing, RowsOf
  <2> QED BY <1>0, <2>1
<1>5. \A i \in prev : /\ i \in DOMAIN f /\ i.slot = x.slot /\ f[i].vt = Never /\ f[i].kt = Never
                      /\ f[i].vf < x.at /\ f[i].kf < at
  BY <1>0 DEF Previous, RowsOf, OpenValid, OpenKnown, Archivable
<1>6. BookOK(g, k, S)
  BY <1>0, <1>1, <1>2, <1>4, <1>5, SupersedingKeepsBook DEF e
<1>7. /\ DOMAIN g = DOMAIN e \cup {x} /\ g[x] = row /\ \A j \in DOMAIN e : g[j] = e[j]
  BY <1>0, <1>3 DEF With
<1>8. ASSUME NEW j \in prev
      PROVE  g[j].ver = f[j].ver /\ g[j].kt = f[j].kt /\ g[j].by = x.src
  <2>1. f[j] \in Stored
    BY <1>0, <1>5, RowsAreSpans DEF BookOK
  <2>2. g[j] = [f[j] EXCEPT !.vt = x.at, !.kf = at, !.by = x.src]
    BY <1>3, <1>5, <1>7
  <2> QED BY <2>1, <2>2 DEF Stored
<1>9. \A y \in k : y \in h \/ y.by = x.src
  BY <1>0 DEF Archive
<1> QED BY <1>2, <1>3, <1>5, <1>6, <1>7, <1>8, <1>9 DEF Asserted

\* A transaction that ends and writes nothing.
LEMMA EndingKeepsIt ==
    ASSUME IInv, NEW p \in Writers, tx' = [tx EXCEPT ![p] = Idle],
           UNCHANGED <<alive, fact, lost, history, withdrawn, pin, applied, prepared, vacated>>
    PROVE  IInv'
<1>1. Typed'
  BY DEF IInv, Typed, Transactions
<1> QED BY <1>1, NothingWritten, EndingKeepsLocked DEF IInv

\* An instruction is about a fact of the source it names.
LEMMA TargetsAreTheirs ==
    ASSUME IInv, NEW w \in withdrawn
    PROVE  /\ w.target.src = w.src /\ w.target.slot = w.slot /\ w.target.val = w.val
           /\ w.target.at = w.at /\ w.src \in alive
<1>1. PICK i \in Identities, r \in Edits \cup {None} : w = Tombstone(i, r)
  BY DEF IInv, Typed
<1> QED BY <1>1 DEF Tombstone, IInv, Owned

LEMMA FinishAssertKeepsIt ==
    ASSUME IInv, NEW p \in Writers, FinishAssert(p)
    PROVE  IInv'
<1>1. PICK t : t = tx[p]
  OBVIOUS
<1>2. PICK c : c = t.claim
  OBVIOUS
<1>3. PICK x : x = Identity(c, 0)
  OBVIOUS
<1>4. PICK prev : prev = Previous(fact, lost, c.slot, c.at)
  OBVIOUS
<1>5. PICK e : e = Supersede(fact, prev, c.at, t.at, t.src)
  OBVIOUS
<1>6. /\ t.kind = "assert" /\ tx' = [tx EXCEPT ![p] = Idle]
      /\ HeldBy(Sourced, p) \cap {i.src : i \in prev} = {}
  BY <1>1, <1>2, <1>4 DEF FinishAssert, Reachable
<1>7. /\ t \in Transactions /\ c \in Claims /\ c.src = t.src /\ t.ver \in Versions \cup {Curated}
      /\ t.at \in Instants /\ ~Withdrawn(c) /\ MayInterpret(t.src, t.ver) /\ x \notin Ids
      /\ t.src \in Edits => t.src \notin alive /\ t.ver = Curated
      /\ t.src \notin Edits => t.src \in alive /\ t.ver # Curated
  BY <1>1, <1>2, <1>3, <1>6 DEF IInv, Typed, Locked, Held, Transactions, Idle
<1>8. /\ x \in Identities /\ x.src = t.src /\ x.slot = c.slot /\ x.val = c.val /\ x.at = c.at
      /\ x.gen = 0 /\ t.src \in Sources
  <2>1. c \in [src : Sources, slot : Slots, val : Values, at : Instants] /\ 0 \in 0 .. MaxGenerations
    BY <1>7, ClaimAssumption
  <2> QED BY <1>3, <1>7, <2>1 DEF Identity, Identities
<1>9. CASE ~(Archivable(fact, prev, t.at) /\ Clashing(e, lost, c.slot, c.at, Never, t.at, Never) = {})
  <2>1. UNCHANGED <<alive, fact, lost, history, withdrawn, pin, applied, prepared, vacated>>
    BY <1>1, <1>2, <1>4, <1>5, <1>9, SMTT(20) DEF FinishAssert
  <2> QED BY <1>6, <2>1, EndingKeepsIt
<1>10. CASE Archivable(fact, prev, t.at) /\ Clashing(e, lost, c.slot, c.at, Never, t.at, Never) = {}
  <2>1. PICK g : g = With(e, x, NewFact(c.at, Never, t.at, None, t.ver))
    BY Zenon
  <2>2. /\ Store(g, lost, history \cup Archive(fact, prev, t.at, t.src),
                 [pin EXCEPT ![t.src] = [ver |-> t.ver, gen |-> 0]])
        /\ alive' = alive \cup {t.src}
        /\ withdrawn' = withdrawn /\ applied' = applied /\ vacated' = vacated
    BY <1>1, <1>2, <1>3, <1>4, <1>5, <1>10, <2>1, SMTT(20) DEF FinishAssert
  <2>3. /\ fact' = g /\ lost' = lost /\ history' = history \cup Archive(fact, prev, t.at, t.src)
        /\ pin' = [pin EXCEPT ![t.src] = [ver |-> t.ver, gen |-> 0]]
        /\ prepared' \in [Sources -> {"none", "fresh", "stale"}]
        /\ \A s \in Sources : prepared'[s] = "fresh" => prepared[s] = "fresh"
    BY <2>2, StoreKeepsPrepared
  <2>4. /\ pin'[t.src] = [ver |-> t.ver, gen |-> 0] /\ \A s \in Sources : s # t.src => pin'[s] = pin[s]
        /\ pin' \in [Sources -> [ver : Versions \cup {Curated}, gen : 0 .. MaxGenerations] \cup {None}]
    BY <1>7, <1>8, <2>3, ClaimAssumption DEF IInv, Typed
  <2>5. \A i \in lost : i.slot \notin Alone
    BY DEF IInv, Typed, Alone
  <2>6. /\ BookOK(fact', history', Alone)
        /\ Ids' = Ids \cup {x}
        /\ fact'[x].ver = t.ver /\ fact'[x].kt = Never /\ fact'[x].by = None
        /\ \A j \in Ids \ prev : fact'[j] = fact[j]
        /\ \A j \in prev : /\ j \in Ids /\ fact'[j].ver = fact[j].ver /\ fact'[j].kt = fact[j].kt
                           /\ fact'[j].by = t.src
        /\ \A y \in history' : y \in history \/ y.by = t.src
    <3>1. BookOK(fact, history, Alone) /\ Alone \subseteq Single
      BY DEF IInv, Alone
    <3>2. /\ prev = Previous(fact, lost, x.slot, x.at) /\ Archivable(fact, prev, t.at)
          /\ Clashing(Supersede(fact, prev, x.at, t.at, x.src), lost, x.slot, x.at, Never, t.at, Never) = {}
          /\ g = With(Supersede(fact, prev, x.at, t.at, x.src), x, NewFact(x.at, Never, t.at, None, t.ver))
      BY <1>4, <1>5, <1>8, <1>10, <2>1
    <3>3. PICK k : k = history \cup Archive(fact, prev, t.at, x.src)
      OBVIOUS
    <3>4. Asserting(fact, history, lost, Alone, x, t.at, t.ver, prev, g, k)
      BY <1>7, <1>8, <2>5, <3>1, <3>2, <3>3 DEF Asserting
    <3>5. Asserted(fact, history, Alone, x, t.ver, prev, g, k)
      BY <3>4, AssertingKeepsBook
    <3> QED BY <1>8, <2>3, <3>3, <3>5 DEF Asserted
  <2>7. \A j \in Ids : /\ j # x /\ fact'[j].ver = fact[j].ver
                       /\ OpenKnown(fact', j) <=> OpenKnown(fact, j)
                       /\ fact'[j].by \in {fact[j].by, t.src}
    BY <1>7, <2>6 DEF OpenKnown
  <2>8. Typed'
    <3>1. tx' \in [Writers -> Transactions]
      BY <1>6 DEF IInv, Typed, Transactions
    <3> QED BY <1>8, <2>2, <2>3, <2>4, <2>6, <3>1 DEF IInv, Typed
  <2>9. Owned'
    <3>1. \A i \in Ids' : i.src \in alive' /\ fact'[i].by \in alive' \cup {None}
      BY <1>8, <2>2, <2>6, <2>7 DEF IInv, Owned
    <3>2. \A y \in history' : y.by \in alive'
      BY <2>2, <2>6 DEF IInv, Owned
    <3> QED BY <2>2, <2>4, <3>1, <3>2 DEF IInv, Owned
  <2>10. \A w \in withdrawn : w.target # x
    BY <1>7, <1>8, TargetsAreTheirs DEF Withdrawn
  <2>11. \A y : (Withdrawn(y)' <=> Withdrawn(y)) /\ (Corrected(y)' => Corrected(y))
    BY <2>2, <2>6, <2>10 DEF Withdrawn, Corrected
  <2>12. OneExtraction'
    <3> SUFFICES ASSUME NEW i \in Ids', OpenKnown(fact', i)
                 PROVE  pin'[i.src] = [ver |-> fact'[i].ver, gen |-> i.gen]
      BY DEF OneExtraction
    <3>1. CASE i = x
      BY <1>8, <2>4, <2>6, <3>1
    <3>2. CASE i # x
      <4>1. i \in Ids /\ OpenKnown(fact, i) /\ fact'[i].ver = fact[i].ver
        BY <2>6, <2>7, <3>2
      <4>2. pin[i.src] = [ver |-> fact[i].ver, gen |-> i.gen] /\ i.src \in Sources
        BY <4>1 DEF IInv, Interpreted, OneExtraction, Owned, Typed
      <4>3. pin[i.src] # None
        <5>1. i \in Identities /\ fact[i] \in Stored
          BY <4>1, RowsAreSpans DEF IInv, BookOK
        <5>2. pin[i.src] \in [ver : Versions \cup {Curated}, gen : 0 .. MaxGenerations]
          BY <4>2, <5>1 DEF Identities, Stored
        <5> QED BY <5>2, ClaimAssumption
      <4>4. CASE i.src = t.src
        BY <1>7, <2>4, <4>1, <4>2, <4>3, <4>4 DEF MayInterpret
      <4>5. CASE i.src # t.src
        BY <2>4, <4>1, <4>2, <4>5
      <4> QED BY <4>4, <4>5
    <3> QED BY <3>1, <3>2
  <2>13. Interpreted'
    <3>1. \A i \in Ids' : i.gen <= Len(applied'[i.src]) /\ (fact'[i].ver = Curated <=> i.src \in Edits)
      <4>1. Len(applied[t.src]) \in Nat
        BY <1>8 DEF IInv, Typed
      <4>2. x.gen <= Len(applied[x.src]) /\ (fact'[x].ver = Curated <=> x.src \in Edits)
        BY <1>7, <1>8, <2>6, <4>1
      <4> QED BY <2>2, <2>6, <2>7, <4>2 DEF IInv, Interpreted
    <3>2. \A s \in Sources : pin'[s] # None => pin'[s].gen <= Len(applied'[s])
      <4>1. Len(applied[t.src]) \in Nat
        BY <1>8 DEF IInv, Typed
      <4> QED BY <2>2, <2>4, <4>1 DEF IInv, Interpreted
    <3>3. \A w \in withdrawn' : w.target.gen <= Len(applied'[w.src])
      BY <2>2 DEF IInv, Interpreted
    <3>4. \A i, j \in Ids' :
             /\ i.slot \in Single /\ i.gen > 0 /\ i.gen = j.gen
             /\ i.src = j.src /\ i.slot = j.slot /\ i.at = j.at
             => i = j
      BY <1>8, <2>6 DEF IInv, Interpreted
    <3>5. \A i \in Ids' : OpenKnown(fact', i) => ~Withdrawn(i)'
      <4>1. ~Withdrawn(x)
        BY <1>7, <1>8 DEF Withdrawn
      <4> QED BY <2>6, <2>7, <2>11, <4>1 DEF IInv, Interpreted
    <3>6. \A i \in Ids' : OpenKnown(fact', i) /\ i.slot \in Single /\ i.gen > 0 => ~Corrected(i)'
      BY <1>8, <2>6, <2>7, <2>11 DEF IInv, Interpreted
    <3> QED BY <2>12, <3>1, <3>2, <3>3, <3>4, <3>5, <3>6 DEF Interpreted
  <2>14. ASSUME NEW q \in Writers \ {p} PROVE Kept(q)
    <3> DEFINE M == {t.src} \cup {i.src : i \in prev}
    <3>1. Sourced(q) \cap M = {}
      <4>1. t.src \in Sourced(p) /\ Sourced(p) \cap Sourced(q) = {}
        BY <1>1, <1>6 DEF Sourced, IInv, Locked
      <4>2. Sourced(q) \subseteq HeldBy(Sourced, p)
        BY DEF HeldBy
      <4> QED BY <1>6, <4>1, <4>2
    <3>2. \A i \in Ids' : i.src \notin M => i \in Ids /\ fact'[i] = fact[i]
      BY <1>8, <2>6
    <3>3. \A s \in Sources \ M : pin'[s] = pin[s] /\ applied'[s] = applied[s] /\ (s \in alive' <=> s \in alive)
      BY <2>2, <2>4
    <3> HIDE DEF M
    <3> QED BY <2>2, <2>6, <3>1, <3>2, <3>3, OthersKept
  <2>15. Locked'
    BY <1>6, <2>14, EndingKeepsLocked DEF IInv
  <2>16. BookOK(fact', history', Alone')
    BY <2>2, <2>6 DEF Alone
  <2> QED BY <2>8, <2>9, <2>13, <2>15, <2>16 DEF IInv
<1> QED BY <1>9, <1>10

LEMMA FinishCorrectKeepsIt ==
    ASSUME IInv, NEW p \in Writers, FinishCorrect(p)
    PROVE  IInv'
<1>1. PICK t : t = tx[p]
  OBVIOUS
<1>2. PICK slot : slot = t.target.slot
  OBVIOUS
<1>3. PICK f : f = Close(fact, {t.target}, t.at)
  OBVIOUS
<1>4. PICK prev : prev = Previous(f, lost, slot, t.since)
  OBVIOUS
<1>5. PICK e : e = Supersede(f, prev, t.since, t.at, t.edit)
  OBVIOUS
<1>6. PICK x : x = [src |-> t.edit, slot |-> slot, val |-> t.val, at |-> t.since, gen |-> 0]
  OBVIOUS
<1>7. /\ t.kind = "correct" /\ tx' = [tx EXCEPT ![p] = Idle]
      /\ HeldBy(Sourced, p) \cap {i.src : i \in prev} = {}
  BY <1>1, <1>2, <1>3, <1>4 DEF FinishCorrect, Reachable
<1>8. /\ t \in Transactions /\ t.src \in Sources /\ t.edit \in Edits /\ t.edit \in Sources
      /\ t.val \in Values /\ t.since \in Instants /\ t.at \in Instants
      /\ t.target \in Ids /\ t.target.src = t.src /\ t.edit \notin alive
      /\ OpenKnown(fact, t.target) /\ fact[t.target].kf < t.at /\ t.at # Never
  BY <1>1, <1>7, TimesAreNumbers DEF IInv, Typed, Locked, Held, Transactions, Idle, Sources
<1>9. t.target \in Identities /\ slot \in Slots /\ t.target.src \in alive
      /\ t.target.gen <= Len(applied[t.target.src])
  BY <1>2, <1>8, RowsAreSpans DEF IInv, BookOK, Identities, Owned, Interpreted
<1>10. /\ x \in Identities /\ x.src = t.edit /\ x.slot = slot /\ x.val = t.val /\ x.at = t.since
       /\ x.gen = 0 /\ x \notin Ids
  <2>1. 0 \in 0 .. MaxGenerations
    BY ClaimAssumption
  <2> QED BY <1>6, <1>8, <1>9, <2>1 DEF Identities, IInv, Owned
<1>11. CASE ~(Archivable(f, prev, t.at) /\ Clashing(e, lost, slot, t.since, Never, t.at, Never) = {})
  <2>1. UNCHANGED <<alive, fact, lost, history, withdrawn, pin, applied, prepared, vacated>>
    BY <1>1, <1>2, <1>3, <1>4, <1>5, <1>11, SMTT(20) DEF FinishCorrect
  <2> QED BY <1>7, <2>1, EndingKeepsIt
<1>12. CASE Archivable(f, prev, t.at) /\ Clashing(e, lost, slot, t.since, Never, t.at, Never) = {}
  <2>1. PICK g : g = With(e, x, NewFact(t.since, Never, t.at, None, Curated))
    OBVIOUS
  <2>2. /\ Store(g, lost, history \cup Archive(f, prev, t.at, t.edit),
                 [pin EXCEPT ![t.edit] = [ver |-> Curated, gen |-> 0]])
        /\ alive' = alive \cup {t.edit}
        /\ withdrawn' = withdrawn \cup {Tombstone(t.target, t.edit)}
        /\ applied' = applied /\ vacated' = vacated
    BY <1>1, <1>2, <1>3, <1>4, <1>5, <1>6, <1>12, <2>1, SMTT(20) DEF FinishCorrect
  <2>3. /\ fact' = g /\ lost' = lost /\ history' = history \cup Archive(f, prev, t.at, t.edit)
        /\ pin' = [pin EXCEPT ![t.edit] = [ver |-> Curated, gen |-> 0]]
        /\ prepared' \in [Sources -> {"none", "fresh", "stale"}]
        /\ \A s \in Sources : prepared'[s] = "fresh" => prepared[s] = "fresh"
    BY <2>2, StoreKeepsPrepared
  <2>4. /\ pin'[t.edit] = [ver |-> Curated, gen |-> 0] /\ \A s \in Sources : s # t.edit => pin'[s] = pin[s]
        /\ pin' \in [Sources -> [ver : Versions \cup {Curated}, gen : 0 .. MaxGenerations] \cup {None}]
    BY <1>8, <2>3, ClaimAssumption DEF IInv, Typed
  <2>5. /\ BookOK(f, history, Alone) /\ DOMAIN f = Ids
        /\ \A j \in Ids : f[j] = IF j \in {t.target} THEN [fact[j] EXCEPT !.kt = t.at] ELSE fact[j]
    BY <1>3, <1>8, ClosingKeepsBook DEF IInv, OpenKnown
  <2>6. ASSUME NEW j \in Ids
        PROVE  /\ f[j].ver = fact[j].ver /\ f[j].by = fact[j].by
               /\ j # t.target => f[j] = fact[j]
               /\ f[j].kt = Never => j # t.target /\ OpenKnown(fact, j)
    <3>1. fact[j] \in Stored
      BY RowsAreSpans DEF IInv, BookOK
    <3>2. CASE j = t.target
      <4>1. f[j] = [fact[j] EXCEPT !.kt = t.at]
        BY <2>5, <3>2
      <4>2. f[j].ver = fact[j].ver /\ f[j].by = fact[j].by /\ f[j].kt = t.at
        BY <3>1, <4>1 DEF Stored
      <4> QED BY <1>8, <3>2, <4>2
    <3>3. CASE j # t.target
      BY <2>5, <3>3 DEF OpenKnown
    <3> QED BY <3>2, <3>3
  <2>7. /\ BookOK(fact', history', Alone)
        /\ Ids' = Ids \cup {x}
        /\ fact'[x].ver = Curated /\ fact'[x].kt = Never /\ fact'[x].by = None
        /\ \A j \in Ids \ prev : fact'[j] = f[j]
        /\ \A j \in prev : /\ j \in Ids /\ fact'[j].ver = f[j].ver /\ fact'[j].kt = f[j].kt
                           /\ fact'[j].by = t.edit
        /\ \A y \in history' : y \in history \/ y.by = t.edit
    <3>1. Alone \subseteq Single /\ \A i \in lost : i.slot \notin Alone
      BY DEF IInv, Typed, Alone
    <3>2. /\ prev = Previous(f, lost, x.slot, x.at) /\ Archivable(f, prev, t.at)
          /\ Clashing(Supersede(f, prev, x.at, t.at, x.src), lost, x.slot, x.at, Never, t.at, Never) = {}
          /\ g = With(Supersede(f, prev, x.at, t.at, x.src), x, NewFact(x.at, Never, t.at, None, Curated))
      BY <1>4, <1>5, <1>10, <1>12, <2>1
    <3>3. PICK k : k = history \cup Archive(f, prev, t.at, x.src)
      OBVIOUS
    <3>4. Asserting(f, history, lost, Alone, x, t.at, Curated, prev, g, k)
      BY <1>8, <1>10, <2>5, <3>1, <3>2, <3>3 DEF Asserting
    <3>5. Asserted(f, history, Alone, x, Curated, prev, g, k)
      BY <3>4, AssertingKeepsBook
    <3> QED BY <1>10, <2>3, <2>5, <3>3, <3>5 DEF Asserted
  <2>8. \A j \in Ids : /\ j # x /\ fact'[j].ver = fact[j].ver
                       /\ OpenKnown(fact', j) => OpenKnown(fact, j) /\ j # t.target
                       /\ fact'[j].by \in {fact[j].by, t.edit}
    BY <1>10, <2>6, <2>7 DEF OpenKnown
  <2>9. /\ Tombstone(t.target, t.edit).src = t.src /\ Tombstone(t.target, t.edit).replacement = t.edit
        /\ Tombstone(t.target, t.edit).target = t.target
    BY <1>8 DEF Tombstone
  <2>10. Typed'
    <3>1. tx' \in [Writers -> Transactions]
      BY <1>7 DEF IInv, Typed, Transactions
    <3>2. \A w \in withdrawn' : \E i \in Identities, r \in Edits \cup {None} : w = Tombstone(i, r)
      BY <1>8, <1>9, <2>2 DEF IInv, Typed
    <3> QED BY <1>8, <2>2, <2>3, <2>4, <2>7, <3>1, <3>2 DEF IInv, Typed
  <2>11. Owned'
    <3>1. \A i \in Ids' : i.src \in alive' /\ fact'[i].by \in alive' \cup {None}
      BY <1>10, <2>2, <2>7, <2>8 DEF IInv, Owned
    <3>2. \A y \in history' : y.by \in alive'
      BY <2>2, <2>7 DEF IInv, Owned
    <3>3. \A w \in withdrawn' : w.src \in alive' /\ w.replacement \in alive' \cup {None}
      BY <1>8, <1>9, <2>2, <2>9 DEF IInv, Owned
    <3> QED BY <2>2, <2>4, <3>1, <3>2, <3>3 DEF IInv, Owned
  <2>12. \A w \in withdrawn' : w.src # t.edit /\ w.target # x
    <3>1. \A w \in withdrawn : w.src # t.edit /\ w.target # x
      BY <1>8, <1>10, TargetsAreTheirs
    <3> QED BY <1>8, <1>9, <1>10, <2>2, <2>9, <3>1
  <2>13. OneExtraction'
    <3> SUFFICES ASSUME NEW i \in Ids', OpenKnown(fact', i)
                 PROVE  pin'[i.src] = [ver |-> fact'[i].ver, gen |-> i.gen]
      BY DEF OneExtraction
    <3>1. CASE i = x
      BY <1>10, <2>4, <2>7, <3>1
    <3>2. CASE i # x
      <4>1. i \in Ids /\ OpenKnown(fact, i) /\ fact'[i].ver = fact[i].ver
        BY <2>7, <2>8, <3>2
      <4>2. /\ pin[i.src] = [ver |-> fact[i].ver, gen |-> i.gen] /\ i.src \in Sources
            /\ i.src # t.edit
        BY <1>8, <4>1 DEF IInv, Interpreted, OneExtraction, Owned, Typed
      <4> QED BY <2>4, <4>1, <4>2
    <3> QED BY <3>1, <3>2
  <2>14. Interpreted'
    <3>1. \A i \in Ids' : i.gen <= Len(applied'[i.src]) /\ (fact'[i].ver = Curated <=> i.src \in Edits)
      <4>1. Len(applied[t.edit]) \in Nat
        BY <1>8 DEF IInv, Typed
      <4>2. x.gen <= Len(applied[x.src]) /\ (fact'[x].ver = Curated <=> x.src \in Edits)
        BY <1>8, <1>10, <2>7, <4>1
      <4> QED BY <2>2, <2>7, <2>8, <4>2 DEF IInv, Interpreted
    <3>2. \A s \in Sources : pin'[s] # None => pin'[s].gen <= Len(applied'[s])
      <4>1. Len(applied[t.edit]) \in Nat
        BY <1>8 DEF IInv, Typed
      <4> QED BY <2>2, <2>4, <4>1 DEF IInv, Interpreted
    <3>3. \A w \in withdrawn' : w.target.gen <= Len(applied'[w.src])
      BY <1>8, <1>9, <2>2, <2>9 DEF IInv, Interpreted
    <3>4. \A i, j \in Ids' :
             /\ i.slot \in Single /\ i.gen > 0 /\ i.gen = j.gen
             /\ i.src = j.src /\ i.slot = j.slot /\ i.at = j.at
             => i = j
      BY <1>10, <2>7 DEF IInv, Interpreted
    <3>5. ASSUME NEW i \in Ids', OpenKnown(fact', i)
          PROVE  ~Withdrawn(i)' /\ (i.slot \in Single /\ i.gen > 0 => ~Corrected(i)')
      <4>1. CASE i = x
        BY <1>10, <2>12, <4>1 DEF Withdrawn
      <4>2. CASE i # x
        <5>1. i \in Ids /\ OpenKnown(fact, i) /\ i # t.target
          BY <2>7, <2>8, <3>5, <4>2
        <5>2. Ungoverned(i, withdrawn', Ids)
          BY <1>8, <2>2, <5>1, WithdrawingGoverns
        <5> QED BY <2>7, <2>12, <5>2 DEF Withdrawn, Corrected, Ungoverned
      <4> QED BY <4>1, <4>2
    <3> QED BY <2>13, <3>1, <3>2, <3>3, <3>4, <3>5 DEF Interpreted
  <2>15. ASSUME NEW q \in Writers \ {p} PROVE Kept(q)
    <3> DEFINE M == {t.src, t.edit} \cup {i.src : i \in prev}
    <3>1. Sourced(q) \cap M = {}
      <4>1. t.src \in Sourced(p) /\ t.edit \in Sourced(p) /\ Sourced(p) \cap Sourced(q) = {}
        BY <1>1, <1>7 DEF Sourced, IInv, Locked
      <4>2. Sourced(q) \subseteq HeldBy(Sourced, p)
        BY DEF HeldBy
      <4> QED BY <1>7, <4>1, <4>2
    <3>2. \A i \in Ids' : i.src \notin M => i \in Ids /\ fact'[i] = fact[i]
      BY <1>8, <1>10, <2>6, <2>7
    <3>3. \A s \in Sources \ M : pin'[s] = pin[s] /\ applied'[s] = applied[s] /\ (s \in alive' <=> s \in alive)
      BY <2>2, <2>4
    <3>4. \A w \in withdrawn' : w.src \notin M =>
             \E u \in withdrawn : u.src = w.src /\ u.slot = w.slot /\ u.val = w.val /\ u.at = w.at
      BY <2>2, <2>9
    <3> HIDE DEF M
    <3> QED BY <2>7, <3>1, <3>2, <3>3, <3>4, OthersKept
  <2>16. Locked'
    BY <1>7, <2>15, EndingKeepsLocked DEF IInv
  <2>17. BookOK(fact', history', Alone')
    BY <2>2, <2>7 DEF Alone
  <2> QED BY <2>10, <2>11, <2>14, <2>16, <2>17 DEF IInv
<1> QED BY <1>11, <1>12

-----------------------------------------------------------------------------
(* Publication *)

\* The claims in the order a model gave them.
LEMMA OrdersAreOfClaims ==
    ASSUME NEW claims \in SUBSET Claims, NEW order \in Orders(claims)
    PROVE  Len(order) \in Nat /\ \A k \in 1 .. Len(order) : order[k] \in claims
<1>1. IsFiniteSet(claims)
  BY ClaimAssumption, FS_Subset
<1>2. Cardinality(claims) \in Nat
  BY <1>1, FS_CardinalityType
<1>3. order \in [1 .. Cardinality(claims) -> claims]
  BY DEF Orders
<1>4. order \in Seq(claims) /\ Len(order) = Cardinality(claims)
  BY <1>2, <1>3
<1> QED BY <1>2, <1>3, <1>4

\* What a generation is published from and into: the transaction, its generation, the rows once those
\* it replaces are closed, the missing rows, and what its claims made of them.
Published(p, t, n, f, l, g) ==
    /\ t = tx[p] /\ n = Len(applied[t.src]) + 1
    /\ f = Close(fact, t.retired, t.at) /\ l = lost \ t.retired
    /\ t.kind = "publish" /\ tx' = [tx EXCEPT ![p] = Idle]
    /\ Store(g.f, g.l, history, [pin EXCEPT ![t.src] = [ver |-> t.ver, gen |-> n]])
    /\ applied' = [applied EXCEPT ![t.src] = Append(applied[t.src], t.at)]
    /\ alive' = alive /\ withdrawn' = withdrawn /\ vacated' = vacated
    /\ t \in Transactions /\ t.src \in Turns /\ t.src \in Sources /\ t.src \notin Edits
    /\ t.ver \in Versions /\ t.ver # Curated /\ t.at \in Instants /\ t.at # Never
    /\ t.src \in alive /\ t.retired = OpenOf(t.src) /\ Len(applied[t.src]) < MaxGenerations
    /\ \A i \in t.retired : fact[i].kf < t.at
    /\ applied[t.src] \in Seq(Instants) /\ Len(applied[t.src]) \in Nat
    /\ n \in 1 .. MaxGenerations /\ n > 0
    /\ BookOK(f, history, Alone) /\ DOMAIN f = Ids
    /\ \A j \in Ids : f[j] = IF j \in t.retired THEN [fact[j] EXCEPT !.kt = t.at] ELSE fact[j]
    /\ Publishing(t, n, f, l, Alone)
    /\ PlanOK(g, t, n, f, l, history, Alone)

LEMMA PublishingPlans ==
    ASSUME IInv, NEW p \in Writers, NEW claims \in SUBSET {c \in Claims : Sourced(p) = {c.src}},
           NEW order \in Orders(claims), FinishPublish(p, claims, order)
    PROVE  \E t, n, f, l, g : Published(p, t, n, f, l, g)
<1>1. PICK t : t = tx[p]
  OBVIOUS
<1>2. PICK n : n = Len(applied[t.src]) + 1
  OBVIOUS
<1>3. PICK f : f = Close(fact, t.retired, t.at)
  OBVIOUS
<1>4. PICK l : l = lost \ t.retired
  OBVIOUS
<1>5. PICK g : g = Admitted([f |-> f, l |-> l], t, n, order)
  OBVIOUS
<1>6. /\ t.kind = "publish" /\ tx' = [tx EXCEPT ![p] = Idle]
      /\ Store(g.f, g.l, history, [pin EXCEPT ![t.src] = [ver |-> t.ver, gen |-> n]])
      /\ applied' = [applied EXCEPT ![t.src] = Append(applied[t.src], t.at)]
      /\ alive' = alive /\ withdrawn' = withdrawn /\ vacated' = vacated
  BY <1>1, <1>2, <1>3, <1>4, <1>5 DEF FinishPublish
<1>7. /\ t \in Transactions /\ t.src \in Turns /\ t.src \in Sources /\ t.src \notin Edits
      /\ t.ver \in Versions /\ t.ver # Curated /\ t.at \in Instants /\ t.at # Never
      /\ t.src \in alive /\ t.retired = OpenOf(t.src) /\ Len(applied[t.src]) < MaxGenerations
      /\ \A i \in t.retired : fact[i].kf < t.at
  <2>1. t \in Transactions /\ Held(p)
    BY <1>1 DEF IInv, Typed, Locked
  <2> QED BY <1>1, <1>6, <2>1, ClaimAssumption, TimesAreNumbers
          DEF Held, Transactions, Idle, Sources
<1>8. applied[t.src] \in Seq(Instants) /\ Len(applied[t.src]) \in Nat /\ n \in 1 .. MaxGenerations
      /\ n > 0
  BY <1>2, <1>7, ClaimAssumption DEF IInv, Typed
<1>9. /\ BookOK(f, history, Alone) /\ DOMAIN f = Ids
      /\ \A j \in Ids : f[j] = IF j \in t.retired THEN [fact[j] EXCEPT !.kt = t.at] ELSE fact[j]
  <2>1. \A i \in t.retired \cap Ids : fact[i].kt = Never /\ fact[i].kf < t.at
    BY <1>7 DEF OpenOf, OpenKnown
  <2> QED BY <1>3, <1>7, <2>1, ClosingKeepsBook DEF IInv
<1>10. Publishing(t, n, f, l, Alone)
  <2>1. \A i \in Ids : i.src \in alive /\ (i.src = t.src => i.gen < n)
    <3> SUFFICES ASSUME NEW i \in Ids PROVE i.src \in alive /\ (i.src = t.src => i.gen < n)
      OBVIOUS
    <3>1. i \in Identities /\ i.gen <= Len(applied[i.src]) /\ i.src \in alive
      BY RowsAreSpans DEF IInv, BookOK, Interpreted, Owned
    <3>2. i.gen \in Int
      BY <3>1, ClaimAssumption DEF Identities
    <3> QED BY <1>2, <1>8, <3>1, <3>2
  <2>2. l \subseteq Ids /\ Alone \subseteq Single /\ \A i \in l : i.slot \notin Alone
    BY <1>4 DEF IInv, Typed, Alone
  <2>3. alive \subseteq Sources
    BY DEF IInv, Typed
  <2> QED BY <1>7, <1>8, <1>9, <2>1, <2>2, <2>3 DEF Publishing
<1>11. PlanOK(g, t, n, f, l, history, Alone)
  <2>1. t.src \in Sourced(p) /\ Sourced(p) = {t.src}
    BY <1>1, <1>6 DEF Sourced
  <2>2. claims \in SUBSET Claims /\ \A c \in claims : c.src = t.src
    BY <2>1
  <2>3. Len(order) \in Nat /\ \A k \in 1 .. Len(order) : order[k] \in Claims /\ order[k].src = t.src
    BY <2>2, OrdersAreOfClaims
  <2> QED BY <1>5, <1>9, <1>10, <2>3, AdmittedIsPlanned
<1>12. Published(p, t, n, f, l, g)
  BY <1>1, <1>2, <1>3, <1>4, <1>6, <1>7, <1>8, <1>9, <1>10, <1>11 DEF Published
<1> QED BY <1>12

LEMMA FinishPublishKeepsIt ==
    ASSUME IInv, NEW p \in Writers, NEW claims \in SUBSET {c \in Claims : Sourced(p) = {c.src}},
           NEW order \in Orders(claims), FinishPublish(p, claims, order)
    PROVE  IInv'
<1>1. PICK t, n, f, l, g : Published(p, t, n, f, l, g)
  BY PublishingPlans
<1>2. n = Len(applied[t.src]) + 1
  BY <1>1 DEF Published
<1>3. t = tx[p] /\ l = lost \ t.retired
  BY <1>1 DEF Published
<1>4. /\ t.kind = "publish" /\ tx' = [tx EXCEPT ![p] = Idle]
      /\ Store(g.f, g.l, history, [pin EXCEPT ![t.src] = [ver |-> t.ver, gen |-> n]])
      /\ applied' = [applied EXCEPT ![t.src] = Append(applied[t.src], t.at)]
      /\ alive' = alive /\ withdrawn' = withdrawn /\ vacated' = vacated
  BY <1>1 DEF Published
<1>5. /\ t \in Transactions /\ t.src \in Turns /\ t.src \in Sources /\ t.src \notin Edits
      /\ t.ver \in Versions /\ t.ver # Curated /\ t.at \in Instants /\ t.at # Never
      /\ t.src \in alive /\ t.retired = OpenOf(t.src) /\ Len(applied[t.src]) < MaxGenerations
      /\ \A i \in t.retired : fact[i].kf < t.at
  BY <1>1 DEF Published
<1>6. applied[t.src] \in Seq(Instants) /\ Len(applied[t.src]) \in Nat /\ n \in 1 .. MaxGenerations
      /\ n > 0
  BY <1>1 DEF Published
<1>7. /\ BookOK(f, history, Alone) /\ DOMAIN f = Ids
      /\ \A j \in Ids : f[j] = IF j \in t.retired THEN [fact[j] EXCEPT !.kt = t.at] ELSE fact[j]
  BY <1>1 DEF Published
<1>8. ASSUME NEW j \in Ids
       PROVE  /\ f[j].ver = fact[j].ver /\ f[j].by = fact[j].by
              /\ j.src # t.src => f[j] = fact[j]
              /\ OpenKnown(f, j) => OpenKnown(fact, j) /\ j.src # t.src
  <2>1. fact[j] \in Stored /\ (fact[j].ver = Curated <=> j.src \in Edits)
    BY RowsAreSpans DEF IInv, BookOK, Interpreted
  <2>2. CASE j \in t.retired
    <3>1. f[j] = [fact[j] EXCEPT !.kt = t.at]
      BY <1>7, <2>2
    <3>2. f[j].ver = fact[j].ver /\ f[j].by = fact[j].by /\ f[j].kt = t.at
      BY <2>1, <3>1 DEF Stored
    <3> QED BY <1>5, <2>2, <3>2 DEF OpenOf, OpenKnown
  <2>3. CASE j \notin t.retired
    <3>1. f[j] = fact[j]
      BY <1>7, <2>3
    <3>2. OpenKnown(fact, j) => j.src # t.src
      BY <1>5, <2>1, <2>3 DEF OpenOf
    <3> QED BY <3>1, <3>2 DEF OpenKnown
  <2> QED BY <2>2, <2>3
<1>9. Publishing(t, n, f, l, Alone)
  BY <1>1 DEF Published
<1>10. PlanOK(g, t, n, f, l, history, Alone)
  BY <1>1 DEF Published
<1>11. /\ fact' = g.f /\ lost' = l /\ history' = history
       /\ pin' = [pin EXCEPT ![t.src] = [ver |-> t.ver, gen |-> n]]
       /\ prepared' \in [Sources -> {"none", "fresh", "stale"}]
       /\ \A s \in Sources : prepared'[s] = "fresh" =>
              prepared[s] = "fresh" /\ [pin EXCEPT ![t.src] = [ver |-> t.ver, gen |-> n]][s] = pin[s]
  <2>1. g.l = l
    BY <1>10 DEF PlanOK
  <2> QED BY <1>4, <2>1, StoreKeepsPrepared
<1>12. /\ pin'[t.src] = [ver |-> t.ver, gen |-> n] /\ \A s \in Sources : s # t.src => pin'[s] = pin[s]
       /\ pin' \in [Sources -> [ver : Versions \cup {Curated}, gen : 0 .. MaxGenerations] \cup {None}]
  BY <1>5, <1>6, <1>11 DEF IInv, Typed
<1>13. /\ BookOK(fact', history', Alone')
       /\ Ids \subseteq Ids' /\ \A i \in Ids : fact'[i] = f[i]
       /\ \A i \in Ids' \ Ids : /\ i.src = t.src /\ i.gen = n /\ fact'[i].ver = t.ver
                                /\ fact'[i].by \in alive \cup {None}
                                /\ ~Withdrawn(i) /\ ~Corrected(i)
       /\ \A i, j \in Ids' \ Ids : i.slot = j.slot /\ i.slot \in Single /\ i.at = j.at => i = j
  BY <1>4, <1>7, <1>10, <1>11 DEF PlanOK, Alone
<1>14. /\ applied'[t.src] \in Seq(Instants) /\ Len(applied'[t.src]) = n
       /\ \A s \in Sources : s # t.src => applied'[s] = applied[s]
       /\ applied' \in [Sources -> Seq(Instants)]
  <2>1. Append(applied[t.src], t.at) \in Seq(Instants) /\ Len(Append(applied[t.src], t.at)) = n
    BY <1>2, <1>5, <1>6
  <2> QED BY <1>4, <1>5, <2>1 DEF IInv, Typed
<1>15. Typed'
  <2>1. tx' \in [Writers -> Transactions]
    BY <1>4 DEF IInv, Typed, Transactions
  <2>2. pin[t.src] # [ver |-> t.ver, gen |-> n]
    <3>1. pin[t.src] # None => pin[t.src].gen <= Len(applied[t.src])
      BY <1>5 DEF IInv, Interpreted
    <3>2. [ver |-> t.ver, gen |-> n].gen = n /\ [ver |-> t.ver, gen |-> n] # None
      BY <1>5, <1>6, ClaimAssumption
    <3> QED BY <1>2, <1>6, <3>1, <3>2
  <2>3. \A s \in Sources : prepared'[s] = "fresh" =>
           s \in alive' /\ s \in Turns /\ Len(applied'[s]) < MaxGenerations
    <3> SUFFICES ASSUME NEW s \in Sources, prepared'[s] = "fresh"
                 PROVE  s \in alive' /\ s \in Turns /\ Len(applied'[s]) < MaxGenerations
      OBVIOUS
    <3>1. prepared[s] = "fresh" /\ pin'[s] = pin[s]
      BY <1>11
    <3>2. s # t.src
      BY <1>12, <2>2, <3>1
    <3> QED BY <1>4, <1>14, <3>1, <3>2 DEF IInv, Typed
  <2>4. lost' \subseteq Ids' /\ \A i \in lost' : i.slot \in vacated'
    BY <1>3, <1>4, <1>11, <1>13 DEF IInv, Typed
  <2>5. \A s \in Sources : Len(applied'[s]) <= MaxGenerations
    <3> SUFFICES ASSUME NEW s \in Sources PROVE Len(applied'[s]) <= MaxGenerations
      OBVIOUS
    <3>1. CASE s = t.src
      BY <1>6, <1>14, <3>1, ClaimAssumption
    <3>2. CASE s # t.src
      BY <1>14, <3>2 DEF IInv, Typed
    <3> QED BY <3>1, <3>2
  <2> QED BY <1>4, <1>11, <1>12, <1>14, <2>1, <2>3, <2>4, <2>5 DEF IInv, Typed
<1>16. Owned'
  <2>1. \A i \in Ids' : i.src \in alive' /\ fact'[i].by \in alive' \cup {None}
    BY <1>4, <1>5, <1>8, <1>13 DEF IInv, Owned
  <2>2. \A s \in Sources \ alive' : pin'[s] = None /\ applied'[s] = << >>
    BY <1>4, <1>5, <1>12, <1>14 DEF IInv, Owned
  <2> QED BY <1>4, <1>11, <2>1, <2>2 DEF IInv, Owned
<1>17. \A i \in Ids : i.gen \in Int /\ i.gen <= Len(applied[i.src]) /\ i.src \in Sources
  BY RowsAreSpans, ClaimAssumption DEF IInv, BookOK, Interpreted, Identities
<1>18. \A w \in withdrawn : w.target \in Ids' => w.target \in Ids
  <2> SUFFICES ASSUME NEW w \in withdrawn, w.target \in Ids' \ Ids PROVE FALSE
    OBVIOUS
  <2>1. w.target.src = t.src /\ w.target.gen = n
    BY <1>13
  <2>2. w.target.gen <= Len(applied[w.src]) /\ w.target.src = w.src
    BY TargetsAreTheirs DEF IInv, Interpreted
  <2> QED BY <1>2, <1>6, <2>1, <2>2
<1>19. \A i : (Withdrawn(i)' <=> Withdrawn(i)) /\ (Corrected(i)' => Corrected(i))
  BY <1>4, <1>18 DEF Withdrawn, Corrected
<1>20. OneExtraction'
  <2> SUFFICES ASSUME NEW i \in Ids', OpenKnown(fact', i)
               PROVE  pin'[i.src] = [ver |-> fact'[i].ver, gen |-> i.gen]
    BY DEF OneExtraction
  <2>1. CASE i \in Ids
    <3>1. OpenKnown(fact, i) /\ i.src # t.src /\ fact'[i].ver = fact[i].ver /\ i.src \in Sources
      BY <1>8, <1>13, <1>17, <2>1 DEF OpenKnown
    <3>2. pin[i.src] = [ver |-> fact[i].ver, gen |-> i.gen]
      BY <2>1, <3>1 DEF IInv, Interpreted, OneExtraction
    <3> QED BY <1>12, <3>1, <3>2
  <2>2. CASE i \notin Ids
    BY <1>12, <1>13, <2>2
  <2> QED BY <2>1, <2>2
<1>21. Interpreted'
  <2>1. \A s \in Sources : Len(applied[s]) \in Int /\ Len(applied[s]) <= Len(applied'[s])
    <3>1. \A s \in Sources : Len(applied[s]) \in Nat
      BY DEF IInv, Typed
    <3> QED BY <1>2, <1>6, <1>14, <3>1
  <2>2. \A i \in Ids' : i.gen <= Len(applied'[i.src]) /\ (fact'[i].ver = Curated <=> i.src \in Edits)
    <3> SUFFICES ASSUME NEW i \in Ids'
                 PROVE  i.gen <= Len(applied'[i.src]) /\ (fact'[i].ver = Curated <=> i.src \in Edits)
      OBVIOUS
    <3>1. CASE i \in Ids
      <4>1. fact[i].ver = Curated <=> i.src \in Edits
        BY <3>1 DEF IInv, Interpreted
      <4>2. Len(applied'[i.src]) \in Int
        BY <1>14, <1>17, <3>1
      <4> QED BY <1>8, <1>13, <1>17, <2>1, <3>1, <4>1, <4>2
    <3>2. CASE i \notin Ids
      BY <1>5, <1>6, <1>13, <1>14, <3>2
    <3> QED BY <3>1, <3>2
  <2>3. \A s \in Sources : pin'[s] # None => pin'[s].gen <= Len(applied'[s])
    <3>1. pin'[t.src].gen = n /\ n \in Int
      BY <1>6, <1>12
    <3> QED BY <1>12, <1>14, <3>1 DEF IInv, Interpreted
  <2>4. ASSUME NEW w \in withdrawn'
        PROVE  w.target.gen <= Len(applied'[w.src])
    <3>1. PICK i \in Identities, r \in Edits \cup {None} : w = Tombstone(i, r)
      BY <1>4 DEF IInv, Typed
    <3>2. w.target.gen \in Int /\ w.src \in Sources
      BY <3>1, ClaimAssumption DEF Tombstone, Identities
    <3>3. w.target.gen <= Len(applied[w.src])
      BY <1>4 DEF IInv, Interpreted
    <3>4. Len(applied'[w.src]) \in Int
      BY <1>14, <3>2
    <3> QED BY <2>1, <3>2, <3>3, <3>4
  <2>5. ASSUME NEW i \in Ids', NEW j \in Ids', i.slot \in Single, i.gen > 0, i.gen = j.gen,
               i.src = j.src, i.slot = j.slot, i.at = j.at
        PROVE  i = j
    <3>1. CASE i \in Ids /\ j \in Ids
      BY <2>5, <3>1 DEF IInv, Interpreted
    <3>2. CASE i \notin Ids /\ j \notin Ids
      BY <1>13, <2>5, <3>2
    <3>3. ASSUME NEW a \in Ids, NEW b \in Ids' \ Ids, a.src = b.src, a.gen = b.gen
          PROVE  FALSE
      <4>1. b.src = t.src /\ b.gen = n
        BY <1>13
      <4> QED BY <1>2, <1>6, <1>17, <3>3, <4>1
    <3> QED BY <2>5, <3>1, <3>2, <3>3
  <2>6. ASSUME NEW i \in Ids', OpenKnown(fact', i)
        PROVE  ~Withdrawn(i)' /\ (i.slot \in Single /\ i.gen > 0 => ~Corrected(i)')
    <3>1. CASE i \in Ids
      <4>1. OpenKnown(fact, i)
        BY <1>8, <1>13, <2>6, <3>1 DEF OpenKnown
      <4> QED BY <1>19, <3>1, <4>1 DEF IInv, Interpreted
    <3>2. CASE i \notin Ids
      BY <1>13, <1>19, <3>2
    <3> QED BY <3>1, <3>2
  <2> QED BY <1>20, <2>2, <2>3, <2>4, <2>5, <2>6 DEF Interpreted
<1>22. ASSUME NEW q \in Writers \ {p} PROVE Kept(q)
  <2> DEFINE M == {t.src}
  <2>1. Sourced(q) \cap M = {}
    <3>1. t.src \in Sourced(p) /\ Sourced(p) \cap Sourced(q) = {}
      BY <1>3, <1>4 DEF Sourced, IInv, Locked
    <3> QED BY <3>1
  <2>2. \A i \in Ids' : i.src \notin M => i \in Ids /\ fact'[i] = fact[i]
    BY <1>8, <1>13
  <2>3. \A s \in Sources \ M : pin'[s] = pin[s] /\ applied'[s] = applied[s] /\ (s \in alive' <=> s \in alive)
    BY <1>4, <1>12, <1>14
  <2> HIDE DEF M
  <2> QED BY <1>4, <1>13, <2>1, <2>2, <2>3, OthersKept
<1>23. Locked'
  BY <1>4, <1>22, EndingKeepsLocked DEF IInv
<1> QED BY <1>13, <1>15, <1>16, <1>21, <1>23 DEF IInv

-----------------------------------------------------------------------------
(* Erasure *)

LEMMA EraseKeepsIt ==
    ASSUME IInv, NEW gone, Erase(gone)
    PROVE  IInv'
<1>1. PICK d : d = Derived(gone)
  OBVIOUS
<1>2. /\ gone \subseteq alive /\ (\A s \in gone : Quiet(s)) /\ FreeRows(d)
      /\ alive' = alive \ gone
      /\ fact' = [i \in Ids \ d |-> fact[i]]
      /\ lost' = lost \ d
      /\ history' = {x \in history : x.id \notin d /\ x.by \notin gone}
      /\ withdrawn' = {[w EXCEPT !.replacement = IF w.replacement \in gone THEN None ELSE w.replacement] :
                           w \in {x \in withdrawn : x.src \notin gone}}
      /\ pin' = [s \in Sources |-> IF s \in gone THEN None ELSE pin[s]]
      /\ applied' = [s \in Sources |-> IF s \in gone THEN << >> ELSE applied[s]]
      /\ prepared' = [s \in Sources |->
             IF s \in gone THEN "none"
             ELSE IF prepared[s] = "fresh" /\ \E i \in d \ lost : i.src = s THEN "stale"
             ELSE prepared[s]]
      /\ vacated' = vacated \cup {i.slot : i \in {j \in d : j.src \notin gone}}
      /\ tx' = tx
  BY <1>1 DEF Erase
<1>3. /\ Ids' = Ids \ d /\ \A i \in Ids' : fact'[i] = fact[i]
      /\ \A i \in Ids : i \in d <=> i.src \in gone \/ fact[i].by \in gone
      /\ d \subseteq Ids
  BY <1>1, <1>2 DEF Derived
<1>4. BookOK(fact', history', Alone')
  <2>1. Alone' \in SUBSET Alone /\ \A i \in d \cap Ids : i.src \notin gone => i.slot \notin Alone'
    BY <1>2 DEF Alone
  <2>2. BookOK(fact, history, Alone)
    BY DEF IInv
  <2>3. Erasing(fact, history, Alone, d, gone, Alone', fact', history')
    BY <1>2, <1>3, <2>1, <2>2 DEF Erasing
  <2> QED BY <2>3, ErasingKeepsBook
<1>5. ASSUME NEW w \in withdrawn'
      PROVE  \E u \in withdrawn, i \in Identities, r \in Edits \cup {None}, k \in Edits \cup {None} :
               /\ u = Tombstone(i, r) /\ w = Tombstone(i, k) /\ u.src \notin gone /\ i.src = u.src
               /\ k = IF r \in gone THEN None ELSE r
  <2>1. PICK u \in withdrawn : /\ u.src \notin gone
             /\ w = [u EXCEPT !.replacement = IF u.replacement \in gone THEN None ELSE u.replacement]
    BY <1>2
  <2>2. PICK i \in Identities, r \in Edits \cup {None} : u = Tombstone(i, r)
    BY DEF IInv, Typed
  <2>3. PICK k : k = IF r \in gone THEN None ELSE r
    OBVIOUS
  <2>4. k \in Edits \cup {None}
    BY <2>3
  <2>5. u.replacement = r /\ u.src = i.src
    BY <2>2 DEF Tombstone
  <2>6. w = [u EXCEPT !.replacement = k]
    BY <2>1, <2>3, <2>5
  <2>7. w = Tombstone(i, k)
    BY <2>2, <2>6 DEF Tombstone
  <2> QED BY <2>1, <2>2, <2>3, <2>4, <2>5, <2>7
<1>6. ASSUME NEW w \in withdrawn'
      PROVE  \E u \in withdrawn : /\ u.src = w.src /\ u.slot = w.slot /\ u.val = w.val /\ u.at = w.at
                                  /\ u.target = w.target /\ u.src \notin gone
                                  /\ w.replacement # None => u.replacement # None
                                  /\ w.replacement \in {u.replacement, None} /\ w.replacement \notin gone \ {None}
  <2>1. PICK u \in withdrawn, i \in Identities, r \in Edits \cup {None}, k \in Edits \cup {None} :
               /\ u = Tombstone(i, r) /\ w = Tombstone(i, k) /\ u.src \notin gone /\ i.src = u.src
               /\ k = IF r \in gone THEN None ELSE r
    BY <1>5
  <2>2. /\ u.src = i.src /\ u.slot = i.slot /\ u.val = i.val /\ u.at = i.at /\ u.target = i
        /\ u.replacement = r
        /\ w.src = i.src /\ w.slot = i.slot /\ w.val = i.val /\ w.at = i.at /\ w.target = i
        /\ w.replacement = k
    BY <2>1 DEF Tombstone
  <2> QED BY <2>1, <2>2
<1>7. \A s \in Sources : /\ s \notin gone => pin'[s] = pin[s] /\ applied'[s] = applied[s]
                         /\ s \in gone => pin'[s] = None /\ applied'[s] = << >>
  BY <1>2
<1>8. Typed'
  <2>1. \A w \in withdrawn' : \E i \in Identities, r \in Edits \cup {None} : w = Tombstone(i, r)
    BY <1>5
  <2>2. pin' \in [Sources -> [ver : Versions \cup {Curated}, gen : 0 .. MaxGenerations] \cup {None}]
    BY <1>2 DEF IInv, Typed
  <2>3. << >> \in Seq(Instants) /\ Len(<< >>) = 0
    OBVIOUS
  <2>4. applied' \in [Sources -> Seq(Instants)] /\ \A s \in Sources : Len(applied'[s]) <= MaxGenerations
    BY <1>2, <2>3, ClaimAssumption DEF IInv, Typed
  <2>5. prepared' \in [Sources -> {"none", "fresh", "stale"}]
    BY <1>2 DEF IInv, Typed
  <2>6. \A s \in Sources : prepared'[s] = "fresh" => prepared[s] = "fresh" /\ s \notin gone
    BY <1>2
  <2>7. \A s \in Sources : prepared'[s] = "fresh" =>
           s \in alive' /\ s \in Turns /\ Len(applied'[s]) < MaxGenerations
    BY <1>2, <1>7, <2>6 DEF IInv, Typed
  <2>8. lost' \subseteq Ids' /\ \A i \in lost' : i.slot \in vacated'
    BY <1>2, <1>3 DEF IInv, Typed
  <2>9. alive' \subseteq Sources /\ tx' \in [Writers -> Transactions]
    BY <1>2 DEF IInv, Typed
  <2> QED BY <2>1, <2>2, <2>4, <2>5, <2>7, <2>8, <2>9 DEF Typed
<1>9. None \notin Sources /\ gone \subseteq Sources
  BY <1>2, ClaimAssumption DEF IInv, Typed
<1>10. Owned'
  <2>1. \A i \in Ids' : i.src \in alive' /\ fact'[i].by \in alive' \cup {None}
    BY <1>2, <1>3 DEF IInv, Owned
  <2>2. \A x \in history' : x.by \in alive'
    BY <1>2 DEF IInv, Owned
  <2>3. \A w \in withdrawn' : w.src \in alive' /\ w.replacement \in alive' \cup {None}
    BY <1>2, <1>6, <1>9 DEF IInv, Owned
  <2>4. \A s \in Sources \ alive' : pin'[s] = None /\ applied'[s] = << >>
    BY <1>2, <1>7 DEF IInv, Owned
  <2> QED BY <2>1, <2>2, <2>3, <2>4 DEF Owned
<1>11. \A i \in Ids' : i \in Ids /\ i.src \notin gone /\ i.src \in Sources
  BY <1>3 DEF IInv, Owned, Typed
<1>12. Interpreted'
  <2>1. \A i \in Ids' : i.gen <= Len(applied'[i.src]) /\ (fact'[i].ver = Curated <=> i.src \in Edits)
    BY <1>3, <1>7, <1>11 DEF IInv, Interpreted
  <2>2. \A s \in Sources : pin'[s] # None => pin'[s].gen <= Len(applied'[s])
    BY <1>7 DEF IInv, Interpreted
  <2>3. ASSUME NEW w \in withdrawn'
        PROVE  w.target.gen <= Len(applied'[w.src])
    <3>1. PICK u \in withdrawn : u.src = w.src /\ u.target = w.target /\ u.src \notin gone
      BY <1>6
    <3>2. u.src \in Sources /\ u.target.gen <= Len(applied[u.src])
      BY DEF IInv, Interpreted, Owned, Typed
    <3> QED BY <1>7, <3>1, <3>2
  <2>4. OneExtraction'
    <3> SUFFICES ASSUME NEW i \in Ids', OpenKnown(fact', i)
                 PROVE  pin'[i.src] = [ver |-> fact'[i].ver, gen |-> i.gen]
      BY DEF OneExtraction
    <3>1. OpenKnown(fact, i)
      BY <1>3 DEF OpenKnown
    <3> QED BY <1>3, <1>7, <1>11, <3>1 DEF IInv, Interpreted, OneExtraction
  <2>5. \A i, j \in Ids' :
           /\ i.slot \in Single /\ i.gen > 0 /\ i.gen = j.gen
           /\ i.src = j.src /\ i.slot = j.slot /\ i.at = j.at
           => i = j
    BY <1>11 DEF IInv, Interpreted
  <2>6. \A i : (Withdrawn(i)' => Withdrawn(i)) /\ (Corrected(i)' => Corrected(i))
    BY <1>6, <1>11 DEF Withdrawn, Corrected
  <2>7. \A i \in Ids' : OpenKnown(fact', i) => OpenKnown(fact, i)
    BY <1>3 DEF OpenKnown
  <2> QED BY <1>11, <2>1, <2>2, <2>3, <2>4, <2>5, <2>6, <2>7 DEF IInv, Interpreted
<1>13. ASSUME NEW q \in Writers PROVE Kept(q)
  <2>1. Sourced(q) \cap gone = {}
    BY <1>2 DEF Quiet
  <2>2. \A i \in Ids' : i.src \notin gone => i \in Ids /\ fact'[i] = fact[i]
    BY <1>3
  <2>3. Rows(q) \cap Ids \subseteq Ids'
    BY <1>2, <1>3 DEF FreeRows
  <2>4. \A s \in Sources \ gone : pin'[s] = pin[s] /\ applied'[s] = applied[s] /\ (s \in alive' <=> s \in alive)
    BY <1>2, <1>7
  <2>5. \A w \in withdrawn' : w.src \notin gone =>
           \E u \in withdrawn : u.src = w.src /\ u.slot = w.slot /\ u.val = w.val /\ u.at = w.at
    BY <1>6
  <2> QED BY <2>1, <2>2, <2>3, <2>4, <2>5, OthersKept
<1>14. Locked'
  BY <1>2, <1>13, WorldKeepsLocked DEF IInv
<1> QED BY <1>4, <1>8, <1>10, <1>12, <1>14 DEF IInv

-----------------------------------------------------------------------------
(* The theorems *)

LEMMA InitHoldsIt == Init => IInv
<1> SUFFICES ASSUME Init PROVE IInv
  OBVIOUS
<1>1. /\ alive = Turns /\ Ids = {} /\ lost = {} /\ history = {} /\ withdrawn = {} /\ vacated = {}
      /\ pin = [s \in Sources |-> None] /\ applied = [s \in Sources |-> << >>]
      /\ prepared = [s \in Sources |-> "none"] /\ tx = [p \in Writers |-> Idle]
  BY DEF Init
<1>2. BookOK(fact, history, Alone)
  <2>1. RowsOK(fact)
    <3>1. fact \in [{} -> Stored]
      BY DEF Init
    <3> QED BY <1>1, <3>1 DEF RowsOK
  <2> QED BY <1>1, <2>1 DEF BookOK, SavedOK, ChainedIn, PartedIn
<1>3. << >> \in Seq(Instants) /\ Len(<< >>) = 0
  OBVIOUS
<1>4. Typed
  <2>1. applied \in [Sources -> Seq(Instants)] /\ \A s \in Sources : Len(applied[s]) <= MaxGenerations
    BY <1>1, <1>3, ClaimAssumption
  <2>2. tx \in [Writers -> Transactions]
    BY <1>1 DEF Transactions
  <2> QED BY <1>1, <2>1, <2>2 DEF Typed, Sources
<1>5. Owned
  BY <1>1 DEF Owned
<1>6. Interpreted
  BY <1>1 DEF Interpreted, OneExtraction
<1>7. Locked
  <2>1. \A p \in Writers : tx[p].kind = "idle"
    BY <1>1 DEF Idle
  <2>2. \A p \in Writers : Held(p) /\ Sourced(p) = {}
    BY <2>1 DEF Held, Sourced
  <2> QED BY <2>2 DEF Locked
<1> QED BY <1>2, <1>4, <1>5, <1>6, <1>7 DEF IInv

LEMMA NextKeepsIt == IInv /\ [Next]_vars => IInv'
<1> SUFFICES ASSUME IInv, [Next]_vars PROVE IInv'
  OBVIOUS
<1>1. CASE UNCHANGED vars
  <2>1. /\ UNCHANGED <<alive, fact, lost, history, withdrawn, pin, applied, prepared, tx, vacated>>
    BY <1>1 DEF vars
  <2>2. Typed'
    BY <2>1 DEF IInv, Typed
  <2> QED BY <2>1, <2>2, NothingWritten, WorldKeepsLocked DEF IInv
<1>2. ASSUME NEW p \in Writers, NEW clock \in Instants, NEW c \in Claims,
             NEW v \in Versions \cup {Curated}, BeginAssert(p, c, v, clock)
      PROVE  IInv'
  BY <1>2, BeginAssertKeepsIt
<1>3. ASSUME NEW p \in Writers, NEW clock \in Instants, NEW i \in Ids, Retract(p, i, clock)
      PROVE  IInv'
  BY <1>3, RetractKeepsIt
<1>4. ASSUME NEW p \in Writers, NEW clock \in Instants, NEW i \in Ids, NEW c \in Claims,
             NEW dated \in BOOLEAN, BeginCorrect(p, i, c, dated, clock)
      PROVE  IInv'
  BY <1>4, BeginCorrectKeepsIt
<1>5. ASSUME NEW p \in Writers, NEW clock \in Instants, NEW s \in Turns, NEW v \in Versions,
             BeginPublish(p, s, v, clock)
      PROVE  IInv'
  BY <1>5, BeginPublishKeepsIt
<1>6. ASSUME NEW p \in Writers, FinishAssert(p) PROVE IInv'
  BY <1>6, FinishAssertKeepsIt
<1>7. ASSUME NEW p \in Writers, FinishCorrect(p) PROVE IInv'
  BY <1>7, FinishCorrectKeepsIt
<1>8. ASSUME NEW p \in Writers, NEW claims \in SUBSET {c \in Claims : Sourced(p) = {c.src}},
             NEW order \in Orders(claims), FinishPublish(p, claims, order)
      PROVE  IInv'
  BY <1>8, FinishPublishKeepsIt
<1>9. ASSUME NEW p \in Writers, Abort(p) PROVE IInv'
  BY <1>9, AbortKeepsIt
<1>10. ASSUME NEW s \in Turns, NEW v \in Versions, PinExtraction(s, v) PROVE IInv'
  BY <1>10, PinKeepsIt
<1>11. ASSUME NEW s \in Turns, Prepare(s) \/ RefusePublish(s) PROVE IInv'
  BY <1>11, PrepareKeepsIt
<1>12. ASSUME NEW c, Reassert(c) PROVE IInv'
  BY <1>12, RestoreKeepsIt DEF Reassert
<1>13. ASSUME NEW s \in Sources, Recover(s) PROVE IInv'
  BY <1>13, RestoreKeepsIt DEF Recover
<1>14. ASSUME NEW gone, Erase(gone) PROVE IInv'
  BY <1>14, EraseKeepsIt
<1>15. ASSUME NEW i \in Ids, Lose(i) PROVE IInv'
  BY <1>15, LoseKeepsIt
<1> QED
  BY <1>1, <1>2, <1>3, <1>4, <1>5, <1>6, <1>7, <1>8, <1>9, <1>10, <1>11, <1>12, <1>13, <1>14, <1>15
  DEF Next

\* Every step of the store keeps the book in order, and lets stand what open transactions have read.
THEOREM Invariant == Spec => []IInv
BY InitHoldsIt, NextKeepsIt, PTL DEF Spec

\* No interval is empty, and every recorded value has its type.
THEOREM TypeCorrect == Spec => []TypeOK
<1>1. IInv => TypeOK
  <2> SUFFICES ASSUME IInv PROVE TypeOK
    OBVIOUS
  <2>1. /\ Ids \subseteq Identities
        /\ \A i \in Ids : fact[i] \in Stored /\ fact[i].vf < fact[i].vt /\ fact[i].kf < fact[i].kt
    BY RowsAreSpans DEF IInv, BookOK
  <2>2. ASSUME NEW h \in history
        PROVE  h.id \in Ids /\ h.vf < h.vt /\ h.kf < h.kt /\ h.by \in Sources
    <3>1. h \in Saved /\ h.id \in Ids /\ h.kf < h.kt
      BY DEF IInv, BookOK, SavedOK
    <3>2. h.vf \in Instants /\ h.vt = Never /\ h.by \in Sources
      BY <3>1 DEF Saved
    <3> QED BY <3>1, <3>2, TimesAreNumbers
  <2>3. \A w \in withdrawn : w.src \in Sources /\ w.replacement \in Edits \cup {None}
    BY DEF IInv, Typed, Tombstone, Identities
  <2>4. ASSUME NEW s \in Sources PROVE applied[s] \in BoundedSeq(Instants, MaxGenerations)
    <3>1. applied[s] \in Seq(Instants) /\ Len(applied[s]) \in 0 .. MaxGenerations
      BY ClaimAssumption DEF IInv, Typed
    <3>2. applied[s] \in [1 .. Len(applied[s]) -> Instants]
      BY <3>1
    <3> QED BY <3>1, <3>2 DEF BoundedSeq, SeqOf
  <2>5. alive \subseteq Sources /\ lost \subseteq Ids /\ prepared \in [Sources -> {"none", "fresh", "stale"}]
        /\ pin \in [Sources -> [ver : Versions \cup {Curated}, gen : 0 .. MaxGenerations] \cup {None}]
        /\ \A p \in Writers : tx[p] \in Transactions
    BY DEF IInv, Typed
  <2> QED BY <2>1, <2>2, <2>3, <2>4, <2>5 DEF TypeOK
<1> QED BY <1>1, Invariant, PTL

\* Two intervals a reader can be told of a slot of cardinality one do not meet but in one fact.
LEMMA ToldOnce ==
    ASSUME IInv, NEW slot \in Alone, NEW v \in Instants, NEW k \in Instants,
           NEW a \in Answer(Told(fact, lost, history), slot, v, k),
           NEW b \in Answer(Told(fact, lost, history), slot, v, k)
    PROVE  a = b
<1> DEFINE Here(x) == x.vf <= v /\ v < x.vt /\ x.kf <= k /\ k < x.kt
<1>1. \A c \in Answer(Told(fact, lost, history), slot, v, k) :
        /\ c.slot = slot
        /\ (c \in Ids /\ Here(fact[c])) \/ \E x \in history : x.id = c /\ Here(x)
  BY DEF Answer, Told
<1>2. ASSUME NEW x, NEW y, IsSpan(x), IsSpan(y), Here(x), Here(y)
      PROVE  ~Apart(x, y)
  <2>1. v \in Int /\ k \in Int
    BY TimesAreNumbers
  <2> QED BY <1>2, <2>1 DEF Apart, Overlap, IsSpan
<1>3. /\ \A i \in Ids : IsSpan(fact[i])
      /\ \A x \in history : IsSpan(x) /\ x.id \in Ids
      /\ PartedIn(fact, history, Alone)
  BY RowsAreSpans, SavedAreSpans DEF IInv, BookOK
<1> HIDE DEF Here
<1>4. CASE a \in Ids /\ Here(fact[a]) /\ b \in Ids /\ Here(fact[b])
  BY <1>1, <1>2, <1>3, <1>4 DEF PartedIn
<1>5. ASSUME NEW c \in Ids, Here(fact[c]), NEW x \in history, Here(x), c.slot = slot, x.id.slot = slot
      PROVE  FALSE
  BY <1>2, <1>3, <1>5 DEF PartedIn
<1>6. CASE \E x, y \in history : x.id = a /\ Here(x) /\ y.id = b /\ Here(y)
  BY <1>1, <1>2, <1>3, <1>6 DEF PartedIn
<1> QED BY <1>1, <1>4, <1>5, <1>6

\* A relation of cardinality one never had two answers: not about any instant, nor as it was known
\* at any, in what stands and in what was saved for history.
THEOREM OneAnswerStands == Spec => []OneAnswer
<1>1. IInv => OneAnswer
  <2> SUFFICES ASSUME IInv, NEW slot \in Single \ vacated, NEW v \in Instants, NEW k \in Instants
               PROVE  Cardinality(Answer(Told(fact, lost, history), slot, v, k)) <= 1
    BY DEF OneAnswer
  <2>1. PICK A : A = Answer(Told(fact, lost, history), slot, v, k)
    OBVIOUS
  <2>2. \A a, b \in A : a = b
    BY <2>1, ToldOnce DEF Alone
  <2>3. CASE A = {}
    <3>1. Cardinality(A) = 0
      BY <2>3, FS_EmptySet
    <3> QED BY <2>1, <3>1
  <2>4. CASE A # {}
    <3>1. PICK a \in A : A = {a}
      BY <2>2, <2>4
    <3>2. Cardinality(A) = 1
      BY <3>1, FS_Singleton
    <3> QED BY <2>1, <3>2
  <2> QED BY <2>3, <2>4
<1> QED BY <1>1, Invariant, PTL

\* What a person withdrew is not believed again from the message it came from.
THEOREM WithdrawnStays == Spec => []WithdrawnStaysWithdrawn
<1>1. IInv => WithdrawnStaysWithdrawn
  <2> SUFFICES ASSUME IInv, NEW i \in Ids, OpenKnown(fact, i),
                      Withdrawn([src |-> i.src, slot |-> i.slot, val |-> i.val, at |-> i.at])
               PROVE  FALSE
    BY DEF WithdrawnStaysWithdrawn
  <2> QED BY DEF Withdrawn, IInv, Interpreted
<1> QED BY <1>1, Invariant, PTL

\* Nor does a reinterpretation say anything else where a person corrected it.
THEOREM CorrectionStays == Spec => []CorrectionGoverns
<1>1. IInv => CorrectionGoverns
  <2> SUFFICES ASSUME IInv, NEW i \in Ids \ lost, OpenKnown(fact, i), i.slot \in Single, i.gen > 0,
                      Corrected([src |-> i.src, slot |-> i.slot, val |-> i.val, at |-> i.at])
               PROVE  FALSE
    BY DEF CorrectionGoverns
  <2> QED BY DEF Corrected, IInv, Interpreted
<1> QED BY <1>1, Invariant, PTL

\* What is believed of a source comes from the extraction its pin names.
THEOREM OneExtractionStands == Spec => []OneExtraction
<1>1. IInv => OneExtraction
  BY DEF IInv, Interpreted
<1> QED BY <1>1, Invariant, PTL

\* An erased source leaves nothing it said, ended or instructed.
THEOREM ErasureIsComplete == Spec => []ErasedLeavesNothing
<1>1. IInv => ErasedLeavesNothing
  <2> SUFFICES ASSUME IInv, NEW s \in Sources \ alive
               PROVE  /\ \A i \in Ids : i.src # s /\ fact[i].by # s
                      /\ \A h \in history : h.by # s /\ h.id.src # s
                      /\ \A w \in withdrawn : w.src # s /\ w.replacement # s
                      /\ pin[s] = None /\ applied[s] = << >>
    BY DEF ErasedLeavesNothing
  <2>1. s # None /\ s \notin alive
    BY ClaimAssumption
  <2>2. \A h \in history : h.id \in Ids
    BY DEF IInv, BookOK, SavedOK
  <2> QED BY <2>1, <2>2 DEF IInv, Owned
<1> QED BY <1>1, Invariant, PTL

-----------------------------------------------------------------------------
(* What was believed *)

SameSpan(x, y) == x.vf = y.vf /\ x.vt = y.vt /\ x.kf = y.kf /\ x.kt = y.kt
\* What was known without end is known until an instant, over what it was true.
EndedAt(x, y, at) ==
    y.kt = Never /\ y.kf < at /\ x.vf = y.vf /\ x.vt = y.vt /\ x.kf = y.kf /\ x.kt = at
KnownSince(x, at) == x.kf = at /\ x.kt = Never

\* What a transaction that knows from the instant `at' does to the book (f, h): a row stands, or is
\* ended in place, or leaves its interval ended in the history and goes on from `at'.
Rewritten(f, h, g, k, at) ==
    /\ DOMAIN f \subseteq DOMAIN g /\ h \subseteq k
    /\ \A i \in DOMAIN f :
        \/ SameSpan(g[i], f[i])
        \/ EndedAt(g[i], f[i], at)
        \/ KnownSince(g[i], at) /\ \E y \in k : y.id = i /\ EndedAt(y, f[i], at)
    /\ \A i \in DOMAIN g \ DOMAIN f : KnownSince(g[i], at)
    /\ \A y \in k \ h : y.id \in DOMAIN f /\ EndedAt(y, f[y.id], at)

\* Rows f, some of them closed (c), and then those of prev superseded and others added (g).
Writing(f, c, prev, g, h, k, at, src) ==
    /\ RowsOK(f) /\ DOMAIN c = DOMAIN f
    /\ \A i \in DOMAIN f : c[i] = f[i] \/ EndedAt(c[i], f[i], at)
    /\ at # Never
    /\ prev \subseteq {i \in DOMAIN c : c[i].kt = Never /\ c[i].kf < at}
    /\ DOMAIN c \subseteq DOMAIN g
    /\ \A i \in DOMAIN c \ prev : SameSpan(g[i], c[i])
    /\ \A i \in prev : KnownSince(g[i], at)
    /\ \A i \in DOMAIN g \ DOMAIN c : KnownSince(g[i], at)
    /\ k = h \cup Archive(c, prev, at, src)

LEMMA WritingRewrites ==
    ASSUME NEW f, NEW c, NEW prev, NEW g, NEW h, NEW k, NEW at, NEW src,
           Writing(f, c, prev, g, h, k, at, src)
    PROVE  Rewritten(f, h, g, k, at)
<1>1. ASSUME NEW i \in prev
      PROVE  /\ i \in DOMAIN f /\ c[i] = f[i]
             /\ \E y \in k : y.id = i /\ EndedAt(y, f[i], at)
  <2>1. i \in DOMAIN f /\ c[i].kt = Never /\ c[i].kf < at
    BY DEF Writing
  <2>2. c[i] = f[i]
    BY <2>1 DEF Writing, EndedAt
  <2> DEFINE y == [id |-> i, vf |-> c[i].vf, vt |-> c[i].vt, kf |-> c[i].kf, kt |-> at, by |-> src]
  <2>3. y \in k
    BY DEF Writing, Archive
  <2>4. y.id = i /\ EndedAt(y, f[i], at)
    BY <2>1, <2>2 DEF EndedAt
  <2> QED BY <2>1, <2>2, <2>3, <2>4
<1>2. ASSUME NEW i \in DOMAIN f
      PROVE  \/ SameSpan(g[i], f[i])
             \/ EndedAt(g[i], f[i], at)
             \/ KnownSince(g[i], at) /\ \E y \in k : y.id = i /\ EndedAt(y, f[i], at)
  <2>1. CASE i \in prev
    BY <1>1, <2>1 DEF Writing
  <2>2. CASE i \notin prev
    <3>1. SameSpan(g[i], c[i]) /\ (c[i] = f[i] \/ EndedAt(c[i], f[i], at))
      BY <2>2 DEF Writing
    <3> QED BY <3>1 DEF SameSpan, EndedAt
  <2> QED BY <2>1, <2>2
<1>3. ASSUME NEW y \in k \ h
      PROVE  y.id \in DOMAIN f /\ EndedAt(y, f[y.id], at)
  <2>1. PICK i \in prev : y = [id |-> i, vf |-> c[i].vf, vt |-> c[i].vt, kf |-> c[i].kf, kt |-> at,
                               by |-> src]
    BY DEF Writing, Archive
  <2>2. i \in DOMAIN f /\ c[i] = f[i] /\ c[i].kt = Never /\ c[i].kf < at
    BY <1>1 DEF Writing
  <2> QED BY <2>1, <2>2 DEF EndedAt
<1>4. DOMAIN f \subseteq DOMAIN g /\ h \subseteq k /\ \A i \in DOMAIN g \ DOMAIN f : KnownSince(g[i], at)
  BY DEF Writing
<1> QED BY <1>2, <1>3, <1>4 DEF Rewritten

\* Rows that are closed are ended.
LEMMA ClosingEnds ==
    ASSUME NEW f, RowsOK(f), NEW rows, NEW at,
           \A i \in rows \cap DOMAIN f : f[i].kt = Never /\ f[i].kf < at
    PROVE  /\ DOMAIN Close(f, rows, at) = DOMAIN f
           /\ \A i \in DOMAIN f :
                 Close(f, rows, at)[i] = f[i] \/ EndedAt(Close(f, rows, at)[i], f[i], at)
<1>1. PICK c : c = Close(f, rows, at)
  OBVIOUS
<1>2. DOMAIN c = DOMAIN f /\ \A i \in DOMAIN f : c[i] = IF i \in rows THEN [f[i] EXCEPT !.kt = at] ELSE f[i]
  BY <1>1 DEF Close
<1>3. ASSUME NEW i \in DOMAIN f
      PROVE  c[i] = f[i] \/ EndedAt(c[i], f[i], at)
  <2>1. CASE i \in rows
    <3>1. f[i] \in Stored /\ f[i].kt = Never /\ f[i].kf < at /\ c[i] = [f[i] EXCEPT !.kt = at]
      BY <1>2, <2>1, RowsAreSpans
    <3>2. c[i].vf = f[i].vf /\ c[i].vt = f[i].vt /\ c[i].kf = f[i].kf /\ c[i].kt = at
      BY <3>1 DEF Stored
    <3> QED BY <3>1, <3>2 DEF EndedAt
  <2>2. CASE i \notin rows
    BY <1>2, <2>2
  <2> QED BY <2>1, <2>2
<1> QED BY <1>1, <1>2, <1>3

\* An assertion that went through, after rows were closed (none of them, or a corrected one).
LEMMA AssertingWrites ==
    ASSUME NEW f, NEW c, RowsOK(f), RowsOK(c), DOMAIN c = DOMAIN f, NEW at \in Instants,
           \A i \in DOMAIN f : c[i] = f[i] \/ EndedAt(c[i], f[i], at),
           NEW l, NEW h, NEW slot, NEW vf, NEW src, NEW x, NEW ver,
           NEW prev, prev = Previous(c, l, slot, vf), Archivable(c, prev, at)
    PROVE  Rewritten(f, h,
                     With(Supersede(c, prev, vf, at, src), x, NewFact(vf, Never, at, None, ver)),
                     h \cup Archive(c, prev, at, src), at)
<1>1. PICK e : e = Supersede(c, prev, vf, at, src)
  OBVIOUS
<1>2. PICK row : row = NewFact(vf, Never, at, None, ver)
  OBVIOUS
<1>3. PICK g : g = With(e, x, row)
  OBVIOUS
<1>4. KnownSince(row, at)
  BY <1>2 DEF NewFact, KnownSince
<1>5. DOMAIN e = DOMAIN c /\ \A i \in DOMAIN c :
         e[i] = IF i \in prev THEN [c[i] EXCEPT !.vt = vf, !.kf = at, !.by = src] ELSE c[i]
  BY <1>1 DEF Supersede
<1>6. \A i \in prev : i \in DOMAIN c /\ c[i].kt = Never /\ c[i].kf < at
  BY DEF Previous, RowsOf, OpenKnown, Archivable
<1>7. ASSUME NEW i \in prev PROVE KnownSince(e[i], at)
  <2>1. c[i] \in Stored /\ c[i].kt = Never /\ e[i] = [c[i] EXCEPT !.vt = vf, !.kf = at, !.by = src]
    BY <1>5, <1>6, RowsAreSpans
  <2>2. e[i].kf = at /\ e[i].kt = Never
    BY <2>1 DEF Stored
  <2> QED BY <2>2 DEF KnownSince
<1>8. DOMAIN g = DOMAIN c \cup {x} /\ \A i \in DOMAIN g : g[i] = IF i \in DOMAIN c THEN e[i] ELSE row
  BY <1>3, <1>5 DEF With
<1>9. \A i \in DOMAIN c \ prev : SameSpan(g[i], c[i])
  BY <1>5, <1>8 DEF SameSpan
<1>10. \A i \in prev : KnownSince(g[i], at)
  BY <1>6, <1>7, <1>8
<1>11. \A i \in DOMAIN g \ DOMAIN c : KnownSince(g[i], at)
  BY <1>4, <1>8
<1>12. Writing(f, c, prev, g, h, h \cup Archive(c, prev, at, src), at, src)
  BY <1>6, <1>8, <1>9, <1>10, <1>11, TimesAreNumbers DEF Writing
<1> QED BY <1>1, <1>2, <1>3, <1>12, WritingRewrites

\* The part of what is told that is about a slot of which no row is missing.
Heard(f, h, slot) ==
    {[id |-> i, vf |-> f[i].vf, vt |-> f[i].vt, kf |-> f[i].kf, kt |-> f[i].kt] :
         i \in {j \in DOMAIN f : j.slot = slot}}
    \cup {[id |-> x.id, vf |-> x.vf, vt |-> x.vt, kf |-> x.kf, kt |-> x.kt] :
              x \in {y \in h : y.id.slot = slot}}

LEMMA HeardIsTold ==
    ASSUME NEW f, NEW h, NEW l, NEW slot, \A i \in l : i.slot # slot
    PROVE  Heard(f, h, slot) = {t \in Told(f, l, h) : t.id.slot = slot}
BY DEF Heard, Told

\* Two intervals of a slot that do not meet, or are one.
LEMMA HeardIsParted ==
    ASSUME NEW f, NEW h, NEW S, BookOK(f, h, S), NEW slot \in S,
           NEW a \in Heard(f, h, slot), NEW b \in Heard(f, h, slot), a # b
    PROVE  Apart(a, b)
<1> DEFINE row(i) == [id |-> i, vf |-> f[i].vf, vt |-> f[i].vt, kf |-> f[i].kf, kt |-> f[i].kt]
           saved(x) == [id |-> x.id, vf |-> x.vf, vt |-> x.vt, kf |-> x.kf, kt |-> x.kt]
<1>1. ASSUME NEW c \in Heard(f, h, slot)
      PROVE  \/ \E i \in DOMAIN f : i.slot = slot /\ c = row(i)
             \/ \E x \in h : x.id.slot = slot /\ c = saved(x)
  BY DEF Heard
<1>2. PartedIn(f, h, S)
  BY DEF BookOK
<1>3. ASSUME NEW i \in DOMAIN f, NEW j \in DOMAIN f, i # j, i.slot = slot, j.slot = slot
      PROVE  Apart(row(i), row(j))
  <2>1. Apart(f[i], f[j])
    BY <1>2, <1>3 DEF PartedIn
  <2> QED BY <2>1 DEF Apart
<1>4. ASSUME NEW x \in h, NEW j \in DOMAIN f, x.id.slot = slot, j.slot = slot
      PROVE  Apart(saved(x), row(j))
  <2>1. Apart(x, f[j])
    BY <1>2, <1>4 DEF PartedIn
  <2> QED BY <2>1 DEF Apart
<1>5. ASSUME NEW x \in h, NEW y \in h, x # y, x.id.slot = slot, y.id.slot = slot
      PROVE  Apart(saved(x), saved(y))
  <2>1. Apart(x, y)
    BY <1>2, <1>5 DEF PartedIn
  <2> QED BY <2>1 DEF Apart
<1> HIDE DEF row, saved
<1>6. CASE \E i, j \in DOMAIN f : i.slot = slot /\ j.slot = slot /\ a = row(i) /\ b = row(j)
  BY <1>3, <1>6
<1>7. CASE \E x \in h, j \in DOMAIN f : x.id.slot = slot /\ j.slot = slot /\ a = saved(x) /\ b = row(j)
  BY <1>4, <1>7
<1>8. CASE \E x \in h, j \in DOMAIN f : x.id.slot = slot /\ j.slot = slot /\ b = saved(x) /\ a = row(j)
  BY <1>4, <1>8, ApartIsSymmetric
<1>9. CASE \E x, y \in h : x.id.slot = slot /\ y.id.slot = slot /\ a = saved(x) /\ b = saved(y)
  BY <1>5, <1>9
<1> QED BY <1>1, <1>6, <1>7, <1>8, <1>9

LEMMA HeardAreSpans ==
    ASSUME NEW f, NEW h, NEW S, BookOK(f, h, S), NEW slot, NEW a \in Heard(f, h, slot)
    PROVE  /\ IsSpan(a) /\ a.kf \in Instants /\ a.kt \in 1 .. Never /\ a.id.slot = slot
<1>1. CASE \E i \in DOMAIN f : i.slot = slot /\
            a = [id |-> i, vf |-> f[i].vf, vt |-> f[i].vt, kf |-> f[i].kf, kt |-> f[i].kt]
  <2>1. PICK i \in DOMAIN f : i.slot = slot /\
            a = [id |-> i, vf |-> f[i].vf, vt |-> f[i].vt, kf |-> f[i].kf, kt |-> f[i].kt]
    BY <1>1
  <2>2. IsSpan(f[i]) /\ f[i].kf \in Instants /\ f[i].kf < f[i].kt /\ f[i].kt <= Never
    BY RowsAreSpans DEF BookOK
  <2>3. f[i].kt \in 1 .. Never
    BY <2>2, TimesAreNumbers DEF IsSpan
  <2> QED BY <2>1, <2>2, <2>3 DEF IsSpan
<1>2. CASE \E x \in h : x.id.slot = slot /\
            a = [id |-> x.id, vf |-> x.vf, vt |-> x.vt, kf |-> x.kf, kt |-> x.kt]
  <2>1. PICK x \in h : x.id.slot = slot /\
            a = [id |-> x.id, vf |-> x.vf, vt |-> x.vt, kf |-> x.kf, kt |-> x.kt]
    BY <1>2
  <2>2. IsSpan(x) /\ x.kf \in Instants /\ x.kt \in Instants
    BY SavedAreSpans DEF BookOK
  <2>3. x.kt \in 1 .. Never
    BY <2>2, TimesAreNumbers
  <2> QED BY <2>1, <2>2, <2>3 DEF IsSpan
<1> QED BY <1>1, <1>2 DEF Heard

\* What is told after a step, from what was told before it.
Carried(before, after, at) ==
    /\ \A u \in before : u \in after \/ \E w \in after : w.id = u.id /\ EndedAt(w, u, at)
    /\ \A w \in after :
         w \in before \/ (\E u \in before : w.id = u.id /\ EndedAt(w, u, at)) \/ KnownSince(w, at)

LEMMA RewritingCarries ==
    ASSUME NEW f, NEW h, NEW g, NEW k, NEW at, NEW slot,
           RowsOK(f), SavedOK(f, h), Rewritten(f, h, g, k, at)
    PROVE  Carried(Heard(f, h, slot), Heard(g, k, slot), at)
<1> DEFINE row(r, i) == [id |-> i, vf |-> r[i].vf, vt |-> r[i].vt, kf |-> r[i].kf, kt |-> r[i].kt]
           saved(x) == [id |-> x.id, vf |-> x.vf, vt |-> x.vt, kf |-> x.kf, kt |-> x.kt]
<1>1. \A u : u \in Heard(f, h, slot) <=> \/ \E i \in DOMAIN f : i.slot = slot /\ u = row(f, i)
                                         \/ \E x \in h : x.id.slot = slot /\ u = saved(x)
  BY DEF Heard
<1>2. \A u : u \in Heard(g, k, slot) <=> \/ \E i \in DOMAIN g : i.slot = slot /\ u = row(g, i)
                                         \/ \E x \in k : x.id.slot = slot /\ u = saved(x)
  BY DEF Heard
<1>3. /\ \A r, i : row(r, i).id = i /\ SameSpan(row(r, i), r[i])
      /\ \A x : saved(x).id = x.id /\ SameSpan(saved(x), x)
  BY DEF SameSpan
<1>4. ASSUME NEW i \in DOMAIN f, SameSpan(g[i], f[i])
      PROVE  row(g, i) = row(f, i)
  BY <1>4 DEF SameSpan
<1>5. \A x, y, u, w : EndedAt(x, y, at) /\ SameSpan(u, x) /\ SameSpan(w, y) => EndedAt(u, w, at)
  BY DEF EndedAt, SameSpan
<1>6. \A x, u : KnownSince(x, at) /\ SameSpan(u, x) => KnownSince(u, at)
  BY DEF KnownSince, SameSpan
<1> HIDE DEF row, saved
<1>7. ASSUME NEW i \in DOMAIN f, i.slot = slot
      PROVE  \/ row(f, i) \in Heard(g, k, slot)
             \/ \E w \in Heard(g, k, slot) : w.id = row(f, i).id /\ EndedAt(w, row(f, i), at)
  <2>1. i \in DOMAIN g
    BY DEF Rewritten
  <2>2. CASE SameSpan(g[i], f[i])
    BY <1>2, <1>4, <1>7, <2>1, <2>2
  <2>3. CASE EndedAt(g[i], f[i], at)
    <3>1. row(g, i) \in Heard(g, k, slot) /\ row(g, i).id = row(f, i).id
      BY <1>2, <1>3, <1>7, <2>1
    <3>2. EndedAt(row(g, i), row(f, i), at)
      BY <1>3, <1>5, <2>3
    <3> QED BY <3>1, <3>2
  <2>4. CASE \E y \in k : y.id = i /\ EndedAt(y, f[i], at)
    <3>1. PICK y \in k : y.id = i /\ EndedAt(y, f[i], at)
      BY <2>4
    <3>2. saved(y) \in Heard(g, k, slot) /\ saved(y).id = row(f, i).id
      BY <1>2, <1>3, <1>7, <3>1
    <3>3. EndedAt(saved(y), row(f, i), at)
      BY <1>3, <1>5, <3>1
    <3> QED BY <3>2, <3>3
  <2> QED BY <2>2, <2>3, <2>4 DEF Rewritten
<1>8. ASSUME NEW x \in h, x.id.slot = slot
      PROVE  saved(x) \in Heard(g, k, slot)
  BY <1>2, <1>8 DEF Rewritten
<1>9. ASSUME NEW i \in DOMAIN g, i.slot = slot
      PROVE  \/ row(g, i) \in Heard(f, h, slot)
             \/ \E u \in Heard(f, h, slot) : row(g, i).id = u.id /\ EndedAt(row(g, i), u, at)
             \/ KnownSince(row(g, i), at)
  <2>1. CASE KnownSince(g[i], at)
    BY <1>3, <1>6, <2>1
  <2>2. CASE i \in DOMAIN f /\ SameSpan(g[i], f[i])
    BY <1>1, <1>4, <1>9, <2>2
  <2>3. CASE i \in DOMAIN f /\ EndedAt(g[i], f[i], at)
    <3>1. row(f, i) \in Heard(f, h, slot) /\ row(g, i).id = row(f, i).id
      BY <1>1, <1>3, <1>9, <2>3
    <3>2. EndedAt(row(g, i), row(f, i), at)
      BY <1>3, <1>5, <2>3
    <3> QED BY <3>1, <3>2
  <2> QED BY <2>1, <2>2, <2>3 DEF Rewritten
<1>10. ASSUME NEW y \in k, y.id.slot = slot
       PROVE  \/ saved(y) \in Heard(f, h, slot)
              \/ \E u \in Heard(f, h, slot) : saved(y).id = u.id /\ EndedAt(saved(y), u, at)
  <2>1. CASE y \in h
    BY <1>1, <1>10, <2>1
  <2>2. CASE y \notin h
    <3>1. y.id \in DOMAIN f /\ EndedAt(y, f[y.id], at)
      BY <2>2 DEF Rewritten
    <3>2. row(f, y.id) \in Heard(f, h, slot) /\ saved(y).id = row(f, y.id).id
      BY <1>1, <1>3, <1>10, <3>1
    <3>3. EndedAt(saved(y), row(f, y.id), at)
      BY <1>3, <1>5, <3>1
    <3> QED BY <3>2, <3>3
  <2> QED BY <2>1, <2>2
<1> QED BY <1>1, <1>2, <1>7, <1>8, <1>9, <1>10 DEF Carried

\* An instant that is settled is before the end of something that was told of it.
LEMMA SettledByWhatWasTold ==
    ASSUME NEW told, NEW slot, NEW v \in Instants,
           \A t \in told : t.id.slot = slot => t.kf \in Instants /\ t.kt \in 1 .. Never,
           NEW k \in 1 .. (Settled(told, slot, v) - 1)
    PROVE  /\ k \in Instants
           /\ \E t \in told : /\ t.id.slot = slot /\ t.vf <= v /\ v < t.vt
                              /\ k < IF t.kt = Never THEN t.kf + 1 ELSE t.kt
<1> DEFINE here == {u \in told : u.id.slot = slot /\ u.vf <= v /\ v < u.vt}
           end(t) == IF t.kt = Never THEN t.kf + 1 ELSE t.kt
           T == {1} \cup {end(t) : t \in here}
<1>1. ASSUME NEW t \in here PROVE end(t) \in 0 .. Never
  <2>1. t.kf \in Instants /\ t.kt \in 1 .. Never
    OBVIOUS
  <2> QED BY <2>1, TimesAreNumbers
<1>2. v \in Int /\ 1 <= v /\ v < Never /\ Never \in Nat
  BY TimesAreNumbers
<1>3. Settled(told, slot, v) = Max(T)
  BY DEF Settled
<1> HIDE DEF here, end
<1>4. T \in SUBSET (0 .. Never) /\ T # {}
  BY <1>1, <1>2
<1> HIDE DEF T
<1>5. Max(T) \in T
  BY <1>2, <1>4, MaxIsGreatest
<1>6. Max(T) \in 0 .. Never
  BY <1>4, <1>5
<1>7. k \in Int /\ 1 <= k /\ k < Max(T)
  BY <1>3, <1>6
<1>8. PICK t \in here : Max(T) = end(t)
  BY <1>5, <1>7 DEF T
<1>9. k < Never
  BY <1>2, <1>6, <1>7
<1> QED BY <1>7, <1>8, <1>9, TimesAreNumbers DEF here, end

\* Where the intervals told of a slot do not meet, neither before a step nor after it, the step
\* leaves the answers known at a settled time.
LEMMA PastIsKept ==
    ASSUME NEW before, NEW after, NEW at \in Int, NEW slot, Carried(before, after, at),
           \A t \in before \cup after : IsSpan(t) /\ t.kf \in Instants /\ t.kt \in 1 .. Never
                                        /\ t.id.slot = slot,
           \A a, b \in before : a # b => Apart(a, b),
           \A a, b \in after : a # b => Apart(a, b),
           NEW v \in Instants, NEW k \in 1 .. (Settled(before, slot, v) - 1)
    PROVE  Answer(before, slot, v, k) = Answer(after, slot, v, k)
<1> DEFINE Here(t) == t.vf <= v /\ v < t.vt
           Known(t) == t.kf <= k /\ k < t.kt
<1>1. k \in Instants /\ \E t \in before : Here(t) /\ k < IF t.kt = Never THEN t.kf + 1 ELSE t.kt
  BY SettledByWhatWasTold
<1>2. PICK t \in before : Here(t) /\ k < IF t.kt = Never THEN t.kf + 1 ELSE t.kt
  BY <1>1
<1>3. v \in Int /\ k \in Int /\ k < Never /\ Never \in Int
  BY <1>1, TimesAreNumbers
<1>4. \A u \in before \cup after : /\ u.vf \in Int /\ u.vt \in Int /\ u.kf \in Int /\ u.kt \in Int
                                   /\ u.kf < Never /\ u.kt <= Never
  BY TimesAreNumbers DEF IsSpan
<1>5. ASSUME NEW u \in before, Here(u), Known(u)
      PROVE  \E w \in after : w.id = u.id /\ Here(w) /\ Known(w)
  <2>1. CASE u \in after
    BY <1>5, <2>1
  <2>2. CASE \E w \in after : w.id = u.id /\ EndedAt(w, u, at)
    <3>1. PICK w \in after : w.id = u.id /\ EndedAt(w, u, at)
      BY <2>2
    <3>2. /\ u.kt = Never /\ u.kf < at /\ w.vf = u.vf /\ w.vt = u.vt /\ w.kf = u.kf /\ w.kt = at
      BY <3>1 DEF EndedAt
    <3>3. k < at
      <4>1. CASE t = u
        BY <1>2, <1>3, <1>4, <3>2, <4>1
      <4>2. CASE t # u
        <5>1. Apart(t, u)
          BY <4>2
        <5>2. Overlap(t.vf, t.vt, u.vf, u.vt)
          BY <1>2, <1>3, <1>4, <1>5 DEF Overlap
        <5>3. t.kt <= u.kf
          BY <1>4, <3>2, <5>1, <5>2 DEF Apart, Overlap
        <5> QED BY <1>2, <1>3, <1>4, <1>5, <5>3
      <4> QED BY <4>1, <4>2
    <3> QED BY <1>5, <3>1, <3>2, <3>3
  <2> QED BY <2>1, <2>2 DEF Carried
<1>6. ASSUME NEW w \in after, Here(w), Known(w)
      PROVE  \E u \in before : w.id = u.id /\ Here(u) /\ Known(u)
  <2>1. CASE w \in before
    BY <1>6, <2>1
  <2>2. CASE \E u \in before : w.id = u.id /\ EndedAt(w, u, at)
    <3>1. PICK u \in before : w.id = u.id /\ EndedAt(w, u, at)
      BY <2>2
    <3> QED BY <1>3, <1>6, <3>1 DEF EndedAt
  <2>3. CASE KnownSince(w, at) /\ w \notin before
    <3>1. w.kf = at /\ w.kt = Never /\ at <= k
      BY <1>6, <2>3 DEF KnownSince
    <3>2. CASE t \in after
      <4>1. Apart(t, w)
        BY <2>3, <3>2
      <4>2. Overlap(t.vf, t.vt, w.vf, w.vt)
        BY <1>2, <1>3, <1>4, <1>6 DEF Overlap
      <4>3. t.kt <= at
        BY <1>4, <3>1, <4>1, <4>2 DEF Apart, Overlap
      <4> QED BY <1>2, <1>3, <1>4, <3>1, <4>3
    <3>3. CASE t.kt = Never /\ t.kf < at
      BY <1>2, <1>3, <1>4, <3>1, <3>3
    <3> QED BY <3>2, <3>3 DEF Carried, EndedAt
  <2> QED BY <2>1, <2>2, <2>3 DEF Carried
<1>7. ASSUME NEW told \in {before, after}, NEW a
      PROVE  a \in Answer(told, slot, v, k) <=> \E u \in told : u.id = a /\ Here(u) /\ Known(u)
  BY <1>7 DEF Answer
<1> HIDE DEF Here, Known
<1> QED BY <1>5, <1>6, <1>7

\* A step that is no erasure gives no slot back, and rewrites the book from one instant on.
Keeps(at) == vacated \subseteq vacated' /\ Rewritten(fact, history, fact', history', at)

LEMMA LeavingTheBookKeeps ==
    ASSUME fact' = fact, history' = history, vacated \subseteq vacated'
    PROVE  Keeps(0)
BY DEF Keeps, Rewritten, SameSpan

LEMMA RetractWrites ==
    ASSUME IInv, NEW p \in Writers, NEW clock \in Instants, NEW i \in Ids, Retract(p, i, clock)
    PROVE  \E at \in Int : Keeps(at)
<1>1. PICK at : at = EndOfKnowledge(i, clock)
  OBVIOUS
<1>2. /\ Store(Close(fact, {i}, at), lost, history, pin) /\ vacated' = vacated
      /\ OpenKnown(fact, i) /\ at < Never
  BY <1>1 DEF Retract, Withdrawable
<1>3. at \in Instants /\ fact[i].kf < at /\ at # Never /\ at \in Int
  BY <1>1, <1>2, EndIsLater, TimesAreNumbers
<1>4. PICK c : c = Close(fact, {i}, at)
  OBVIOUS
<1>5. RowsOK(fact)
  BY DEF IInv, BookOK
<1>6. DOMAIN c = DOMAIN fact /\ \A j \in DOMAIN fact : c[j] = fact[j] \/ EndedAt(c[j], fact[j], at)
  BY <1>2, <1>3, <1>4, <1>5, ClosingEnds DEF OpenKnown
<1>7. fact' = c /\ history' = history
  BY <1>2, <1>4 DEF Store
<1>8. Archive(c, {}, at, i.src) = {}
  BY DEF Archive
<1>9. Writing(fact, c, {}, c, history, history, at, i.src)
  BY <1>3, <1>5, <1>6, <1>8 DEF Writing, SameSpan
<1>10. Rewritten(fact, history, c, history, at)
  BY <1>9, WritingRewrites
<1> QED BY <1>2, <1>3, <1>7, <1>10 DEF Keeps

LEMMA FinishAssertWrites ==
    ASSUME IInv, NEW p \in Writers, FinishAssert(p)
    PROVE  \E at \in Int : Keeps(at)
<1>1. PICK t : t = tx[p]
  OBVIOUS
<1>2. PICK c : c = t.claim
  OBVIOUS
<1>3. PICK prev : prev = Previous(fact, lost, c.slot, c.at)
  OBVIOUS
<1>4. PICK e : e = Supersede(fact, prev, c.at, t.at, t.src)
  OBVIOUS
<1>5. t.kind = "assert"
  BY <1>1 DEF FinishAssert
<1>6. t.at \in Instants /\ t.at \in Int
  BY <1>1, <1>5, TimesAreNumbers DEF IInv, Typed, Transactions, Idle
<1>7. CASE ~(Archivable(fact, prev, t.at) /\ Clashing(e, lost, c.slot, c.at, Never, t.at, Never) = {})
  <2>1. UNCHANGED <<alive, fact, lost, history, withdrawn, pin, applied, prepared, vacated>>
    BY <1>1, <1>2, <1>3, <1>4, <1>7, SMTT(20) DEF FinishAssert
  <2> QED BY <2>1, LeavingTheBookKeeps
<1>8. CASE Archivable(fact, prev, t.at) /\ Clashing(e, lost, c.slot, c.at, Never, t.at, Never) = {}
  <2>1. PICK x : x = Identity(c, 0)
    OBVIOUS
  <2>2. PICK g : g = With(e, x, NewFact(c.at, Never, t.at, None, t.ver))
    BY Zenon
  <2>3. PICK n : n = [pin EXCEPT ![t.src] = [ver |-> t.ver, gen |-> 0]]
    OBVIOUS
  <2>4. /\ Store(g, lost, history \cup Archive(fact, prev, t.at, t.src), n)
        /\ vacated' = vacated
    BY <1>1, <1>2, <1>3, <1>4, <1>8, <2>1, <2>2, <2>3, SMTT(20) DEF FinishAssert
  <2>5. fact' = g /\ history' = history \cup Archive(fact, prev, t.at, t.src)
    BY <2>4 DEF Store
  <2>6. RowsOK(fact)
    BY DEF IInv, BookOK
  <2>7. Rewritten(fact, history, g, history \cup Archive(fact, prev, t.at, t.src), t.at)
    BY <1>3, <1>4, <1>6, <1>8, <2>2, <2>6, AssertingWrites
  <2> QED BY <1>6, <2>4, <2>5, <2>7 DEF Keeps
<1> QED BY <1>7, <1>8

LEMMA FinishCorrectWrites ==
    ASSUME IInv, NEW p \in Writers, FinishCorrect(p)
    PROVE  \E at \in Int : Keeps(at)
<1>1. PICK t : t = tx[p]
  OBVIOUS
<1>2. PICK slot : slot = t.target.slot
  OBVIOUS
<1>3. PICK f : f = Close(fact, {t.target}, t.at)
  OBVIOUS
<1>4. PICK prev : prev = Previous(f, lost, slot, t.since)
  OBVIOUS
<1>5. PICK e : e = Supersede(f, prev, t.since, t.at, t.edit)
  OBVIOUS
<1>6. t.kind = "correct"
  BY <1>1 DEF FinishCorrect
<1>7. /\ t.at \in Instants /\ t.at \in Int
      /\ t.target \in Ids /\ fact[t.target].kt = Never /\ fact[t.target].kf < t.at
  BY <1>1, <1>6, TimesAreNumbers DEF IInv, Typed, Locked, Held, Transactions, Idle, OpenKnown
<1>8. CASE ~(Archivable(f, prev, t.at) /\ Clashing(e, lost, slot, t.since, Never, t.at, Never) = {})
  <2>1. UNCHANGED <<alive, fact, lost, history, withdrawn, pin, applied, prepared, vacated>>
    BY <1>1, <1>2, <1>3, <1>4, <1>5, <1>8, SMTT(20) DEF FinishCorrect
  <2> QED BY <2>1, LeavingTheBookKeeps
<1>9. CASE Archivable(f, prev, t.at) /\ Clashing(e, lost, slot, t.since, Never, t.at, Never) = {}
  <2>1. PICK x : x = [src |-> t.edit, slot |-> slot, val |-> t.val, at |-> t.since, gen |-> 0]
    OBVIOUS
  <2>2. PICK g : g = With(e, x, NewFact(t.since, Never, t.at, None, Curated))
    OBVIOUS
  <2>3. PICK n : n = [pin EXCEPT ![t.edit] = [ver |-> Curated, gen |-> 0]]
    OBVIOUS
  <2>4. /\ Store(g, lost, history \cup Archive(f, prev, t.at, t.edit), n)
        /\ vacated' = vacated
    BY <1>1, <1>2, <1>3, <1>4, <1>5, <1>9, <2>1, <2>2, <2>3, SMTT(20) DEF FinishCorrect
  <2>5. fact' = g /\ history' = history \cup Archive(f, prev, t.at, t.edit)
    BY <2>4 DEF Store
  <2>6. RowsOK(fact) /\ BookOK(fact, history, Alone)
    BY DEF IInv, BookOK
  <2>7. DOMAIN f = DOMAIN fact /\ \A j \in DOMAIN fact : f[j] = fact[j] \/ EndedAt(f[j], fact[j], t.at)
    BY <1>3, <1>7, <2>6, ClosingEnds
  <2>8. RowsOK(f)
    BY <1>3, <1>7, <2>6, ClosingKeepsBook DEF BookOK
  <2>9. Rewritten(fact, history, g, history \cup Archive(f, prev, t.at, t.edit), t.at)
    BY <1>4, <1>5, <1>7, <1>9, <2>2, <2>6, <2>7, <2>8, AssertingWrites
  <2> QED BY <1>7, <2>4, <2>5, <2>9 DEF Keeps
<1> QED BY <1>8, <1>9

LEMMA FinishPublishWrites ==
    ASSUME IInv, NEW p \in Writers, NEW claims \in SUBSET {c \in Claims : Sourced(p) = {c.src}},
           NEW order \in Orders(claims), FinishPublish(p, claims, order)
    PROVE  \E at \in Int : Keeps(at)
<1>1. PICK t, n, c, l, g : Published(p, t, n, c, l, g)
  BY PublishingPlans
<1>2. /\ fact' = g.f /\ history' = history /\ vacated' = vacated
      /\ c = Close(fact, t.retired, t.at) /\ t.at # Never /\ t.at \in Int
      /\ \A i \in t.retired : fact[i].kt = Never /\ fact[i].kf < t.at
  BY <1>1, TimesAreNumbers DEF Published, Store, OpenOf, OpenKnown
<1>3. RowsOK(fact)
  BY DEF IInv, BookOK
<1>4. DOMAIN c = DOMAIN fact /\ \A j \in DOMAIN fact : c[j] = fact[j] \/ EndedAt(c[j], fact[j], t.at)
  BY <1>2, <1>3, ClosingEnds
<1>5. /\ DOMAIN c \subseteq DOMAIN g.f /\ \A i \in DOMAIN c : g.f[i] = c[i]
      /\ \A i \in DOMAIN g.f \ DOMAIN c : KnownSince(g.f[i], t.at)
  BY <1>1 DEF Published, PlanOK, KnownSince
<1>6. Archive(c, {}, t.at, t.src) = {}
  BY DEF Archive
<1>7. Writing(fact, c, {}, g.f, history, history, t.at, t.src)
  BY <1>2, <1>3, <1>4, <1>5, <1>6 DEF Writing, SameSpan
<1>8. Rewritten(fact, history, g.f, history, t.at)
  BY <1>7, WritingRewrites
<1> QED BY <1>2, <1>8 DEF Keeps

LEMMA EveryStepKeeps ==
    ASSUME IInv, [Next]_vars, alive \subseteq alive'
    PROVE  \E at \in Int : Keeps(at)
<1>1. CASE UNCHANGED vars
  BY <1>1, LeavingTheBookKeeps DEF vars
<1>2. ASSUME NEW p \in Writers, NEW clock \in Instants, NEW c \in Claims, NEW v, NEW i, NEW dated,
             BeginAssert(p, c, v, clock) \/ BeginCorrect(p, i, c, dated, clock)
      PROVE  \E at \in Int : Keeps(at)
  <2>1. CASE BeginAssert(p, c, v, clock)
    BY <2>1, LeavingTheBookKeeps DEF BeginAssert
  <2>2. CASE BeginCorrect(p, i, c, dated, clock)
    BY <2>2, LeavingTheBookKeeps DEF BeginCorrect
  <2> QED BY <1>2, <2>1, <2>2
<1>3. ASSUME NEW p \in Writers, NEW clock \in Instants, NEW v, NEW s, BeginPublish(p, s, v, clock)
       PROVE  \E at \in Int : Keeps(at)
  BY <1>3, LeavingTheBookKeeps DEF BeginPublish
<1>4. ASSUME NEW p \in Writers, NEW clock \in Instants, NEW i \in Ids, Retract(p, i, clock)
      PROVE  \E at \in Int : Keeps(at)
  BY <1>4, RetractWrites
<1>5. ASSUME NEW p \in Writers, FinishAssert(p) PROVE \E at \in Int : Keeps(at)
  BY <1>5, FinishAssertWrites
<1>6. ASSUME NEW p \in Writers, FinishCorrect(p) PROVE \E at \in Int : Keeps(at)
  BY <1>6, FinishCorrectWrites
<1>7. ASSUME NEW p \in Writers, NEW claims \in SUBSET {c \in Claims : Sourced(p) = {c.src}},
             NEW order \in Orders(claims), FinishPublish(p, claims, order)
      PROVE  \E at \in Int : Keeps(at)
  BY <1>7, FinishPublishWrites
<1>8. CASE \/ \E p \in Writers : Abort(p)
           \/ \E s \in Turns : Prepare(s) \/ RefusePublish(s)
  <2>1. UNCHANGED <<fact, history, vacated>>
    BY <1>8 DEF Abort, Prepare, RefusePublish
  <2> QED BY <2>1, LeavingTheBookKeeps
<1>9. CASE \/ \E s \in Turns, v \in Versions : PinExtraction(s, v)
           \/ \E c : Reassert(c)
           \/ \E s \in Sources : Recover(s)
           \/ \E i \in Ids : Lose(i)
  <2>1. fact' = fact /\ history' = history /\ vacated \subseteq vacated'
    BY <1>9 DEF PinExtraction, Reassert, Recover, Restore, Lose, Store
  <2> QED BY <2>1, LeavingTheBookKeeps
<1>10. ASSUME NEW gone, Erase(gone) PROVE FALSE
  BY <1>10 DEF Erase
<1> QED BY <1>1, <1>2, <1>3, <1>4, <1>5, <1>6, <1>7, <1>8, <1>9, <1>10 DEF Next

\* What was believed is not rewritten: no step but an erasure changes what is answered about an
\* instant as it was known at a time already settled.
THEOREM PastStands == Spec => PastKnowledgeStands
<1>1. IInv /\ IInv' /\ [Next]_vars =>
        [alive \subseteq alive' =>
           LET before == Told(fact, lost, history)
               after == Told(fact', lost', history')
           IN before # after => \A slot \in Single \ vacated', v \in Instants :
                \A k \in 1 .. (Settled(before, slot, v) - 1) :
                   Answer(before, slot, v, k) = Answer(after, slot, v, k)]_vars
  <2> SUFFICES ASSUME IInv, IInv', [Next]_vars, alive \subseteq alive',
                      NEW slot \in Single \ vacated', NEW v \in Instants,
                      NEW k \in 1 .. (Settled(Told(fact, lost, history), slot, v) - 1)
               PROVE  Answer(Told(fact, lost, history), slot, v, k)
                        = Answer(Told(fact', lost', history'), slot, v, k)
    OBVIOUS
  <2>1. PICK at \in Int : Keeps(at)
    BY EveryStepKeeps
  <2>2. slot \in Alone /\ slot \in Alone' /\ slot \notin vacated /\ slot \notin vacated'
    BY <2>1 DEF Keeps, Alone
  <2>3. PICK before : before = Heard(fact, history, slot)
    OBVIOUS
  <2>4. PICK after : after = Heard(fact', history', slot)
    OBVIOUS
  <2>5. \A i \in lost : i.slot # slot
    BY <2>2 DEF IInv, Typed
  <2>6. \A i \in lost' : i.slot # slot
    BY <2>2 DEF IInv, Typed
  <2>7. before = {t \in Told(fact, lost, history) : t.id.slot = slot}
    BY <2>3, <2>5, HeardIsTold
  <2>8. after = {t \in Told(fact', lost', history') : t.id.slot = slot}
    BY <2>4, <2>6, HeardIsTold
  <2>9. BookOK(fact, history, Alone) /\ BookOK(fact', history', Alone')
    BY DEF IInv
  <2>10. Carried(before, after, at)
    BY <2>1, <2>3, <2>4, <2>9, RewritingCarries DEF Keeps, BookOK
  <2>11. /\ \A a, b \in before : a # b => Apart(a, b)
         /\ \A a, b \in after : a # b => Apart(a, b)
    BY <2>2, <2>3, <2>4, <2>9, HeardIsParted
  <2>12. \A t \in before \cup after : IsSpan(t) /\ t.kf \in Instants /\ t.kt \in 1 .. Never
                                      /\ t.id.slot = slot
    BY <2>3, <2>4, <2>9, HeardAreSpans
  <2>13. Settled(Told(fact, lost, history), slot, v) = Settled(before, slot, v)
    <3>1. {u \in Told(fact, lost, history) : u.id.slot = slot /\ u.vf <= v /\ v < u.vt}
            = {u \in before : u.id.slot = slot /\ u.vf <= v /\ v < u.vt}
      BY <2>7
    <3> QED BY <3>1 DEF Settled
  <2>14. /\ Answer(Told(fact, lost, history), slot, v, k) = Answer(before, slot, v, k)
         /\ Answer(Told(fact', lost', history'), slot, v, k) = Answer(after, slot, v, k)
    BY <2>7, <2>8 DEF Answer
  <2>15. Answer(before, slot, v, k) = Answer(after, slot, v, k)
    BY <2>10, <2>11, <2>12, <2>13, PastIsKept
  <2> QED BY <2>14, <2>15
<1> QED BY <1>1, Invariant, NextKeepsIt, PTL DEF Spec, PastKnowledgeStands
==============================================================================
