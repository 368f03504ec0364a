-------------------------- MODULE EmbeddingsProofs ---------------------------
(***************************************************************************)
(* Proofs about Embeddings, for every number of inputs, generations,       *)
(* builders, versions and troubles, and every size of page: the type       *)
(* invariant, that the generation a search reads stands, and that a search *)
(* answers for the range it says it covers.                                *)
(***************************************************************************)
EXTENDS Embeddings, FiniteSetTheorems, WellFoundedInduction, NaturalsInduction, TLAPS

USE EmbeddingAssumption

-----------------------------------------------------------------------------
(* The inductive invariant.                                                 *)

Vectors == [Items -> 0 .. MaxVersion \cup {None}]

Process == [at : {"idle", "read", "commit"}, gen : Gens \cup {None}, after : 0 .. MaxItem,
            follow : BOOLEAN, page : Vectors, upto : 0 .. MaxItem, complete : BOOLEAN]

Typed ==
    /\ kind \in Kinds
    /\ item \in [Items -> {"absent", "here", "gone"}]
    /\ version \in [Items -> 0 .. MaxVersion]
    /\ gen \in [Gens -> GenState \cup {None}]
    /\ active \in Gens \cup {None}
    /\ vec \in [Gens -> Vectors]
    /\ holder \in [Gens -> Builders \cup {None}]
    /\ builder \in [Builders -> Process]
    /\ writer \in [Items -> {None} \cup (SUBSET Gens)]

\* One entity at a time is being changed, and has a change left.
WriterOK ==
    \A i \in Items : writer[i] # None =>
        /\ kind = "entity"
        /\ \A k \in Items : version[k] < MaxVersion
        /\ \A k \in Items : k # i => writer[k] = None

\* What an open change has updated exists.
ChangesOK == \A i \in Items : writer[i] # None => \A g \in writer[i] : Exists(g)

\* A process at work has a generation, and nobody else presents its lease.
LeaseOK ==
    /\ \A b \in Builders : builder[b].at # "idle" =>
          builder[b].gen \in Gens /\ Exists(builder[b].gen)
    /\ \A g \in Gens, b \in Builders : Exists(g) /\ gen[g].lease = b =>
          builder[b].at # "idle" /\ builder[b].gen = g

CoverageOK == \A g \in Gens : Exists(g) => gen[g].covered <= gen[g].through

RetainedGens == {g \in Gens : Exists(g) /\ gen[g].state # "discarded"}
Retained == Cardinality(RetainedGens) <= MaxRetained

DiscardedOK ==
    \A g \in Gens : Exists(g) /\ gen[g].state = "discarded" => \A i \in Items : vec[g][i] = None

ActiveOK ==
    active # None => Exists(active) /\ gen[active].state \notin {"cancelled", "discarded"}

\* Only what exists has vectors, and a report's are of its current text.
VectorsOK ==
    \A g \in Gens, i \in Items : vec[g][i] # None =>
        /\ Exists(g) /\ item[i] = "here"
        /\ kind = "report" => vec[g][i] = version[i]

\* The log has no gap, and no boundary lies beyond its end.
LogOK ==
    kind = "message" =>
        /\ \A i, k \in Items : k < i /\ item[i] # "absent" => item[k] # "absent"
        /\ \A g \in Gens : Exists(g) => \A k \in Items : k <= gen[g].through => item[k] # "absent"

\* The targets of a snapshot are there; a generation of messages has none.
TargetsOK ==
    \A g \in Gens : Exists(g) =>
        /\ \A i \in gen[g].targets : item[i] = "here"
        /\ kind = "message" => gen[g].targets = {}

\* An input that a build's page was read from, and that it has passed.
Passed(b, i) ==
    /\ i > builder[b].after
    /\ i <= builder[b].upto \/ builder[b].complete

\* A page whose lease is still good has every input that it passes.
PagesOK ==
    \A b \in Builders :
        /\ builder[b].at = "commit"
        /\ gen[builder[b].gen].lease = b
        => \A i \in Inputs(builder[b].gen) : Passed(b, i) => builder[b].page[i] # None

\* Behind the cursor, and up to the covered boundary, nothing is missing in
\* what a search can come to read.
CursorOK ==
    \A g \in Gens : Exists(g) => \A i \in Inputs(g) : vec[g][i] = None =>
        /\ kind = "message" /\ active = g => i > gen[g].after /\ i > gen[g].covered
        /\ kind = "report" => gen[g].state # "ready"
        /\ kind = "report" /\ gen[g].state = "building" => i > gen[g].after

IInv ==
    /\ Typed /\ WriterOK /\ ChangesOK /\ LeaseOK
    /\ CoverageOK /\ Retained /\ DiscardedOK /\ ActiveOK
    /\ VectorsOK /\ LogOK /\ TargetsOK /\ PagesOK /\ CursorOK

-----------------------------------------------------------------------------
(* Least and greatest.                                                      *)

\* A non-empty set of naturals has a least element.
LEMMA LeastExists ==
    ASSUME NEW S \in SUBSET Nat, S # {}
    PROVE  \E x \in S : \A y \in S : x <= y
<1> DEFINE R == {ss \in Nat \X Nat : ss[1] < ss[2]}
<1>1. IsWellFoundedOn(R, Nat)
  BY NatLessThanWellFounded, Zenon DEF OpToRel
<1>2. \E x \in S : \A y \in S : ~(<<y, x>> \in R)
  BY <1>1, WFMin
<1>3. PICK x \in S : \A y \in S : ~(<<y, x>> \in R)
  BY <1>2
<1>4. \A y \in S : x <= y
  <2> SUFFICES ASSUME NEW y \in S, ~(x <= y) PROVE FALSE
    OBVIOUS
  <2>1. <<y, x>> \in Nat \X Nat /\ y < x
    OBVIOUS
  <2> QED BY <1>3, <2>1
<1> QED BY <1>4

\* A non-empty set of naturals with a bound has a greatest element, and Max is it.
LEMMA MaxIsGreatest ==
    ASSUME NEW m \in Nat, NEW S \in SUBSET (0 .. m), S # {}
    PROVE  Max(S) \in S /\ \A y \in S : Max(S) >= y
<1> DEFINE T == {m - x : x \in S}
<1>1. T \in SUBSET Nat /\ T # {}
  <2>1. \A x \in S : x \in Int /\ m - x \in Nat
    OBVIOUS
  <2> QED BY <2>1
<1>2. PICK l \in T : \A y \in T : l <= y
  BY <1>1, LeastExists
<1>3. PICK x \in S : l = m - x
  BY <1>2
<1>4. \A y \in S : x >= y
  <2> TAKE y \in S
  <2>1. l <= m - y
    BY <1>2
  <2> QED BY <1>3, <2>1
<1> QED BY <1>4 DEF Max

-----------------------------------------------------------------------------
(* Steps that lose nothing a search may rely on: what becomes of a row.     *)

\* A row keeps its boundary, loses targets at most, and stays where it was,
\* perhaps without its lease; or it stops; or it starts again.
Eases(r, s) ==
    /\ s.through = r.through
    /\ s.covered \in {r.covered, 0} /\ s.after \in {r.after, 0}
    /\ s.targets \subseteq r.targets
    /\ r.state = "discarded" => s.state = "discarded"
    /\ \/ s.state = r.state /\ s.after = r.after /\ s.lease \in {r.lease, None}
       \/ s.state \in {"stale", "cancelled", "discarded"} /\ s.lease = None
       \/ s.state = "building" /\ s.after = 0 /\ s.lease = None

Eased ==
    \A g \in Gens : IF gen[g] = None THEN gen'[g] = None
                    ELSE gen'[g] \in GenState /\ Eases(gen[g], gen'[g])

\* Where a vector goes, no search misses it.
Forgone ==
    \A g \in Gens, i \in Items : vec[g][i] # None =>
        \/ vec'[g][i] = vec[g][i] /\ item'[i] = "here"
                                  /\ (kind = "report" => version'[i] = version[i])
        \/ /\ vec'[g][i] = None
           /\ kind = "message" => active # g \/ item'[i] # "here"
           /\ kind = "report" => gen'[g].state # "ready"
                                 /\ (gen'[g].state = "building" => gen'[g].after = 0)

\* Inputs come in the order of the log, and targets are what is there.
Arrivals ==
    /\ \A i \in Items : item[i] # "absent" => item'[i] # "absent"
    /\ \A i \in Items : item'[i] = "here" => item[i] \in {"here", "absent"}
    /\ kind = "message" => \A i, k \in Items :
          item'[i] # "absent" /\ item[i] = "absent" /\ k < i => item[k] # "absent"
    /\ \A g \in Gens : gen'[g] # None => \A i \in gen'[g].targets : item'[i] = "here"

\* A process goes on with its page, or stops and leaves its leases behind.
Working ==
    \A b \in Builders :
        \/ builder'[b] = builder[b]
        \/ /\ builder'[b].at = "idle"
           /\ \A g \in Gens : gen'[g] # None => gen'[g].lease # b

Waning ==
    /\ kind' = kind /\ active' = active
    /\ Eased /\ Forgone /\ Arrivals /\ Working
    /\ \A i \in Items : writer'[i] \in {None, writer[i]}
    /\ \A g \in Gens, i \in Items : vec[g][i] = None => vec'[g][i] = None
    /\ \A g \in Gens : gen'[g] # None /\ gen'[g].state = "discarded" =>
          gen[g].state = "discarded" \/ \A i \in Items : vec'[g][i] = None
    /\ active # None => gen'[active].state \notin {"cancelled", "discarded"}

\* The rows of generations that exist are typed.
LEMMA Rows ==
    ASSUME Typed, NEW g \in Gens, Exists(g)
    PROVE  /\ gen[g] \in GenState
           /\ gen[g].after \in Nat /\ gen[g].covered \in Nat /\ gen[g].through \in Nat
           /\ gen[g].targets \subseteq Items
<1>1. gen[g] \in GenState
  BY DEF Typed, Exists
<1> QED BY <1>1 DEF GenState

\* What a generation covers, of a step that loses nothing.
LEMMA WaningInputs ==
    ASSUME IInv, Waning, NEW g \in Gens, gen'[g] # None, NEW i \in Inputs(g)'
    PROVE  gen[g] # None /\ i \in Items /\ i \in Inputs(g) /\ item'[i] = "here"
<1>1. gen[g] # None /\ gen'[g] \in GenState /\ Eases(gen[g], gen'[g])
  BY DEF Waning, Eased
<1>2. gen[g] \in GenState /\ gen[g].through \in Nat /\ gen[g].targets \subseteq Items
  BY <1>1, Rows DEF IInv, Exists
<1>3. CASE kind = "message"
  <2>1. i \in Items /\ item'[i] = "here" /\ i <= gen[g].through
    BY <1>1, <1>3 DEF Waning, Inputs, Here, Eases
  <2>2. item[i] # "absent"
    BY <1>1, <1>3, <2>1 DEF IInv, LogOK, Exists
  <2>3. item[i] = "here"
    BY <2>1, <2>2 DEF Waning, Arrivals
  <2> QED BY <1>1, <1>3, <2>1, <2>3 DEF Inputs, Here
<1>4. CASE kind # "message"
  <2>1. i \in gen'[g].targets
    BY <1>4 DEF Inputs, Waning
  <2>2. i \in gen[g].targets
    BY <1>1, <2>1 DEF Eases
  <2>3. item'[i] = "here"
    BY <1>1, <2>1 DEF Waning, Arrivals
  <2> QED BY <1>1, <1>2, <1>4, <2>2, <2>3 DEF Inputs
<1> QED BY <1>3, <1>4

LEMMA WaningKeepsGenerations ==
    ASSUME IInv, Waning
    PROVE  CoverageOK' /\ Retained' /\ DiscardedOK' /\ ActiveOK' /\ TargetsOK'
<1>1. \A g \in Gens : gen'[g] # None =>
        gen[g] # None /\ gen'[g] \in GenState /\ Eases(gen[g], gen'[g])
  BY DEF Waning, Eased
<1>2. CoverageOK'
  <2> SUFFICES ASSUME NEW g \in Gens, gen'[g] # None
               PROVE  gen'[g].covered <= gen'[g].through
    BY DEF CoverageOK, Exists
  <2>1. gen[g].covered <= gen[g].through /\ gen[g].through \in Nat
    BY <1>1, Rows DEF IInv, CoverageOK, Exists
  <2> QED BY <1>1, <2>1 DEF Eases
<1>3. Retained'
  <2>1. RetainedGens' \in SUBSET RetainedGens
    BY <1>1 DEF RetainedGens, Exists, Eases
  <2>2. IsFiniteSet(RetainedGens)
    BY FS_Subset DEF RetainedGens
  <2>3. Cardinality(RetainedGens') <= Cardinality(RetainedGens)
    BY <2>1, <2>2, FS_Subset
  <2>4. Cardinality(RetainedGens) \in Nat /\ Cardinality(RetainedGens') \in Nat
    BY <2>1, <2>2, FS_Subset, FS_CardinalityType
  <2> QED BY <2>3, <2>4 DEF IInv, Retained
<1>4. DiscardedOK'
  BY <1>1 DEF DiscardedOK, Exists, Waning, IInv
<1>5. ActiveOK'
  <2> SUFFICES ASSUME active # None PROVE gen'[active] # None
    BY DEF ActiveOK, Exists, Waning
  <2> QED BY DEF IInv, ActiveOK, Exists, Typed, Waning, Eased
<1>6. TargetsOK'
  BY <1>1 DEF TargetsOK, Exists, Waning, Arrivals, Eases, IInv
<1> QED BY <1>2, <1>3, <1>4, <1>5, <1>6

LEMMA WaningKeepsChanges ==
    ASSUME IInv, Typed', Waning
    PROVE  ChangesOK'
<1> SUFFICES ASSUME NEW i \in Items, writer'[i] # None, NEW g \in writer'[i]
             PROVE  gen'[g] # None
  BY DEF ChangesOK, Exists
<1>1. writer'[i] = writer[i] /\ g \in Gens
  BY DEF Waning, Typed, IInv
<1>2. gen[g] # None
  BY <1>1 DEF ChangesOK, Exists, IInv
<1> QED BY <1>1, <1>2 DEF Waning, Eased

LEMMA WaningKeepsLeases ==
    ASSUME IInv, Waning
    PROVE  LeaseOK'
<1>1. ASSUME NEW b \in Builders, builder'[b].at # "idle"
      PROVE  builder'[b].gen \in Gens /\ gen'[builder'[b].gen] # None
  <2>1. builder'[b] = builder[b]
    BY <1>1 DEF Waning, Working
  <2>2. builder[b].gen \in Gens /\ gen[builder[b].gen] # None
    BY <1>1, <2>1 DEF IInv, LeaseOK, Exists
  <2> QED BY <2>1, <2>2 DEF Waning, Eased
<1>2. ASSUME NEW g \in Gens, NEW b \in Builders, gen'[g] # None, gen'[g].lease = b
      PROVE  builder'[b].at # "idle" /\ builder'[b].gen = g
  <2>1. builder'[b] = builder[b]
    BY <1>2 DEF Waning, Working
  <2>2. gen[g] # None /\ gen[g].lease = b
    BY <1>2 DEF Waning, Eased, Eases
  <2> QED BY <2>1, <2>2 DEF IInv, LeaseOK, Exists
<1> QED BY <1>1, <1>2 DEF LeaseOK, Exists

LEMMA WaningKeepsPages ==
    ASSUME IInv, Waning
    PROVE  PagesOK'
<1> SUFFICES ASSUME NEW b \in Builders, builder'[b].at = "commit",
                    gen'[builder'[b].gen].lease = b,
                    NEW i \in Inputs(builder[b].gen)', Passed(b, i)'
             PROVE  builder'[b].page[i] # None
  BY DEF PagesOK, Waning, Working
<1>1. builder'[b] = builder[b]
  BY WaningKeepsLeases DEF LeaseOK, Exists, Waning, Working
<1>2. PICK g \in Gens : g = builder[b].gen /\ gen[g] # None
  BY <1>1 DEF IInv, LeaseOK, Exists
<1>3. gen'[g] # None /\ Eases(gen[g], gen'[g])
  BY <1>2 DEF Waning, Eased
<1>4. gen[g].lease = b
  BY <1>1, <1>2, <1>3 DEF Eases
<1>5. i \in Inputs(g)
  <2>1. i \in Inputs(g)'
    BY <1>1, <1>2 DEF Inputs
  <2> QED BY <1>3, <2>1, WaningInputs
<1>6. Passed(b, i)
  BY <1>1 DEF Passed
<1> QED BY <1>1, <1>2, <1>4, <1>5, <1>6 DEF IInv, PagesOK

LEMMA WaningKeepsCursors ==
    ASSUME IInv, Waning
    PROVE  CursorOK'
<1> SUFFICES ASSUME NEW g \in Gens, gen'[g] # None, NEW i \in Inputs(g)', vec'[g][i] = None
             PROVE  /\ kind = "message" /\ active = g => i > gen'[g].after /\ i > gen'[g].covered
                    /\ kind = "report" => gen'[g].state # "ready"
                    /\ kind = "report" /\ gen'[g].state = "building" => i > gen'[g].after
  BY DEF CursorOK, Exists, Waning
<1>1. i \in Items /\ i \in Inputs(g) /\ item'[i] = "here" /\ i > 0
  BY WaningInputs DEF Items
<1>2. gen[g] # None /\ gen'[g] \in GenState /\ Eases(gen[g], gen'[g])
  BY DEF Waning, Eased
<1>3. CASE vec[g][i] = None
  <2>1. /\ kind = "message" /\ active = g => i > gen[g].after /\ i > gen[g].covered
        /\ kind = "report" => gen[g].state # "ready"
        /\ kind = "report" /\ gen[g].state = "building" => i > gen[g].after
    BY <1>1, <1>2, <1>3 DEF IInv, CursorOK, Exists
  <2> QED BY <1>1, <1>2, <2>1 DEF Eases
<1>4. CASE vec[g][i] # None
  BY <1>1, <1>4 DEF Waning, Forgone
<1> QED BY <1>3, <1>4

LEMMA WaningKeepsIInv ==
    ASSUME IInv, Typed', WriterOK', Waning
    PROVE  IInv'
<1>1. VectorsOK'
  <2> SUFFICES ASSUME NEW g \in Gens, NEW i \in Items, vec'[g][i] # None
               PROVE  /\ gen'[g] # None /\ item'[i] = "here"
                      /\ kind = "report" => vec'[g][i] = version'[i]
    BY DEF VectorsOK, Exists, Waning
  <2>1. vec[g][i] # None
    BY DEF Waning
  <2>2. gen[g] # None /\ (kind = "report" => vec[g][i] = version[i])
    BY <2>1 DEF IInv, VectorsOK, Exists
  <2>3. gen'[g] # None
    BY <2>2 DEF Waning, Eased
  <2> QED BY <2>1, <2>2, <2>3 DEF Waning, Forgone
<1>2. LogOK'
  <2> SUFFICES ASSUME kind = "message"
               PROVE  /\ \A i, k \in Items : k < i /\ item'[i] # "absent" => item'[k] # "absent"
                      /\ \A g \in Gens : gen'[g] # None =>
                            \A k \in Items : k <= gen'[g].through => item'[k] # "absent"
    BY DEF LogOK, Exists, Waning
  <2>1. \A i, k \in Items : k < i /\ item'[i] # "absent" => item'[k] # "absent"
    BY DEF Waning, Arrivals, IInv, LogOK
  <2>2. ASSUME NEW g \in Gens, gen'[g] # None, NEW k \in Items, k <= gen'[g].through
        PROVE  item'[k] # "absent"
    <3>1. gen[g] # None /\ gen'[g].through = gen[g].through
      BY <2>2 DEF Waning, Eased, Eases
    <3> QED BY <2>2, <3>1 DEF IInv, LogOK, Exists, Waning, Arrivals
  <2> QED BY <2>1, <2>2
<1> QED
  BY <1>1, <1>2, WaningKeepsChanges, WaningKeepsGenerations, WaningKeepsLeases, WaningKeepsPages, WaningKeepsCursors
  DEF IInv

-----------------------------------------------------------------------------
(* What the operators make of a row.                                        *)

LEMMA IncompleteEases ==
    ASSUME NEW r \in GenState
    PROVE  /\ Incomplete(r) \in GenState /\ Eases(r, Incomplete(r))
           /\ Incomplete(r).targets = r.targets
           /\ Incomplete(r).state \in {r.state, "building"}
           /\ kind # "message" /\ r.state = "ready" =>
                 Incomplete(r).state = "building" /\ Incomplete(r).after = 0
           /\ ~(kind # "message" /\ r.state = "ready") => Incomplete(r) = r
<1>1. CASE kind # "message" /\ r.state = "ready"
  <2> DEFINE s == [r EXCEPT !.state = "building", !.after = 0, !.lease = None]
  <2>1. Incomplete(r) = s
    BY <1>1 DEF Incomplete
  <2>2. s \in GenState
    <3>1. 0 \in 0 .. MaxItem
      OBVIOUS
    <3> QED BY <3>1 DEF GenState
  <2>3. /\ s.state = "building" /\ s.after = 0 /\ s.lease = None
        /\ s.targets = r.targets /\ s.covered = r.covered /\ s.through = r.through
    BY DEF GenState
  <2> HIDE DEF s
  <2> QED BY <1>1, <2>1, <2>2, <2>3 DEF Eases
<1>2. CASE ~(kind # "message" /\ r.state = "ready")
  <2>1. Incomplete(r) = r
    BY <1>2 DEF Incomplete
  <2> QED BY <1>2, <2>1 DEF Eases
<1> QED BY <1>1, <1>2

LEMMA StaledEases ==
    ASSUME Typed, NEW g \in Gens
    PROVE  /\ gen[g] = None => Staled[g] = None
           /\ gen[g] # None =>
                /\ Staled[g] \in GenState /\ Eases(gen[g], Staled[g])
                /\ Staled[g].targets = gen[g].targets
                /\ Staled[g].state \in {"stale", "discarded"}
                /\ Staled[g].state = "discarded" <=> gen[g].state = "discarded"
<1>1. CASE gen[g] = None
  BY <1>1 DEF Staled, Exists
<1>2. CASE gen[g] # None /\ gen[g].state = "discarded"
  <2>1. gen[g] \in GenState
    BY <1>2 DEF Typed
  <2>2. Staled[g] = gen[g]
    BY <1>2 DEF Staled
  <2> QED BY <1>2, <2>1, <2>2 DEF Eases
<1>3. CASE gen[g] # None /\ gen[g].state # "discarded"
  <2> DEFINE s == [gen[g] EXCEPT !.state = "stale", !.lease = None]
  <2>1. gen[g] \in GenState
    BY <1>3 DEF Typed
  <2>2. Staled[g] = s
    BY <1>3 DEF Staled, Exists
  <2>3. s \in GenState
    BY <2>1 DEF GenState
  <2>4. /\ s.state = "stale" /\ s.lease = None /\ s.after = gen[g].after
        /\ s.targets = gen[g].targets /\ s.covered = gen[g].covered
        /\ s.through = gen[g].through
    BY <2>1 DEF GenState
  <2> HIDE DEF s
  <2> QED BY <1>3, <2>2, <2>3, <2>4 DEF Eases
<1> QED BY <1>1, <1>2, <1>3

LEMMA UntargetedEases ==
    ASSUME Typed, NEW G, NEW g \in Gens, NEW i \in Items,
           gen[g] = None => G[g] = None,
           gen[g] # None => G[g] \in GenState /\ Eases(gen[g], G[g])
    PROVE  /\ gen[g] = None => Untargeted(G, i)[g] = None
           /\ gen[g] # None =>
                /\ Untargeted(G, i)[g] \in GenState /\ Eases(gen[g], Untargeted(G, i)[g])
                /\ Untargeted(G, i)[g].targets = G[g].targets \ {i}
                /\ Untargeted(G, i)[g].state = G[g].state
                /\ Untargeted(G, i)[g].after = G[g].after
<1>1. CASE gen[g] = None
  BY <1>1 DEF Untargeted
<1>2. CASE gen[g] # None
  <2> DEFINE s == [G[g] EXCEPT !.targets = G[g].targets \ {i}]
  <2>1. G[g] \in GenState /\ G[g] # None
    BY <1>2
  <2>2. Untargeted(G, i)[g] = s
    BY <2>1 DEF Untargeted
  <2>3. s \in GenState
    BY <2>1 DEF GenState
  <2>4. /\ s.state = G[g].state /\ s.lease = G[g].lease /\ s.after = G[g].after
        /\ s.targets = G[g].targets \ {i} /\ s.covered = G[g].covered
        /\ s.through = G[g].through
    BY <2>1 DEF GenState
  <2> HIDE DEF s
  <2> QED BY <1>2, <2>2, <2>3, <2>4 DEF Eases
<1> QED BY <1>1, <1>2

-----------------------------------------------------------------------------
(* The actions.                                                             *)

\* A row of GenState or none, for every generation.
LEMMA EasedIsTyped ==
    ASSUME Typed, Eased, gen' = [g \in Gens |-> gen'[g]]
    PROVE  gen' \in [Gens -> GenState \cup {None}]
BY DEF Eased

LEMMA CreateKeeps ==
    ASSUME IInv, NEW i \in Items, Create(i)
    PROVE  IInv'
<1> USE DEF IInv
<1>0. item'[i] = "here" /\ \A k \in Items : k # i => item'[k] = item[k]
  BY DEF Create, Typed
<1>1. Eased
  BY StaledEases DEF Create, Eased, Typed, Eases
<1>2. ASSUME NEW g \in Gens, gen'[g] # None
      PROVE  /\ gen[g] # None /\ gen'[g].targets = gen[g].targets
             /\ gen'[g].state \in {gen[g].state, "stale"}
  <2>1. CASE kind = "message"
    BY <1>2, <2>1 DEF Create
  <2>2. CASE kind # "message"
    <3>1. gen'[g] = Staled[g]
      BY <2>2 DEF Create
    <3> QED BY <1>2, <3>1, StaledEases
  <2> QED BY <2>1, <2>2
<1>3. Forgone
  BY <1>0 DEF Create, Forgone, VectorsOK
<1>4. Arrivals
  BY <1>0, <1>2 DEF Create, Arrivals, TargetsOK, Exists
<1>5. Working
  BY DEF Create, Working
<1>6. Waning
  <2>1. active # None => gen'[active].state \notin {"cancelled", "discarded"}
    BY <1>1, <1>2 DEF Create, Eased, ActiveOK, Exists, Typed
  <2>2. \A g \in Gens : gen'[g] # None /\ gen'[g].state = "discarded" =>
          gen[g].state = "discarded"
    BY <1>2
  <2>3. kind' = kind /\ active' = active /\ vec' = vec /\ writer' = writer
    BY DEF Create
  <2> QED BY <1>1, <1>3, <1>4, <1>5, <2>1, <2>2, <2>3 DEF Waning
<1>7. Typed'
  <2>1. gen' = [g \in Gens |-> gen'[g]]
    BY DEF Create, Typed, Staled
  <2>2. gen' \in [Gens -> GenState \cup {None}]
    BY <1>1, <2>1, EasedIsTyped
  <2>3. item' \in [Items -> {"absent", "here", "gone"}]
    BY DEF Create, Typed
  <2> QED BY <2>2, <2>3 DEF Create, Typed
<1>8. WriterOK'
  BY DEF WriterOK, Create
<1> QED BY <1>6, <1>7, <1>8, WaningKeepsIInv

LEMMA RemoveKeeps ==
    ASSUME IInv, NEW i \in Items, Remove(i)
    PROVE  IInv'
<1> USE DEF IInv
<1>0. item'[i] = "gone" /\ \A k \in Items : k # i => item'[k] = item[k]
  BY DEF Remove, Typed
<1>1. ASSUME NEW g \in Gens
      PROVE  /\ gen[g] = None => gen'[g] = None
             /\ gen[g] # None =>
                  /\ gen'[g] \in GenState /\ Eases(gen[g], gen'[g])
                  /\ kind # "message" => gen'[g].targets \subseteq gen[g].targets \ {i}
                  /\ gen'[g].state \in {gen[g].state, "stale", "building"}
                  /\ kind = "report" => gen'[g].state \in {"stale", "discarded"}
                  /\ kind = "message" => gen'[g] = gen[g]
  <2>1. CASE kind = "message"
    BY <2>1 DEF Remove, Typed, Eases
  <2>2. CASE kind = "entity"
    <3> DEFINE G == WithoutVectorsOf(i)
    <3>1. gen' = Untargeted(G, i)
      BY <2>2 DEF Remove
    <3>2. gen[g] = None => G[g] = None
      BY DEF WithoutVectorsOf, VectorsOK, Exists
    <3>3. gen[g] # None => /\ G[g] \in GenState /\ Eases(gen[g], G[g])
                           /\ G[g].targets = gen[g].targets
                           /\ G[g].state \in {gen[g].state, "building"}
      <4> SUFFICES ASSUME gen[g] # None
                   PROVE  /\ G[g] \in GenState /\ Eases(gen[g], G[g])
                          /\ G[g].targets = gen[g].targets
                          /\ G[g].state \in {gen[g].state, "building"}
        OBVIOUS
      <4>1. gen[g] \in GenState
        BY DEF Typed
      <4>2. CASE vec[g][i] # None
        BY <4>1, <4>2, IncompleteEases DEF WithoutVectorsOf
      <4>3. CASE vec[g][i] = None
        BY <4>1, <4>3 DEF WithoutVectorsOf, Eases
      <4> QED BY <4>2, <4>3
    <3> HIDE DEF G
    <3> QED BY <2>2, <3>1, <3>2, <3>3, UntargetedEases
  <2>3. CASE kind = "report"
    <3>1. gen' = Untargeted(Staled, i)
      BY <2>3 DEF Remove
    <3> QED BY <2>3, <3>1, StaledEases, UntargetedEases
  <2> QED BY <2>1, <2>2, <2>3 DEF Typed
<1>2. \A g \in Gens, k \in Items :
        vec'[g][k] = IF k = i THEN None ELSE vec[g][k]
  BY DEF Remove, NoVectorOf, Typed, Vectors
<1>3. Eased
  BY <1>1 DEF Eased
<1>4. kind' = kind /\ active' = active /\ version' = version /\ builder' = builder /\ writer' = writer
  BY DEF Remove
<1>5. Forgone
  BY <1>0, <1>1, <1>2, <1>4 DEF Forgone, VectorsOK, Exists
<1>6. Arrivals
  <2>1. ASSUME NEW g \in Gens, gen'[g] # None, NEW k \in gen'[g].targets
        PROVE  item'[k] = "here"
    <3>1. gen[g] # None /\ k \in gen[g].targets
      BY <1>1, <2>1
    <3>2. k \in Items /\ item[k] = "here"
      BY <3>1, Rows DEF TargetsOK, Exists
    <3>3. CASE kind = "message"
      BY <3>1, <3>3 DEF TargetsOK, Exists
    <3>4. CASE kind # "message"
      BY <1>0, <1>1, <2>1, <3>1, <3>2, <3>4
    <3> QED BY <3>3, <3>4
  <2> QED BY <1>0, <2>1 DEF Arrivals, Remove
<1>7. Working
  BY <1>4 DEF Working
<1>8. Waning
  <2>1. active # None => gen'[active].state \notin {"cancelled", "discarded"}
    BY <1>1 DEF ActiveOK, Exists, Typed
  <2>2. \A g \in Gens : gen'[g] # None /\ gen'[g].state = "discarded" =>
          gen[g].state = "discarded"
    BY <1>1
  <2>3. \A g \in Gens, k \in Items : vec[g][k] = None => vec'[g][k] = None
    BY <1>2
  <2> QED BY <1>3, <1>4, <1>5, <1>6, <1>7, <2>1, <2>2, <2>3 DEF Waning
<1>9. Typed'
  <2>1. gen' = [g \in Gens |-> gen'[g]]
    BY DEF Remove, Typed, Untargeted
  <2>2. gen' \in [Gens -> GenState \cup {None}]
    BY <1>3, <2>1, EasedIsTyped
  <2>3. item' \in [Items -> {"absent", "here", "gone"}]
    BY DEF Remove, Typed
  <2>4. vec' \in [Gens -> Vectors]
    BY DEF Remove, NoVectorOf, Typed, Vectors
  <2> QED BY <2>2, <2>3, <2>4 DEF Remove, Typed
<1>10. WriterOK'
  BY DEF WriterOK, Remove
<1> QED BY <1>8, <1>9, <1>10, WaningKeepsIInv

LEMMA ChangeReportKeeps ==
    ASSUME IInv, NEW i \in Items, ChangeReport(i)
    PROVE  IInv'
<1> USE DEF IInv
<1>1. Eased
  BY StaledEases DEF ChangeReport, Eased
<1>2. ASSUME NEW g \in Gens, gen'[g] # None
      PROVE  /\ gen[g] # None /\ gen'[g].targets = gen[g].targets
             /\ gen'[g].state \in {"stale", "discarded"}
             /\ gen'[g].state = "discarded" <=> gen[g].state = "discarded"
  <2>1. gen'[g] = Staled[g]
    BY DEF ChangeReport
  <2> QED BY <1>2, <2>1, StaledEases
<1>3. \A g \in Gens, k \in Items :
        vec'[g][k] = IF k = i THEN None ELSE vec[g][k]
  BY DEF ChangeReport, NoVectorOf, Typed, Vectors
<1>4. kind' = kind /\ active' = active /\ item' = item /\ builder' = builder /\ writer' = writer
      /\ kind = "report"
  BY DEF ChangeReport
<1>5. \A k \in Items : k # i => version'[k] = version[k]
  BY DEF ChangeReport, Typed
<1>6. Forgone
  <2>1. \A g \in Gens : gen[g] # None => gen'[g] # None
    BY <1>1 DEF Eased, Typed
  <2> QED BY <1>2, <1>3, <1>4, <1>5, <2>1 DEF Forgone, VectorsOK, Exists
<1>7. Arrivals
  BY <1>2, <1>4 DEF Arrivals, TargetsOK, Exists, Typed
<1>8. Working
  BY <1>4 DEF Working
<1>9. Waning
  <2>1. active # None => gen'[active].state \notin {"cancelled", "discarded"}
    <3>1. active # None => gen'[active] # None /\ active \in Gens
      BY <1>1 DEF ActiveOK, Eased, Exists, Typed
    <3> QED BY <1>2, <3>1 DEF ActiveOK, Exists
  <2>2. \A g \in Gens : gen'[g] # None /\ gen'[g].state = "discarded" =>
          gen[g].state = "discarded"
    BY <1>2
  <2>3. \A g \in Gens, k \in Items : vec[g][k] = None => vec'[g][k] = None
    BY <1>3
  <2> QED BY <1>1, <1>4, <1>6, <1>7, <1>8, <2>1, <2>2, <2>3 DEF Waning
<1>10. Typed'
  <2>1. gen' = [g \in Gens |-> gen'[g]]
    BY DEF ChangeReport, Staled
  <2>2. gen' \in [Gens -> GenState \cup {None}]
    BY <1>1, <2>1, EasedIsTyped
  <2>3. version' \in [Items -> 0 .. MaxVersion]
    <3>1. version[i] + 1 \in 0 .. MaxVersion
      BY DEF ChangeReport, Typed
    <3> QED BY <3>1 DEF ChangeReport, Typed
  <2>4. vec' \in [Gens -> Vectors]
    BY DEF ChangeReport, NoVectorOf, Typed, Vectors
  <2> QED BY <2>2, <2>3, <2>4 DEF ChangeReport, Typed
<1>11. WriterOK'
  BY DEF WriterOK, ChangeReport
<1> QED BY <1>9, <1>10, <1>11, WaningKeepsIInv

\* A row that does not change eases.
LEMMA SameEases == ASSUME NEW r \in GenState PROVE Eases(r, r)
BY DEF Eases

LEMMA BeginChangeKeeps ==
    ASSUME IInv, NEW i \in Items, BeginChange(i)
    PROVE  IInv'
<1> USE DEF IInv
<1>1. kind' = kind /\ active' = active /\ item' = item /\ gen' = gen /\ vec' = vec
      /\ builder' = builder /\ version' = version
  BY DEF BeginChange
<1>2. Typed'
  BY DEF BeginChange, Typed
<1>3. WriterOK'
  BY DEF BeginChange, WriterOK, Typed
<1>4. ChangesOK'
  BY DEF BeginChange, ChangesOK, VectorsOK, Exists, Typed
<1>5. LeaseOK' /\ CoverageOK' /\ Retained' /\ DiscardedOK' /\ ActiveOK'
  BY <1>1 DEF LeaseOK, CoverageOK, Retained, RetainedGens, DiscardedOK, ActiveOK, Exists
<1>6. VectorsOK' /\ LogOK' /\ TargetsOK'
  BY <1>1 DEF VectorsOK, LogOK, TargetsOK, Exists
<1>7. PagesOK' /\ CursorOK'
  BY <1>1 DEF PagesOK, CursorOK, Passed, Inputs, Here, Exists
<1> QED BY <1>2, <1>3, <1>4, <1>5, <1>6, <1>7

LEMMA CommitChangeKeeps ==
    ASSUME IInv, NEW i \in Items, CommitChange(i)
    PROVE  IInv'
<1> USE DEF IInv
<1>0. kind = "entity" /\ writer[i] \subseteq Gens /\ writer[i] # None
  BY DEF CommitChange, WriterOK, Typed
<1>1. ASSUME NEW g \in Gens
      PROVE  /\ gen[g] = None => gen'[g] = None
             /\ gen[g] # None =>
                  /\ gen'[g] \in GenState /\ Eases(gen[g], gen'[g])
                  /\ gen'[g].targets = gen[g].targets
                  /\ gen'[g].state \in {gen[g].state, "building"}
  <2>1. CASE gen[g] = None
    <3>1. g \notin writer[i]
      BY <1>0, <2>1 DEF ChangesOK, Exists
    <3> QED BY <2>1, <3>1 DEF CommitChange
  <2>2. CASE gen[g] # None
    <3>1. gen[g] \in GenState
      BY <2>2 DEF Typed
    <3>2. gen'[g] = Incomplete(gen[g]) \/ gen'[g] = gen[g]
      BY DEF CommitChange
    <3> QED BY <2>2, <3>1, <3>2, IncompleteEases, SameEases
  <2> QED BY <2>1, <2>2
<1>2. \A g \in Gens, k \in Items :
        vec'[g][k] = IF k = i /\ g \in writer[i] THEN None ELSE vec[g][k]
  BY DEF CommitChange, Typed, Vectors
<1>3. Eased
  BY <1>1 DEF Eased
<1>4. kind' = kind /\ active' = active /\ item' = item /\ builder' = builder
      /\ writer' = [writer EXCEPT ![i] = None]
  BY DEF CommitChange
<1>5. Forgone
  BY <1>0, <1>1, <1>2, <1>4 DEF Forgone, VectorsOK, Exists
<1>6. Arrivals
  BY <1>1, <1>4 DEF Arrivals, TargetsOK, Exists, Typed
<1>7. Working
  BY <1>4 DEF Working
<1>8. Waning
  <2>1. active # None => gen'[active].state \notin {"cancelled", "discarded"}
    BY <1>1 DEF ActiveOK, Exists, Typed
  <2>2. \A g \in Gens : gen'[g] # None /\ gen'[g].state = "discarded" =>
          gen[g].state = "discarded"
    BY <1>1
  <2>3. \A g \in Gens, k \in Items : vec[g][k] = None => vec'[g][k] = None
    BY <1>2
  <2>4. \A k \in Items : writer'[k] \in {None, writer[k]}
    BY <1>4 DEF Typed
  <2> QED BY <1>3, <1>4, <1>5, <1>6, <1>7, <2>1, <2>2, <2>3, <2>4 DEF Waning
<1>9. Typed'
  <2>1. gen' = [g \in Gens |-> gen'[g]]
    BY DEF CommitChange
  <2>2. gen' \in [Gens -> GenState \cup {None}]
    BY <1>3, <2>1, EasedIsTyped
  <2>3. version' \in [Items -> 0 .. MaxVersion]
    <3>1. version[i] + 1 \in 0 .. MaxVersion
      BY <1>0 DEF WriterOK, Typed
    <3> QED BY <3>1 DEF CommitChange, Typed
  <2>4. vec' \in [Gens -> Vectors]
    BY DEF CommitChange, Typed, Vectors
  <2>5. writer' \in [Items -> {None} \cup (SUBSET Gens)]
    BY DEF CommitChange, Typed
  <2> QED BY <2>2, <2>3, <2>4, <2>5 DEF CommitChange, Typed
<1>10. WriterOK'
  BY DEF WriterOK, CommitChange, Typed
<1> QED BY <1>8, <1>9, <1>10, WaningKeepsIInv

\* One row changes to what eases it, and at most its vectors go.
RowWanes(g, s) ==
    /\ s \in GenState /\ gen[g] # None /\ Eases(gen[g], s)
    /\ gen' = [gen EXCEPT ![g] = s]
    /\ active # g \/ s.state \notin {"cancelled", "discarded"}
    /\ \A h \in Gens, i \in Items : vec'[h][i] = vec[h][i] \/ (h = g /\ vec'[h][i] = None)
    /\ \A i \in Items : vec'[g][i] # vec[g][i] =>
          /\ active # g
          /\ kind # "message" => s.state # "ready" /\ (s.state = "building" => s.after = 0)
    /\ s.state = "discarded" => gen[g].state = "discarded" \/ \A i \in Items : vec'[g][i] = None
    /\ UNCHANGED <<kind, item, version, active, builder, writer>>

LEMMA OneRowWanes ==
    ASSUME IInv, NEW g \in Gens, NEW s, RowWanes(g, s)
    PROVE  Waning
<1> USE DEF IInv, RowWanes
<1>1. ASSUME NEW h \in Gens
      PROVE  /\ h = g => gen'[h] = s
             /\ h # g => gen'[h] = gen[h]
             /\ gen[h] = None => gen'[h] = None
             /\ gen[h] # None => gen'[h] \in GenState /\ Eases(gen[h], gen'[h])
  BY SameEases DEF Typed
<1>2. Eased
  BY <1>1 DEF Eased
<1>3. Forgone
  BY <1>1 DEF Forgone, VectorsOK, Exists
<1>4. Arrivals
  BY <1>1 DEF Arrivals, TargetsOK, Exists, Typed, Eases
<1>5. Working
  BY DEF Working
<1>6. active # None => gen'[active].state \notin {"cancelled", "discarded"}
  BY <1>1 DEF ActiveOK, Exists, Typed
<1>7. \A h \in Gens : gen'[h] # None /\ gen'[h].state = "discarded" =>
          gen[h].state = "discarded" \/ \A i \in Items : vec'[h][i] = None
  BY <1>1
<1> QED BY <1>2, <1>3, <1>4, <1>5, <1>6, <1>7 DEF Waning

LEMMA OneRowIsTyped ==
    ASSUME Typed, NEW g \in Gens, NEW s \in GenState, gen' = [gen EXCEPT ![g] = s]
    PROVE  gen' \in [Gens -> GenState \cup {None}]
BY DEF Typed

LEMMA CancelKeeps ==
    ASSUME IInv, NEW g \in Gens, Cancel(g)
    PROVE  IInv'
<1> DEFINE s == [gen[g] EXCEPT !.state = "cancelled", !.lease = None]
<1>1. gen[g] # None /\ gen[g] \in GenState
  BY DEF Cancel, Exists, IInv, Typed
<1>2. gen' = [gen EXCEPT ![g] = s]
  BY DEF Cancel
<1>3. s \in GenState /\ Eases(gen[g], s) /\ s.state = "cancelled"
  <2>1. s \in GenState
    BY <1>1 DEF GenState
  <2>2. /\ s.state = "cancelled" /\ s.lease = None /\ s.after = gen[g].after
        /\ s.targets = gen[g].targets /\ s.covered = gen[g].covered
        /\ s.through = gen[g].through
    BY <1>1 DEF GenState
  <2>3. gen[g].state # "discarded"
    BY DEF Cancel
  <2> HIDE DEF s
  <2> QED BY <2>1, <2>2, <2>3 DEF Eases
<1> HIDE DEF s
<1>4. Waning
  BY <1>1, <1>2, <1>3, OneRowWanes DEF Cancel, RowWanes
<1>5. Typed'
  BY <1>2, <1>3, OneRowIsTyped DEF Cancel, IInv, Typed
<1>6. WriterOK'
  BY DEF Cancel, IInv, WriterOK
<1> QED BY <1>4, <1>5, <1>6, WaningKeepsIInv

LEMMA RepairKeeps ==
    ASSUME IInv, NEW g \in Gens, Repair(g)
    PROVE  IInv'
<1> DEFINE s == Reset(gen[g])
<1>1. gen[g] # None /\ gen[g] \in GenState
  BY DEF Repair, Exists, IInv, Typed
<1>2. gen' = [gen EXCEPT ![g] = s]
  BY DEF Repair
<1>3. s \in GenState /\ Eases(gen[g], s) /\ s.state = "building"
  <2>0. 0 \in 0 .. MaxItem
    OBVIOUS
  <2>1. s \in GenState
    BY <1>1, <2>0 DEF GenState, Reset
  <2>2. /\ s.state = "building" /\ s.lease = None /\ s.after = 0
        /\ s.targets = gen[g].targets /\ s.covered = 0
        /\ s.through = gen[g].through
    BY <1>1 DEF GenState, Reset
  <2>3. gen[g].state # "discarded"
    BY DEF Repair
  <2> HIDE DEF s
  <2> QED BY <2>1, <2>2, <2>3 DEF Eases
<1> HIDE DEF s
<1>4. Waning
  BY <1>1, <1>2, <1>3, OneRowWanes DEF Repair, RowWanes
<1>5. Typed'
  BY <1>2, <1>3, OneRowIsTyped DEF Repair, IInv, Typed
<1>6. WriterOK'
  BY DEF Repair, IInv, WriterOK
<1> QED BY <1>4, <1>5, <1>6, WaningKeepsIInv

LEMMA PruneKeeps ==
    ASSUME IInv, NEW g \in Gens, Prune(g)
    PROVE  IInv'
<1> USE DEF IInv
<1> DEFINE left == IF FirstPage(g) = {} THEN gen[g] ELSE Incomplete(gen[g])
           s == IF Emptied(g) THEN [left EXCEPT !.state = "discarded", !.lease = None] ELSE left
<1>1. /\ gen[g] # None /\ gen[g] \in GenState
      /\ active # g /\ gen[g].state \notin {"building", "discarded"}
  BY DEF Prune, Prunable, Exists, Typed
<1>2. gen' = [gen EXCEPT ![g] = s]
  BY DEF Prune
<1>3. /\ left \in GenState /\ Eases(gen[g], left) /\ left.state # "discarded"
      /\ kind # "message" /\ FirstPage(g) # {} =>
            left.state # "ready" /\ (left.state = "building" => left.after = 0)
  BY <1>1, IncompleteEases, SameEases
<1>4. /\ s \in GenState /\ Eases(gen[g], s)
      /\ s.state = "discarded" => Emptied(g)
      /\ kind # "message" /\ FirstPage(g) # {} =>
            s.state # "ready" /\ (s.state = "building" => s.after = 0)
  <2>1. CASE Emptied(g)
    <3> DEFINE d == [left EXCEPT !.state = "discarded", !.lease = None]
    <3>1. d \in GenState
      BY <1>3 DEF GenState
    <3>2. /\ d.state = "discarded" /\ d.lease = None /\ d.after = left.after
          /\ d.targets = left.targets /\ d.covered = left.covered /\ d.through = left.through
      BY <1>3 DEF GenState
    <3>3. s = d
      BY <2>1
    <3> HIDE DEF s, d, left
    <3>4. Eases(gen[g], d)
      BY <1>1, <1>3, <3>2 DEF Eases
    <3> QED BY <2>1, <3>1, <3>2, <3>3, <3>4
  <2>2. CASE ~Emptied(g)
    <3>1. s = left
      BY <2>2
    <3> HIDE DEF s, left
    <3> QED BY <1>3, <3>1
  <2> QED BY <2>1, <2>2
<1> HIDE DEF s, left
<1>5. \A h \in Gens, i \in Items :
        vec'[h][i] = IF h = g /\ i \in FirstPage(g) THEN None ELSE vec[h][i]
  BY DEF Prune, Typed, Vectors
<1>6. Emptied(g) => \A i \in Items : vec'[g][i] = None
  BY <1>5 DEF Emptied, Stored
<1>7. Waning
  <2>1. UNCHANGED <<kind, item, version, active, builder, writer>>
    BY DEF Prune
  <2>2. RowWanes(g, s)
    BY <1>1, <1>2, <1>4, <1>5, <1>6, <2>1 DEF RowWanes
  <2> HIDE DEF IInv
  <2> QED BY <2>2, OneRowWanes
<1>8. Typed'
  <2>1. vec' \in [Gens -> Vectors]
    BY DEF Prune, Typed, Vectors
  <2>2. gen' \in [Gens -> GenState \cup {None}]
    BY <1>2, <1>4, OneRowIsTyped
  <2> QED BY <2>1, <2>2 DEF Prune, Typed
<1>9. WriterOK'
  BY DEF Prune, WriterOK
<1> QED BY <1>7, <1>8, <1>9, WaningKeepsIInv

\* A process that stops has left its leases.
LEMMA StoppingKeeps ==
    ASSUME IInv, NEW b \in Builders, gen' = Unleased(b), Stop(b),
           UNCHANGED <<kind, item, version, active, vec, writer>>
    PROVE  IInv'
<1> USE DEF IInv
<1>1. ASSUME NEW g \in Gens
      PROVE  /\ gen[g] = None => gen'[g] = None
             /\ gen[g] # None =>
                  /\ gen'[g] \in GenState /\ Eases(gen[g], gen'[g]) /\ gen'[g].lease # b
                  /\ gen'[g].targets = gen[g].targets /\ gen'[g].state = gen[g].state
  <2>1. CASE gen[g] # None /\ gen[g].lease = b
    <3> DEFINE s == [gen[g] EXCEPT !.lease = None]
    <3>1. gen[g] \in GenState
      BY <2>1 DEF Typed
    <3>2. s \in GenState
      BY <3>1 DEF GenState
    <3>3. /\ s.state = gen[g].state /\ s.lease = None /\ s.after = gen[g].after
          /\ s.targets = gen[g].targets /\ s.covered = gen[g].covered
          /\ s.through = gen[g].through
      BY <3>1 DEF GenState
    <3>4. gen'[g] = s
      BY <2>1 DEF Unleased, Exists
    <3> HIDE DEF s
    <3> QED BY <2>1, <3>1, <3>2, <3>3, <3>4 DEF Eases
  <2>2. CASE ~(gen[g] # None /\ gen[g].lease = b)
    <3>1. gen'[g] = gen[g]
      BY <2>2 DEF Unleased, Exists
    <3> QED BY <2>2, <3>1, SameEases DEF Typed
  <2> QED BY <2>1, <2>2
<1>2. Eased
  BY <1>1 DEF Eased
<1>3. Forgone
  BY DEF Forgone, VectorsOK
<1>4. Arrivals
  BY <1>1 DEF Arrivals, TargetsOK, Exists, Typed
<1>5. /\ builder' \in [Builders -> Process]
      /\ \A c \in Builders : c # b => builder'[c] = builder[c]
      /\ builder'[b].at = "idle"
  <2>1. Idle \in Process
    <3>1. NoVector \in Vectors
      BY DEF NoVector, Vectors
    <3>2. 0 \in 0 .. MaxItem
      OBVIOUS
    <3> QED BY <3>1, <3>2 DEF Idle, Process
  <2>2. Idle.at = "idle"
    BY DEF Idle
  <2> QED BY <2>1, <2>2 DEF Stop, Typed
<1>6. Working
  <2>1. \A g \in Gens : gen'[g] # None => gen'[g].lease # b
    BY <1>1
  <2> QED BY <1>5, <2>1 DEF Working
<1>7. Waning
  <2>1. active # None => gen'[active].state \notin {"cancelled", "discarded"}
    BY <1>1 DEF ActiveOK, Exists, Typed
  <2>2. \A g \in Gens : gen'[g] # None /\ gen'[g].state = "discarded" =>
          gen[g].state = "discarded"
    BY <1>1
  <2> QED BY <1>2, <1>3, <1>4, <1>6, <2>1, <2>2 DEF Waning
<1>8. Typed'
  <2>1. gen' = [g \in Gens |-> gen'[g]]
    BY DEF Unleased
  <2>2. gen' \in [Gens -> GenState \cup {None}]
    BY <1>2, <2>1, EasedIsTyped
  <2>3. holder' \in [Gens -> Builders \cup {None}]
    BY DEF Stop, Typed
  <2> QED BY <1>5, <2>2, <2>3 DEF Typed
<1>9. WriterOK'
  BY DEF WriterOK
<1> QED BY <1>7, <1>8, <1>9, WaningKeepsIInv

LEMMA RefuseKeeps == ASSUME IInv, NEW b \in Builders, Refuse(b) PROVE IInv'
BY StoppingKeeps DEF Refuse

LEMMA FailKeeps == ASSUME IInv, NEW b \in Builders, Fail(b) PROVE IInv'
BY StoppingKeeps DEF Fail

\* Steps of the locks alone.
LEMMA StillKeeps ==
    ASSUME IInv, UNCHANGED <<kind, item, version, gen, active, vec, builder, writer>>,
           holder' \in [Gens -> Builders \cup {None}]
    PROVE  IInv'
<1> USE DEF IInv
<1>1. Typed' /\ WriterOK' /\ ChangesOK'
  BY DEF Typed, WriterOK, ChangesOK, Exists
<1>2. LeaseOK' /\ CoverageOK' /\ Retained' /\ DiscardedOK' /\ ActiveOK'
  BY DEF LeaseOK, CoverageOK, Retained, RetainedGens, DiscardedOK, ActiveOK, Exists
<1>3. VectorsOK' /\ LogOK' /\ TargetsOK'
  BY DEF VectorsOK, LogOK, TargetsOK, Exists
<1>4. PagesOK' /\ CursorOK'
  BY DEF PagesOK, CursorOK, Passed, Inputs, Here, Exists
<1> QED BY <1>1, <1>2, <1>3, <1>4

LEMMA DisconnectKeeps == ASSUME IInv, NEW b \in Builders, Disconnect(b) PROVE IInv'
<1>1. holder' \in [Gens -> Builders \cup {None}]
  BY DEF Disconnect, IInv, Typed
<1> QED BY <1>1, StillKeeps DEF Disconnect

LEMMA ActivateKeeps == ASSUME IInv, NEW g \in Gens, Activate(g) PROVE IInv'
<1> USE DEF IInv
<1>1. active' = g /\ UNCHANGED <<kind, item, version, gen, vec, holder, builder, writer>>
  BY DEF Activate
<1>2. Typed' /\ WriterOK' /\ ChangesOK'
  BY <1>1 DEF Typed, WriterOK, ChangesOK, Exists
<1>3. LeaseOK' /\ CoverageOK' /\ Retained' /\ DiscardedOK' /\ ActiveOK'
  BY <1>1 DEF LeaseOK, CoverageOK, Retained, RetainedGens, DiscardedOK, ActiveOK, Exists, Activate
<1>4. VectorsOK' /\ LogOK' /\ TargetsOK' /\ PagesOK'
  BY <1>1 DEF VectorsOK, LogOK, TargetsOK, PagesOK, Passed, Inputs, Here, Exists
<1>5. CursorOK'
  <2>1. \A h \in Gens : Inputs(h)' = Inputs(h)
    BY <1>1 DEF Inputs, Here
  <2>2. \A i \in Inputs(g) : vec[g][i] # None
    BY DEF Activate, NothingMissing
  <2>3. \A h \in Gens : h # g => active' # h
    BY <1>1
  <2> QED BY <1>1, <2>1, <2>2, <2>3 DEF CursorOK, Exists
<1> QED BY <1>2, <1>3, <1>4, <1>5

-----------------------------------------------------------------------------
(* Pages.                                                                   *)

LEMMA ItemsAreFinite == IsFiniteSet(Items) /\ \A S \in SUBSET Items : IsFiniteSet(S)
<1>1. IsFiniteSet(1 .. MaxItem)
  <2>1. 1 \in Int /\ MaxItem \in Int
    OBVIOUS
  <2> QED BY <2>1, FS_Interval
<1>2. IsFiniteSet(Items)
  BY <1>1 DEF Items
<1> QED BY <1>2, FS_Subset

LEMMA AheadIsTyped ==
    ASSUME Typed, LeaseOK, NEW b \in Builders, builder[b].at # "idle"
    PROVE  Ahead(b) \subseteq Items
<1>1. builder[b].gen \in Gens /\ Exists(builder[b].gen)
  BY DEF LeaseOK
<1>2. gen[builder[b].gen].targets \subseteq Items
  BY <1>1, Rows
<1> QED BY <1>2 DEF Ahead, Inputs, Here

\* Whatever is ahead and not beyond an input of the page is in the page.
LEMMA PageIsFirst ==
    ASSUME Typed, LeaseOK, NEW b \in Builders, builder[b].at # "idle",
           NEW i \in Ahead(b), NEW j \in PageOf(b), i <= j
    PROVE  i \in PageOf(b)
<1> DEFINE Below(n) == {k \in Ahead(b) : k < n}
<1>1. Ahead(b) \subseteq Items
  BY AheadIsTyped
<1>2. Below(i) \in SUBSET Below(j) /\ Below(j) \in SUBSET Items
  BY <1>1 DEF PageOf, Items
<1>3. IsFiniteSet(Below(j))
  BY <1>2, ItemsAreFinite
<1>4. /\ Cardinality(Below(i)) <= Cardinality(Below(j))
      /\ Cardinality(Below(i)) \in Nat /\ Cardinality(Below(j)) \in Nat
  BY <1>2, <1>3, FS_Subset, FS_CardinalityType
<1>5. Cardinality(Below(j)) < PageLimit
  BY DEF PageOf
<1>6. Cardinality(Below(i)) < PageLimit
  BY <1>4, <1>5
<1> QED BY <1>6 DEF PageOf

LEMMA PageUpTo ==
    ASSUME Typed, LeaseOK, NEW b \in Builders, builder[b].at # "idle"
    PROVE  LET upto == Max(PageOf(b) \cup {builder[b].after}) IN
           /\ upto \in 0 .. MaxItem
           /\ \A i \in Ahead(b) : i <= upto => i \in PageOf(b)
<1> DEFINE S == PageOf(b) \cup {builder[b].after}
           upto == Max(S)
<1>1. builder[b].after \in 0 .. MaxItem
  BY DEF Typed, Process
<1>2. Ahead(b) \subseteq Items /\ PageOf(b) \subseteq Ahead(b)
  BY AheadIsTyped DEF PageOf
<1>3. S \in SUBSET (0 .. MaxItem) /\ S # {}
  BY <1>1, <1>2 DEF Items
<1>4. upto \in S /\ \A y \in S : upto >= y
  BY <1>3, MaxIsGreatest
<1>5. ASSUME NEW i \in Ahead(b), i <= upto PROVE i \in PageOf(b)
  <2>1. i > builder[b].after /\ i \in Nat
    BY <1>2 DEF Ahead, Items
  <2>2. upto \in Nat
    BY <1>3, <1>4
  <2>3. upto # builder[b].after
    BY <1>1, <1>5, <2>1, <2>2
  <2>4. upto \in PageOf(b)
    BY <1>4, <2>3
  <2> HIDE DEF upto, S
  <2> QED BY <1>5, <2>4, PageIsFirst
<1> QED BY <1>3, <1>4, <1>5

LEMMA ReadKeeps == ASSUME IInv, NEW b \in Builders, Read(b) PROVE IInv'
<1> USE DEF IInv
<1> DEFINE upto == Max(PageOf(b) \cup {builder[b].after})
           page == [i \in Items |-> IF i \in PageOf(b) THEN version[i] ELSE None]
           full == (PageOf(b) = Ahead(b))
<1>1. UNCHANGED <<kind, item, version, gen, active, vec, holder, writer>> /\ builder[b].at = "read"
  BY DEF Read
<1>2. /\ upto \in 0 .. MaxItem
      /\ \A i \in Ahead(b) : i <= upto => i \in PageOf(b)
  BY <1>1, PageUpTo
<1>3. page \in Vectors
  BY DEF Vectors, Typed
<1>4. /\ builder' \in [Builders -> Process]
      /\ \A c \in Builders : c # b => builder'[c] = builder[c]
      /\ builder'[b].at = "commit" /\ builder'[b].gen = builder[b].gen
      /\ builder'[b].after = builder[b].after /\ builder'[b].page = page
      /\ builder'[b].upto = upto /\ builder'[b].complete = full
  <2> DEFINE w == [builder[b] EXCEPT !.at = "commit", !.page = page, !.upto = upto,
                                     !.complete = full]
  <2>1. builder' = [builder EXCEPT ![b] = w]
    BY DEF Read
  <2>2. builder[b] \in Process /\ full \in BOOLEAN
    BY DEF Typed
  <2> HIDE DEF upto, page, full
  <2>3. w \in Process
    BY <1>2, <1>3, <2>2 DEF Process
  <2>4. /\ w.at = "commit" /\ w.gen = builder[b].gen /\ w.after = builder[b].after
        /\ w.page = page /\ w.upto = upto /\ w.complete = full
    BY <2>2 DEF Process
  <2> HIDE DEF w
  <2> QED BY <2>1, <2>3, <2>4 DEF Typed
<1> HIDE DEF upto, page, full
<1>5. Typed' /\ WriterOK' /\ ChangesOK'
  BY <1>1, <1>4 DEF Typed, WriterOK, ChangesOK, Exists
<1>6. LeaseOK' /\ CoverageOK' /\ Retained' /\ DiscardedOK' /\ ActiveOK'
  BY <1>1, <1>4 DEF LeaseOK, CoverageOK, Retained, RetainedGens, DiscardedOK, ActiveOK, Exists
<1>7. VectorsOK' /\ LogOK' /\ TargetsOK' /\ CursorOK'
  BY <1>1 DEF VectorsOK, LogOK, TargetsOK, CursorOK, Inputs, Here, Exists
<1>8. PagesOK'
  <2> SUFFICES ASSUME NEW c \in Builders, builder'[c].at = "commit",
                      gen'[builder'[c].gen].lease = c,
                      NEW i \in Inputs(builder[c].gen)', Passed(c, i)'
               PROVE  builder'[c].page[i] # None
    BY DEF PagesOK
  <2>1. builder'[c].gen = builder[c].gen
    BY <1>4
  <2>2. i \in Inputs(builder[c].gen)
    BY <1>1, <2>1 DEF Inputs, Here
  <2>3. CASE c # b
    BY <1>1, <1>4, <2>2, <2>3 DEF PagesOK, Passed
  <2>4. CASE c = b
    <3>1. i \in Ahead(b)
      BY <1>4, <2>2, <2>4 DEF Ahead, Passed
    <3>2. i \in PageOf(b)
      BY <1>2, <1>4, <2>4, <3>1 DEF Passed, full
    <3>3. i \in Items
      BY <1>1, <3>1, AheadIsTyped
    <3> QED BY <1>4, <2>4, <3>2, <3>3 DEF page, Typed
  <2> QED BY <2>3, <2>4
<1> QED BY <1>5, <1>6, <1>7, <1>8

-----------------------------------------------------------------------------
(* New generations, boundaries and leases.                                  *)

\* The end of the log lies within it.
LEMMA LogEndIsReached ==
    ASSUME Typed, LogOK, kind = "message"
    PROVE  LogEnd \in 0 .. MaxItem /\ \A k \in Items : k <= LogEnd => item[k] # "absent"
<1>1. ({0} \cup Here) \in SUBSET (0 .. MaxItem) /\ ({0} \cup Here) # {}
  BY DEF Here, Items
<1>2. LogEnd \in {0} \cup Here
  BY <1>1, MaxIsGreatest DEF LogEnd
<1>3. ASSUME NEW k \in Items, k <= LogEnd PROVE item[k] # "absent"
  <2>1. LogEnd \in Here
    BY <1>2, <1>3 DEF Items
  <2>2. k = LogEnd \/ k < LogEnd
    BY <1>3, <2>1 DEF Items, Here
  <2> QED BY <2>1, <2>2 DEF LogOK, Here
<1> QED BY <1>1, <1>2, <1>3

\* As many turns as there have ever been are the first of the log.
LEMMA LogHeadIsReached ==
    ASSUME Typed, LogOK, kind = "message"
    PROVE  LogHead \in 0 .. MaxItem /\ \A k \in Items : k <= LogHead => item[k] # "absent"
<1> DEFINE S == {i \in Items : item[i] # "absent"}
<1>1. CASE S = {}
  BY <1>1, FS_EmptySet DEF LogHead, Items
<1>2. CASE S # {}
  <2>1. S \in SUBSET (0 .. MaxItem)
    BY DEF Items
  <2>2. PICK m \in S : \A y \in S : m >= y
    BY <1>2, <2>1, MaxIsGreatest
  <2>3. m \in Items /\ item[m] # "absent"
    BY <2>2
  <2>4. S = 1 .. m
    <3>1. \A i \in S : i \in 1 .. m
      BY <2>2, <2>3 DEF Items
    <3>2. \A i \in 1 .. m : i \in S
      BY <2>3 DEF LogOK, Items
    <3> QED BY <3>1, <3>2
  <2>5. Cardinality(1 .. m) = m
    <3>1. 1 \in Int /\ m \in Int /\ m >= 1
      BY <2>3 DEF Items
    <3> QED BY <3>1, FS_Interval
  <2>6. LogHead = m
    BY <2>4, <2>5 DEF LogHead
  <2> QED BY <2>3, <2>6 DEF LogOK, Items
<1> QED BY <1>1, <1>2

LEMMA StartKeeps == ASSUME IInv, NEW g \in Gens, Start(g) PROVE IInv'
<1> USE DEF IInv
<1> DEFINE s == [state |-> "building", after |-> 0, lease |-> None, covered |-> 0,
                 through |-> IF kind = "message" THEN LogEnd ELSE 0,
                 targets |-> IF kind = "message" THEN {} ELSE Here]
<1>1. /\ gen[g] = None
      /\ UNCHANGED <<kind, item, version, active, vec, holder, builder, writer>>
  BY DEF Start, Exists
<1>2. /\ s.state = "building" /\ s.after = 0 /\ s.lease = None /\ s.covered = 0
      /\ s.through = IF kind = "message" THEN LogEnd ELSE 0
      /\ s.targets = IF kind = "message" THEN {} ELSE Here
  OBVIOUS
<1>3. s \in GenState
  <2>1. s.through \in 0 .. MaxItem
    BY LogEndIsReached
  <2>2. s.targets \in SUBSET Items /\ 0 \in 0 .. MaxItem
    BY DEF Here
  <2> QED BY <1>2, <2>1, <2>2 DEF GenState
<1>4. /\ gen' \in [Gens -> GenState \cup {None}]
      /\ gen'[g] = s
      /\ \A h \in Gens : h # g => gen'[h] = gen[h]
  <2>1. gen' = [gen EXCEPT ![g] = s]
    BY DEF Start
  <2> HIDE DEF s
  <2> QED BY <1>3, <2>1 DEF Typed
<1> HIDE DEF s
<1>5. s # None
  BY <1>3
<1>6. Typed' /\ WriterOK'
  BY <1>1, <1>4 DEF Typed, WriterOK
<1>7. ChangesOK' /\ LeaseOK' /\ CoverageOK' /\ DiscardedOK'
  <2>1. ChangesOK'
    BY <1>1, <1>4, <1>5 DEF ChangesOK, Exists, Typed
  <2>2. LeaseOK'
    BY <1>1, <1>2, <1>4, <1>5 DEF LeaseOK, Exists
  <2>3. CoverageOK'
    <3>1. s.covered <= s.through
      BY <1>2, <1>3 DEF GenState
    <3> QED BY <1>4, <3>1 DEF CoverageOK, Exists
  <2>4. DiscardedOK'
    BY <1>1, <1>2, <1>4 DEF DiscardedOK, Exists
  <2> QED BY <2>1, <2>2, <2>3, <2>4
<1>8. Retained'
  <2>1. RetainedGens' = RetainedGens \cup {g}
    BY <1>1, <1>2, <1>4, <1>5 DEF RetainedGens, Exists
  <2>2. IsFiniteSet(RetainedGens) /\ Cardinality(RetainedGens) < MaxRetained
    BY FS_Subset DEF RetainedGens, Start
  <2>3. Cardinality(RetainedGens) \in Nat
    BY <2>2, FS_CardinalityType
  <2>4. Cardinality(RetainedGens \cup {g}) \in {Cardinality(RetainedGens), Cardinality(RetainedGens) + 1}
    BY <2>2, FS_AddElement
  <2>5. Cardinality(RetainedGens \cup {g}) \in Nat
    BY <2>2, FS_AddElement, FS_CardinalityType
  <2> QED BY <2>1, <2>2, <2>3, <2>4, <2>5 DEF Retained
<1>9. ActiveOK' /\ VectorsOK'
  BY <1>1, <1>4, <1>5 DEF ActiveOK, VectorsOK, Exists, Typed
<1>10. LogOK'
  <2> SUFFICES ASSUME kind = "message"
               PROVE  \A h \in Gens : gen'[h] # None =>
                        \A k \in Items : k <= gen'[h].through => item[k] # "absent"
    BY <1>1 DEF LogOK, Exists
  <2>1. \A k \in Items : k <= s.through => item[k] # "absent"
    BY <1>2, LogEndIsReached
  <2> QED BY <1>4, <2>1 DEF LogOK, Exists
<1>11. TargetsOK'
  <2>1. /\ \A i \in s.targets : item[i] = "here"
        /\ kind = "message" => s.targets = {}
    BY <1>2 DEF Here
  <2> QED BY <1>1, <1>4, <2>1 DEF TargetsOK, Exists
<1>12. \A h \in Gens : h # g => Inputs(h)' = Inputs(h)
  BY <1>1, <1>4 DEF Inputs, Here
<1>13. PagesOK'
  <2> SUFFICES ASSUME NEW b \in Builders, builder'[b].at = "commit",
                      gen'[builder'[b].gen].lease = b,
                      NEW i \in Inputs(builder[b].gen)', Passed(b, i)'
               PROVE  builder'[b].page[i] # None
    BY DEF PagesOK
  <2>1. PICK h \in Gens : h = builder[b].gen /\ gen[h] # None
    BY <1>1 DEF LeaseOK, Exists
  <2>2. h # g
    BY <1>1, <2>1
  <2>3. i \in Inputs(h)'
    BY <1>1, <2>1 DEF Inputs
  <2>4. i \in Inputs(h) /\ gen'[h] = gen[h]
    BY <1>4, <1>12, <2>2, <2>3
  <2> QED BY <1>1, <2>1, <2>4 DEF PagesOK, Passed
<1>14. CursorOK'
  <2>1. \A i \in Inputs(g)' : i > 0
    BY <1>3, <1>4 DEF Inputs, Here, Items, GenState
  <2> QED BY <1>1, <1>2, <1>4, <1>12, <2>1 DEF CursorOK, Exists
<1> QED BY <1>6, <1>7, <1>8, <1>9, <1>10, <1>11, <1>13, <1>14

\* One row goes on: its vectors and a process may, too.
LEMMA OneRowRetained ==
    ASSUME Typed, Retained, NEW g \in Gens, NEW s, gen' = [gen EXCEPT ![g] = s],
           gen[g] # None, gen[g].state # "discarded"
    PROVE  Retained'
<1>1. RetainedGens' \in SUBSET RetainedGens
  BY DEF RetainedGens, Exists, Typed
<1>2. IsFiniteSet(RetainedGens)
  BY FS_Subset DEF RetainedGens
<1>3. Cardinality(RetainedGens') <= Cardinality(RetainedGens)
  BY <1>1, <1>2, FS_Subset
<1>4. Cardinality(RetainedGens) \in Nat /\ Cardinality(RetainedGens') \in Nat
  BY <1>1, <1>2, FS_Subset, FS_CardinalityType
<1> QED BY <1>3, <1>4 DEF Retained

LEMMA ExtendKeeps == ASSUME IInv, NEW g \in Gens, Extend(g) PROVE IInv'
<1> USE DEF IInv
<1> DEFINE s == [gen[g] EXCEPT !.state = "building", !.through = LogHead,
                               !.after = gen[g].through, !.lease = None]
<1>1. /\ kind = "message" /\ active = g /\ gen[g].state = "ready"
      /\ gen[g].covered = gen[g].through /\ LogHead > gen[g].through
      /\ UNCHANGED <<kind, item, version, active, vec, holder, builder, writer>>
  BY DEF Extend
<1>2. gen[g] # None /\ gen[g] \in GenState /\ gen[g].through \in 0 .. MaxItem
  BY <1>1 DEF ActiveOK, Exists, Typed, GenState
<1>3. LogHead \in 0 .. MaxItem /\ \A k \in Items : k <= LogHead => item[k] # "absent"
  BY <1>1, LogHeadIsReached
<1>4. s \in GenState
  BY <1>2, <1>3 DEF GenState
<1>5. /\ s.state = "building" /\ s.through = LogHead /\ s.after = gen[g].through
      /\ s.lease = None /\ s.covered = gen[g].covered /\ s.targets = gen[g].targets
  BY <1>2 DEF GenState
<1>6. gen' = [gen EXCEPT ![g] = s]
  BY DEF Extend
<1> HIDE DEF s
<1>7. /\ gen'[g] = s /\ s # None
      /\ \A h \in Gens : h # g => gen'[h] = gen[h]
  BY <1>4, <1>6 DEF Typed
<1>8. Typed' /\ WriterOK'
  BY <1>1, <1>4, <1>6, OneRowIsTyped DEF Typed, WriterOK
<1>9. ChangesOK' /\ LeaseOK' /\ CoverageOK' /\ DiscardedOK' /\ Retained'
  <2>1. ChangesOK'
    BY <1>1, <1>7 DEF ChangesOK, Exists, Typed
  <2>2. LeaseOK'
    BY <1>1, <1>5, <1>7 DEF LeaseOK, Exists
  <2>3. CoverageOK'
    <3>1. s.covered <= s.through
      BY <1>1, <1>2, <1>3, <1>5
    <3> QED BY <1>7, <3>1 DEF CoverageOK, Exists
  <2>4. DiscardedOK'
    BY <1>1, <1>5, <1>7 DEF DiscardedOK, Exists
  <2>5. Retained'
    BY <1>1, <1>2, <1>6, OneRowRetained
  <2> QED BY <2>1, <2>2, <2>3, <2>4, <2>5
<1>10. ActiveOK' /\ VectorsOK' /\ TargetsOK'
  BY <1>1, <1>2, <1>5, <1>7 DEF ActiveOK, VectorsOK, TargetsOK, Exists, Typed
<1>11. LogOK'
  BY <1>1, <1>3, <1>5, <1>7 DEF LogOK, Exists
<1>12. \A h \in Gens : h # g => Inputs(h)' = Inputs(h)
  BY <1>1, <1>7 DEF Inputs, Here
<1>13. PagesOK'
  <2> SUFFICES ASSUME NEW b \in Builders, builder'[b].at = "commit",
                      gen'[builder'[b].gen].lease = b,
                      NEW i \in Inputs(builder[b].gen)', Passed(b, i)'
               PROVE  builder'[b].page[i] # None
    BY DEF PagesOK
  <2>1. PICK h \in Gens : h = builder[b].gen /\ gen[h] # None
    BY <1>1 DEF LeaseOK, Exists
  <2>2. h # g
    BY <1>1, <1>5, <1>7, <2>1
  <2>3. i \in Inputs(h)'
    BY <1>1, <2>1 DEF Inputs
  <2>4. i \in Inputs(h) /\ gen'[h] = gen[h]
    BY <1>7, <1>12, <2>2, <2>3
  <2> QED BY <1>1, <2>1, <2>4 DEF PagesOK, Passed
<1>14. CursorOK'
  <2>1. ASSUME NEW i \in Inputs(g)', vec[g][i] = None PROVE i > gen[g].through
    <3>1. i \in Items /\ item[i] = "here"
      BY <1>1 DEF Inputs, Here
    <3>2. CASE i <= gen[g].through
      <4>1. i \in Inputs(g)
        BY <1>1, <3>1, <3>2 DEF Inputs, Here
      <4>2. i > gen[g].covered
        BY <1>1, <1>2, <2>1, <4>1 DEF CursorOK, Exists
      <4> QED BY <1>1, <1>2, <3>1, <4>2 DEF Items
    <3>3. CASE ~(i <= gen[g].through)
      BY <1>2, <3>1, <3>3 DEF Items
    <3> QED BY <3>2, <3>3
  <2> QED BY <1>1, <1>5, <1>7, <1>12, <2>1 DEF CursorOK, Exists
<1> QED BY <1>8, <1>9, <1>10, <1>11, <1>13, <1>14

LEMMA TakeKeeps ==
    ASSUME IInv, NEW b \in Builders, NEW g \in Gens, NEW f \in BOOLEAN, Take(b, g, f)
    PROVE  IInv'
<1> USE DEF IInv
<1> DEFINE s == [gen[g] EXCEPT !.lease = b]
           w == [Idle EXCEPT !.at = "read", !.gen = g, !.follow = f, !.after = gen[g].after]
<1>1. /\ builder[b].at = "idle" /\ gen[g] # None /\ gen[g].state = "building"
      /\ UNCHANGED <<kind, item, version, active, vec, writer>>
      /\ gen' = [gen EXCEPT ![g] = s] /\ builder' = [builder EXCEPT ![b] = w]
      /\ holder' = [holder EXCEPT ![g] = b]
  BY DEF Take, Exists
<1>2. gen[g] \in GenState /\ gen[g].after \in 0 .. MaxItem
  BY <1>1 DEF Typed, GenState
<1>3. /\ s \in GenState
      /\ s.state = "building" /\ s.through = gen[g].through /\ s.after = gen[g].after
      /\ s.lease = b /\ s.covered = gen[g].covered /\ s.targets = gen[g].targets
  BY <1>1, <1>2 DEF GenState
<1>4. w \in Process /\ w.at = "read" /\ w.gen = g
  <2>1. NoVector \in Vectors /\ 0 \in 0 .. MaxItem
    BY DEF NoVector, Vectors
  <2>2. Idle \in Process
    BY <2>1 DEF Idle, Process
  <2> QED BY <1>2, <2>2 DEF Process
<1> HIDE DEF s, w
<1>5. /\ gen'[g] = s /\ s # None
      /\ \A h \in Gens : h # g => gen'[h] = gen[h]
      /\ builder'[b] = w
      /\ \A c \in Builders : c # b => builder'[c] = builder[c]
  BY <1>1, <1>3 DEF Typed
<1>6. Typed' /\ WriterOK'
  <2>1. gen' \in [Gens -> GenState \cup {None}]
    BY <1>1, <1>3, OneRowIsTyped
  <2>2. builder' \in [Builders -> Process] /\ holder' \in [Gens -> Builders \cup {None}]
    BY <1>1, <1>4 DEF Typed
  <2> QED BY <1>1, <2>1, <2>2 DEF Typed, WriterOK
<1>7. ChangesOK' /\ CoverageOK' /\ DiscardedOK' /\ Retained'
  <2>1. ChangesOK' /\ CoverageOK'
    BY <1>1, <1>3, <1>5 DEF ChangesOK, CoverageOK, Exists, Typed
  <2>2. DiscardedOK'
    BY <1>1, <1>3, <1>5 DEF DiscardedOK, Exists
  <2>3. Retained'
    BY <1>1, OneRowRetained
  <2> QED BY <2>1, <2>2, <2>3
<1>8. LeaseOK'
  <2>1. \A h \in Gens : gen[h] # None => gen[h].lease # b
    BY <1>1 DEF LeaseOK, Exists
  <2>2. ASSUME NEW c \in Builders, builder'[c].at # "idle"
        PROVE  builder'[c].gen \in Gens /\ gen'[builder'[c].gen] # None
    BY <1>4, <1>5, <2>2 DEF LeaseOK, Exists
  <2>3. ASSUME NEW h \in Gens, NEW c \in Builders, gen'[h] # None, gen'[h].lease = c
        PROVE  builder'[c].at # "idle" /\ builder'[c].gen = h
    BY <1>3, <1>4, <1>5, <2>1, <2>3 DEF LeaseOK, Exists
  <2> QED BY <2>2, <2>3 DEF LeaseOK, Exists
<1>9. ActiveOK' /\ VectorsOK' /\ TargetsOK'
  BY <1>1, <1>3, <1>5 DEF ActiveOK, VectorsOK, TargetsOK, Exists, Typed
<1>10. LogOK'
  <2>1. \A h \in Gens : gen'[h] # None => gen[h] # None /\ gen'[h].through = gen[h].through
    BY <1>1, <1>3, <1>5
  <2> QED BY <1>1, <2>1 DEF LogOK, Exists
<1>11. \A h \in Gens : Inputs(h)' = Inputs(h)
  <2> TAKE h \in Gens
  <2>1. gen'[h].through = gen[h].through /\ gen'[h].targets = gen[h].targets
    BY <1>3, <1>5
  <2>2. kind' = kind /\ Here' = Here
    BY <1>1 DEF Here
  <2> QED BY <2>1, <2>2 DEF Inputs
<1>12. PagesOK'
  <2> SUFFICES ASSUME NEW c \in Builders, builder'[c].at = "commit",
                      gen'[builder'[c].gen].lease = c,
                      NEW i \in Inputs(builder[c].gen)', Passed(c, i)'
               PROVE  builder'[c].page[i] # None
    <3>1. ASSUME NEW c \in Builders, builder'[c].at = "commit" PROVE builder'[c] = builder[c]
      BY <1>4, <1>5, <3>1
    <3> QED BY <3>1 DEF PagesOK
  <2>1. c # b /\ builder'[c] = builder[c]
    BY <1>4, <1>5
  <2>2. PICK h \in Gens : h = builder[c].gen /\ gen[h] # None
    BY <2>1 DEF LeaseOK, Exists
  <2>3. h # g
    BY <1>3, <1>5, <2>1, <2>2
  <2>4. i \in Inputs(h)'
    BY <2>1, <2>2 DEF Inputs
  <2>5. i \in Inputs(h) /\ gen'[h] = gen[h]
    BY <1>5, <1>11, <2>3, <2>4
  <2> QED BY <2>1, <2>2, <2>5 DEF PagesOK, Passed
<1>13. CursorOK'
  BY <1>1, <1>3, <1>5, <1>11 DEF CursorOK, Exists
<1> QED BY <1>6, <1>7, <1>8, <1>9, <1>10, <1>12, <1>13

\* A page that commits has not passed what it leaves missing.
LEMMA CommitKeeps == ASSUME IInv, NEW b \in Builders, Commit(b) PROVE IInv'
<1> USE DEF IInv
<1>1. PICK g \in Gens : g = builder[b].gen /\ gen[g] # None
  BY DEF Commit, LeaseOK, Exists
<1>2. PICK w \in Process : w = builder[b]
  BY DEF Typed
<1> DEFINE s == [gen[g] EXCEPT !.after = w.upto, !.lease = None,
                   !.state = IF w.complete THEN "ready" ELSE "building",
                   !.covered = IF w.complete THEN gen[g].through ELSE gen[g].covered]
<1>3. /\ builder[b].at = "commit" /\ gen[g].state = "building" /\ gen[g].lease = b
      /\ gen[g].after = w.after /\ Unmoved(b)
      /\ UNCHANGED <<kind, item, version, active, writer>>
  BY <1>1, <1>2 DEF Commit, Current
<1>4. gen' = [gen EXCEPT ![g] = s]
  BY <1>1, <1>2 DEF Commit
<1>5. gen[g] \in GenState /\ gen[g].through \in 0 .. MaxItem /\ gen[g].covered \in 0 .. MaxItem
      /\ w.upto \in 0 .. MaxItem /\ w.after \in 0 .. MaxItem /\ w.complete \in BOOLEAN
      /\ w.page \in Vectors
  BY <1>1, <1>2 DEF Typed, GenState, Process
<1>6. /\ s \in GenState
      /\ s.through = gen[g].through /\ s.after = w.upto /\ s.lease = None
      /\ s.targets = gen[g].targets
      /\ s.state = IF w.complete THEN "ready" ELSE "building"
      /\ s.covered = IF w.complete THEN gen[g].through ELSE gen[g].covered
  BY <1>5 DEF GenState
<1> HIDE DEF s
<1>7. \A h \in Gens, i \in Items :
        vec'[h][i] = IF h = g /\ w.page[i] # None /\ item[i] = "here" THEN w.page[i] ELSE vec[h][i]
  BY <1>1, <1>2 DEF Commit, Surviving, Typed, Vectors
<1>8. /\ gen'[g] = s /\ s # None
      /\ \A h \in Gens : h # g => gen'[h] = gen[h]
  BY <1>4, <1>6 DEF Typed
<1>9. /\ builder' \in [Builders -> Process]
      /\ \A c \in Builders : c # b => builder'[c] = builder[c]
      /\ builder'[b].at = "idle"
  <2>1. NoVector \in Vectors /\ 0 \in 0 .. MaxItem
    BY DEF NoVector, Vectors
  <2>2. Idle \in Process /\ Idle.at = "idle"
    BY <2>1 DEF Idle, Process
  <2>3. builder' = [builder EXCEPT ![b] = Idle]
    BY DEF Commit, Stop
  <2> QED BY <2>2, <2>3 DEF Typed
<1>10. Typed' /\ WriterOK'
  <2>1. gen' \in [Gens -> GenState \cup {None}]
    BY <1>4, <1>6, OneRowIsTyped
  <2>2. holder' \in [Gens -> Builders \cup {None}]
    BY DEF Commit, Stop, Typed
  <2>3. vec' \in [Gens -> Vectors]
    BY <1>1, <1>2, <1>5 DEF Commit, Typed, Vectors
  <2> QED BY <1>3, <1>9, <2>1, <2>2, <2>3 DEF Typed, WriterOK
<1>11. ChangesOK' /\ CoverageOK' /\ DiscardedOK' /\ Retained'
  <2>1. ChangesOK'
    BY <1>3, <1>8 DEF ChangesOK, Exists, Typed
  <2>2. CoverageOK'
    <3>1. s.covered <= s.through
      BY <1>1, <1>5, <1>6 DEF CoverageOK, Exists
    <3> QED BY <1>8, <3>1 DEF CoverageOK, Exists
  <2>3. DiscardedOK'
    BY <1>6, <1>7, <1>8 DEF DiscardedOK, Exists
  <2>4. Retained'
    BY <1>1, <1>3, <1>4, OneRowRetained
  <2> QED BY <2>1, <2>2, <2>3, <2>4
<1>12. LeaseOK'
  <2>1. ASSUME NEW c \in Builders, builder'[c].at # "idle"
        PROVE  builder'[c].gen \in Gens /\ gen'[builder'[c].gen] # None
    BY <1>8, <1>9, <2>1 DEF LeaseOK, Exists
  <2>2. ASSUME NEW h \in Gens, NEW c \in Builders, gen'[h] # None, gen'[h].lease = c
        PROVE  builder'[c].at # "idle" /\ builder'[c].gen = h
    <3>1. h # g
      BY <1>6, <1>8, <2>2
    <3>2. c # b
      BY <1>1, <1>8, <2>2, <3>1 DEF LeaseOK, Exists
    <3> QED BY <1>8, <1>9, <2>2, <3>1, <3>2 DEF LeaseOK, Exists
  <2> QED BY <2>1, <2>2 DEF LeaseOK, Exists
<1>13. ActiveOK' /\ TargetsOK'
  <2>1. \A h \in Gens : gen'[h] # None => gen[h] # None /\ gen'[h].targets = gen[h].targets
    BY <1>1, <1>6, <1>8
  <2>2. s.state \notin {"cancelled", "discarded"}
    BY <1>6
  <2>3. TargetsOK'
    BY <1>3, <2>1 DEF TargetsOK, Exists
  <2> QED BY <1>3, <1>8, <2>2, <2>3 DEF ActiveOK, Exists, Typed
<1>14. VectorsOK'
  <2> SUFFICES ASSUME NEW h \in Gens, NEW i \in Items, vec'[h][i] # None
               PROVE  /\ gen'[h] # None /\ item[i] = "here"
                      /\ kind = "report" => vec'[h][i] = version[i]
    BY <1>3 DEF VectorsOK, Exists
  <2>1. CASE h = g /\ w.page[i] # None /\ item[i] = "here"
    BY <1>2, <1>3, <1>7, <1>8, <2>1 DEF Unmoved, Surviving
  <2>2. CASE ~(h = g /\ w.page[i] # None /\ item[i] = "here")
    <3>1. vec'[h][i] = vec[h][i]
      BY <1>7, <2>2
    <3> QED BY <1>8, <3>1 DEF VectorsOK, Exists
  <2> QED BY <2>1, <2>2
<1>15. LogOK'
  <2>1. \A h \in Gens : gen'[h] # None => gen[h] # None /\ gen'[h].through = gen[h].through
    BY <1>1, <1>6, <1>8
  <2> QED BY <1>3, <2>1 DEF LogOK, Exists
<1>16. \A h \in Gens : Inputs(h)' = Inputs(h)
  <2> TAKE h \in Gens
  <2>1. gen'[h].through = gen[h].through /\ gen'[h].targets = gen[h].targets
    BY <1>6, <1>8
  <2>2. kind' = kind /\ Here' = Here
    BY <1>3 DEF Here
  <2> QED BY <2>1, <2>2 DEF Inputs
<1>17. PagesOK'
  <2> SUFFICES ASSUME NEW c \in Builders, builder'[c].at = "commit",
                      gen'[builder'[c].gen].lease = c,
                      NEW i \in Inputs(builder[c].gen)', Passed(c, i)'
               PROVE  builder'[c].page[i] # None
    <3>1. ASSUME NEW c \in Builders, builder'[c].at = "commit" PROVE builder'[c] = builder[c]
      BY <1>9, <3>1
    <3> QED BY <3>1 DEF PagesOK
  <2>1. c # b /\ builder'[c] = builder[c]
    BY <1>9
  <2>2. PICK h \in Gens : h = builder[c].gen /\ gen[h] # None
    BY <2>1 DEF LeaseOK, Exists
  <2>3. h # g
    BY <1>6, <1>8, <2>1, <2>2
  <2>4. i \in Inputs(h)'
    BY <2>1, <2>2 DEF Inputs
  <2>5. i \in Inputs(h) /\ gen'[h] = gen[h]
    BY <1>8, <1>16, <2>3, <2>4
  <2> QED BY <2>1, <2>2, <2>5 DEF PagesOK, Passed
<1>18. CursorOK'
  <2> SUFFICES ASSUME NEW h \in Gens, gen'[h] # None, NEW i \in Inputs(h), vec'[h][i] = None
               PROVE  /\ kind = "message" /\ active = h => i > gen'[h].after /\ i > gen'[h].covered
                      /\ kind = "report" => gen'[h].state # "ready"
                      /\ kind = "report" /\ gen'[h].state = "building" => i > gen'[h].after
    BY <1>3, <1>16 DEF CursorOK, Exists
  <2>1. gen[h] # None
    BY <1>1, <1>8
  <2>2. i \in Items /\ item[i] = "here"
    BY <2>1, Rows DEF Inputs, Here, TargetsOK, Exists
  <2>3. vec[h][i] = None
    BY <1>7, <2>2
  <2>4. CASE h # g
    BY <1>8, <2>1, <2>3, <2>4 DEF CursorOK, Exists
  <2>5. CASE h = g
    <3>1. w.page[i] = None
      BY <1>7, <2>2, <2>5
    <3>2. ~Passed(b, i)
      BY <1>1, <1>2, <1>3, <2>5, <3>1 DEF PagesOK
    <3>3. i <= w.after \/ (i > w.upto /\ ~w.complete)
      BY <1>2, <1>5, <2>2, <3>2 DEF Passed, Items
    <3>4. /\ kind = "message" /\ active = g => i > gen[g].after /\ i > gen[g].covered
          /\ kind = "report" => i > gen[g].after
      BY <1>1, <1>3, <2>3, <2>5 DEF CursorOK, Exists
    <3>5. (kind = "message" /\ active = g) \/ kind = "report" => i > w.upto /\ ~w.complete
      BY <1>3, <1>5, <2>2, <3>3, <3>4 DEF Items
    <3> QED BY <1>6, <1>8, <2>5, <3>4, <3>5
  <2> QED BY <2>4, <2>5
<1> QED BY <1>10, <1>11, <1>12, <1>13, <1>14, <1>15, <1>17, <1>18

-----------------------------------------------------------------------------
(* The theorems.                                                            *)

LEMMA InitEstablishesIInv == Init => IInv
<1> SUFFICES ASSUME Init PROVE IInv
  OBVIOUS
<1> USE DEF Init
<1>1. NoVector \in Vectors /\ 0 \in 0 .. MaxItem /\ 0 \in 0 .. MaxVersion
  BY DEF NoVector, Vectors
<1>2. Idle \in Process /\ Idle.at = "idle"
  BY <1>1 DEF Idle, Process
<1>3. Typed
  BY <1>1, <1>2 DEF Typed
<1>4. WriterOK /\ ChangesOK /\ CoverageOK /\ DiscardedOK /\ ActiveOK /\ LogOK /\ TargetsOK
  BY DEF WriterOK, ChangesOK, CoverageOK, DiscardedOK, ActiveOK, LogOK, TargetsOK, Exists
<1>5. LeaseOK /\ PagesOK
  BY <1>2 DEF LeaseOK, PagesOK, Exists
<1>6. VectorsOK /\ CursorOK
  BY DEF VectorsOK, CursorOK, NoVector, Exists
<1>7. Retained
  <2>1. RetainedGens = {}
    BY DEF RetainedGens, Exists
  <2> QED BY <2>1, FS_EmptySet DEF Retained
<1> QED BY <1>3, <1>4, <1>5, <1>6, <1>7 DEF IInv

LEMMA StepKeepsIInv == IInv /\ [Next]_vars => IInv'
<1> SUFFICES ASSUME IInv, [Next]_vars PROVE IInv'
  OBVIOUS
<1>1. CASE UNCHANGED vars
  <2>1. holder' \in [Gens -> Builders \cup {None}]
    BY <1>1 DEF vars, IInv, Typed
  <2> QED BY <1>1, <2>1, StillKeeps DEF vars
<1>2. ASSUME NEW i \in Items,
             Create(i) \/ Remove(i) \/ ChangeReport(i) \/ BeginChange(i) \/ CommitChange(i)
      PROVE  IInv'
  BY <1>2, CreateKeeps, RemoveKeeps, ChangeReportKeeps, BeginChangeKeeps, CommitChangeKeeps
<1>3. ASSUME NEW g \in Gens,
             Start(g) \/ Activate(g) \/ Cancel(g) \/ Prune(g) \/ Repair(g) \/ Extend(g)
      PROVE  IInv'
  BY <1>3, StartKeeps, ActivateKeeps, CancelKeeps, PruneKeeps, RepairKeeps, ExtendKeeps
<1>4. ASSUME NEW b \in Builders, Step(b) \/ Fail(b) \/ Disconnect(b)
      PROVE  IInv'
  BY <1>4, ReadKeeps, CommitKeeps, RefuseKeeps, FailKeeps, DisconnectKeeps DEF Step
<1>5. ASSUME NEW b \in Builders, NEW g \in Gens, NEW f \in BOOLEAN, Take(b, g, f)
      PROVE  IInv'
  BY <1>5, TakeKeeps
<1> QED BY <1>1, <1>2, <1>3, <1>4, <1>5 DEF Next

\* The inductive invariant: what is embedded, by whom and how far, and that
\* nothing is missing behind a cursor that a search can come to rely on.
THEOREM Invariant == Spec => []IInv
BY InitEstablishesIInv, StepKeepsIInv, PTL DEF Spec

\* Rows, vectors, leases and locks keep their types, coverage lies within its
\* boundary, no more than the permitted generations are retained, and a
\* discarded generation has no vector (the constraints of migrations 0049, 0050).
THEOREM TypeCorrect == Spec => []TypeOK
<1>1. IInv => TypeOK
  <2> SUFFICES ASSUME IInv PROVE TypeOK
    OBVIOUS
  <2>1. \A i \in Items : writer[i] = None \/ writer[i] \subseteq Gens
    BY DEF IInv, Typed
  <2> QED BY <2>1 DEF IInv, Typed, Vectors, CoverageOK, DiscardedOK, Retained, RetainedGens, TypeOK
<1> QED BY <1>1, Invariant, PTL

\* No builder, repair, cancellation, prune or change of inputs takes away the
\* generation that searches read, and no generation keeps a vector of what was
\* erased (Activate, Cancel, Prune; the cascades of the vector tables).
THEOREM ActiveGenerationStands == Spec => []ActiveStands
<1>1. IInv => ActiveStands
  BY DEF IInv, ActiveOK, VectorsOK, ActiveStands
<1> QED BY <1>1, Invariant, PTL

\* A search finds every message up to the boundary it reports, and of a ready
\* generation of reports every target, at its current text.
THEOREM SearchesAnswerForTheirRange == Spec => []SearchAnswersForItsRange
<1>1. IInv => SearchAnswersForItsRange
  <2> SUFFICES ASSUME IInv, active # None
               PROVE  /\ kind = "message" => {i \in Here : i <= gen[active].covered} \subseteq Found
                      /\ kind = "report" /\ ~Refused =>
                            /\ gen[active].targets \subseteq Found
                            /\ \A i \in Found : vec[active][i] = version[i]
    BY DEF SearchAnswersForItsRange
  <2>1. active \in Gens /\ Exists(active)
    BY DEF IInv, Typed, ActiveOK
  <2>2. gen[active].covered \in Nat /\ gen[active].through \in Nat
        /\ gen[active].covered <= gen[active].through /\ gen[active].targets \subseteq Items
    BY <2>1, Rows DEF IInv, CoverageOK
  <2>3. ASSUME kind = "message", NEW i \in Here, i <= gen[active].covered
        PROVE  i \in Found
    <3>1. i \in Nat /\ i \in Inputs(active)
      BY <2>2, <2>3 DEF Inputs, Here, Items
    <3>2. vec[active][i] # None
      BY <2>1, <2>2, <2>3, <3>1 DEF IInv, CursorOK
    <3> QED BY <3>2 DEF Found
  <2>4. ASSUME kind = "report", ~Refused
        PROVE  /\ gen[active].targets \subseteq Found
               /\ \A i \in Found : vec[active][i] = version[i]
    <3>1. gen[active].state = "ready"
      BY <2>4 DEF Refused
    <3>2. \A i \in gen[active].targets : vec[active][i] # None
      BY <2>1, <2>4, <3>1 DEF IInv, CursorOK, Inputs
    <3>3. gen[active].targets \subseteq Here
      BY <2>1, <2>2 DEF IInv, TargetsOK, Here
    <3> QED BY <2>1, <2>4, <3>2, <3>3 DEF Found, Here, IInv, VectorsOK
  <2> QED BY <2>3, <2>4
<1> QED BY <1>1, Invariant, PTL

=============================================================================
