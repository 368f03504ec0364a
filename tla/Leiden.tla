------------------------------- MODULE Leiden -------------------------------
(***************************************************************************)
(* How internal/community partitions the graph of a project's current      *)
(* relations into subjects and splits the subjects that are too large      *)
(* (graph.go, leiden.go, hierarchy.go).  It is a pure function: the passes *)
(* that call it, the rows they store and the reports written about them    *)
(* are module Communities.                                                 *)
(*                                                                         *)
(* An entity is a natural number, in the order of its identifier.  The     *)
(* code renumbers the nodes of a component and of every aggregate so that  *)
(* they keep that order; here a node that stands for a group keeps the     *)
(* lowest entity of the group as its name, which is the same order without *)
(* the renumbering.  A density is a whole number of twentieths, so the     *)
(* quality of a group, times 40, is an integer: this arithmetic is exact,  *)
(* the code's is in float64, and two gains that are equal here may differ  *)
(* there in the last bit.                                                  *)
(***************************************************************************)
EXTENDS Naturals, Integers, FiniteSets, FiniteSetsExt, SequencesExt

CONSTANTS
    Base,      \* Resolution, in twentieths (leiden.go: 1)
    MaxSize    \* the largest group that is not split (hierarchy.go: 24)

ASSUME LeidenAssumption == Base \in Nat \ {0} /\ MaxSize \in Nat \ {0}

(***************************************************************************)
(* Graphs.  An edge of the caller has two ends and a weight; the relations *)
(* are directed and the graph is not, an edge from a thing to itself is    *)
(* dropped though its end stays, and the edges of one pair are summed.     *)
(***************************************************************************)
NewGraph(edges) ==
    LET node == UNION {{e.source, e.target} : e \in edges}
    IN  [node |-> node,
         weight |-> [pair \in {{a, b} : a \in node, b \in node} |->
                       IF Cardinality(pair) = 1 THEN 0
                       ELSE MapThenSumSet(LAMBDA e : e.weight,
                              {e \in edges : {e.source, e.target} = pair})]]

Joined(g, a, b) == g.weight[{a, b}] > 0

\* What can be reached from one node of a set without leaving the set.
ReachableWithin(g, set, start) ==
    LET step[k \in 0 .. Cardinality(set)] ==
          IF k = 0 THEN {start}
          ELSE LET reached == step[k - 1]
               IN  reached \cup {b \in set : \E a \in reached : Joined(g, a, b)}
    IN  step[Cardinality(set)]

Components(g) == {ReachableWithin(g, g.node, n) : n \in g.node}

\* The graph induced on some nodes: its nodes are those an edge still holds.
Subgraph(g, nodes) ==
    LET kept == {n \in nodes : \E b \in nodes : Joined(g, n, b)}
    IN  [node |-> kept,
         weight |-> [pair \in {{a, b} : a \in kept, b \in kept} |-> g.weight[pair]]]

Isolated(nodes, sub) == nodes \ sub.node

(***************************************************************************)
(* One tier: a graph whose nodes stand for groups of entities.             *)
(***************************************************************************)
Quality(internal, size, density) == 40 * internal - density * size * (size - 1)

\* seedTier: every entity of a component alone.
SeedTier(sub) ==
    [graph |-> sub, size |-> [n \in sub.node |-> 1],
     internal |-> [n \in sub.node |-> 0], members |-> [n \in sub.node |-> {n}]]

SumOver(f, set) == MapThenSumSet(LAMBDA n : f[n], set)
WeightWithin(g, set) ==
    MapThenSumSet(LAMBDA pair : g.weight[pair], {{a, b} : a \in set, b \in set})

\* What one node adds to the nodes of a group it is not in.
GainOfJoining(t, group, n, density) ==
    LET internal == WeightWithin(t.graph, group) + SumOver(t.internal, group)
        size == SumOver(t.size, group)
        links == MapThenSumSet(LAMBDA b : t.graph.weight[{n, b}], group)
    IN  Quality(internal + links + t.internal[n], size + t.size[n], density)
          - Quality(internal, size, density)

\* One node considers the groups it has an edge to, in the order of their
\* labels, and leaves its own only for a strictly better one.
Visit(t, label, n, density) ==
    LET others(l) == {b \in t.graph.node \ {n} : label[b] = l}
        gain == [l \in {label[b] : b \in {x \in t.graph.node : x = n \/ Joined(t.graph, n, x)}} |->
                   GainOfJoining(t, others(l), n, density)]
        best == {l \in DOMAIN gain : \A m \in DOMAIN gain : gain[m] <= gain[l]}
    IN  [label EXCEPT ![n] = IF @ \in best THEN @ ELSE Min(best)]

InOrder(set) ==
    [i \in 1 .. Cardinality(set) |->
       CHOOSE n \in set : Cardinality({b \in set : b < n}) = i - 1]

\* Nodes are visited in their order, pass after pass, until a pass moves none
\* or the bound on passes is met.
Move(t, density) ==
    LET nodes == InOrder(t.graph.node)
        after[sweep \in 0 .. Len(nodes) + 17] ==
          IF sweep = 0 THEN [label |-> [n \in t.graph.node |-> n], improved |-> TRUE]
          ELSE LET before == after[sweep - 1]
                   label == FoldLeft(LAMBDA l, n : Visit(t, l, n, density), before.label, nodes)
               IN  IF before.improved
                   THEN [label |-> label, improved |-> label # before.label]
                   ELSE before
    IN  after[Len(nodes) + 17].label

\* Every group of two or more is broken into its connected pieces, each under
\* its lowest node.  A group of one keeps the label it has, which need not be
\* its own node.
SplitDisconnected(g, label) ==
    LET group(n) == {b \in g.node : label[b] = label[n]}
    IN  [n \in g.node |-> IF Cardinality(group(n)) < 2 THEN label[n]
                          ELSE Min(ReachableWithin(g, group(n), n))]

GroupsOf(label) == {{n \in DOMAIN label : label[n] = l} : l \in {label[n] : n \in DOMAIN label}}

\* Each group becomes one node that carries its size, what is inside it and
\* the entities behind it.
Aggregate(t, groups) ==
    LET of(n) == CHOOSE group \in groups : Min(group) = n
        node == {Min(group) : group \in groups}
    IN  [graph |-> [node |-> node,
                    weight |-> [pair \in {{a, b} : a \in node, b \in node} |->
                      IF Cardinality(pair) = 1 THEN 0
                      ELSE SumOver(t.graph.weight,
                             {{a, b} : a \in of(Min(pair)), b \in of(Max(pair))})]],
         size |-> [n \in node |-> SumOver(t.size, of(n))],
         internal |-> [n \in node |-> SumOver(t.internal, of(n)) + WeightWithin(t.graph, of(n))],
         members |-> [n \in node |-> UNION {t.members[b] : b \in of(n)}]]

\* Moving, splitting and aggregating a component until nothing merges.
PartitionComponent(sub, density) ==
    LET groups(t) == GroupsOf(SplitDisconnected(t.graph, Move(t, density)))
        round[k \in 0 .. Cardinality(sub.node)] ==
          IF k = 0 THEN SeedTier(sub)
          ELSE LET t == round[k - 1]
                   g == IF Cardinality(t.graph.node) = 1 THEN {t.graph.node} ELSE groups(t)
               IN  IF Cardinality(g) = Cardinality(t.graph.node) THEN t ELSE Aggregate(t, g)
        last == round[Cardinality(sub.node)]
    IN  {last.members[n] : n \in last.graph.node}

DetectAt(g, density) ==
    UNION {IF Cardinality(c) = 1 THEN {c} ELSE PartitionComponent(Subgraph(g, c), density) :
             c \in Components(g)}

Detect(g) == DetectAt(g, Base)

(***************************************************************************)
(* The hierarchy.  A group over MaxSize is partitioned again, alone, at    *)
(* the coarsest density of the ladder that divides it; a partition of      *)
(* singletons is not a split.                                              *)
(***************************************************************************)
Finer == <<2, 4, 8, 16>>
AllSingletons(groups) == \A group \in groups : Cardinality(group) = 1

Split(sub) ==
    LET at(i) == DetectAt(sub, Base * Finer[i])
        divides == {i \in DOMAIN Finer : Cardinality(at(i)) >= 2}
    IN  IF divides = {} \/ AllSingletons(at(Min(divides))) THEN {} ELSE at(Min(divides))

\* The pieces of a group that is too large, or none.
Pieces(g, members) ==
    LET sub == Subgraph(g, members)
        parts == Split(sub)
    IN  IF Cardinality(members) <= MaxSize \/ parts = {} THEN {}
        ELSE parts \cup {{n} : n \in Isolated(members, sub)}

\* A community is identified by its level and its members; a root has none of
\* the latter for its parent.
Build(g) ==
    LET levels == 0 .. Cardinality(g.node)
        level[k \in levels] ==
          IF k = 0
          THEN {[level |-> 0, members |-> m, parent |-> {}] : m \in Detect(g)}
          ELSE UNION {{[level |-> k, members |-> m, parent |-> c.members] : m \in Pieces(g, c.members)} :
                        c \in level[k - 1]}
    IN  UNION {level[k] : k \in levels}
=============================================================================
