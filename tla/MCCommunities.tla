---- MODULE MCCommunities ----
(***************************************************************************)
(* Up to four entities in a line, turns that each join two neighbours, the *)
(* first of one person and the others of another.  A subject of more than  *)
(* two entities is split, so that there are parents, children and children *)
(* that hold a single entity.  The tree of MCSubjects is checked here too. *)
(***************************************************************************)
EXTENDS MCSubjects

Line == [t \in Turn |-> {t, t + 1}]
Owners == [t \in Turn |-> IF t = 1 THEN "ann" ELSE "bob"]

Root(members) == [level |-> 0, members |-> members, parent |-> {}]
Child(members, parent) == [level |-> 1, members |-> members, parent |-> parent]

Table ==
    {[turns |-> {}, subjects |-> {}]}
    \cup {[turns |-> {t}, subjects |-> {Root({t, t + 1})}] : t \in 1 .. 3}
    \cup {[turns |-> {1, 3}, subjects |-> {Root({1, 2}), Root({3, 4})}],
          [turns |-> {1, 2}, subjects |-> {Root({1, 2, 3}), Child({1, 2}, {1, 2, 3}),
                                           Child({3}, {1, 2, 3})}],
          [turns |-> {2, 3}, subjects |-> {Root({2, 3, 4}), Child({2, 3}, {2, 3, 4}),
                                           Child({4}, {2, 3, 4})}],
          [turns |-> {1, 2, 3}, subjects |-> {Root(1 .. 4), Child({1, 2}, 1 .. 4),
                                              Child({3, 4}, 1 .. 4)}]}
Partitions == {[edges |-> Edges(row.turns), subjects |-> row.subjects] : row \in {r \in Table : r.turns \subseteq Turn}}

\* The table is what Build makes of every graph of the instance.
ASSUME PartitionsAreBuilt ==
    \A turns \in SUBSET Turn : Hierarchy(turns) = Build(NewGraph(Edges(turns)))
====
