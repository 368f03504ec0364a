------------------------------ MODULE MCSubjects ------------------------------
(***************************************************************************)
(* Fourteen entities and thirteen relations, a tree: a graph whose         *)
(* partition at the resolution the code uses leaves a node that moved      *)
(* alone into a group, and a group without the node it was joined by.      *)
(***************************************************************************)
EXTENDS Communities, Leiden

Relation == <<{14, 51}, {14, 44}, {26, 51}, {26, 56}, {44, 54}, {30, 54}, {30, 34},
              {1, 44}, {1, 4}, {41, 44}, {34, 46}, {1, 11}, {42, 56}>>
Tree == [t \in Turn |-> Relation[t]]
Person1 == [t \in Turn |-> "ann"]

\* A worker takes up one community at a time, an operator asks for two.
Pages == [p \in Pass |-> IF p \in Frail THEN 2 ELSE 1]

Groups == {{1, 4, 11, 14, 41, 44}, {26, 30, 34, 42, 46, 51, 54, 56}}
TreePartitions == {[edges |-> Edges(Turn),
                    subjects |-> {[level |-> 0, members |-> m, parent |-> {}] : m \in Groups}]}

\* The two groups are what Detect makes of the tree.
Edge(pair) == [source |-> Min(pair), target |-> Max(pair), weight |-> 1]
ASSUME TreeIsPartitioned == Detect(NewGraph({Edge(Relation[i]) : i \in 1 .. 13})) = Groups
===============================================================================
