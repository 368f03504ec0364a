------------------------------ MODULE MCRecall ------------------------------
(* Two people and a web page speak of three things in one project, and a   *)
(* second project knows something of the same name.                        *)
EXTENDS Recall, Excerpts
CONSTANTS ann, bob

Entity(id, scope, name) ==
    [id |-> id, scope |-> scope, kind |-> "named", name |-> name, person |-> None, size |-> 1]
A == Entity(1, 1, "a")
B == Entity(2, 1, "b")
C == Entity(3, 1, "c")
Me == [id |-> 4, scope |-> 1, kind |-> "speaker", name |-> "me", person |-> ann, size |-> 1]
Other == Entity(5, 2, "a")
Far == Entity(6, 2, "d")
Things == {A, B, C, Me, Other, Far}

Source(id, scope, role, person, dated) ==
    [id |-> id, scope |-> scope, role |-> role, person |-> person, dated |-> dated, size |-> 2]
M1 == Source(1, 1, "user", ann, FALSE)
M2 == Source(2, 1, "user", bob, FALSE)
M3 == Source(3, 1, "tool", ann, TRUE)
M4 == Source(4, 2, "user", ann, FALSE)
Said == {M1, M2, M3, M4}

Claim(id, src, from, pred, to, at) ==
    [id |-> id, src |-> src, from |-> from, pred |-> pred, label |-> pred, to |-> to, at |-> at,
     size |-> 1 + (id % 2)]
Lives == 1
Knows == 2
Heard ==
    {Claim(1, M2, A, Knows, B, 1), Claim(2, M1, A, Lives, B, 1), Claim(3, M3, A, Lives, C, 2),
     Claim(5, M4, Other, Knows, Far, 1), Claim(6, M1, Me, Knows, A, 1)}

Already == {c \in Heard : c.id \in {1, 5, 6}}

Report(id, scope, parent) == [id |-> id, scope |-> scope, parent |-> parent, size |-> 2]
Written == {Report(1, 1, 0), Report(2, 1, 1)}

Request(scopes, names, roles, person, hops, surfaces, themes, budget, valid) ==
    [scopes |-> scopes, names |-> names, roles |-> roles, person |-> person, hops |-> hops,
     surfaces |-> surfaces, themes |-> themes, budget |-> budget, valid |-> valid]
\* After the second fact is learned, two walks of two steps lead to Me, and the budget has room for
\* all that is found by one of them alone.
First == Request(<<1>>, {"b"}, {"user", "tool"}, None, 2, {"facts"}, FALSE, 10, None)
Repeated == {First}
Asked ==
    {First,
     Request(<<1>>, {"b"}, {"user", "tool"}, ann, 2, {"facts", "passages"}, FALSE, 10, None),
     Request(<<1, 2>>, {"a"}, {"user"}, None, 1, {"facts"}, FALSE, 9, None),
     Request(<<1>>, {"a"}, {"user", "tool"}, None, 1, AllSurfaces, TRUE, 6, None),
     Request(<<1>>, {"a", "b", "c"}, {"user", "tool"}, None, 2, {"facts"}, FALSE, 9, 1),
     Request(<<2, 1>>, {}, {"user"}, ann, 2, None, FALSE, 10, None),
     Request(<< >>, {"a"}, {"user"}, None, 2, None, FALSE, 9, None)}

\* Every message of up to five code points, every quote in it, windows and pages of a few bytes.
ASSUME ExcerptsAreLegible == \A m \in Messages(5), w \in 1 .. 3 : ExcerptIsLegible(m, w)
ASSUME MessagesAreReadWhole == \A m \in Messages(5), n \in 4 .. 6 : PagesAreTheMessage(m, n)
=============================================================================
