----------------------------- MODULE MCRequests -----------------------------
(* Two requests at once, of every kind that takes a different way, against *)
(* one project, four project credentials and an operator.                  *)
EXTENDS Requests
CONSTANTS p1, reader, writer, spare, minted, operator

KindOf == [c \in Credentials |-> IF c = operator THEN "operator" ELSE "project"]
Reaches == [c \in Credentials |-> IF c = operator THEN "" ELSE p1]
Access == [c \in Credentials |-> IF c = reader THEN "read_only" ELSE "read_write"]
Memory == [s \in Servers |-> IF s = "memory" THEN 5 ELSE 4]
Registry == [s \in Servers |-> IF s = "memory" THEN 2 ELSE 4]

Ask(door, token, op) ==
    [door |-> door, token |-> token, op |-> op, project |-> p1, target |-> spare, form |-> "good"]
Whole(door, op) == [Ask(door, operator, op) EXCEPT !.project = ""]
Revoke(form, target) == [Ask("portal", operator, "credential.revoke") EXCEPT !.form = form, !.target = target]
Asked ==
    {Ask("memory", writer, "observe"),
     Ask("memory", writer, "entity.purge"), Ask("memory", writer, "record.correct"),
     Ask("memory", reader, "recall"), Ask("memory", reader, "erase"), Ask("memory", None, "recall"),
     Ask("mcp", writer, "observe"), Ask("mcp", operator, "context.assemble"),
     Ask("manage", operator, "project.suspend"),
     Ask("manage", operator, "formation.unpark"),
     Whole("manage", "audit.seal"), Whole("manage", "audit.verify"),
     Ask("manage", writer, "project.resume"), Ask("manage", operator, "project.resume"),
     Whole("manage", "credential.revoke"),
     Whole("portal", "login"), Ask("portal", operator, "credential.issue"),
     [Ask("portal", operator, "project.suspend") EXCEPT !.form = "forged"],
     Revoke("good", spare), Revoke("unconfirmed", spare), Revoke("good", operator)}

Old(op) ==
    [op |-> op, principal |-> writer, project |-> p1, outcome |-> "allowed", magnitude |-> 1, of |-> None]
Earlier == <<Old("observe"), Old("recall")>>

\* No surface names an operation the ledger cannot, or two by one name; every operation has a
\* handler, the tools and the portal's actions are operations of the two tables, and a
\* credential that may only read changes nothing by any of them.
ASSUME SurfacesAreServable == checkOperations(operations) /\ checkOperations(managementOperations)
ASSUME EveryOperationIsHandled ==
    /\ DOMAIN memoryHandlers = Range(operations)
    /\ DOMAIN managementHandlers = Range(managementOperations)
    /\ Range(mcpTools) \subseteq Range(operations)
    /\ Range(portalActions) \subseteq Range(managementOperations)
ASSUME ReadersChangeNothing ==
    \A op \in DOMAIN Handlers : permitted("read_only", op) => op \notin Changes

Interchangeable == Permutations(Requests)
=============================================================================
