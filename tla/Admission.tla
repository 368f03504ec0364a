----------------------------- MODULE Admission ------------------------------
(* What one process lets in: slots for authentication, for work and for    *)
(* the row of a stranger, a budget of attempts that refills with time, and *)
(* a budget of rows. A request that finds no slot is refused, never queued. *)
EXTENDS Integers, FiniteSetsExt
CONSTANTS Projects, Credentials,
          MemoryConnections,  \* of a server: the size of its pool of memory connections
          RegistryConnections,
          Burst,              \* authRequestBurst
          SamplesPerMinute,   \* refusedAuthSamplesPerMinute
          MaxSuppressed       \* 2^31 - 2, the largest count of suppressed rows

\* The management server builds its own gate of four and four.
Servers == {"memory", "manage"}

WorkLimit(s) == Min({64, MemoryConnections[s] - 1})
ProjectLimit(s) == Max({1, WorkLimit(s) \div 2})
CredentialLimit(s) == Max({1, ProjectLimit(s) \div 2})
AuthLimit(s) == Min({2, RegistryConnections[s]})

ASSUME PoolsAreLargeEnough ==
    \A s \in Servers : MemoryConnections[s] >= 3 /\ RegistryConnections[s] >= 1

Counted(keys) == [k \in keys |-> 0]
\* The management server admits every request under the project "".
ProjectKeys == Projects \cup {""}
NewGate ==
    [work |-> 0, auth |-> 0, audit |-> 0, projects |-> Counted(ProjectKeys),
     credentials |-> Counted(Credentials), tokens |-> Burst]

\* `earned` attempts have come back since the gate was last asked.
Refilled(g, earned) == [g EXCEPT !.tokens = Min({Burst, @ + earned})]
Authenticates(s, g) == g.auth < AuthLimit(s) /\ g.tokens >= 1
WithAuth(g) == [g EXCEPT !.tokens = @ - 1, !.auth = @ + 1]
WithoutAuth(g) == [g EXCEPT !.auth = @ - 1]

Admits(s, g, project, credential) ==
    /\ g.work < WorkLimit(s)
    /\ g.projects[project] < ProjectLimit(s)
    /\ g.credentials[credential] < CredentialLimit(s)
Shifted(g, project, credential, by) ==
    [g EXCEPT !.work = @ + by, !.projects[project] = @ + by, !.credentials[credential] = @ + by]
WithWork(g, project, credential) == Shifted(g, project, credential, 1)
WithoutWork(g, project, credential) == Shifted(g, project, credential, -1)

\* The row of a refused stranger takes a slot of the work, one at a time.
AdmitsAudit(s, g) == g.work < WorkLimit(s) /\ g.audit = 0
WithAudit(g) == [g EXCEPT !.work = @ + 1, !.audit = @ + 1]
WithoutAudit(g) == [g EXCEPT !.work = @ - 1, !.audit = @ - 1]

\* refusedAuthBudget: rows written this minute, and refusals no row has told of yet.
NewBudget == [samples |-> 0, suppressed |-> 0]
Renewed(b, minutePassed) == IF minutePassed THEN [b EXCEPT !.samples = 0] ELSE b
Samples(b) == b.samples < SamplesPerMinute
Sampled(b) == [samples |-> b.samples + 1, suppressed |-> 0]
Suppressed(b) == [b EXCEPT !.suppressed = Min({MaxSuppressed, @ + 1})]
=============================================================================
