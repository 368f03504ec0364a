---------------------------- MODULE AuditLedger -----------------------------
(* The ledger of operations: rows that draw their numbers before they      *)
(* commit, seals that chain over ranges of numbers, and verifications that *)
(* read the seals first and the rows afterwards, statement by statement.   *)
EXTENDS Integers, Sequences, FiniteSetsExt, SequencesExt
CONSTANTS Sealers,    \* who may ask for a seal: requests, the command line, the driver
          Auditors,   \* who may ask for a verification
          SealLimit   \* the most rows one seal covers (100,000)

VARIABLES entry,     \* by number: the row, and whether its transaction is open, kept or lost
          seals,     \* the seals, oldest first
          queued,    \* the sealers that wait for the table lock
          check,     \* the verification each auditor runs
          tampered   \* what was altered behind the ledger's back, for the properties only
ledgerVars == <<entry, seals, queued, check, tampered>>

Kept == {i \in DOMAIN entry : entry[i].state = "kept"}
Open == {i \in DOMAIN entry : entry[i].state = "open"}

\* A hash is its argument: two digests are the same exactly where what they digest is.
EntriesDigest(from, to) == {<<i, entry[i].row>> : i \in {j \in Kept : from <= j /\ j <= to}}
Zero == << >>
Chain(previous, entries) == Append(previous, entries)
Unchecked ==
    [at |-> "idle", seals |-> << >>, expected |-> Zero, entries |-> 0, unsealed |-> 0,
     before |-> FALSE, clean |-> TRUE, held |-> 0]

\* A ledger that begins with rows, those up to `covered` under a first seal, and with `ongoing`
\* in transactions that have not ended.
StartsWith(rows, covered, ongoing) ==
    /\ entry = [i \in 1 .. Len(rows) |->
                   [row |-> rows[i], state |-> IF i \in ongoing THEN "open" ELSE "kept"]]
    /\ seals = IF covered = 0 THEN << >>
               ELSE LET first == {<<i, rows[i]>> : i \in 1 .. covered}
                    IN <<[from |-> 0, to |-> covered, count |-> covered, entries |-> first,
                          previous |-> Zero, digest |-> Chain(Zero, first)]>>
    /\ queued = {}
    /\ check = [a \in Auditors |-> Unchecked]
    /\ tampered = FALSE

-----------------------------------------------------------------------------
\* An insert draws its number as it runs. The first of a transaction waits behind a sealer
\* that waits for the table; the others find its lock already held.
Draw(row, first) ==
    /\ first => queued = {}
    /\ entry' = Append(entry, [row |-> row, state |-> "open"])
    /\ UNCHANGED <<seals, queued, check, tampered>>

\* The transaction ends: its rows are there, or their numbers are holes for ever.
Settle(numbers, state) ==
    /\ numbers \subseteq Open
    /\ entry' = [i \in DOMAIN entry |->
                     IF i \in numbers THEN [entry[i] EXCEPT !.state = state] ELSE entry[i]]
    /\ UNCHANGED <<seals, queued, check, tampered>>

WaitToSeal(q) ==
    /\ queued' = queued \cup {q}
    /\ UNCHANGED <<entry, seals, check, tampered>>

LeaveQueue(q) ==
    /\ queued' = queued \ {q}
    /\ UNCHANGED <<entry, seals, check, tampered>>

\* The table lock conflicts with every open insert, and each statement after it reads what has
\* committed by then.
LockableAtOnce == TRUE
Lockable == Open = {}

Lowest == IF seals = << >> THEN 0 ELSE Last(seals).to + 1
LastDigest == IF seals = << >> THEN Zero ELSE Last(seals).digest
Fresh == {i \in Kept : i >= Lowest}
\* The SealLimit-th row from there, or the last there is.
Highest ==
    LET upTo(i) == Cardinality({j \in Fresh : j <= i})
    IN IF Cardinality(Fresh) >= SealLimit
       THEN CHOOSE i \in Fresh : upTo(i) = SealLimit
       ELSE Max(Fresh)
Covers(from, to) == Cardinality({i \in Kept : from <= i /\ i <= to})
NewSeal ==
    LET digest == EntriesDigest(Lowest, Highest)
    IN [from |-> Lowest, to |-> Highest, count |-> Covers(Lowest, Highest),
        entries |-> digest, previous |-> LastDigest, digest |-> Chain(LastDigest, digest)]

\* audit_seal_now. With nothing to cover it returns no row and writes no seal.
SealNow(q) ==
    /\ q \in queued
    /\ Lockable
    /\ seals' = IF Fresh = {} THEN seals ELSE Append(seals, NewSeal)
    /\ queued' = queued \ {q}
    /\ UNCHANGED <<entry, check, tampered>>

-----------------------------------------------------------------------------
\* Verify, one statement at a time.
ReadSeals(a) ==
    /\ check[a].at = "idle"
    /\ check' = [check EXCEPT ![a] =
           [Unchecked EXCEPT !.at = "seals", !.seals = seals, !.before = tampered]]
    /\ UNCHANGED <<entry, seals, queued, tampered>>

\* The rows first, then the link to the seal before, then the seal's own digest.
Agrees(s, expected) ==
    /\ EntriesDigest(s.from, s.to) = s.entries
    /\ s.previous = expected
    /\ Chain(s.previous, s.entries) = s.digest

CheckSeal(a) ==
    /\ check[a].at = "seals"
    /\ check[a].seals # << >>
    /\ LET c == check[a]
           s == Head(c.seals)
       IN check' = [check EXCEPT ![a] =
              IF Agrees(s, c.expected)
              THEN [c EXCEPT !.seals = Tail(@), !.expected = s.digest, !.entries = @ + s.count]
              ELSE [c EXCEPT !.at = "invalid", !.clean = ~tampered]]
    /\ UNCHANGED <<entry, seals, queued, tampered>>

\* The rows above the last seal there is now, which need not be the last one that was checked.
CountUnsealed(a) ==
    /\ check[a].at = "seals"
    /\ check[a].seals = << >>
    /\ check' = [check EXCEPT ![a] =
           [@ EXCEPT !.at = "valid", !.unsealed = Cardinality(Fresh), !.clean = ~tampered,
                     !.held = Cardinality(Kept)]]
    /\ UNCHANGED <<entry, seals, queued, tampered>>

AbandonCheck(a) ==
    /\ check[a].at = "seals"
    /\ check' = [check EXCEPT ![a] = Unchecked]
    /\ UNCHANGED <<entry, seals, queued, tampered>>

-----------------------------------------------------------------------------
\* Somebody who owns the database forges or removes a sealed row, or removes a seal that
\* another one follows. (The last seal, and rows no seal covers, leave no trace to find.)
Sealed == {i \in Kept : i < Lowest}
Forged(row) ==
    [row EXCEPT !.outcome = IF @ = "allowed" THEN "refused" ELSE "allowed"]
Tamper ==
    /\ ~tampered
    /\ tampered' = TRUE
    /\ \/ \E i \in Sealed :
            /\ entry' = [entry EXCEPT ![i] = [row |-> Forged(@.row), state |-> "kept"]]
            /\ UNCHANGED seals
       \/ \E i \in Sealed :
            /\ entry' = [entry EXCEPT ![i].state = "lost"]
            /\ UNCHANGED seals
       \/ \E i \in 1 .. Len(seals) - 1 :
            /\ seals' = RemoveAt(seals, i)
            /\ UNCHANGED entry
    /\ UNCHANGED <<queued, check>>

-----------------------------------------------------------------------------
\* A verification accuses only a ledger that was altered and clears none that had been altered
\* when it began; and of a ledger nobody altered it claims no more rows, sealed and unsealed
\* together, than the ledger held. The comment at AuditStore.Verify calls a verification that
\* overstates what it covers the one kind of wrong it must not be.
VerificationIsHonest ==
    \A a \in Auditors :
        /\ check[a].at = "invalid" => ~check[a].clean
        /\ check[a].at = "valid" /\ check[a].before => FALSE
        /\ check[a].at = "valid" /\ check[a].clean =>
               check[a].entries + check[a].unsealed <= check[a].held
=============================================================================
