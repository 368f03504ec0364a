------------------------- MODULE WorkerPassesProofs -------------------------
(* Proofs about the two passes a worker runs beside formation.  NotificationOutbox,  *)
(* for every set of endpoints and of workers, every budget and every number of lost  *)
(* answers: what is read as delivered was accepted, and a receiver is not asked      *)
(* forever.  Compaction, for every history, any number of replicas and every size of *)
(* segment, gap and tail: no summary outlives a turn it was written from, a context  *)
(* forgets nothing, and what is planned can be written.                              *)
EXTENDS NotificationOutbox, Compaction, FiniteSetTheorems, SequenceTheorems,
        WellFoundedInduction, TLAPS

-----------------------------------------------------------------------------
(* The notification outbox.                                                 *)

-----------------------------------------------------------------------------
(* The inductive invariant *)

\* The workers whose answer, once recorded, settles d whatever it is.
LastTries(d) == {w \in Workers : /\ worker[w].at \in OnDelivery
                                 /\ worker[w].on = d
                                 /\ worker[w].try >= Budget}

\* What a worker has read or claimed is there, and an accepted request was received.
WorkInv == \A w \in Workers :
    /\ worker[w].at = "owing" => worker[w].news \in Offsets
    /\ worker[w].at \in OnDelivery =>
           worker[w].on \in Deliveries /\ state[worker[w].on] # "none"
    /\ worker[w].at = "accepted" => worker[w].on \in received

\* While d is open, the tries the budget does not allow are all still under way, or lost.
TryInv == \A d \in Deliveries :
    /\ state[d] = "none" => attempts[d] = 0
    /\ state[d] \in Open =>
           attempts[d] <= Budget - 1 + Cardinality(LastTries(d)) + abandoned[d]

IInv == TypeOK /\ WorkInv /\ TryInv /\ DeliveredWasAccepted /\ RequestsAreBounded

-----------------------------------------------------------------------------
(* The queue *)

\* RemoveFirst takes one element out of a sequence without repetitions.
LEMMA RemovedIsGone ==
    ASSUME NEW S, NEW s \in Seq(S), IsInjective(s), NEW e
    PROVE  /\ RemoveFirst(s, e) \in Seq(S)
           /\ IsInjective(RemoveFirst(s, e))
           /\ ToSet(RemoveFirst(s, e)) = ToSet(s) \ {e}
<1>0. Len(s) \in Nat /\ DOMAIN s = 1 .. Len(s) /\ \A i \in 1 .. Len(s) : s[i] \in S
  BY LenProperties, ElementOfSeq
<1>1. CASE ~\E i \in 1 .. Len(s) : s[i] = e
  BY <1>0, <1>1 DEF RemoveFirst, ToSet
<1>2. CASE \E i \in 1 .. Len(s) : s[i] = e
  <2>1. PICK i \in 1 .. Len(s) : s[i] = e
    BY <1>2
  <2> DEFINE I == {j \in 1 .. Len(s) : s[j] = e}
             a == SubSeq(s, 1, i - 1)
             b == SubSeq(s, i + 1, Len(s))
             r == a \o b
  <2>2. I = {i}
    BY <1>0, <2>1 DEF IsInjective
  <2>3. Min(I) = i
    BY <2>1, <2>2 DEF Min
  <2>4. RemoveFirst(s, e) = RemoveAt(s, Min(I))
    BY <1>2 DEF RemoveFirst, SelectInSeq
  <2>5. RemoveFirst(s, e) = r
    BY <2>3, <2>4 DEF RemoveAt
  <2>6. a \in Seq(S) /\ Len(a) = i - 1 /\ \A k \in 1 .. i - 1 : a[k] = s[k]
    <3>1. \A k \in 1 .. i - 1 : s[k] \in S
      BY <1>0
    <3> QED BY <1>0, <3>1, SubSeqProperties
  <2>7. b \in Seq(S) /\ Len(b) = Len(s) - i /\ \A k \in 1 .. Len(s) - i : b[k] = s[i + k]
    <3>1. \A k \in i + 1 .. Len(s) : s[k] \in S
      BY <1>0
    <3>2. /\ b \in Seq(S)
          /\ Len(b) = IF i + 1 <= Len(s) THEN Len(s) - (i + 1) + 1 ELSE 0
          /\ \A k \in 1 .. Len(s) - (i + 1) + 1 : b[k] = s[(i + 1) + k - 1]
      BY <1>0, <3>1, SubSeqProperties
    <3> HIDE DEF b
    <3>3. Len(b) = Len(s) - i /\ Len(s) - (i + 1) + 1 = Len(s) - i
      <4>1. Len(b) = IF i + 1 <= Len(s) THEN Len(s) - (i + 1) + 1 ELSE 0
        BY <3>2
      <4>2. i \in Int /\ 1 <= i /\ i <= Len(s) /\ Len(s) \in Nat
        BY <1>0
      <4>3. Len(s) - (i + 1) + 1 = Len(s) - i
        BY <4>2
      <4>4. ~(i + 1 <= Len(s)) => Len(s) - i = 0
        BY <4>2
      <4> QED BY <4>1, <4>3, <4>4
    <3>4. \A k \in 1 .. Len(s) - i : (i + 1) + k - 1 = i + k
      BY <1>0
    <3> QED BY <3>2, <3>3, <3>4
  <2>8. /\ r \in Seq(S) /\ Len(r) = Len(s) - 1
        /\ \A k \in 1 .. Len(s) - 1 : r[k] = IF k < i THEN s[k] ELSE s[k + 1]
    <3> HIDE DEF a, b
    <3>1. /\ r \in Seq(S) /\ Len(r) = Len(a) + Len(b)
          /\ \A k \in 1 .. Len(a) + Len(b) :
                r[k] = IF k <= Len(a) THEN a[k] ELSE b[k - Len(a)]
      BY <2>6, <2>7, ConcatProperties
    <3> HIDE DEF r
    <3>2. ASSUME NEW k \in 1 .. Len(s) - 1
          PROVE  r[k] = IF k < i THEN s[k] ELSE s[k + 1]
      <4>1. CASE k < i
        <5>1. k \in 1 .. i - 1 /\ k <= Len(a) /\ k \in 1 .. Len(a) + Len(b)
          BY <1>0, <2>6, <2>7, <4>1
        <5>2. r[k] = a[k] /\ a[k] = s[k]
          BY <2>6, <3>1, <5>1
        <5> QED BY <4>1, <5>2
      <4>2. CASE ~(k < i)
        <5>1. /\ k - Len(a) \in 1 .. Len(s) - i /\ i + (k - Len(a)) = k + 1
              /\ k \in 1 .. Len(a) + Len(b) /\ ~(k <= Len(a))
          <6>1. Len(a) = i - 1 /\ Len(b) = Len(s) - i /\ Len(s) \in Nat
            BY <1>0, <2>6, <2>7
          <6> QED BY <4>2, <6>1
        <5>2. r[k] = b[k - Len(a)]
          BY <3>1, <5>1
        <5> QED BY <2>7, <4>2, <5>1, <5>2
      <4> QED BY <4>1, <4>2
    <3> QED BY <1>0, <2>6, <2>7, <3>1, <3>2
  <2> HIDE DEF r
  <2>9. DOMAIN r = 1 .. Len(s) - 1
    BY <2>8, LenProperties
  <2>10. IsInjective(r)
    BY <1>0, <2>8, <2>9 DEF IsInjective
  <2>11. ToSet(r) = ToSet(s) \ {e}
    <3>1. ASSUME NEW k \in 1 .. Len(s) - 1 PROVE r[k] \in ToSet(s) \ {e}
      BY <1>0, <2>2, <2>8, <3>1 DEF ToSet
    <3>2. ASSUME NEW j \in 1 .. Len(s), s[j] # e PROVE s[j] \in ToSet(r)
      <4>1. CASE j < i
        <5>1. j \in 1 .. Len(s) - 1 /\ r[j] = s[j]
          BY <1>0, <2>8, <4>1
        <5> QED BY <2>9, <5>1 DEF ToSet
      <4>2. CASE ~(j < i)
        <5>1. j - 1 \in 1 .. Len(s) - 1 /\ r[j - 1] = s[j]
          BY <1>0, <2>1, <2>8, <3>2, <4>2
        <5> QED BY <2>9, <5>1 DEF ToSet
      <4> QED BY <4>1, <4>2
    <3> QED BY <1>0, <2>9, <3>1, <3>2 DEF ToSet
  <2> QED BY <2>5, <2>8, <2>10, <2>11
<1> QED BY <1>1, <1>2

\* A sequence without repetitions stays one when elements join it that are not there.
LEMMA JoinedIsThere ==
    ASSUME NEW S, NEW s \in Seq(S), NEW t \in Seq(S), IsInjective(s), IsInjective(t),
           ToSet(s) \cap ToSet(t) = {}
    PROVE  /\ s \o t \in Seq(S)
           /\ IsInjective(s \o t)
           /\ ToSet(s \o t) = ToSet(s) \cup ToSet(t)
<1> DEFINE r == s \o t
<1>1. /\ Len(s) \in Nat /\ DOMAIN s = 1 .. Len(s)
      /\ Len(t) \in Nat /\ DOMAIN t = 1 .. Len(t)
  BY LenProperties
<1>2. /\ r \in Seq(S) /\ Len(r) = Len(s) + Len(t)
      /\ \A i \in 1 .. Len(s) + Len(t) : r[i] = IF i <= Len(s) THEN s[i] ELSE t[i - Len(s)]
  BY ConcatProperties
<1> HIDE DEF r
<1>3. DOMAIN r = 1 .. Len(s) + Len(t)
  BY <1>2, LenProperties
<1>4. \A i \in 1 .. Len(s) + Len(t) : ~(i <= Len(s)) => i - Len(s) \in 1 .. Len(t)
  BY <1>1
<1>5. IsInjective(r)
  <2> SUFFICES ASSUME NEW i \in 1 .. Len(s) + Len(t), NEW j \in 1 .. Len(s) + Len(t),
                      r[i] = r[j]
               PROVE  i = j
    BY <1>3 DEF IsInjective
  <2>1. CASE i <= Len(s) /\ j <= Len(s)
    BY <1>1, <1>2, <2>1 DEF IsInjective
  <2>2. CASE ~(i <= Len(s)) /\ ~(j <= Len(s))
    <3>1. t[i - Len(s)] = t[j - Len(s)]
      BY <1>2, <2>2
    <3>2. i - Len(s) = j - Len(s)
      BY <1>1, <1>4, <2>2, <3>1 DEF IsInjective
    <3> QED BY <1>1, <3>2
  <2>3. CASE i <= Len(s) /\ ~(j <= Len(s))
    <3>1. s[i] = t[j - Len(s)] /\ i \in DOMAIN s /\ j - Len(s) \in DOMAIN t
      BY <1>1, <1>2, <1>4, <2>3
    <3> QED BY <3>1 DEF ToSet
  <2>4. CASE ~(i <= Len(s)) /\ j <= Len(s)
    <3>1. s[j] = t[i - Len(s)] /\ j \in DOMAIN s /\ i - Len(s) \in DOMAIN t
      BY <1>1, <1>2, <1>4, <2>4
    <3> QED BY <3>1 DEF ToSet
  <2> QED BY <2>1, <2>2, <2>3, <2>4
<1>6. ToSet(r) = ToSet(s) \cup ToSet(t)
  <2>1. ASSUME NEW i \in 1 .. Len(s) + Len(t) PROVE r[i] \in ToSet(s) \cup ToSet(t)
    <3>1. CASE i <= Len(s)
      <4>1. r[i] = s[i] /\ i \in DOMAIN s
        BY <1>1, <1>2, <3>1
      <4> QED BY <4>1 DEF ToSet
    <3>2. CASE ~(i <= Len(s))
      <4>1. r[i] = t[i - Len(s)] /\ i - Len(s) \in DOMAIN t
        BY <1>1, <1>2, <1>4, <3>2
      <4> QED BY <4>1 DEF ToSet
    <3> QED BY <3>1, <3>2
  <2>2. ASSUME NEW i \in 1 .. Len(s) PROVE s[i] \in ToSet(r)
    <3>1. i \in 1 .. Len(s) + Len(t) /\ r[i] = s[i]
      BY <1>1, <1>2
    <3> QED BY <1>3, <3>1 DEF ToSet
  <2>3. ASSUME NEW i \in 1 .. Len(t) PROVE t[i] \in ToSet(r)
    <3>1. Len(s) + i \in 1 .. Len(s) + Len(t) /\ r[Len(s) + i] = t[i]
      BY <1>1, <1>2
    <3> QED BY <1>3, <3>1 DEF ToSet
  <2> QED BY <1>1, <1>3, <2>1, <2>2, <2>3 DEF ToSet
<1> QED BY <1>2, <1>5, <1>6 DEF r

\* An order of a finite set is a sequence of all its members, each once.
LEMMA OrderHasEach ==
    ASSUME NEW S, NEW T \in SUBSET S, IsFiniteSet(T), NEW s \in SetToSeqs(T)
    PROVE  s \in Seq(S) /\ IsInjective(s) /\ ToSet(s) = T
<1> DEFINE n == Cardinality(T)
<1>1. n \in Nat
  BY FS_CardinalityType
<1>2. s \in [1 .. n -> T] /\ \A i, j \in 1 .. n : i # j => s[i] # s[j]
  BY DEF SetToSeqs
<1> HIDE DEF n
<1>3. s \in Seq(S)
  BY <1>1, <1>2
<1>4. IsInjective(s)
  BY <1>2 DEF IsInjective
<1>5. s \in Injection(1 .. n, T)
  BY <1>2, <1>4 DEF Injection
<1>6. Cardinality(1 .. n) = n
  BY <1>1, FS_Interval
<1>7. s \in Surjection(1 .. n, T)
  BY <1>5, <1>6, FS_Injection DEF n
<1>8. ToSet(s) = T
  BY <1>2, <1>7 DEF Surjection, ToSet
<1> QED BY <1>3, <1>4, <1>8

-----------------------------------------------------------------------------
(* Who is at a delivery's last try *)

LEMMA CountIsNatural ==
    ASSUME NEW d
    PROVE  /\ IsFiniteSet(LastTries(d)) /\ LastTries(d) \subseteq Workers
           /\ Cardinality(LastTries(d)) \in Nat
           /\ Cardinality(Workers) \in Nat
           /\ Cardinality(LastTries(d)) <= Cardinality(Workers)
<1>1. LastTries(d) \in SUBSET Workers
  BY DEF LastTries
<1> QED BY <1>1, OutboxAssumption, FS_Subset, FS_CardinalityType

\* When one worker goes from r to q, only it can join or leave the last tries of d.
LEMMA OneWorkerMoves ==
    ASSUME TypeOK, NEW w \in Workers, NEW q, worker' = [worker EXCEPT ![w] = q], NEW d
    PROVE  /\ Cardinality(LastTries(d)') \in Nat
           /\ Cardinality(LastTries(d)') >= Cardinality(LastTries(d)) - 1
           /\ w \notin LastTries(d) =>
                  /\ Cardinality(LastTries(d)') >= Cardinality(LastTries(d))
                  /\ q.at \in OnDelivery /\ q.on = d /\ q.try >= Budget =>
                        Cardinality(LastTries(d)') = Cardinality(LastTries(d)) + 1
<1> DEFINE A == LastTries(d)
           B == {v \in Workers : /\ worker'[v].at \in OnDelivery
                                 /\ worker'[v].on = d
                                 /\ worker'[v].try >= Budget}
<1>1. LastTries(d)' = B
  BY DEF LastTries
<1>2. worker'[w] = q /\ \A v \in Workers \ {w} : worker'[v] = worker[v]
  BY DEF TypeOK
<1>3. A \ {w} = B \ {w} /\ A \in SUBSET Workers /\ B \in SUBSET Workers
  BY <1>2 DEF LastTries
<1>4. w \in B <=> q.at \in OnDelivery /\ q.on = d /\ q.try >= Budget
  BY <1>2
<1> HIDE DEF A, B
<1>5. /\ IsFiniteSet(A) /\ IsFiniteSet(B) /\ Cardinality(A) \in Nat /\ Cardinality(B) \in Nat
  BY <1>3, OutboxAssumption, FS_Subset, FS_CardinalityType
<1>6. /\ Cardinality(A \ {w}) = IF w \in A THEN Cardinality(A) - 1 ELSE Cardinality(A)
      /\ Cardinality(B \ {w}) = IF w \in B THEN Cardinality(B) - 1 ELSE Cardinality(B)
  BY <1>5, FS_RemoveElement
<1>7. /\ Cardinality(B) >= Cardinality(A) - 1
      /\ w \notin A => /\ Cardinality(B) >= Cardinality(A)
                       /\ w \in B => Cardinality(B) = Cardinality(A) + 1
  BY <1>3, <1>5, <1>6
<1> QED BY <1>1, <1>4, <1>5, <1>7 DEF A

-----------------------------------------------------------------------------
(* Outside the workers *)

\* What moves no worker and no count of attempts, and opens nothing that was settled.
LEMMA NobodyMoves ==
    ASSUME IInv, TypeOK', UNCHANGED <<attempts, worker, received, abandoned>>,
           \A d \in Deliveries : state'[d] = state[d] \/ (state[d] \in Open /\ state'[d] \in Open)
    PROVE  IInv'
<1>1. \A d \in Deliveries : LastTries(d)' = LastTries(d)
  BY DEF LastTries
<1>2. WorkInv'
  BY DEF IInv, WorkInv, Open
<1>3. TryInv'
  BY <1>1 DEF IInv, TryInv, Open
<1>4. DeliveredWasAccepted'
  BY DEF IInv, DeliveredWasAccepted, Open
<1>5. RequestsAreBounded'
  BY DEF IInv, RequestsAreBounded
<1> QED BY <1>2, <1>3, <1>4, <1>5 DEF IInv

LEMMA WatermarkMovesKeepsIt == IInv /\ WatermarkMoves => IInv'
<1> SUFFICES ASSUME IInv, WatermarkMoves PROVE IInv'
  OBVIOUS
<1>1. TypeOK'
  BY DEF IInv, TypeOK, WatermarkMoves
<1> QED BY <1>1, NobodyMoves DEF WatermarkMoves

LEMMA RegisterKeepsIt ==
    ASSUME IInv, NEW e \in Endpoints, Register(e) \/ Disable(e) PROVE IInv'
<1>1. TypeOK'
  BY DEF IInv, TypeOK, Register, Disable
<1> QED BY <1>1, NobodyMoves DEF Register, Disable

LEMMA BackoffKeepsIt == ASSUME IInv, NEW d \in Deliveries, BackoffElapses(d) PROVE IInv'
<1>0. state[d] = "waiting" /\ state' = [state EXCEPT ![d] = "due"] /\ queue' = Append(queue, d)
  BY DEF BackoffElapses
<1>1. queue \in Seq(Deliveries) /\ IsInjective(queue)
  BY DEF IInv, TypeOK
<1>2. <<d>> \in Seq(Deliveries) /\ IsInjective(<<d>>) /\ ToSet(<<d>>) = {d}
  BY DEF IsInjective, ToSet
<1>3. Append(queue, d) = queue \o <<d>>
  BY <1>1, AppendIsConcat
<1>4. d \notin ToSet(queue)
  BY <1>0 DEF IInv, TypeOK
<1>5. queue' \in Seq(Deliveries) /\ IsInjective(queue') /\ ToSet(queue') = ToSet(queue) \cup {d}
  <2>1. PICK t : t = <<d>>
    OBVIOUS
  <2>2. /\ queue' = queue \o t /\ ToSet(t) = {d} /\ ToSet(queue) \cap ToSet(t) = {}
        /\ t \in Seq(Deliveries) /\ IsInjective(t)
    BY <1>0, <1>2, <1>3, <1>4, <2>1
  <2> QED BY <1>1, <2>2, JoinedIsThere
<1>6. ToSet(queue)' = ToSet(queue')
  BY DEF ToSet
<1>7. IsInjective(queue)'
  BY <1>5 DEF IsInjective
<1>8. TypeOK'
  BY <1>0, <1>5, <1>6, <1>7 DEF IInv, TypeOK, BackoffElapses, States
<1>9. \A x \in Deliveries : state'[x] = state[x] \/ (state[x] \in Open /\ state'[x] \in Open)
  BY <1>0 DEF IInv, TypeOK, Open
<1>10. UNCHANGED <<attempts, worker, received, abandoned>>
  BY DEF BackoffElapses
<1> QED BY <1>8, <1>9, <1>10, NobodyMoves

-----------------------------------------------------------------------------
(* A worker's steps *)

\* What a worker may hold, and what an answer it has makes true.
Sound(q) ==
    /\ q.at = "owing" => q.news \in Offsets
    /\ q.at \in OnDelivery => q.on \in Deliveries /\ state'[q.on] # "none"
    /\ q.at = "accepted" => q.on \in received'

\* A worker that changes no row, and whose last try is not forgotten.
LEMMA RowsStay ==
    ASSUME IInv, TypeOK', NEW w \in Workers, NEW q, worker' = [worker EXCEPT ![w] = q],
           UNCHANGED <<state, attempts>>, received \subseteq received', Sound(q),
           \A d \in Deliveries :
              /\ abandoned[d] <= abandoned'[d]
              /\ w \in LastTries(d) =>
                    \/ q.at \in OnDelivery /\ q.on = d /\ q.try >= Budget
                    \/ abandoned'[d] >= abandoned[d] + 1
    PROVE  IInv'
<1>1. WorkInv'
  <2> SUFFICES ASSUME NEW v \in Workers
               PROVE  /\ worker'[v].at = "owing" => worker'[v].news \in Offsets
                      /\ worker'[v].at \in OnDelivery =>
                            worker'[v].on \in Deliveries /\ state'[worker'[v].on] # "none"
                      /\ worker'[v].at = "accepted" => worker'[v].on \in received'
    BY DEF WorkInv, Offsets, Deliveries
  <2>1. CASE v = w
    BY <2>1 DEF IInv, TypeOK, Sound
  <2>2. CASE v # w
    BY <2>2 DEF IInv, TypeOK, WorkInv
  <2> QED BY <2>1, <2>2
<1>2. ASSUME NEW d \in Deliveries
      PROVE  Cardinality(LastTries(d)) + abandoned[d] <=
                Cardinality(LastTries(d)') + abandoned'[d]
  <2>0. /\ abandoned[d] \in Nat /\ abandoned'[d] \in Nat
        /\ Cardinality(LastTries(d)) \in Nat /\ Cardinality(LastTries(d)') \in Nat
    BY CountIsNatural, OneWorkerMoves DEF IInv, TypeOK
  <2>1. CASE w \notin LastTries(d)
    <3>1. Cardinality(LastTries(d)') >= Cardinality(LastTries(d))
      BY <2>1, OneWorkerMoves DEF IInv
    <3> QED BY <2>0, <3>1
  <2>2. CASE w \in LastTries(d) /\ abandoned'[d] >= abandoned[d] + 1
    <3>1. Cardinality(LastTries(d)') >= Cardinality(LastTries(d)) - 1
      BY OneWorkerMoves DEF IInv
    <3> QED BY <2>0, <2>2, <3>1
  <2>3. CASE w \in LastTries(d) /\ q.at \in OnDelivery /\ q.on = d /\ q.try >= Budget
    <3>1. LastTries(d)' = LastTries(d)
      BY <2>3 DEF LastTries, IInv, TypeOK
    <3> QED BY <2>0, <3>1
  <2> QED BY <2>1, <2>2, <2>3
<1>3. ASSUME NEW d \in Deliveries
      PROVE  /\ abandoned[d] \in Nat /\ abandoned'[d] \in Nat /\ attempts[d] \in Nat
             /\ Cardinality(LastTries(d)) \in Nat /\ Cardinality(LastTries(d)') \in Nat
             /\ Cardinality(Workers) \in Nat /\ Budget \in Nat
  BY CountIsNatural, OneWorkerMoves, OutboxAssumption DEF IInv, TypeOK
<1>4. TryInv'
  <2> SUFFICES ASSUME NEW d \in Deliveries
               PROVE  /\ state'[d] = "none" => attempts'[d] = 0
                      /\ state'[d] \in Open => attempts'[d] <=
                            Budget - 1 + Cardinality(LastTries(d)') + abandoned'[d]
    BY DEF TryInv, Open, Deliveries, Offsets
  <2>1. state[d] \in Open => attempts[d] <= Budget - 1 + Cardinality(LastTries(d)) + abandoned[d]
    BY DEF IInv, TryInv
  <2>2. state'[d] \in Open => attempts'[d] <= Budget - 1 + Cardinality(LastTries(d)') + abandoned'[d]
    BY <1>2, <1>3, <2>1
  <2> QED BY <2>2 DEF IInv, TryInv
<1>5. DeliveredWasAccepted'
  BY DEF IInv, DeliveredWasAccepted
<1>6. RequestsAreBounded'
  <2> SUFFICES ASSUME NEW d \in Deliveries
               PROVE  attempts'[d] <= Budget + (Cardinality(Workers) - 1) + abandoned'[d]
    BY DEF RequestsAreBounded, Deliveries, Offsets
  <2>1. attempts[d] <= Budget + (Cardinality(Workers) - 1) + abandoned[d]
    BY DEF IInv, RequestsAreBounded
  <2> QED BY <1>3, <2>1
<1> QED BY <1>1, <1>4, <1>5, <1>6 DEF IInv

LEMMA StartedIsSound ==
    ASSUME NEW step \in {"projecting", "delivering"}
    PROVE  /\ At(step) \in [at : Steps, news : Offsets \cup {NoOffset},
                            on : Deliveries \cup {None}, try : Nat, left : 0 .. PerPass]
           /\ At(step).at \notin OnDelivery \cup {"owing"}
           /\ Sound(At(step))
BY OutboxAssumption DEF At, Steps, OnDelivery, Sound

LEMMA PassGoesOn ==
    ASSUME IInv, NEW w \in Workers, NoNews(w) \/ ReadFreshness(w) \/ EndPass(w) PROVE IInv'
<1>1. \A d \in Deliveries : w \notin LastTries(d)
  BY DEF NoNews, ReadFreshness, EndPass, LastTries, OnDelivery
<1>2. UNCHANGED <<endpoint, state, attempts, queue, received, abandoned, formed>>
  BY DEF NoNews, ReadFreshness, EndPass
<1>3. PICK q \in [at : Steps, news : Offsets \cup {NoOffset}, on : Deliveries \cup {None},
                  try : Nat, left : 0 .. PerPass] :
          worker' = [worker EXCEPT ![w] = q] /\ Sound(q)
  <2>1. CASE NoNews(w)
    BY <2>1, StartedIsSound DEF NoNews
  <2>2. CASE EndPass(w)
    BY <2>2, StartedIsSound DEF EndPass
  <2>3. CASE ReadFreshness(w)
    <3>1. formed \in Offsets
      BY <2>3 DEF ReadFreshness, IInv, TypeOK
    <3> DEFINE q == [At("owing") EXCEPT !.news = formed]
    <3>2. q \in [at : Steps, news : Offsets \cup {NoOffset}, on : Deliveries \cup {None},
                 try : Nat, left : 0 .. PerPass] /\ Sound(q)
      BY <3>1, OutboxAssumption DEF At, Steps, OnDelivery, Sound
    <3> QED BY <2>3, <3>2 DEF ReadFreshness
  <2> QED BY <2>1, <2>2, <2>3
<1>4. TypeOK'
  BY <1>2, <1>3 DEF IInv, TypeOK
<1>5. \A d \in Deliveries : abandoned[d] <= abandoned'[d]
  BY <1>2 DEF IInv, TypeOK
<1> QED BY <1>1, <1>2, <1>3, <1>4, <1>5, RowsStay

LEMMA SendKeepsIt == ASSUME IInv, NEW w \in Workers, Send(w) PROVE IInv'
<1>0. /\ worker[w].at = "sending" /\ worker[w].on \in Deliveries
      /\ state[worker[w].on] # "none"
  BY DEF Send, IInv, WorkInv, OnDelivery
<1>1. UNCHANGED <<formed, endpoint, state, attempts, queue, abandoned>>
  BY DEF Send
<1>2. PICK result \in {"accepted", "refused", "failed"} :
          /\ worker' = [worker EXCEPT ![w].at = result]
          /\ received' = received \cup {worker[w].on}
             \/ (result # "accepted" /\ received' = received)
  BY DEF Send
<1> DEFINE q == [worker[w] EXCEPT !.at = result]
<1>3. worker' = [worker EXCEPT ![w] = q]
  BY <1>2 DEF IInv, TypeOK
<1>4. /\ q.at = result /\ q.on = worker[w].on /\ q.try = worker[w].try
      /\ q \in [at : Steps, news : Offsets \cup {NoOffset}, on : Deliveries \cup {None},
                try : Nat, left : 0 .. PerPass]
  BY <1>2 DEF IInv, TypeOK, Steps
<1> HIDE DEF q
<1>5. TypeOK'
  BY <1>0, <1>1, <1>2, <1>3, <1>4 DEF IInv, TypeOK
<1>6. Sound(q)
  BY <1>0, <1>1, <1>2, <1>4 DEF Sound
<1>7. \A d \in Deliveries :
          /\ abandoned[d] <= abandoned'[d]
          /\ w \in LastTries(d) => q.at \in OnDelivery /\ q.on = d /\ q.try >= Budget
  BY <1>1, <1>4 DEF IInv, TypeOK, LastTries, OnDelivery
<1>8. received \subseteq received'
  BY <1>2
<1> QED BY <1>1, <1>3, <1>5, <1>6, <1>7, <1>8, RowsStay

LEMMA AbandonKeepsIt == ASSUME IInv, NEW w \in Workers, Abandon(w) PROVE IInv'
<1>0. \A d \in Deliveries : abandoned[d] \in Nat
  BY DEF IInv, TypeOK
<1>1. UNCHANGED <<formed, endpoint, state, attempts, queue, received>>
  BY DEF Abandon
<1>2. worker' = [worker EXCEPT ![w] = At("projecting")]
  BY DEF Abandon
<1>3. IF worker[w].at \in OnDelivery
      THEN /\ worker[w].on \in Deliveries
           /\ abandoned' = [abandoned EXCEPT ![worker[w].on] = abandoned[worker[w].on] + 1]
      ELSE abandoned' = abandoned
  BY DEF Abandon, IInv, WorkInv
<1>4. TypeOK'
  <2>1. abandoned' \in [Deliveries -> Nat]
    <3>1. abandoned \in [Deliveries -> Nat]
      BY DEF IInv, TypeOK
    <3>2. CASE worker[w].at \in OnDelivery
      BY <1>0, <1>3, <3>1, <3>2
    <3> QED BY <1>3, <3>1, <3>2
  <2>2. worker' \in [Workers -> [at : Steps, news : Offsets \cup {NoOffset},
                                on : Deliveries \cup {None}, try : Nat, left : 0 .. PerPass]]
    BY <1>2, StartedIsSound DEF IInv, TypeOK
  <2> QED BY <1>1, <2>1, <2>2 DEF IInv, TypeOK
<1>5. ASSUME NEW d \in Deliveries
      PROVE  /\ abandoned[d] <= abandoned'[d]
             /\ w \in LastTries(d) => abandoned'[d] >= abandoned[d] + 1
  <2>1. abandoned[d] \in Nat /\ abandoned \in [Deliveries -> Nat]
    BY DEF IInv, TypeOK
  <2>2. CASE worker[w].at \in OnDelivery /\ worker[w].on = d
    <3>1. abandoned'[d] = abandoned[d] + 1
      BY <1>3, <2>1, <2>2
    <3> QED BY <2>1, <3>1
  <2>3. CASE ~(worker[w].at \in OnDelivery /\ worker[w].on = d)
    <3>1. abandoned'[d] = abandoned[d] /\ w \notin LastTries(d)
      BY <1>3, <2>1, <2>3 DEF LastTries
    <3> QED BY <2>1, <3>1
  <2> QED BY <2>2, <2>3
<1> QED BY <1>1, <1>2, <1>4, <1>5, StartedIsSound, RowsStay

\* The rows that are owed and were not there become due, each once.
LEMMA OweKeepsIt == ASSUME IInv, NEW w \in Workers, Owe(w) PROVE IInv'
<1> DEFINE new == {<<e, worker[w].news>> : e \in {x \in Endpoints : endpoint[x] = "live"}}
                  \cap {d \in Deliveries : state[d] = "none"}
<1>1. PICK order \in SetToSeqs(new) : queue' = queue \o order
  BY DEF Owe
<1>2. state' = [d \in Deliveries |-> IF d \in new THEN "due" ELSE state[d]]
  BY DEF Owe
<1>3. UNCHANGED <<formed, endpoint, attempts, received, abandoned>>
  BY DEF Owe
<1>4. worker' = [worker EXCEPT ![w] = At("delivering")] /\ worker[w].at = "owing"
  BY DEF Owe
<1>5. new \in SUBSET Deliveries /\ \A d \in new : state[d] = "none"
  OBVIOUS
<1> HIDE DEF new
<1>6. IsFiniteSet(new)
  <2>1. IsFiniteSet(Offsets)
    BY OutboxAssumption, FS_Interval DEF Offsets
  <2>2. IsFiniteSet(Deliveries)
    BY <2>1, OutboxAssumption, FS_Product DEF Deliveries
  <2> QED BY <1>5, <2>2, FS_Subset
<1>7. order \in Seq(Deliveries) /\ IsInjective(order) /\ ToSet(order) = new
  BY <1>5, <1>6, OrderHasEach
<1>8. queue \in Seq(Deliveries) /\ IsInjective(queue) /\ ToSet(queue) \cap ToSet(order) = {}
  BY <1>5, <1>7 DEF IInv, TypeOK
<1>9. /\ queue' \in Seq(Deliveries) /\ IsInjective(queue')
      /\ ToSet(queue') = ToSet(queue) \cup new
  BY <1>1, <1>7, <1>8, JoinedIsThere
<1>10. ToSet(queue') = {d \in Deliveries : state'[d] = "due"}
  BY <1>2, <1>5, <1>9 DEF IInv, TypeOK
<1>11. state' \in [Deliveries -> States]
  BY <1>2 DEF IInv, TypeOK, States
<1>12. worker' \in [Workers -> [at : Steps, news : Offsets \cup {NoOffset},
                               on : Deliveries \cup {None}, try : Nat, left : 0 .. PerPass]]
  BY <1>4, StartedIsSound DEF IInv, TypeOK
<1>13. TypeOK'
  <2>1. ToSet(queue)' = ToSet(queue') /\ (IsInjective(queue') => IsInjective(queue)')
    BY DEF ToSet, IsInjective
  <2> QED BY <1>3, <1>9, <1>10, <1>11, <1>12, <2>1 DEF IInv, TypeOK
<1>14. WorkInv'
  <2> SUFFICES ASSUME NEW v \in Workers
               PROVE  /\ worker'[v].at = "owing" => worker'[v].news \in Offsets
                      /\ worker'[v].at \in OnDelivery =>
                            worker'[v].on \in Deliveries /\ state'[worker'[v].on] # "none"
                      /\ worker'[v].at = "accepted" => worker'[v].on \in received'
    BY DEF WorkInv, Offsets, Deliveries
  <2>1. CASE v = w
    BY <1>4, <2>1, StartedIsSound DEF IInv, TypeOK, OnDelivery
  <2>2. CASE v # w
    BY <1>2, <1>3, <1>4, <2>2 DEF IInv, TypeOK, WorkInv
  <2> QED BY <2>1, <2>2
<1>15. ASSUME NEW d \in Deliveries
       PROVE  LastTries(d)' = LastTries(d) /\ Cardinality(LastTries(d)) \in Nat
  <2>1. At("delivering").at \notin OnDelivery /\ worker[w].at \notin OnDelivery
    BY <1>4 DEF At, OnDelivery
  <2>2. LastTries(d)' = LastTries(d)
    BY <1>4, <2>1 DEF LastTries, IInv, TypeOK
  <2> QED BY <2>2, CountIsNatural
<1>16. TryInv'
  <2> SUFFICES ASSUME NEW d \in Deliveries
               PROVE  /\ state'[d] = "none" => attempts'[d] = 0
                      /\ state'[d] \in Open => attempts'[d] <=
                            Budget - 1 + Cardinality(LastTries(d)') + abandoned'[d]
    BY DEF TryInv, Open, Deliveries, Offsets
  <2>1. /\ state[d] = "none" => attempts[d] = 0
        /\ state[d] \in Open => attempts[d] <=
              Budget - 1 + Cardinality(LastTries(d)) + abandoned[d]
    BY DEF IInv, TryInv
  <2>2. abandoned[d] \in Nat /\ Cardinality(LastTries(d)) \in Nat /\ Budget \in Nat \ {0}
    BY <1>15, OutboxAssumption DEF IInv, TypeOK
  <2>3. CASE d \in new
    <3>1. attempts[d] = 0 /\ state'[d] = "due"
      BY <1>2, <1>5, <2>1, <2>3
    <3> QED BY <1>3, <1>15, <2>2, <3>1
  <2>4. CASE d \notin new
    <3>1. state'[d] = state[d]
      BY <1>2, <2>4
    <3> QED BY <1>3, <1>15, <2>1, <3>1
  <2> QED BY <2>3, <2>4
<1>17. DeliveredWasAccepted'
  BY <1>2, <1>3 DEF IInv, DeliveredWasAccepted
<1>18. RequestsAreBounded'
  BY <1>3 DEF IInv, RequestsAreBounded
<1> QED BY <1>13, <1>14, <1>16, <1>17, <1>18 DEF IInv

\* A claim within the budget is counted below it, and one beyond is a last try under way.
LEMMA ClaimKeepsIt == ASSUME IInv, NEW w \in Workers, Claim(w) PROVE IInv'
<1>1. PICK i \in DOMAIN queue :
          /\ worker[w].at = "delivering" /\ worker[w].left > 0
          /\ attempts' = [attempts EXCEPT ![queue[i]] = @ + 1]
          /\ worker' = [worker EXCEPT ![w] =
                [worker[w] EXCEPT !.at = "sending", !.on = queue[i],
                                  !.try = attempts[queue[i]] + 1, !.left = worker[w].left - 1]]
          /\ UNCHANGED <<formed, endpoint, state, queue, received, abandoned>>
  BY DEF Claim
<1> DEFINE d == queue[i]
           q == [worker[w] EXCEPT !.at = "sending", !.on = d,
                                  !.try = attempts[d] + 1, !.left = worker[w].left - 1]
<1>2. d \in Deliveries /\ state[d] = "due"
  BY DEF IInv, TypeOK, ToSet
<1>3. attempts[d] \in Nat /\ attempts' = [attempts EXCEPT ![d] = attempts[d] + 1]
  BY <1>1, <1>2 DEF IInv, TypeOK
<1>4. /\ q.at = "sending" /\ q.on = d /\ q.try = attempts[d] + 1
      /\ q \in [at : Steps, news : Offsets \cup {NoOffset}, on : Deliveries \cup {None},
                try : Nat, left : 0 .. PerPass]
      /\ worker' = [worker EXCEPT ![w] = q]
  <2>1. worker[w].left - 1 \in 0 .. PerPass
    BY <1>1, OutboxAssumption DEF IInv, TypeOK
  <2>2. worker' = [worker EXCEPT ![w] = q]
    BY <1>1
  <2>3. worker[w] \in [at : Steps, news : Offsets \cup {NoOffset}, on : Deliveries \cup {None},
                       try : Nat, left : 0 .. PerPass]
    BY DEF IInv, TypeOK
  <2>4. d \in Deliveries \cup {None} /\ attempts[d] + 1 \in Nat /\ "sending" \in Steps
    BY <1>2, <1>3 DEF Steps
  <2> HIDE DEF d
  <2>5. /\ q.at = "sending" /\ q.on = d /\ q.try = attempts[d] + 1
        /\ q \in [at : Steps, news : Offsets \cup {NoOffset}, on : Deliveries \cup {None},
                  try : Nat, left : 0 .. PerPass]
    BY <2>1, <2>3, <2>4
  <2> QED BY <2>2, <2>5
<1> HIDE DEF d, q
<1>5. UNCHANGED <<formed, endpoint, state, queue, received, abandoned>>
  BY <1>1
<1>6. TypeOK'
  BY <1>2, <1>3, <1>4, <1>5 DEF IInv, TypeOK
<1>7. WorkInv'
  <2> SUFFICES ASSUME NEW v \in Workers
               PROVE  /\ worker'[v].at = "owing" => worker'[v].news \in Offsets
                      /\ worker'[v].at \in OnDelivery =>
                            worker'[v].on \in Deliveries /\ state'[worker'[v].on] # "none"
                      /\ worker'[v].at = "accepted" => worker'[v].on \in received'
    BY DEF WorkInv, Offsets, Deliveries
  <2>1. CASE v = w
    BY <1>2, <1>4, <1>5, <2>1 DEF IInv, TypeOK
  <2>2. CASE v # w
    BY <1>4, <1>5, <2>2 DEF IInv, TypeOK, WorkInv
  <2> QED BY <2>1, <2>2
<1>8. ASSUME NEW x \in Deliveries
      PROVE  /\ w \notin LastTries(x)
             /\ Cardinality(LastTries(x)) \in Nat /\ Cardinality(LastTries(x)') \in Nat
             /\ Cardinality(LastTries(x)') >= Cardinality(LastTries(x))
             /\ x = d /\ attempts[d] + 1 >= Budget =>
                   Cardinality(LastTries(x)') = Cardinality(LastTries(x)) + 1
             /\ abandoned[x] \in Nat /\ abandoned'[x] = abandoned[x]
             /\ attempts[x] \in Nat /\ Budget \in Nat \ {0}
  <2>1. w \notin LastTries(x)
    BY <1>1 DEF LastTries, OnDelivery
  <2>2. /\ Cardinality(LastTries(x)) \in Nat /\ Cardinality(LastTries(x)') \in Nat
        /\ Cardinality(LastTries(x)') >= Cardinality(LastTries(x))
        /\ q.at \in OnDelivery /\ q.on = x /\ q.try >= Budget =>
              Cardinality(LastTries(x)') = Cardinality(LastTries(x)) + 1
    <3>1. TypeOK
      BY DEF IInv
    <3> QED BY <1>4, <2>1, <3>1, OneWorkerMoves, CountIsNatural
  <2>3. q.at \in OnDelivery
    BY <1>4 DEF OnDelivery
  <2>4. /\ abandoned[x] \in Nat /\ abandoned'[x] = abandoned[x]
        /\ attempts[x] \in Nat /\ Budget \in Nat \ {0}
    BY <1>5, OutboxAssumption DEF IInv, TypeOK
  <2> QED BY <1>4, <2>1, <2>2, <2>3, <2>4
<1>9. TryInv'
  <2> SUFFICES ASSUME NEW x \in Deliveries
               PROVE  /\ state'[x] = "none" => attempts'[x] = 0
                      /\ state'[x] \in Open => attempts'[x] <=
                            Budget - 1 + Cardinality(LastTries(x)') + abandoned'[x]
    BY DEF TryInv, Open, Deliveries, Offsets
  <2>1. /\ state[x] = "none" => attempts[x] = 0
        /\ state[x] \in Open => attempts[x] <=
              Budget - 1 + Cardinality(LastTries(x)) + abandoned[x]
    BY DEF IInv, TryInv
  <2>2. CASE x = d
    <3>1. /\ attempts'[x] = attempts[x] + 1 /\ state'[x] = "due"
          /\ attempts[x] <= Budget - 1 + Cardinality(LastTries(x)) + abandoned[x]
      <4>1. attempts \in [Deliveries -> Nat]
        BY DEF IInv, TypeOK
      <4>2. attempts'[x] = attempts[x] + 1
        BY <1>2, <1>3, <2>2, <4>1
      <4>3. state'[x] = "due" /\ state[x] = "due"
        BY <1>2, <1>5, <2>2
      <4> QED BY <2>1, <4>2, <4>3 DEF Open
    <3>2. CASE attempts[x] + 1 >= Budget
      BY <1>8, <2>2, <3>1, <3>2
    <3>3. CASE ~(attempts[x] + 1 >= Budget)
      BY <1>8, <3>1, <3>3
    <3> QED BY <3>2, <3>3
  <2>3. CASE x # d
    <3>1. attempts'[x] = attempts[x] /\ state'[x] = state[x]
      BY <1>3, <1>5, <2>3 DEF IInv, TypeOK
    <3>2. state[x] \in Open => attempts[x] <=
              Budget - 1 + Cardinality(LastTries(x)') + abandoned'[x]
      BY <1>8, <2>1
    <3> QED BY <2>1, <3>1, <3>2
  <2> QED BY <2>2, <2>3
<1>10. DeliveredWasAccepted'
  BY <1>5 DEF IInv, DeliveredWasAccepted
<1>11. RequestsAreBounded'
  <2> SUFFICES ASSUME NEW x \in Deliveries
               PROVE  attempts'[x] <= Budget + (Cardinality(Workers) - 1) + abandoned'[x]
    BY DEF RequestsAreBounded, Deliveries, Offsets
  <2>1. CASE x = d
    <3>1. attempts'[x] <= Budget - 1 + Cardinality(LastTries(x)') + abandoned'[x]
      BY <1>2, <1>5, <1>9, <2>1 DEF TryInv, Open
    <3>2. Cardinality(LastTries(x)') <= Cardinality(Workers) /\ Cardinality(Workers) \in Nat
      <4> DEFINE B == {v \in Workers : /\ worker'[v].at \in OnDelivery
                                       /\ worker'[v].on = x
                                       /\ worker'[v].try >= Budget}
      <4>1. LastTries(x)' = B /\ B \in SUBSET Workers
        BY DEF LastTries
      <4> HIDE DEF B
      <4> QED BY <4>1, OutboxAssumption, FS_Subset, FS_CardinalityType
    <3>3. attempts'[x] \in Nat
      BY <1>6 DEF TypeOK
    <3> QED BY <1>8, <3>1, <3>2, <3>3
  <2>2. CASE x # d
    BY <1>3, <1>5, <2>2 DEF IInv, TypeOK, RequestsAreBounded
  <2> QED BY <2>1, <2>2
<1> QED BY <1>6, <1>7, <1>9, <1>10, <1>11 DEF IInv

\* An answer is recorded: the row leaves the queue, and stays open only while the try it
\* answers was not the last.
LEMMA AnswerIsRecorded ==
    ASSUME IInv, NEW w \in Workers, worker[w].at \in {"accepted", "refused", "failed"},
           BackToClaim(w), UNCHANGED <<formed, endpoint, attempts, received, abandoned>>,
           NEW d, d = worker[w].on, NEW made \in States \ {"none", "due"},
           state' = [state EXCEPT ![d] = made], Dequeue(d),
           made \in Open => worker[w].try < Budget /\ state[d] \in Open,
           made \in {"delivered", "both"} => d \in received
    PROVE  IInv'
<1> DEFINE q == [At("delivering") EXCEPT !.left = worker[w].left]
<1>1. d \in Deliveries /\ state[d] # "none"
  BY DEF IInv, WorkInv, OnDelivery
<1>2. worker' = [worker EXCEPT ![w] = q]
  BY DEF BackToClaim
<1>3. /\ q.at = "delivering"
      /\ q \in [at : Steps, news : Offsets \cup {NoOffset}, on : Deliveries \cup {None},
                try : Nat, left : 0 .. PerPass]
  <2>1. worker[w].left \in 0 .. PerPass
    BY DEF IInv, TypeOK
  <2> QED BY <2>1 DEF At, Steps
<1> HIDE DEF q
<1>4. /\ state \in [Deliveries -> States] /\ state'[d] = made
      /\ \A x \in Deliveries \ {d} : state'[x] = state[x]
  BY <1>1 DEF IInv, TypeOK
<1>5. TypeOK'
  <2>1. /\ queue' \in Seq(Deliveries) /\ IsInjective(queue')
        /\ ToSet(queue') = ToSet(queue) \ {d}
    BY RemovedIsGone DEF IInv, TypeOK, Dequeue
  <2>2. ToSet(queue)' = ToSet(queue') /\ (IsInjective(queue') => IsInjective(queue)')
    BY DEF ToSet, IsInjective
  <2>3. ToSet(queue) = {x \in Deliveries : state[x] = "due"}
    BY DEF IInv, TypeOK
  <2>4. ToSet(queue') = {x \in Deliveries : state'[x] = "due"}
    BY <1>1, <1>4, <2>1, <2>3
  <2>5. state' \in [Deliveries -> States]
    BY <1>4
  <2>6. worker' \in [Workers -> [at : Steps, news : Offsets \cup {NoOffset},
                                on : Deliveries \cup {None}, try : Nat, left : 0 .. PerPass]]
    BY <1>2, <1>3 DEF IInv, TypeOK
  <2> QED BY <2>1, <2>2, <2>4, <2>5, <2>6 DEF IInv, TypeOK
<1>6. WorkInv'
  <2> SUFFICES ASSUME NEW v \in Workers
               PROVE  /\ worker'[v].at = "owing" => worker'[v].news \in Offsets
                      /\ worker'[v].at \in OnDelivery =>
                            worker'[v].on \in Deliveries /\ state'[worker'[v].on] # "none"
                      /\ worker'[v].at = "accepted" => worker'[v].on \in received'
    BY DEF WorkInv, Offsets, Deliveries
  <2>1. CASE v = w
    BY <1>2, <1>3, <2>1 DEF IInv, TypeOK, OnDelivery
  <2>2. CASE v # w
    <3>1. worker'[v] = worker[v]
      BY <1>2, <2>2 DEF IInv, TypeOK
    <3> QED BY <1>4, <3>1 DEF IInv, WorkInv
  <2> QED BY <2>1, <2>2
<1>7. ASSUME NEW x \in Deliveries, state'[x] \in Open
      PROVE  state[x] \in Open /\ w \notin LastTries(x)
  <2>1. CASE x = d
    <3>1. made \in Open
      BY <1>4, <1>7, <2>1
    <3>2. worker[w].try < Budget /\ worker[w].try \in Nat /\ Budget \in Nat
      BY <3>1, OutboxAssumption DEF IInv, TypeOK
    <3> QED BY <2>1, <3>1, <3>2 DEF LastTries
  <2>2. CASE x # d
    BY <1>4, <1>7, <2>2 DEF LastTries
  <2> QED BY <2>1, <2>2
<1>8. TryInv'
  <2> SUFFICES ASSUME NEW x \in Deliveries
               PROVE  /\ state'[x] = "none" => attempts'[x] = 0
                      /\ state'[x] \in Open => attempts'[x] <=
                            Budget - 1 + Cardinality(LastTries(x)') + abandoned'[x]
    BY DEF TryInv, Open, Deliveries, Offsets
  <2>1. state'[x] = "none" => state[x] = "none"
    BY <1>4
  <2>2. ASSUME state'[x] \in Open
        PROVE  attempts'[x] <= Budget - 1 + Cardinality(LastTries(x)') + abandoned'[x]
    <3>1. /\ Cardinality(LastTries(x)') \in Nat /\ Cardinality(LastTries(x)) \in Nat
          /\ Cardinality(LastTries(x)') >= Cardinality(LastTries(x))
      <4>1. TypeOK /\ w \notin LastTries(x)
        BY <1>7, <2>2 DEF IInv
      <4> QED BY <1>2, <4>1, OneWorkerMoves, CountIsNatural
    <3>2. attempts[x] <= Budget - 1 + Cardinality(LastTries(x)) + abandoned[x]
      BY <1>7, <2>2 DEF IInv, TryInv
    <3>3. attempts[x] \in Nat /\ abandoned[x] \in Nat /\ Budget \in Nat
      BY OutboxAssumption DEF IInv, TypeOK
    <3> QED BY <3>1, <3>2, <3>3
  <2> QED BY <2>1, <2>2 DEF IInv, TryInv
<1>9. DeliveredWasAccepted'
  BY <1>4 DEF IInv, DeliveredWasAccepted
<1>10. RequestsAreBounded'
  BY DEF IInv, RequestsAreBounded
<1> QED BY <1>5, <1>6, <1>8, <1>9, <1>10 DEF IInv

LEMMA SettleIsRecorded ==
    ASSUME IInv, NEW w \in Workers, worker[w].at \in {"accepted", "refused", "failed"},
           BackToClaim(w), UNCHANGED <<formed, endpoint, attempts, received, abandoned>>,
           NEW how \in {"delivered", "parked"}, Settle(worker[w].on, how),
           how = "delivered" => worker[w].at = "accepted"
    PROVE  IInv'
<1>1. PICK d : d = worker[w].on
  OBVIOUS
<1>2. d \in Deliveries /\ state[d] \in States \ {"none"}
  BY <1>1 DEF IInv, TypeOK, WorkInv, OnDelivery
<1>3. PICK made : made = IF state[d] \in Open \cup {how} THEN how ELSE "both"
  OBVIOUS
<1>4. state' = [state EXCEPT ![d] = made] /\ Dequeue(d)
  BY <1>1, <1>2, <1>3 DEF Settle, IInv, TypeOK
<1>5. made \in States \ {"none", "due"} /\ made \notin Open
  BY <1>3 DEF States, Open
<1>6. made \in {"delivered", "both"} => d \in received
  <2>1. how = "delivered" => d \in received
    BY <1>1 DEF IInv, WorkInv
  <2>2. state[d] \in {"delivered", "both"} => d \in received
    BY <1>2 DEF IInv, DeliveredWasAccepted
  <2> QED BY <1>2, <1>3, <2>1, <2>2 DEF States, Open
<1> QED BY <1>1, <1>4, <1>5, <1>6, AnswerIsRecorded

LEMMA DeliveredKeepsIt == ASSUME IInv, NEW w \in Workers, Delivered(w) PROVE IInv'
BY SettleIsRecorded DEF Delivered

LEMMA FailedKeepsIt == ASSUME IInv, NEW w \in Workers, Failed(w) PROVE IInv'
<1>0. /\ worker[w].at \in {"refused", "failed"} /\ BackToClaim(w)
      /\ UNCHANGED <<formed, endpoint, attempts, received, abandoned>>
  BY DEF Failed
<1>1. CASE worker[w].at = "refused" \/ worker[w].try >= Budget
  <2>1. Settle(worker[w].on, "parked")
    BY <1>1 DEF Failed
  <2> QED BY <1>0, <2>1, SettleIsRecorded
<1>2. CASE ~(worker[w].at = "refused" \/ worker[w].try >= Budget)
  <2>1. PICK d : d = worker[w].on
    OBVIOUS
  <2>2. d \in Deliveries /\ state[d] \in States \ {"none"}
    BY <1>0, <2>1 DEF IInv, TypeOK, WorkInv, OnDelivery
  <2>3. PICK made : made = IF state[d] \in Open THEN "waiting" ELSE state[d]
    OBVIOUS
  <2>4. state' = [state EXCEPT ![d] = made] /\ Dequeue(d)
    BY <1>2, <2>1, <2>2, <2>3 DEF Failed, IInv, TypeOK
  <2>5. made \in States \ {"none", "due"} /\ (made \in Open => state[d] \in Open)
    BY <2>2, <2>3 DEF States, Open
  <2>6. made \in {"delivered", "both"} => d \in received
    BY <2>2, <2>3 DEF IInv, DeliveredWasAccepted
  <2>7. worker[w].try < Budget
    BY <1>2, OutboxAssumption DEF IInv, TypeOK
  <2> QED BY <1>0, <2>1, <2>4, <2>5, <2>6, <2>7, AnswerIsRecorded
<1> QED BY <1>1, <1>2

-----------------------------------------------------------------------------
(* Theorems *)

LEMMA InitHoldsIt == Init => IInv
<1> SUFFICES ASSUME Init PROVE IInv
  OBVIOUS
<1>1. queue \in Seq(Deliveries) /\ IsInjective(queue) /\ ToSet(queue) = {}
  BY DEF Init, IsInjective, ToSet
<1>2. TypeOK
  BY <1>1, StartedIsSound DEF Init, TypeOK, States
<1>3. WorkInv
  <2>1. \A w \in Workers : worker[w].at = "projecting"
    BY DEF Init, At
  <2> QED BY <2>1 DEF WorkInv, OnDelivery
<1>4. TryInv /\ DeliveredWasAccepted
  BY DEF Init, TryInv, DeliveredWasAccepted, Open
<1>5. RequestsAreBounded
  <2>1. Cardinality(Workers) \in Nat
    BY CountIsNatural
  <2> QED BY <2>1, OutboxAssumption DEF Init, RequestsAreBounded
<1> QED BY <1>2, <1>3, <1>4, <1>5 DEF IInv

LEMMA NextKeepsIt == IInv /\ [Next]_vars => IInv'
<1> SUFFICES ASSUME IInv, [Next]_vars PROVE IInv'
  OBVIOUS
<1>1. CASE UNCHANGED vars
  <2>1. TypeOK'
    BY <1>1 DEF vars, IInv, TypeOK, ToSet, IsInjective
  <2> QED BY <1>1, <2>1, NobodyMoves DEF vars
<1>2. CASE WatermarkMoves
  BY <1>2, WatermarkMovesKeepsIt
<1>3. ASSUME NEW e \in Endpoints, Register(e) \/ Disable(e) PROVE IInv'
  BY <1>3, RegisterKeepsIt
<1>4. ASSUME NEW d \in Deliveries, BackoffElapses(d) PROVE IInv'
  BY <1>4, BackoffKeepsIt
<1>5. ASSUME NEW w \in Workers, WorkerStep(w) \/ Abandon(w) PROVE IInv'
  BY <1>5, PassGoesOn, OweKeepsIt, ClaimKeepsIt, SendKeepsIt, DeliveredKeepsIt, FailedKeepsIt,
     AbandonKeepsIt DEF WorkerStep
<1> QED BY <1>1, <1>2, <1>3, <1>4, <1>5 DEF Next

THEOREM Invariant == Spec => []IInv
BY InitHoldsIt, NextKeepsIt, PTL DEF Spec

\* The table keeps its type: a delivery is due exactly when it is queued, and once.
THEOREM TypeCorrect == Spec => []TypeOK
<1>1. IInv => TypeOK
  BY DEF IInv
<1> QED BY <1>1, Invariant, PTL

\* What an operator reads as delivered was accepted, whatever workers race on it.
THEOREM DeliveriesWereAccepted == Spec => []DeliveredWasAccepted
<1>1. IInv => DeliveredWasAccepted
  BY DEF IInv
<1> QED BY <1>1, Invariant, PTL

\* The budget bounds the requests of one delivery: a further one needs a further worker
\* at its last try, or an answer that was never recorded.
THEOREM ReceiversAreSpared == Spec => []RequestsAreBounded
<1>1. IInv => RequestsAreBounded
  BY DEF IInv
<1> QED BY <1>1, Invariant, PTL

-----------------------------------------------------------------------------
(* The roll-up of a history.                                                *)
\* A turn that was formed once; it may have been erased since.
Settled(S) == \A t \in S : t \in Turns /\ turn[t] # "waiting" /\ t <= newest

\* What stands in the log between two places of it.
Span(u) == {t \in Turns : u.from <= t /\ t <= u.to}

TurnsOK ==
    /\ turn \in [Turns -> {"waiting", "formed", "gone"}]
    /\ newest \in 0 .. MaxTurn /\ missed \in BOOLEAN
    /\ \A t \in Turns : turn[t] = "formed" => t <= newest
    /\ newest > 0 => turn[newest] # "waiting"

\* A segment stands in the log, tells of settled turns of its range, and is registered to
\* formed turns of it, as many as it says, those it tells of and are not gone among them.  While
\* no turn was missed it is registered to all the formed turns of its range and tells of no other.
SoundSegment(s) ==
    /\ s.level \in 1 .. MaxLevel
    /\ s.from \in Turns /\ s.to \in Turns /\ s.from <= s.to /\ s.to <= newest
    /\ Settled(s.said) /\ s.said \subseteq Span(s)
    /\ s.registered \subseteq Within(Formed, s)
    /\ s.covered = Cardinality(s.registered)
    /\ \A t \in s.said : turn[t] # "gone" => t \in s.registered
    /\ ~missed => s.said \subseteq s.registered /\ Within(Formed, s) \subseteq s.registered

SegmentsOK ==
    /\ IsFiniteSet(segments)
    /\ \A s \in segments : SoundSegment(s)
    /\ \A s, o \in segments : s.level = o.level /\ s.from = o.from => s = o

\* The turns that a plan's units are registered to.
Words(plan) == UNION {u.registered : u \in plan.units}

\* What a unit tells of has formed and stands in a range; while no turn was missed it is
\* registered to it.
UnitWithin(u, r) ==
    /\ Settled(u.said) /\ u.said \subseteq Span(r)
    /\ Settled(u.registered) /\ u.registered \subseteq Span(r)
    /\ ~missed => u.said \subseteq u.registered

Planned(plan) ==
    /\ plan.level \in 1 .. MaxLevel
    /\ plan.from \in Turns /\ plan.to \in Turns /\ plan.from <= plan.to /\ plan.to <= newest
    /\ \A u \in plan.units : UnitWithin(u, plan)
    /\ ~missed => Within(Formed, plan) \subseteq Words(plan) /\ plan.turns = Cardinality(Words(plan))

\* A pass has its four fields.
Whole(p) == p = [at |-> p.at, turns |-> p.turns, plan |-> p.plan, said |-> p.said]

\* What a pass has read is of settled turns, and what it has read for a summary is, while no turn
\* was missed, of turns it has planned.
Holding(p) ==
    /\ Whole(p)
    /\ p.at \in {"idle", "turns", "material", "write"}
    /\ p.at = "turns" => Settled(p.turns)
    /\ p.at \in {"material", "write"} => Planned(p.plan)
    /\ p.at = "write" =>
        /\ Settled(p.said) /\ p.said \subseteq Span(p.plan)
        /\ ~missed => p.said \subseteq Words(p.plan)

PassesOK == DOMAIN pass = Replicas /\ \A r \in Replicas : Holding(pass[r])

HistoryInv == TurnsOK /\ SegmentsOK /\ PassesOK

-----------------------------------------------------------------------------
(* Least elements, and sums over a finite set.                              *)

LEMMA LeastExists ==
    ASSUME NEW S \in SUBSET Nat, S # {}
    PROVE  \E x \in S : \A y \in S : x <= y
<1> DEFINE R == {ss \in Nat \X Nat : ss[1] < ss[2]}
<1>1. IsWellFoundedOn(R, Nat)
  BY NatLessThanWellFounded, Zenon DEF OpToRel
<1>2. PICK x \in S : \A y \in S : ~(<<y, x>> \in R)
  BY <1>1, WFMin
<1>3. \A y \in S : x <= y
  <2> SUFFICES ASSUME NEW y \in S, ~(x <= y) PROVE FALSE
    OBVIOUS
  <2>1. <<y, x>> \in Nat \X Nat /\ y < x
    OBVIOUS
  <2> QED BY <1>2, <2>1
<1> QED BY <1>3

LEMMA MinIsLeast ==
    ASSUME NEW S \in SUBSET Nat, S # {}
    PROVE  Min(S) \in S /\ \A y \in S : Min(S) <= y
BY LeastExists DEF Min

\* What a sum over s is, by what it is over less.
Adding(g, s) == IF s = {} THEN 0
                ELSE LET u == CHOOSE y \in s : TRUE IN u.covered + g[s \ {u}]
SumsOver(S, g) == g = [s \in SUBSET S |-> Adding(g, s)]

\* The sum over a finite set of numbers is defined.
LEMMA SumExists ==
    ASSUME NEW S, IsFiniteSet(S)
    PROVE  \E g : SumsOver(S, g)
<1> DEFINE Good(n) == \E g : /\ DOMAIN g = SUBSET S /\ g = [s \in SUBSET S |-> g[s]]
                             /\ \A s \in SUBSET S : Cardinality(s) <= n => g[s] = Adding(g, s)
           Bad == {n \in Nat : ~Good(n)}
<1>0. \A s \in SUBSET S : IsFiniteSet(s) /\ Cardinality(s) \in Nat /\ Cardinality(s) <= Cardinality(S)
  BY FS_Subset, FS_CardinalityType
<1>1. Good(0)
  <2> DEFINE g == [s \in SUBSET S |-> 0]
  <2>1. \A s \in SUBSET S : Cardinality(s) <= 0 => s = {}
    BY <1>0, FS_EmptySet
  <2>2. \A s \in SUBSET S : Cardinality(s) <= 0 => g[s] = Adding(g, s)
    BY <2>1 DEF Adding
  <2>3. DOMAIN g = SUBSET S /\ g = [s \in SUBSET S |-> g[s]]
    OBVIOUS
  <2> QED BY <2>2, <2>3
<1>2. ASSUME NEW n \in Nat, Good(n) PROVE Good(n + 1)
  <2>1. PICK g : /\ DOMAIN g = SUBSET S /\ g = [s \in SUBSET S |-> g[s]]
                 /\ \A s \in SUBSET S : Cardinality(s) <= n => g[s] = Adding(g, s)
    BY <1>2
  <2> DEFINE h == [s \in SUBSET S |-> IF Cardinality(s) <= n THEN g[s] ELSE Adding(g, s)]
  <2>2. ASSUME NEW s \in SUBSET S, Cardinality(s) <= n + 1, s # {}
        PROVE  Adding(h, s) = Adding(g, s)
    <3> DEFINE u == CHOOSE y \in s : TRUE
    <3>1. u \in s
      BY <2>2
    <3> HIDE DEF u
    <3>2. s \ {u} \in SUBSET S /\ Cardinality(s \ {u}) = Cardinality(s) - 1
      BY <1>0, <3>1, FS_RemoveElement
    <3>3. Cardinality(s \ {u}) <= n
      BY <1>0, <2>2, <3>2
    <3>4. h[s \ {u}] = g[s \ {u}]
      BY <3>2, <3>3
    <3> HIDE DEF h
    <3> QED BY <3>4 DEF Adding, u
  <2>3. ASSUME NEW s \in SUBSET S, Cardinality(s) <= n + 1
        PROVE  h[s] = Adding(h, s)
    <3>1. CASE s = {}
      <4>1. Cardinality(s) <= n
        BY <3>1, FS_EmptySet
      <4>2. h[s] = g[s] /\ g[s] = Adding(g, s)
        BY <2>1, <4>1
      <4> QED BY <3>1, <4>2 DEF Adding
    <3>2. CASE s # {}
      <4>1. Adding(h, s) = Adding(g, s)
        BY <2>2, <2>3, <3>2
      <4>2. h[s] = Adding(g, s)
        BY <2>1, <2>3
      <4> QED BY <4>1, <4>2
    <3> QED BY <3>1, <3>2
  <2>4. DOMAIN h = SUBSET S /\ h = [s \in SUBSET S |-> h[s]]
    OBVIOUS
  <2> HIDE DEF h
  <2> QED BY <2>3, <2>4
<1> HIDE DEF Good
<1>3. \A n \in Nat : Good(n)
  <2> SUFFICES ASSUME Bad # {} PROVE FALSE
    OBVIOUS
  <2>1. PICK m \in Bad : \A k \in Bad : m <= k
    BY LeastExists
  <2>2. m # 0 /\ m - 1 \in Nat /\ m - 1 \notin Bad
    BY <1>1, <2>1
  <2> QED BY <1>2, <2>1, <2>2
<1>4. Good(Cardinality(S))
  BY <1>3, FS_CardinalityType
<1>5. PICK g : /\ g = [s \in SUBSET S |-> g[s]]
               /\ \A s \in SUBSET S : Cardinality(s) <= Cardinality(S) => g[s] = Adding(g, s)
  BY <1>4 DEF Good
<1>6. \A s \in SUBSET S : g[s] = Adding(g, s)
  BY <1>0, <1>5
<1>7. g = [s \in SUBSET S |-> Adding(g, s)]
  BY <1>5, <1>6
<1> QED BY <1>7 DEF SumsOver

\* Where each unit is registered to as many turns as it covers, and no two to the same turn,
\* together they cover as many as they are registered to.
LEMMA TurnsOfCounts ==
    ASSUME NEW S, IsFiniteSet(S),
           \A u \in S : IsFiniteSet(u.registered) /\ u.covered = Cardinality(u.registered),
           \A u, v \in S : u # v => u.registered \cap v.registered = {}
    PROVE  TurnsOf(S) = Cardinality(UNION {u.registered : u \in S})
<1> DEFINE all(s) == UNION {u.registered : u \in s}
           g == CHOOSE f : SumsOver(S, f)
           Right(s) == IsFiniteSet(all(s)) /\ g[s] = Cardinality(all(s))
           Bad == {n \in Nat : \E s \in SUBSET S : Cardinality(s) = n /\ ~Right(s)}
<1>1. TurnsOf(S) = g[S]
  BY DEF TurnsOf, MapThenSumSet, MapThenFoldSet, SumsOver, Adding
<1>2. SumsOver(S, g)
  BY SumExists
<1> HIDE DEF g
<1>3. \A s \in SUBSET S : g[s] = Adding(g, s)
  BY <1>2 DEF SumsOver
<1>4. \A s \in SUBSET S : IsFiniteSet(s) /\ Cardinality(s) \in Nat
  BY FS_Subset, FS_CardinalityType
<1>5. \A s \in SUBSET S : Right(s)
  <2> SUFFICES ASSUME NEW b \in SUBSET S, ~Right(b) PROVE FALSE
    OBVIOUS
  <2>1. Cardinality(b) \in Bad
    BY <1>4
  <2>2. PICK m \in Bad : \A k \in Bad : m <= k
    BY <2>1, LeastExists
  <2>3. PICK s \in SUBSET S : Cardinality(s) = m /\ ~Right(s)
    BY <2>2
  <2>4. CASE s = {}
    <3>1. all(s) = {}
      BY <2>4
    <3>2. g[s] = 0
      BY <1>3, <2>4 DEF Adding
    <3> QED BY <2>3, <3>1, <3>2, FS_EmptySet
  <2>5. CASE s # {}
    <3> DEFINE u == CHOOSE y \in s : TRUE
               r == s \ {u}
    <3>1. u \in s /\ u \in S
      BY <2>5
    <3>2. g[s] = u.covered + g[r]
      BY <1>3, <2>5 DEF Adding
    <3> HIDE DEF u
    <3>3. r \in SUBSET S /\ Cardinality(r) = m - 1
      BY <1>4, <2>3, <3>1, FS_RemoveElement
    <3>4. Right(r)
      <4>1. m - 1 \in Nat
        BY <1>4, <3>3
      <4>2. ASSUME ~Right(r) PROVE FALSE
        <5>1. m - 1 \in Bad
          BY <3>3, <4>1, <4>2
        <5>2. m \in Nat /\ m <= m - 1
          BY <2>2, <5>1
        <5> QED BY <5>2
      <4> QED BY <4>2
    <3>5. all(s) = u.registered \cup all(r)
      BY <3>1
    <3>6. u.registered \cap all(r) = {}
      BY <3>1
    <3> HIDE DEF r
    <3> DEFINE A == u.registered
               B == all(r)
    <3>7. IsFiniteSet(A) /\ IsFiniteSet(B) /\ A \cap B = {} /\ all(s) = A \cup B
      BY <3>1, <3>4, <3>5, <3>6
    <3>8. g[s] = Cardinality(A) + Cardinality(B)
      BY <3>1, <3>2, <3>4
    <3> HIDE DEF A, B
    <3>9. /\ IsFiniteSet(A \cup B)
          /\ Cardinality(A \cup B) = Cardinality(A) + Cardinality(B) - Cardinality(A \cap B)
      BY <3>7, FS_Union
    <3>10. Cardinality(A \cap B) = 0 /\ Cardinality(A) \in Nat /\ Cardinality(B) \in Nat
      BY <3>7, FS_EmptySet, FS_CardinalityType
    <3>11. IsFiniteSet(all(s)) /\ g[s] = Cardinality(all(s))
      <4> HIDE DEF all
      <4> QED BY <3>7, <3>8, <3>9, <3>10
    <3> QED BY <2>3, <3>11
  <2> QED BY <2>4, <2>5
<1> QED BY <1>1, <1>5

-----------------------------------------------------------------------------
(* The planner.                                                             *)

\* Units stand in the log, and no two of them begin together.
InLog(U) ==
    /\ IsFiniteSet(U)
    /\ \A u \in U : u.from \in Turns /\ u.to \in Turns /\ u.from <= u.to
    /\ \A u, v \in U : u.from = v.from => u = v

\* Ordered lists the units by where they begin.
LEMMA OrderedLists ==
    ASSUME NEW U, InLog(U)
    PROVE  /\ \A i \in 1 .. Cardinality(U) : Ordered(U)[i] \in U
           /\ \A i, j \in 1 .. Cardinality(U) : i < j => Ordered(U)[i].from < Ordered(U)[j].from
<1> DEFINE n == Cardinality(U)
           under(u) == {v \in U : v.from < u.from}
           rank(u) == Cardinality(under(u))
           f == [u \in U |-> rank(u)]
<1>0. n \in Nat /\ \A u \in U : u.from \in Nat
  BY FS_CardinalityType DEF InLog, Turns
<1>1. \A u \in U : IsFiniteSet(under(u)) /\ rank(u) \in Nat /\ rank(u) < n
  <2> TAKE u \in U
  <2>1. under(u) \in SUBSET (U \ {u})
    BY <1>0
  <2>2. IsFiniteSet(U \ {u}) /\ Cardinality(U \ {u}) = n - 1
    BY FS_RemoveElement DEF InLog
  <2>3. IsFiniteSet(under(u)) /\ rank(u) <= n - 1
    BY <2>1, <2>2, FS_Subset
  <2>4. rank(u) \in Nat
    BY <2>3, FS_CardinalityType
  <2> QED BY <1>0, <2>3, <2>4
<1>2. \A u, v \in U : u.from < v.from => rank(u) < rank(v)
  <2> TAKE u, v \in U
  <2> HAVE u.from < v.from
  <2>1. under(u) \in SUBSET (under(v) \ {u}) /\ u \in under(v)
    BY <1>0
  <2>2. IsFiniteSet(under(v) \ {u}) /\ Cardinality(under(v) \ {u}) = rank(v) - 1
    BY <1>1, <2>1, FS_RemoveElement
  <2>3. rank(u) <= rank(v) - 1
    BY <2>1, <2>2, FS_Subset
  <2>4. rank(u) \in Nat /\ rank(v) \in Nat
    BY <1>1
  <2> HIDE DEF rank
  <2> QED BY <2>3, <2>4
<1>3. \A u, v \in U : rank(u) = rank(v) => u = v
  <2> TAKE u, v \in U
  <2> HAVE rank(u) = rank(v)
  <2>1. ~(u.from < v.from) /\ ~(v.from < u.from)
    <3>1. u.from < v.from => rank(u) < rank(v)
      BY <1>2
    <3>2. v.from < u.from => rank(v) < rank(u)
      BY <1>2
    <3>3. rank(u) \in Nat /\ rank(v) \in Nat
      BY <1>1
    <3> HIDE DEF rank
    <3> QED BY <3>1, <3>2, <3>3
  <2>2. u.from = v.from
    BY <1>0, <2>1
  <2> QED BY <2>2 DEF InLog
<1>4. f \in Injection(U, 0 .. n - 1)
  <2>1. f \in [U -> 0 .. n - 1]
    <3>1. \A u \in U : rank(u) \in 0 .. n - 1
      <4> TAKE u \in U
      <4>1. rank(u) \in Nat /\ rank(u) < n
        BY <1>1
      <4> HIDE DEF rank, n
      <4> QED BY <1>0, <4>1
    <3> HIDE DEF rank, n
    <3> QED BY <3>1
  <2>2. \A u, v \in U : f[u] = f[v] => u = v
    BY <1>3
  <2> HIDE DEF f
  <2> QED BY <2>1, <2>2 DEF Injection, IsInjective
<1>5. IsFiniteSet(0 .. n - 1) /\ Cardinality(0 .. n - 1) = n
  BY <1>0, FS_Interval
<1>6. f \in Surjection(U, 0 .. n - 1)
  BY <1>4, <1>5, FS_Injection
<1>7. \A i \in 1 .. n : \E u \in U : rank(u) = i - 1
  <2> TAKE i \in 1 .. n
  <2>1. i - 1 \in 0 .. n - 1
    BY <1>0
  <2>2. PICK u \in U : f[u] = i - 1
    BY <1>6, <2>1 DEF Surjection
  <2> QED BY <2>2
<1>8. \A i \in 1 .. n : Ordered(U)[i] \in U /\ rank(Ordered(U)[i]) = i - 1
  <2> TAKE i \in 1 .. n
  <2>1. Ordered(U)[i] = CHOOSE u \in U : rank(u) = i - 1
    BY DEF Ordered
  <2> HIDE DEF rank
  <2> QED BY <1>7, <2>1
<1>9. \A i, j \in 1 .. n : i < j => Ordered(U)[i].from < Ordered(U)[j].from
  <2> TAKE i, j \in 1 .. n
  <2> HAVE i < j
  <2> DEFINE u == Ordered(U)[i]
             v == Ordered(U)[j]
  <2>1. u \in U /\ v \in U /\ rank(u) = i - 1 /\ rank(v) = j - 1
    BY <1>8
  <2> HIDE DEF u, v
  <2>2. ~(v.from < u.from) /\ u.from # v.from
    <3>1. v.from < u.from => rank(v) < rank(u)
      BY <1>2, <2>1
    <3>2. u.from = v.from => u = v
      BY <2>1 DEF InLog
    <3> HIDE DEF rank
    <3> QED BY <1>0, <2>1, <3>1, <3>2
  <2>3. u.from < v.from
    BY <1>0, <2>1, <2>2
  <2> QED BY <2>3 DEF u, v
<1> QED BY <1>8, <1>9

\* What a plan of a level is: a run of units of the level, none behind another, which begins where
\* the level covers nothing, and between whose ends lies no turn that has to be covered but under them.
Feasible(p, level, T, S) ==
    /\ p.level = level
    /\ p.units \subseteq Units(level, T, S)
    /\ p.turns = TurnsOf(p.units)
    /\ \E u \in p.units : u.from = p.from
    /\ \E u \in p.units : u.to = p.to
    /\ ~CoveredAt(level, S, p.from)
    /\ \A u \in p.units : p.from <= u.from /\ u.to <= p.to
    /\ \A u, v \in p.units : u # v => u.to < v.from \/ v.to < u.from
    /\ \A t \in Compactable(T) :
          p.from <= t /\ t <= p.to => \E u \in p.units : u.from <= t /\ t <= u.to

\* A run of units, each adjacent to the next.
LEMMA RunsHoldTogether ==
    ASSUME NEW T \in SUBSET Turns, NEW U, InLog(U),
           NEW i \in Nat, NEW k \in Nat, 1 <= i, i <= k, k <= Cardinality(U),
           \A j \in i .. k - 1 : Adjacent(Ordered(U)[j], Ordered(U)[j + 1], T)
    PROVE  /\ \A j, l \in i .. k : j < l => Ordered(U)[j].to < Ordered(U)[l].from
           /\ \A t \in Compactable(T) :
                 Ordered(U)[i].from <= t /\ t <= Ordered(U)[k].to =>
                    \E j \in i .. k : Ordered(U)[j].from <= t /\ t <= Ordered(U)[j].to
<1> DEFINE o == Ordered(U)
<1>0. Cardinality(U) \in Nat
  BY FS_CardinalityType DEF InLog
<1>1. \A j \in i .. k : o[j] \in U
  BY <1>0, OrderedLists
<1>2. \A j \in i .. k : o[j].from \in Nat /\ o[j].to \in Nat /\ o[j].from <= o[j].to
  BY <1>1 DEF InLog, Turns
<1>3. \A j \in i .. k - 1 : /\ j \in i .. k /\ j + 1 \in i .. k /\ o[j].to < o[j + 1].from
                           /\ \A t \in Compactable(T) : ~(o[j].to < t /\ t < o[j + 1].from)
  BY DEF Adjacent
<1> HIDE DEF o
<1>4. \A j, l \in i .. k : j < l => o[j].to < o[l].from
  <2> TAKE j \in i .. k
  <2> DEFINE Bad == {l \in i .. k : j < l /\ ~(o[j].to < o[l].from)}
  <2> SUFFICES ASSUME Bad # {} PROVE FALSE
    OBVIOUS
  <2>1. Bad \in SUBSET Nat
    OBVIOUS
  <2>2. PICK l \in Bad : \A m \in Bad : l <= m
    BY <2>1, LeastExists
  <2>3. l \in i .. k /\ j < l /\ ~(o[j].to < o[l].from)
    BY <2>2
  <2>4. l - 1 \in i .. k - 1 /\ l - 1 \in i .. k /\ j <= l - 1
    BY <2>3
  <2>5. o[l - 1].to < o[l].from
    BY <1>3, <2>4
  <2>6. CASE j = l - 1
    BY <2>3, <2>5, <2>6
  <2>7. CASE j < l - 1
    <3>1. l - 1 \notin Bad
      BY <2>1, <2>2, <2>3, <2>4
    <3>2. o[j].to < o[l - 1].from
      BY <2>4, <2>7, <3>1
    <3> HIDE DEF Bad
    <3> QED BY <1>2, <2>3, <2>4, <2>5, <3>2
  <2> QED BY <2>3, <2>4, <2>6, <2>7
<1>5. \A t \in Compactable(T) :
        o[i].from <= t /\ t <= o[k].to => \E j \in i .. k : o[j].from <= t /\ t <= o[j].to
  <2> TAKE t \in Compactable(T)
  <2> HAVE o[i].from <= t /\ t <= o[k].to
  <2>0. t \in Nat
    BY DEF Compactable, Turns
  <2> DEFINE Ends == {j \in i .. k : t <= o[j].to}
  <2>1. Ends \in SUBSET Nat /\ k \in Ends
    OBVIOUS
  <2>2. PICK j \in Ends : \A m \in Ends : j <= m
    BY <2>1, LeastExists
  <2>3. j \in i .. k /\ t <= o[j].to
    BY <2>2
  <2>4. CASE j = i
    BY <2>3, <2>4
  <2>5. CASE j # i
    <3>1. j - 1 \in i .. k - 1 /\ j - 1 \in i .. k
      BY <2>3, <2>5
    <3>2. ~(t <= o[j - 1].to)
      BY <2>1, <2>2, <2>3, <3>1
    <3>3. ~(o[j - 1].to < t /\ t < o[j].from)
      BY <1>3, <3>1
    <3> HIDE DEF Ends
    <3>4. o[j].from <= t
      BY <1>2, <2>0, <2>3, <3>1, <3>2, <3>3
    <3> QED BY <2>3, <3>4
  <2> QED BY <2>4, <2>5
<1> QED BY <1>4, <1>5 DEF o

\* The planner's scan of a level gives a feasible plan or none.
LEMMA ScanIsFeasible ==
    ASSUME CompactionAssumption, NEW T \in SUBSET Turns, NEW S, NEW level,
           InLog(Units(level, T, S)), Scan(level, T, S) # NoPlan
    PROVE  Feasible(Scan(level, T, S), level, T, S)
<1> DEFINE order == Ordered(Units(level, T, S))
           free == {j \in DOMAIN order : ~CoveredAt(level, S, order[j].from)}
           linked == {j \in DOMAIN order : /\ j + 1 \in DOMAIN order
                                           /\ Adjacent(order[j], order[j + 1], T)}
           runs == {ends \in free \X free :
                      /\ ends[2] - ends[1] + 1 \in MinGapRun .. Branch
                      /\ MakesSegment(ends[1], ends[2] - ends[1] + 1, order, free, linked)}
           oldest == CHOOSE ends \in runs : \A other \in runs : ends[1] <= other[1]
           run == {order[j] : j \in oldest[1] .. oldest[2]}
           p == [level |-> level, from |-> order[oldest[1]].from, to |-> order[oldest[2]].to,
                 units |-> run, turns |-> TurnsOf(run)]
           units == Units(level, T, S)
           last == Cardinality(units)
<1>1. Scan(level, T, S) = IF runs = {} THEN NoPlan ELSE p
  BY DEF Scan
<1>2. runs # {} /\ Scan(level, T, S) = p
  BY <1>1
<1>3. last \in Nat /\ DOMAIN order = 1 .. last
  BY FS_CardinalityType DEF InLog, Ordered
<1>4. oldest \in runs
  <2> DEFINE firsts == {ends[1] : ends \in runs}
  <2>1. \A ends \in runs : ends[1] \in Nat
    BY <1>3
  <2> HIDE DEF runs
  <2>2. firsts \in SUBSET Nat /\ firsts # {}
    BY <1>2, <2>1
  <2>3. PICK least \in firsts : \A x \in firsts : least <= x
    BY <2>2, LeastExists
  <2>4. PICK ends \in runs : ends[1] = least
    BY <2>3
  <2>5. \A other \in runs : ends[1] <= other[1]
    BY <2>3, <2>4
  <2> QED BY <2>5
<1> HIDE DEF oldest
<1> DEFINE i == oldest[1]
           k == oldest[2]
<1>5. /\ i \in free /\ k \in free /\ k - i + 1 \in MinGapRun .. Branch
      /\ MakesSegment(i, k - i + 1, order, free, linked)
  BY <1>4
<1>6. i \in Nat /\ k \in Nat /\ 1 <= i /\ i <= k /\ k <= last
  <2>1. i \in 1 .. last /\ k \in 1 .. last
    BY <1>3, <1>5
  <2>2. MinGapRun \in Nat \ {0} /\ Branch \in Nat
    BY DEF CompactionAssumption
  <2> HIDE DEF last, i, k
  <2> QED BY <1>3, <1>5, <2>1, <2>2
<1>7. i .. k \subseteq 1 .. last
  <2> HIDE DEF last, i, k
  <2> QED BY <1>3, <1>6
<1>8. \A j \in i .. k - 1 : Adjacent(order[j], order[j + 1], T)
  <2>1. i .. i + (k - i + 1) - 2 \subseteq linked
    BY <1>5 DEF MakesSegment
  <2>2. i .. i + (k - i + 1) - 2 = i .. k - 1
    <3> HIDE DEF i, k
    <3> QED BY <1>6
  <2> QED BY <2>1, <2>2
<1>9. ~CoveredAt(level, S, order[i].from)
  BY <1>5
<1>10. /\ \A j \in i .. k : order[j] \in units
       /\ \A j, l \in i .. k : j < l => order[j].from < order[l].from
  BY <1>7, OrderedLists
<1>11. /\ \A j, l \in i .. k : j < l => order[j].to < order[l].from
       /\ \A t \in Compactable(T) :
             order[i].from <= t /\ t <= order[k].to =>
                \E j \in i .. k : order[j].from <= t /\ t <= order[j].to
  <2> HIDE DEF i, k
  <2> QED BY <1>6, <1>8, RunsHoldTogether
<1>12. \A j \in i .. k : order[j].from \in Nat /\ order[j].to \in Nat /\ order[j].from <= order[j].to
  BY <1>10 DEF InLog, Turns
<1>13. /\ p.level = level /\ p.units = run /\ p.turns = TurnsOf(run)
       /\ p.from = order[i].from /\ p.to = order[k].to
  OBVIOUS
<1>14. i \in i .. k /\ k \in i .. k /\ \A j \in i .. k : j \in Nat /\ i <= j /\ j <= k
  BY <1>6, <1>7
<1>15. run = {order[j] : j \in i .. k}
  OBVIOUS
<1> HIDE DEF p, run, order, units, i, k, last
<1>16. /\ run \subseteq units
       /\ \E u \in run : u.from = p.from
       /\ \E u \in run : u.to = p.to
  BY <1>10, <1>13, <1>14, <1>15
<1>17. \A u \in run : p.from <= u.from /\ u.to <= p.to
  <2> TAKE u \in run
  <2>1. PICK j \in i .. k : u = order[j]
    BY <1>15
  <2>2. order[i].from <= order[j].from
    <3>1. i = j \/ i < j
      BY <1>14, <1>6
    <3> QED BY <3>1, <1>10, <1>12, <1>14
  <2>3. order[j].to <= order[k].to
    <3>1. j = k \/ j < k
      BY <1>7, <1>14
    <3>2. j < k => order[j].to < order[k].from
      BY <1>11, <1>14
    <3> QED BY <3>1, <3>2, <1>12, <1>14
  <2> QED BY <1>13, <2>1, <2>2, <2>3
<1>18. \A u, v \in run : u # v => u.to < v.from \/ v.to < u.from
  <2> TAKE u, v \in run
  <2> HAVE u # v
  <2>1. PICK j \in i .. k : u = order[j]
    BY <1>15
  <2>2. PICK l \in i .. k : v = order[l]
    BY <1>15
  <2>3. j < l \/ l < j
    BY <1>14, <2>1, <2>2
  <2> QED BY <1>11, <2>1, <2>2, <2>3
<1>19. \A t \in Compactable(T) :
         p.from <= t /\ t <= p.to => \E u \in run : u.from <= t /\ t <= u.to
  BY <1>11, <1>13, <1>15
<1> QED BY <1>2, <1>9, <1>13, <1>16, <1>17, <1>18, <1>19 DEF Feasible, units

\* So does the planner, at one of the levels.
LEMMA PlanIsFeasible ==
    ASSUME CompactionAssumption, NEW T \in SUBSET Turns, NEW S,
           \A level \in 1 .. MaxLevel : InLog(Units(level, T, S)),
           NextPlan(T, S) # NoPlan
    PROVE  \E level \in 1 .. MaxLevel : Feasible(NextPlan(T, S), level, T, S)
<1> DEFINE levels == {k \in 1 .. MaxLevel : Scan(k, T, S) # NoPlan}
<1>1. levels # {} /\ NextPlan(T, S) = Scan(Min(levels), T, S)
  BY DEF NextPlan
<1>2. levels \in SUBSET Nat
  BY DEF CompactionAssumption
<1>3. Min(levels) \in levels
  BY <1>1, <1>2, MinIsLeast
<1>4. Min(levels) \in 1 .. MaxLevel /\ Scan(Min(levels), T, S) # NoPlan
  BY <1>3
<1> HIDE DEF levels
<1>5. Feasible(Scan(Min(levels), T, S), Min(levels), T, S)
  BY <1>4, ScanIsFeasible
<1> QED BY <1>1, <1>4, <1>5

-----------------------------------------------------------------------------
(* What the planner's units are in a state of the invariant.                *)

\* A unit tells of settled turns of its range.  While no turn was missed it is registered to all
\* the formed ones, and to as many as it says.
SoundUnit(u) ==
    /\ u.from \in Turns /\ u.to \in Turns /\ u.from <= u.to /\ u.to <= newest
    /\ UnitWithin(u, u)
    /\ ~missed => Within(Formed, u) \subseteq u.registered /\ u.covered = Cardinality(u.registered)

LEMMA TurnsAreFinite ==
    ASSUME CompactionAssumption
    PROVE  /\ Turns \subseteq Nat /\ MaxTurn \in Nat
           /\ IsFiniteSet(Turns) /\ \A S \in SUBSET Turns : IsFiniteSet(S)
<1>1. MaxTurn \in Nat
  BY DEF CompactionAssumption
<1>2. IsFiniteSet(Turns)
  BY <1>1, FS_Interval DEF Turns
<1>3. \A S \in SUBSET Turns : IsFiniteSet(S)
  BY <1>2, FS_Subset
<1>4. Turns \subseteq Nat
  BY DEF Turns
<1> QED BY <1>1, <1>2, <1>3, <1>4

LEMMA UnitsAreSound ==
    ASSUME CompactionAssumption, TurnsOK, SegmentsOK,
           NEW T \in SUBSET Turns, Settled(T), NEW level \in 1 .. MaxLevel
    PROVE  InLog(Units(level, T, segments)) /\ \A u \in Units(level, T, segments) : SoundUnit(u)
<1>1. CASE level = 1
  <2> DEFINE U == Units(1, T, segments)
  <2>1. U = {[from |-> t, to |-> t, covered |-> 1, said |-> {t}, registered |-> {t}] : t \in Compactable(T)}
    BY DEF Units
  <2>2. Compactable(T) \in SUBSET T /\ T \in SUBSET Turns
    BY DEF Compactable
  <2> HIDE DEF U
  <2>3. ASSUME NEW u \in U
        PROVE  /\ u.from \in T /\ u.from \in Turns /\ u.to = u.from /\ u.covered = 1
               /\ u.said = {u.from} /\ u.registered = {u.from}
               /\ u = [from |-> u.from, to |-> u.from, covered |-> 1,
                       said |-> {u.from}, registered |-> {u.from}]
    BY <2>1, <2>2
  <2>4. \A u, v \in U : u.from = v.from => u = v
    BY <2>3
  <2>5. IsFiniteSet(U)
    <3> DEFINE f == [u \in U |-> u.from]
    <3>1. f \in [U -> Turns]
      BY <2>3
    <3>2. \A u, v \in U : f[u] = f[v] => u = v
      BY <2>4
    <3> HIDE DEF f
    <3>3. f \in Injection(U, Turns)
      BY <3>1, <3>2 DEF Injection, IsInjective
    <3> QED BY <3>3, TurnsAreFinite, FS_Injection
  <2>6. InLog(U)
    <3>1. \A u \in U : u.from <= u.to
      BY <2>3, TurnsAreFinite
    <3> QED BY <2>3, <2>4, <2>5, <3>1 DEF InLog
  <2>7. ASSUME NEW u \in U PROVE SoundUnit(u)
    <3>1. /\ u.from \in Turns /\ u.to = u.from /\ u.covered = 1
          /\ u.said = {u.from} /\ u.registered = {u.from}
      BY <2>3
    <3>2. u.from \in Nat /\ u.from <= newest /\ turn[u.from] # "waiting"
      BY <2>3, TurnsAreFinite DEF Settled
    <3>3. Settled(u.said) /\ Settled(u.registered)
      BY <3>1, <3>2 DEF Settled
    <3>4. u.said \subseteq Span(u) /\ u.registered \subseteq Span(u)
      BY <3>1, <3>2 DEF Span
    <3>5. Within(Formed, u) \subseteq u.registered
      <4>1. \A t \in Within(Formed, u) : t \in Nat /\ u.from <= t /\ t <= u.to
        BY TurnsAreFinite DEF Within, Formed
      <4> QED BY <3>1, <3>2, <4>1
    <3>6. u.covered = Cardinality(u.registered)
      BY <3>1, FS_Singleton
    <3>7. UnitWithin(u, u)
      BY <3>1, <3>3, <3>4 DEF UnitWithin
    <3> QED BY <3>1, <3>2, <3>5, <3>6, <3>7 DEF SoundUnit
  <2> QED BY <1>1, <2>6, <2>7 DEF U
<1>2. CASE level # 1
  <2> DEFINE U == Units(level, T, segments)
  <2>1. U = {s \in segments : s.level = level - 1}
    BY <1>2 DEF Units
  <2> HIDE DEF U
  <2>2. \A u \in U : SoundSegment(u)
    BY <2>1 DEF SegmentsOK
  <2>3. InLog(U)
    <3>1. IsFiniteSet(U)
      BY <2>1, FS_Subset DEF SegmentsOK
    <3>2. \A u, v \in U : u.from = v.from => u = v
      BY <2>1 DEF SegmentsOK
    <3> QED BY <2>2, <3>1, <3>2 DEF InLog, SoundSegment
  <2>4. ASSUME NEW u \in U PROVE SoundUnit(u)
    <3>1. SoundSegment(u)
      BY <2>2
    <3>2. Settled(u.registered) /\ u.registered \subseteq Span(u)
      BY <3>1 DEF SoundSegment, Within, Formed, Settled, Span, TurnsOK
    <3> QED BY <3>1, <3>2 DEF SoundSegment, SoundUnit, UnitWithin
  <2> QED BY <2>3, <2>4 DEF U
<1> QED BY <1>1, <1>2

\* A feasible plan over sound units: they are registered to turns of its range, as many as it counted.
LEMMA FeasibleIsSound ==
    ASSUME CompactionAssumption, TurnsOK, SegmentsOK,
           NEW T \in SUBSET Turns, Settled(T), NEW level \in 1 .. MaxLevel,
           NEW p, Feasible(p, level, T, segments)
    PROVE  /\ p.from \in Turns /\ p.to \in Turns /\ p.from <= p.to /\ p.to <= newest
           /\ \A u \in p.units : SoundUnit(u) /\ UnitWithin(u, p)
           /\ ~missed => p.turns = Cardinality(Words(p))
           /\ ~missed /\ PassedOver(p) = {} => Within(Formed, p) \subseteq Words(p)
<1>1. InLog(Units(level, T, segments)) /\ \A u \in p.units : SoundUnit(u)
  BY UnitsAreSound DEF Feasible
<1>2. \A u \in p.units : /\ u.from \in Nat /\ u.to \in Nat /\ u.from <= u.to
                         /\ p.from <= u.from /\ u.to <= p.to
  BY <1>1, TurnsAreFinite DEF Feasible, SoundUnit
<1>3. p.from \in Turns /\ p.to \in Turns /\ p.from <= p.to /\ p.to <= newest
  <2>1. PICK u \in p.units : u.from = p.from
    BY DEF Feasible
  <2>2. PICK v \in p.units : v.to = p.to
    BY DEF Feasible
  <2>3. p.from \in Turns /\ p.to \in Turns /\ p.to <= newest
    BY <1>1, <2>1, <2>2 DEF SoundUnit
  <2>4. p.from \in Nat /\ p.to \in Nat
    BY <2>3, TurnsAreFinite
  <2>5. u.from <= u.to /\ u.to <= p.to /\ u.to \in Nat
    BY <1>2
  <2> QED BY <2>1, <2>3, <2>4, <2>5
<1>4. ASSUME NEW u \in p.units PROVE UnitWithin(u, p)
  <2>1. UnitWithin(u, u)
    BY <1>1 DEF SoundUnit
  <2>2. u.from \in Nat /\ u.to \in Nat /\ p.from <= u.from /\ u.to <= p.to /\ p.from \in Nat /\ p.to \in Nat
    BY <1>2, <1>3, TurnsAreFinite
  <2>3. Span(u) \subseteq Span(p)
    <3> SUFFICES ASSUME NEW t \in Turns, u.from <= t, t <= u.to PROVE p.from <= t /\ t <= p.to
      BY DEF Span
    <3>1. t \in Nat
      BY TurnsAreFinite
    <3> QED BY <2>2, <3>1
  <2> QED BY <2>1, <2>3 DEF UnitWithin
<1>5. ASSUME ~missed PROVE p.turns = Cardinality(Words(p))
  <2>1. IsFiniteSet(p.units)
    BY <1>1, FS_Subset DEF Feasible, InLog
  <2>2. \A u \in p.units : IsFiniteSet(u.registered) /\ u.covered = Cardinality(u.registered)
    <3> TAKE u \in p.units
    <3>1. u.registered \in SUBSET Turns
      BY <1>1 DEF SoundUnit, UnitWithin, Span
    <3> QED BY <1>1, <1>5, <3>1, TurnsAreFinite DEF SoundUnit
  <2>3. \A u, v \in p.units : u # v => u.registered \cap v.registered = {}
    <3> TAKE u, v \in p.units
    <3> HAVE u # v
    <3>1. \A t \in u.registered : t \in Nat /\ u.from <= t /\ t <= u.to
      BY <1>1, TurnsAreFinite DEF SoundUnit, UnitWithin, Span
    <3>2. \A t \in v.registered : v.from <= t /\ t <= v.to
      BY <1>1, TurnsAreFinite DEF SoundUnit, UnitWithin, Span
    <3>3. u.to < v.from \/ v.to < u.from
      BY DEF Feasible
    <3>4. u.from \in Nat /\ u.to \in Nat /\ v.from \in Nat /\ v.to \in Nat
      BY <1>2
    <3> QED BY <3>1, <3>2, <3>3, <3>4
  <2>4. TurnsOf(p.units) = Cardinality(UNION {u.registered : u \in p.units})
    BY <2>1, <2>2, <2>3, TurnsOfCounts
  <2> QED BY <2>4 DEF Feasible, Words
<1>6. ASSUME ~missed, PassedOver(p) = {} PROVE Within(Formed, p) \subseteq Words(p)
  <2> SUFFICES ASSUME NEW t \in Within(Formed, p) PROVE t \in Words(p)
    OBVIOUS
  <2>1. PICK u \in p.units : u.from <= t /\ t <= u.to
    BY <1>6 DEF PassedOver
  <2>2. t \in Within(Formed, u)
    BY <2>1 DEF Within
  <2>3. t \in u.registered
    BY <1>1, <1>6, <2>2 DEF SoundUnit
  <2> QED BY <2>3 DEF Words
<1> QED BY <1>1, <1>3, <1>4, <1>5, <1>6

-----------------------------------------------------------------------------
(* The invariant and the actions.                                           *)

LEMMA InitHolds ==
    ASSUME CompactionAssumption, CInit
    PROVE  HistoryInv
<1>1. TurnsOK
  <2>1. MaxTurn \in Nat
    BY DEF CompactionAssumption
  <2>2. turn \in [Turns -> {"waiting", "formed", "gone"}] /\ \A t \in Turns : turn[t] = "waiting"
    BY DEF CInit
  <2>3. newest = 0 /\ missed = FALSE
    BY DEF CInit
  <2>4. missed \in BOOLEAN
    BY <2>3
  <2>5. newest \in 0 .. MaxTurn /\ ~(newest > 0)
    BY <2>1, <2>3
  <2>6. \A t \in Turns : turn[t] = "formed" => t <= newest
    BY <2>2
  <2> QED BY <2>2, <2>4, <2>5, <2>6 DEF TurnsOK
<1>2. SegmentsOK
  BY FS_EmptySet DEF CInit, SegmentsOK
<1>3. PassesOK
  BY DEF CInit, PassesOK, Holding, Whole, Idle
<1> QED BY <1>1, <1>2, <1>3 DEF HistoryInv

\* What was sound stays so while turns form and are erased, for what keeps its registrations: a
\* turn that forms is later than all that formed, or the history has missed one.
Onward ==
    /\ \A t \in Turns : turn[t] # "waiting" => turn'[t] \in {turn[t], "gone"}
    /\ newest <= newest' /\ newest \in Nat /\ newest' \in Nat
    /\ missed => missed'
    /\ ~missed' => \A t \in Turns : turn[t] = "waiting" /\ turn'[t] = "formed" => newest < t
    /\ \A t \in Turns : turn'[t] = "formed" => turn[t] \in {"waiting", "formed"}

LEMMA SettledStays ==
    ASSUME CompactionAssumption, Onward, NEW S, Settled(S)
    PROVE  Settled(S)'
<1>1. ASSUME NEW t \in S PROVE t \in Turns /\ turn'[t] # "waiting" /\ t <= newest'
  <2>1. t \in Turns /\ turn[t] # "waiting" /\ t <= newest /\ t \in Nat
    BY TurnsAreFinite DEF Settled
  <2>2. newest <= newest' /\ newest \in Nat /\ newest' \in Nat
    BY DEF Onward
  <2>3. turn'[t] # "waiting"
    BY <2>1 DEF Onward
  <2> QED BY <2>1, <2>2, <2>3
<1> QED BY <1>1 DEF Settled

\* No turn of a range that ends by the newest turn forms, or the history has missed one.
LEMMA NoneForms ==
    ASSUME CompactionAssumption, Onward, NEW r, r.to \in Turns, r.to <= newest, ~missed'
    PROVE  Within(Formed, r)' \subseteq Within(Formed, r)
<1> SUFFICES ASSUME NEW t \in Turns, turn'[t] = "formed", r.from <= t, t <= r.to
             PROVE  turn[t] = "formed"
  BY DEF Within, Formed
<1>1. t \in Nat /\ r.to \in Nat /\ newest \in Nat
  BY TurnsAreFinite DEF Onward
<1>2. ~(newest < t)
  BY <1>1
<1> QED BY <1>2 DEF Onward

LEMMA SoundStays ==
    ASSUME CompactionAssumption, TurnsOK, Onward, NEW s, SoundSegment(s),
           \A t \in s.registered : turn'[t] = "formed"
    PROVE  SoundSegment(s)'
<1>1. newest <= newest' /\ newest \in Nat /\ newest' \in Nat /\ s.to \in Nat /\ s.to <= newest
  BY TurnsAreFinite DEF Onward, SoundSegment
<1>2. Settled(s.said)'
  BY SettledStays DEF SoundSegment
<1>3. (s.registered \subseteq Within(Formed, s))'
  BY DEF SoundSegment, Within, Formed
<1>4. \A t \in s.said : turn'[t] # "gone" => t \in s.registered
  <2> TAKE t \in s.said
  <2> HAVE turn'[t] # "gone"
  <2>1. t \in Turns /\ turn[t] # "waiting"
    BY DEF SoundSegment, Settled
  <2>2. turn[t] # "gone"
    BY <2>1 DEF Onward
  <2> QED BY <2>2 DEF SoundSegment
<1>5. ASSUME ~missed' PROVE s.said \subseteq s.registered /\ Within(Formed, s)' \subseteq s.registered
  <2>1. ~missed
    BY <1>5 DEF Onward
  <2>2. Within(Formed, s)' \subseteq Within(Formed, s)
    BY <1>5, NoneForms DEF SoundSegment
  <2> QED BY <2>1, <2>2 DEF SoundSegment
<1>6. (s.said \subseteq Span(s))'
  BY DEF SoundSegment, Span
<1>7. s.to <= newest'
  BY <1>1
<1> QED BY <1>2, <1>3, <1>4, <1>5, <1>6, <1>7 DEF SoundSegment

LEMMA PlannedStays ==
    ASSUME CompactionAssumption, TurnsOK, Onward, NEW p, Planned(p)
    PROVE  Planned(p)'
<1>1. p.to <= newest'
  <2>1. newest <= newest' /\ newest \in Nat /\ newest' \in Nat /\ p.to \in Nat /\ p.to <= newest
    BY TurnsAreFinite DEF Onward, Planned
  <2> QED BY <2>1
<1>2. ASSUME NEW u \in p.units PROVE UnitWithin(u, p)'
  <2>1. UnitWithin(u, p)
    BY DEF Planned
  <2>2. Settled(u.said)' /\ Settled(u.registered)'
    BY <2>1, SettledStays DEF UnitWithin
  <2>3. ~missed' => ~missed
    BY DEF Onward
  <2> QED BY <2>1, <2>2, <2>3 DEF UnitWithin, Span
<1>3. ASSUME ~missed'
      PROVE  Within(Formed, p)' \subseteq Words(p) /\ p.turns = Cardinality(Words(p))
  <2>1. ~missed
    BY <1>3 DEF Onward
  <2>2. Within(Formed, p)' \subseteq Within(Formed, p)
    BY <1>3, NoneForms DEF Planned
  <2> QED BY <2>1, <2>2 DEF Planned
<1>4. Span(p)' = Span(p) /\ Words(p)' = Words(p)
  BY DEF Span, Words
<1> QED BY <1>1, <1>2, <1>3, <1>4 DEF Planned

LEMMA HoldingStays ==
    ASSUME CompactionAssumption, TurnsOK, Onward, NEW p, Holding(p)
    PROVE  Holding(p)'
<1>1. p.at = "turns" => Settled(p.turns)'
  BY SettledStays DEF Holding
<1>2. p.at \in {"material", "write"} => Planned(p.plan)'
  BY PlannedStays DEF Holding
<1>3. ASSUME p.at = "write"
      PROVE  /\ Settled(p.said)' /\ (p.said \subseteq Span(p.plan))'
             /\ ~missed' => (p.said \subseteq Words(p.plan))'
  <2>1. Settled(p.said)'
    BY <1>3, SettledStays DEF Holding
  <2>2. (p.said \subseteq Span(p.plan))'
    BY <1>3 DEF Holding, Span
  <2>3. ~missed' => (p.said \subseteq Words(p.plan))'
    BY <1>3 DEF Holding, Words, Onward
  <2> QED BY <2>1, <2>2, <2>3
<1> QED BY <1>1, <1>2, <1>3 DEF Holding

LEMMA FormIsOnward ==
    ASSUME CompactionAssumption, HistoryInv, NEW t \in Turns, Form(t)
    PROVE  Onward
<1> USE DEF HistoryInv
<1>1. /\ turn[t] = "waiting" /\ turn' = [turn EXCEPT ![t] = "formed"]
      /\ newest' = Max({newest, t}) /\ missed' = (missed \/ t < newest)
      /\ segments' = segments /\ pass' = pass
  BY DEF Form
<1>2. newest \in Nat /\ t \in Nat /\ newest \in 0 .. MaxTurn /\ MaxTurn \in Nat
  BY TurnsAreFinite DEF TurnsOK
<1>3. newest' = IF newest <= t THEN t ELSE newest
  <2>1. \A m : m \in {newest, t} /\ (\A y \in {newest, t} : m >= y) =>
               m = IF newest <= t THEN t ELSE newest
    BY <1>2
  <2>2. (IF newest <= t THEN t ELSE newest) \in {newest, t}
        /\ \A y \in {newest, t} : (IF newest <= t THEN t ELSE newest) >= y
    BY <1>2
  <2> QED BY <1>1, <2>1, <2>2 DEF Max
<1>4. /\ turn' \in [Turns -> {"waiting", "formed", "gone"}] /\ turn'[t] = "formed"
      /\ \A u \in Turns : u # t => turn'[u] = turn[u]
  BY <1>1 DEF TurnsOK
<1>5. newest # t
  BY <1>1, <1>2 DEF TurnsOK, Turns
<1>6. Onward
  <2>1. newest <= newest' /\ newest' \in Nat
    BY <1>2, <1>3
  <2>2. ~missed' => newest < t
    <3>1. ~missed' => ~(t < newest)
      BY <1>1
    <3> QED BY <1>2, <1>5, <3>1
  <2>3. \A u \in Turns : turn[u] # "waiting" => turn'[u] \in {turn[u], "gone"}
    BY <1>1, <1>4
  <2>4. \A u \in Turns : turn[u] = "waiting" /\ turn'[u] = "formed" => u = t
    BY <1>4
  <2>5. \A u \in Turns : turn'[u] = "formed" => turn[u] \in {"waiting", "formed"}
    BY <1>1, <1>4
  <2>6. missed => missed'
    BY <1>1 DEF TurnsOK
  <2> QED BY <1>2, <2>1, <2>2, <2>3, <2>4, <2>5, <2>6 DEF Onward
<1> QED BY <1>6

LEMMA FormKeeps ==
    ASSUME CompactionAssumption, HistoryInv, NEW t \in Turns, Form(t)
    PROVE  HistoryInv'
<1> USE DEF HistoryInv
<1>1. /\ turn[t] = "waiting" /\ turn' = [turn EXCEPT ![t] = "formed"]
      /\ newest' = Max({newest, t}) /\ missed' = (missed \/ t < newest)
      /\ segments' = segments /\ pass' = pass
  BY DEF Form
<1>2. newest \in Nat /\ t \in Nat /\ newest \in 0 .. MaxTurn /\ MaxTurn \in Nat
  BY TurnsAreFinite DEF TurnsOK
<1>3. newest' = IF newest <= t THEN t ELSE newest
  <2>1. \A m : m \in {newest, t} /\ (\A y \in {newest, t} : m >= y) =>
               m = IF newest <= t THEN t ELSE newest
    BY <1>2
  <2>2. (IF newest <= t THEN t ELSE newest) \in {newest, t}
        /\ \A y \in {newest, t} : (IF newest <= t THEN t ELSE newest) >= y
    BY <1>2
  <2> QED BY <1>1, <2>1, <2>2 DEF Max
<1>4. /\ turn' \in [Turns -> {"waiting", "formed", "gone"}] /\ turn'[t] = "formed"
      /\ \A u \in Turns : u # t => turn'[u] = turn[u]
  BY <1>1 DEF TurnsOK
<1>5. newest # t
  BY <1>1, <1>2 DEF TurnsOK, Turns
<1>6. Onward
  BY FormIsOnward
<1>7. TurnsOK'
  <2>1. newest' \in 0 .. MaxTurn /\ (newest' = t \/ newest' = newest) /\ t <= newest' /\ newest <= newest'
    BY <1>2, <1>3 DEF Turns
  <2>2. missed' \in BOOLEAN
    BY <1>1 DEF TurnsOK
  <2>3. \A u \in Turns : turn'[u] = "formed" => u <= newest'
    <3> TAKE u \in Turns
    <3> HAVE turn'[u] = "formed"
    <3>1. CASE u = t
      BY <2>1, <3>1
    <3>2. CASE u # t
      <4>1. turn[u] = "formed" /\ u \in Nat /\ newest' \in Nat
        BY <1>4, <2>1, <3>2, TurnsAreFinite
      <4> QED BY <1>2, <2>1, <4>1 DEF TurnsOK
    <3> QED BY <3>1, <3>2
  <2>4. newest' > 0 => turn'[newest'] # "waiting"
    <3>1. CASE newest' = t
      BY <1>4, <3>1
    <3>2. CASE newest' = newest /\ newest > 0
      <4>1. newest \in Turns /\ turn[newest] # "waiting"
        BY <1>2, <3>2 DEF Turns, TurnsOK
      <4> QED BY <1>4, <1>5, <3>2, <4>1
    <3> QED BY <1>2, <2>1, <3>1, <3>2
  <2> QED BY <1>4, <2>1, <2>2, <2>3, <2>4 DEF TurnsOK
<1>8. SegmentsOK'
  <2>1. ASSUME NEW s \in segments PROVE SoundSegment(s)'
    <3>1. SoundSegment(s)
      BY DEF SegmentsOK
    <3>2. \A u \in s.registered : turn'[u] = "formed"
      BY <1>4, <3>1 DEF SoundSegment, Within, Formed
    <3> QED BY <1>6, <3>1, <3>2, SoundStays
  <2> QED BY <1>1, <2>1 DEF SegmentsOK
<1>9. PassesOK'
  <2>1. ASSUME NEW r \in Replicas PROVE Holding(pass[r])'
    <3>1. Holding(pass[r])
      BY DEF PassesOK
    <3> DEFINE p == pass[r]
    <3>2. Holding(p) /\ pass'[r] = p
      BY <1>1, <3>1
    <3>3. PICK q : q = p
      OBVIOUS
    <3>4. Holding(q)'
      BY <1>6, <3>2, <3>3, HoldingStays
    <3> QED BY <3>2, <3>3, <3>4 DEF Holding
  <2> QED BY <1>1, <2>1 DEF PassesOK
<1> QED BY <1>7, <1>8, <1>9

LEMMA EraseIsOnward ==
    ASSUME CompactionAssumption, HistoryInv, NEW t \in Turns, Erase(t)
    PROVE  Onward
<1> USE DEF HistoryInv
<1>1. /\ turn' = [turn EXCEPT ![t] = "gone"] /\ segments' = segments \ Reached(t)
      /\ pass' = pass /\ newest' = newest /\ missed' = missed
  BY DEF Erase
<1>2. /\ turn' \in [Turns -> {"waiting", "formed", "gone"}] /\ turn'[t] = "gone"
      /\ \A u \in Turns : u # t => turn'[u] = turn[u]
  BY <1>1 DEF TurnsOK
<1>3. Onward
  <2>1. newest \in Nat /\ newest' = newest
    BY <1>1, TurnsAreFinite DEF TurnsOK
  <2>2. \A u \in Turns : turn[u] # "waiting" => turn'[u] \in {turn[u], "gone"}
    BY <1>2
  <2>3. \A u \in Turns : turn'[u] = "formed" => turn[u] = "formed"
    BY <1>2
  <2> QED BY <1>1, <2>1, <2>2, <2>3 DEF Onward
<1> QED BY <1>3

LEMMA EraseKeeps ==
    ASSUME CompactionAssumption, HistoryInv, NEW t \in Turns, Erase(t)
    PROVE  HistoryInv'
<1> USE DEF HistoryInv
<1>1. /\ turn' = [turn EXCEPT ![t] = "gone"] /\ segments' = segments \ Reached(t)
      /\ pass' = pass /\ newest' = newest /\ missed' = missed
  BY DEF Erase
<1>2. /\ turn' \in [Turns -> {"waiting", "formed", "gone"}] /\ turn'[t] = "gone"
      /\ \A u \in Turns : u # t => turn'[u] = turn[u]
  BY <1>1 DEF TurnsOK
<1>3. Onward
  BY EraseIsOnward
<1>4. TurnsOK'
  <2>1. \A u \in Turns : turn'[u] = "formed" => turn[u] = "formed"
    BY <1>2
  <2>2. newest' > 0 => turn'[newest'] # "waiting"
    <3> SUFFICES ASSUME newest > 0 PROVE turn'[newest] # "waiting"
      BY <1>1
    <3>1. newest \in Turns /\ turn[newest] # "waiting"
      BY TurnsAreFinite DEF TurnsOK, Turns
    <3> QED BY <1>2, <3>1
  <2> QED BY <1>1, <1>2, <2>1, <2>2 DEF TurnsOK
<1>5. SegmentsOK'
  <2>1. ASSUME NEW s \in segments \ Reached(t) PROVE SoundSegment(s)'
    <3>1. SoundSegment(s) /\ t \notin s.registered
      BY DEF SegmentsOK, Reached
    <3>2. \A u \in s.registered : turn'[u] = "formed"
      BY <1>2, <3>1 DEF SoundSegment, Within, Formed
    <3> QED BY <1>3, <3>1, <3>2, SoundStays
  <2>2. IsFiniteSet(segments \ Reached(t))
    BY FS_Subset DEF SegmentsOK
  <2> QED BY <1>1, <2>1, <2>2 DEF SegmentsOK
<1>6. PassesOK'
  <2>1. ASSUME NEW r \in Replicas PROVE Holding(pass[r])'
    <3>1. PICK q : q = pass[r]
      OBVIOUS
    <3>2. Holding(q) /\ pass'[r] = q
      BY <1>1, <3>1 DEF PassesOK
    <3>3. Holding(q)'
      BY <1>3, <3>2, HoldingStays
    <3> QED BY <3>2, <3>3 DEF Holding
  <2> QED BY <1>1, <2>1 DEF PassesOK
<1> QED BY <1>4, <1>5, <1>6

\* A step of a pass leaves the turns alone.
StandsStill == turn' = turn /\ newest' = newest /\ (missed => missed')

LEMMA StillIsOnward ==
    ASSUME CompactionAssumption, TurnsOK, StandsStill
    PROVE  Onward
<1>1. newest \in Nat
  BY TurnsAreFinite DEF TurnsOK
<1> QED BY <1>1 DEF StandsStill, Onward

\* It keeps the invariant, then, when what it holds and what it writes is sound.
LEMMA StepKeeps ==
    ASSUME CompactionAssumption, HistoryInv, NEW r \in Replicas, NEW p,
           StandsStill, missed' \in BOOLEAN, pass' = [pass EXCEPT ![r] = p], Holding(p)',
           IsFiniteSet(segments'), \A s \in segments' \ segments : SoundSegment(s)',
           \A s, o \in segments' : s.level = o.level /\ s.from = o.from => s = o
    PROVE  HistoryInv'
<1> USE DEF HistoryInv
<1>1. Onward
  BY StillIsOnward
<1>2. TurnsOK'
  BY DEF TurnsOK, StandsStill
<1>3. \A s \in segments : SoundSegment(s)'
  <2> TAKE s \in segments
  <2>1. SoundSegment(s)
    BY DEF SegmentsOK
  <2>2. \A u \in s.registered : turn'[u] = "formed"
    BY <2>1 DEF SoundSegment, Within, Formed, StandsStill
  <2> QED BY <1>1, <2>1, <2>2, SoundStays
<1>4. SegmentsOK'
  BY <1>3 DEF SegmentsOK
<1>5. ASSUME NEW o \in Replicas PROVE Holding(pass[o])'
  <2>1. PICK q : q = pass[o]
    OBVIOUS
  <2>2. CASE o # r
    <3>1. Holding(q) /\ pass'[o] \in {q, p}
      BY <2>1 DEF PassesOK
    <3>2. pass'[o] = q \/ pass'[o] = p
      BY <3>1
    <3>3. Holding(q)'
      BY <1>1, <3>1, HoldingStays
    <3> QED BY <3>2, <3>3 DEF Holding
  <2>3. CASE o = r
    <3>1. pass'[o] = p \/ pass'[o] = q
      BY <2>1, <2>3
    <3>2. Holding(q)'
      BY <1>1, <2>1, HoldingStays DEF PassesOK
    <3> QED BY <3>1, <3>2 DEF Holding
  <2> QED BY <2>2, <2>3
<1>6. DOMAIN pass' = Replicas
  BY DEF PassesOK
<1> QED BY <1>2, <1>4, <1>5, <1>6 DEF PassesOK

\* A pass with two of its fields changed.
LEMMA ChangedTurns ==
    ASSUME NEW b, Whole(b), NEW x, NEW y
    PROVE  [b EXCEPT !.at = x, !.turns = y] = [at |-> x, turns |-> y, plan |-> b.plan, said |-> b.said]
<1>1. PICK q : q = [b EXCEPT !.at = x, !.turns = y]
  OBVIOUS
<1>2. q.at = x /\ q.turns = y /\ q.plan = b.plan /\ q.said = b.said
  BY <1>1 DEF Whole
<1>3. q = [at |-> q.at, turns |-> q.turns, plan |-> q.plan, said |-> q.said]
  BY <1>1 DEF Whole
<1> QED BY <1>1, <1>2, <1>3

LEMMA ChangedPlan ==
    ASSUME NEW b, Whole(b), NEW x, NEW y
    PROVE  [b EXCEPT !.at = x, !.plan = y] = [at |-> x, turns |-> b.turns, plan |-> y, said |-> b.said]
<1>1. PICK q : q = [b EXCEPT !.at = x, !.plan = y]
  OBVIOUS
<1>2. q.at = x /\ q.turns = b.turns /\ q.plan = y /\ q.said = b.said
  BY <1>1 DEF Whole
<1>3. q = [at |-> q.at, turns |-> q.turns, plan |-> q.plan, said |-> q.said]
  BY <1>1 DEF Whole
<1> QED BY <1>1, <1>2, <1>3

LEMMA ChangedSaid ==
    ASSUME NEW b, Whole(b), NEW x, NEW y
    PROVE  [b EXCEPT !.at = x, !.said = y] = [at |-> x, turns |-> b.turns, plan |-> b.plan, said |-> y]
<1>1. PICK q : q = [b EXCEPT !.at = x, !.said = y]
  OBVIOUS
<1>2. q.at = x /\ q.turns = b.turns /\ q.plan = b.plan /\ q.said = y
  BY <1>1 DEF Whole
<1>3. q = [at |-> q.at, turns |-> q.turns, plan |-> q.plan, said |-> q.said]
  BY <1>1 DEF Whole
<1> QED BY <1>1, <1>2, <1>3

LEMMA ReadTurnsMoves ==
    ASSUME HistoryInv, NEW r \in Replicas, ReadTurns(r)
    PROVE  pass' = [pass EXCEPT ![r] = [at |-> "turns", turns |-> Formed,
                                        plan |-> pass[r].plan, said |-> pass[r].said]]
<1>1. /\ pass' = [pass EXCEPT ![r].at = "turns", ![r].turns = Formed]
      /\ turn' = turn /\ segments' = segments /\ newest' = newest /\ missed' = missed
  BY DEF ReadTurns
<1>2. PICK q : q = pass[r]
  OBVIOUS
<1>3. Whole(q)
  BY <1>2 DEF HistoryInv, PassesOK, Holding
<1>4. PICK p : p = [at |-> "turns", turns |-> Formed, plan |-> q.plan, said |-> q.said]
  OBVIOUS
<1>5. pass' = [pass EXCEPT ![r] = p]
  <2>1. [q EXCEPT !.at = "turns", !.turns = Formed] = p
    <3>1. PICK f : f = Formed
      OBVIOUS
    <3>2. [q EXCEPT !.at = "turns", !.turns = f]
          = [at |-> "turns", turns |-> f, plan |-> q.plan, said |-> q.said]
      BY <1>3, ChangedTurns
    <3> QED BY <1>4, <3>1, <3>2
  <2>2. r \in DOMAIN pass
    BY DEF HistoryInv, PassesOK
  <2>3. pass' = [pass EXCEPT ![r] = [pass[r] EXCEPT !.at = "turns", !.turns = Formed]]
    BY <1>1, <2>2
  <2> QED BY <1>2, <2>1, <2>3
<1> QED BY <1>2, <1>4, <1>5

LEMMA ReadTurnsKeeps ==
    ASSUME CompactionAssumption, HistoryInv, NEW r \in Replicas, ReadTurns(r)
    PROVE  HistoryInv'
<1>1. /\ pass' = [pass EXCEPT ![r].at = "turns", ![r].turns = Formed]
      /\ turn' = turn /\ segments' = segments /\ newest' = newest /\ missed' = missed
  BY DEF ReadTurns
<1>2. PICK q : q = pass[r]
  OBVIOUS
<1>4. PICK p : p = [at |-> "turns", turns |-> Formed, plan |-> q.plan, said |-> q.said]
  OBVIOUS
<1>5. pass' = [pass EXCEPT ![r] = p]
  BY <1>2, <1>4, ReadTurnsMoves
<1>6. Settled(Formed)'
  BY <1>1 DEF Settled, Formed, HistoryInv, TurnsOK
<1>7. Holding(p)'
  BY <1>1, <1>4, <1>6 DEF Holding, Whole, Formed
<1>8. /\ missed' \in BOOLEAN /\ IsFiniteSet(segments') /\ StandsStill
      /\ \A s, o \in segments' : s.level = o.level /\ s.from = o.from => s = o
  BY <1>1 DEF HistoryInv, TurnsOK, SegmentsOK, StandsStill
<1>9. segments' \ segments = {}
  BY <1>1
<1> QED BY <1>5, <1>7, <1>8, <1>9, StepKeeps

\* A pass that gives up holds nothing.
LEMMA GivesUp ==
    ASSUME CompactionAssumption, HistoryInv, NEW r \in Replicas, pass' = [pass EXCEPT ![r] = Idle],
           StandsStill, missed' \in BOOLEAN, segments' = segments
    PROVE  HistoryInv'
<1>1. Holding(Idle)'
  BY DEF Holding, Whole, Idle
<1>2. /\ IsFiniteSet(segments') /\ segments' \ segments = {}
      /\ \A s, o \in segments' : s.level = o.level /\ s.from = o.from => s = o
  BY DEF HistoryInv, SegmentsOK
<1> QED BY <1>1, <1>2, StepKeeps

LEMMA PlanMoves ==
    ASSUME NEW r \in Replicas, Plan(r)
    PROVE  \E p : pass' = [pass EXCEPT ![r] = p] /\ p.at # "write"
<1>1. PICK plan : plan = NextPlan(pass[r].turns, segments)
  OBVIOUS
<1>2. PICK p : p = IF plan = NoPlan THEN Idle ELSE [Idle EXCEPT !.at = "material", !.plan = plan]
  OBVIOUS
<1>3. pass' = [pass EXCEPT ![r] = p]
  BY <1>1, <1>2 DEF Plan
<1>4. [Idle EXCEPT !.at = "material", !.plan = plan]
      = [at |-> "material", turns |-> Idle.turns, plan |-> plan, said |-> Idle.said]
  <2>1. Whole(Idle)
    BY DEF Whole, Idle
  <2> QED BY <2>1, ChangedPlan
<1>5. p.at # "write"
  <2>1. Idle.at = "idle"
    BY DEF Idle
  <2> QED BY <1>2, <1>4, <2>1
<1> QED BY <1>3, <1>5

LEMMA PlanKeeps ==
    ASSUME CompactionAssumption, HistoryInv, NEW r \in Replicas, Plan(r)
    PROVE  HistoryInv'
<1> USE DEF HistoryInv
<1> DEFINE T == pass[r].turns
           plan == NextPlan(T, segments)
<1>1. /\ pass[r].at = "turns" /\ turn' = turn /\ segments' = segments /\ newest' = newest
      /\ pass' = [pass EXCEPT ![r] = IF plan = NoPlan THEN Idle
                                     ELSE [Idle EXCEPT !.at = "material", !.plan = plan]]
      /\ missed' = (missed \/ PassedOver(plan) # {})
  BY DEF Plan
<1>2. missed' \in BOOLEAN /\ StandsStill
  BY <1>1 DEF StandsStill
<1>3. Settled(T) /\ T \in SUBSET Turns
  BY <1>1 DEF PassesOK, Holding, Settled
<1>4. CASE plan = NoPlan
  <2>1. pass' = [pass EXCEPT ![r] = Idle]
    BY <1>1, <1>4
  <2> QED BY <1>1, <1>2, <2>1, GivesUp
<1>5. CASE plan # NoPlan
  <2>1. PICK p : p = plan
    OBVIOUS
  <2>2. \A level \in 1 .. MaxLevel : InLog(Units(level, T, segments))
    BY <1>3, UnitsAreSound
  <2>3. PICK level \in 1 .. MaxLevel : Feasible(p, level, T, segments)
    BY <1>3, <1>5, <2>1, <2>2, PlanIsFeasible
  <2>4. /\ p.from \in Turns /\ p.to \in Turns /\ p.from <= p.to /\ p.to <= newest
        /\ \A u \in p.units : UnitWithin(u, p)
        /\ ~missed => p.turns = Cardinality(Words(p))
        /\ ~missed /\ PassedOver(p) = {} => Within(Formed, p) \subseteq Words(p)
    BY <1>3, <2>3, FeasibleIsSound
  <2>5. p.level = level
    BY <2>3 DEF Feasible
  <2>6. ~missed' => ~missed /\ PassedOver(p) = {}
    BY <1>1, <2>1
  <2>7. Planned(p)'
    <3>1. Formed' = Formed /\ Span(p)' = Span(p) /\ Words(p)' = Words(p)
      BY <1>1 DEF Formed, Span, Words
    <3>2. \A u \in p.units : UnitWithin(u, p)'
      BY <1>1, <2>4, <2>6 DEF UnitWithin, Settled, Span
    <3>3. Within(Formed, p)' = Within(Formed, p)
      BY <3>1 DEF Within
    <3> QED BY <1>1, <2>4, <2>5, <2>6, <3>1, <3>2, <3>3 DEF Planned
  <2>8. PICK q : q = [at |-> "material", turns |-> {}, plan |-> p, said |-> {}]
    OBVIOUS
  <2>9. pass' = [pass EXCEPT ![r] = q]
    <3>1. [Idle EXCEPT !.at = "material", !.plan = plan] = q
      <4>1. Whole(Idle)
        BY DEF Whole, Idle
      <4>2. [Idle EXCEPT !.at = "material", !.plan = p]
            = [at |-> "material", turns |-> Idle.turns, plan |-> p, said |-> Idle.said]
        BY <4>1, ChangedPlan
      <4>3. Idle.turns = {} /\ Idle.said = {}
        BY DEF Idle
      <4> QED BY <2>1, <2>8, <4>2, <4>3
    <3> QED BY <1>1, <1>5, <3>1
  <2>10. Holding(q)'
    BY <2>7, <2>8 DEF Holding, Whole
  <2>11. /\ IsFiniteSet(segments') /\ segments' \ segments = {}
         /\ \A s, o \in segments' : s.level = o.level /\ s.from = o.from => s = o
    BY <1>1 DEF SegmentsOK
  <2> QED BY <1>2, <2>9, <2>10, <2>11, StepKeeps
<1> QED BY <1>4, <1>5

LEMMA ReadMaterialKeeps ==
    ASSUME CompactionAssumption, HistoryInv, NEW r \in Replicas, ReadMaterial(r)
    PROVE  HistoryInv'
<1> USE DEF HistoryInv
<1>0. PICK b : b = pass[r]
  OBVIOUS
<1> DEFINE plan == b.plan
           said == IF plan.level = 1 THEN Bound(Within(Formed, plan)) ELSE UNION {u.said : u \in plan.units}
<1>1. /\ b.at = "material" /\ turn' = turn /\ segments' = segments /\ newest' = newest
      /\ missed' = missed
      /\ pass' = [pass EXCEPT ![r] =
                    IF plan.level > 1 /\ ~(plan.units \subseteq segments) THEN Idle
                    ELSE [b EXCEPT !.at = "write", !.said = said]]
  BY <1>0 DEF ReadMaterial
<1>2. missed' \in BOOLEAN /\ StandsStill
  BY <1>1 DEF StandsStill, TurnsOK
<1>3. Planned(plan) /\ Whole(b)
  BY <1>0, <1>1 DEF PassesOK, Holding
<1>4. CASE plan.level > 1 /\ ~(plan.units \subseteq segments)
  <2>1. pass' = [pass EXCEPT ![r] = Idle]
    BY <1>1, <1>4
  <2> QED BY <1>1, <1>2, <2>1, GivesUp
<1>5. CASE ~(plan.level > 1 /\ ~(plan.units \subseteq segments))
  <2>1. PICK q : q = [at |-> "write", turns |-> b.turns, plan |-> plan, said |-> said]
    OBVIOUS
  <2>2. pass' = [pass EXCEPT ![r] = q]
    <3>1. [b EXCEPT !.at = "write", !.said = said] = q
      <4> HIDE DEF said
      <4>1. PICK words : words = said
        OBVIOUS
      <4> HIDE DEF said
      <4>2. [b EXCEPT !.at = "write", !.said = words]
            = [at |-> "write", turns |-> b.turns, plan |-> b.plan, said |-> words]
        BY <1>3, ChangedSaid
      <4> QED BY <2>1, <4>1, <4>2
    <3> QED BY <1>1, <1>5, <3>1
  <2>3. Settled(said) /\ said \subseteq Span(plan)
    <3>1. Settled(Bound(Within(Formed, plan))) /\ Bound(Within(Formed, plan)) \subseteq Span(plan)
      BY DEF Bound, Settled, Within, Formed, Span, TurnsOK
    <3>2. \A u \in plan.units : Settled(u.said) /\ u.said \subseteq Span(plan)
      BY <1>3 DEF Planned, UnitWithin
    <3>3. Settled(UNION {u.said : u \in plan.units}) /\ (UNION {u.said : u \in plan.units}) \subseteq Span(plan)
      BY <3>2 DEF Settled
    <3> QED BY <3>1, <3>3
  <2>4. ~missed => said \subseteq Words(plan)
    <3>1. ~missed => Within(Formed, plan) \subseteq Words(plan)
      BY <1>3 DEF Planned
    <3>2. ~missed => \A u \in plan.units : u.said \subseteq u.registered
      BY <1>3 DEF Planned, UnitWithin
    <3>3. Bound(Within(Formed, plan)) \subseteq Within(Formed, plan)
      BY DEF Bound
    <3> QED BY <3>1, <3>2, <3>3 DEF Words
  <2>5. /\ Settled(said)' /\ Planned(plan)'
        /\ (said \subseteq Span(plan))'
        /\ ~missed' => (said \subseteq Words(plan))'
    <3> HIDE DEF plan
    <3>1. Formed' = Formed
      BY <1>1 DEF Formed
    <3>2. Planned(plan)'
      BY <1>2, <1>3, StillIsOnward, PlannedStays DEF plan
    <3>3. said' = said /\ Within(Formed, plan)' = Within(Formed, plan)
      BY <3>1 DEF Within, plan
    <3>4. Span(plan)' = Span(plan) /\ Words(plan)' = Words(plan)
      BY DEF Span, Words, plan
    <3> HIDE DEF said
    <3>5. Settled(said)'
      BY <1>1, <2>3, <3>3 DEF Settled
    <3> QED BY <1>1, <2>3, <2>4, <3>2, <3>3, <3>4, <3>5
  <2>6. Holding(q)'
    <3>1. PICK words : words = said
      OBVIOUS
    <3>2. /\ Settled(words)' /\ Planned(plan)'
          /\ (words \subseteq Span(plan))'
          /\ ~missed' => (words \subseteq Words(plan))'
      <4>1. said' = words
        BY <1>1, <3>1 DEF Within, Formed
      <4> HIDE DEF said
      <4> QED BY <2>5, <3>1, <4>1 DEF Settled
    <3>3. q = [at |-> "write", turns |-> b.turns, plan |-> plan, said |-> words]
      BY <2>1, <3>1
    <3> HIDE DEF said
    <3> QED BY <3>2, <3>3 DEF Holding, Whole
  <2>7. /\ IsFiniteSet(segments') /\ segments' \ segments = {}
        /\ \A s, o \in segments' : s.level = o.level /\ s.from = o.from => s = o
    BY <1>1 DEF SegmentsOK
  <2> QED BY <1>2, <2>2, <2>6, <2>7, StepKeeps
<1> QED BY <1>4, <1>5

\* What a plan was made of, if the range holds as many turns.
LEMMA WriteKeeps ==
    ASSUME CompactionAssumption, HistoryInv, NEW r \in Replicas, Write(r)
    PROVE  HistoryInv'
<1> USE DEF HistoryInv
<1>1. PICK plan : plan = pass[r].plan
  OBVIOUS
<1>2. PICK said : said = pass[r].said
  OBVIOUS
<1>3. PICK s : s = [level |-> plan.level, from |-> plan.from, to |-> plan.to, covered |-> plan.turns,
                    said |-> said, registered |-> Within(Formed, plan)]
  OBVIOUS
<1>4. /\ pass[r].at = "write" /\ turn' = turn /\ newest' = newest /\ missed' = missed
      /\ ~Taken(plan) /\ Cardinality(Within(Formed, plan)) = plan.turns
      /\ segments' = segments \cup {s} /\ pass' = [pass EXCEPT ![r] = Idle]
  BY <1>1, <1>2, <1>3 DEF Write, Counted, Registered
<1>5. /\ Planned(plan) /\ Settled(said) /\ said \subseteq Span(plan)
      /\ ~missed => said \subseteq Words(plan)
  BY <1>1, <1>2, <1>4 DEF PassesOK, Holding
<1>6. /\ s.level = plan.level /\ s.from = plan.from /\ s.to = plan.to /\ s.covered = plan.turns
      /\ s.said = said /\ s.registered = Within(Formed, plan)
  BY <1>3
<1>7. Within(Formed, s) = Within(Formed, plan) /\ Span(s) = Span(plan)
  BY <1>6 DEF Within, Span
<1>8. ASSUME ~missed PROVE Within(Formed, plan) = Words(plan)
  <2>1. Within(Formed, plan) \subseteq Words(plan) /\ plan.turns = Cardinality(Words(plan))
    BY <1>5, <1>8 DEF Planned
  <2>2. IsFiniteSet(Words(plan))
    <3>1. Words(plan) \in SUBSET Turns
      BY <1>5 DEF Planned, UnitWithin, Words, Settled
    <3> QED BY <3>1, TurnsAreFinite
  <2> QED BY <1>4, <2>1, <2>2, FS_Subset
<1>9. SoundSegment(s)
  <2>1. s.level \in 1 .. MaxLevel /\ s.from \in Turns /\ s.to \in Turns /\ s.from <= s.to /\ s.to <= newest
    BY <1>5, <1>6 DEF Planned
  <2>2. Settled(s.said) /\ s.said \subseteq Span(s)
    BY <1>5, <1>6, <1>7
  <2>3. s.registered = Within(Formed, s) /\ s.covered = Cardinality(s.registered)
    BY <1>4, <1>6, <1>7
  <2>4. ASSUME NEW t \in s.said, turn[t] # "gone" PROVE t \in s.registered
    <3>1. t \in Turns /\ turn[t] \in {"waiting", "formed", "gone"} /\ turn[t] # "waiting"
      BY <2>2 DEF Settled, TurnsOK
    <3>2. s.from <= t /\ t <= s.to
      BY <2>2 DEF Span
    <3> QED BY <2>3, <2>4, <3>1, <3>2 DEF Within, Formed
  <2>5. ~missed => s.said \subseteq s.registered
    BY <1>5, <1>6, <1>8
  <2> QED BY <2>1, <2>2, <2>3, <2>4, <2>5 DEF SoundSegment
<1>10. SoundSegment(s)'
  <2>1. \A t \in s.registered : turn'[t] = "formed"
    BY <1>4, <1>6 DEF Within, Formed
  <2> QED BY <1>4, <1>9, <2>1, StillIsOnward, SoundStays DEF StandsStill
<1>11. Holding(Idle)'
  BY DEF Holding, Whole, Idle
<1>12. IsFiniteSet(segments') /\ \A o \in segments' \ segments : SoundSegment(o)'
  BY <1>4, <1>10, FS_AddElement DEF SegmentsOK
<1>13. \A a, b \in segments' : a.level = b.level /\ a.from = b.from => a = b
  BY <1>4, <1>6 DEF SegmentsOK, Taken
<1>14. missed' \in BOOLEAN /\ StandsStill
  BY <1>4 DEF TurnsOK, StandsStill
<1> QED BY <1>4, <1>11, <1>12, <1>13, <1>14, StepKeeps

LEMMA NextKeeps == CompactionAssumption /\ HistoryInv /\ [CNext]_cvars => HistoryInv'
<1> SUFFICES ASSUME CompactionAssumption, HistoryInv, [CNext]_cvars PROVE HistoryInv'
  OBVIOUS
<1>1. CASE UNCHANGED cvars
  <2>1. turn' = turn /\ segments' = segments /\ pass' = pass /\ newest' = newest /\ missed' = missed
    BY <1>1 DEF cvars
  <2>2. TurnsOK' /\ Onward
    BY <2>1, StillIsOnward DEF HistoryInv, TurnsOK, StandsStill
  <2>3. ASSUME NEW s \in segments PROVE SoundSegment(s)'
    <3>1. SoundSegment(s) /\ \A t \in s.registered : turn'[t] = "formed"
      BY <2>1 DEF HistoryInv, SegmentsOK, SoundSegment, Within, Formed
    <3> QED BY <2>2, <3>1, SoundStays DEF HistoryInv
  <2>4. ASSUME NEW r \in Replicas PROVE Holding(pass[r])'
    <3>1. PICK q : q = pass[r]
      OBVIOUS
    <3>2. Holding(q) /\ pass'[r] = q
      BY <2>1, <3>1 DEF HistoryInv, PassesOK
    <3>3. Holding(q)'
      BY <2>2, <3>2, HoldingStays DEF HistoryInv
    <3> QED BY <3>2, <3>3 DEF Holding
  <2> QED BY <2>1, <2>2, <2>3, <2>4 DEF HistoryInv, SegmentsOK, PassesOK
<1>2. ASSUME NEW t \in Turns, Form(t) PROVE HistoryInv'
  BY <1>2, FormKeeps
<1>3. ASSUME NEW t \in Turns, Erase(t) PROVE HistoryInv'
  BY <1>3, EraseKeeps
<1>4. ASSUME NEW r \in Replicas, Step(r) PROVE HistoryInv'
  <2>1. ASSUME Refuse(r) PROVE HistoryInv'
    <3>1. missed' \in BOOLEAN /\ StandsStill /\ segments' = segments /\ pass' = [pass EXCEPT ![r] = Idle]
      BY <2>1 DEF Refuse, StandsStill, HistoryInv, TurnsOK
    <3> QED BY <3>1, GivesUp
  <2> QED BY <1>4, <2>1, ReadTurnsKeeps, PlanKeeps, ReadMaterialKeeps, WriteKeeps DEF Step
<1>5. ASSUME NEW r \in Replicas, Fail(r) PROVE HistoryInv'
  <2>1. missed' \in BOOLEAN /\ StandsStill /\ segments' = segments /\ pass' = [pass EXCEPT ![r] = Idle]
    BY <1>5 DEF Fail, StandsStill, HistoryInv, TurnsOK
  <2> QED BY <2>1, GivesUp
<1> QED BY <1>1, <1>2, <1>3, <1>4, <1>5 DEF CNext

\* Segments and passes stay sound, whatever forms, is erased or fails between the
\* statements of a pass, and whatever the other replicas write.
THEOREM HistoryInvariant == CSpec => []HistoryInv
<1>1. CInit => HistoryInv
  BY CompactionAssumption, InitHolds
<1>2. HistoryInv /\ [CNext]_cvars => HistoryInv'
  BY CompactionAssumption, NextKeeps
<1> QED BY <1>1, <1>2, PTL DEF CSpec

\* A segment stands at one of the levels, holds as many turns as it says, and no
\* other of its level begins where it does, however many replicas write.
THEOREM HistoryTypeCorrect == CSpec => []CTypeOK
<1>1. HistoryInv => CTypeOK
  <2> SUFFICES ASSUME HistoryInv PROVE CTypeOK
    OBVIOUS
  <2>1. \A r \in Replicas : pass[r].at \in {"idle", "turns", "material", "write"}
    BY DEF HistoryInv, PassesOK, Holding
  <2> QED BY <2>1 DEF HistoryInv, TurnsOK, SegmentsOK, SoundSegment, CTypeOK
<1> QED BY <1>1, HistoryInvariant, PTL

\* An erasure takes with it every summary written from the turn, and while no turn
\* was missed no summary holds the words of an erased one: a count is enough at Write.
THEOREM SummariesKeepToTheirTurns == CSpec => []SummariesOutliveNoTurn
<1>1. HistoryInv => SummariesOutliveNoTurn
  <2> SUFFICES ASSUME HistoryInv, NEW s \in segments
               PROVE  /\ \A t \in s.said : turn[t] # "gone" => t \in s.registered
                      /\ ~missed => \A t \in s.said : turn[t] # "gone"
    BY DEF SummariesOutliveNoTurn
  <2>1. SoundSegment(s)
    BY DEF HistoryInv, SegmentsOK
  <2>2. \A t \in s.registered : turn[t] = "formed"
    BY <2>1 DEF SoundSegment, Within, Formed
  <2> QED BY <2>1, <2>2 DEF SoundSegment
<1> QED BY <1>1, HistoryInvariant, PTL

\* Over a turn that something covers, one segment of the highest level begins first.
LEMMA CoveringExists ==
    ASSUME CompactionAssumption, SegmentsOK, NEW t, Over(t) # {}
    PROVE  Covering(t) \in Over(t)
<1> DEFINE heights == {MaxLevel - s.level : s \in Over(t)}
<1>1. \A s \in Over(t) : s \in segments /\ s.level \in 1 .. MaxLevel /\ s.from \in Nat
  BY TurnsAreFinite DEF Over, SegmentsOK, SoundSegment
<1>2. heights \in SUBSET Nat /\ heights # {}
  BY <1>1 DEF CompactionAssumption
<1>3. PICK h \in heights : \A k \in heights : h <= k
  BY <1>2, LeastExists
<1>4. PICK s \in Over(t) : h = MaxLevel - s.level
  BY <1>3
<1>5. \A o \in Over(t) : o.level <= s.level
  <2> TAKE o \in Over(t)
  <2>1. h <= MaxLevel - o.level
    BY <1>3
  <2> QED BY <1>1, <1>4, <2>1 DEF CompactionAssumption
<1> HIDE DEF heights
<1> DEFINE starts == {o.from : o \in {u \in Over(t) : u.level = s.level}}
<1>6. starts \in SUBSET Nat /\ starts # {}
  BY <1>1
<1>7. PICK f \in starts : \A k \in starts : f <= k
  BY <1>6, LeastExists
<1>8. PICK c \in Over(t) : c.level = s.level /\ c.from = f
  BY <1>7
<1>9. \A o \in Over(t) : o.level < c.level \/ (o.level = c.level /\ c.from <= o.from)
  <2> TAKE o \in Over(t)
  <2>1. CASE o.level = s.level
    <3>1. o.from \in starts
      BY <2>1
    <3> QED BY <1>7, <1>8, <2>1, <3>1
  <2>2. CASE o.level # s.level
    <3>1. o.level <= s.level /\ o.level \in Nat /\ s.level \in Nat
      BY <1>1, <1>5
    <3> QED BY <1>8, <2>2, <3>1
  <2> QED BY <2>1, <2>2
<1> QED BY <1>9 DEF Covering

-----------------------------------------------------------------------------
(* What the summaries tell.                                                 *)

\* Words tell of a turn, or the material of a segment over turns had no room for it, and those
\* turns are some of the ones that the words stand for.
ToldOrCut(t, said, registered) ==
    \/ t \in said
    \/ \E o \in segments : /\ o.level = 1 /\ o.registered \subseteq registered
                           /\ t \in o.registered /\ TooMuch(o.registered, t)

Tells(said, registered) == \A t \in registered : ToldOrCut(t, said, registered)

\* What a pass is about to write tells of the turns its plan is of, as long as they are there.
AboutToTell(p) ==
    p.at = "write" /\ Words(p.plan) \subseteq Formed =>
        IF p.plan.level = 1 THEN p.said = Bound(Words(p.plan)) ELSE Tells(p.said, Words(p.plan))

TellInv ==
    ~missed => /\ \A s \in segments : Tells(s.said, s.registered)
               /\ \A r \in Replicas : AboutToTell(pass[r])

\* Words go on telling while the segments over some of their turns stand.
LEMMA TellsStays ==
    ASSUME NEW said, NEW registered, Tells(said, registered),
           \A o \in segments : o.registered \subseteq registered => o \in segments'
    PROVE  Tells(said, registered)'
<1> SUFFICES ASSUME NEW t \in registered PROVE ToldOrCut(t, said, registered)'
  BY DEF Tells
<1>1. ToldOrCut(t, said, registered)
  BY DEF Tells
<1> QED BY <1>1 DEF ToldOrCut

\* A turn that formed and is formed was so before.
LEMMA FormedBefore ==
    ASSUME Onward, NEW S, Settled(S), S \subseteq Formed'
    PROVE  S \subseteq Formed
BY DEF Onward, Settled, Formed

\* So a pass that does not move goes on as it was.
LEMMA AboutToTellStays ==
    ASSUME Onward, NEW p, Holding(p), AboutToTell(p),
           \A o \in segments : o.registered \subseteq Formed' => o \in segments'
    PROVE  AboutToTell(p)'
<1> SUFFICES ASSUME p.at = "write", Words(p.plan) \subseteq Formed'
             PROVE  IF p.plan.level = 1 THEN p.said = Bound(Words(p.plan))
                    ELSE Tells(p.said, Words(p.plan))'
  BY DEF AboutToTell, Words
<1>1. Settled(Words(p.plan))
  BY DEF Holding, Planned, UnitWithin, Words, Settled
<1>2. Words(p.plan) \subseteq Formed
  BY <1>1, FormedBefore
<1>3. p.plan.level = 1 => p.said = Bound(Words(p.plan))
  BY <1>2 DEF AboutToTell
<1>4. p.plan.level # 1 => Tells(p.said, Words(p.plan))
  BY <1>2 DEF AboutToTell
<1>5. PICK said, registered : said = p.said /\ registered = Words(p.plan)
  OBVIOUS
<1>6. p.plan.level # 1 => Tells(said, registered)'
  <2>1. \A o \in segments : o.registered \subseteq registered => o \in segments'
    BY <1>5
  <2> QED BY <1>4, <1>5, <2>1, TellsStays
<1>7. p.plan.level # 1 => Tells(p.said, Words(p.plan))'
  BY <1>5, <1>6 DEF Tells, ToldOrCut, Words
<1> QED BY <1>3, <1>7

\* A step that leaves the passes alone, and takes the segments registered to what is gone.
LEMMA MovesKeepTelling ==
    ASSUME HistoryInv, TellInv, Onward, pass' = pass, segments' \subseteq segments,
           \A o \in segments : o.registered \subseteq Formed' => o \in segments',
           \A s \in segments' : s.registered \subseteq Formed'
    PROVE  TellInv'
<1> SUFFICES ASSUME ~missed'
             PROVE  /\ \A s \in segments' : Tells(s.said, s.registered)'
                    /\ \A r \in Replicas : AboutToTell(pass[r])'
  BY DEF TellInv
<1>1. ~missed
  BY DEF Onward
<1>2. ASSUME NEW s \in segments' PROVE Tells(s.said, s.registered)'
  <2>1. PICK said, registered : said = s.said /\ registered = s.registered
    OBVIOUS
  <2>2. Tells(said, registered)
    BY <1>1, <2>1 DEF TellInv
  <2>3. \A o \in segments : o.registered \subseteq registered => o \in segments'
    BY <2>1
  <2>4. Tells(said, registered)'
    BY <2>2, <2>3, TellsStays
  <2> QED BY <2>1, <2>4 DEF Tells, ToldOrCut
<1>3. ASSUME NEW r \in Replicas PROVE AboutToTell(pass[r])'
  <2>1. PICK q : q = pass[r]
    OBVIOUS
  <2>2. Holding(q) /\ AboutToTell(q) /\ pass'[r] = q
    BY <1>1, <2>1 DEF HistoryInv, PassesOK, TellInv
  <2>3. AboutToTell(q)'
    BY <2>2, AboutToTellStays
  <2> QED BY <2>2, <2>3 DEF AboutToTell
<1> QED BY <1>2, <1>3

\* A step of a pass, when what it holds then and what it writes tells.
LEMMA StepKeepsTelling ==
    ASSUME CompactionAssumption, HistoryInv, TellInv, NEW r \in Replicas, NEW p, StandsStill,
           pass' = [pass EXCEPT ![r] = p], segments \subseteq segments',
           ~missed' => AboutToTell(p)',
           ~missed' => \A s \in segments' \ segments : Tells(s.said, s.registered)'
    PROVE  TellInv'
<1> SUFFICES ASSUME ~missed'
             PROVE  /\ \A s \in segments' : Tells(s.said, s.registered)'
                    /\ \A o \in Replicas : AboutToTell(pass[o])'
  BY DEF TellInv
<1>1. ~missed /\ Onward
  BY StillIsOnward DEF StandsStill, HistoryInv
<1>2. ASSUME NEW s \in segments PROVE Tells(s.said, s.registered)'
  <2>1. PICK said, registered : said = s.said /\ registered = s.registered
    OBVIOUS
  <2>2. Tells(said, registered)
    BY <1>1, <2>1 DEF TellInv
  <2>3. Tells(said, registered)'
    BY <2>2, TellsStays
  <2> QED BY <2>1, <2>3 DEF Tells, ToldOrCut
<1>3. ASSUME NEW o \in Replicas PROVE AboutToTell(pass[o])'
  <2>1. PICK q : q = pass[o]
    OBVIOUS
  <2>2. Holding(q) /\ AboutToTell(q) /\ (pass'[o] = q \/ pass'[o] = p)
    BY <1>1, <2>1 DEF HistoryInv, PassesOK, TellInv
  <2>3. AboutToTell(q)'
    BY <1>1, <2>2, AboutToTellStays
  <2> QED BY <2>2, <2>3 DEF AboutToTell
<1> QED BY <1>2, <1>3

\* A pass with nothing to write yet.
LEMMA QuietKeepsTelling ==
    ASSUME CompactionAssumption, HistoryInv, TellInv, NEW r \in Replicas, NEW p, StandsStill,
           pass' = [pass EXCEPT ![r] = p], segments' = segments, p.at # "write"
    PROVE  TellInv'
<1>1. AboutToTell(p)'
  BY DEF AboutToTell
<1> QED BY <1>1, StepKeepsTelling

LEMMA ReadMaterialTells ==
    ASSUME CompactionAssumption, HistoryInv, TellInv, NEW r \in Replicas, ReadMaterial(r)
    PROVE  TellInv'
<1>0. PICK b : b = pass[r]
  OBVIOUS
<1>1. PICK plan : plan = b.plan
  OBVIOUS
<1>2. PICK said : said = IF plan.level = 1 THEN Bound(Within(Formed, plan))
                         ELSE UNION {u.said : u \in plan.units}
  OBVIOUS
<1>3. /\ b.at = "material" /\ turn' = turn /\ segments' = segments /\ newest' = newest
      /\ missed' = missed
      /\ pass' = [pass EXCEPT ![r] =
                    IF plan.level > 1 /\ ~(plan.units \subseteq segments) THEN Idle
                    ELSE [b EXCEPT !.at = "write", !.said = said]]
  BY <1>0, <1>1, <1>2 DEF ReadMaterial
<1>4. StandsStill
  BY <1>3 DEF StandsStill
<1>5. Planned(plan) /\ Whole(b)
  BY <1>0, <1>1, <1>3 DEF HistoryInv, PassesOK, Holding
<1>6. CASE plan.level > 1 /\ ~(plan.units \subseteq segments)
  <2>1. pass' = [pass EXCEPT ![r] = Idle] /\ Idle.at # "write"
    BY <1>3, <1>6 DEF Idle
  <2> QED BY <1>3, <1>4, <2>1, QuietKeepsTelling
<1>7. CASE ~(plan.level > 1 /\ ~(plan.units \subseteq segments))
  <2>1. PICK q : q = [at |-> "write", turns |-> b.turns, plan |-> plan, said |-> said]
    OBVIOUS
  <2>2. pass' = [pass EXCEPT ![r] = q]
    <3>1. [b EXCEPT !.at = "write", !.said = said] = q
      BY <1>1, <1>5, <2>1, ChangedSaid
    <3> QED BY <1>3, <1>7, <3>1
  <2>3. ASSUME ~missed, plan.level = 1, Words(plan) \subseteq Formed PROVE said = Bound(Words(plan))
    <3>1. Within(Formed, plan) = Words(plan)
      BY <1>5, <2>3 DEF Planned, UnitWithin, Words, Span, Within
    <3> QED BY <1>2, <2>3, <3>1
  <2>4. ASSUME ~missed, plan.level # 1 PROVE Tells(said, Words(plan))
    <3>1. plan.units \subseteq segments
      BY <1>5, <1>7, <2>4 DEF Planned
    <3> SUFFICES ASSUME NEW t \in Words(plan) PROVE ToldOrCut(t, said, Words(plan))
      BY DEF Tells
    <3>2. PICK u \in plan.units : t \in u.registered
      BY DEF Words
    <3>3. ToldOrCut(t, u.said, u.registered)
      BY <2>4, <3>1, <3>2 DEF TellInv, Tells
    <3>4. u.said \subseteq said /\ u.registered \subseteq Words(plan)
      BY <1>2, <2>4, <3>2 DEF Words
    <3> QED BY <3>3, <3>4 DEF ToldOrCut
  <2>5. ~missed' => AboutToTell(q)'
    <3>1. q.at = "write" /\ q.plan = plan /\ q.said = said
      BY <2>1
    <3>2. PICK words : words = Words(plan)
      OBVIOUS
    <3>3. Words(q.plan) = words /\ Words(q.plan)' = words
      BY <3>1, <3>2 DEF Words
    <3>4. ~missed /\ plan.level # 1 => Tells(said, words)'
      BY <1>3, <2>4, <3>2, TellsStays
    <3>5. ~missed /\ plan.level = 1 /\ words \subseteq Formed' => said = Bound(words)
      BY <1>3, <2>3, <3>2 DEF Formed
    <3>6. ~missed /\ plan.level # 1 => Tells(q.said, Words(q.plan))'
      BY <3>1, <3>3, <3>4 DEF Tells, ToldOrCut
    <3> QED BY <1>3, <3>1, <3>3, <3>5, <3>6 DEF AboutToTell
  <2> QED BY <1>3, <1>4, <2>2, <2>5, StepKeepsTelling
<1> QED BY <1>6, <1>7

\* The range holds as many turns as the plan covered: they are the same, and the words tell of them.
LEMMA WriteTells ==
    ASSUME CompactionAssumption, HistoryInv, TellInv, NEW r \in Replicas, Write(r)
    PROVE  TellInv'
<1>1. PICK plan : plan = pass[r].plan
  OBVIOUS
<1>2. PICK said : said = pass[r].said
  OBVIOUS
<1>3. PICK registered : registered = Within(Formed, plan)
  OBVIOUS
<1>4. PICK s : s = [level |-> plan.level, from |-> plan.from, to |-> plan.to, covered |-> plan.turns,
                    said |-> said, registered |-> registered]
  OBVIOUS
<1>5. /\ pass[r].at = "write" /\ turn' = turn /\ newest' = newest /\ missed' = missed
      /\ Cardinality(registered) = plan.turns
      /\ segments' = segments \cup {s} /\ pass' = [pass EXCEPT ![r] = Idle]
  BY <1>1, <1>2, <1>3, <1>4 DEF Write, Counted, Registered
<1>6. Planned(plan)
  BY <1>1, <1>5 DEF HistoryInv, PassesOK, Holding
<1>7. StandsStill /\ Idle.at # "write"
  BY <1>5 DEF StandsStill, Idle
<1>8. ASSUME ~missed PROVE Words(plan) = registered
  <2>1. registered \subseteq Words(plan) /\ plan.turns = Cardinality(Words(plan))
    BY <1>3, <1>6, <1>8 DEF Planned
  <2>2. IsFiniteSet(Words(plan))
    <3>1. Words(plan) \in SUBSET Turns
      BY <1>6 DEF Planned, UnitWithin, Words, Settled
    <3> QED BY <3>1, TurnsAreFinite
  <2> QED BY <1>5, <2>1, <2>2, FS_Subset
<1>9. s.level = plan.level /\ s.said = said /\ s.registered = registered
  BY <1>4
<1>10. ASSUME ~missed PROVE Tells(said, registered)'
  <2>1. /\ plan.level = 1 => said = Bound(registered)
        /\ plan.level # 1 => Tells(said, registered)
    <3>1. Words(plan) \subseteq Formed
      BY <1>3, <1>8, <1>10 DEF Within
    <3>2. AboutToTell(pass[r])
      BY <1>10 DEF TellInv
    <3> QED BY <1>1, <1>2, <1>5, <1>8, <1>10, <3>1, <3>2 DEF AboutToTell
  <2>2. CASE plan.level # 1
    BY <1>5, <2>1, <2>2, TellsStays
  <2>3. CASE plan.level = 1
    <3> SUFFICES ASSUME NEW t \in registered PROVE ToldOrCut(t, said, registered)'
      BY DEF Tells
    <3>1. t \in said \/ TooMuch(registered, t)
      BY <2>1, <2>3 DEF Bound
    <3> QED BY <1>5, <1>9, <2>3, <3>1 DEF ToldOrCut
  <2> QED BY <2>2, <2>3
<1>11. ~missed' => \A o \in segments' \ segments : Tells(o.said, o.registered)'
  <2>1. ~missed => Tells(s.said, s.registered)'
    BY <1>9, <1>10 DEF Tells, ToldOrCut
  <2>2. \A o \in segments' \ segments : o = s
    BY <1>5
  <2> QED BY <1>5, <2>1, <2>2 DEF Tells, ToldOrCut
<1>12. AboutToTell(Idle)'
  BY <1>7 DEF AboutToTell
<1> QED BY <1>5, <1>7, <1>11, <1>12, StepKeepsTelling

LEMMA NextTells ==
    CompactionAssumption /\ HistoryInv /\ HistoryInv' /\ TellInv /\ [CNext]_cvars => TellInv'
<1> SUFFICES ASSUME CompactionAssumption, HistoryInv, HistoryInv', TellInv, [CNext]_cvars PROVE TellInv'
  OBVIOUS
<1>0. \A s \in segments' : s.registered \subseteq Formed'
  BY DEF HistoryInv, SegmentsOK, SoundSegment, Within
<1>1. CASE UNCHANGED cvars
  <2>1. pass' = pass /\ segments' = segments /\ StandsStill
    BY <1>1 DEF cvars, StandsStill
  <2>2. Onward
    BY <2>1, StillIsOnward DEF HistoryInv
  <2> QED BY <1>0, <2>1, <2>2, MovesKeepTelling
<1>2. ASSUME NEW t \in Turns, Form(t) PROVE TellInv'
  <2>1. pass' = pass /\ segments' = segments
    BY <1>2 DEF Form
  <2> QED BY <1>0, <1>2, <2>1, FormIsOnward, MovesKeepTelling
<1>3. ASSUME NEW t \in Turns, Erase(t) PROVE TellInv'
  <2>1. pass' = pass /\ segments' = segments \ Reached(t)
    BY <1>3 DEF Erase
  <2>2. t \notin Formed'
    BY <1>3 DEF Erase, Formed, HistoryInv, TurnsOK
  <2>3. \A o \in segments : o.registered \subseteq Formed' => o \in segments'
    BY <2>1, <2>2 DEF Reached
  <2> QED BY <1>0, <1>3, <2>1, <2>3, EraseIsOnward, MovesKeepTelling
<1>4. ASSUME NEW r \in Replicas, Step(r) PROVE TellInv'
  <2>1. ASSUME Refuse(r) PROVE TellInv'
    <3>1. StandsStill /\ segments' = segments /\ pass' = [pass EXCEPT ![r] = Idle] /\ Idle.at # "write"
      BY <2>1 DEF Refuse, StandsStill, Idle
    <3> QED BY <3>1, QuietKeepsTelling
  <2>2. ASSUME ReadTurns(r) PROVE TellInv'
    <3>1. StandsStill /\ segments' = segments
      BY <2>2 DEF ReadTurns, StandsStill
    <3>2. PICK p : p = [at |-> "turns", turns |-> Formed, plan |-> pass[r].plan, said |-> pass[r].said]
      OBVIOUS
    <3>3. pass' = [pass EXCEPT ![r] = p]
      BY <2>2, <3>2, ReadTurnsMoves
    <3>4. p.at # "write"
      BY <3>2
    <3> QED BY <3>1, <3>3, <3>4, QuietKeepsTelling
  <2>3. ASSUME Plan(r) PROVE TellInv'
    <3>1. StandsStill /\ segments' = segments
      BY <2>3 DEF Plan, StandsStill
    <3>2. PICK p : pass' = [pass EXCEPT ![r] = p] /\ p.at # "write"
      BY <2>3, PlanMoves
    <3> QED BY <3>1, <3>2, QuietKeepsTelling
  <2> QED BY <1>4, <2>1, <2>2, <2>3, ReadMaterialTells, WriteTells DEF Step
<1>5. ASSUME NEW r \in Replicas, Fail(r) PROVE TellInv'
  <2>1. StandsStill /\ segments' = segments /\ pass' = [pass EXCEPT ![r] = Idle] /\ Idle.at # "write"
    BY <1>5 DEF Fail, StandsStill, Idle
  <2> QED BY <2>1, QuietKeepsTelling
<1> QED BY <1>1, <1>2, <1>3, <1>4, <1>5 DEF CNext

LEMMA SummariesTell == CSpec => []TellInv
<1>1. CInit => TellInv
  BY DEF CInit, TellInv, AboutToTell, Idle
<1>2. HistoryInv /\ HistoryInv' /\ TellInv /\ [CNext]_cvars => TellInv'
  BY CompactionAssumption, NextTells
<1> QED BY <1>1, <1>2, HistoryInvariant, PTL DEF CSpec

\* While no turn was missed every formed turn is in the context a reader is handed, said or in
\* the words of the segment that stands over it, or the first summary of it had no room for it.
THEOREM ContextsForgetNothing == CSpec => []NothingForgotten
<1>1. HistoryInv /\ TellInv => NothingForgotten
  <2> SUFFICES ASSUME HistoryInv, TellInv, ~missed, NEW t \in Formed
               PROVE  t \in InContext \/ CutFrom(t)
    BY DEF NothingForgotten
  <2>1. CASE t \notin Older
    BY <2>1 DEF InContext
  <2>2. CASE t \in Older /\ Over(t) = {}
    BY <2>2 DEF InContext, Loose
  <2>3. CASE t \in Older /\ Over(t) # {}
    <3>1. PICK c : c = Covering(t)
      OBVIOUS
    <3>2. c \in Over(t)
      BY <2>3, <3>1, CompactionAssumption, CoveringExists DEF HistoryInv
    <3>3. c \in segments /\ c.from <= t /\ t <= c.to
      BY <3>2 DEF Over
    <3>4. t \in c.registered
      BY <3>3 DEF HistoryInv, SegmentsOK, SoundSegment, Within
    <3>5. c \in Chosen
      BY <2>3, <3>1 DEF Chosen
    <3>6. ToldOrCut(t, c.said, c.registered)
      BY <3>3, <3>4 DEF TellInv, Tells
    <3> QED BY <3>5, <3>6 DEF ToldOrCut, CutFrom, InContext
  <2> QED BY <2>1, <2>2, <2>3
<1> QED BY <1>1, HistoryInvariant, SummariesTell, PTL

\* While no turn was missed, what the planner would plan behind the tail is refused
\* by nothing that Write checks.
THEOREM PlansAreKept == CSpec => []PlansCanBeWritten
<1>1. HistoryInv => PlansCanBeWritten
  <2> DEFINE plan == NextPlan(Formed, segments)
  <2> SUFFICES ASSUME HistoryInv, ~missed, plan # NoPlan, Within(Formed, plan) \subseteq Older
               PROVE  /\ Counted(plan) /\ ~Taken(plan)
                      /\ plan.level > 1 => plan.units \subseteq segments
    BY DEF PlansCanBeWritten
  <2>1. PICK p : p = plan
    OBVIOUS
  <2>2. Formed \in SUBSET Turns /\ Settled(Formed)
    BY DEF Formed, Settled, HistoryInv, TurnsOK
  <2>3. \A level \in 1 .. MaxLevel : InLog(Units(level, Formed, segments))
    BY <2>2, CompactionAssumption, UnitsAreSound DEF HistoryInv
  <2>4. PICK level \in 1 .. MaxLevel : Feasible(p, level, Formed, segments)
    BY <2>1, <2>2, <2>3, CompactionAssumption, PlanIsFeasible
  <2>5. /\ p.from \in Turns /\ p.to \in Turns /\ p.from <= p.to
        /\ \A u \in p.units : UnitWithin(u, p)
        /\ p.turns = Cardinality(Words(p))
        /\ PassedOver(p) = {} => Within(Formed, p) \subseteq Words(p)
    BY <2>2, <2>4, CompactionAssumption, FeasibleIsSound DEF HistoryInv
  <2>6. PassedOver(p) = {}
    BY <2>1, <2>4 DEF PassedOver, Feasible, Older, Within
  <2>7. p.level = level /\ p.units \subseteq Units(level, Formed, segments)
    BY <2>4 DEF Feasible
  <2>8. ASSUME NEW u \in p.units PROVE u.registered \subseteq Formed
    <3>1. CASE level = 1
      <4>1. PICK t \in Compactable(Formed) : u = [from |-> t, to |-> t, covered |-> 1,
                                              said |-> {t}, registered |-> {t}]
        BY <2>7, <3>1 DEF Units
      <4>2. u.registered = {t} /\ t \in Formed
        BY <4>1 DEF Compactable
      <4> QED BY <4>2
    <3>2. CASE level # 1
      <4>1. u \in segments
        BY <2>7, <3>2 DEF Units
      <4>2. u.registered \subseteq Within(Formed, u)
        BY <4>1 DEF HistoryInv, SegmentsOK, SoundSegment
      <4> QED BY <4>2 DEF Within
    <3> QED BY <3>1, <3>2
  <2>9. Within(Formed, p) = Words(p)
    BY <2>5, <2>6, <2>8 DEF UnitWithin, Words, Span, Within
  <2>10. Counted(p)
    BY <2>5, <2>9 DEF Counted
  <2>11. ~Taken(p)
    <3> SUFFICES ASSUME NEW s \in segments, s.level = p.level, s.from = p.from PROVE FALSE
      BY DEF Taken
    <3>1. s.from <= s.to /\ s.from \in Nat
      BY TurnsAreFinite, CompactionAssumption DEF HistoryInv, SegmentsOK, SoundSegment
    <3>2. CoveredAt(level, segments, p.from)
      BY <2>7, <3>1 DEF CoveredAt
    <3> QED BY <2>4, <3>2 DEF Feasible
  <2>12. p.level > 1 => p.units \subseteq segments
    BY <2>7 DEF Units
  <2> QED BY <2>1, <2>10, <2>11, <2>12
<1> QED BY <1>1, HistoryInvariant, PTL

=============================================================================
