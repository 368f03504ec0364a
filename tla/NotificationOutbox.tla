------------------------- MODULE NotificationOutbox -------------------------
(***************************************************************************)
(* Telling a project's endpoints that its memory moved:                    *)
(* internal/infra/pg/notificationstore.go and                              *)
(* internal/formation/notifications.go, over the table of migration 0058.  *)
(*                                                                         *)
(* Each worker's pass reads the watermark, writes down what is owed, and   *)
(* then sends what is due.  A delivery is a row, one for each endpoint and *)
(* watermark.  Claiming one is a statement that commits before the request *)
(* is sent, so nothing is locked while the receiver thinks.                *)
(***************************************************************************)
EXTENDS Integers, Sequences, SequencesExt, FiniteSets

CONSTANTS Endpoints,    \* the URLs a project may register
          Workers,      \* formation workers, one per replica
          Budget,       \* Notifications.budget: tries before a delivery is parked
          PerPass,      \* Policy.NotificationsPerPass
          MaxOffset,    \* bound: the last offset the watermark may reach
          MaxAbandoned  \* bound: the attempts, of all deliveries, that are never recorded

ASSUME OutboxAssumption ==
    /\ Budget \in Nat \ {0}
    /\ PerPass \in Nat \ {0}
    /\ MaxOffset \in Nat
    /\ MaxAbandoned \in Nat
    /\ IsFiniteSet(Workers) /\ IsFiniteSet(Endpoints)

VARIABLES
    formed,      \* the project's formed watermark, NoOffset for NULL
    endpoint,    \* notification_endpoint: unregistered, live or disabled
    state,       \* state[d]: what the row of delivery d says
    attempts,    \* attempts[d]: notification_delivery.attempts
    queue,       \* the deliveries that are due, by next_attempt_at
    worker,      \* where each worker stands in its pass
    received,    \* history: the deliveries a receiver has accepted
    abandoned    \* history: how often an attempt of d ended with nothing recorded

vars == <<formed, endpoint, state, attempts, queue, worker, received, abandoned>>

Offsets == 0 .. MaxOffset
NoOffset == -1
Deliveries == Endpoints \X Offsets

\* A row is waiting for its next attempt, due, or settled; late answers can make it
\* delivered and parked at once.
States == {"none", "due", "waiting", "delivered", "parked", "both"}
Open == {"due", "waiting"}

Steps == {"projecting", "owing", "delivering", "sending", "accepted", "refused", "failed"}
OnDelivery == {"sending", "accepted", "refused", "failed"}
None == CHOOSE d \in Deliveries : TRUE
At(step) == [at |-> step, news |-> NoOffset, on |-> None, try |-> 0, left |-> PerPass]

TypeOK ==
    /\ formed \in Offsets \cup {NoOffset}
    /\ endpoint \in [Endpoints -> {"none", "live", "disabled"}]
    /\ state \in [Deliveries -> States]
    /\ attempts \in [Deliveries -> Nat]
    /\ queue \in Seq(Deliveries) /\ IsInjective(queue)
    /\ ToSet(queue) = {d \in Deliveries : state[d] = "due"}
    /\ worker \in [Workers -> [at : Steps, news : Offsets \cup {NoOffset},
                               on : Deliveries \cup {None}, try : Nat, left : 0 .. PerPass]]
    /\ received \in SUBSET Deliveries
    /\ abandoned \in [Deliveries -> Nat]

Init ==
    /\ formed = NoOffset
    /\ endpoint = [e \in Endpoints |-> "none"]
    /\ state = [d \in Deliveries |-> "none"]
    /\ attempts = [d \in Deliveries |-> 0]
    /\ queue = <<>>
    /\ worker = [w \in Workers |-> At("projecting")]
    /\ received = {}
    /\ abandoned = [d \in Deliveries |-> 0]

-----------------------------------------------------------------------------
(* What is not the workers' to decide *)

\* Turns form, or a parked turn is reopened (FormedWatermark).
WatermarkMoves ==
    /\ \E f \in Offsets \cup {NoOffset} : f # formed /\ formed' = f
    /\ UNCHANGED <<endpoint, state, attempts, queue, worker, received, abandoned>>

\* One endpoint per URL: a disabled one is not registered again.
Register(e) ==
    /\ endpoint[e] = "none"
    /\ endpoint' = [endpoint EXCEPT ![e] = "live"]
    /\ UNCHANGED <<formed, state, attempts, queue, worker, received, abandoned>>

Disable(e) ==
    /\ endpoint[e] = "live"
    /\ endpoint' = [endpoint EXCEPT ![e] = "disabled"]
    /\ UNCHANGED <<formed, state, attempts, queue, worker, received, abandoned>>

\* next_attempt_at passes.
BackoffElapses(d) ==
    /\ state[d] = "waiting"
    /\ state' = [state EXCEPT ![d] = "due"]
    /\ queue' = Append(queue, d)
    /\ UNCHANGED <<formed, endpoint, attempts, worker, received, abandoned>>

-----------------------------------------------------------------------------
(* A pass: read the watermark, write down what is owed *)

\* Nothing was drained, or nothing has formed yet.
NoNews(w) ==
    /\ worker[w].at = "projecting"
    /\ worker' = [worker EXCEPT ![w] = At("delivering")]
    /\ UNCHANGED <<formed, endpoint, state, attempts, queue, received, abandoned>>

ReadFreshness(w) ==
    /\ worker[w].at = "projecting"
    /\ formed # NoOffset
    /\ worker' = [worker EXCEPT ![w] = [At("owing") EXCEPT !.news = formed]]
    /\ UNCHANGED <<formed, endpoint, state, attempts, queue, received, abandoned>>

\* One row for each live endpoint, unless (endpoint, formed_through) is there already.
Owe(w) ==
    LET new == {<<e, worker[w].news>> : e \in {x \in Endpoints : endpoint[x] = "live"}}
               \cap {d \in Deliveries : state[d] = "none"}
    IN  /\ worker[w].at = "owing"
        /\ \E order \in SetToSeqs(new) : queue' = queue \o order
        /\ state' = [d \in Deliveries |-> IF d \in new THEN "due" ELSE state[d]]
        /\ worker' = [worker EXCEPT ![w] = At("delivering")]
        /\ UNCHANGED <<formed, endpoint, attempts, received, abandoned>>

-----------------------------------------------------------------------------
(* Deliver *)

\* Mutant: a delivery is offered again once it has been parked.
ClaimParked(w) ==
    \E d \in Deliveries :
        /\ worker[w].at = "delivering" /\ worker[w].left > 0
        /\ state[d] \in {"due", "parked"}
        /\ attempts' = [attempts EXCEPT ![d] = @ + 1]
        /\ worker' = [worker EXCEPT ![w] =
               [worker[w] EXCEPT !.at = "sending", !.on = d,
                                 !.try = attempts[d] + 1, !.left = worker[w].left - 1]]
        /\ UNCHANGED <<formed, endpoint, state, queue, received, abandoned>>

\* The rows another worker may be writing just now, which SKIP LOCKED passes over.  The
\* lock lasts one statement, Claim's or a settlement's; here it may be met at any time
\* between them, and need not be.
Held(w) == {worker[v].on : v \in {v \in Workers \ {w} : worker[v].at \in OnDelivery}}

\* Mutant: the join asks for an endpoint that is live.
ClaimLive(w) ==
    \E i \in DOMAIN queue :
        /\ worker[w].at = "delivering" /\ worker[w].left > 0
        /\ endpoint[queue[i][1]] = "live"
        /\ \A j \in 1 .. i - 1 : queue[j] \in Held(w) \/ endpoint[queue[j][1]] # "live"
        /\ attempts' = [attempts EXCEPT ![queue[i]] = @ + 1]
        /\ worker' = [worker EXCEPT ![w] =
               [worker[w] EXCEPT !.at = "sending", !.on = queue[i],
                                 !.try = attempts[queue[i]] + 1, !.left = worker[w].left - 1]]
        /\ UNCHANGED <<formed, endpoint, state, queue, received, abandoned>>

\* Claim: the oldest due delivery, whether or not its endpoint has been disabled since.
\* The attempt is counted, and nothing else of the row changes: it is still due.
Claim(w) ==
    \E i \in DOMAIN queue :
        /\ worker[w].at = "delivering" /\ worker[w].left > 0
        /\ \A j \in 1 .. i - 1 : queue[j] \in Held(w)
        /\ attempts' = [attempts EXCEPT ![queue[i]] = @ + 1]
        /\ worker' = [worker EXCEPT ![w] =
               [worker[w] EXCEPT !.at = "sending", !.on = queue[i],
                                 !.try = attempts[queue[i]] + 1, !.left = worker[w].left - 1]]
        /\ UNCHANGED <<formed, endpoint, state, queue, received, abandoned>>

\* Nothing is due, or the pass has made its attempts.
EndPass(w) ==
    /\ worker[w].at = "delivering"
    /\ worker[w].left = 0 \/ ToSet(queue) \subseteq Held(w)
    /\ worker' = [worker EXCEPT ![w] = At("projecting")]
    /\ UNCHANGED <<formed, endpoint, state, attempts, queue, received, abandoned>>

\* Send: accepted, refused for good, or failed; a request that timed out may have been
\* accepted all the same.
Send(w) ==
    /\ worker[w].at = "sending"
    /\ \E result \in {"accepted", "refused", "failed"} :
          /\ worker' = [worker EXCEPT ![w].at = result]
          /\ \/ result # "refused" /\ received' = received \cup {worker[w].on}
             \/ result # "accepted" /\ UNCHANGED received
    /\ UNCHANGED <<formed, endpoint, state, attempts, queue, abandoned>>

BackToClaim(w) ==
    worker' = [worker EXCEPT ![w] = [At("delivering") EXCEPT !.left = worker[w].left]]
Dequeue(d) == queue' = RemoveFirst(queue, d)

\* A row settles without regard to what another answer has made of it.
Settle(d, how) == /\ state' = [state EXCEPT ![d] = IF @ \in Open \cup {how} THEN how ELSE "both"]
                  /\ Dequeue(d)

Delivered(w) ==
    /\ worker[w].at = "accepted"
    /\ Settle(worker[w].on, "delivered")
    /\ BackToClaim(w)
    /\ UNCHANGED <<formed, endpoint, attempts, received, abandoned>>

\* Mutant: a request that was not refused is closed as delivered.
FailedIsDelivered(w) ==
    LET d == worker[w].on
    IN  /\ worker[w].at \in {"refused", "failed"}
        /\ Settle(d, IF worker[w].at = "refused" THEN "parked" ELSE "delivered")
        /\ BackToClaim(w)
        /\ UNCHANGED <<formed, endpoint, attempts, received, abandoned>>

\* Failed: parked for good after a refusal or the last try of the claim it answers,
\* else due again after a wait.
Failed(w) ==
    LET d == worker[w].on
    IN  /\ worker[w].at \in {"refused", "failed"}
        /\ IF worker[w].at = "refused" \/ worker[w].try >= Budget
              THEN Settle(d, "parked")
              ELSE /\ state' = [state EXCEPT ![d] = IF @ \in Open THEN "waiting" ELSE @]
                   /\ Dequeue(d)
        /\ BackToClaim(w)
        /\ UNCHANGED <<formed, endpoint, attempts, received, abandoned>>

\* The worker is shut down or dies, or its statement fails: the answer is not recorded.
Abandon(w) ==
    /\ worker[w].at # "projecting"
    /\ worker[w].at \in OnDelivery =>
           MapThenSumSet(LAMBDA d : abandoned[d], Deliveries) < MaxAbandoned
    /\ abandoned' = IF worker[w].at \in OnDelivery
                    THEN [abandoned EXCEPT ![worker[w].on] = @ + 1] ELSE abandoned
    /\ worker' = [worker EXCEPT ![w] = At("projecting")]
    /\ UNCHANGED <<formed, endpoint, state, attempts, queue, received>>

-----------------------------------------------------------------------------
WorkerStep(w) == \/ NoNews(w) \/ ReadFreshness(w) \/ Owe(w)
                 \/ Claim(w) \/ EndPass(w) \/ Send(w) \/ Delivered(w) \/ Failed(w)

Next == \/ WatermarkMoves
        \/ \E e \in Endpoints : Register(e) \/ Disable(e)
        \/ \E d \in Deliveries : BackoffElapses(d)
        \/ \E w \in Workers : WorkerStep(w) \/ Abandon(w)

\* The driver makes pass after pass, and the clock passes every backoff.
Fairness == /\ \A w \in Workers : WF_vars(WorkerStep(w))
            /\ \A d \in Deliveries : WF_vars(BackoffElapses(d))

Spec == Init /\ [][Next]_vars /\ Fairness

-----------------------------------------------------------------------------
(* Properties *)

\* What an operator reads as delivered was accepted by its receiver, whatever other
\* worker was sending the same delivery and whatever its answer was.
DeliveredWasAccepted ==
    \A d \in Deliveries : state[d] \in {"delivered", "both"} => d \in received

\* A destination is sent one piece of news at most Budget times, and once more for each
\* further worker that claimed it before the last answer was recorded and for each answer
\* that never was (notificationstore.go, Failed: a delivery is parked rather than retried
\* forever).
RequestsAreBounded ==
    \A d \in Deliveries : attempts[d] <= Budget + (Cardinality(Workers) - 1) + abandoned[d]

Calm == <>[][~\E w \in Workers : Abandon(w)]_vars

\* Once workers stop dying, every delivery that is owed is delivered or parked, however
\* its receiver answers and however often (migration 0058: "Abandoned after the attempt
\* budget").
EveryDeliverySettles ==
    Calm => \A d \in Deliveries : state[d] \in Open ~> state[d] \notin Open

\* What notificationstore.go says of a claim: it is made "so that two workers cannot
\* take the same one".
OneWorkerPerDelivery ==
    \A v, w \in Workers :
        (v # w /\ worker[v].at = "sending" /\ worker[w].at = "sending")
            => worker[v].on # worker[w].on
=============================================================================
