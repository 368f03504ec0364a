-------------------------- MODULE FormedWatermark --------------------------
(***************************************************************************)
(* What GET /v1/freshness promises about a project's log, and nothing of   *)
(* how the promise is kept.                                                *)
(*                                                                         *)
(* A project's turns occupy the offsets 0, 1, 2, ...  A turn waits in the  *)
(* backlog until it is formed or parked; a parked turn can be reopened;    *)
(* any turn can be forgotten by an erasure or a retention sweep.  Two      *)
(* numbers are reported: `stored`, the highest offset ever accepted, and   *)
(* `formed`, which may stand at an offset only when nothing at or below it *)
(* is still waiting.  ObservationLog (one atomic action per transaction)   *)
(* and WatermarkTx (one action per SQL statement) both implement this      *)
(* module.                                                                 *)
(***************************************************************************)
EXTENDS Integers

CONSTANTS Scopes,     \* projects
          MaxOffset   \* bound: the last offset a project's log may reach

VARIABLES phase,      \* phase[s][o]: what has become of offset o of project s
          stored,     \* stored[s]: the highest offset accepted, NoOffset before
          formed      \* formed[s]: the formed watermark, NoOffset for NULL

vars == <<phase, stored, formed>>

Offsets == 0 .. MaxOffset
NoOffset == -1
Phases == {"none", "backlog", "parked", "formed", "erased"}

\* A number a caller may be shown: nothing at or below it is waiting.
Honest(ph, f) == \A o \in Offsets : o <= f => ph[o] # "backlog"

\* Every offset above f has been forgotten or was never used.
NothingAbove(ph, f) == \A o \in Offsets : o > f => ph[o] \in {"none", "erased"}

TypeOK == /\ phase \in [Scopes -> [Offsets -> Phases]]
          /\ stored \in [Scopes -> Offsets \cup {NoOffset}]
          /\ formed \in [Scopes -> Offsets \cup {NoOffset}]

Init == /\ phase = [s \in Scopes |-> [o \in Offsets |-> "none"]]
        /\ stored = [s \in Scopes |-> NoOffset]
        /\ formed = [s \in Scopes |-> NoOffset]

\* The watermark moves to another honest number.
Restate(s) ==
    \E f \in NoOffset .. stored'[s] :
        /\ Honest(phase'[s], f)
        /\ formed' = [formed EXCEPT ![s] = f]

\* It moves forward, unless the turns it had passed are gone.
Advance(s) ==
    /\ Restate(s)
    /\ formed'[s] >= formed[s] \/ NothingAbove(phase'[s], formed'[s])

\* A turn takes the next offset, waiting or (an authored record) formed at birth.
Accept(s) ==
    /\ stored[s] < MaxOffset
    /\ stored' = [stored EXCEPT ![s] = @ + 1]
    /\ \E p \in {"backlog", "formed"} :
          phase' = [phase EXCEPT ![s][stored[s] + 1] = p]
    /\ Advance(s)

\* A waiting or parked turn is formed, or a waiting one is parked.
Settle(s, o) ==
    /\ \E p \in {"parked", "formed"} :
          /\ phase[s][o] = "backlog" \/ (phase[s][o] = "parked" /\ p = "formed")
          /\ phase' = [phase EXCEPT ![s][o] = p]
    /\ UNCHANGED stored
    /\ Advance(s)

\* A parked turn waits again: the one way the watermark gives up turns it still holds.
Reopen(s, o) ==
    /\ phase[s][o] = "parked"
    /\ phase' = [phase EXCEPT ![s][o] = "backlog"]
    /\ UNCHANGED stored
    /\ Restate(s)

\* Some turns are forgotten.
Forget(s) ==
    /\ \E gone \in SUBSET Offsets :
          /\ \A o \in gone : phase[s][o] \in {"backlog", "parked", "formed"}
          /\ phase' = [phase EXCEPT ![s] =
                [o \in Offsets |-> IF o \in gone THEN "erased" ELSE phase[s][o]]]
    /\ UNCHANGED <<stored, formed>>

\* The number is recomputed with no turn changing.
Recompute(s) == UNCHANGED <<phase, stored>> /\ Advance(s)

Next == \E s \in Scopes :
            \/ Accept(s)
            \/ \E o \in Offsets : Settle(s, o) \/ Reopen(s, o)
            \/ Forget(s)
            \/ Recompute(s)

Spec == Init /\ [][Next]_vars
=============================================================================
