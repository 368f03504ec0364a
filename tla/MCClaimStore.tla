----------------------------- MODULE MCClaimStore -----------------------------
(* Two turns that say different things of one person, and one edit.        *)
EXTENDS ClaimStore, TLC
CONSTANTS t1, t2, e1, lives, a, b, c, w1, w2

Said ==
    {[src |-> t1, slot |-> lives, val |-> a, at |-> 1],
     [src |-> t1, slot |-> lives, val |-> b, at |-> 1],
     [src |-> t2, slot |-> lives, val |-> b, at |-> 2],
     [src |-> e1, slot |-> lives, val |-> c, at |-> 2]}

Alike == Permutations({w1, w2})
=============================================================================
