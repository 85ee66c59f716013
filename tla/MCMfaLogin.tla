---------------------------- MODULE MCMfaLogin ----------------------------
(* Two instances in one run.  Either requests come one at a time and the clock and the *)
(* number of secrets reach their bounds, or two requests overlap within smaller ones.  *)
EXTENDS MfaLogin, TLC

CONSTANTS OverlapClock, OverlapIssued

VARIABLE alone  \* does this behaviour keep its requests apart?

MCInit == Init /\ alone \in BOOLEAN

Within ==
    IF alone
    THEN Cardinality(InFlight') <= 1
    ELSE clock' <= OverlapClock /\ issued' <= OverlapIssued

MCNext == Next /\ Within /\ UNCHANGED alone

MCSpec == MCInit /\ [][MCNext]_<<vars, alone>>

Slots == Permutations(Request)
=============================================================================
