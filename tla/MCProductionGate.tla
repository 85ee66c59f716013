------------------------- MODULE MCProductionGate -------------------------
(* Two instances in one run.  Either one request at a time passes the gates while *)
(* risks, actions, approvals and the configuration change under it, or two        *)
(* requests overlap on a system without risks, under one configuration, and no   *)
(* request is turned away at the door.                                            *)
EXTENDS ProductionGate, FiniteSets, TLC

VARIABLE alone  \* does this behaviour keep its requests apart?

MCInit ==
    /\ Init
    /\ alone \in BOOLEAN
    /\ alone \/ org.maxReviewAge = 0

AtTheDoor(r) ==
    job'[r].kind \in {"deploy", "promote"} => Admitted(job'[r], job'[r].copy)

Within ==
    IF alone
    THEN Cardinality(Running') <= 1
    ELSE /\ \A k \in Risk : risk'[k] = NoRisk
         /\ Len(approvals') <= 1 /\ org' = org
         /\ \A r \in Request : AtTheDoor(r)

\* No review is dated ahead, and what hangs on an archived system stays as it is.
Sensible ==
    /\ system'.reviewed <= today'
    /\ system.deleted => UNCHANGED <<risk, closed, approvals, today>>

MCNext == Next /\ Within /\ Sensible /\ UNCHANGED alone

MCSpec == MCInit /\ [][MCNext]_<<vars, alone>>

Slots == Permutations(Request)
=============================================================================
