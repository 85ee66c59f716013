--------------------------- MODULE MCAuditTamper ---------------------------
(* One customer besides headquarters, with one signed and one unsigned legacy row, *)
(* and two concurrent requests.                                                    *)
EXTENDS AuditTamper, TLC

CONSTANTS Old, Forged

\* Contents whose columns are cut elsewhere: they read as the line <<kind, content>>.
Moved == {<<"marker", System>>} \union ({"tenant"} \X Request)

MCForeign == {Forged} \union Moved

MCText(org, kind, content) ==
    IF content \in Moved /\ (kind = "marker" => content[1] = "marker")
    THEN <<org, content[1], content[2]>>
    ELSE <<org, kind, content>>

Writers == Permutations(Request)

MCLegacy ==
    {[id |-> 1, org |-> Customer, kind |-> "tenant", content |-> Old, prev |-> NoHash,
      hash |-> HMAC(Customer, "tenant", Old, NoHash)],
     [id |-> 2, org |-> Customer, kind |-> "tenant", content |-> Old, prev |-> NoHash,
      hash |-> NoHash]}
=============================================================================
