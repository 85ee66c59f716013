--------------------------- MODULE MCAuditChain ---------------------------
(* Headquarters and one customer, two concurrent requests; the customer has *)
(* a signed and an unsigned legacy row.                                       *)
EXTENDS AuditChain

CONSTANTS Cust, Old

MCText(org, kind, content) == <<org, kind, content>>

MCLegacy ==
    {[id |-> 1, org |-> Cust, kind |-> "tenant", content |-> Old, prev |-> NoHash,
      hash |-> HMAC(Cust, "tenant", Old, NoHash)],
     [id |-> 2, org |-> Cust, kind |-> "tenant", content |-> Old, prev |-> NoHash,
      hash |-> NoHash]}
=============================================================================
