-------------------------- MODULE MCProvisioning --------------------------
(* Two calls drawn from parameters that share a key, a name or an administrator. *)
EXTENDS Provisioning

P(key, name, admin, document) == [key |-> key, name |-> name, admin |-> admin, document |-> document]

MCParams ==
    {P("k1", "n1", "a1", TRUE), P("k1", "n2", "a2", TRUE), P("k2", "n1", "a2", FALSE),
     P("k2", "n2", "a1", TRUE)}
=============================================================================
