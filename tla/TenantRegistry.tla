-------------------------- MODULE TenantRegistry --------------------------
(***************************************************************************)
(* What provisioning promises, without transactions or files: tenants      *)
(* appear one at a time, each whole and for good, and no two of them share *)
(* an idempotency key, an administrator or an organization id.             *)
(***************************************************************************)
CONSTANTS
    Params,     \* what can be asked: [key, name, admin, document]
    Part        \* what a tenant consists of

VARIABLE tenants    \* a set of [org, params, parts]

\* The demo document is only there if asked for.
Whole(p) == IF p.document THEN Part ELSE Part \ {"document"}

Init == tenants = {}

Apart(s, t) == s.org # t.org /\ s.params.key # t.params.key /\ s.params.admin # t.params.admin

Provision(p) ==
    \E t \in tenants' \ tenants :
        /\ t.params = p
        /\ t.parts = Whole(p)
        /\ \A s \in tenants : Apart(s, t)
        /\ tenants' = tenants \union {t}

Next == \E p \in Params : Provision(p)

Spec == Init /\ [][Next]_tenants
=============================================================================
