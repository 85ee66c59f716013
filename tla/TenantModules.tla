---------------------------- MODULE TenantModules ----------------------------
(***************************************************************************)
(* The modules of one tenant and the rules of its tier: headquarters       *)
(* replaces the set, the deploy script seeds a tenant that has no tier     *)
(* (app/services/tenant_modules.py, services/module_access.py, api/ops.py, *)
(* scripts/seed_modules.py).                                               *)
(*                                                                         *)
(* A PUT loads the tenant, then its rows, and writes at its commit what    *)
(* differs from both; nothing is locked.                                   *)
(***************************************************************************)
EXTENDS Naturals, Sequences, FiniteSets

CONSTANTS
    CatalogKey,      \* the modules that can be bought
    CoreKey, ComplianceKey,
    Tier,
    MinWorkflows,    \* of a tier
    NeedsCompliance, \* the tiers that require it
    SeedKeys,        \* what the script seeds, in its order
    Updater          \* PUT requests in flight

ASSUME CatalogAssumption ==
    /\ IsFiniteSet(CatalogKey)
    /\ {CoreKey, ComplianceKey} \subseteq CatalogKey /\ CoreKey # ComplianceKey
    /\ NeedsCompliance \subseteq Tier /\ MinWorkflows \in [Tier -> Nat]
    /\ SeedKeys \in Seq(CatalogKey)

VARIABLES
    tier,            \* of the tenant; none until it is given one
    module,          \* tenant_modules: "none", "on" or "off" for each key
    updating,        \* [at, tier, wanted, set, newTier]
    seeding,         \* [at, next, missing]
    putsOverlapped   \* has a PUT committed while another was under way?

modulesVars == <<tier, module, updating, seeding, putsOverlapped>>

NotUpdating == [at |-> "idle", tier |-> {}, wanted |-> {}, set |-> <<>>, newTier |-> FALSE]
NotSeeding == [at |-> "idle", next |-> 1, missing |-> {}]

\* Tenants from before the tiers may have any set.
ModulesInit ==
    /\ tier = {} /\ module \in [CatalogKey -> {"none", "on", "off"}]
    /\ updating = [u \in Updater |-> NotUpdating] /\ seeding = NotSeeding
    /\ putsOverlapped = FALSE

ActiveKeys == {k \in CatalogKey : module[k] = "on"}

\* validate_tier_modules; keys outside the catalog and repeated ones are refused, too.
ValidTierModules(t, keys) ==
    /\ CoreKey \in keys
    /\ Cardinality(keys \ {CoreKey}) >= MinWorkflows[t]
    /\ t \in NeedsCompliance => ComplianceKey \in keys

-----------------------------------------------------------------------------
(* PUT /ops/tenants/{id}/modules *)

PutModules(u) ==
    /\ updating[u] = NotUpdating
    /\ \E given \in {{}} \union {{t} : t \in Tier}, wanted \in SUBSET CatalogKey :
          LET chosen == IF given # {} THEN given ELSE tier IN
          /\ chosen # {} /\ \A t \in chosen : ValidTierModules(t, wanted)
          /\ updating' = [updating EXCEPT ![u] =
                             [at |-> "rows", tier |-> chosen, wanted |-> wanted, set |-> <<>>, newTier |-> chosen # tier]]
    /\ UNCHANGED <<tier, module, seeding, putsOverlapped>>

\* Variant: rows that return stay switched off.
ReplacedWithoutReturn(wanted) ==
    [k \in {k \in CatalogKey : IF k \in wanted THEN module[k] = "none" ELSE module[k] = "on"} |->
        IF k \in wanted THEN "on" ELSE "off"]

\* replace_modules: what it will insert or change.
Replaced(wanted) ==
    [k \in {k \in CatalogKey : IF k \in wanted THEN module[k] # "on" ELSE module[k] = "on"} |->
        IF k \in wanted THEN "on" ELSE "off"]

\* The rows that are missing now will be inserted.
ReadRows(u) ==
    /\ updating[u].at = "rows"
    /\ LET inserts == {k \in updating[u].wanted : module[k] = "none"} IN
       updating' = [updating EXCEPT ![u] = [at |-> "commit", tier |-> updating[u].tier, wanted |-> inserts,
                                            set |-> Replaced(updating[u].wanted), newTier |-> updating[u].newTier]]
    /\ UNCHANGED <<tier, module, seeding, putsOverlapped>>

\* A tenant has a key once: what another transaction has inserted meanwhile is an error.
Inserted(keys) == \A k \in keys : module[k] = "none"

CommitPut(u) ==
    /\ updating[u].at = "commit"
    /\ IF Inserted(updating[u].wanted)
       THEN /\ module' = [k \in CatalogKey |->
                             IF k \in DOMAIN updating[u].set THEN updating[u].set[k] ELSE module[k]]
            /\ tier' = IF updating[u].newTier THEN updating[u].tier ELSE tier
       ELSE UNCHANGED <<tier, module>>
    /\ updating' = [updating EXCEPT ![u] = NotUpdating]
    /\ putsOverlapped' = (putsOverlapped \/ \E v \in Updater \ {u} : updating[v] # NotUpdating)
    /\ UNCHANGED seeding

PutFails(u) ==
    /\ updating[u] # NotUpdating
    /\ updating' = [updating EXCEPT ![u] = NotUpdating]
    /\ UNCHANGED <<tier, module, seeding, putsOverlapped>>

-----------------------------------------------------------------------------
(* scripts/seed_modules.py, at every deploy *)

Seed ==
    /\ seeding.at = "idle" /\ tier = {}
    /\ seeding' = [seeding EXCEPT !.at = "look"]
    /\ UNCHANGED <<tier, module, updating, putsOverlapped>>

\* ensure_modules: one SELECT for each key.
LookForKey ==
    /\ seeding.at = "look"
    /\ IF seeding.next > Len(SeedKeys)
       THEN seeding' = [seeding EXCEPT !.at = "commit"]
       ELSE LET k == SeedKeys[seeding.next] IN
            seeding' = [seeding EXCEPT !.next = @ + 1, !.missing = @ \union {x \in {k} : module[x] = "none"}]
    /\ UNCHANGED <<tier, module, updating, putsOverlapped>>

CommitSeed ==
    /\ seeding.at = "commit"
    /\ module' = IF Inserted(seeding.missing)
                 THEN [k \in CatalogKey |-> IF k \in seeding.missing THEN "on" ELSE module[k]]
                 ELSE module
    /\ seeding' = NotSeeding
    /\ UNCHANGED <<tier, updating, putsOverlapped>>

ModulesNext ==
    \/ Seed \/ LookForKey \/ CommitSeed
    \/ \E u \in Updater : PutModules(u) \/ ReadRows(u) \/ CommitPut(u) \/ PutFails(u)

ModulesSpec == ModulesInit /\ [][ModulesNext]_modulesVars

-----------------------------------------------------------------------------
\* A tenant with a tier has core, and has what its tier requires unless two PUTs overlapped;
\* a deploy that seeds while the tier is given takes nothing away (put_tenant_modules,
\* replace_modules, ensure_modules).
TierRulesHold ==
    \A t \in tier :
        /\ CoreKey \in ActiveKeys
        /\ ~putsOverlapped => ValidTierModules(t, ActiveKeys)
=============================================================================
