-------------------------- MODULE GovernanceRecords --------------------------
(***************************************************************************)
(* The records of the governance register: risks, incidents, corrective    *)
(* actions, evidence and policies, who may see and change them, and the    *)
(* two scores that are computed from them (app/api/governance.py,          *)
(* api/dependencies.py).                                                   *)
(*                                                                         *)
(* A handler looks a record up within the tenant of its user, decides, and *)
(* writes at its commit what differs from what it loaded; creating a       *)
(* record loads nothing that can change, so it is one step.  The audit     *)
(* line is committed after the record, to the chain of the record's own    *)
(* tenant, and a handler may fail between the two.  What happens to the    *)
(* systems the records hang on is ProductionGate; here it is external.     *)
(***************************************************************************)
EXTENDS Integers, FiniteSets

CONSTANTS
    Company,       \* tenants
    Member,        \* users
    SuperMember,   \* those with super-admin powers
    Home,          \* the tenant of a user
    AISystem,
    OwnerOf,       \* the tenant of a system
    Risk, Incident, Action, Evidence,
    Handler        \* requests in flight

ASSUME RecordsAssumption ==
    /\ SuperMember \subseteq Member /\ Home \in [Member -> Company]
    /\ OwnerOf \in [AISystem -> Company]

VARIABLES
    stage,         \* the stage of a system: "development", "restricted" or "archived", which is deleted
    risk,          \* [system, level, aged, deleted]; no system before it is created
    incident,      \* [system, status]
    action,        \* [risk, incident, status]: links of at most one of each kind
    evidence,      \* [system, risk]
    handling,      \* what a request will do: [by, what, on, set]
    owed,          \* the audit line a request has still to write for what it has committed: [org, by]
    line,          \* the audit line of the last step, none if there is none
    together       \* risks written while another request was about to write them, too

recordsVars == <<stage, risk, incident, action, evidence, handling, owed, line, together>>

Records == <<risk, incident, action, evidence>>

NotHandling == [by |-> {}, what |-> "nothing", on |-> {}, set |-> <<>>]

NoRecord == [system |-> {}, level |-> "low", aged |-> FALSE, deleted |-> FALSE]

RecordsInit ==
    /\ stage = [s \in AISystem |-> "development"]
    /\ risk = [k \in Risk |-> NoRecord]
    /\ incident = [n \in Incident |-> [system |-> {}, status |-> "open"]]
    /\ action = [c \in Action |-> [risk |-> {}, incident |-> {}, status |-> "open"]]
    /\ evidence = [v \in Evidence |-> [system |-> {}, risk |-> {}]]
    /\ handling = [h \in Handler |-> NotHandling]
    /\ owed = [h \in Handler |-> {}] /\ line = {} /\ together = {}

Deleted(s) == stage[s] = "archived"

\* The tenant of a record that hangs on a system.
Tenants(systems) == {OwnerOf[s] : s \in systems}

-----------------------------------------------------------------------------
(* What the lookups of a tenant's user find (dependencies.py). *)

OwnSystem(o, s) == OwnerOf[s] = o /\ ~Deleted(s)
OwnRisk(o, k) == Tenants(risk[k].system) = {o} /\ ~risk[k].deleted
OwnIncident(o, n) == Tenants(incident[n].system) = {o}

OwnAction(o, c) ==
    \/ \E k \in action[c].risk : OwnRisk(o, k)
    \/ \E n \in action[c].incident : OwnIncident(o, n)

OwnEvidence(o, v) ==
    \/ \E s \in evidence[v].system : OwnSystem(o, s)
    \/ \E k \in evidence[v].risk : OwnRisk(o, k)

(* The tenant an audit line goes to; the links it is derived from never change. *)

\* corrective_action_organization_id: of the risk, else of the incident.
ActionsTenant(c) ==
    IF action[c].risk # {}
    THEN UNION {Tenants(risk[k].system) : k \in action[c].risk}
    ELSE UNION {Tenants(incident[n].system) : n \in action[c].incident}

\* evidence_organization_id: of the system, else of the risk.
EvidencesTenant(v) ==
    IF evidence[v].system # {}
    THEN Tenants(evidence[v].system)
    ELSE UNION {Tenants(risk[k].system) : k \in evidence[v].risk}

-----------------------------------------------------------------------------
(* The commit of a record, and that of its audit line. *)

Idle(h) == handling[h] = NotHandling /\ owed[h] = {}

\* The record is committed, its line is not yet.
Owes(h, tenants, m) ==
    /\ owed' = [owed EXCEPT ![h] = {[org |-> o, by |-> m] : o \in tenants}]
    /\ line' = {}

WritesLine(h) ==
    /\ owed[h] # {}
    /\ line' = owed[h] /\ owed' = [owed EXCEPT ![h] = {}]
    /\ UNCHANGED <<stage, Records, handling, together>>

\* Before the commit, between the two, or because the answer of either was lost.
Fails(h) ==
    /\ ~Idle(h)
    /\ handling' = [handling EXCEPT ![h] = NotHandling] /\ owed' = [owed EXCEPT ![h] = {}]
    /\ line' = {}
    /\ UNCHANGED <<stage, Records, together>>

-----------------------------------------------------------------------------
(* Records are created. *)

Creates(h, m, tenants) == Idle(h) /\ Owes(h, tenants, m) /\ UNCHANGED <<stage, handling, together>>

CreateRisk(h, m, k, s) ==
    /\ risk[k].system = {} /\ OwnSystem(Home[m], s)
    /\ \E level \in {"low", "medium", "high"} : risk' = [risk EXCEPT ![k].system = {s}, ![k].level = level]
    /\ Creates(h, m, Tenants({s}))
    /\ UNCHANGED <<incident, action, evidence>>

CreateIncident(h, m, n, s) ==
    /\ incident[n].system = {} /\ OwnSystem(Home[m], s)
    /\ incident' = [incident EXCEPT ![n].system = {s}]
    /\ Creates(h, m, Tenants({s}))
    /\ UNCHANGED <<risk, action, evidence>>

\* Variant: the incident is only looked up if there is no risk.
LinksFirst(o, risks, incidents) ==
    /\ \A k \in risks : OwnRisk(o, k)
    /\ risks = {} => \A n \in incidents : OwnIncident(o, n)

\* Each of the two links is looked up, if it is given.
Links(o, risks, incidents) ==
    /\ \A k \in risks : OwnRisk(o, k)
    /\ \A n \in incidents : OwnIncident(o, n)

AtMostOne(S) == {{}} \union {{x} : x \in S}

CreateAction(h, m, c) ==
    /\ action[c].risk \union action[c].incident = {}
    /\ \E risks \in AtMostOne(Risk), incidents \in AtMostOne(Incident) :
          /\ risks # {} \/ incidents # {}
          /\ Links(Home[m], risks, incidents)
          /\ action' = [action EXCEPT ![c].risk = risks, ![c].incident = incidents]
    /\ UNCHANGED <<risk, incident, evidence>>
    /\ Creates(h, m, ActionsTenant(c)')

CreateEvidence(h, m, v) ==
    /\ evidence[v].system \union evidence[v].risk = {}
    /\ \E systems \in AtMostOne(AISystem), risks \in AtMostOne(Risk) :
          /\ systems # {} \/ risks # {}
          /\ \A s \in systems : OwnSystem(Home[m], s)
          /\ \A k \in risks : OwnRisk(Home[m], k)
          /\ evidence' = [evidence EXCEPT ![v].system = systems, ![v].risk = risks]
    /\ UNCHANGED <<risk, incident, action>>
    /\ Creates(h, m, EvidencesTenant(v)')

\* generate_ai_policy and get_org_scoped_org; a policy is only read again by its tenant.
CreatePolicy(h, m, o) ==
    /\ Home[m] = o \/ m \in SuperMember
    /\ Creates(h, m, {o})
    /\ UNCHANGED Records

-----------------------------------------------------------------------------
(* Records are changed: looked up by one step, written by another. *)

LooksUp(h, m, what, on, set) ==
    /\ Idle(h)
    /\ handling' = [handling EXCEPT ![h] = [by |-> {m}, what |-> what, on |-> {on}, set |-> set]]
    /\ line' = {}
    /\ UNCHANGED <<stage, Records, owed, together>>

Writes(h, x, tenants) ==
    /\ handling' = [handling EXCEPT ![h] = NotHandling]
    /\ \A m \in handling[h].by : Owes(h, tenants, m)
    /\ together' = together \union {y \in {x} : \E g \in Handler \ {h} : handling[g].on = {x}}
    /\ UNCHANGED stage

\* Only what differs from the loaded value is written.
Change(loaded, field, value) == [f \in {g \in {field} : loaded[g] # value} |-> value]

With(row, set) == [f \in DOMAIN row |-> IF f \in DOMAIN set THEN set[f] ELSE row[f]]

UpdateRisk(h, m, k) ==
    /\ OwnRisk(Home[m], k)
    /\ \E level \in {"low", "medium", "high"} :
          /\ risk[k].level = "high" /\ level # "high" => m \in SuperMember
          /\ LooksUp(h, m, "risk", k, Change(risk[k], "level", level))

\* Variant: whoever may lower a risk's level is asked, but not whoever deletes it.
MayDeleteAny(m, k) == TRUE

MayDelete(m, k) == risk[k].level = "high" => m \in SuperMember

DeleteRisk(h, m, k) ==
    /\ OwnRisk(Home[m], k) /\ MayDelete(m, k)
    /\ LooksUp(h, m, "risk", k, Change(risk[k], "deleted", TRUE))

SaveRisk(h, k) ==
    /\ handling[h].what = "risk" /\ handling[h].on = {k}
    /\ risk' = [risk EXCEPT ![k] = With(@, handling[h].set)]
    /\ Writes(h, k, Tenants(risk[k].system))
    /\ UNCHANGED <<incident, action, evidence>>

UpdateIncident(h, m, n) ==
    /\ OwnIncident(Home[m], n)
    /\ \E status \in {"open", "closed"} : LooksUp(h, m, "incident", n, Change(incident[n], "status", status))

SaveIncident(h, n) ==
    /\ handling[h].what = "incident" /\ handling[h].on = {n}
    /\ incident' = [incident EXCEPT ![n] = With(@, handling[h].set)]
    /\ Writes(h, n, Tenants(incident[n].system))
    /\ UNCHANGED <<risk, action, evidence>>

UpdateAction(h, m, c) ==
    /\ OwnAction(Home[m], c)
    /\ \E status \in {"open", "closed"} : LooksUp(h, m, "action", c, Change(action[c], "status", status))

SaveAction(h, c) ==
    /\ handling[h].what = "action" /\ handling[h].on = {c}
    /\ action' = [action EXCEPT ![c] = With(@, handling[h].set)]
    /\ Writes(h, c, ActionsTenant(c))
    /\ UNCHANGED <<risk, incident, evidence>>

\* Only texts change.
UpdateEvidence(h, m, v) ==
    /\ OwnEvidence(Home[m], v)
    /\ Creates(h, m, EvidencesTenant(v))
    /\ UNCHANGED Records

-----------------------------------------------------------------------------
(* Systems and time. *)

SystemChanges(s) ==
    /\ ~Deleted(s)
    /\ \E new \in {"development", "restricted", "archived"} : stage' = [stage EXCEPT ![s] = new]
    /\ line' = {}
    /\ UNCHANGED <<Records, handling, owed, together>>

\* Thirty days after it was created.
Ages(k) ==
    /\ risk[k].system # {} /\ ~risk[k].aged
    /\ risk' = [risk EXCEPT ![k].aged = TRUE]
    /\ line' = {}
    /\ UNCHANGED <<stage, incident, action, evidence, handling, owed, together>>

RecordsNext ==
    \/ \E s \in AISystem : SystemChanges(s)
    \/ \E k \in Risk : Ages(k)
    \/ \E h \in Handler, m \in Member :
          \/ \E s \in AISystem :
                \/ \E k \in Risk : CreateRisk(h, m, k, s)
                \/ \E n \in Incident : CreateIncident(h, m, n, s)
          \/ \E c \in Action : CreateAction(h, m, c)
          \/ \E v \in Evidence : CreateEvidence(h, m, v) \/ UpdateEvidence(h, m, v)
          \/ \E o \in Company : CreatePolicy(h, m, o)
    \/ \E h \in Handler :
          \/ WritesLine(h) \/ Fails(h)
          \/ \E k \in Risk : SaveRisk(h, k) \/ \E m \in Member : UpdateRisk(h, m, k) \/ DeleteRisk(h, m, k)
          \/ \E n \in Incident : SaveIncident(h, n) \/ \E m \in Member : UpdateIncident(h, m, n)
          \/ \E c \in Action : SaveAction(h, c) \/ \E m \in Member : UpdateAction(h, m, c)

RecordsSpec == RecordsInit /\ [][RecordsNext]_recordsVars

-----------------------------------------------------------------------------
(* The lists and the scores. *)

ListedRisk(o, k) ==
    \E s \in risk[k].system : OwnerOf[s] = o /\ ~Deleted(s) /\ ~risk[k].deleted
ListedIncident(o, n) == \E s \in incident[n].system : OwnerOf[s] = o /\ ~Deleted(s)

\* Variant: evidence of a deleted risk is still listed.
ListedEvidenceOfDeleted(o, v) ==
    \/ \E s \in evidence[v].system : OwnerOf[s] = o /\ ~Deleted(s)
    \/ \E k \in evidence[v].risk : \E s \in risk[k].system : OwnerOf[s] = o /\ ~Deleted(s)

ListedEvidence(o, v) ==
    \/ \E s \in evidence[v].system : OwnerOf[s] = o /\ ~Deleted(s)
    \/ \E k \in evidence[v].risk : ListedRisk(o, k)

CountedRisks(o, level) ==
    {k \in Risk : \E s \in risk[k].system : OwnerOf[s] = o /\ risk[k].level = level /\ ~risk[k].deleted}
CountedIncidents(o) == {n \in Incident : \E s \in incident[n].system : OwnerOf[s] = o}

\* A high risk with one closed action no longer counts as high.
Mitigated(k) == \E c \in Action : k \in action[c].risk /\ action[c].status = "closed"

AtLeastZero(n) == IF n > 0 THEN n ELSE 0

IsoScore(o) ==
    LET high == {k \in CountedRisks(o, "high") : ~Mitigated(k)}
        aged == {k \in high : risk[k].aged}
    IN  AtLeastZero(100 - 20 * Cardinality(high \ aged) - 35 * Cardinality(aged)
                        - 10 * Cardinality(CountedRisks(o, "medium")) - 5 * Cardinality(CountedIncidents(o)))

Maturity(o) ==
    LET high == CountedRisks(o, "high") IN
    100 - (IF \E s \in AISystem : OwnerOf[s] = o /\ stage[s] = "restricted" THEN 10 ELSE 0)
        - (IF \E k \in high : risk[k].aged THEN 20 ELSE 0)
        - (IF high # {} THEN 10 ELSE 0)

-----------------------------------------------------------------------------
(* Properties. *)

\* A high risk is lowered or deleted by a super-admin, or by two requests that overlapped on
\* it: one that loaded it before it was high (update_ai_risk, delete_ai_risk).
HighRiskNeedsSuperAdmin ==
    [][\A k \in Risk :
          risk[k].level = "high" /\ ~risk[k].deleted /\ (risk'[k].level # "high" \/ risk'[k].deleted) =>
              k \in together \/ \E h \in Handler : \E w \in owed'[h] \ owed[h] : w.by \in SuperMember]_recordsVars

\* What a tenant is told of its score and maturity changes with time, with its systems, or
\* with the commit of one of its own users, who owes a line to its own chain from then on; what
\* is owed goes with the line or with a failure of the request between the two commits; and a
\* chain has lines that were owed, once each, of its tenant's users and of super-admins (the
\* get_org_scoped lookups, corrective_action_organization_id, evidence_organization_id).
ScoresFollowTheTrail ==
    [][LET OwnCommit(o) ==
               \E h \in Handler, m \in Member :
                   Home[m] = o /\ owed[h] = {} /\ owed'[h] = {[org |-> o, by |-> m]}
           Aging(o) == \E k \in Risk : Tenants(risk[k].system) = {o} /\ risk'[k].aged # risk[k].aged
       IN
       /\ \A o \in Company :
             /\ IsoScore(o)' # IsoScore(o) => OwnCommit(o) \/ Aging(o)
             /\ Maturity(o)' # Maturity(o) =>
                   OwnCommit(o) \/ Aging(o) \/ \E s \in AISystem : OwnerOf[s] = o /\ stage'[s] # stage[s]
       /\ \A h \in Handler : owed[h] # {} /\ owed'[h] # owed[h] => owed'[h] = {} /\ (line' = owed[h] \/ Fails(h))
       /\ \A w \in line' :
             /\ \E h \in Handler : w \in owed[h] /\ owed'[h] = {}
             /\ Home[w.by] = w.org \/ w.by \in SuperMember]_recordsVars

\* Whatever a tenant is shown, or lowers its score, its users can change; they can change
\* nothing that is neither shown nor counted but what hangs on an archived system (the
\* lists, iso_governance_score, the get_org_scoped lookups).
WhatIsShownCanBeChanged ==
    \A o \in Company :
        LET OnArchived(systems) == \E s \in systems : Deleted(s)
            Counted(k) == \E level \in {"high", "medium"} : k \in CountedRisks(o, level)
        IN
        /\ \A k \in Risk :
              /\ ListedRisk(o, k) \/ Counted(k) => OwnRisk(o, k)
              /\ OwnRisk(o, k) => ListedRisk(o, k) \/ OnArchived(risk[k].system)
        /\ \A n \in Incident :
              /\ ListedIncident(o, n) \/ n \in CountedIncidents(o) => OwnIncident(o, n)
              /\ OwnIncident(o, n) => ListedIncident(o, n) \/ OnArchived(incident[n].system)
        /\ \A v \in Evidence :
              /\ ListedEvidence(o, v) => OwnEvidence(o, v)
              /\ OwnEvidence(o, v) =>
                    ListedEvidence(o, v) \/ \E k \in evidence[v].risk : OnArchived(risk[k].system)
=============================================================================
