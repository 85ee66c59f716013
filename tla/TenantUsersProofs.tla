------------------------- MODULE TenantUsersProofs --------------------------
(***************************************************************************)
(* Theorems about what the users of a tenant do, for any number of         *)
(* tenants, users, records, requests and crashes: records that are shown   *)
(* can be changed, high risks are lowered by super-admins, and scores      *)
(* follow the trail (GovernanceRecords); guesses at passwords are bounded, *)
(* and a tenant keeps an administrator (Access); the anonymiser's engine   *)
(* is built once, and what a caller of a workflow was told is what was     *)
(* recorded (WorkflowRuns).                                                *)
(***************************************************************************)
EXTENDS GovernanceRecords, Access, WorkflowRuns, Integers, FiniteSetTheorems, TLAPS

Level == {"low", "medium", "high"}
RiskRow == [system : AtMostOne(AISystem), level : Level, aged : BOOLEAN, deleted : BOOLEAN]
IncidentRow == [system : AtMostOne(AISystem), status : {"open", "closed"}]
ActionRow == [risk : AtMostOne(Risk), incident : AtMostOne(Incident), status : {"open", "closed"}]
EvidenceRow == [system : AtMostOne(AISystem), risk : AtMostOne(Risk)]

\* What a request is going to do is a record, whatever is in it.
RequestsShape == handling = [h \in Handler |-> handling[h]]

RecordsTypes ==
    /\ stage \in [AISystem -> {"development", "restricted", "archived"}]
    /\ risk \in [Risk -> RiskRow] /\ incident \in [Incident -> IncidentRow]
    /\ action \in [Action -> ActionRow] /\ evidence \in [Evidence -> EvidenceRow]
    /\ handling = [h \in Handler |-> handling[h]]
    /\ \A k \in Risk : risk[k].system = {} => risk[k].level = "low"

\* The risk and the incident of an action belong to one tenant ...
ActionOf(o, c) ==
    /\ \A k \in action[c].risk : Tenants(risk[k].system) = {o}
    /\ \A n \in action[c].incident : Tenants(incident[n].system) = {o}

\* ... and so do the system and the risk of a piece of evidence.
EvidenceOf(o, v) ==
    /\ \A s \in evidence[v].system : OwnerOf[s] = o
    /\ \A k \in evidence[v].risk : Tenants(risk[k].system) = {o}

LinksAgree ==
    /\ \A c \in Action : \E o : ActionOf(o, c)
    /\ \A v \in Evidence : \E o : EvidenceOf(o, v)

\* A high risk no longer is one.
Lowers(old, new) == old.level = "high" /\ ~old.deleted /\ (new.level # "high" \/ new.deleted)

RiskSet(set) ==
    /\ DOMAIN set \subseteq {"level", "deleted"}
    /\ "level" \in DOMAIN set => set["level"] \in Level
    /\ "deleted" \in DOMAIN set => set["deleted"] \in BOOLEAN

StatusSet(set) ==
    /\ DOMAIN set \subseteq {"status"}
    /\ "status" \in DOMAIN set => set["status"] \in {"open", "closed"}

\* What a request of m may be about to write: to a record of the tenant of m, and if it lowers
\* a high risk, m is a super-admin or another request has written the risk meanwhile.
PlanFits(m, what, on, set) ==
    /\ what = "risk" =>
          \E k \in Risk :
             /\ on = {k} /\ Tenants(risk[k].system) = {Home[m]}
             /\ RiskSet(set)
             /\ Lowers(risk[k], With(risk[k], set)) => k \in together \/ m \in SuperMember
    /\ what = "incident" =>
          \E n \in Incident :
             /\ on = {n} /\ Tenants(incident[n].system) = {Home[m]}
             /\ StatusSet(set)
    /\ what = "action" =>
          \E c \in Action :
             /\ on = {c} /\ action[c].risk \union action[c].incident # {} /\ ActionOf(Home[m], c)
             /\ StatusSet(set)

HandlingFits(h, m) ==
    /\ handling[h].by = {m}
    /\ PlanFits(m, handling[h].what, handling[h].on, handling[h].set)

HandlersFit ==
    \A h \in Handler : handling[h].what \in {"risk", "incident", "action"} => \E m \in Member : HandlingFits(h, m)

RecordsInv == RecordsTypes /\ LinksAgree /\ HandlersFit

\* Only a request that has committed owes a line, to the chain of its user's tenant unless that
\* is a super-admin.
DebtsFit ==
    /\ owed = [h \in Handler |-> owed[h]]
    /\ \A h \in Handler :
          /\ handling[h].what \in {"risk", "incident", "action"} => owed[h] = {}
          /\ \A w \in owed[h] : Home[w.by] = w.org \/ w.by \in SuperMember

-----------------------------------------------------------------------------
(* Operators. *)

LEMMA OneTenant ==
    ASSUME NEW systems \in AtMostOne(AISystem), NEW o
    PROVE  /\ Tenants(systems) = {o} <=> systems # {} /\ \A s \in systems : OwnerOf[s] = o
           /\ Tenants(systems) = {o} <=> \E s \in systems : OwnerOf[s] = o
BY DEF AtMostOne, Tenants

LEMMA WithRisk ==
    ASSUME NEW rec \in RiskRow, NEW set, RiskSet(set)
    PROVE  /\ With(rec, set) \in RiskRow
           /\ With(rec, set).system = rec.system /\ With(rec, set).aged = rec.aged
           /\ With(rec, set).level = IF "level" \in DOMAIN set THEN set["level"] ELSE rec.level
           /\ With(rec, set).deleted = IF "deleted" \in DOMAIN set THEN set["deleted"] ELSE rec.deleted
<1>1. /\ DOMAIN rec = {"system", "level", "aged", "deleted"}
      /\ rec.system \in AtMostOne(AISystem) /\ rec.level \in Level /\ rec.aged \in BOOLEAN /\ rec.deleted \in BOOLEAN
  BY DEF RiskRow
<1>2. With(rec, set) = [system |-> rec.system,
                        level |-> IF "level" \in DOMAIN set THEN set["level"] ELSE rec.level,
                        aged |-> rec.aged,
                        deleted |-> IF "deleted" \in DOMAIN set THEN set["deleted"] ELSE rec.deleted]
  BY <1>1 DEF With, RiskSet
<1> QED
  BY <1>1, <1>2 DEF RiskRow, RiskSet

LEMMA WithIncident ==
    ASSUME NEW rec \in IncidentRow, NEW set, StatusSet(set)
    PROVE  With(rec, set) \in IncidentRow /\ With(rec, set).system = rec.system
<1>1. DOMAIN rec = {"system", "status"} /\ rec.system \in AtMostOne(AISystem) /\ rec.status \in {"open", "closed"}
  BY DEF IncidentRow
<1>2. With(rec, set) = [system |-> rec.system,
                        status |-> IF "status" \in DOMAIN set THEN set["status"] ELSE rec.status]
  BY <1>1 DEF With, StatusSet
<1> QED
  BY <1>1, <1>2 DEF IncidentRow, StatusSet

LEMMA WithAction ==
    ASSUME NEW rec \in ActionRow, NEW set, StatusSet(set)
    PROVE  /\ With(rec, set) \in ActionRow
           /\ With(rec, set).risk = rec.risk /\ With(rec, set).incident = rec.incident
<1>1. /\ DOMAIN rec = {"risk", "incident", "status"}
      /\ rec.risk \in AtMostOne(Risk) /\ rec.incident \in AtMostOne(Incident) /\ rec.status \in {"open", "closed"}
  BY DEF ActionRow
<1>2. With(rec, set) = [risk |-> rec.risk, incident |-> rec.incident,
                        status |-> IF "status" \in DOMAIN set THEN set["status"] ELSE rec.status]
  BY <1>1 DEF With, StatusSet
<1> QED
  BY <1>1, <1>2 DEF ActionRow, StatusSet

LEMMA LevelChange ==
    ASSUME NEW rec \in RiskRow, NEW level \in Level
    PROVE  /\ RiskSet(Change(rec, "level", level))
           /\ With(rec, Change(rec, "level", level)).level = level
           /\ With(rec, Change(rec, "level", level)).deleted = rec.deleted
<1> DEFINE set == Change(rec, "level", level)
<1>1. DOMAIN rec = {"system", "level", "aged", "deleted"}
  BY DEF RiskRow
<1>2. /\ DOMAIN set \subseteq {"level"}
      /\ "level" \in DOMAIN set <=> rec.level # level
      /\ "level" \in DOMAIN set => set["level"] = level
  BY DEF Change
<1>3. RiskSet(set)
  BY <1>2 DEF RiskSet
<1>4. rec["level"] = rec.level /\ rec["deleted"] = rec.deleted
  OBVIOUS
<1> HIDE DEF set
<1>5. With(rec, set) = [f \in {"system", "level", "aged", "deleted"} |-> IF f \in DOMAIN set THEN set[f] ELSE rec[f]]
  BY <1>1 DEF With
<1>6. With(rec, set)["level"] = level /\ With(rec, set)["deleted"] = rec["deleted"]
  BY <1>2, <1>5
<1> QED
  BY <1>3, <1>4, <1>6 DEF set

LEMMA DeletedChange ==
    ASSUME NEW rec \in RiskRow
    PROVE  RiskSet(Change(rec, "deleted", TRUE))
BY DEF Change, RiskSet

LEMMA StatusChange ==
    ASSUME NEW rec, NEW status \in {"open", "closed"}
    PROVE  StatusSet(Change(rec, "status", status))
BY DEF Change, StatusSet

-----------------------------------------------------------------------------
(* The lists: every state. *)

LEMMA ShownAndChanged == RecordsTypes => WhatIsShownCanBeChanged
<1> SUFFICES ASSUME RecordsTypes, NEW o \in Company
             PROVE  LET OnArchived(systems) == \E s \in systems : Deleted(s)
                        Counted(k) == \E level \in {"high", "medium"} : k \in CountedRisks(o, level)
                    IN
                    /\ \A k \in Risk :
                          /\ ListedRisk(o, k) \/ Counted(k) => OwnRisk(o, k)
                          /\ OwnRisk(o, k) => ListedRisk(o, k) \/ OnArchived(risk[k].system)
                    /\ \A n \in Incident :
                          /\ ListedIncident(o, n) \/ n \in CountedIncidents(o) => OwnIncident(o, n)
                          /\ OwnIncident(o, n) => ListedIncident(o, n) \/ OnArchived(incident[n].system)
                    /\ \A v \in Evidence :
                          /\ ListedEvidence(o, v) => OwnEvidence(o, v)
                          /\ OwnEvidence(o, v) =>
                                ListedEvidence(o, v) \/ \E k \in evidence[v].risk : OnArchived(risk[k].system)
  BY DEF WhatIsShownCanBeChanged
<1>1. ASSUME NEW k \in Risk
      PROVE  /\ ListedRisk(o, k) \/ (\E level \in {"high", "medium"} : k \in CountedRisks(o, level)) => OwnRisk(o, k)
             /\ OwnRisk(o, k) => ListedRisk(o, k) \/ \E s \in risk[k].system : Deleted(s)
  <2>1. risk[k].system \in AtMostOne(AISystem)
    BY DEF RecordsTypes, RiskRow
  <2>2. Tenants(risk[k].system) = {o} <=> \E s \in risk[k].system : OwnerOf[s] = o
    BY <2>1, OneTenant
  <2> QED
    BY <2>2 DEF ListedRisk, OwnRisk, CountedRisks
<1>2. ASSUME NEW n \in Incident
      PROVE  /\ ListedIncident(o, n) \/ n \in CountedIncidents(o) => OwnIncident(o, n)
             /\ OwnIncident(o, n) => ListedIncident(o, n) \/ \E s \in incident[n].system : Deleted(s)
  <2>1. incident[n].system \in AtMostOne(AISystem)
    BY DEF RecordsTypes, IncidentRow
  <2>2. Tenants(incident[n].system) = {o} <=> \E s \in incident[n].system : OwnerOf[s] = o
    BY <2>1, OneTenant
  <2> QED
    BY <2>2 DEF ListedIncident, OwnIncident, CountedIncidents
<1>3. ASSUME NEW v \in Evidence
      PROVE  /\ ListedEvidence(o, v) => OwnEvidence(o, v)
             /\ OwnEvidence(o, v) =>
                   ListedEvidence(o, v) \/ \E k \in evidence[v].risk : \E s \in risk[k].system : Deleted(s)
  <2>1. evidence[v].risk \subseteq Risk
    BY DEF RecordsTypes, EvidenceRow, AtMostOne
  <2> QED
    BY <1>1, <2>1 DEF ListedEvidence, OwnEvidence, OwnSystem
<1> QED
  BY <1>1, <1>2, <1>3

-----------------------------------------------------------------------------
(* What stays true of the rest. *)

\* A record keeps the system it hangs on, and risks stay among those written together.
Kept ==
    /\ \A k \in Risk : risk[k].system # {} => risk'[k].system = risk[k].system
    /\ \A n \in Incident : incident[n].system # {} => incident'[n].system = incident[n].system
    /\ together \subseteq together'

LEMMA TenantKept ==
    ASSUME RecordsTypes, Kept, NEW o
    PROVE  /\ \A k \in Risk : Tenants(risk[k].system) = {o} => Tenants(risk'[k].system) = {o}
           /\ \A n \in Incident : Tenants(incident[n].system) = {o} => Tenants(incident'[n].system) = {o}
<1>1. \A k \in Risk : Tenants(risk[k].system) = {o} => risk[k].system # {}
  BY DEF Tenants
<1>2. \A n \in Incident : Tenants(incident[n].system) = {o} => incident[n].system # {}
  BY DEF Tenants
<1> QED
  BY <1>1, <1>2 DEF Kept

LEMMA LinksKept ==
    ASSUME RecordsTypes, Kept, NEW o
    PROVE  /\ \A c \in Action :
                 action'[c].risk = action[c].risk /\ action'[c].incident = action[c].incident /\ ActionOf(o, c) =>
                     ActionOf(o, c)'
           /\ \A v \in Evidence : evidence'[v] = evidence[v] /\ EvidenceOf(o, v) => EvidenceOf(o, v)'
<1>1. /\ \A c \in Action : action[c].risk \subseteq Risk /\ action[c].incident \subseteq Incident
      /\ \A v \in Evidence : evidence[v].risk \subseteq Risk
  BY DEF RecordsTypes, ActionRow, EvidenceRow, AtMostOne
<1> QED
  BY <1>1, TenantKept DEF ActionOf, EvidenceOf

\* A request goes on with its record, even if others have written it.
LEMMA StillFits ==
    ASSUME RecordsInv, Kept, NEW h \in Handler, handling'[h] = handling[h],
           \A c \in Action :
              action[c].risk \union action[c].incident # {} =>
                  action'[c].risk = action[c].risk /\ action'[c].incident = action[c].incident,
           \A k \in Risk :
              handling[h].what = "risk" /\ handling[h].on = {k} /\ risk[k].system # {} =>
                  k \in together' \/ (risk'[k].level = risk[k].level /\ risk'[k].deleted = risk[k].deleted),
           risk' \in [Risk -> RiskRow],
           handling[h].what \in {"risk", "incident", "action"}
    PROVE  \E m \in Member : HandlingFits(h, m)'
<1>1. PICK m \in Member : HandlingFits(h, m)
  BY DEF RecordsInv, HandlersFit
<1>2. /\ \A k \in Risk : Tenants(risk[k].system) = {Home[m]} => Tenants(risk'[k].system) = {Home[m]}
      /\ \A n \in Incident : Tenants(incident[n].system) = {Home[m]} => Tenants(incident'[n].system) = {Home[m]}
  BY TenantKept DEF RecordsInv
<1>3. ASSUME handling[h].what = "risk" PROVE HandlingFits(h, m)'
  <2>1. PICK k \in Risk :
           /\ handling[h].on = {k} /\ Tenants(risk[k].system) = {Home[m]}
           /\ RiskSet(handling[h].set)
           /\ Lowers(risk[k], With(risk[k], handling[h].set)) => k \in together \/ m \in SuperMember
    BY <1>1, <1>3 DEF HandlingFits, PlanFits
  <2>2. risk[k] \in RiskRow /\ risk'[k] \in RiskRow
    BY DEF RecordsInv, RecordsTypes
  <2>4. risk[k].system # {}
    BY <2>1 DEF Tenants
  <2>3. Lowers(risk'[k], With(risk'[k], handling[h].set)) => k \in together' \/ m \in SuperMember
    BY <1>3, <2>1, <2>2, <2>4, WithRisk DEF Lowers, Kept
  <2> QED
    BY <1>1, <1>2, <1>3, <2>1, <2>3 DEF HandlingFits, PlanFits
<1>4. ASSUME handling[h].what = "incident" PROVE HandlingFits(h, m)'
  BY <1>1, <1>2, <1>4 DEF HandlingFits, PlanFits
<1>5. ASSUME handling[h].what = "action" PROVE HandlingFits(h, m)'
  <2>1. PICK c \in Action :
           /\ handling[h].on = {c} /\ action[c].risk \union action[c].incident # {} /\ ActionOf(Home[m], c)
           /\ StatusSet(handling[h].set)
    BY <1>1, <1>5 DEF HandlingFits, PlanFits
  <2>2. ActionOf(Home[m], c)'
    BY <2>1, LinksKept DEF RecordsInv
  <2> QED
    BY <1>1, <1>5, <2>1, <2>2 DEF HandlingFits, PlanFits
<1> QED
  BY <1>3, <1>4, <1>5

-----------------------------------------------------------------------------
(* The scores of a tenant whose records stay as they are. *)

LEMMA SameScores ==
    ASSUME RecordsInv, RecordsTypes', NEW o,
           \A k \in Risk : risk'[k] = risk[k] \/ (Tenants(risk[k].system) # {o} /\ Tenants(risk'[k].system) # {o}),
           \A n \in Incident :
              incident'[n].system = incident[n].system \/
              (Tenants(incident[n].system) # {o} /\ Tenants(incident'[n].system) # {o}),
           \A c \in Action :
              action'[c] = action[c] \/ \A k \in action[c].risk \union action'[c].risk : Tenants(risk'[k].system) # {o}
    PROVE  /\ IsoScore(o)' = IsoScore(o)
           /\ (\A s \in AISystem : OwnerOf[s] = o => stage'[s] = stage[s]) => Maturity(o)' = Maturity(o)
<1>1. /\ \A k \in Risk : risk[k].system \in AtMostOne(AISystem) /\ risk'[k].system \in AtMostOne(AISystem)
      /\ \A n \in Incident : incident[n].system \in AtMostOne(AISystem) /\ incident'[n].system \in AtMostOne(AISystem)
  BY DEF RecordsInv, RecordsTypes, RiskRow, IncidentRow
<1>2. /\ \A k \in Risk : /\ Tenants(risk[k].system) = {o} <=> \E s \in risk[k].system : OwnerOf[s] = o
                         /\ Tenants(risk'[k].system) = {o} <=> \E s \in risk'[k].system : OwnerOf[s] = o
      /\ \A n \in Incident : /\ Tenants(incident[n].system) = {o} <=> \E s \in incident[n].system : OwnerOf[s] = o
                             /\ Tenants(incident'[n].system) = {o} <=> \E s \in incident'[n].system : OwnerOf[s] = o
  <2>1. \A systems \in AtMostOne(AISystem) : Tenants(systems) = {o} <=> \E s \in systems : OwnerOf[s] = o
    BY OneTenant
  <2> QED
    BY <1>1, <2>1
<1>3. ASSUME NEW level PROVE CountedRisks(o, level)' = CountedRisks(o, level)
  BY <1>2 DEF CountedRisks
<1>4. CountedIncidents(o)' = CountedIncidents(o)
  BY <1>2 DEF CountedIncidents
<1>5. \A k \in CountedRisks(o, "high") : risk'[k] = risk[k] /\ (Mitigated(k)' <=> Mitigated(k))
  <2>1. ASSUME NEW k \in CountedRisks(o, "high") PROVE risk'[k] = risk[k] /\ Tenants(risk'[k].system) = {o}
    BY <1>2 DEF CountedRisks
  <2> QED
    BY <2>1 DEF Mitigated
<1> DEFINE high == {k \in CountedRisks(o, "high") : ~Mitigated(k)}
           aged == {k \in high : risk[k].aged}
<1>6. high' = high
  BY <1>3, <1>5
<1>7. aged' = aged
  BY <1>5, <1>6
<1>8. IsoScore(o)' = IsoScore(o)
  BY <1>3, <1>4, <1>6, <1>7 DEF IsoScore
<1>9. ASSUME \A s \in AISystem : OwnerOf[s] = o => stage'[s] = stage[s]
      PROVE  Maturity(o)' = Maturity(o)
  <2>1. (\E k \in CountedRisks(o, "high") : risk[k].aged)' <=> \E k \in CountedRisks(o, "high") : risk[k].aged
    BY <1>3, <1>5
  <2>2. (\E s \in AISystem : OwnerOf[s] = o /\ stage[s] = "restricted")' <=>
        \E s \in AISystem : OwnerOf[s] = o /\ stage[s] = "restricted"
    BY <1>9
  <2> QED
    BY <1>3, <2>1, <2>2 DEF Maturity
<1> QED
  BY <1>8, <1>9

-----------------------------------------------------------------------------
(* Steps. *)

\* What HighRiskNeedsSuperAdmin says of a step.
LoweredRightly ==
    \A k \in Risk :
          risk[k].level = "high" /\ ~risk[k].deleted /\ (risk'[k].level # "high" \/ risk'[k].deleted) =>
              k \in together \/ \E h \in Handler : \E w \in owed'[h] \ owed[h] : w.by \in SuperMember

\* What ScoresFollowTheTrail says of a step.
OwnCommit(o) ==
    \E h \in Handler, m \in Member : Home[m] = o /\ owed[h] = {} /\ owed'[h] = {[org |-> o, by |-> m]}
RiskAges(o) == \E k \in Risk : Tenants(risk[k].system) = {o} /\ risk'[k].aged # risk[k].aged
ScoresExplained ==
       /\ \A o \in Company :
             /\ IsoScore(o)' # IsoScore(o) => OwnCommit(o) \/ RiskAges(o)
             /\ Maturity(o)' # Maturity(o) =>
                   OwnCommit(o) \/ RiskAges(o) \/ \E s \in AISystem : OwnerOf[s] = o /\ stage'[s] # stage[s]
       /\ \A h \in Handler : owed[h] # {} /\ owed'[h] # owed[h] => owed'[h] = {} /\ (line' = owed[h] \/ Fails(h))
       /\ \A w \in line' :
             /\ \E h \in Handler : w \in owed[h] /\ owed'[h] = {}
             /\ Home[w.by] = w.org \/ w.by \in SuperMember

\* Its two halves: what moves the scores, and what becomes of the lines.
ScoresMove ==
    \A o \in Company :
        /\ IsoScore(o)' # IsoScore(o) => OwnCommit(o) \/ RiskAges(o)
        /\ Maturity(o)' # Maturity(o) =>
              OwnCommit(o) \/ RiskAges(o) \/ \E s \in AISystem : OwnerOf[s] = o /\ stage'[s] # stage[s]
DebtsMove ==
    /\ DebtsFit'
    /\ \A h \in Handler : owed[h] # {} /\ owed'[h] # owed[h] => owed'[h] = {} /\ (line' = owed[h] \/ Fails(h))
    /\ \A w \in line' :
          /\ \E h \in Handler : w \in owed[h] /\ owed'[h] = {}
          /\ Home[w.by] = w.org \/ w.by \in SuperMember

RightStep == RecordsInv' /\ LoweredRightly /\ ScoresMove /\ DebtsMove

\* A commit leaves one line to write, any other step of that kind none.
LEMMA NewDebt ==
    ASSUME DebtsFit, NEW h \in Handler, NEW m, NEW o, Home[m] = o \/ m \in SuperMember,
           owed[h] = {}, owed' = [owed EXCEPT ![h] = {[org |-> o, by |-> m]}], line' = {},
           handling'[h].what = "nothing", \A g \in Handler \ {h} : handling'[g] = handling[g]
    PROVE  DebtsMove /\ owed'[h] = {[org |-> o, by |-> m]}
<1>1. /\ owed'[h] = {[org |-> o, by |-> m]} /\ owed' = [g \in Handler |-> owed'[g]]
      /\ \A g \in Handler \ {h} : owed'[g] = owed[g]
  BY DEF DebtsFit
<1>2. DebtsFit'
  BY <1>1 DEF DebtsFit
<1> QED
  BY <1>1, <1>2 DEF DebtsMove

LEMMA SameDebts ==
    ASSUME DebtsFit, owed' = owed, line' = {},
           \A h \in Handler : handling'[h].what \in {"risk", "incident", "action"} => owed[h] = {}
    PROVE  DebtsMove
BY DEF DebtsMove, DebtsFit

\* A step that changes neither risks nor incidents nor actions.
LEMMA ScoresStay ==
    ASSUME RecordsInv, RecordsTypes', UNCHANGED <<risk, incident, action>>
    PROVE  LoweredRightly /\ ScoresMove
<1>1. ASSUME NEW o \in Company
      PROVE  /\ IsoScore(o)' = IsoScore(o)
             /\ (\A s \in AISystem : OwnerOf[s] = o => stage'[s] = stage[s]) => Maturity(o)' = Maturity(o)
  BY SameScores
<1> QED
  BY <1>1 DEF LoweredRightly, ScoresMove, RecordsInv, RecordsTypes

\* The commit of a user on records of the user's own tenant.
LEMMA OwnWork ==
    ASSUME RecordsInv, RecordsTypes', stage' = stage,
           NEW h \in Handler, NEW m \in Member, owed[h] = {}, owed'[h] = {[org |-> Home[m], by |-> m]},
           \A k \in Risk : risk'[k] = risk[k] \/ \A o : Tenants(risk'[k].system) = {o} \/ Tenants(risk[k].system) = {o} => o = Home[m],
           \A n \in Incident :
              incident'[n].system = incident[n].system \/
              \A o : Tenants(incident'[n].system) = {o} \/ Tenants(incident[n].system) = {o} => o = Home[m],
           \A c \in Action :
              action'[c] = action[c] \/
              \A k \in action[c].risk \union action'[c].risk : Tenants(risk'[k].system) = {Home[m]}
    PROVE  ScoresMove
<1>1. Home[m] \in Company
  BY RecordsAssumption
<1>2. OwnCommit(Home[m])
  BY DEF OwnCommit
<1>3. ASSUME NEW o \in Company, o # Home[m]
      PROVE  IsoScore(o)' = IsoScore(o) /\ Maturity(o)' = Maturity(o)
  <2>1. \A k \in Risk : risk'[k] = risk[k] \/ (Tenants(risk[k].system) # {o} /\ Tenants(risk'[k].system) # {o})
    BY <1>3
  <2>2. \A n \in Incident :
           incident'[n].system = incident[n].system \/
           (Tenants(incident[n].system) # {o} /\ Tenants(incident'[n].system) # {o})
    BY <1>3
  <2>3. \A c \in Action :
           action'[c] = action[c] \/ \A k \in action[c].risk \union action'[c].risk : Tenants(risk'[k].system) # {o}
    BY <1>3
  <2> QED
    BY <2>1, <2>2, <2>3, SameScores
<1> QED
  BY <1>2, <1>3 DEF ScoresMove

\* The invariant, for a step that writes at most one of the records' links.
LEMMA InvKept ==
    ASSUME RecordsInv, RecordsTypes', Kept, NEW others \in SUBSET Handler,
           \A c \in Action :
              \/ action'[c].risk = action[c].risk /\ action'[c].incident = action[c].incident
              \/ action[c].risk \union action[c].incident = {} /\ \E o : ActionOf(o, c)',
           \A v \in Evidence : evidence'[v] = evidence[v] \/ \E o : EvidenceOf(o, v)',
           \A k \in Risk :
              \/ k \in together' \/ risk[k].system = {}
              \/ risk'[k].level = risk[k].level /\ risk'[k].deleted = risk[k].deleted
              \/ \A g \in others : handling[g].on # {k},
           \A g \in others : handling'[g] = handling[g],
           \A h \in Handler \ others :
              handling'[h].what \in {"risk", "incident", "action"} => \E m \in Member : HandlingFits(h, m)'
    PROVE  RecordsInv'
<1>1. \A c \in Action : \E o : ActionOf(o, c)'
  <2> TAKE c \in Action
  <2>1. PICK o : ActionOf(o, c)
    BY DEF RecordsInv, LinksAgree
  <2>2. action'[c].risk = action[c].risk /\ action'[c].incident = action[c].incident => ActionOf(o, c)'
    BY <2>1, LinksKept DEF RecordsInv
  <2> QED
    BY <2>2
<1>2. \A v \in Evidence : \E o : EvidenceOf(o, v)'
  <2> TAKE v \in Evidence
  <2>1. PICK o : EvidenceOf(o, v)
    BY DEF RecordsInv, LinksAgree
  <2>2. evidence'[v] = evidence[v] => EvidenceOf(o, v)'
    BY <2>1, LinksKept DEF RecordsInv
  <2> QED
    BY <2>2
<1>3. ASSUME NEW g \in others, handling'[g].what \in {"risk", "incident", "action"}
      PROVE  \E m \in Member : HandlingFits(g, m)'
  <2>1. handling'[g] = handling[g]
    BY <1>3
  <2>2. \A c \in Action :
           action[c].risk \union action[c].incident # {} =>
               action'[c].risk = action[c].risk /\ action'[c].incident = action[c].incident
    OBVIOUS
  <2>3. \A k \in Risk :
           handling[g].what = "risk" /\ handling[g].on = {k} /\ risk[k].system # {} =>
               k \in together' \/ (risk'[k].level = risk[k].level /\ risk'[k].deleted = risk[k].deleted)
    BY <1>3
  <2>4. risk' \in [Risk -> RiskRow]
    BY DEF RecordsTypes
  <2> QED
    BY <1>3, <2>1, <2>2, <2>3, <2>4, StillFits
<1> QED
  BY <1>1, <1>2, <1>3 DEF RecordsInv, LinksAgree, HandlersFit

\* What creating a record does besides.
LEMMA CreatesWhat ==
    ASSUME DebtsFit, NEW h \in Handler, NEW m, NEW o, Home[m] = o \/ m \in SuperMember, Creates(h, m, {o})
    PROVE  owed[h] = {} /\ owed'[h] = {[org |-> o, by |-> m]} /\ DebtsMove
<1>1. /\ handling[h] = NotHandling /\ owed[h] = {} /\ handling' = handling /\ line' = {}
      /\ owed' = [owed EXCEPT ![h] = {[org |-> t, by |-> m] : t \in {o}}]
  BY DEF Creates, Owes, Idle
<1>2. {[org |-> t, by |-> m] : t \in {o}} = {[org |-> o, by |-> m]}
  OBVIOUS
<1>3. handling'[h].what = "nothing"
  BY <1>1 DEF NotHandling
<1> QED
  BY <1>1, <1>2, <1>3, NewDebt

LEMMA CreateRiskStep ==
    ASSUME RecordsInv, DebtsFit, NEW h \in Handler, NEW m \in Member, NEW k \in Risk, NEW s \in AISystem,
           CreateRisk(h, m, k, s)
    PROVE  RightStep
<1>1. PICK level \in Level : risk' = [risk EXCEPT ![k].system = {s}, ![k].level = level]
  BY DEF CreateRisk, Level
<1>2. /\ risk[k].system = {} /\ OwnerOf[s] = Home[m]
      /\ Creates(h, m, {Home[m]})
      /\ UNCHANGED <<stage, handling, together, incident, action, evidence>>
  BY DEF CreateRisk, OwnSystem, Creates, Tenants
<1>3. owed[h] = {} /\ owed'[h] = {[org |-> Home[m], by |-> m]} /\ DebtsMove
  BY <1>2, CreatesWhat
<1>4. /\ risk \in [Risk -> RiskRow] /\ risk[k] \in RiskRow
      /\ \A x \in Risk \ {k} : risk'[x] = risk[x]
      /\ risk'[k].system = {s} /\ risk'[k].level = level
      /\ risk'[k].aged = risk[k].aged /\ risk'[k].deleted = risk[k].deleted
  BY <1>1 DEF RecordsInv, RecordsTypes, RiskRow
<1>5. {s} \in AtMostOne(AISystem)
  BY DEF AtMostOne
<1>6. risk' \in [Risk -> RiskRow]
  BY <1>1, <1>4, <1>5 DEF RiskRow
<1>7. RecordsTypes'
  BY <1>2, <1>4, <1>6 DEF RecordsInv, RecordsTypes
<1>8. Kept
  BY <1>2, <1>4 DEF Kept
<1>9. RecordsInv'
  <2>1. \A x \in Risk : risk[x].system = {} \/ (risk'[x].level = risk[x].level /\ risk'[x].deleted = risk[x].deleted)
    BY <1>2, <1>4
  <2> QED
    BY <1>2, <1>7, <1>8, <2>1, InvKept
<1>10. ScoresMove
  <2>1. \A o : Tenants(risk'[k].system) = {o} \/ Tenants(risk[k].system) = {o} => o = Home[m]
    BY <1>2, <1>4 DEF Tenants
  <2>2. \A x \in Risk : risk'[x] = risk[x] \/
           \A o : Tenants(risk'[x].system) = {o} \/ Tenants(risk[x].system) = {o} => o = Home[m]
    BY <1>4, <2>1
  <2>3. stage' = stage /\ incident' = incident /\ action' = action
    BY <1>2
  <2> QED
    BY <1>3, <1>7, <2>2, <2>3, OwnWork
<1>11. LoweredRightly
  <2>1. ASSUME NEW x \in Risk, risk[x].level = "high", ~risk[x].deleted, risk'[x].level # "high" \/ risk'[x].deleted
        PROVE  FALSE
    <3>1. x = k
      BY <1>4, <2>1
    <3>2. risk[k].level = "low"
      BY <1>2 DEF RecordsInv, RecordsTypes
    <3> QED
      BY <2>1, <3>1, <3>2
  <2> QED
    BY <2>1 DEF LoweredRightly
<1> QED
  BY <1>3, <1>9, <1>10, <1>11 DEF RightStep

\* A step that only creates an incident, an action or evidence lowers no risk.
LEMMA RisksStay ==
    ASSUME RecordsInv, UNCHANGED risk
    PROVE  LoweredRightly
BY DEF LoweredRightly, RecordsInv, RecordsTypes

LEMMA CreateIncidentStep ==
    ASSUME RecordsInv, DebtsFit, NEW h \in Handler, NEW m \in Member, NEW n \in Incident, NEW s \in AISystem,
           CreateIncident(h, m, n, s)
    PROVE  RightStep
<1>1. /\ incident[n].system = {} /\ OwnerOf[s] = Home[m]
      /\ incident' = [incident EXCEPT ![n].system = {s}]
      /\ Creates(h, m, {Home[m]})
      /\ UNCHANGED <<stage, handling, together, risk, action, evidence>>
  BY DEF CreateIncident, OwnSystem, Creates, Tenants
<1>2. owed[h] = {} /\ owed'[h] = {[org |-> Home[m], by |-> m]} /\ DebtsMove
  BY <1>1, CreatesWhat
<1>3. /\ incident \in [Incident -> IncidentRow]
      /\ \A x \in Incident \ {n} : incident'[x] = incident[x]
      /\ incident'[n].system = {s}
  BY <1>1 DEF RecordsInv, RecordsTypes, IncidentRow
<1>4. {s} \in AtMostOne(AISystem)
  BY DEF AtMostOne
<1>5. incident' \in [Incident -> IncidentRow]
  <2>1. \A x \in Incident : incident'[x] \in IncidentRow
    <3>1. incident'[n] \in IncidentRow
      BY <1>1, <1>3, <1>4 DEF IncidentRow
    <3> QED
      BY <1>3, <3>1
  <2>2. incident' = [x \in Incident |-> incident'[x]]
    BY <1>1, <1>3
  <2> QED
    BY <2>1, <2>2
<1>6. RecordsTypes'
  BY <1>1, <1>5 DEF RecordsInv, RecordsTypes
<1>7. Kept
  BY <1>1, <1>3 DEF Kept
<1>8. RecordsInv'
  BY <1>1, <1>6, <1>7, InvKept
<1>9. ScoresMove
  <2>1. \A o : Tenants(incident'[n].system) = {o} \/ Tenants(incident[n].system) = {o} => o = Home[m]
    BY <1>1, <1>3 DEF Tenants
  <2>2. \A x \in Incident :
           incident'[x].system = incident[x].system \/
           \A o : Tenants(incident'[x].system) = {o} \/ Tenants(incident[x].system) = {o} => o = Home[m]
    BY <1>3, <2>1
  <2> QED
    BY <1>1, <1>2, <1>6, <2>2, OwnWork
<1> QED
  BY <1>1, <1>2, <1>8, <1>9, RisksStay DEF RightStep

\* Where the line of a step on an action goes, and that of a step on a piece of evidence.
LEMMA LinesTenant ==
    ASSUME RecordsTypes, NEW o
    PROVE  /\ \A c \in Action : ActionOf(o, c) /\ action[c].risk \union action[c].incident # {} => ActionsTenant(c) = {o}
           /\ \A v \in Evidence : EvidenceOf(o, v) /\ evidence[v].system \union evidence[v].risk # {} => EvidencesTenant(v) = {o}
<1>1. ASSUME NEW c \in Action, ActionOf(o, c), action[c].risk \union action[c].incident # {}
      PROVE  ActionsTenant(c) = {o}
  BY <1>1 DEF ActionsTenant, ActionOf
<1>2. ASSUME NEW v \in Evidence, EvidenceOf(o, v), evidence[v].system \union evidence[v].risk # {}
      PROVE  EvidencesTenant(v) = {o}
  <2>1. evidence[v].system \in AtMostOne(AISystem)
    BY DEF RecordsTypes, EvidenceRow
  <2>2. evidence[v].system # {} => Tenants(evidence[v].system) = {o}
    BY <1>2, <2>1, OneTenant DEF EvidenceOf
  <2> QED
    BY <1>2, <2>2 DEF EvidencesTenant, EvidenceOf
<1> QED
  BY <1>1, <1>2

LEMMA CreateActionStep ==
    ASSUME RecordsInv, DebtsFit, NEW h \in Handler, NEW m \in Member, NEW c \in Action, CreateAction(h, m, c)
    PROVE  RightStep
<1>1. PICK risks \in AtMostOne(Risk), incidents \in AtMostOne(Incident) :
          /\ risks # {} \/ incidents # {}
          /\ Links(Home[m], risks, incidents)
          /\ action' = [action EXCEPT ![c].risk = risks, ![c].incident = incidents]
  BY DEF CreateAction
<1>2. /\ action[c].risk \union action[c].incident = {}
      /\ Creates(h, m, ActionsTenant(c)')
      /\ UNCHANGED <<stage, handling, together, risk, incident, evidence>>
  BY DEF CreateAction, Creates
<1>3. /\ action \in [Action -> ActionRow]
      /\ \A x \in Action \ {c} : action'[x] = action[x]
      /\ action'[c].risk = risks /\ action'[c].incident = incidents
  BY <1>1 DEF RecordsInv, RecordsTypes, ActionRow
<1>4. action' \in [Action -> ActionRow]
  <2>1. action'[c] = [action[c] EXCEPT !.risk = risks, !.incident = incidents] /\ action[c] \in ActionRow
    BY <1>1, <1>3
  <2>2. action'[c] \in ActionRow
    BY <2>1 DEF ActionRow
  <2>3. action' = [x \in Action |-> action'[x]]
    BY <1>1, <1>3
  <2> QED
    BY <1>3, <2>2, <2>3
<1>5. RecordsTypes'
  BY <1>2, <1>4 DEF RecordsInv, RecordsTypes
<1>6. Kept
  BY <1>2 DEF Kept
<1>7. ActionOf(Home[m], c)' /\ Home[m] \in Company
  BY <1>1, <1>2, <1>3, RecordsAssumption DEF Links, OwnRisk, OwnIncident, ActionOf
<1>8. owed[h] = {} /\ owed'[h] = {[org |-> Home[m], by |-> m]} /\ DebtsMove
  <2>1. ActionsTenant(c)' = {Home[m]}
    <3>1. risks \union incidents # {}
      BY <1>1
    <3>2. /\ \A k \in risks : Tenants(risk'[k].system) = {Home[m]}
          /\ \A n \in incidents : Tenants(incident'[n].system) = {Home[m]}
      BY <1>3, <1>7 DEF ActionOf
    <3> QED
      BY <1>3, <3>1, <3>2 DEF ActionsTenant
  <2>2. Creates(h, m, {Home[m]})
    BY <1>2, <2>1
  <2> QED
    BY <2>2, CreatesWhat
<1>9. RecordsInv'
  <2>1. \A x \in Action :
           \/ action'[x].risk = action[x].risk /\ action'[x].incident = action[x].incident
           \/ action[x].risk \union action[x].incident = {} /\ \E o : ActionOf(o, x)'
    BY <1>2, <1>3, <1>7
  <2>2. /\ \A v \in Evidence : evidence'[v] = evidence[v]
        /\ \A k \in Risk : risk'[k].level = risk[k].level /\ risk'[k].deleted = risk[k].deleted
        /\ \A g \in Handler : handling'[g] = handling[g]
    BY <1>2
  <2> QED
    BY <1>5, <1>6, <2>1, <2>2, InvKept
<1>10. ScoresMove
  <2>1. \A k \in action[c].risk \union action'[c].risk : Tenants(risk'[k].system) = {Home[m]}
    BY <1>2, <1>7 DEF ActionOf
  <2> QED
    BY <1>2, <1>3, <1>5, <1>8, <2>1, OwnWork
<1> QED
  BY <1>2, <1>8, <1>9, <1>10, RisksStay DEF RightStep

LEMMA CreateEvidenceStep ==
    ASSUME RecordsInv, DebtsFit, NEW h \in Handler, NEW m \in Member, NEW v \in Evidence, CreateEvidence(h, m, v)
    PROVE  RightStep
<1>1. PICK systems \in AtMostOne(AISystem), risks \in AtMostOne(Risk) :
          /\ systems # {} \/ risks # {}
          /\ \A s \in systems : OwnerOf[s] = Home[m]
          /\ \A k \in risks : Tenants(risk[k].system) = {Home[m]}
          /\ evidence' = [evidence EXCEPT ![v].system = systems, ![v].risk = risks]
  BY DEF CreateEvidence, OwnSystem, OwnRisk
<1>2. /\ Creates(h, m, EvidencesTenant(v)')
      /\ UNCHANGED <<stage, handling, together, risk, incident, action>>
  BY DEF CreateEvidence, Creates
<1>3. /\ evidence \in [Evidence -> EvidenceRow]
      /\ \A x \in Evidence \ {v} : evidence'[x] = evidence[x]
      /\ evidence'[v].system = systems /\ evidence'[v].risk = risks
  BY <1>1 DEF RecordsInv, RecordsTypes, EvidenceRow
<1>4. evidence' \in [Evidence -> EvidenceRow]
  BY <1>1, <1>3 DEF EvidenceRow
<1>5. RecordsTypes'
  BY <1>2, <1>4 DEF RecordsInv, RecordsTypes
<1>6. Kept
  BY <1>2 DEF Kept
<1>7. EvidenceOf(Home[m], v)' /\ Home[m] \in Company
  BY <1>1, <1>2, <1>3, RecordsAssumption DEF EvidenceOf
<1>8. RecordsInv'
  BY <1>2, <1>3, <1>5, <1>6, <1>7, InvKept
<1>9. DebtsMove
  <2>1. systems \union risks # {}
    BY <1>1
  <2>2. systems # {} => Tenants(systems) = {Home[m]}
    BY <1>1, OneTenant
  <2>3. EvidencesTenant(v)' = {Home[m]}
    BY <1>1, <1>2, <1>3, <2>1, <2>2 DEF EvidencesTenant
  <2> QED
    BY <1>2, <2>3, CreatesWhat
<1> QED
  BY <1>2, <1>5, <1>8, <1>9, ScoresStay DEF RightStep

\* What only leaves a line, or a line to write.
LEMMA OnlyLine ==
    ASSUME RecordsInv, UNCHANGED <<stage, Records, handling, together>>, DebtsMove
    PROVE  RightStep
<1>1. RecordsTypes'
  BY DEF RecordsInv, RecordsTypes, Records
<1>2. Kept
  BY DEF Kept, Records
<1>3. RecordsInv'
  BY <1>1, <1>2, InvKept DEF Records
<1> QED
  BY <1>1, <1>3, ScoresStay DEF RightStep, Records

LEMMA CreatePolicyStep ==
    ASSUME RecordsInv, DebtsFit, NEW h \in Handler, NEW m \in Member, NEW o \in Company, CreatePolicy(h, m, o)
    PROVE  RightStep
<1>1. /\ Creates(h, m, {o}) /\ (Home[m] = o \/ m \in SuperMember)
      /\ UNCHANGED <<stage, Records, handling, together>>
  BY DEF CreatePolicy, Creates
<1>2. DebtsMove
  BY <1>1, CreatesWhat
<1> QED
  BY <1>1, <1>2, OnlyLine

LEMMA UpdateEvidenceStep ==
    ASSUME RecordsInv, DebtsFit, NEW h \in Handler, NEW m \in Member, NEW v \in Evidence, UpdateEvidence(h, m, v)
    PROVE  RightStep
<1>1. /\ Creates(h, m, EvidencesTenant(v))
      /\ UNCHANGED <<stage, Records, handling, together>> /\ OwnEvidence(Home[m], v)
  BY DEF UpdateEvidence, Creates
<1>2. evidence[v].system \in AtMostOne(AISystem) /\ evidence[v].risk \in AtMostOne(Risk)
  BY DEF RecordsInv, RecordsTypes, EvidenceRow
<1>3. PICK o : EvidenceOf(o, v)
  BY DEF RecordsInv, LinksAgree
<1>4. Home[m] = o /\ evidence[v].system \union evidence[v].risk # {}
  BY <1>1, <1>3 DEF OwnEvidence, OwnSystem, OwnRisk, EvidenceOf
<1>5. EvidencesTenant(v) = {Home[m]}
  BY <1>3, <1>4, LinesTenant DEF RecordsInv
<1>6. DebtsMove
  BY <1>1, <1>5, CreatesWhat
<1> QED
  BY <1>1, <1>6, OnlyLine

LEMMA LooksUpStep ==
    ASSUME RecordsInv, DebtsFit, NEW h \in Handler, NEW m \in Member, NEW what, NEW on, NEW set,
           LooksUp(h, m, what, on, set), PlanFits(m, what, {on}, set)
    PROVE  RightStep
<1>1. /\ handling' = [handling EXCEPT ![h] = [by |-> {m}, what |-> what, on |-> {on}, set |-> set]]
      /\ line' = {} /\ owed' = owed /\ owed[h] = {}
      /\ UNCHANGED <<stage, risk, incident, action, evidence, together>>
  BY DEF LooksUp, Records, Idle
<1>2. RecordsTypes'
  BY <1>1 DEF RecordsInv, RecordsTypes
<1>3. Kept
  BY <1>1 DEF Kept
<1>4. /\ handling'[h].by = {m} /\ handling'[h].what = what /\ handling'[h].on = {on} /\ handling'[h].set = set
      /\ \A g \in Handler \ {h} : handling'[g] = handling[g]
  BY <1>1 DEF RecordsInv, RecordsTypes
<1>5. PlanFits(m, what, {on}, set)'
  BY <1>1 DEF PlanFits, ActionOf
<1>6. HandlingFits(h, m)'
  BY <1>4, <1>5 DEF HandlingFits
<1>7. RecordsInv'
  <2>1. \A k \in Risk : risk'[k].level = risk[k].level /\ risk'[k].deleted = risk[k].deleted
    BY <1>1
  <2>2. /\ \A c \in Action : action'[c].risk = action[c].risk /\ action'[c].incident = action[c].incident
        /\ \A v \in Evidence : evidence'[v] = evidence[v]
    BY <1>1
  <2> DEFINE others == Handler \ {h}
  <2>3. others \in SUBSET Handler /\ Handler \ others = {h}
    OBVIOUS
  <2>4. \A g \in others : handling'[g] = handling[g]
    BY <1>4
  <2> HIDE DEF others
  <2> QED
    BY <1>2, <1>3, <1>6, <2>1, <2>2, <2>3, <2>4, InvKept
<1>8. DebtsMove
  BY <1>1, <1>4, SameDebts DEF DebtsFit
<1> QED
  BY <1>1, <1>2, <1>7, <1>8, ScoresStay DEF RightStep

LEMMA UpdateStep ==
    ASSUME RecordsInv, DebtsFit, NEW h \in Handler, NEW m \in Member
    PROVE  /\ \A k \in Risk : UpdateRisk(h, m, k) \/ DeleteRisk(h, m, k) => RightStep
           /\ \A n \in Incident : UpdateIncident(h, m, n) => RightStep
           /\ \A c \in Action : UpdateAction(h, m, c) => RightStep
<1>1. ASSUME NEW k \in Risk, UpdateRisk(h, m, k) PROVE RightStep
  <2>1. PICK level \in Level :
          /\ risk[k].level = "high" /\ level # "high" => m \in SuperMember
          /\ LooksUp(h, m, "risk", k, Change(risk[k], "level", level))
    BY <1>1 DEF UpdateRisk, Level
  <2>2. risk[k] \in RiskRow /\ Tenants(risk[k].system) = {Home[m]} /\ ~risk[k].deleted
    BY <1>1 DEF UpdateRisk, OwnRisk, RecordsInv, RecordsTypes
  <2> DEFINE set == Change(risk[k], "level", level)
  <2>3. /\ RiskSet(set)
        /\ With(risk[k], set).level = level /\ With(risk[k], set).deleted = risk[k].deleted
    BY <2>2, LevelChange
  <2> HIDE DEF set
  <2>4. PlanFits(m, "risk", {k}, set)
    BY <2>1, <2>2, <2>3 DEF PlanFits, Lowers
  <2> QED
    BY <2>1, <2>4, LooksUpStep DEF set
<1>2. ASSUME NEW k \in Risk, DeleteRisk(h, m, k) PROVE RightStep
  <2>1. /\ risk[k].level = "high" => m \in SuperMember
        /\ LooksUp(h, m, "risk", k, Change(risk[k], "deleted", TRUE))
        /\ Tenants(risk[k].system) = {Home[m]}
    BY <1>2 DEF DeleteRisk, MayDelete, OwnRisk
  <2>2. RiskSet(Change(risk[k], "deleted", TRUE))
    BY DeletedChange DEF RecordsInv, RecordsTypes
  <2>3. PlanFits(m, "risk", {k}, Change(risk[k], "deleted", TRUE))
    BY <2>1, <2>2 DEF PlanFits, Lowers
  <2> QED
    BY <2>1, <2>3, LooksUpStep
<1>3. ASSUME NEW n \in Incident, UpdateIncident(h, m, n) PROVE RightStep
  <2>1. PICK status \in {"open", "closed"} : LooksUp(h, m, "incident", n, Change(incident[n], "status", status))
    BY <1>3 DEF UpdateIncident
  <2>2. Tenants(incident[n].system) = {Home[m]} /\ StatusSet(Change(incident[n], "status", status))
    BY <1>3, StatusChange DEF UpdateIncident, OwnIncident
  <2>3. PlanFits(m, "incident", {n}, Change(incident[n], "status", status))
    BY <2>2 DEF PlanFits
  <2> QED
    BY <2>1, <2>3, LooksUpStep
<1>4. ASSUME NEW c \in Action, UpdateAction(h, m, c) PROVE RightStep
  <2>1. PICK status \in {"open", "closed"} : LooksUp(h, m, "action", c, Change(action[c], "status", status))
    BY <1>4 DEF UpdateAction
  <2>2. StatusSet(Change(action[c], "status", status))
    BY StatusChange
  <2>3. PICK o : ActionOf(o, c)
    BY DEF RecordsInv, LinksAgree
  <2>4. action[c].risk \union action[c].incident # {} /\ o = Home[m]
    BY <1>4, <2>3 DEF UpdateAction, OwnAction, OwnRisk, OwnIncident, ActionOf
  <2>5. PlanFits(m, "action", {c}, Change(action[c], "status", status))
    BY <2>2, <2>3, <2>4 DEF PlanFits
  <2> QED
    BY <2>1, <2>5, LooksUpStep
<1> QED
  BY <1>1, <1>2, <1>3, <1>4

LEMMA OtherStep ==
    ASSUME RecordsInv, DebtsFit
    PROVE  /\ UNCHANGED recordsVars => RecordsInv' /\ DebtsFit'
           /\ \A h \in Handler : WritesLine(h) \/ Fails(h) => RightStep
           /\ \A s \in AISystem : SystemChanges(s) => RightStep
           /\ \A k \in Risk : Ages(k) => RightStep
<1>1. ASSUME UNCHANGED recordsVars PROVE RecordsInv' /\ DebtsFit'
  <2>1. RecordsTypes' /\ Kept
    BY <1>1 DEF RecordsInv, RecordsTypes, Kept, recordsVars
  <2>2. DebtsFit'
    BY <1>1 DEF DebtsFit, recordsVars
  <2> QED
    BY <1>1, <2>1, <2>2, InvKept DEF recordsVars
<1>5. ASSUME NEW h \in Handler, WritesLine(h) PROVE RightStep
  <2>1. /\ line' = owed[h] /\ owed' = [owed EXCEPT ![h] = {}]
        /\ UNCHANGED <<stage, Records, handling, together>>
    BY <1>5 DEF WritesLine
  <2>2. /\ owed'[h] = {} /\ owed' = [g \in Handler |-> owed'[g]]
        /\ \A g \in Handler \ {h} : owed'[g] = owed[g]
    BY <2>1 DEF DebtsFit
  <2>3. DebtsFit'
    BY <2>1, <2>2 DEF DebtsFit
  <2>4. DebtsMove
    BY <2>1, <2>2, <2>3 DEF DebtsMove, DebtsFit
  <2> QED
    BY <2>1, <2>4, OnlyLine
<1>2. ASSUME NEW h \in Handler, Fails(h) PROVE RightStep
  <2>1. /\ handling' = [handling EXCEPT ![h] = NotHandling] /\ line' = {}
        /\ owed' = [owed EXCEPT ![h] = {}]
        /\ UNCHANGED <<stage, risk, incident, action, evidence, together>>
    BY <1>2 DEF Fails, Records
  <2>2. RecordsTypes' /\ Kept
    BY <2>1 DEF RecordsInv, RecordsTypes, Kept
  <2>3. handling'[h].what = "nothing" /\ \A g \in Handler \ {h} : handling'[g] = handling[g]
    BY <2>1 DEF RecordsInv, RecordsTypes, NotHandling
  <2>4. RecordsInv'
    BY <2>1, <2>2, <2>3, InvKept
  <2>5. /\ owed'[h] = {} /\ owed' = [g \in Handler |-> owed'[g]]
        /\ \A g \in Handler \ {h} : owed'[g] = owed[g]
    BY <2>1 DEF DebtsFit
  <2>6. DebtsFit'
    BY <2>3, <2>5 DEF DebtsFit
  <2>7. DebtsMove
    BY <1>2, <2>1, <2>5, <2>6 DEF DebtsMove
  <2> QED
    BY <2>1, <2>2, <2>4, <2>7, ScoresStay DEF RightStep
<1>3. ASSUME NEW s \in AISystem, SystemChanges(s) PROVE RightStep
  <2>1. PICK new \in {"development", "restricted", "archived"} : stage' = [stage EXCEPT ![s] = new]
    BY <1>3 DEF SystemChanges
  <2>2. line' = {} /\ UNCHANGED <<risk, incident, action, evidence, handling, owed, together>>
    BY <1>3 DEF SystemChanges, Records
  <2>3. RecordsTypes' /\ Kept
    BY <2>1, <2>2 DEF RecordsInv, RecordsTypes, Kept
  <2>4. RecordsInv'
    BY <2>2, <2>3, InvKept
  <2>5. DebtsMove
    BY <2>2, SameDebts DEF DebtsFit
  <2> QED
    BY <2>2, <2>3, <2>4, <2>5, ScoresStay DEF RightStep
<1>4. ASSUME NEW k \in Risk, Ages(k) PROVE RightStep
  <2>1. /\ risk[k].system # {} /\ ~risk[k].aged /\ risk' = [risk EXCEPT ![k].aged = TRUE]
        /\ line' = {} /\ UNCHANGED <<stage, incident, action, evidence, handling, owed, together>>
    BY <1>4 DEF Ages
  <2>2. /\ risk \in [Risk -> RiskRow] /\ risk[k] \in RiskRow
        /\ \A x \in Risk \ {k} : risk'[x] = risk[x]
        /\ risk'[k].system = risk[k].system /\ risk'[k].level = risk[k].level
        /\ risk'[k].deleted = risk[k].deleted /\ risk'[k].aged
    BY <2>1 DEF RecordsInv, RecordsTypes, RiskRow
  <2>3. risk' \in [Risk -> RiskRow]
    BY <2>1, <2>2 DEF RiskRow
  <2>4. RecordsTypes' /\ Kept
    BY <2>1, <2>2, <2>3 DEF RecordsInv, RecordsTypes, Kept
  <2>5. RecordsInv'
    BY <2>1, <2>2, <2>4, InvKept
  <2>6. LoweredRightly
    BY <2>2 DEF LoweredRightly
  <2>7. ASSUME NEW o \in Company, ~RiskAges(o) PROVE IsoScore(o)' = IsoScore(o) /\ Maturity(o)' = Maturity(o)
    <3>1. Tenants(risk[k].system) # {o} /\ Tenants(risk'[k].system) # {o}
      BY <2>1, <2>2, <2>7 DEF RiskAges
    <3> QED
      BY <2>1, <2>2, <2>4, <3>1, SameScores
  <2>8. ScoresMove
    BY <2>7 DEF ScoresMove
  <2>9. DebtsMove
    BY <2>1, SameDebts DEF DebtsFit
  <2> QED
    BY <2>5, <2>6, <2>8, <2>9 DEF RightStep
<1> QED
  BY <1>1, <1>2, <1>3, <1>4, <1>5

\* What every commit does to the requests.
LEMMA WritesWhat ==
    ASSUME RecordsInv, DebtsFit, NEW h \in Handler, NEW x, NEW tenants, NEW m, NEW o, Home[m] = o,
           handling[h].by = {m}, handling[h].what \in {"risk", "incident", "action"},
           tenants = {o}, Writes(h, x, tenants)
    PROVE  /\ handling'[h].what = "nothing" /\ \A g \in Handler \ {h} : handling'[g] = handling[g]
           /\ RequestsShape'
           /\ together \subseteq together'
           /\ \A g \in Handler \ {h} : handling[g].on = {x} => x \in together'
           /\ owed[h] = {} /\ owed'[h] = {[org |-> o, by |-> m]} /\ DebtsMove
           /\ stage' = stage
<1>1. /\ handling' = [handling EXCEPT ![h] = NotHandling]
      /\ together' = together \union {y \in {x} : \E g \in Handler \ {h} : handling[g].on = {x}}
      /\ owed' = [owed EXCEPT ![h] = {[org |-> t, by |-> m] : t \in {o}}] /\ line' = {}
      /\ stage' = stage
  BY DEF Writes, Owes
<1>2. /\ handling'[h] = NotHandling /\ \A g \in Handler \ {h} : handling'[g] = handling[g]
      /\ RequestsShape'
  BY <1>1 DEF RecordsInv, RecordsTypes, RequestsShape
<1>3. {[org |-> t, by |-> m] : t \in {o}} = {[org |-> o, by |-> m]}
  OBVIOUS
<1>4. owed[h] = {} /\ handling'[h].what = "nothing"
  BY <1>2 DEF DebtsFit, NotHandling
<1>5. DebtsMove /\ owed'[h] = {[org |-> o, by |-> m]}
  BY <1>1, <1>2, <1>3, <1>4, NewDebt
<1> QED
  BY <1>1, <1>2, <1>4, <1>5

LEMMA SaveRiskStep ==
    ASSUME RecordsInv, DebtsFit, NEW h \in Handler, NEW k \in Risk, SaveRisk(h, k)
    PROVE  RightStep
<1>1. /\ handling[h].what = "risk" /\ handling[h].on = {k}
      /\ risk' = [risk EXCEPT ![k] = With(risk[k], handling[h].set)]
      /\ Writes(h, k, Tenants(risk[k].system))
      /\ UNCHANGED <<incident, action, evidence>>
  BY DEF SaveRisk
<1>2. PICK m \in Member : HandlingFits(h, m)
  BY <1>1 DEF RecordsInv, HandlersFit
<1>3. /\ Tenants(risk[k].system) = {Home[m]} /\ RiskSet(handling[h].set)
      /\ Lowers(risk[k], With(risk[k], handling[h].set)) => k \in together \/ m \in SuperMember
  BY <1>1, <1>2 DEF HandlingFits, PlanFits
<1>4. /\ handling'[h].what = "nothing" /\ \A g \in Handler \ {h} : handling'[g] = handling[g]
      /\ RequestsShape'
      /\ together \subseteq together'
      /\ \A g \in Handler \ {h} : handling[g].on = {k} => k \in together'
      /\ owed[h] = {} /\ owed'[h] = {[org |-> Home[m], by |-> m]} /\ DebtsMove
      /\ stage' = stage
  BY <1>1, <1>2, <1>3, WritesWhat DEF HandlingFits
<1>6. /\ risk \in [Risk -> RiskRow] /\ risk[k] \in RiskRow
      /\ risk'[k] = With(risk[k], handling[h].set)
      /\ \A x \in Risk \ {k} : risk'[x] = risk[x]
  BY <1>1 DEF RecordsInv, RecordsTypes
<1>7. /\ risk'[k] \in RiskRow
      /\ risk'[k].system = risk[k].system /\ risk'[k].aged = risk[k].aged
  BY <1>3, <1>6, WithRisk
<1>8. risk[k].system # {}
  BY <1>3 DEF Tenants
<1>9. RecordsTypes' /\ Kept
  BY <1>1, <1>4, <1>6, <1>7, <1>8 DEF RecordsInv, RecordsTypes, Kept, RequestsShape
<1>10. RecordsInv'
  <2>1. \A x \in Risk :
           \/ x \in together' \/ risk[x].system = {}
           \/ risk'[x].level = risk[x].level /\ risk'[x].deleted = risk[x].deleted
           \/ \A g \in Handler \ {h} : handling[g].on # {x}
    BY <1>4, <1>6
  <2> DEFINE others == Handler \ {h}
  <2>2. /\ others \in SUBSET Handler /\ \A g \in others : handling'[g] = handling[g]
        /\ \A g \in Handler \ others : handling'[g].what = "nothing"
    BY <1>4
  <2>3. \A x \in Risk :
           \/ x \in together' \/ risk[x].system = {}
           \/ risk'[x].level = risk[x].level /\ risk'[x].deleted = risk[x].deleted
           \/ \A g \in others : handling[g].on # {x}
    BY <2>1
  <2>4. /\ \A c \in Action : action'[c].risk = action[c].risk /\ action'[c].incident = action[c].incident
        /\ \A v \in Evidence : evidence'[v] = evidence[v]
    BY <1>1
  <2> HIDE DEF others
  <2> QED
    BY <1>9, <2>2, <2>3, <2>4, InvKept
<1>11. LoweredRightly
  <2>1. \A x \in Risk \ {k} : risk'[x].level = risk[x].level /\ risk'[x].deleted = risk[x].deleted
    BY <1>6
  <2>2. m \in SuperMember => \E g \in Handler : \E w \in owed'[g] \ owed[g] : w.by \in SuperMember
    <3>1. /\ [org |-> Home[m], by |-> m] \in owed'[h] \ owed[h]
          /\ [org |-> Home[m], by |-> m].by = m
      BY <1>4
    <3> QED
      BY <3>1
  <2>3. Lowers(risk[k], risk'[k]) => k \in together \/ \E g \in Handler : \E w \in owed'[g] \ owed[g] : w.by \in SuperMember
    BY <1>3, <1>6, <2>2
  <2>4. risk[k].level = "high" /\ ~risk[k].deleted /\ (risk'[k].level # "high" \/ risk'[k].deleted) =>
            Lowers(risk[k], risk'[k])
    BY DEF Lowers
  <2> QED
    BY <2>1, <2>3, <2>4 DEF LoweredRightly
<1>12. ScoresMove
  <2>1. \A o : Tenants(risk'[k].system) = {o} \/ Tenants(risk[k].system) = {o} => o = Home[m]
    BY <1>3, <1>7
  <2>2. \A x \in Risk :
           risk'[x] = risk[x] \/ \A o : Tenants(risk'[x].system) = {o} \/ Tenants(risk[x].system) = {o} => o = Home[m]
    BY <1>6, <2>1
  <2> QED
    BY <1>1, <1>4, <1>9, <2>2, OwnWork
<1> QED
  BY <1>4, <1>10, <1>11, <1>12 DEF RightStep

LEMMA SaveIncidentStep ==
    ASSUME RecordsInv, DebtsFit, NEW h \in Handler, NEW n \in Incident, SaveIncident(h, n)
    PROVE  RightStep
<1>1. /\ handling[h].what = "incident" /\ handling[h].on = {n}
      /\ incident' = [incident EXCEPT ![n] = With(incident[n], handling[h].set)]
      /\ Writes(h, n, Tenants(incident[n].system))
      /\ UNCHANGED <<risk, action, evidence>>
  BY DEF SaveIncident
<1>2. PICK m \in Member : HandlingFits(h, m)
  BY <1>1 DEF RecordsInv, HandlersFit
<1>3. Tenants(incident[n].system) = {Home[m]} /\ StatusSet(handling[h].set)
  BY <1>1, <1>2 DEF HandlingFits, PlanFits
<1>4. /\ handling'[h].what = "nothing" /\ \A g \in Handler \ {h} : handling'[g] = handling[g]
      /\ RequestsShape'
      /\ together \subseteq together'
      /\ \A g \in Handler \ {h} : handling[g].on = {n} => n \in together'
      /\ owed[h] = {} /\ owed'[h] = {[org |-> Home[m], by |-> m]} /\ DebtsMove
      /\ stage' = stage
  BY <1>1, <1>2, <1>3, WritesWhat DEF HandlingFits
<1>6. /\ incident \in [Incident -> IncidentRow] /\ incident[n] \in IncidentRow
      /\ incident'[n] = With(incident[n], handling[h].set)
      /\ \A x \in Incident \ {n} : incident'[x] = incident[x]
  BY <1>1 DEF RecordsInv, RecordsTypes
<1>7. incident'[n] \in IncidentRow /\ \A x \in Incident : incident'[x].system = incident[x].system
  BY <1>3, <1>6, WithIncident
<1>8. RecordsTypes' /\ Kept
  BY <1>1, <1>4, <1>6, <1>7 DEF RecordsInv, RecordsTypes, Kept, RequestsShape
<1>9. RecordsInv'
  BY <1>1, <1>4, <1>8, InvKept
<1>10. ScoresMove
  BY <1>1, <1>4, <1>7, <1>8, OwnWork
<1> QED
  BY <1>1, <1>4, <1>9, <1>10, RisksStay DEF RightStep

LEMMA SaveActionStep ==
    ASSUME RecordsInv, DebtsFit, NEW h \in Handler, NEW c \in Action, SaveAction(h, c)
    PROVE  RightStep
<1>1. /\ handling[h].what = "action" /\ handling[h].on = {c}
      /\ action' = [action EXCEPT ![c] = With(action[c], handling[h].set)]
      /\ Writes(h, c, ActionsTenant(c))
      /\ UNCHANGED <<risk, incident, evidence>>
  BY DEF SaveAction
<1>2. PICK m \in Member : HandlingFits(h, m)
  BY <1>1 DEF RecordsInv, HandlersFit
<1>3. ActionOf(Home[m], c) /\ action[c].risk \union action[c].incident # {} /\ StatusSet(handling[h].set)
  BY <1>1, <1>2 DEF HandlingFits, PlanFits
<1>4. ActionsTenant(c) = {Home[m]}
  BY <1>3, LinesTenant DEF RecordsInv
<1>5. /\ handling'[h].what = "nothing" /\ \A g \in Handler \ {h} : handling'[g] = handling[g]
      /\ RequestsShape'
      /\ together \subseteq together'
      /\ \A g \in Handler \ {h} : handling[g].on = {c} => c \in together'
      /\ owed[h] = {} /\ owed'[h] = {[org |-> Home[m], by |-> m]} /\ DebtsMove
      /\ stage' = stage
  BY <1>1, <1>2, <1>4, WritesWhat DEF HandlingFits
<1>7. /\ action \in [Action -> ActionRow] /\ action[c] \in ActionRow
      /\ action'[c] = With(action[c], handling[h].set)
      /\ \A x \in Action \ {c} : action'[x] = action[x]
  BY <1>1 DEF RecordsInv, RecordsTypes
<1>8. /\ action'[c] \in ActionRow
      /\ \A x \in Action : action'[x].risk = action[x].risk /\ action'[x].incident = action[x].incident
  BY <1>3, <1>7, WithAction
<1>9. RecordsTypes' /\ Kept
  BY <1>1, <1>5, <1>7, <1>8 DEF RecordsInv, RecordsTypes, Kept, RequestsShape
<1>10. RecordsInv'
  BY <1>1, <1>5, <1>8, <1>9, InvKept
<1>11. ScoresMove
  <2>1. \A k \in action[c].risk \union action'[c].risk : Tenants(risk'[k].system) = {Home[m]}
    BY <1>1, <1>3, <1>8 DEF ActionOf
  <2> QED
    BY <1>1, <1>5, <1>7, <1>9, <2>1, OwnWork
<1> QED
  BY <1>1, <1>5, <1>10, <1>11, RisksStay DEF RightStep

LEMMA RecordsStep ==
    RecordsInv /\ DebtsFit /\ [RecordsNext]_recordsVars =>
        RecordsInv' /\ DebtsFit' /\ (RightStep \/ UNCHANGED recordsVars)
<1> SUFFICES ASSUME RecordsInv, DebtsFit, [RecordsNext]_recordsVars
             PROVE  RecordsInv' /\ DebtsFit' /\ (RightStep \/ UNCHANGED recordsVars)
  OBVIOUS
<1>1. CASE UNCHANGED recordsVars
  BY <1>1, OtherStep
<1>2. CASE RecordsNext
  <2>1. RightStep
    BY <1>2, OtherStep, UpdateStep, CreateRiskStep, CreateIncidentStep, CreateActionStep, CreateEvidenceStep,
       CreatePolicyStep, UpdateEvidenceStep, SaveRiskStep, SaveIncidentStep, SaveActionStep DEF RecordsNext
  <2> QED
    BY <2>1 DEF RightStep, DebtsMove
<1> QED
  BY <1>1, <1>2

LEMMA RecordsInitInv == RecordsInit => RecordsInv /\ DebtsFit
<1> SUFFICES ASSUME RecordsInit PROVE RecordsInv /\ DebtsFit
  OBVIOUS
<1>1. {} \in AtMostOne(AISystem) /\ {} \in AtMostOne(Risk) /\ {} \in AtMostOne(Incident)
  BY DEF AtMostOne
<1>2. RecordsTypes
  BY <1>1 DEF RecordsInit, RecordsTypes, NoRecord, RiskRow, IncidentRow, ActionRow, EvidenceRow, Level
<1>3. /\ \A o : \A c \in Action : ActionOf(o, c)
      /\ \A o : \A v \in Evidence : EvidenceOf(o, v)
  BY DEF RecordsInit, ActionOf, EvidenceOf
<1> QED
  BY <1>2, <1>3 DEF RecordsInit, RecordsInv, LinksAgree, HandlersFit, NotHandling, DebtsFit

-----------------------------------------------------------------------------
(* Theorems. *)

LEMMA RecordsInvariance == RecordsSpec => [](RecordsInv /\ DebtsFit)
BY RecordsInitInv, RecordsStep, PTL DEF RecordsSpec

\* What a tenant's users are shown they can change, and what they can change they are shown,
\* but for what hangs on archived systems.
THEOREM ShownIsChangeable == RecordsSpec => []WhatIsShownCanBeChanged
<1>1. RecordsInv => WhatIsShownCanBeChanged
  BY ShownAndChanged DEF RecordsInv
<1> QED
  BY <1>1, RecordsInvariance, PTL

\* A high risk is lowered or deleted by a super-admin only, unless two requests overlapped on it.
THEOREM HighRisksAreLoweredRightly == RecordsSpec => HighRiskNeedsSuperAdmin
<1>1. RecordsInv /\ DebtsFit /\ [RecordsNext]_recordsVars => [LoweredRightly]_recordsVars
  BY RecordsStep DEF RightStep
<1> QED
  BY <1>1, RecordsInvariance, PTL DEF RecordsSpec, HighRiskNeedsSuperAdmin, LoweredRightly

\* What changes the score or the maturity of a tenant is time, its systems, or a commit of one of
\* its own users, who owes a line to its chain until it is written or the request fails.
THEOREM ScoresAreExplained == RecordsSpec => ScoresFollowTheTrail
<1>1. RecordsInv /\ DebtsFit /\ [RecordsNext]_recordsVars => [ScoresExplained]_recordsVars
  BY RecordsStep DEF RightStep, ScoresMove, DebtsMove, ScoresExplained
<1> QED
  BY <1>1, RecordsInvariance, PTL DEF RecordsSpec, ScoresFollowTheTrail, ScoresExplained, OwnCommit, RiskAges

-----------------------------------------------------------------------------
(* Users, passwords and administrators. *)

UserRow == [exists : BOOLEAN, active : BOOLEAN, failed : Nat, lockedUntil : Nat, mustChange : BOOLEAN]
VisitRow == [what : {"nothing", "login", "change", "deactivate", "reset"}, by : SUBSET Person, on : SUBSET Person,
             powers : BOOLEAN, right : BOOLEAN, loaded : UserRow]

AccessTypes ==
    /\ user \in [Person -> UserRow]
    /\ tokens \in SUBSET [user : Person, mfa : BOOLEAN]
    /\ visit \in [Visit -> VisitRow]
    /\ tick \in Nat /\ wrong \in [Person -> Nat] /\ mixed \in SUBSET Person

\* A request in flight is on one user, who exists; who does not exist was not guessed at.
VisitsOnUsers ==
    /\ \A v \in Visit :
          \/ visit[v].what = "nothing" /\ visit[v].on = {}
          \/ visit[v].what # "nothing" /\ \E u \in Person : visit[v].on = {u} /\ user[u].exists
    /\ \A u \in Person : ~user[u].exists => wrong[u] = 0

\* Who is about to be deactivated by an administrator of the tenant is not its last one.
AnotherAdmin(v, u) ==
    visit[v].what = "deactivate" /\ visit[v].on = {u} /\ ~visit[v].powers /\ u \notin mixed =>
        \E a \in Admins(TenantOf[u]) : a # u

\* As long as no requests overlapped on a user, what was loaded is what is there, nobody who is
\* locked is being guessed at, and the counter counts the guesses until the lock.
CountedAlone(u) ==
    u \notin mixed =>
        /\ \A v \in Visit :
              visit[v].on = {u} =>
                  /\ visit[v].loaded = user[u]
                  /\ visit[v].what \in {"login", "change"} => ~Locked(user[u])
        /\ user[u].failed < MaxFailed => wrong[u] <= user[u].failed
        /\ user[u].failed >= MaxFailed /\ ~Locked(user[u]) => wrong[u] = 0
        /\ wrong[u] <= MaxFailed

\* A guess on its way.
Guessing(v, u) == visit[v].what \in {"login", "change"} /\ visit[v].on = {u} /\ ~visit[v].right

Capped(n) == IF n < MaxFailed THEN n ELSE MaxFailed - 1
Least(m, n) == IF m < n THEN m ELSE n

\* Twice the sum 1 + ... + n.
Twice(n) == n * (n + 1)

\* How many guesses w there may have been when the counter is at f ...
RoomIdle(w, f) == 2 * w + Twice(MaxFailed - Capped(f)) <= Twice(MaxFailed)

\* ... and another guess is on its way that has loaded a ...
RoomOne(w, f, a) ==
    2 * w + 2 * (MaxFailed - Capped(f)) + Twice(MaxFailed - Least(Capped(a), Capped(f)) - 1) <= Twice(MaxFailed)

\* ... or two that have loaded a and b, of which the first commits first.
RoomTwo(w, a, b) ==
    2 * w + 2 * (MaxFailed - Capped(a)) + Twice(MaxFailed - Least(Capped(b), Capped(a) + 1) - 1) <= Twice(MaxFailed)

\* With a lock, only what is on its way can still guess.
Room(u) ==
    LET f == user[u].failed
        w == wrong[u]
        Loaded(v) == visit[v].loaded.failed
    IN
    /\ ~Locked(user[u]) =>
          /\ RoomIdle(w, f)
          /\ \A v \in Visit : Guessing(v, u) => RoomOne(w, f, Loaded(v))
          /\ \A v, x \in Visit : v # x /\ Guessing(v, u) /\ Guessing(x, u) => RoomTwo(w, Loaded(v), Loaded(x))
    /\ Locked(user[u]) =>
          /\ 2 * w <= 2 + Twice(MaxFailed)
          /\ \A v \in Visit : Guessing(v, u) => 2 * w + 2 <= 2 + Twice(MaxFailed)
          /\ \A v, x \in Visit : v # x /\ Guessing(v, u) /\ Guessing(x, u) => 2 * w + 4 <= 2 + Twice(MaxFailed)

AccessInv ==
    /\ AccessTypes /\ VisitsOnUsers
    /\ \A u \in Person : CountedAlone(u) /\ \A v \in Visit : AnotherAdmin(v, u)

-----------------------------------------------------------------------------
(* Arithmetic: the room for guesses. *)

LEMMA TwiceFacts ==
    /\ \A n \in Nat : Twice(n) \in Nat /\ Twice(n + 1) = Twice(n) + 2 * n + 2
    /\ \A m, n \in Nat : m <= n => Twice(m) <= Twice(n)
<1>1. ASSUME NEW n \in Nat PROVE Twice(n) \in Nat /\ Twice(n + 1) = Twice(n) + 2 * n + 2
  <2>1. n * (n + 1) \in Nat /\ (n + 1) * (n + 2) = n * (n + 1) + 2 * n + 2
    BY Z3
  <2> QED
    BY <2>1 DEF Twice
<1>2. ASSUME NEW m \in Nat, NEW n \in Nat, m <= n PROVE Twice(m) <= Twice(n)
  <2>1. PICK d \in Nat : n = m + d
    <3>1. n - m \in Nat /\ n = m + (n - m)
      BY <1>2
    <3> QED
      BY <3>1
  <2>2. m * d \in Nat /\ d * d \in Nat
    BY Z3
  <2>3. (m + d) * (m + d + 1) = m * (m + 1) + 2 * (m * d) + d * d + d
    BY Z3
  <2> QED
    BY <2>1, <2>2, <2>3 DEF Twice
<1> QED
  BY <1>1, <1>2

LEMMA CappedFacts ==
    /\ \A n \in Nat : Capped(n) \in Nat /\ Capped(n) <= MaxFailed - 1 /\ (n < MaxFailed => Capped(n) = n)
    /\ \A m, n \in Nat : Least(m, n) \in Nat /\ Least(m, n) <= m /\ Least(m, n) <= n /\ Least(m, n) \in {m, n}
BY AccessAssumption DEF Capped, Least

\* After a right password or a reset there is room for all of them.
LEMMA RoomAtFirst ==
    ASSUME NEW f \in Nat, NEW a \in Nat, NEW b \in Nat
    PROVE  RoomIdle(0, f) /\ RoomOne(0, f, a) /\ RoomTwo(0, a, b)
<1> DEFINE M == MaxFailed
<1>1. M \in Nat /\ M >= 1 /\ M - 1 \in Nat
  BY AccessAssumption
<1>2. Twice(M) = Twice(M - 1) + 2 * M /\ Twice(M) \in Nat /\ Twice(M - 1) \in Nat
  <2>1. Twice((M - 1) + 1) = Twice(M - 1) + 2 * (M - 1) + 2
    BY <1>1, TwiceFacts
  <2> QED
    BY <1>1, <2>1, TwiceFacts
<1>3. /\ Capped(f) \in Nat /\ Capped(f) <= M - 1 /\ Capped(a) \in Nat /\ Capped(a) <= M - 1
      /\ Capped(b) \in Nat /\ Capped(b) <= M - 1
  BY CappedFacts
<1>4. RoomIdle(0, f)
  <2>1. M - Capped(f) \in Nat /\ M - Capped(f) <= M
    BY <1>1, <1>3
  <2>2. Twice(M - Capped(f)) <= Twice(M) /\ Twice(M - Capped(f)) \in Nat
    BY <1>1, <2>1, TwiceFacts
  <2> QED
    BY <1>2, <2>2 DEF RoomIdle
<1>5. ASSUME NEW c \in Nat, c <= M - 1, NEW d \in Nat, d <= M - 1
      PROVE  2 * 0 + 2 * (M - c) + Twice(M - d - 1) <= Twice(M)
  <2>1. M - d - 1 \in Nat /\ M - d - 1 <= M - 1
    BY <1>1, <1>5
  <2>2. Twice(M - d - 1) <= Twice(M - 1) /\ Twice(M - d - 1) \in Nat
    BY <1>1, <2>1, TwiceFacts
  <2> QED
    BY <1>1, <1>2, <1>5, <2>2
<1>6. RoomOne(0, f, a)
  <2>1. Least(Capped(a), Capped(f)) \in Nat /\ Least(Capped(a), Capped(f)) <= M - 1
    BY <1>1, <1>3, CappedFacts
  <2> QED
    BY <1>3, <1>5, <2>1 DEF RoomOne
<1>7. RoomTwo(0, a, b)
  <2>1. Least(Capped(b), Capped(a) + 1) \in Nat /\ Least(Capped(b), Capped(a) + 1) <= M - 1
    BY <1>1, <1>3 DEF Least
  <2> QED
    BY <1>3, <1>5, <2>1 DEF RoomTwo
<1> QED
  BY <1>4, <1>6, <1>7

\* A guess starts from the counter as it is.
LEMMA RoomToStart ==
    ASSUME NEW w \in Nat, NEW f \in Nat, NEW a \in Nat
    PROVE  /\ RoomIdle(w, f) => RoomOne(w, f, f)
           /\ RoomOne(w, f, a) => RoomTwo(w, a, f) /\ RoomTwo(w, f, a)
<1> DEFINE M == MaxFailed  cf == Capped(f)  ca == Capped(a)
<1>1. M \in Nat /\ M >= 1 /\ cf \in Nat /\ cf <= M - 1 /\ ca \in Nat /\ ca <= M - 1
  BY AccessAssumption, CappedFacts
<1>2. ASSUME NEW n \in Nat, n < M PROVE Twice(M - n) = Twice(M - n - 1) + 2 * (M - n) /\ Twice(M - n - 1) \in Nat
  <2>1. M - n - 1 \in Nat /\ (M - n - 1) + 1 = M - n
    BY <1>1, <1>2
  <2>2. Twice((M - n - 1) + 1) = Twice(M - n - 1) + 2 * (M - n - 1) + 2 /\ Twice(M - n - 1) \in Nat
    BY <2>1, TwiceFacts
  <2> QED
    BY <1>1, <2>1, <2>2
<1> HIDE DEF M, cf, ca
<1>3. RoomIdle(w, f) => RoomOne(w, f, f)
  <2>1. Least(cf, cf) = cf
    BY DEF Least
  <2>2. Twice(M - cf) = Twice(M - cf - 1) + 2 * (M - cf) /\ Twice(M - cf - 1) \in Nat
    BY <1>1, <1>2
  <2>3. 2 * w + Twice(M - cf) <= Twice(M) => 2 * w + 2 * (M - cf) + Twice(M - cf - 1) <= Twice(M)
    BY <1>1, <2>2
  <2> QED
    BY <2>1, <2>3 DEF RoomIdle, RoomOne, M, cf
<1>4. ASSUME RoomOne(w, f, a) PROVE RoomTwo(w, a, f) /\ RoomTwo(w, f, a)
  <2>1. 2 * w + 2 * (M - cf) + Twice(M - Least(ca, cf) - 1) <= Twice(M)
    BY <1>4 DEF RoomOne, M, ca, cf
  <2>2. Twice(M) \in Nat
    BY <1>1, TwiceFacts
  <2>3. CASE ca >= cf
    <3>1. Least(ca, cf) = cf /\ Least(cf, ca + 1) = cf
      BY <1>1, <2>3 DEF Least
    <3>2. Twice(M - cf - 1) \in Nat
      BY <1>1, <1>2
    <3>3. 2 * w + 2 * (M - ca) + Twice(M - Least(cf, ca + 1) - 1) <= Twice(M)
      BY <1>1, <2>1, <2>2, <2>3, <3>1, <3>2
    <3>4. Least(ca, cf + 1) \in {cf, cf + 1}
      BY <1>1, <2>3 DEF Least
    <3>5. Twice(M - Least(ca, cf + 1) - 1) <= Twice(M - cf - 1) /\ Twice(M - Least(ca, cf + 1) - 1) \in Nat
      <4>1. CASE Least(ca, cf + 1) = cf
        BY <3>2, <4>1
      <4>2. CASE Least(ca, cf + 1) = cf + 1
        <5>1. ca >= cf + 1
          BY <1>1, <4>2 DEF Least
        <5>2. M - (cf + 1) - 1 \in Nat /\ M - cf - 1 \in Nat /\ M - (cf + 1) - 1 <= M - cf - 1
          BY <1>1, <5>1
        <5> QED
          BY <4>2, <5>2, TwiceFacts
      <4> QED
        BY <3>4, <4>1, <4>2
    <3>6. 2 * w + 2 * (M - cf) + Twice(M - Least(ca, cf + 1) - 1) <= Twice(M)
      BY <1>1, <2>1, <2>2, <3>1, <3>2, <3>5
    <3> QED
      BY <3>3, <3>6 DEF RoomTwo, M, ca, cf
  <2>4. CASE ca < cf
    <3>1. Least(ca, cf) = ca /\ Least(ca, cf + 1) = ca /\ Least(cf, ca + 1) = ca + 1
      BY <1>1, <2>4 DEF Least
    <3>2. Twice(M - ca - 1) = Twice(M - (ca + 1) - 1) + 2 * (M - ca - 1) /\ Twice(M - (ca + 1) - 1) \in Nat
      <4>1. ca + 1 \in Nat /\ ca + 1 < M
        BY <1>1, <2>4
      <4>2. Twice(M - (ca + 1)) = Twice(M - (ca + 1) - 1) + 2 * (M - (ca + 1)) /\ Twice(M - (ca + 1) - 1) \in Nat
        BY <1>2, <4>1
      <4>3. M - (ca + 1) = M - ca - 1
        BY <1>1
      <4> QED
        BY <4>2, <4>3
    <3>3. 2 * w + 2 * (M - ca) + Twice(M - (ca + 1) - 1) <= Twice(M)
      BY <1>1, <2>1, <2>2, <2>4, <3>1, <3>2
    <3>4. 2 * w + 2 * (M - cf) + Twice(M - ca - 1) <= Twice(M)
      BY <2>1, <3>1
    <3> QED
      BY <3>1, <3>3, <3>4 DEF RoomTwo, M, ca, cf
  <2> QED
    BY <1>1, <2>3, <2>4
<1> QED
  BY <1>3, <1>4

\* A guess is counted: it locks, or leaves room for the rest.
LEMMA RoomAfterGuess ==
    ASSUME NEW w \in Nat, NEW f \in Nat, NEW a \in Nat
    PROVE  /\ RoomOne(w, f, a) => 2 * w <= Twice(MaxFailed)
           /\ RoomOne(w, f, a) /\ a + 1 < MaxFailed => RoomIdle(w + 1, a + 1)
           /\ \A b \in Nat : RoomTwo(w, a, b) /\ a + 1 < MaxFailed => RoomIdle(w + 1, a + 1) /\ RoomOne(w + 1, a + 1, b)
           /\ \A b \in Nat : RoomTwo(w, a, b) => 2 * w + 2 <= Twice(MaxFailed)
<1> DEFINE M == MaxFailed  cf == Capped(f)  ca == Capped(a)
<1>1. M \in Nat /\ M >= 1 /\ cf \in Nat /\ cf <= M - 1 /\ ca \in Nat /\ ca <= M - 1
  BY AccessAssumption, CappedFacts
<1>2. ASSUME NEW n \in Nat, n < M PROVE M - n - 1 \in Nat /\ Twice(M - n - 1) \in Nat
  <2>1. M - n - 1 \in Nat
    BY <1>1, <1>2
  <2> QED
    BY <2>1, TwiceFacts
<1>3. Twice(M) \in Nat
  BY <1>1, TwiceFacts
<1>4. ASSUME a + 1 < M PROVE ca = a /\ Capped(a + 1) = a + 1 /\ M - (a + 1) \in Nat
  <2>1. a < M
    BY <1>1, <1>4
  <2> QED
    BY <1>1, <1>4, <2>1 DEF Capped
<1> HIDE DEF M, cf, ca
<1>5. ASSUME RoomOne(w, f, a)
      PROVE  2 * w <= Twice(M) /\ (a + 1 < M => RoomIdle(w + 1, a + 1))
  <2>1. 2 * w + 2 * (M - cf) + Twice(M - Least(ca, cf) - 1) <= Twice(M)
    BY <1>5 DEF RoomOne, M, ca, cf
  <2>2. Least(ca, cf) \in Nat /\ Least(ca, cf) <= ca /\ Least(ca, cf) < M
    BY <1>1 DEF Least
  <2>3. Twice(M - Least(ca, cf) - 1) \in Nat
    BY <1>2, <2>2
  <2>4. 2 * w + 2 + Twice(M - Least(ca, cf) - 1) <= Twice(M)
    BY <1>1, <1>3, <2>1, <2>3
  <2>5. ASSUME a + 1 < M PROVE RoomIdle(w + 1, a + 1)
    <3>1. M - (a + 1) <= M - Least(ca, cf) - 1 /\ M - Least(ca, cf) - 1 \in Nat
      BY <1>1, <1>4, <2>2, <2>5
    <3>2. Twice(M - (a + 1)) <= Twice(M - Least(ca, cf) - 1) /\ Twice(M - (a + 1)) \in Nat
      BY <1>4, <2>5, <3>1, TwiceFacts
    <3>3. 2 * (w + 1) + Twice(M - (a + 1)) <= Twice(M)
      BY <1>3, <2>3, <2>4, <3>2
    <3> QED
      BY <1>4, <2>5, <3>3 DEF RoomIdle, M
  <2> QED
    BY <1>3, <2>3, <2>4, <2>5
<1>6. ASSUME NEW b \in Nat, RoomTwo(w, a, b)
      PROVE  /\ a + 1 < M => RoomIdle(w + 1, a + 1) /\ RoomOne(w + 1, a + 1, b)
             /\ 2 * w + 2 <= Twice(M)
  <2> DEFINE cb == Capped(b)
  <2>1. cb \in Nat /\ cb <= M - 1
    BY CappedFacts DEF M
  <2> HIDE DEF cb
  <2>2. 2 * w + 2 * (M - ca) + Twice(M - Least(cb, ca + 1) - 1) <= Twice(M)
    BY <1>6 DEF RoomTwo, M, ca, cb
  <2>3. Least(cb, ca + 1) \in Nat /\ Least(cb, ca + 1) <= ca + 1 /\ Least(cb, ca + 1) < M
    BY <1>1, <2>1 DEF Least
  <2>4. Twice(M - Least(cb, ca + 1) - 1) \in Nat
    BY <1>2, <2>3
  <2>5. 2 * w + 2 <= Twice(M)
    BY <1>1, <1>3, <2>2, <2>4
  <2>6. ASSUME a + 1 < M PROVE RoomIdle(w + 1, a + 1) /\ RoomOne(w + 1, a + 1, b)
    <3>1. 2 * (w + 1) + 2 * (M - (a + 1)) + Twice(M - Least(cb, a + 1) - 1) <= Twice(M)
      BY <1>1, <1>3, <1>4, <2>2, <2>4, <2>6
    <3>2. RoomOne(w + 1, a + 1, b)
      BY <1>4, <2>6, <3>1 DEF RoomOne, M, cb
    <3>3. Least(cb, a + 1) \in {cb, a + 1} /\ (Least(cb, a + 1) = cb => cb <= a + 1)
      BY <1>1, <2>1 DEF Least
    <3>4. Twice(M - (a + 1)) <= 2 * (M - (a + 1)) + Twice(M - Least(cb, a + 1) - 1) /\ Twice(M - (a + 1)) \in Nat
      <4>1. CASE Least(cb, a + 1) = cb /\ cb < a + 1
        <5>1. M - (a + 1) \in Nat /\ M - cb - 1 \in Nat /\ M - (a + 1) <= M - cb - 1
          BY <1>1, <1>4, <2>1, <2>6, <4>1
        <5>2. Twice(M - (a + 1)) <= Twice(M - cb - 1) /\ Twice(M - (a + 1)) \in Nat /\ Twice(M - cb - 1) \in Nat
          BY <5>1, TwiceFacts
        <5> QED
          BY <1>1, <4>1, <5>1, <5>2
      <4>2. CASE Least(cb, a + 1) = a + 1
        <5> DEFINE n == M - (a + 1) - 1
        <5>1. n \in Nat /\ M - (a + 1) = n + 1
          BY <1>1, <2>6
        <5>2. Twice(n + 1) = Twice(n) + 2 * n + 2 /\ Twice(n) \in Nat /\ Twice(n + 1) \in Nat
          BY <5>1, TwiceFacts
        <5>3. Twice(M - (a + 1)) = Twice(M - (a + 1) - 1) + 2 * (M - (a + 1))
          BY <5>1, <5>2
        <5> QED
          BY <4>2, <5>1, <5>2, <5>3
      <4> QED
        BY <2>1, <3>3, <4>1, <4>2
    <3>5. 2 * (w + 1) + Twice(M - (a + 1)) <= Twice(M)
      <4>1. Twice(M - Least(cb, a + 1) - 1) \in Nat
        BY <1>4, <2>4, <2>6
      <4> QED
        BY <1>1, <1>3, <3>1, <3>4, <4>1
    <3> QED
      BY <1>4, <2>6, <3>2, <3>5 DEF RoomIdle, M
  <2> QED
    BY <2>5, <2>6
<1> QED
  BY <1>5, <1>6 DEF M

-----------------------------------------------------------------------------
(* Requests, one at a time or many. *)

LEMMA NewRows ==
    NewUser \in UserRow /\ NotVisiting \in VisitRow /\ NotVisiting.on = {} /\ NotVisiting.what = "nothing"
BY DEF NewUser, NotVisiting, UserRow, VisitRow

LEMMA AccessInitInv == AccessInit => AccessInv /\ \A u \in Person : Room(u)
<1> SUFFICES ASSUME AccessInit PROVE AccessInv /\ \A u \in Person : Room(u)
  OBVIOUS
<1>1. /\ tokens = {} /\ tick = 1 /\ mixed = {}
      /\ visit = [v \in Visit |-> NotVisiting] /\ wrong = [u \in Person |-> 0]
      /\ user \in [Person -> {NewUser, [NewUser EXCEPT !.exists = FALSE], [NewUser EXCEPT !.mustChange = TRUE]}]
  BY DEF AccessInit
<1>2. /\ NewUser \in UserRow /\ [NewUser EXCEPT !.exists = FALSE] \in UserRow
      /\ [NewUser EXCEPT !.mustChange = TRUE] \in UserRow
      /\ \A u \in Person : user[u].failed = 0 /\ user[u].lockedUntil = 0
  <2> DEFINE Rows == {NewUser, [NewUser EXCEPT !.exists = FALSE], [NewUser EXCEPT !.mustChange = TRUE]}
  <2>1. \A rec \in Rows : rec \in UserRow /\ rec.failed = 0 /\ rec.lockedUntil = 0
    <3>1. \A rec \in Rows : rec.failed = NewUser.failed /\ rec.lockedUntil = NewUser.lockedUntil
      BY DEF NewUser
    <3>2. \A rec \in Rows : rec \in UserRow
      <4>1. NewUser \in UserRow
        BY DEF NewUser, UserRow
      <4>2. [NewUser EXCEPT !.exists = FALSE] \in UserRow /\ [NewUser EXCEPT !.mustChange = TRUE] \in UserRow
        BY <4>1 DEF UserRow
      <4> QED
        BY <4>1, <4>2
    <3>3. NewUser.failed = 0 /\ NewUser.lockedUntil = 0
      BY DEF NewUser
    <3> QED
      BY <3>1, <3>2, <3>3
  <2>2. \A u \in Person : user[u] \in Rows
    BY <1>1
  <2> QED
    BY <2>1, <2>2
<1>3. AccessTypes
  <2>1. user \in [Person -> UserRow]
    BY <1>1, <1>2
  <2> QED
    BY <1>1, <2>1, NewRows DEF AccessTypes
<1>4. \A v \in Visit : visit[v].what = "nothing" /\ visit[v].on = {}
  BY <1>1, NewRows
<1>5. VisitsOnUsers
  BY <1>1, <1>4 DEF VisitsOnUsers
<1>6. ASSUME NEW u \in Person PROVE CountedAlone(u) /\ (\A v \in Visit : AnotherAdmin(v, u)) /\ Room(u)
  <2>1. CountedAlone(u) /\ \A v \in Visit : AnotherAdmin(v, u)
    BY <1>1, <1>2, <1>4, AccessAssumption DEF CountedAlone, AnotherAdmin
  <2>2. \A v \in Visit : ~Guessing(v, u)
    BY <1>4 DEF Guessing
  <2>3. RoomIdle(0, 0)
    BY RoomAtFirst
  <2>4. ~Locked(user[u])
    BY <1>1, <1>2 DEF Locked
  <2> QED
    BY <1>1, <1>2, <2>1, <2>2, <2>3, <2>4 DEF Room
<1> QED
  BY <1>3, <1>5, <1>6 DEF AccessInv

\* What a commit does to the rest: who else is being visited is no longer alone.
LEMMA CommitsWhat ==
    ASSUME AccessTypes, NEW v \in Visit, NEW u \in Person, NEW rec, visit[v].on = {u}, Commits(v, u, rec)
    PROVE  /\ user'[u] = rec /\ \A y \in Person \ {u} : user'[y] = user[y]
           /\ user' = [user EXCEPT ![u] = rec]
           /\ visit'[v] = NotVisiting /\ \A x \in Visit \ {v} : visit'[x] = visit[x]
           /\ visit' \in [Visit -> VisitRow]
           /\ mixed \subseteq mixed' /\ mixed' \in SUBSET Person
           /\ \A x \in Visit \ {v}, y \in Person : visit[x].on = {y} => y \in mixed' /\ u \in mixed'
           /\ tick' = tick
<1> DEFINE others == UNION {visit[w].on : w \in Visit \ {v}}
<1>1. /\ user' = [user EXCEPT ![u] = rec] /\ visit' = [visit EXCEPT ![v] = NotVisiting] /\ tick' = tick
      /\ mixed' = mixed \union (IF others = {} THEN {} ELSE others \union {u})
  BY DEF Commits
<1>2. others \subseteq Person
  BY DEF AccessTypes, VisitRow
<1>3. \A x \in Visit \ {v}, y \in Person : visit[x].on = {y} => y \in others
  OBVIOUS
<1> HIDE DEF others
<1>4. \A x \in Visit \ {v}, y \in Person : visit[x].on = {y} => y \in mixed' /\ u \in mixed'
  BY <1>1, <1>3
<1>5. mixed \subseteq mixed' /\ mixed' \in SUBSET Person
  BY <1>1, <1>2 DEF AccessTypes
<1> QED
  BY <1>1, <1>4, <1>5, NewRows DEF AccessTypes

\* The counter as long as nobody interfered.
Counts(rec, w) ==
    /\ rec.failed < MaxFailed => w <= rec.failed
    /\ rec.failed >= MaxFailed /\ ~Locked(rec) => w = 0
    /\ w <= MaxFailed

LEMMA CommitInv ==
    ASSUME AccessInv, NEW v \in Visit, NEW u \in Person, NEW rec \in UserRow, visit[v].on = {u}, Commits(v, u, rec),
           rec.exists, tokens' \in SUBSET [user : Person, mfa : BOOLEAN],
           wrong' \in [Person -> Nat], \A y \in Person \ {u} : wrong'[y] = wrong[y],
           u \notin mixed => Counts(rec, wrong'[u])
    PROVE  AccessInv'
<1>1. /\ user'[u] = rec /\ \A y \in Person \ {u} : user'[y] = user[y]
      /\ user' = [user EXCEPT ![u] = rec]
      /\ visit'[v] = NotVisiting /\ \A x \in Visit \ {v} : visit'[x] = visit[x]
      /\ visit' \in [Visit -> VisitRow]
      /\ mixed \subseteq mixed' /\ mixed' \in SUBSET Person
      /\ \A x \in Visit \ {v}, y \in Person : visit[x].on = {y} => y \in mixed' /\ u \in mixed'
      /\ tick' = tick
  BY CommitsWhat DEF AccessInv
<1>2. AccessTypes'
  BY <1>1 DEF AccessInv, AccessTypes
<1>3. visit'[v].on = {} /\ visit'[v].what = "nothing"
  BY <1>1, NewRows
<1>4. VisitsOnUsers'
  <2>1. \A y \in Person : user[y].exists => user'[y].exists
    BY <1>1
  <2>2. \A x \in Visit :
           \/ visit'[x].what = "nothing" /\ visit'[x].on = {}
           \/ visit'[x].what # "nothing" /\ \E y \in Person : visit'[x].on = {y} /\ user'[y].exists
    BY <1>1, <1>3, <2>1 DEF AccessInv, VisitsOnUsers
  <2>3. \A y \in Person : ~user'[y].exists => wrong'[y] = 0
    BY <1>1 DEF AccessInv, VisitsOnUsers
  <2> QED
    BY <2>2, <2>3 DEF VisitsOnUsers
<1>5. ASSUME NEW y \in Person, y \notin mixed' PROVE \A x \in Visit : visit'[x].on # {y}
  BY <1>1, <1>3, <1>5
<1>6. ASSUME NEW y \in Person PROVE CountedAlone(y)' /\ \A x \in Visit : AnotherAdmin(x, y)'
  <2>1. \A x \in Visit : AnotherAdmin(x, y)'
    BY <1>5 DEF AnotherAdmin
  <2>2. CASE y # u
    <3>1. CountedAlone(y) /\ user'[y] = user[y] /\ wrong'[y] = wrong[y]
      BY <1>1, <2>2 DEF AccessInv
    <3> QED
      BY <1>1, <1>5, <2>1, <3>1 DEF CountedAlone, Locked
  <2>3. CASE y = u
    BY <1>1, <1>5, <2>1, <2>3 DEF CountedAlone, Counts, Locked
  <2> QED
    BY <2>2, <2>3
<1> QED
  BY <1>2, <1>4, <1>6 DEF AccessInv

\* Two requests on u at a time at most.
PairsOn(u) ==
    \A v, w, x \in Visit :
        visit[v].on = {u} /\ visit[w].on = {u} /\ visit[x].on = {u} => v = w \/ v = x \/ w = x

\* Whoever was never crowded has two requests at most, and the room for their guesses.
HasRoom(u) == u \notin crowded => PairsOn(u) /\ Room(u)

\* The room of a user who is not written, nor guessed at anew.
LEMMA RoomSame ==
    ASSUME NEW y \in Person, Room(y), user'[y].failed = user[y].failed, wrong'[y] = wrong[y],
           Locked(user[y])' <=> Locked(user[y]),
           \A x \in Visit : Guessing(x, y)' => Guessing(x, y) /\ visit'[x].loaded = visit[x].loaded
    PROVE  Room(y)'
BY DEF Room

LEMMA RoomKept ==
    ASSUME NEW y \in Person, Room(y), user'[y].failed = user[y].failed, user'[y].lockedUntil = user[y].lockedUntil,
           wrong'[y] = wrong[y], tick' = tick,
           \A x \in Visit : Guessing(x, y)' => Guessing(x, y) /\ visit'[x].loaded = visit[x].loaded
    PROVE  Room(y)'
<1>1. Locked(user[y])' <=> Locked(user[y])
  BY DEF Locked
<1> QED
  BY <1>1, RoomSame

\* The room of a user who is not guessed at, or got a new start.
LEMMA RoomFresh ==
    ASSUME AccessInv', NEW y \in Person, wrong'[y] = 0
    PROVE  Room(y)'
<1>1. \A x \in Visit : visit'[x].loaded.failed \in Nat
  BY DEF AccessInv, AccessTypes, VisitRow, UserRow
<1>2. user'[y].failed \in Nat
  BY DEF AccessInv, AccessTypes, UserRow
<1>3. Twice(MaxFailed) \in Nat /\ Twice(MaxFailed) >= 2
  <2>1. MaxFailed - 1 \in Nat /\ MaxFailed = (MaxFailed - 1) + 1
    BY AccessAssumption
  <2>2. Twice((MaxFailed - 1) + 1) = Twice(MaxFailed - 1) + 2 * (MaxFailed - 1) + 2 /\ Twice(MaxFailed - 1) \in Nat
    BY <2>1, TwiceFacts
  <2> QED
    BY <2>1, <2>2
<1>4. RoomIdle(0, user'[y].failed)
  BY <1>2, RoomAtFirst
<1>5. \A x \in Visit : RoomOne(0, user'[y].failed, visit'[x].loaded.failed)
  BY <1>1, <1>2, RoomAtFirst
<1>6. \A x, z \in Visit : RoomTwo(0, visit'[x].loaded.failed, visit'[z].loaded.failed)
  BY <1>1, <1>2, RoomAtFirst
<1> QED
  BY <1>3, <1>4, <1>5, <1>6 DEF Room

\* A wrong password.
LEMMA WrongPasswordStep ==
    ASSUME AccessInv, NEW v \in Visit, NEW u \in Person, WrongPassword(v, u)
    PROVE  /\ AccessInv'
           /\ \A y \in Person : Room(y) /\ PairsOn(y) => Room(y)'
           /\ \A y \in Person : user'[y].active = user[y].active /\ user'[y].exists = user[y].exists
<1> DEFINE a == visit[v].loaded.failed
           until == IF Locks(a + 1) THEN tick + LockPeriod ELSE user[u].lockedUntil
           rec == [user[u] EXCEPT !.failed = a + 1, !.lockedUntil = until]
<1>1. /\ visit[v].what \in {"login", "change"} /\ visit[v].on = {u} /\ ~visit[v].right
      /\ Commits(v, u, rec) /\ wrong' = [wrong EXCEPT ![u] = wrong[u] + 1] /\ tokens' = tokens
  BY DEF WrongPassword
<1>2. /\ user[u] \in UserRow /\ a \in Nat /\ tick \in Nat /\ wrong \in [Person -> Nat] /\ wrong[u] \in Nat
      /\ user[u].exists /\ tick + LockPeriod \in Nat /\ tick + LockPeriod > tick
  <2>1. user[u].exists
    BY <1>1 DEF AccessInv, VisitsOnUsers
  <2> QED
    BY <2>1, AccessAssumption DEF AccessInv, AccessTypes, VisitRow, UserRow
<1>3. /\ rec \in UserRow /\ rec.exists = user[u].exists /\ rec.active = user[u].active
      /\ rec.failed = a + 1
      /\ rec.lockedUntil = IF Locks(a + 1) THEN tick + LockPeriod ELSE user[u].lockedUntil
  <2>1. until \in Nat /\ a + 1 \in Nat
    BY <1>2 DEF UserRow
  <2>2. rec.lockedUntil = until
    BY <1>2 DEF UserRow
  <2> HIDE DEF a, until
  <2>3. /\ rec \in UserRow /\ rec.exists = user[u].exists /\ rec.active = user[u].active
        /\ rec.failed = a + 1
    BY <1>2, <2>1 DEF UserRow
  <2> QED
    BY <2>2, <2>3 DEF until
<1> HIDE DEF rec
<1>4. wrong' \in [Person -> Nat] /\ wrong'[u] = wrong[u] + 1 /\ \A y \in Person \ {u} : wrong'[y] = wrong[y]
  BY <1>1, <1>2
<1>5. ASSUME u \notin mixed PROVE Counts(rec, wrong'[u])
  <2>1. CountedAlone(u)
    BY DEF AccessInv
  <2>2. visit[v].loaded = user[u] /\ ~Locked(user[u])
    BY <1>1, <1>5, <2>1 DEF CountedAlone
  <2>3. a = user[u].failed
    BY <2>2
  <2>4. /\ a < MaxFailed => wrong[u] <= a
        /\ a >= MaxFailed => wrong[u] = 0
    BY <1>5, <2>1, <2>2, <2>3 DEF CountedAlone
  <2>5. MaxFailed \in Nat /\ MaxFailed >= 1
    BY AccessAssumption
  <2> HIDE DEF a
  <2>6. rec.failed >= MaxFailed => Locked(rec)
    BY <1>2, <1>3 DEF Locks, Locked
  <2> QED
    BY <1>2, <1>3, <1>4, <2>4, <2>5, <2>6 DEF Counts
<1>6. AccessInv'
  <2>1. tokens' \in SUBSET [user : Person, mfa : BOOLEAN]
    BY <1>1 DEF AccessInv, AccessTypes
  <2> QED
    BY <1>1, <1>2, <1>3, <1>4, <1>5, <2>1, CommitInv
<1>7. /\ user'[u] = rec /\ \A y \in Person \ {u} : user'[y] = user[y]
      /\ visit'[v] = NotVisiting /\ \A x \in Visit \ {v} : visit'[x] = visit[x]
      /\ tick' = tick
  BY <1>1, CommitsWhat DEF AccessInv
<1>8. \A x \in Visit, y \in Person : Guessing(x, y)' => x # v /\ Guessing(x, y) /\ visit'[x] = visit[x]
  BY <1>7, NewRows DEF Guessing
<1>9. ASSUME NEW y \in Person, Room(y), PairsOn(y) PROVE Room(y)'
  <2>1. CASE y # u
    BY <1>4, <1>7, <1>8, <1>9, <2>1, RoomKept
  <2>2. CASE y = u
    <3> DEFINE w == wrong[u]
               f == user[u].failed
               Loaded(x) == visit[x].loaded.failed
    <3>1. /\ w \in Nat /\ f \in Nat /\ \A x \in Visit : Loaded(x) \in Nat
          /\ MaxFailed \in Nat /\ Twice(MaxFailed) \in Nat /\ Guessing(v, u)
      BY <1>1, <1>2, AccessAssumption, TwiceFacts DEF AccessInv, AccessTypes, VisitRow, UserRow, Guessing
    <3>2. Room(u)
      BY <1>9, <2>2
    <3>3. \A x, z \in Visit : Guessing(x, u)' /\ Guessing(z, u)' => x = z
      BY <1>1, <1>8, <1>9, <2>2 DEF PairsOn, Guessing
    <3>4. CASE ~Locked(user[u])
      <4>1. RoomOne(w, f, a)
        BY <3>1, <3>2, <3>4 DEF Room
      <4>2. \A x \in Visit : Guessing(x, u)' => RoomTwo(w, a, Loaded(x)) /\ visit'[x].loaded.failed = Loaded(x)
        BY <1>8, <3>1, <3>2, <3>4 DEF Room
      <4>3. CASE a + 1 < MaxFailed
        <5>1. RoomIdle(w + 1, a + 1)
          BY <1>2, <3>1, <4>1, <4>3, RoomAfterGuess
        <5>2. \A x \in Visit : Guessing(x, u)' => RoomOne(w + 1, a + 1, visit'[x].loaded.failed)
          BY <1>2, <3>1, <4>2, <4>3, RoomAfterGuess
        <5>3. ~Locked(rec)
          <6>1. rec.lockedUntil = user[u].lockedUntil
            BY <1>2, <1>3, <3>1, <4>3 DEF Locks
          <6> QED
            BY <3>4, <6>1 DEF Locked
        <5>4. ~Locked(user[u])'
          BY <1>7, <5>3 DEF Locked
        <5> HIDE DEF a
        <5> QED
          BY <1>3, <1>4, <1>7, <2>2, <3>3, <5>1, <5>2, <5>4 DEF Room
      <4>4. CASE ~(a + 1 < MaxFailed)
        <5>1. Locked(user[u])'
          <6>1. Locks(a + 1)
            BY <1>2, <3>1, <4>4 DEF Locks
          <6> QED
            BY <1>2, <1>3, <1>7, <6>1 DEF Locked
        <5>2. 2 * (w + 1) <= 2 + Twice(MaxFailed)
          <6>1. 2 * w <= Twice(MaxFailed)
            BY <1>2, <3>1, <4>1, RoomAfterGuess
          <6> HIDE DEF w
          <6> QED
            BY <3>1, <6>1
        <5>3. \A x \in Visit : Guessing(x, u)' => 2 * (w + 1) + 2 <= 2 + Twice(MaxFailed)
          <6> TAKE x \in Visit
          <6> HAVE Guessing(x, u)'
          <6>1. 2 * w + 2 <= Twice(MaxFailed)
            BY <1>2, <3>1, <4>2, RoomAfterGuess
          <6> QED
            BY <3>1, <6>1
        <5> QED
          BY <1>4, <2>2, <3>3, <5>1, <5>2, <5>3 DEF Room
      <4> QED
        BY <4>3, <4>4
    <3>5. CASE Locked(user[u])
      <4>1. Locked(user[u])'
        BY <1>2, <1>3, <1>7, <3>5 DEF Locked
      <4>2. 2 * w + 2 <= 2 + Twice(MaxFailed)
        BY <3>1, <3>2, <3>5 DEF Room
      <4>3. \A x \in Visit : Guessing(x, u)' => 2 * w + 4 <= 2 + Twice(MaxFailed)
        BY <1>8, <3>1, <3>2, <3>5 DEF Room
      <4>4. 2 * (w + 1) <= 2 + Twice(MaxFailed)
        BY <3>1, <4>2
      <4>5. \A x \in Visit : Guessing(x, u)' => 2 * (w + 1) + 2 <= 2 + Twice(MaxFailed)
        BY <3>1, <4>3
      <4> QED
        BY <1>4, <2>2, <3>3, <4>1, <4>4, <4>5 DEF Room
    <3> QED
      BY <3>4, <3>5
  <2> QED
    BY <2>1, <2>2
<1>10. \A y \in Person : user'[y].active = user[y].active /\ user'[y].exists = user[y].exists
  BY <1>3, <1>7
<1> QED
  BY <1>6, <1>9, <1>10
\* What a handler writes that clears the counter and the lock is a row again.
LEMMA ClearedRow ==
    ASSUME AccessTypes, NEW v \in Visit, NEW u \in Person
    PROVE  /\ Cleared(v, user[u]) \in UserRow
           /\ Cleared(v, user[u]).exists = user[u].exists /\ Cleared(v, user[u]).active = user[u].active
<1>1. user[u] \in UserRow /\ visit[v].loaded \in UserRow
  BY DEF AccessTypes, VisitRow
<1> DEFINE rec == user[u]
           failed == IF visit[v].loaded.failed # 0 THEN 0 ELSE rec.failed
           until == IF visit[v].loaded.lockedUntil # 0 THEN 0 ELSE rec.lockedUntil
<1>2. failed \in Nat /\ until \in Nat
  BY <1>1 DEF UserRow
<1>3. Cleared(v, rec) = [[rec EXCEPT !.failed = failed] EXCEPT !.lockedUntil = until]
  BY <1>1 DEF Cleared, UserRow
<1> HIDE DEF failed, until
<1> QED
  BY <1>1, <1>2, <1>3 DEF UserRow

\* A commit that gives the count of guesses a new start.
LEMMA NewStart ==
    ASSUME AccessInv, NEW v \in Visit, NEW u \in Person, NEW rec \in UserRow, visit[v].on = {u}, Commits(v, u, rec),
           rec.exists, rec.active = user[u].active, tokens' \in SUBSET [user : Person, mfa : BOOLEAN],
           wrong' = [wrong EXCEPT ![u] = 0]
    PROVE  /\ AccessInv'
           /\ \A y \in Person : Room(y) /\ PairsOn(y) => Room(y)'
           /\ \A y \in Person : user'[y].active = user[y].active /\ (user[y].exists => user'[y].exists)
<1>1. wrong' \in [Person -> Nat] /\ wrong'[u] = 0 /\ \A y \in Person \ {u} : wrong'[y] = wrong[y]
  BY DEF AccessInv, AccessTypes
<1>2. Counts(rec, 0)
  BY AccessAssumption DEF Counts, UserRow
<1>3. AccessInv'
  BY <1>1, <1>2, CommitInv
<1>4. /\ user'[u] = rec /\ \A y \in Person \ {u} : user'[y] = user[y]
      /\ visit'[v] = NotVisiting /\ \A x \in Visit \ {v} : visit'[x] = visit[x]
      /\ tick' = tick
  BY CommitsWhat DEF AccessInv
<1>5. \A x \in Visit, y \in Person : Guessing(x, y)' => Guessing(x, y) /\ visit'[x] = visit[x]
  BY <1>4, NewRows DEF Guessing
<1>6. ASSUME NEW y \in Person, Room(y), PairsOn(y) PROVE Room(y)'
  <2>1. CASE y = u
    BY <1>1, <1>3, <1>6, <2>1, RoomFresh
  <2>2. CASE y # u
    BY <1>1, <1>4, <1>5, <1>6, <2>2, RoomKept
  <2> QED
    BY <2>1, <2>2
<1> QED
  BY <1>3, <1>4, <1>6

\* A right password, at the login or the password change, and a reset.
LEMMA ClearingStep ==
    ASSUME AccessInv, NEW v \in Visit, NEW u \in Person,
           RightPassword(v, u) \/ PasswordChanged(v, u) \/ PasswordReset(v, u)
    PROVE  /\ AccessInv'
           /\ \A y \in Person : Room(y) /\ PairsOn(y) => Room(y)'
           /\ \A y \in Person : user'[y].active = user[y].active /\ (user[y].exists => user'[y].exists)
<1>1. visit[v].on = {u} /\ visit[v].what # "nothing" /\ wrong' = [wrong EXCEPT ![u] = 0]
  BY DEF RightPassword, PasswordChanged, PasswordReset
<1>2. user[u].exists
  BY <1>1 DEF AccessInv, VisitsOnUsers
<1>3. /\ Cleared(v, user[u]) \in UserRow
      /\ Cleared(v, user[u]).exists = user[u].exists /\ Cleared(v, user[u]).active = user[u].active
  BY ClearedRow DEF AccessInv
<1>4. tokens' \in SUBSET [user : Person, mfa : BOOLEAN]
  <2>1. tokens \in SUBSET [user : Person, mfa : BOOLEAN]
    BY DEF AccessInv, AccessTypes
  <2> QED
    BY <2>1 DEF RightPassword, PasswordChanged, PasswordReset
<1>5. PICK rec \in UserRow : Commits(v, u, rec) /\ rec.exists = user[u].exists /\ rec.active = user[u].active
  <2>1. CASE RightPassword(v, u) \/ PasswordReset(v, u)
    BY <1>3, <2>1 DEF RightPassword, PasswordReset
  <2>2. CASE PasswordChanged(v, u)
    <3> DEFINE cleared == Cleared(v, user[u])
               must == IF visit[v].loaded.mustChange THEN FALSE ELSE cleared.mustChange
               rec == [cleared EXCEPT !.mustChange = must]
    <3>1. must \in BOOLEAN
      BY <1>3 DEF UserRow
    <3>2. Commits(v, u, rec)
      BY <2>2 DEF PasswordChanged
    <3> HIDE DEF cleared, must
    <3>3. cleared \in UserRow
      BY <1>3 DEF cleared
    <3>4. rec \in UserRow /\ rec.exists = cleared.exists /\ rec.active = cleared.active
      BY <3>1, <3>3 DEF UserRow
    <3> QED
      BY <1>3, <3>2, <3>4 DEF cleared
  <2> QED
    BY <2>1, <2>2
<1> QED
  BY <1>1, <1>2, <1>4, <1>5, NewStart
-----------------------------------------------------------------------------
(* The last administrator. *)

\* What the action property AnAdminRemains says of a step.
KeepsAnAdmin ==
    \A u \in Person :
        Admins(TenantOf[u]) = {u} /\ u \notin Admins(TenantOf[u])' =>
            u \in mixed' \/ \E v \in Visit : visit[v].what = "deactivate" /\ visit[v].on = {u} /\ visit[v].powers

\* Only a deactivation takes an administrator away.
LEMMA NobodyLeaves ==
    ASSUME \A y \in Person : user[y].exists /\ user[y].active => user'[y].exists /\ user'[y].active
    PROVE  KeepsAnAdmin
<1> SUFFICES ASSUME NEW u \in Person, Admins(TenantOf[u]) = {u} PROVE u \in Admins(TenantOf[u])'
  BY DEF KeepsAnAdmin
<1>1. u \in Administrator /\ user[u].exists /\ user[u].active
  BY DEF Admins
<1> QED
  BY <1>1 DEF Admins

LEMMA DeactivatedStep ==
    ASSUME AccessInv, NEW v \in Visit, NEW u \in Person, Deactivated(v, u)
    PROVE  /\ AccessInv'
           /\ \A y \in Person : Room(y) /\ PairsOn(y) => Room(y)'
           /\ KeepsAnAdmin
<1> DEFINE rec == [user[u] EXCEPT !.active = FALSE]
<1>1. /\ visit[v].what = "deactivate" /\ visit[v].on = {u} /\ Commits(v, u, rec)
      /\ tokens' = tokens /\ wrong' = wrong
  BY DEF Deactivated
<1>2. user[u] \in UserRow /\ user[u].exists /\ wrong \in [Person -> Nat]
  <2>1. user[u].exists
    BY <1>1 DEF AccessInv, VisitsOnUsers
  <2> QED
    BY <2>1 DEF AccessInv, AccessTypes
<1>3. /\ rec \in UserRow /\ rec.exists = user[u].exists /\ rec.failed = user[u].failed
      /\ rec.lockedUntil = user[u].lockedUntil
  BY <1>2 DEF UserRow
<1> HIDE DEF rec
<1>4. u \notin mixed => Counts(rec, wrong'[u])
  BY <1>1, <1>3 DEF AccessInv, CountedAlone, Counts, Locked
<1>5. AccessInv'
  <2>1. tokens' \in SUBSET [user : Person, mfa : BOOLEAN] /\ wrong' \in [Person -> Nat] /\ rec.exists
    BY <1>1, <1>2, <1>3 DEF AccessInv, AccessTypes
  <2>2. \A y \in Person \ {u} : wrong'[y] = wrong[y]
    BY <1>1
  <2> QED
    BY <1>1, <1>3, <1>4, <2>1, <2>2, CommitInv
<1>6. /\ user'[u] = rec /\ \A y \in Person \ {u} : user'[y] = user[y]
      /\ visit'[v] = NotVisiting /\ \A x \in Visit \ {v} : visit'[x] = visit[x]
      /\ mixed \subseteq mixed' /\ tick' = tick
  BY <1>1, CommitsWhat DEF AccessInv
<1>7. ASSUME NEW y \in Person, Room(y), PairsOn(y) PROVE Room(y)'
  <2>1. \A x \in Visit : Guessing(x, y)' => Guessing(x, y) /\ visit'[x].loaded = visit[x].loaded
    BY <1>6, NewRows DEF Guessing
  <2>2. user'[y].failed = user[y].failed /\ user'[y].lockedUntil = user[y].lockedUntil
    BY <1>3, <1>6
  <2> QED
    BY <1>1, <1>6, <1>7, <2>1, <2>2, RoomKept
<1>8. KeepsAnAdmin
  <2> SUFFICES ASSUME NEW y \in Person, Admins(TenantOf[y]) = {y}, y \notin Admins(TenantOf[y])', y \notin mixed'
               PROVE  visit[v].on = {y} /\ visit[v].powers
    BY <1>1 DEF KeepsAnAdmin
  <2>1. y \in Administrator /\ user[y].exists /\ user[y].active
    BY DEF Admins
  <2>2. y = u
    <3>1. CASE y # u
      <4>1. user'[y] = user[y]
        BY <1>6, <3>1
      <4>2. y \in Admins(TenantOf[y])'
        BY <2>1, <4>1 DEF Admins
      <4> QED
        BY <4>2
    <3> QED
      BY <3>1
  <2>3. AnotherAdmin(v, u)
    BY DEF AccessInv
  <2>4. u \notin mixed
    BY <1>6, <2>2
  <2> QED
    BY <1>1, <2>2, <2>3, <2>4 DEF AnotherAdmin
<1> QED
  BY <1>5, <1>7, <1>8

-----------------------------------------------------------------------------
(* Requests that load. *)

LEMMA LoadsStep ==
    ASSUME AccessInv, NEW v \in Visit, NEW what \in {"login", "change", "deactivate", "reset"}, NEW by \in Person,
           NEW on \in Person, NEW powers \in BOOLEAN, NEW right \in BOOLEAN,
           Loads(v, what, by, on, powers, right), user[on].exists,
           what \in {"login", "change"} => ~Locked(user[on]),
           what = "deactivate" /\ ~powers => \E a \in Admins(TenantOf[on]) : a # on
    PROVE  /\ AccessInv'
           /\ \A y \in Person : Room(y) /\ PairsOn(y) => Room(y)'
           /\ user' = user
<1> DEFINE new == [what |-> what, by |-> {by}, on |-> {on}, powers |-> powers, right |-> right, loaded |-> user[on]]
<1>1. /\ visit' = [visit EXCEPT ![v] = new] /\ visit[v] = NotVisiting
      /\ user' = user /\ tokens' = tokens /\ tick' = tick /\ wrong' = wrong /\ mixed' = mixed
  BY DEF Loads
<1>2. /\ new \in VisitRow /\ new.what = what /\ new.on = {on} /\ new.powers = powers /\ new.right = right
      /\ new.loaded = user[on] /\ visit \in [Visit -> VisitRow]
  BY DEF AccessInv, AccessTypes, VisitRow
<1> HIDE DEF new
<1>3. visit'[v] = new /\ (\A x \in Visit \ {v} : visit'[x] = visit[x]) /\ visit' \in [Visit -> VisitRow]
  BY <1>1, <1>2
<1>4. AccessTypes'
  BY <1>1, <1>3 DEF AccessInv, AccessTypes
<1>5. VisitsOnUsers'
  <2>1. \A x \in Visit :
           \/ visit'[x].what = "nothing" /\ visit'[x].on = {}
           \/ visit'[x].what # "nothing" /\ \E y \in Person : visit'[x].on = {y} /\ user'[y].exists
    BY <1>1, <1>2, <1>3 DEF AccessInv, VisitsOnUsers
  <2>2. \A y \in Person : ~user'[y].exists => wrong'[y] = 0
    BY <1>1 DEF AccessInv, VisitsOnUsers
  <2> QED
    BY <2>1, <2>2 DEF VisitsOnUsers
<1>6. ASSUME NEW y \in Person PROVE CountedAlone(y)'
  <2>1. CountedAlone(y)
    BY DEF AccessInv
  <2>2. visit'[v].on = {y} => y = on
    BY <1>2, <1>3
  <2> QED
    BY <1>1, <1>2, <1>3, <2>1, <2>2 DEF CountedAlone, Locked
<1>7. ASSUME NEW y \in Person, NEW x \in Visit PROVE AnotherAdmin(x, y)'
  <2>1. Admins(TenantOf[y])' = Admins(TenantOf[y])
    BY <1>1 DEF Admins
  <2>2. CASE x # v
    <3>1. AnotherAdmin(x, y)
      BY DEF AccessInv
    <3> QED
      BY <1>1, <1>3, <2>1, <2>2, <3>1 DEF AnotherAdmin
  <2>3. CASE x = v
    BY <1>1, <1>2, <1>3, <2>1, <2>3 DEF AnotherAdmin
  <2> QED
    BY <2>2, <2>3
<1>8. ASSUME NEW y \in Person, Room(y), PairsOn(y) PROVE Room(y)'
  <2>1. \A x \in Visit \ {v} : Guessing(x, y)' => Guessing(x, y) /\ visit'[x].loaded = visit[x].loaded
    BY <1>3 DEF Guessing
  <2>2. CASE ~Guessing(v, y)'
    <3>1. \A x \in Visit : Guessing(x, y)' => Guessing(x, y) /\ visit'[x].loaded = visit[x].loaded
      BY <2>1, <2>2
    <3> QED
      BY <1>1, <1>8, <3>1, RoomKept
  <2>3. CASE Guessing(v, y)'
    <3> DEFINE w == wrong[y]
               f == user[y].failed
               Loaded(x) == visit[x].loaded.failed
    <3>1. y = on /\ ~Locked(user[y]) /\ visit'[v].loaded.failed = f
      BY <1>2, <1>3, <2>3 DEF Guessing
    <3>2. w \in Nat /\ f \in Nat /\ \A x \in Visit : Loaded(x) \in Nat
      BY DEF AccessInv, AccessTypes, VisitRow, UserRow
    <3>3. /\ RoomIdle(w, f)
          /\ \A x \in Visit : Guessing(x, y) => RoomOne(w, f, Loaded(x))
          /\ \A x, z \in Visit : x # z /\ Guessing(x, y) /\ Guessing(z, y) => RoomTwo(w, Loaded(x), Loaded(z))
      BY <1>8, <3>1 DEF Room
    <3>4. RoomOne(w, f, f)
      BY <3>2, <3>3, RoomToStart
    <3>5. \A x \in Visit : Guessing(x, y) => RoomTwo(w, Loaded(x), f) /\ RoomTwo(w, f, Loaded(x))
      BY <3>2, <3>3, RoomToStart
    <3>6. \A x \in Visit \ {v} : Guessing(x, y)' => Guessing(x, y) /\ visit'[x].loaded.failed = Loaded(x)
      BY <2>1
    <3>7. \A x \in Visit : Guessing(x, y)' => RoomOne(w, f, visit'[x].loaded.failed)
      BY <3>1, <3>3, <3>4, <3>6
    <3>8. \A x, z \in Visit :
             x # z /\ Guessing(x, y)' /\ Guessing(z, y)' => RoomTwo(w, visit'[x].loaded.failed, visit'[z].loaded.failed)
      <4> TAKE x, z \in Visit
      <4> HAVE x # z /\ Guessing(x, y)' /\ Guessing(z, y)'
      <4>1. CASE x = v
        BY <3>1, <3>5, <3>6, <4>1
      <4>2. CASE z = v
        BY <3>1, <3>5, <3>6, <4>2
      <4>3. CASE x # v /\ z # v
        BY <3>3, <3>6, <4>3
      <4> QED
        BY <4>1, <4>2, <4>3
    <3>9. ~Locked(user[y])'
      BY <1>1, <3>1 DEF Locked
    <3> HIDE DEF Loaded
    <3> QED
      BY <1>1, <3>3, <3>7, <3>8, <3>9 DEF Room
  <2> QED
    BY <2>2, <2>3
<1> QED
  BY <1>1, <1>4, <1>5, <1>6, <1>7, <1>8 DEF AccessInv
LEMMA RequestStep ==
    ASSUME AccessInv, NEW v \in Visit, NEW u \in Person,
           \/ Login(v, u)
           \/ \E token \in tokens : ChangePassword(v, token) \/ DeactivateUser(v, token, u) \/ ResetPassword(v, token, u)
    PROVE  /\ AccessInv'
           /\ \A y \in Person : Room(y) /\ PairsOn(y) => Room(y)'
           /\ user' = user
<1>1. CASE Login(v, u)
  <2>1. PICK right \in BOOLEAN : Loads(v, "login", u, u, FALSE, right)
    BY <1>1 DEF Login
  <2>2. user[u].exists /\ ~Locked(user[u])
    BY <1>1 DEF Login
  <2> QED
    BY <2>1, <2>2, LoadsStep
<1>2. ASSUME NEW token \in tokens, ChangePassword(v, token) \/ DeactivateUser(v, token, u) \/ ResetPassword(v, token, u)
      PROVE  /\ AccessInv'
             /\ \A y \in Person : Room(y) /\ PairsOn(y) => Room(y)'
             /\ user' = user
  <2>1. token.user \in Person /\ token.mfa \in BOOLEAN
    BY DEF AccessInv, AccessTypes
  <2>2. CASE ChangePassword(v, token)
    <3>1. PICK me \in Person : me = token.user
      BY <2>1
    <3>2. PICK right \in BOOLEAN : Loads(v, "change", me, me, FALSE, right)
      BY <2>2, <3>1 DEF ChangePassword
    <3>3. user[me].exists /\ ~Locked(user[me])
      BY <2>2, <3>1 DEF ChangePassword, Authenticated, Usable
    <3> QED
      BY <3>2, <3>3, LoadsStep
  <2> DEFINE powers == SuperPowers(token)
  <2>3. powers \in BOOLEAN
    BY DEF SuperPowers
  <2>4. CASE DeactivateUser(v, token, u)
    <3>1. /\ RequireAdmin(token) /\ token.user # u /\ MayManage(token, u)
          /\ Loads(v, "deactivate", token.user, u, powers, FALSE)
      BY <2>4 DEF DeactivateUser
    <3>2. user[u].exists
      BY <3>1 DEF MayManage
    <3>3. ~powers => token.user \in Admins(TenantOf[u])
      BY <3>1 DEF RequireAdmin, CurrentUser, Authenticated, Usable, MayManage, Admins
    <3> HIDE DEF powers
    <3> QED
      BY <2>1, <2>3, <3>1, <3>2, <3>3, LoadsStep
  <2>5. CASE ResetPassword(v, token, u)
    <3>1. user[u].exists /\ Loads(v, "reset", token.user, u, powers, FALSE)
      BY <2>5 DEF ResetPassword, MayManage
    <3> HIDE DEF powers
    <3> QED
      BY <2>1, <2>3, <3>1, LoadsStep
  <2> QED
    BY <1>2, <2>2, <2>4, <2>5
<1> QED
  BY <1>1, <1>2

-----------------------------------------------------------------------------
(* New users, the clock, what ends by itself. *)

LEMMA CreateUserStep ==
    ASSUME AccessInv, NEW token \in tokens, NEW u \in Person, CreateUser(token, u)
    PROVE  /\ AccessInv'
           /\ \A y \in Person : Room(y) /\ PairsOn(y) => Room(y)'
           /\ \A y \in Person : user[y].exists => user'[y] = user[y]
<1>1. /\ ~user[u].exists /\ user' = [user EXCEPT ![u] = NewUser]
      /\ tokens' = tokens /\ visit' = visit /\ tick' = tick /\ wrong' = wrong /\ mixed' = mixed
  BY DEF CreateUser
<1>2. user'[u] = NewUser /\ (\A y \in Person \ {u} : user'[y] = user[y]) /\ user' \in [Person -> UserRow]
  BY <1>1, NewRows DEF AccessInv, AccessTypes
<1>3. NewUser.exists /\ NewUser.active /\ NewUser.failed = 0 /\ NewUser.lockedUntil = 0
  BY DEF NewUser
<1>4. AccessTypes'
  BY <1>1, <1>2 DEF AccessInv, AccessTypes
<1>5. wrong[u] = 0 /\ \A x \in Visit : visit[x].on # {u}
  BY <1>1 DEF AccessInv, VisitsOnUsers
<1>6. VisitsOnUsers'
  <2>1. \A y \in Person : user[y].exists => user'[y].exists
    BY <1>1, <1>2
  <2> QED
    BY <1>1, <1>2, <1>3, <2>1 DEF AccessInv, VisitsOnUsers
<1>7. ASSUME NEW y \in Person PROVE CountedAlone(y)'
  <2>1. CASE y = u
    BY <1>1, <1>2, <1>3, <1>5, <2>1, AccessAssumption DEF CountedAlone
  <2>2. CASE y # u
    <3>1. CountedAlone(y) /\ user'[y] = user[y]
      BY <1>2, <2>2 DEF AccessInv
    <3> QED
      BY <1>1, <3>1 DEF CountedAlone, Locked
  <2> QED
    BY <2>1, <2>2
<1>8. ASSUME NEW y \in Person, NEW x \in Visit PROVE AnotherAdmin(x, y)'
  <2>1. AnotherAdmin(x, y)
    BY DEF AccessInv
  <2>2. Admins(TenantOf[y]) \subseteq Admins(TenantOf[y])'
    BY <1>1, <1>2, AccessAssumption DEF Admins
  <2> QED
    BY <1>1, <2>1, <2>2 DEF AnotherAdmin
<1>9. AccessInv'
  BY <1>4, <1>6, <1>7, <1>8 DEF AccessInv
<1>10. ASSUME NEW y \in Person, Room(y), PairsOn(y) PROVE Room(y)'
  <2>1. CASE y = u
    BY <1>1, <1>5, <1>9, <1>10, <2>1, RoomFresh
  <2>2. CASE y # u
    <3>1. \A x \in Visit : Guessing(x, y)' => Guessing(x, y) /\ visit'[x].loaded = visit[x].loaded
      BY <1>1 DEF Guessing
    <3> QED
      BY <1>1, <1>2, <1>10, <2>2, <3>1, RoomKept
  <2> QED
    BY <2>1, <2>2
<1> QED
  BY <1>1, <1>2, <1>9, <1>10

LEMMA TickStep ==
    ASSUME AccessInv, Tick
    PROVE  /\ AccessInv'
           /\ \A y \in Person : Room(y) /\ PairsOn(y) => Room(y)'
           /\ user' = user
<1>1. /\ tick' = tick + 1 /\ user' = user /\ tokens' = tokens /\ visit' = visit /\ mixed' = mixed
      /\ wrong' = [y \in Person |-> IF user[y].lockedUntil = tick + 1 THEN 0 ELSE wrong[y]]
  BY DEF Tick
<1>2. /\ tick \in Nat /\ wrong \in [Person -> Nat] /\ MaxFailed \in Nat
      /\ \A y \in Person : user[y].lockedUntil \in Nat /\ user[y].failed \in Nat
  BY AccessAssumption DEF AccessInv, AccessTypes, UserRow
<1>3. wrong' \in [Person -> Nat] /\ tick' \in Nat
  BY <1>1, <1>2
<1>4. AccessTypes'
  BY <1>1, <1>3 DEF AccessInv, AccessTypes
<1>5. VisitsOnUsers'
  BY <1>1 DEF AccessInv, VisitsOnUsers
<1>6. ASSUME NEW y \in Person PROVE CountedAlone(y)'
  <2>1. CountedAlone(y)
    BY DEF AccessInv
  <2>2. wrong'[y] \in {0, wrong[y]} /\ (user[y].lockedUntil = tick + 1 => wrong'[y] = 0)
    BY <1>1
  <2>3. ~Locked(user[y]) => ~Locked(user[y])'
    BY <1>1, <1>2 DEF Locked
  <2>4. ~Locked(user[y])' => ~Locked(user[y]) \/ user[y].lockedUntil = tick + 1
    BY <1>1, <1>2 DEF Locked
  <2> QED
    BY <1>1, <1>2, <2>1, <2>2, <2>3, <2>4 DEF CountedAlone
<1>7. ASSUME NEW y \in Person, NEW x \in Visit PROVE AnotherAdmin(x, y)'
  BY <1>1 DEF AccessInv, AnotherAdmin, Admins
<1>8. AccessInv'
  BY <1>4, <1>5, <1>6, <1>7 DEF AccessInv
<1>9. ASSUME NEW y \in Person, Room(y), PairsOn(y) PROVE Room(y)'
  <2>1. CASE user[y].lockedUntil = tick + 1
    <3>1. wrong'[y] = 0
      BY <1>1, <2>1
    <3> QED
      BY <1>8, <1>9, <3>1, RoomFresh
  <2>2. CASE user[y].lockedUntil # tick + 1
    <3>1. wrong'[y] = wrong[y]
      BY <1>1, <2>2
    <3>2. Locked(user[y])' <=> Locked(user[y])
      BY <1>1, <1>2, <2>2 DEF Locked
    <3>3. \A x \in Visit : Guessing(x, y)' => Guessing(x, y) /\ visit'[x].loaded = visit[x].loaded
      BY <1>1 DEF Guessing
    <3> QED
      BY <1>1, <1>9, <3>1, <3>2, <3>3, RoomSame
  <2> QED
    BY <2>1, <2>2
<1> QED
  BY <1>1, <1>8, <1>9

LEMMA RestStep ==
    ASSUME AccessInv,
           \/ \E token \in tokens : TokenExpires(token)
           \/ \E v \in Visit : Abandoned(v)
           \/ UNCHANGED accessVars
    PROVE  /\ AccessInv'
           /\ \A y \in Person : Room(y) /\ PairsOn(y) => Room(y)'
           /\ user' = user
<1>1. /\ user' = user /\ tick' = tick /\ wrong' = wrong /\ mixed' = mixed
      /\ tokens' \subseteq tokens
      /\ \A x \in Visit : visit'[x] \in {visit[x], NotVisiting}
      /\ visit' \in [Visit -> VisitRow]
  BY NewRows DEF TokenExpires, Abandoned, accessVars, AccessInv, AccessTypes
<1>2. AccessTypes'
  BY <1>1 DEF AccessInv, AccessTypes
<1>3. \A x \in Visit : visit'[x] = visit[x] \/ (visit'[x].what = "nothing" /\ visit'[x].on = {})
  BY <1>1, NewRows
<1>4. VisitsOnUsers'
  BY <1>1, <1>3 DEF AccessInv, VisitsOnUsers
<1>5. ASSUME NEW y \in Person PROVE CountedAlone(y)'
  BY <1>1, <1>3 DEF AccessInv, CountedAlone, Locked
<1>6. ASSUME NEW y \in Person, NEW x \in Visit PROVE AnotherAdmin(x, y)'
  BY <1>1, <1>3 DEF AccessInv, AnotherAdmin, Admins
<1>7. ASSUME NEW y \in Person, Room(y), PairsOn(y) PROVE Room(y)'
  <2>1. \A x \in Visit : Guessing(x, y)' => Guessing(x, y) /\ visit'[x].loaded = visit[x].loaded
    BY <1>3 DEF Guessing
  <2> QED
    BY <1>1, <1>7, <2>1, RoomKept
<1> QED
  BY <1>1, <1>2, <1>4, <1>5, <1>6, <1>7 DEF AccessInv

-----------------------------------------------------------------------------
(* All steps, and what they keep. *)

LEMMA AccessStep ==
    ASSUME AccessInv, [AccessNext]_accessVars
    PROVE  /\ AccessInv'
           /\ \A y \in Person : Room(y) /\ PairsOn(y) => Room(y)'
           /\ KeepsAnAdmin
<1>1. CASE Tick
  <2>1. user' = user
    BY <1>1, TickStep
  <2> QED
    BY <1>1, <2>1, TickStep, NobodyLeaves
<1>2. ASSUME NEW token \in tokens, NEW u \in Person, CreateUser(token, u)
      PROVE  /\ AccessInv'
             /\ \A y \in Person : Room(y) /\ PairsOn(y) => Room(y)'
             /\ KeepsAnAdmin
  <2>1. \A y \in Person : user[y].exists => user'[y] = user[y]
    BY <1>2, CreateUserStep
  <2> QED
    BY <1>2, <2>1, CreateUserStep, NobodyLeaves
<1>3. ASSUME NEW v \in Visit, NEW u \in Person,
             \/ Login(v, u)
             \/ \E token \in tokens : ChangePassword(v, token) \/ DeactivateUser(v, token, u) \/ ResetPassword(v, token, u)
      PROVE  /\ AccessInv'
             /\ \A y \in Person : Room(y) /\ PairsOn(y) => Room(y)'
             /\ KeepsAnAdmin
  <2>1. user' = user
    BY <1>3, RequestStep
  <2> QED
    BY <1>3, <2>1, RequestStep, NobodyLeaves
<1>4. ASSUME NEW v \in Visit, NEW token \in tokens, ChangePassword(v, token)
      PROVE  /\ AccessInv'
             /\ \A y \in Person : Room(y) /\ PairsOn(y) => Room(y)'
             /\ KeepsAnAdmin
  <2>1. token.user \in Person
    BY DEF AccessInv, AccessTypes
  <2> QED
    BY <1>3, <1>4, <2>1
<1>5. ASSUME NEW v \in Visit, NEW u \in Person, WrongPassword(v, u)
      PROVE  /\ AccessInv'
             /\ \A y \in Person : Room(y) /\ PairsOn(y) => Room(y)'
             /\ KeepsAnAdmin
  <2>1. \A y \in Person : user'[y].active = user[y].active /\ user'[y].exists = user[y].exists
    BY <1>5, WrongPasswordStep
  <2> QED
    BY <1>5, <2>1, WrongPasswordStep, NobodyLeaves
<1>6. ASSUME NEW v \in Visit, NEW u \in Person, RightPassword(v, u) \/ PasswordChanged(v, u) \/ PasswordReset(v, u)
      PROVE  /\ AccessInv'
             /\ \A y \in Person : Room(y) /\ PairsOn(y) => Room(y)'
             /\ KeepsAnAdmin
  <2>1. \A y \in Person : user'[y].active = user[y].active /\ (user[y].exists => user'[y].exists)
    BY <1>6, ClearingStep
  <2> QED
    BY <1>6, <2>1, ClearingStep, NobodyLeaves
<1>7. ASSUME NEW v \in Visit, NEW u \in Person, Deactivated(v, u)
      PROVE  /\ AccessInv'
             /\ \A y \in Person : Room(y) /\ PairsOn(y) => Room(y)'
             /\ KeepsAnAdmin
  BY <1>7, DeactivatedStep
<1>8. CASE \/ \E token \in tokens : TokenExpires(token)
           \/ \E v \in Visit : Abandoned(v)
           \/ UNCHANGED accessVars
  <2>1. user' = user
    BY <1>8, RestStep
  <2> QED
    BY <1>8, <2>1, RestStep, NobodyLeaves
<1> QED
  BY <1>1, <1>2, <1>3, <1>4, <1>5, <1>6, <1>7, <1>8 DEF AccessNext

\* Whoever is not crowded after a step has two requests at most if it was so before.
LEMMA LoadsCrowd ==
    ASSUME AccessTypes, NEW v \in Visit, NEW what, NEW by, NEW on \in Person, NEW powers, NEW right,
           Loads(v, what, by, on, powers, right)
    PROVE  crowded \subseteq crowded' /\ \A y \in Person \ crowded' : PairsOn(y) => PairsOn(y)'
<1>1. /\ visit'[v].on = {on} /\ \A x \in Visit \ {v} : visit'[x] = visit[x]
      /\ visit[v].on = {}
  BY NewRows DEF Loads, AccessTypes
<1>2. crowded' = crowded \union
                     {u \in {on} : \E w, x \in Visit : w # x /\ visit[w].on = {u} /\ visit[x].on = {u}}
  BY DEF Loads
<1>3. on \notin crowded' => \A w, x \in Visit : visit[w].on = {on} /\ visit[x].on = {on} => w = x
  BY <1>2
<1>4. ASSUME NEW y \in Person \ crowded', PairsOn(y) PROVE PairsOn(y)'
  <2>1. CASE y = on
    BY <1>1, <1>3, <1>4, <2>1 DEF PairsOn
  <2>2. CASE y # on
    <3>1. \A x \in Visit : visit'[x].on = {y} => visit[x].on = {y}
      BY <1>1, <2>2
    <3> QED
      BY <1>4, <3>1 DEF PairsOn
  <2> QED
    BY <2>1, <2>2
<1> QED
  BY <1>2, <1>4

LEMMA CrowdStep ==
    ASSUME AccessTypes, [AccessNext]_accessVars
    PROVE  crowded \subseteq crowded' /\ \A y \in Person \ crowded' : PairsOn(y) => PairsOn(y)'
<1>1. ASSUME crowded' = crowded, \A x \in Visit : visit'[x] \in {visit[x], NotVisiting}
      PROVE  crowded \subseteq crowded' /\ \A y \in Person \ crowded' : PairsOn(y) => PairsOn(y)'
  <2>1. \A x \in Visit, y \in Person : visit'[x].on = {y} => visit[x].on = {y}
    BY <1>1, NewRows
  <2> QED
    BY <1>1, <2>1 DEF PairsOn
<1>2. ASSUME NEW v \in Visit, NEW u \in Person, Login(v, u)
      PROVE  crowded \subseteq crowded' /\ \A y \in Person \ crowded' : PairsOn(y) => PairsOn(y)'
  BY <1>2, LoadsCrowd DEF Login
<1>3. ASSUME NEW v \in Visit, NEW token \in tokens, ChangePassword(v, token)
      PROVE  crowded \subseteq crowded' /\ \A y \in Person \ crowded' : PairsOn(y) => PairsOn(y)'
  <2>1. PICK me \in Person : me = token.user
    BY DEF AccessTypes
  <2> QED
    BY <1>3, <2>1, LoadsCrowd DEF ChangePassword
<1>4. ASSUME NEW v \in Visit, NEW token \in tokens, NEW u \in Person,
             DeactivateUser(v, token, u) \/ ResetPassword(v, token, u)
      PROVE  crowded \subseteq crowded' /\ \A y \in Person \ crowded' : PairsOn(y) => PairsOn(y)'
  BY <1>4, LoadsCrowd DEF DeactivateUser, ResetPassword
<1>5. ASSUME NEW v \in Visit, NEW u \in Person,
             \/ WrongPassword(v, u) \/ RightPassword(v, u)
             \/ PasswordChanged(v, u) \/ PasswordReset(v, u) \/ Deactivated(v, u)
      PROVE  crowded \subseteq crowded' /\ \A y \in Person \ crowded' : PairsOn(y) => PairsOn(y)'
  <2>1. PICK rec : Commits(v, u, rec)
    BY <1>5 DEF WrongPassword, RightPassword, PasswordChanged, PasswordReset, Deactivated
  <2>2. crowded' = crowded /\ visit' = [visit EXCEPT ![v] = NotVisiting]
    BY <2>1 DEF Commits
  <2> QED
    BY <1>1, <2>2 DEF AccessTypes
<1>6. ASSUME NEW v \in Visit, Abandoned(v)
      PROVE  crowded \subseteq crowded' /\ \A y \in Person \ crowded' : PairsOn(y) => PairsOn(y)'
  BY <1>1, <1>6 DEF Abandoned, AccessTypes
<1>7. CASE \/ Tick \/ UNCHANGED accessVars
           \/ \E token \in tokens : TokenExpires(token) \/ \E u \in Person : CreateUser(token, u)
  <2>1. crowded' = crowded /\ visit' = visit
    BY <1>7 DEF Tick, accessVars, TokenExpires, CreateUser
  <2> QED
    BY <1>1, <2>1
<1> QED
  BY <1>2, <1>3, <1>4, <1>5, <1>6, <1>7 DEF AccessNext

LEMMA AccessInvariance == AccessSpec => []AccessInv
<1>1. AccessInv /\ [AccessNext]_accessVars => AccessInv'
  BY AccessStep
<1>2. AccessInit => AccessInv
  BY AccessInitInv
<1> QED
  BY <1>1, <1>2, PTL DEF AccessSpec

\* For any number of requests at a time: whoever was not written by two of them at once has
\* at most MaxFailed guesses before a lock (login, change_password in api/auth.py).
THEOREM GuessesAreCounted == AccessSpec => [](\A u \in Person \ mixed : wrong[u] <= MaxFailed)
<1>1. AccessInv => \A u \in Person \ mixed : wrong[u] <= MaxFailed
  BY DEF AccessInv, CountedAlone
<1> QED
  BY <1>1, AccessInvariance, PTL

\* For any number of requests at a time: a user on whom no three of them were under way at once
\* has no more guesses than the property allows; each of two counts from what it loaded and may
\* undo what the other counted (login, change_password in api/auth.py).
THEOREM OnlyACrowdGuessesMore == AccessSpec => []GuessesAreBounded
<1>1. AccessInit => AccessInv /\ \A u \in Person : HasRoom(u)
  <2> SUFFICES ASSUME AccessInit PROVE AccessInv /\ \A u \in Person : HasRoom(u)
    OBVIOUS
  <2>1. AccessInv /\ \A u \in Person : Room(u)
    BY AccessInitInv
  <2>2. \A v \in Visit : visit[v].on = {}
    BY NewRows DEF AccessInit
  <2> QED
    BY <2>1, <2>2 DEF HasRoom, PairsOn
<1>2. (AccessInv /\ \A u \in Person : HasRoom(u)) /\ [AccessNext]_accessVars =>
          (AccessInv /\ \A u \in Person : HasRoom(u))'
  <2> SUFFICES ASSUME AccessInv, \A u \in Person : HasRoom(u), [AccessNext]_accessVars
               PROVE  AccessInv' /\ \A u \in Person : HasRoom(u)'
    OBVIOUS
  <2>1. AccessInv' /\ \A y \in Person : Room(y) /\ PairsOn(y) => Room(y)'
    BY AccessStep
  <2>2. crowded \subseteq crowded' /\ \A y \in Person \ crowded' : PairsOn(y) => PairsOn(y)'
    BY CrowdStep DEF AccessInv
  <2>3. ASSUME NEW y \in Person, y \notin crowded' PROVE PairsOn(y)' /\ Room(y)'
    <3>1. PairsOn(y) /\ Room(y)
      BY <2>2, <2>3 DEF HasRoom
    <3> QED
      BY <2>1, <2>2, <2>3, <3>1
  <2> QED
    BY <2>1, <2>3 DEF HasRoom
<1>3. (AccessInv /\ \A u \in Person : HasRoom(u)) => GuessesAreBounded
  <2> SUFFICES ASSUME AccessInv, NEW u \in Person, Room(u)
               PROVE  wrong[u] <= IF u \in mixed THEN 1 + (MaxFailed * (MaxFailed + 1)) \div 2 ELSE MaxFailed
    BY DEF GuessesAreBounded, HasRoom
  <2>1. CASE u \notin mixed
    BY <2>1 DEF AccessInv, CountedAlone
  <2>2. CASE u \in mixed
    <3>1. wrong[u] \in Nat /\ MaxFailed \in Nat /\ MaxFailed >= 1 /\ user[u].failed \in Nat
      BY AccessAssumption DEF AccessInv, AccessTypes, UserRow
    <3>2. Twice(MaxFailed) \in Nat /\ Twice(MaxFailed) = MaxFailed * (MaxFailed + 1)
      BY <3>1, TwiceFacts DEF Twice
    <3>3. 2 * wrong[u] <= 2 + Twice(MaxFailed)
      <4>1. CASE Locked(user[u])
        BY <4>1 DEF Room
      <4>2. CASE ~Locked(user[u])
        <5>1. 2 * wrong[u] + Twice(MaxFailed - Capped(user[u].failed)) <= Twice(MaxFailed)
          BY <4>2 DEF Room, RoomIdle
        <5>2. MaxFailed - Capped(user[u].failed) \in Nat
          BY <3>1 DEF Capped
        <5>3. Twice(MaxFailed - Capped(user[u].failed)) \in Nat
          BY <5>2, TwiceFacts
        <5> QED
          BY <3>1, <3>2, <5>1, <5>3
      <4> QED
        BY <4>1, <4>2
    <3> DEFINE t == Twice(MaxFailed)
    <3> HIDE DEF t
    <3>4. t \in Nat /\ 2 * wrong[u] <= 2 + t
      BY <3>2, <3>3 DEF t
    <3>5. wrong[u] <= 1 + t \div 2
      BY <3>1, <3>4
    <3> QED
      BY <2>2, <3>2, <3>5 DEF t
  <2> QED
    BY <2>1, <2>2
<1> QED
  BY <1>1, <1>2, <1>3, PTL DEF AccessSpec

\* For any number of requests: a tenant keeps an active administrator, unless a super-admin takes
\* the last one away or two requests overlapped (deactivate_user in api/users.py).
THEOREM TenantsKeepAnAdmin == AccessSpec => AnAdminRemains
<1>1. AccessInv /\ [AccessNext]_accessVars => [KeepsAnAdmin]_accessVars
  BY AccessStep
<1> QED
  BY <1>1, AccessInvariance, PTL DEF AccessSpec, AnAdminRemains, KeepsAnAdmin

-----------------------------------------------------------------------------
(* Workflow runs. *)

\* Running and deleting are different handlers.
RunnerPlace == Place \ {"delete", "auditDelete", "deleted"}
DeleterPlace == {"new", "check", "delete", "auditDelete", "deleted", "end", "dead"}

PlacesOK ==
    /\ \A r \in Runner : pc[r] \in RunnerPlace
    /\ \A d \in Deleter : pc[d] \in DeleterPlace

\* Only who builds holds the lock, and there is no engine yet.
EngineInv ==
    /\ \A r \in Request : pc[r] = "build" => builder = r
    /\ builder # Nobody => engine = "none"

\* A run whose request is at work has no line yet, and the row its request wrote, unless it
\* was deleted; one whose caller is told, or about to be, has its line.
Unanswered(r) == answer[r] \notin {"ok", "error"} /\ Written(r) = {}
Accounted(r, kind) == Written(r) = {Line(kind, r)} /\ Says(r, kind) /\ (row[r] = {kind} \/ WasDeleted(r))
RunInv(r) ==
    /\ pc[r] \in {"new", "check", "documents", "engine", "lock", "build", "model", "save"} =>
          Unanswered(r) /\ row[r] = {}
    /\ pc[r] \in {"audit", "saveError"} => Unanswered(r) /\ row[r] \subseteq {"ok"}
    /\ pc[r] = "auditError" => Unanswered(r) /\ row[r] \subseteq {"error"}
    /\ pc[r] \in {"ok", "error"} => answer[r] \notin {"ok", "error"} /\ Accounted(r, pc[r])
    /\ answer[r] \in {"ok", "error"} => Accounted(r, answer[r])
    /\ row[r] \in {{}, {"ok"}, {"error"}}
    /\ Written(r) = {} \/ Accounted(r, "ok") \/ Accounted(r, "error")

\* The line of a deletion is there once it is committed.
DeletionInv(d) ==
    /\ pc[d] \in {"new", "check", "delete", "auditDelete"} => Line("deleted", d) \notin lines[target[d]]
    /\ pc[d] = "deleted" \/ answer[d] = "deleted" => Line("deleted", d) \in lines[target[d]]
    /\ Line("deleted", d) \in lines[target[d]] => Says(d, "deleted")

\* One step of a request moves only that request.
LEMMA StepMoves ==
    ASSUME TypeOK, PlacesOK, NEW r \in Request, Step(r)
    PROVE  /\ \E p \in Place : pc' = [pc EXCEPT ![r] = p]
           /\ target' = target /\ crashes' = crashes
           /\ ~Ended(r)
           /\ r \in Runner => pc'[r] \in RunnerPlace
           /\ r \in Deleter => pc'[r] \in DeleterPlace
<1> USE DEF Place, RunnerPlace, DeleterPlace, TypeOK, PlacesOK, Go, Reply, Committed, Fixed, Ended
<1>0. r \in Runner \/ r \in Deleter
  BY DEF Request
<1>1. CASE Connect(r) \/ Refuse(r) \/ GiveUp(r)
  BY <1>0, <1>1 DEF Connect, Refuse, GiveUp, Waits
<1>2. CASE Accept(r) \/ LoadDocuments(r)
  BY <1>0, <1>2, RunsAssumption DEF Accept, LoadDocuments
<1>3. CASE LookForEngine(r) \/ LockEngine(r) \/ BuildEngine(r) \/ Work(r)
  BY <1>0, <1>3 DEF LookForEngine, LockEngine, BuildEngine, Work
<1>4. CASE Save(r) \/ SaveFails(r) \/ Audit(r) \/ AuditFails(r)
  BY <1>0, <1>4 DEF Save, SaveFails, Audit, AuditFails
<1>5. CASE SaveError(r) \/ AuditError(r) \/ AuditErrorFails(r)
  BY <1>0, <1>5 DEF SaveError, AuditError, AuditErrorFails
<1>6. CASE Find(r) \/ Delete(r) \/ AuditDelete(r) \/ AuditDeleteFails(r)
  BY <1>0, <1>6, RunsAssumption DEF Find, Delete, AuditDelete, AuditDeleteFails
<1>7. CASE Answer(r)
  BY <1>0, <1>7 DEF Answer
<1> QED
  BY <1>1, <1>2, <1>3, <1>4, <1>5, <1>6, <1>7 DEF Step

-----------------------------------------------------------------------------
(* Types. *)

\* The pool: a request that ends gives its connection back, and one is lent while one is free.
LEMMA PoolStep ==
    ASSUME TypeOK, PlacesOK, NEW r \in Request, Step(r)
    PROVE  holds' \subseteq {s \in Request : ~Ended(s)'} /\ Cardinality(holds') <= PoolSize
<1>0. PoolSize \in Nat
  BY RunsAssumption
<1>1. \E p \in Place : pc' = [pc EXCEPT ![r] = p]
  BY StepMoves
<1>2. IsFiniteSet(holds) /\ Cardinality(holds) \in Nat /\ Cardinality(holds) <= PoolSize
  <2>1. IsFiniteSet(Request)
    BY RunsAssumption, FS_Union DEF Request
  <2> QED
    BY <2>1, FS_Subset, FS_CardinalityType DEF TypeOK
<1>3. CASE holds' = holds \union {r} /\ Cardinality(holds) < PoolSize /\ ~Ended(r)'
  <2>1. Cardinality(holds \union {r}) <= PoolSize
    <3>1. \/ Cardinality(holds \union {r}) = Cardinality(holds)
          \/ Cardinality(holds \union {r}) = Cardinality(holds) + 1
      BY <1>2, FS_AddElement
    <3> QED
      BY <1>0, <1>2, <1>3, <3>1
  <2> QED
    BY <1>1, <1>3, <2>1 DEF TypeOK, Ended
<1>4. CASE holds' = holds \ {r}
  <2>1. Cardinality(holds \ {r}) <= PoolSize
    BY <1>2, FS_RemoveElement, RunsAssumption
  <2> QED
    BY <1>1, <1>4, <2>1 DEF TypeOK, Ended
<1>5. CASE holds' = holds /\ ~Ended(r)'
  BY <1>1, <1>5 DEF TypeOK, Ended
<1>6. \/ holds' = holds \union {r} /\ Cardinality(holds) < PoolSize /\ ~Ended(r)'
      \/ holds' = holds \ {r}
      \/ holds' = holds /\ ~Ended(r)'
  <2> USE DEF Go, Reply, Committed, Ended, TypeOK
  <2>1. CASE Connect(r) \/ Refuse(r) \/ GiveUp(r)
    BY <2>1 DEF Connect, Refuse, GiveUp, ConnectionFree
  <2>2. CASE Accept(r) \/ LoadDocuments(r) \/ LookForEngine(r) \/ LockEngine(r)
    BY <2>2 DEF Accept, LoadDocuments, LookForEngine, LockEngine
  <2>3. CASE BuildEngine(r) \/ Work(r) \/ Save(r) \/ SaveFails(r)
    BY <2>3 DEF BuildEngine, Work, Save, SaveFails
  <2>4. CASE Audit(r) \/ AuditFails(r) \/ SaveError(r) \/ AuditError(r) \/ AuditErrorFails(r)
    BY <2>4 DEF Audit, AuditFails, SaveError, AuditError, AuditErrorFails
  <2>5. CASE Find(r) \/ Delete(r) \/ AuditDelete(r) \/ AuditDeleteFails(r) \/ Answer(r)
    BY <2>5 DEF Find, Delete, AuditDelete, AuditDeleteFails, Answer
  <2> QED
    BY <2>1, <2>2, <2>3, <2>4, <2>5 DEF Step
<1> QED
  BY <1>3, <1>4, <1>5, <1>6

StoreTypes ==
    /\ row \in [Runner -> SUBSET {"ok", "error"}]
    /\ lines \in [Runner -> SUBSET [kind : {"ok", "error", "deleted"}, by : Request]]
    /\ answer \in [Request -> {"none", "refused", "ok", "error", "500", "404", "deleted"}]
    /\ lost \subseteq Request
EngineTypes ==
    /\ engine \in {"none", "ready", "failed"} /\ builds \in Nat
    /\ builder \in Request \union {Nobody}

LEMMA StoreStep ==
    ASSUME TypeOK, PlacesOK, NEW r \in Request, Step(r)
    PROVE  StoreTypes'
<1> USE DEF TypeOK, StoreTypes, Go, Reply, Committed, Store
<1>0. /\ r \in Deleter => target[r] \in Runner
      /\ pc[r] \in RunnerPlace \ DeleterPlace => r \in Runner
      /\ pc[r] \in {"delete", "auditDelete"} => r \in Deleter
  BY DEF Request, PlacesOK, RunnerPlace
<1>1. CASE Connect(r) \/ Refuse(r) \/ GiveUp(r) \/ Accept(r) \/ LoadDocuments(r)
  BY <1>1 DEF Connect, Refuse, GiveUp, Accept, LoadDocuments
<1>2. CASE LookForEngine(r) \/ LockEngine(r) \/ BuildEngine(r) \/ Work(r)
  BY <1>2 DEF LookForEngine, LockEngine, BuildEngine, Work
<1>3. CASE SaveFails(r) \/ AuditFails(r) \/ AuditErrorFails(r) \/ AuditDeleteFails(r) \/ Find(r)
  BY <1>3 DEF SaveFails, AuditFails, AuditErrorFails, AuditDeleteFails, Find
<1>4. CASE Save(r) \/ SaveError(r)
  BY <1>0, <1>4 DEF Save, SaveError, StoreRow, RunnerPlace, DeleterPlace, Place
<1>5. CASE Audit(r) \/ AuditError(r)
  BY <1>0, <1>5 DEF Audit, AuditError, StoreLine, Line, RunnerPlace, DeleterPlace, Place
<1>6. CASE Delete(r)
  BY <1>0, <1>6 DEF Delete
<1>7. CASE AuditDelete(r)
  BY <1>0, <1>7 DEF AuditDelete, StoreLine, Line
<1>8. CASE Answer(r)
  BY <1>8 DEF Answer
<1> QED
  BY <1>1, <1>2, <1>3, <1>4, <1>5, <1>6, <1>7, <1>8 DEF Step

LEMMA EngineTypeStep ==
    ASSUME TypeOK, NEW r \in Request, Step(r)
    PROVE  EngineTypes'
<1> USE DEF TypeOK, EngineTypes, Engine
<1>1. CASE Connect(r) \/ Refuse(r) \/ GiveUp(r) \/ Accept(r) \/ LoadDocuments(r)
  BY <1>1 DEF Connect, Refuse, GiveUp, Accept, LoadDocuments
<1>2. CASE LookForEngine(r) \/ LockEngine(r) \/ BuildEngine(r) \/ Work(r)
  BY <1>2 DEF LookForEngine, LockEngine, BuildEngine, Work
<1>3. CASE SaveFails(r) \/ AuditFails(r) \/ AuditErrorFails(r) \/ AuditDeleteFails(r) \/ Find(r)
  BY <1>3 DEF SaveFails, AuditFails, AuditErrorFails, AuditDeleteFails, Find
<1>4. CASE Save(r) \/ SaveError(r) \/ Audit(r) \/ AuditError(r) \/ Delete(r) \/ AuditDelete(r) \/ Answer(r)
  BY <1>4 DEF Save, SaveError, Audit, AuditError, Delete, AuditDelete, Answer
<1> QED
  BY <1>1, <1>2, <1>3, <1>4 DEF Step

LEMMA TypeInit == Init => TypeOK /\ PlacesOK
<1> SUFFICES ASSUME Init PROVE TypeOK /\ PlacesOK
  OBVIOUS
<1>1. Cardinality({}) = 0
  BY FS_EmptySet
<1> QED
  BY <1>1, RunsAssumption DEF Init, TypeOK, PlacesOK, Place, RunnerPlace, DeleterPlace, Request

LEMMA TypeNext == TypeOK /\ PlacesOK /\ [Next]_vars => TypeOK' /\ PlacesOK'
<1> SUFFICES ASSUME TypeOK, PlacesOK, [Next]_vars PROVE TypeOK' /\ PlacesOK'
  OBVIOUS
<1>1. CASE UNCHANGED vars
  BY <1>1 DEF vars, TypeOK, PlacesOK, Ended
<1>2. CASE Crash
  <2>1. Cardinality({}) = 0
    BY FS_EmptySet
  <2>2. PlacesOK'
    BY <1>2 DEF Crash, PlacesOK, TypeOK, Ended, RunnerPlace, DeleterPlace, Place, Request
  <2>3. pc' \in [Request -> Place]
    BY <1>2 DEF Crash, TypeOK, Ended, Place
  <2>4. crashes' \in 0..MaxCrashes
    BY <1>2, RunsAssumption DEF Crash, TypeOK
  <2> QED
    BY <1>2, <2>1, <2>2, <2>3, <2>4, RunsAssumption DEF Crash, TypeOK, Store
<1>3. CASE \E r \in Request : Step(r)
  <2> PICK r \in Request : Step(r)
    BY <1>3
  <2>1. PlacesOK' /\ pc' \in [Request -> Place]
    BY StepMoves DEF TypeOK, PlacesOK, Request
  <2>2. target' \in [Deleter -> Runner] /\ crashes' \in 0..MaxCrashes
    BY StepMoves DEF TypeOK
  <2> QED
    BY <2>1, <2>2, PoolStep, StoreStep, EngineTypeStep DEF TypeOK, StoreTypes, EngineTypes
<1> QED
  BY <1>1, <1>2, <1>3 DEF Next

\* Types; what a request holds it gives back when it ends, and the pool lends no more than it has.
THEOREM RunsTypeCorrect == Spec => []TypeOK
<1>1. Spec => [](TypeOK /\ PlacesOK)
  BY TypeInit, TypeNext, PTL DEF Spec
<1> QED
  BY <1>1, PTL

-----------------------------------------------------------------------------
(* The engine. *)

\* What builders rely on, with what the property says.
EngineOK == EngineInv /\ EngineIsBuiltOnce

LEMMA EngineStep ==
    ASSUME TypeOK, PlacesOK, EngineOK, NEW r \in Request, Step(r)
    PROVE  EngineOK'
<1> USE DEF TypeOK, EngineOK, EngineInv, EngineIsBuiltOnce, Engine, Go, Reply, Committed
<1>0. Nobody \notin Request /\ Runner \subseteq Request
  BY RunsAssumption DEF Request
<1>1. CASE Connect(r) \/ Refuse(r) \/ GiveUp(r) \/ Accept(r) \/ LoadDocuments(r)
  BY <1>0, <1>1 DEF Connect, Refuse, GiveUp, Accept, LoadDocuments
<1>2. CASE SaveFails(r) \/ AuditFails(r) \/ AuditErrorFails(r) \/ AuditDeleteFails(r) \/ Find(r)
  BY <1>0, <1>2 DEF SaveFails, AuditFails, AuditErrorFails, AuditDeleteFails, Find
<1>3. CASE Save(r) \/ SaveError(r) \/ Audit(r) \/ AuditError(r) \/ Delete(r) \/ AuditDelete(r) \/ Answer(r)
  BY <1>0, <1>3 DEF Save, SaveError, Audit, AuditError, Delete, AuditDelete, Answer
<1>4. CASE Work(r)
  BY <1>0, <1>4 DEF Work
<1>5. CASE LookForEngine(r)
  <2>1. CASE engine = "ready" /\ pc' = [pc EXCEPT ![r] = "model"]
    BY <1>0, <1>5, <2>1 DEF LookForEngine
  <2>2. CASE pc' = [pc EXCEPT ![r] = "save"] \/ pc' = [pc EXCEPT ![r] = "lock"]
    BY <1>0, <1>5, <2>2 DEF LookForEngine
  <2> QED
    BY <1>5, <2>1, <2>2 DEF LookForEngine
<1>6. CASE LockEngine(r)
  BY <1>0, <1>6 DEF LockEngine, FoundUnderLock
<1>7. CASE BuildEngine(r)
  <2>1. builder = r /\ engine = "none" /\ builds = 0
    BY <1>0, <1>7 DEF BuildEngine
  <2>2. \A s \in Request \ {r} : pc[s] # "build" /\ (s \in Runner => pc[s] # "model")
    BY <1>0, <2>1
  <2>3. builds' = 1 /\ engine' # "none" /\ builder' = Nobody
    BY <1>7, <2>1 DEF BuildEngine
  <2>4. \A s \in Request : pc'[s] # "build"
    BY <1>0, <1>7, <2>2 DEF BuildEngine
  <2>5. \A s \in Runner : pc'[s] = "model" => engine' = "ready"
    BY <1>0, <1>7, <2>1, <2>2 DEF BuildEngine
  <2> QED
    BY <2>3, <2>4, <2>5
<1> QED
  BY <1>1, <1>2, <1>3, <1>4, <1>5, <1>6, <1>7 DEF Step

LEMMA EngineInit == Init => EngineOK
BY DEF Init, EngineOK, EngineInv, EngineIsBuiltOnce, Request

LEMMA EngineNext == TypeOK /\ PlacesOK /\ EngineOK /\ [Next]_vars => EngineOK'
<1> SUFFICES ASSUME TypeOK, PlacesOK, EngineOK, [Next]_vars PROVE EngineOK'
  OBVIOUS
<1>1. CASE UNCHANGED vars
  BY <1>1 DEF vars, EngineOK, EngineInv, EngineIsBuiltOnce
<1>2. CASE Crash
  <2>1. \A s \in Request : pc'[s] # "build" /\ pc'[s] # "model"
    BY <1>2 DEF Crash, Ended
  <2> QED
    BY <1>2, <2>1 DEF Crash, EngineOK, EngineInv, EngineIsBuiltOnce, Request
<1>3. CASE \E r \in Request : Step(r)
  BY <1>3, EngineStep
<1> QED
  BY <1>1, <1>2, <1>3 DEF Next

\* The engine is built once and used only when it is there (_get_engines).
THEOREM BuiltOnce == Spec => []EngineIsBuiltOnce
<1>1. EngineOK => EngineIsBuiltOnce
  BY DEF EngineOK
<1>2. Spec => [](TypeOK /\ PlacesOK /\ EngineOK)
  BY TypeInit, TypeNext, EngineInit, EngineNext, PTL DEF Spec
<1> QED
  BY <1>1, <1>2, PTL

-----------------------------------------------------------------------------
(* What callers are told. *)

RunsOK == (\A d \in Deleter : DeletionInv(d)) /\ \A r \in Runner : RunInv(r)

\* Where a request that has taken a row away can be.
AfterDelete == {"auditDelete", "deleted", "end", "dead"}

\* The store of a run whose request does not move: rows may be deleted, and deletions recorded.
LEMMA OtherRun ==
    ASSUME TypeOK, PlacesOK, RunsOK, NEW s \in Runner, RunInv(s),
           pc'[s] = pc[s], answer'[s] = answer[s], row'[s] = row[s], Written(s)' = Written(s),
           target' = target, lost \subseteq lost',
           \A d \in Deleter : pc[d] \in AfterDelete => pc'[d] \in AfterDelete
    PROVE  RunInv(s)'
<1>1. WasDeleted(s) => WasDeleted(s)'
  BY DEF WasDeleted, AfterDelete
<1>2. \A kind \in {"ok", "error"} : Says(s, kind) => Says(s, kind)'
  BY DEF Says
<1>3. \A kind \in {"ok", "error"} : Accounted(s, kind) => Accounted(s, kind)'
  BY <1>1, <1>2 DEF Accounted, Line
<1> QED
  BY <1>3 DEF RunInv, Unanswered

\* What a deletion has written, when its request does not move.
LEMMA OtherDeletion ==
    ASSUME TypeOK, NEW d \in Deleter, DeletionInv(d),
           pc'[d] = pc[d], answer'[d] = answer[d], target' = target, lost \subseteq lost',
           Line("deleted", d) \in lines'[target[d]] <=> Line("deleted", d) \in lines[target[d]]
    PROVE  DeletionInv(d)'
<1>1. Says(d, "deleted") => Says(d, "deleted")'
  BY DEF Says
<1> QED
  BY <1>1 DEF DeletionInv, Line

\* A step of a runner touches only its own run.
RunnerOnly(r) ==
    /\ \A s \in Request \ {r} : pc'[s] = pc[s] /\ answer'[s] = answer[s]
    /\ \A s \in Runner \ {r} : row'[s] = row[s] /\ lines'[s] = lines[s]
    /\ lines'[r] = lines[r] \/ \E kind \in {"ok", "error"} : lines'[r] = lines[r] \union {Line(kind, r)}
    /\ target' = target /\ lost \subseteq lost'

LEMMA RunnerStep ==
    ASSUME TypeOK, PlacesOK, RunsOK, NEW r \in Runner, Step(r)
    PROVE  RunnerOnly(r) /\ RunInv(r)'
<1> USE DEF RunnerOnly, TypeOK, Go, Reply, Committed, Store, Fixed
<1>0. /\ r \in Request /\ r \notin Deleter /\ RunInv(r)
      /\ pc[r] \notin {"delete", "auditDelete", "deleted", "end", "dead"}
      /\ \A d \in Deleter : d # r
  BY RunsAssumption, StepMoves DEF Request, RunsOK, PlacesOK, RunnerPlace, Ended
<1>1. CASE Connect(r) \/ Refuse(r) \/ Accept(r) \/ LoadDocuments(r) \/ LockEngine(r)
  BY <1>0, <1>1 DEF Connect, Refuse, Accept, LoadDocuments, LockEngine, RunInv, Unanswered, Written
<1>2. CASE BuildEngine(r) \/ Work(r) \/ SaveFails(r) \/ AuditFails(r) \/ AuditErrorFails(r)
  BY <1>0, <1>2 DEF BuildEngine, Work, SaveFails, AuditFails, AuditErrorFails, RunInv, Unanswered, Written
<1>3. CASE GiveUp(r)
  BY <1>0, <1>3 DEF GiveUp, Waits, RunInv, Unanswered, Written
<1>4. CASE LookForEngine(r)
  <2>1. pc[r] = "engine" /\ \E p \in {"model", "save", "lock"} : pc' = [pc EXCEPT ![r] = p]
    BY <1>4 DEF LookForEngine
  <2> QED
    BY <1>0, <1>4, <2>1 DEF LookForEngine, RunInv, Unanswered, Written
<1>5. CASE Save(r)
  BY <1>0, <1>5 DEF Save, StoreRow, RunInv, Unanswered, Written
<1>6. CASE SaveError(r)
  BY <1>0, <1>6 DEF SaveError, Unique, StoreRow, RunInv, Unanswered, Written
<1>7. CASE Audit(r) /\ row[r] = {}
  BY <1>0, <1>7 DEF Audit, RunInv, Unanswered, Written
<1>8. CASE Audit(r) /\ row[r] # {}
  <2>1. /\ Written(r)' = {Line("ok", r)} /\ row'[r] = {"ok"}
        /\ lines'[r] = lines[r] \union {Line("ok", r)}
    BY <1>0, <1>8 DEF Audit, StoreLine, Line, RunInv, Unanswered, Written
  <2>2. \/ pc'[r] = "ok" /\ answer'[r] \notin {"ok", "error"}
        \/ pc'[r] = "end" /\ answer'[r] = "500" /\ r \in lost'
    BY <1>0, <1>8 DEF Audit, RunInv, Unanswered
  <2>3. Accounted(r, "ok")'
    BY <2>1, <2>2 DEF Accounted, Says, Line
  <2>4. RunInv(r)'
    BY <2>1, <2>2, <2>3 DEF RunInv
  <2>5. RunnerOnly(r)
    BY <1>0, <1>8, <2>1 DEF Audit, StoreLine
  <2> QED
    BY <2>4, <2>5
<1>9. CASE AuditError(r) /\ row[r] = {}
  BY <1>0, <1>9 DEF AuditError, RunInv, Unanswered, Written
<1>10. CASE AuditError(r) /\ row[r] # {}
  <2>1. /\ Written(r)' = {Line("error", r)} /\ row'[r] = {"error"}
        /\ lines'[r] = lines[r] \union {Line("error", r)}
    BY <1>0, <1>10 DEF AuditError, StoreLine, Line, RunInv, Unanswered, Written
  <2>2. \/ pc'[r] = "error" /\ answer'[r] \notin {"ok", "error"}
        \/ pc'[r] = "end" /\ answer'[r] = "500" /\ r \in lost'
    BY <1>0, <1>10 DEF AuditError, RunInv, Unanswered
  <2>3. Accounted(r, "error")'
    BY <2>1, <2>2 DEF Accounted, Says, Line
  <2>4. RunInv(r)'
    BY <2>1, <2>2, <2>3 DEF RunInv
  <2>5. RunnerOnly(r)
    BY <1>0, <1>10, <2>1 DEF AuditError, StoreLine
  <2> QED
    BY <2>4, <2>5
<1>11. CASE Find(r) \/ Delete(r) \/ AuditDelete(r) \/ AuditDeleteFails(r)
  BY <1>0, <1>11 DEF Find, Delete, AuditDelete, AuditDeleteFails
<1>12. CASE Answer(r)
  <2>1. /\ pc[r] \in {"ok", "error"} /\ Accounted(r, pc[r])
        /\ pc' = [pc EXCEPT ![r] = "end"] /\ answer' = [answer EXCEPT ![r] = pc[r]]
        /\ UNCHANGED <<row, lines, lost, target>>
    BY <1>0, <1>12 DEF Answer, RunInv, PlacesOK, RunnerPlace, Place
  <2>2. pc'[r] = "end" /\ answer'[r] = pc[r]
    BY <1>0, <2>1
  <2>3. WasDeleted(r) => WasDeleted(r)'
    BY <1>0, <2>1 DEF WasDeleted
  <2>4. \A kind \in {"ok", "error"} : kind = pc[r] => Accounted(r, kind)'
    BY <2>1, <2>2, <2>3 DEF Accounted, Says, Written, Line
  <2>5. RunInv(r)'
    BY <1>0, <2>1, <2>2, <2>4 DEF RunInv
  <2> QED
    BY <1>0, <2>1, <2>5
<1> QED
  BY <1>1, <1>2, <1>3, <1>4, <1>5, <1>6, <1>7, <1>8, <1>9, <1>10, <1>11, <1>12 DEF Step

\* A deleter takes a row away, records it, and leaves the requests that run workflows alone.
DeleterOnly(d) ==
    /\ \A s \in Request \ {d} : pc'[s] = pc[s] /\ answer'[s] = answer[s]
    /\ \A s \in Runner :
          /\ lines'[s] = lines[s] \/ lines'[s] = lines[s] \union {Line("deleted", d)}
          /\ row'[s] = row[s] \/ (s = target[d] /\ row'[s] = {} /\ pc'[d] \in AfterDelete)
    /\ pc[d] \in AfterDelete => pc'[d] \in AfterDelete
    /\ target' = target /\ lost \subseteq lost'

LEMMA DeleterStep ==
    ASSUME TypeOK, PlacesOK, RunsOK, NEW d \in Deleter, Step(d)
    PROVE  DeleterOnly(d) /\ DeletionInv(d)'
<1> USE DEF TypeOK, Go, Reply, Committed, Store, Fixed
<1>0. /\ d \in Request /\ d \notin Runner /\ target[d] \in Runner
      /\ pc[d] \in {"new", "check", "delete", "auditDelete", "deleted"}
      /\ DeletionInv(d)
      /\ target' = target
  BY RunsAssumption, StepMoves DEF Request, RunsOK, PlacesOK, DeleterPlace, Ended
<1>7. \A s \in Request \ {d} : pc'[s] = pc[s]
  BY <1>0, StepMoves
<1>1. CASE Connect(d) \/ Refuse(d) \/ GiveUp(d) \/ Find(d) \/ AuditDeleteFails(d)
  <2>1. UNCHANGED <<row, lines, lost>>
    BY <1>1 DEF Connect, Refuse, GiveUp, Find, AuditDeleteFails
  <2>2. answer' = answer \/ \E told \in {"refused", "500", "404"} : answer' = [answer EXCEPT ![d] = told]
    BY <1>1 DEF Connect, Refuse, GiveUp, Find, AuditDeleteFails
  <2>3. (\A s \in Request \ {d} : answer'[s] = answer[s]) /\ (answer'[d] = "deleted" => answer[d] = "deleted")
    BY <1>0, <2>2
  <2>4. /\ pc[d] # "deleted" /\ pc'[d] \in {"check", "delete", "end"}
        /\ pc[d] = "auditDelete" => pc'[d] = "end"
    <3>1. CASE Connect(d) \/ Find(d)
      BY <1>0, <3>1 DEF Connect, Find
    <3>2. CASE Refuse(d) \/ GiveUp(d) \/ AuditDeleteFails(d)
      BY <1>0, <3>2 DEF Refuse, GiveUp, Waits, AuditDeleteFails
    <3> QED
      BY <1>1, <3>1, <3>2
  <2>5. DeletionInv(d)'
    BY <1>0, <2>1, <2>3, <2>4 DEF DeletionInv, Line
  <2> QED
    BY <1>0, <1>7, <2>1, <2>3, <2>4, <2>5 DEF DeleterOnly, AfterDelete
<1>3. CASE Delete(d)
  <2>1. lines' = lines /\ row' = [row EXCEPT ![target[d]] = {}]
    BY <1>3 DEF Delete
  <2>2. \/ pc'[d] = "auditDelete" /\ answer' = answer /\ lost' = lost
        \/ pc'[d] = "end" /\ answer' = [answer EXCEPT ![d] = "500"] /\ lost' = lost \union {d}
    BY <1>0, <1>3 DEF Delete
  <2>3. pc[d] = "delete"
    BY <1>3 DEF Delete
  <2>4. DeletionInv(d)'
    BY <1>0, <2>1, <2>2, <2>3 DEF DeletionInv, Line
  <2> QED
    BY <1>0, <1>7, <2>1, <2>2, <2>3, <2>4 DEF DeleterOnly, AfterDelete
<1>4. CASE AuditDelete(d)
  <2>1. lines' = [lines EXCEPT ![target[d]] = @ \union {Line("deleted", d)}] /\ row' = row
    BY <1>4 DEF AuditDelete, StoreLine
  <2>2. \/ pc'[d] = "deleted" /\ answer' = answer /\ lost' = lost
        \/ pc'[d] = "end" /\ answer' = [answer EXCEPT ![d] = "500"] /\ lost' = lost \union {d}
    BY <1>0, <1>4 DEF AuditDelete
  <2>3. Line("deleted", d) \in lines'[target[d]]
    BY <1>0, <2>1
  <2>4. DeletionInv(d)'
    BY <1>0, <2>2, <2>3 DEF DeletionInv, Says, Line
  <2> QED
    BY <1>0, <1>7, <2>1, <2>2, <2>4 DEF DeleterOnly, AfterDelete
<1>8. CASE Answer(d)
  <2>1. /\ UNCHANGED <<row, lines, lost>> /\ pc'[d] = "end" /\ pc[d] = "deleted"
        /\ answer' = [answer EXCEPT ![d] = "deleted"]
    BY <1>0, <1>8 DEF Answer
  <2>2. DeletionInv(d)'
    BY <1>0, <2>1 DEF DeletionInv, Says, Line
  <2> QED
    BY <1>0, <1>7, <2>1, <2>2 DEF DeleterOnly, AfterDelete
<1>5. ~(Accept(d) \/ LoadDocuments(d) \/ LookForEngine(d) \/ LockEngine(d) \/ BuildEngine(d) \/ Work(d))
  BY <1>0 DEF Accept, LoadDocuments, LookForEngine, LockEngine, BuildEngine, Work
<1>6. ~(Save(d) \/ SaveFails(d) \/ Audit(d) \/ AuditFails(d) \/ SaveError(d) \/ AuditError(d) \/ AuditErrorFails(d))
  BY <1>0 DEF Save, SaveFails, Audit, AuditFails, SaveError, AuditError, AuditErrorFails
<1> QED
  BY <1>1, <1>3, <1>4, <1>5, <1>6, <1>8 DEF Step

\* A run that was executed and whose row goes has its deleter.
LEMMA RowGoes ==
    ASSUME NEW s \in Runner, NEW d \in Deleter, RunInv(s), target' = target, target[d] = s,
           pc'[s] = pc[s], answer'[s] = answer[s], Written(s)' = Written(s), row'[s] = {},
           pc'[d] \in AfterDelete, lost \subseteq lost'
    PROVE  RunInv(s)'
<1>1. WasDeleted(s)'
  BY DEF WasDeleted, AfterDelete
<1>2. \A kind \in {"ok", "error"} : Says(s, kind) => Says(s, kind)'
  BY DEF Says
<1>3. \A kind \in {"ok", "error"} : Accounted(s, kind) => Accounted(s, kind)'
  BY <1>1, <1>2 DEF Accounted, Line
<1> QED
  BY <1>3 DEF RunInv, Unanswered

LEMMA RunsNext == TypeOK /\ PlacesOK /\ RunsOK /\ [Next]_vars => RunsOK'
<1> SUFFICES ASSUME TypeOK, PlacesOK, RunsOK, [Next]_vars PROVE RunsOK'
  OBVIOUS
<1>0. Request = Runner \union Deleter /\ Runner \intersect Deleter = {}
  BY RunsAssumption DEF Request
<1>1. CASE UNCHANGED vars
  <2>1. UNCHANGED <<pc, target, row, lines, answer, lost>>
    BY <1>1 DEF vars
  <2>2. \A s \in Runner : RunInv(s)'
    <3>1. \A s \in Runner : Written(s)' = Written(s)
      BY <2>1 DEF Written
    <3> QED
      BY <2>1, <3>1, OtherRun DEF RunsOK
  <2>3. \A d \in Deleter : DeletionInv(d)'
    BY <2>1, OtherDeletion DEF RunsOK, Line
  <2> QED
    BY <2>2, <2>3 DEF RunsOK
<1>2. CASE Crash
  <2>1. /\ \A r \in Request : pc'[r] = IF Ended(r) THEN pc[r] ELSE "dead"
        /\ UNCHANGED <<target, row, lines, answer, lost>>
    BY <1>2 DEF Crash, Store
  <2>2. ASSUME NEW s \in Runner PROVE RunInv(s)'
    <3>1. RunInv(s) /\ Written(s)' = Written(s)
      BY <2>1 DEF RunsOK, Written
    <3>2. pc'[s] \in {"end", "dead"} /\ (pc[s] # "end" => pc'[s] = "dead")
      BY <1>0, <2>1 DEF Ended
    <3>3. WasDeleted(s) => WasDeleted(s)'
      BY <1>0, <2>1 DEF Ended, WasDeleted
    <3>4. \A kind \in {"ok", "error"} : Says(s, kind) => Says(s, kind)'
      BY <2>1, <3>2 DEF Says
    <3>5. \A kind \in {"ok", "error"} : Accounted(s, kind) => Accounted(s, kind)'
      BY <2>1, <3>1, <3>3, <3>4 DEF Accounted, Line
    <3> QED
      BY <2>1, <3>1, <3>2, <3>5 DEF RunInv, Unanswered
  <2>3. ASSUME NEW d \in Deleter PROVE DeletionInv(d)'
    <3>1. DeletionInv(d) /\ pc'[d] \in {"end", "dead"} /\ (pc[d] # "end" => pc'[d] = "dead")
      BY <1>0, <2>1 DEF RunsOK, Ended
    <3> QED
      BY <2>1, <3>1 DEF DeletionInv, Says, Line
  <2> QED
    BY <2>2, <2>3 DEF RunsOK
<1>3. ASSUME NEW r \in Runner, Step(r) PROVE RunsOK'
  <2>1. RunnerOnly(r) /\ RunInv(r)'
    BY <1>3, RunnerStep
  <2>2. ASSUME NEW s \in Runner \ {r} PROVE RunInv(s)'
    <3>1. RunInv(s) /\ Written(s)' = Written(s)
      BY <2>1 DEF RunsOK, RunnerOnly, Written
    <3>2. \A d \in Deleter : pc'[d] = pc[d]
      BY <1>0, <2>1 DEF RunnerOnly
    <3> QED
      BY <1>0, <2>1, <3>1, <3>2, OtherRun DEF RunnerOnly
  <2>3. ASSUME NEW d \in Deleter PROVE DeletionInv(d)'
    <3>1. \A s \in Runner : Line("deleted", d) \in lines'[s] <=> Line("deleted", d) \in lines[s]
      BY <2>1 DEF RunnerOnly, Line
    <3>2. target[d] \in Runner
      BY DEF TypeOK
    <3> QED
      BY <1>0, <2>1, <3>1, <3>2, OtherDeletion DEF RunsOK, RunnerOnly
  <2> QED
    BY <2>1, <2>2, <2>3 DEF RunsOK
<1>4. ASSUME NEW d \in Deleter, Step(d) PROVE RunsOK'
  <2>0. DeleterOnly(d) /\ DeletionInv(d)'
    BY <1>4, DeleterStep
  <2>1. ASSUME NEW s \in Runner PROVE RunInv(s)'
    <3>1. Written(s)' = Written(s)
      BY <2>0 DEF DeleterOnly, Written, Line
    <3>2. /\ pc'[s] = pc[s] /\ answer'[s] = answer[s] /\ RunInv(s) /\ target' = target /\ lost \subseteq lost'
          /\ \A c \in Deleter : pc[c] \in AfterDelete => pc'[c] \in AfterDelete
      BY <1>0, <2>0 DEF RunsOK, DeleterOnly
    <3>3. CASE row'[s] = row[s]
      BY <3>1, <3>2, <3>3, OtherRun
    <3>4. CASE row'[s] # row[s]
      <4>1. s = target[d] /\ row'[s] = {} /\ pc'[d] \in AfterDelete
        BY <2>0, <3>4 DEF DeleterOnly
      <4> QED
        BY <3>1, <3>2, <4>1, RowGoes
    <3> QED
      BY <3>3, <3>4
  <2>2. ASSUME NEW c \in Deleter, c # d PROVE DeletionInv(c)'
    <3>1. target[c] \in Runner
      BY DEF TypeOK
    <3>2. Line("deleted", c) \in lines'[target[c]] <=> Line("deleted", c) \in lines[target[c]]
      BY <2>0, <2>2, <3>1 DEF DeleterOnly, Line
    <3> QED
      BY <1>0, <2>0, <2>2, <3>2, OtherDeletion DEF RunsOK, DeleterOnly
  <2> QED
    BY <2>0, <2>1, <2>2 DEF RunsOK
<1> QED
  BY <1>0, <1>1, <1>2, <1>3, <1>4 DEF Next

LEMMA RunsInit == Init => RunsOK
<1> SUFFICES ASSUME Init PROVE RunsOK
  OBVIOUS
<1>1. \A r \in Runner : pc[r] = "new" /\ row[r] = {} /\ lines[r] = {} /\ answer[r] = "none"
  BY DEF Init, Request
<1>2. \A d \in Deleter : pc[d] = "new" /\ answer[d] = "none" /\ lines[target[d]] = {}
  BY DEF Init, Request
<1> QED
  BY <1>1, <1>2 DEF RunsOK, RunInv, Unanswered, Written, DeletionInv

LEMMA RunsFit == TypeOK /\ RunsOK => RunsAreAccountedFor
<1> SUFFICES ASSUME TypeOK, RunsOK PROVE RunsAreAccountedFor
  OBVIOUS
<1>1. ASSUME NEW r \in Runner PROVE Cardinality(row[r]) <= 1
  <2>1. row[r] \in {{}, {"ok"}, {"error"}}
    BY DEF RunsOK, RunInv
  <2>2. Cardinality({}) = 0 /\ Cardinality({"ok"}) = 1 /\ Cardinality({"error"}) = 1
    BY FS_EmptySet, FS_Singleton
  <2> QED
    BY <2>1, <2>2
<1>2. ASSUME NEW r \in Runner
      PROVE  /\ answer[r] \in {"ok", "error"} => Line(answer[r], r) \in lines[r]
             /\ \/ Written(r) = {}
                \/ \E kind \in {"ok", "error"} :
                      Written(r) = {Line(kind, r)} /\ Says(r, kind) /\ (row[r] = {kind} \/ WasDeleted(r))
  <2>1. RunInv(r)
    BY DEF RunsOK
  <2>2. answer[r] \in {"ok", "error"} => Line(answer[r], r) \in Written(r)
    BY <2>1 DEF RunInv, Accounted
  <2> QED
    BY <2>1, <2>2 DEF RunInv, Accounted, Written
<1> QED
  BY <1>1, <1>2 DEF RunsAreAccountedFor, RunsOK, DeletionInv

\* What a caller is told is what was recorded, unless the process died or the answer to a COMMIT
\* was lost between the two (run_workflow, delete_workflow_run).
THEOREM AccountedFor == Spec => []RunsAreAccountedFor
<1>1. Spec => [](TypeOK /\ PlacesOK /\ RunsOK)
  BY TypeInit, TypeNext, RunsInit, RunsNext, PTL DEF Spec
<1> QED
  BY <1>1, RunsFit, PTL
=============================================================================
