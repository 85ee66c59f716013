---------------------------- MODULE MCBackOffice ----------------------------
(* Four modules in one run: in each behaviour one of them moves and the others stand *)
(* still.  Most are explored in parts, so that overlapping requests, many records and *)
(* the passing of time need not be combined.                                          *)
EXTENDS Onboarding, GovernanceRecords, Access, TenantModules, TLC

CONSTANTS
    a1, a2, t1, t2,           \* accounts, tenants
    ann, bob, sue, us, hq,    \* users and tenants
    e1, e2, h1, h2, v1, v2, v3, u1, u2   \* requests

VARIABLE part

MCTemplate ==
    << [phase |-> FinalPhase, position |-> 1, owner |-> "customer", visible |-> TRUE],
       [phase |-> FinalPhase, position |-> 2, owner |-> "valqeron", visible |-> FALSE] >>
MCHome == (ann :> us) @@ (bob :> hq) @@ (sue :> us)
MCOwnerOf == ("ours" :> us) @@ ("theirs" :> hq)
MCTenantOf == (ann :> us) @@ (bob :> us) @@ (sue :> hq)
MCMinWorkflows == ("starter" :> 1) @@ ("business" :> 2)
MCSeedKeys == <<"compliance_monitor", "core">>

Parts ==
    [onboarding |-> {"accounts", "projects", "tasks", "one task"},
     records    |-> {"risk", "links", "evidence"},
     access     |-> {"guesses", "crowd", "time", "administration"},
     modules    |-> {"modules"}]

\* Where a module that stands still starts.
Still ==
    /\ part \notin Parts.onboarding => account = [a \in Account |-> [status |-> "absent", org |-> {}]]
    /\ part \notin Parts.access => user = [u \in Person |-> NewUser]
    /\ part \notin Parts.modules => module = [k \in CatalogKey |-> "none"]

MCInit ==
    /\ OnboardingInit /\ RecordsInit /\ AccessInit /\ ModulesInit
    /\ part \in UNION {Parts[m] : m \in DOMAIN Parts}
    /\ Still
    /\ part \in Parts.onboarding \ {"accounts"} =>
          account = [a \in Account |-> [status |-> "live", org |-> IF a = a1 THEN {t1} ELSE {}]]

OnlyDo(whats) == \A e \in Editor : editing'[e].what \in whats \union {"nothing"}
OneEditor == \E e \in Editor : \A f \in Editor \ {e} : editing'[f] = NotEditing

OnboardingPart ==
    CASE part = "accounts" -> OnlyDo({"look", "save account"}) /\ day' = day /\ account'[a2].status \in {"absent", "lead"}
      [] part = "projects" -> OnlyDo({"start", "save project"}) /\ day' = day /\ \A e \in Editor : editing'[e].row # <<"start", a2>>
      [] OTHER ->
            /\ OnlyDo({"start", "save task"}) /\ Len(project') <= 1
            /\ \A e \in Editor : editing'[e].row # <<"start", a2>>
            /\ part = "tasks" => OneEditor
            /\ part = "one task" => \A e \in Editor : editing'[e].what = "save task" => editing'[e].row[3] = 1

OneHandler == \E h \in Handler : \A g \in Handler \ {h} : handling'[g] = NotHandling
NoPolicy == \A h \in Handler : handling[h] = NotHandling /\ owed'[h] # {} => owed'[h] = owed[h] \/ Records' # Records
NotBySue == \A h \in Handler : \A w \in owed'[h] : w.by # sue

RecordsPart ==
    CASE part = "risk" ->
            /\ incident' = incident /\ evidence' = evidence /\ action' = action
            /\ \A s \in AISystem : stage'[s] # "restricted"
            /\ \A k \in Risk : risk'[k].system \subseteq {"ours"}
      [] part = "evidence" ->
            OneHandler /\ incident' = incident /\ action' = action /\ NotBySue
      [] part = "links" ->
            /\ OneHandler /\ evidence' = evidence /\ NotBySue /\ NoPolicy
            /\ \A s \in AISystem : stage'[s] # "restricted"
            /\ \A k \in Risk : risk'[k].level # "medium"

OneVisit == \E v \in Visit : \A w \in Visit \ {v} : visit'[w] = NotVisiting

\* Three requests at a time where nothing but guesses happens, two elsewhere.
AccessPart ==
    /\ part # "crowd" => visit'[v3] = NotVisiting
    /\ CASE part = "guesses" ->
              /\ \A u \in {bob, sue} : ~user[u].exists /\ ~user'[u].exists
              /\ \A token \in tokens' : ~token.mfa
         [] part = "crowd" ->
              /\ \A u \in {bob, sue} : ~user[u].exists
              /\ tick' = tick /\ tokens' = {} /\ ~user[ann].mustChange
         [] part = "time" ->
              /\ OneVisit /\ ~user[sue].exists /\ ~user[bob].mustChange
              /\ wrong'[bob] = 0
         [] part = "administration" ->
              /\ tick' = tick /\ \A u \in Person : wrong'[u] = 0 /\ ~user[u].mustChange
              /\ \A token \in tokens' : token.mfa <=> token.user = sue
              /\ \A v \in Visit : visit'[v].what # "change"

MCNext ==
    /\ UNCHANGED part
    /\ \/ part \in Parts.onboarding /\ OnboardingNext /\ OnboardingPart /\ UNCHANGED <<recordsVars, accessVars, modulesVars>>
       \/ part \in Parts.records /\ RecordsNext /\ RecordsPart /\ UNCHANGED <<onboardingVars, accessVars, modulesVars>>
       \/ part \in Parts.access /\ AccessNext /\ AccessPart /\ UNCHANGED <<onboardingVars, recordsVars, modulesVars>>
       \/ part \in Parts.modules /\ ModulesNext /\ UNCHANGED <<onboardingVars, recordsVars, accessVars>>

MCSpec == MCInit /\ [][MCNext]_<<part, onboardingVars, recordsVars, accessVars, modulesVars>>

\* Only one module's requests move, so that all may be exchanged at once.
Exchange ==
    (e1 :> e2) @@ (e2 :> e1) @@ (h1 :> h2) @@ (h2 :> h1) @@ (v1 :> v2) @@ (v2 :> v1) @@ (u1 :> u2) @@ (u2 :> u1)
Slots == {[x \in DOMAIN Exchange |-> IF moved THEN Exchange[x] ELSE x] : moved \in BOOLEAN}
=============================================================================
