------------------------- MODULE HeadquartersProofs -------------------------
(***************************************************************************)
(* Theorems about what headquarters keeps of its customers, for any number *)
(* of accounts, tenants, projects, tasks and overlapping requests: a       *)
(* tenant belongs to one account, a second open project has a reason, and  *)
(* stamps say what statuses say (Onboarding); the rules of a tier hold for *)
(* any catalog and any tiers, also while the deploy script seeds the       *)
(* tenant (TenantModules); for any calls, parameters and failures, tenants *)
(* are provisioned whole, files follow rows, answers are true, and the     *)
(* committed rows implement the registry of tenants (Provisioning).        *)
(***************************************************************************)
EXTENDS Onboarding, TenantModules, Provisioning, FiniteSetTheorems, SequenceTheorems, WellFoundedInduction, TLAPS

AccountStatus == Terminal \union {"lead", "qualified", "proposal", "contract", "onboarding", "live"}
AccountRow == [status : AccountStatus \union {"absent"}, org : SUBSET Tenant]

\* What a request is going to do is a record, whatever is in it.
Shape ==
    /\ editing = [e \in Editor |-> editing[e]]
    /\ \A e \in Editor : editing[e] = [what |-> editing[e].what, row |-> editing[e].row, set |-> editing[e].set]

\* An account that is about to be written is there, and still has no tenant if it is to get
\* one, unless requests crossed.
AccountEdit(e) ==
    editing[e].what \in {"look", "save account"} =>
        \E a \in Account :
            /\ editing[e].row = <<"account", a>> /\ Exists(a)
            /\ DOMAIN editing[e].set \subseteq {"status", "org"}
            /\ "status" \in DOMAIN editing[e].set => editing[e].set["status"] \in AccountStatus
            /\ "org" \in DOMAIN editing[e].set =>
                  /\ editing[e].set["org"] \in SUBSET Tenant
                  /\ account[a].org = {} \/ <<"account", a>> \in crossed

TenantsApart == \A a, b \in Account : a # b => account[a].org \intersect account[b].org = {}

AccountInv ==
    /\ account \in [Account -> AccountRow]
    /\ \A a \in Account : account[a].status = "absent" => account[a].org = {}
    /\ TenantsApart
    /\ \A e \in Editor : AccountEdit(e)

-----------------------------------------------------------------------------
(* Requests. *)

LEMMA ShapeInit == OnboardingInit => Shape
BY DEF OnboardingInit, Shape, NotEditing

LEMMA ShapeKept ==
    ASSUME Shape, NEW e \in Editor, NEW w, NEW r, NEW s,
           editing' = [editing EXCEPT ![e] = [what |-> w, row |-> r, set |-> s]]
    PROVE  Shape'
BY DEF Shape

\* Every step but one plans or ends one request's work.
LEMMA Steps ==
    ASSUME Shape, [OnboardingNext]_onboardingVars
    PROVE  /\ Shape'
           /\ \/ editing' = editing
              \/ \E e \in Editor : \E plan : editing' = [editing EXCEPT ![e] = plan]
<1> USE DEF Shape, NotEditing
<1>1. CASE UNCHANGED onboardingVars
  BY <1>1 DEF onboardingVars
<1>2. CASE DayPasses \/ \E a \in Account : CreateAccount(a)
  BY <1>2 DEF DayPasses, CreateAccount
<1>3. ASSUME NEW e \in Editor, NEW what, NEW row, NEW set, Decides(e, what, row, set)
      PROVE  Shape' /\ \E plan : editing' = [editing EXCEPT ![e] = plan]
  BY <1>3 DEF Decides
<1>4. ASSUME NEW e \in Editor, Ends(e)
      PROVE  Shape' /\ \E plan : editing' = [editing EXCEPT ![e] = plan]
  BY <1>4 DEF Ends
<1>5. ASSUME NEW e \in Editor, NotSaved(e) \/ LookForOther(e)
      PROVE  Shape' /\ \E plan : editing' = [editing EXCEPT ![e] = plan]
  <2>1. CASE NotSaved(e)
    BY <2>1 DEF NotSaved
  <2>2. CASE LookForOther(e)
    <3>1. CASE editing' = [editing EXCEPT ![e] = NotEditing]
      BY <3>1, ShapeKept
    <3>2. CASE editing' = [editing EXCEPT ![e] = [what |-> "save account", row |-> editing[e].row, set |-> editing[e].set]]
      BY <3>2, ShapeKept
    <3> QED
      BY <2>2, <3>1, <3>2 DEF LookForOther
  <2> QED
    BY <1>5, <2>1, <2>2
<1>6. ASSUME NEW e \in Editor, NEW a \in Account,
             \/ ChangeStatus(e, a) \/ Link(e, a) \/ SaveAccount(e, a) \/ StartProject(e, a) \/ InsertProject(e, a)
      PROVE  Shape' /\ \E plan : editing' = [editing EXCEPT ![e] = plan]
  BY <1>3, <1>4, <1>6 DEF ChangeStatus, Link, SaveAccount, StartProject, InsertProject
<1>7. ASSUME NEW e \in Editor, NEW p \in DOMAIN project, UpdateProject(e, p) \/ SaveProject(e, p)
      PROVE  Shape' /\ \E plan : editing' = [editing EXCEPT ![e] = plan]
  BY <1>3, <1>4, <1>7 DEF UpdateProject, SaveProject
<1>8. ASSUME NEW e \in Editor, NEW p \in DOMAIN project, NEW k \in TaskNo,
             UpdateTask(e, p, k) \/ UpdateOnboardingTask(e, p, k) \/ SaveTask(e, p, k)
      PROVE  Shape' /\ \E plan : editing' = [editing EXCEPT ![e] = plan]
  BY <1>3, <1>4, <1>8 DEF UpdateTask, UpdateOnboardingTask, SaveTask
<1> QED
  BY <1>1, <1>2, <1>5, <1>6, <1>7, <1>8 DEF OnboardingNext

-----------------------------------------------------------------------------
(* Accounts. *)

\* What an update makes of an account.
LEMMA UpdatedAccount ==
    ASSUME NEW row \in AccountRow, NEW set, DOMAIN set \subseteq {"status", "org"},
           "status" \in DOMAIN set => set["status"] \in AccountStatus,
           "org" \in DOMAIN set => set["org"] \in SUBSET Tenant
    PROVE  /\ Updated(row, set) \in AccountRow
           /\ Updated(row, set).status = IF "status" \in DOMAIN set THEN set["status"] ELSE row.status
           /\ Updated(row, set).org = IF "org" \in DOMAIN set THEN set["org"] ELSE row.org
<1>1. DOMAIN row = {"status", "org"} /\ row.status \in AccountStatus \union {"absent"} /\ row.org \in SUBSET Tenant
  BY DEF AccountRow
<1>2. Updated(row, set) = [status |-> IF "status" \in DOMAIN set THEN set["status"] ELSE row.status,
                           org |-> IF "org" \in DOMAIN set THEN set["org"] ELSE row.org]
  BY <1>1 DEF Updated
<1> QED
  BY <1>1, <1>2 DEF AccountRow

LEMMA AccountInit == OnboardingInit => AccountInv
<1> SUFFICES ASSUME OnboardingInit PROVE AccountInv
  OBVIOUS
<1>1. account \in [Account -> AccountRow]
  <2>1. [status : {"absent", "lead", "live"}, org : {{}} \union {{o} : o \in Tenant}] \subseteq AccountRow
    BY DEF AccountRow, AccountStatus
  <2> QED
    BY <2>1 DEF OnboardingInit
<1>2. \A e \in Editor : AccountEdit(e)
  BY DEF OnboardingInit, AccountEdit, NotEditing
<1> QED
  BY <1>1, <1>2 DEF OnboardingInit, AccountInv, TenantsApart

\* A request that does nothing new still fits the accounts, if they keep their tenants.
LEMMA AccountEditKept ==
    ASSUME NEW e \in Editor, AccountEdit(e),
           editing'[e] = editing[e] \/ editing'[e].what \notin {"look", "save account"},
           crossed \subseteq crossed',
           \A a \in Account : Exists(a) => Exists(a)',
           \A a \in Account :
              \/ account'[a].org = account[a].org
              \/ <<"account", a>> \in crossed'
              \/ editing[e].row # <<"account", a>>
    PROVE  AccountEdit(e)'
<1> SUFFICES ASSUME editing'[e].what \in {"look", "save account"}
             PROVE  AccountEdit(e)'
  BY DEF AccountEdit
<1>1. editing'[e] = editing[e]
  OBVIOUS
<1>2. PICK a \in Account :
         /\ editing[e].row = <<"account", a>> /\ Exists(a)
         /\ DOMAIN editing[e].set \subseteq {"status", "org"}
         /\ "status" \in DOMAIN editing[e].set => editing[e].set["status"] \in AccountStatus
         /\ "org" \in DOMAIN editing[e].set =>
               /\ editing[e].set["org"] \in SUBSET Tenant
               /\ account[a].org = {} \/ <<"account", a>> \in crossed
  BY <1>1 DEF AccountEdit
<1>3. Exists(a)' /\ ("org" \in DOMAIN editing[e].set => (account'[a].org = {} \/ <<"account", a>> \in crossed'))
  BY <1>2
<1> QED
  BY <1>1, <1>2, <1>3 DEF AccountEdit

\* One request plans or ends its work, the others wait, the accounts stay.
LEMMA OneAccountEdit ==
    ASSUME AccountInv, Shape, NEW e \in Editor, NEW plan,
           editing' = [editing EXCEPT ![e] = plan], account' = account, crossed \subseteq crossed',
           plan.what \notin {"look", "save account"} \/ AccountEdit(e)'
    PROVE  AccountInv'
<1>1. \A f \in Editor : AccountEdit(f)'
  <2> TAKE f \in Editor
  <2>1. CASE f # e
    <3>1. editing'[f] = editing[f]
      BY <2>1 DEF Shape
    <3> QED
      BY <3>1, AccountEditKept DEF AccountInv, Exists
  <2>2. CASE f = e
    <3>1. editing'[e] = plan
      BY DEF Shape
    <3> QED
      BY <2>2, <3>1 DEF AccountEdit
  <2> QED
    BY <2>1, <2>2
<1> QED
  BY <1>1 DEF AccountInv, TenantsApart

\* Who a tenant belongs to, across one step.
Link1 ==
    \A a \in Account :
       account'[a].org # account[a].org =>
          /\ account[a].org = {} \/ <<"account", a>> \in crossed
          /\ \A b \in Account \ {a} : account'[a].org \intersect account'[b].org = {}

LEMMA SaveAccountStep ==
    ASSUME AccountInv, Shape, NEW e \in Editor, NEW a \in Account, SaveAccount(e, a)
    PROVE  AccountInv' /\ Link1
<1> DEFINE row == Updated(account[a], editing[e].set)
<1>1. /\ editing[e].what = "save account" /\ editing[e].row = <<"account", a>>
      /\ account' = IF UniqueTenant(a, row) THEN [account EXCEPT ![a] = row] ELSE account
      /\ editing' = [editing EXCEPT ![e] = NotEditing]
      /\ crossed' = crossed \union {r \in {editing[e].row} : \E f \in Editor \ {e} : editing[f].row = r}
  BY DEF SaveAccount, Ends
<1>2. /\ DOMAIN editing[e].set \subseteq {"status", "org"} /\ Exists(a)
      /\ "status" \in DOMAIN editing[e].set => editing[e].set["status"] \in AccountStatus
      /\ "org" \in DOMAIN editing[e].set =>
            /\ editing[e].set["org"] \in SUBSET Tenant
            /\ account[a].org = {} \/ <<"account", a>> \in crossed
  <2>1. AccountEdit(e)
    BY DEF AccountInv
  <2>2. PICK c \in Account :
         /\ editing[e].row = <<"account", c>> /\ Exists(c)
         /\ DOMAIN editing[e].set \subseteq {"status", "org"}
         /\ "status" \in DOMAIN editing[e].set => editing[e].set["status"] \in AccountStatus
         /\ "org" \in DOMAIN editing[e].set =>
               /\ editing[e].set["org"] \in SUBSET Tenant
               /\ account[c].org = {} \/ <<"account", c>> \in crossed
    BY <1>1, <2>1 DEF AccountEdit
  <2>3. c = a
    <3>1. <<"account", c>>[2] = <<"account", a>>[2]
      BY <1>1, <2>2, Zenon
    <3> QED
      BY <3>1
  <2> QED
    BY <2>2, <2>3
<1>3. account[a] \in AccountRow /\ account[a].status # "absent" /\ "absent" \notin AccountStatus
  BY <1>2 DEF AccountInv, Exists, AccountStatus, Terminal
<1>4. /\ row \in AccountRow /\ row.status # "absent"
      /\ row.org = IF "org" \in DOMAIN editing[e].set THEN editing[e].set["org"] ELSE account[a].org
  BY <1>2, <1>3, UpdatedAccount
<1> HIDE DEF row
<1>5. /\ account' \in [Account -> AccountRow]
      /\ \A b \in Account \ {a} : account'[b] = account[b]
      /\ account'[a] = account[a] \/ (account'[a] = row /\ UniqueTenant(a, row))
  BY <1>1, <1>4 DEF AccountInv
<1>6. \A b \in Account : account'[b].status = "absent" => account'[b].org = {}
  BY <1>3, <1>4, <1>5 DEF AccountInv
<1>7. TenantsApart'
  BY <1>5 DEF AccountInv, TenantsApart, UniqueTenant
<1>8. \A f \in Editor : AccountEdit(f)'
  <2> TAKE f \in Editor
  <2>1. editing'[f] = editing[f] \/ editing'[f].what \notin {"look", "save account"}
    BY <1>1 DEF Shape, NotEditing
  <2>2. \A b \in Account : Exists(b) => Exists(b)'
    BY <1>3, <1>4, <1>5 DEF Exists
  <2>3. CASE f = e
    BY <1>1, <2>3 DEF Shape, NotEditing, AccountEdit
  <2>4. CASE f # e
    <3>1. \A b \in Account :
            \/ account'[b].org = account[b].org
            \/ <<"account", b>> \in crossed'
            \/ editing[f].row # <<"account", b>>
      BY <1>1, <1>5, <2>4
    <3> QED
      BY <1>1, <2>1, <2>2, <3>1, AccountEditKept DEF AccountInv
  <2> QED
    BY <2>3, <2>4
<1>9. Link1
  BY <1>2, <1>4, <1>5, <1>7 DEF Link1, TenantsApart
<1> QED
  BY <1>5, <1>6, <1>7, <1>8, <1>9 DEF AccountInv

LEMMA AccountStep ==
    ASSUME AccountInv, Shape, [OnboardingNext]_onboardingVars
    PROVE  AccountInv' /\ Link1
<1>1. CASE UNCHANGED onboardingVars
  BY <1>1 DEF onboardingVars, AccountInv, TenantsApart, AccountEdit, Exists, Link1
<1>2. CASE DayPasses
  BY <1>2 DEF DayPasses, History, AccountInv, TenantsApart, AccountEdit, Exists, Link1
<1>3. ASSUME NEW a \in Account, CreateAccount(a) PROVE AccountInv' /\ Link1
  <2>1. /\ account[a].org = {} /\ ~Exists(a) /\ account' = [account EXCEPT ![a] = [status |-> "lead", org |-> {}]]
        /\ editing' = editing /\ crossed' = crossed
    BY <1>3 DEF CreateAccount, Exists, AccountInv, History
  <2>2. /\ account' \in [Account -> AccountRow]
        /\ \A b \in Account : account'[b].org = account[b].org /\ (Exists(b) => Exists(b)')
    BY <2>1 DEF AccountInv, AccountRow, AccountStatus, Exists
  <2>3. \A e \in Editor : AccountEdit(e)'
    BY <2>1, <2>2, AccountEditKept DEF AccountInv
  <2> QED
    BY <2>1, <2>2, <2>3 DEF AccountInv, TenantsApart, Link1
<1>4. ASSUME NEW e \in Editor, account' = account, crossed \subseteq crossed',
             NEW plan, editing' = [editing EXCEPT ![e] = plan],
             plan.what \notin {"look", "save account"} \/ AccountEdit(e)'
      PROVE  AccountInv' /\ Link1
  BY <1>4, OneAccountEdit DEF Link1
<1>5. ASSUME NEW e \in Editor, NotSaved(e) \/ LookForOther(e) PROVE AccountInv' /\ Link1
  <2>1. CASE editing' = [editing EXCEPT ![e] = NotEditing]
    BY <1>4, <1>5, <2>1 DEF NotSaved, LookForOther, NotEditing, History
  <2>2. CASE LookForOther(e) /\ editing' = [editing EXCEPT ![e] = [what |-> "save account", row |-> editing[e].row, set |-> editing[e].set]]
    <3>1. AccountEdit(e) /\ editing[e].what = "look" /\ account' = account /\ crossed' = crossed
      BY <2>2 DEF LookForOther, AccountInv, History
    <3>2. PICK r, s : editing[e].row = r /\ editing[e].set = s
      OBVIOUS
    <3>3. editing'[e].row = editing[e].row /\ editing'[e].set = editing[e].set
      BY <2>2, <3>2 DEF Shape
    <3>4. AccountEdit(e)'
      BY <3>1, <3>3 DEF AccountEdit, Exists
    <3> QED
      BY <1>4, <2>2, <3>1, <3>4
  <2> QED
    BY <1>5, <2>1, <2>2 DEF NotSaved, LookForOther
<1>6. ASSUME NEW e \in Editor, NEW what, NEW row, NEW set, Decides(e, what, row, set), what \notin {"look", "save account"}
      PROVE  AccountInv' /\ Link1
  BY <1>4, <1>6 DEF Decides, History
<1>7. ASSUME NEW e \in Editor, Ends(e), account' = account PROVE AccountInv' /\ Link1
  BY <1>4, <1>7 DEF Ends, NotEditing
<1>8. ASSUME NEW e \in Editor, NEW a \in Account, ChangeStatus(e, a) \/ Link(e, a) PROVE AccountInv' /\ Link1
  <2>1. ASSUME NEW what, NEW set, Decides(e, what, <<"account", a>>, set), Exists(a),
               DOMAIN set \subseteq {"status", "org"},
               "status" \in DOMAIN set => set["status"] \in AccountStatus,
               "org" \in DOMAIN set => (set["org"] \in SUBSET Tenant /\ account[a].org = {})
        PROVE  AccountInv' /\ Link1
    <3>1. editing'[e] = [what |-> what, row |-> <<"account", a>>, set |-> set]
      BY <2>1 DEF Decides, Shape
    <3>2. editing'[e].row = <<"account", a>> /\ editing'[e].set = set /\ account' = account /\ crossed' = crossed
      BY <2>1, <3>1 DEF Decides, History
    <3>3. AccountEdit(e)'
      BY <2>1, <3>2 DEF AccountEdit, Exists
    <3> QED
      BY <1>4, <2>1, <3>2, <3>3 DEF Decides
  <2>2. CASE ChangeStatus(e, a)
    <3>1. PICK new \in Terminal \union {Pipeline[i] : i \in DOMAIN Pipeline} :
             Decides(e, "save account", <<"account", a>>, Changes(account[a], [status |-> new]))
      BY <2>2 DEF ChangeStatus
    <3>2. new \in AccountStatus
      BY DEF Pipeline, AccountStatus
    <3> DEFINE set == Changes(account[a], [status |-> new])
    <3>3. DOMAIN set \subseteq {"status"} /\ ("status" \in DOMAIN set => set["status"] = new)
      BY DEF Changes
    <3> HIDE DEF set
    <3> QED
      BY <2>1, <2>2, <3>1, <3>2, <3>3 DEF ChangeStatus, set
  <2>3. CASE Link(e, a)
    BY <2>1, <2>3 DEF Link
  <2> QED
    BY <1>8, <2>2, <2>3
<1>9. ASSUME NEW e \in Editor, NEW a \in Account, StartProject(e, a) \/ InsertProject(e, a) PROVE AccountInv' /\ Link1
  BY <1>6, <1>7, <1>9 DEF StartProject, InsertProject
<1>10. ASSUME NEW e \in Editor, NEW p \in DOMAIN project, UpdateProject(e, p) \/ SaveProject(e, p) PROVE AccountInv' /\ Link1
  <2>1. CASE UpdateProject(e, p)
    <3>1. PICK set : Decides(e, "save project", <<"project", p>>, set)
      BY <2>1 DEF UpdateProject
    <3> QED
      BY <1>6, <3>1
  <2>2. CASE SaveProject(e, p)
    BY <1>7, <2>2 DEF SaveProject
  <2> QED
    BY <1>10, <2>1, <2>2
<1>11. ASSUME NEW e \in Editor, NEW p \in DOMAIN project, NEW k \in TaskNo,
              UpdateTask(e, p, k) \/ UpdateOnboardingTask(e, p, k) \/ SaveTask(e, p, k)
       PROVE  AccountInv' /\ Link1
  <2>1. CASE UpdateTask(e, p, k) \/ UpdateOnboardingTask(e, p, k)
    <3>1. PICK set : Decides(e, "save task", <<"task", p, k>>, set)
      BY <2>1 DEF UpdateTask, UpdateOnboardingTask
    <3> QED
      BY <1>6, <3>1
  <2>2. CASE SaveTask(e, p, k)
    BY <1>7, <2>2 DEF SaveTask
  <2> QED
    BY <1>11, <2>1, <2>2
<1> QED
  BY <1>1, <1>2, <1>3, <1>5, <1>8, <1>9, <1>10, <1>11, SaveAccountStep DEF OnboardingNext

\* A tenant belongs to one account at most, and an account keeps its tenant, unless two
\* requests that write the account overlapped.
THEOREM LinkedOnce == OnboardingSpec => TenantsAreLinkedOnce
<1>1. OnboardingInit => Shape /\ AccountInv
  BY ShapeInit, AccountInit
<1>2. Shape /\ AccountInv /\ [OnboardingNext]_onboardingVars => Shape' /\ AccountInv'
  BY Steps, AccountStep
<1>3. Shape /\ AccountInv /\ [OnboardingNext]_onboardingVars =>
        [\A a \in Account :
          account'[a].org # account[a].org =>
              /\ account[a].org = {} \/ <<"account", a>> \in crossed
              /\ \A b \in Account \ {a} : account'[a].org \intersect account'[b].org = {}]_onboardingVars
  BY AccountStep DEF Link1
<1> QED
  BY <1>1, <1>2, <1>3, PTL DEF OnboardingSpec, TenantsAreLinkedOnce

-----------------------------------------------------------------------------
(* Projects. *)

ProjectRow == [account : Account, status : ProjectStatus, started : SUBSET Int, completed : SUBSET Int]

\* What an edit may put into a project.
ProjectSet(set) ==
    /\ DOMAIN set \subseteq {"status", "completed"}
    /\ "status" \in DOMAIN set => set["status"] \in ProjectStatus
    /\ "completed" \in DOMAIN set => set["completed"] \in SUBSET Int

ProjectEdits == \A e \in Editor : editing[e].what = "save project" => ProjectSet(editing[e].set)

AtMostOneOpen(a) == \A p, q \in OpenProjects(a) : p = q

NoneBesideStart(a) ==
    \A e \in Editor : editing[e].what = "start" /\ editing[e].row = <<"start", a>> => OpenProjects(a) = {}

\* As long as nothing was opened again and no two starts overlapped: one open project at
\* most, and none while a request is about to insert one.
OneAtATime ==
    \A a \in Account :
        a \notin reopened /\ <<"start", a>> \notin crossed => AtMostOneOpen(a) /\ NoneBesideStart(a)

ProjectInv ==
    /\ project \in Seq(ProjectRow) /\ day \in Int
    /\ ProjectEdits
    /\ OneAtATime

\* A request may plan this.
Allowed(what, row, set) ==
    /\ what = "save project" => ProjectSet(set)
    /\ \A a \in Account : what = "start" /\ row = <<"start", a>> => OpenProjects(a) = {}

LEMMA OtherPlansAllowed ==
    ASSUME NEW what, NEW row, NEW set, what \notin {"save project", "start"}
    PROVE  Allowed(what, row, set)
BY DEF Allowed

LEMMA ProjectInit == OnboardingInit => ProjectInv
<1> SUFFICES ASSUME OnboardingInit PROVE ProjectInv
  OBVIOUS
<1>1. \A e \in Editor : editing[e].what = "nothing"
  BY DEF OnboardingInit, NotEditing
<1>2. project = <<>> /\ day = 0 /\ \A a \in Account : OpenProjects(a) = {}
  BY DEF OnboardingInit, OpenProjects
<1>3. project \in Seq(ProjectRow)
  BY <1>2
<1>4. ProjectEdits
  BY <1>1 DEF ProjectEdits
<1>5. OneAtATime
  BY <1>1, <1>2 DEF OneAtATime, AtMostOneOpen, NoneBesideStart
<1> QED
  BY <1>2, <1>3, <1>4, <1>5 DEF ProjectInv

LEMMA UpdatedProject ==
    ASSUME NEW row \in ProjectRow, NEW set, ProjectSet(set)
    PROVE  /\ Updated(row, set) \in ProjectRow
           /\ Updated(row, set).account = row.account
<1>1. /\ DOMAIN row = {"account", "status", "started", "completed"}
      /\ row.account \in Account /\ row.status \in ProjectStatus
      /\ row.started \in SUBSET Int /\ row.completed \in SUBSET Int
  BY DEF ProjectRow
<1>2. Updated(row, set) = [account |-> row.account,
                           status |-> IF "status" \in DOMAIN set THEN set["status"] ELSE row.status,
                           started |-> row.started,
                           completed |-> IF "completed" \in DOMAIN set THEN set["completed"] ELSE row.completed]
  BY <1>1 DEF Updated, ProjectSet
<1> QED
  BY <1>1, <1>2 DEF ProjectRow, ProjectSet

\* One request plans or ends its work, the projects stay.
LEMMA OneProjectEdit ==
    ASSUME ProjectInv, Shape, NEW e \in Editor, NEW what, NEW row, NEW set,
           editing' = [editing EXCEPT ![e] = [what |-> what, row |-> row, set |-> set]],
           project' = project, day' = day, reopened' = reopened, crossed \subseteq crossed',
           Allowed(what, row, set)
    PROVE  ProjectInv'
<1>1. /\ \A f \in Editor \ {e} : editing'[f] = editing[f]
      /\ editing'[e].what = what /\ editing'[e].row = row /\ editing'[e].set = set
  BY DEF Shape
<1>2. \A a \in Account : OpenProjects(a)' = OpenProjects(a)
  BY DEF OpenProjects
<1>3. ProjectEdits'
  BY <1>1 DEF ProjectInv, ProjectEdits, Allowed
<1>4. OneAtATime'
  <2> SUFFICES ASSUME NEW a \in Account, a \notin reopened', <<"start", a>> \notin crossed'
               PROVE  AtMostOneOpen(a)' /\ NoneBesideStart(a)'
    BY DEF OneAtATime
  <2>1. AtMostOneOpen(a) /\ NoneBesideStart(a)
    BY DEF ProjectInv, OneAtATime
  <2>2. AtMostOneOpen(a)'
    BY <1>2, <2>1 DEF AtMostOneOpen
  <2>3. NoneBesideStart(a)'
    BY <1>1, <1>2, <2>1 DEF Allowed, NoneBesideStart
  <2> QED BY <2>2, <2>3
<1> QED
  BY <1>3, <1>4 DEF ProjectInv

LEMMA InsertProjectStep ==
    ASSUME ProjectInv, Shape, NEW e \in Editor, NEW a \in Account, InsertProject(e, a)
    PROVE  ProjectInv'
<1> DEFINE new == [account |-> a, status |-> "active", started |-> {day}, completed |-> {}]
<1>1. /\ editing[e].what = "start" /\ editing[e].row = <<"start", a>>
      /\ project' = Append(project, new)
      /\ editing' = [editing EXCEPT ![e] = NotEditing]
      /\ crossed' = crossed \union {r \in {editing[e].row} : \E f \in Editor \ {e} : editing[f].row = r}
      /\ day' = day /\ reopened' = reopened
  BY DEF InsertProject, Ends
<1>2. new \in ProjectRow
  BY DEF ProjectInv, ProjectRow, ProjectStatus, OpenProject
<1>3. /\ project' \in Seq(ProjectRow) /\ DOMAIN project' = DOMAIN project \union {Len(project) + 1}
      /\ \A p \in DOMAIN project : project'[p] = project[p]
      /\ project'[Len(project) + 1] = new
  BY <1>1, <1>2 DEF ProjectInv
<1>4. \A f \in Editor : editing'[f] = IF f = e THEN NotEditing ELSE editing[f]
  BY <1>1 DEF Shape
<1>5. ProjectEdits'
  <2>1. \A f \in Editor : editing'[f].what = "save project" => ProjectSet(editing'[f].set)
    <3> TAKE f \in Editor
    <3>1. CASE f = e
      <4>1. editing'[f] = NotEditing
        BY <1>4, <3>1
      <4>2. NotEditing.what # "save project"
        BY DEF NotEditing
      <4> QED
        BY <4>1, <4>2
    <3>2. CASE f # e
      <4>1. editing'[f] = editing[f]
        BY <1>4, <3>2
      <4> QED
        BY <4>1 DEF ProjectInv, ProjectEdits
    <3> QED
      BY <3>1, <3>2
  <2> QED
    BY <2>1 DEF ProjectEdits
<1>6. ASSUME NEW b \in Account, b \notin reopened', <<"start", b>> \notin crossed'
      PROVE  AtMostOneOpen(b)' /\ NoneBesideStart(b)'
  <2>1. b \notin reopened /\ <<"start", b>> \notin crossed
    BY <1>1, <1>6
  <2>2. CASE b = a
    <3>1. OpenProjects(a) = {}
      BY <1>1, <2>1, <2>2 DEF ProjectInv, OneAtATime, NoneBesideStart
    <3>2. OpenProjects(a)' \subseteq {Len(project) + 1}
      BY <1>3, <3>1 DEF OpenProjects
    <3>3. \A f \in Editor \ {e} : editing[f].row # <<"start", a>>
      BY <1>1, <1>6, <2>2
    <3>4. NoneBesideStart(b)'
      BY <1>4, <2>2, <3>3 DEF NoneBesideStart, NotEditing
    <3> QED
      BY <2>2, <3>2, <3>4 DEF AtMostOneOpen
  <2>3. CASE b # a
    <3>1. OpenProjects(b)' = OpenProjects(b)
      BY <1>3, <2>3 DEF OpenProjects
    <3> QED
      BY <1>4, <2>1, <3>1 DEF ProjectInv, OneAtATime, AtMostOneOpen, NoneBesideStart, NotEditing
  <2> QED
    BY <2>2, <2>3
<1> QED
  BY <1>1, <1>3, <1>5, <1>6 DEF ProjectInv, OneAtATime

LEMMA SaveProjectStep ==
    ASSUME ProjectInv, Shape, NEW e \in Editor, NEW p \in DOMAIN project, SaveProject(e, p)
    PROVE  ProjectInv'
<1> DEFINE row == Updated(project[p], editing[e].set)
<1>1. /\ editing[e].what = "save project"
      /\ project' = [project EXCEPT ![p] = row]
      /\ reopened' = reopened \union {a \in {project[p].account} : project[p].status \notin OpenProject /\ project'[p].status \in OpenProject}
      /\ editing' = [editing EXCEPT ![e] = NotEditing]
      /\ crossed \subseteq crossed' /\ day' = day
  BY DEF SaveProject, Ends
<1>2. project[p] \in ProjectRow
  BY DEF ProjectInv
<1>3. row \in ProjectRow /\ row.account = project[p].account
  BY <1>1, <1>2, UpdatedProject DEF ProjectInv, ProjectEdits
<1> HIDE DEF row
<1>4. /\ project' \in Seq(ProjectRow) /\ DOMAIN project' = DOMAIN project
      /\ \A q \in DOMAIN project : project'[q] = IF q = p THEN row ELSE project[q]
  <2>1. project \in Seq(ProjectRow) /\ DOMAIN project = 1..Len(project) /\ Len(project) \in Nat
    BY DEF ProjectInv
  <2>2. project' \in Seq(ProjectRow)
    BY <1>1, <1>3, <2>1, ExceptSeq
  <2> QED
    BY <1>1, <2>1, <2>2
<1>5. \A f \in Editor : editing'[f] = IF f = e THEN NotEditing ELSE editing[f]
  BY <1>1 DEF Shape
<1>6. ProjectEdits'
  <2>1. \A f \in Editor : editing'[f].what = "save project" => ProjectSet(editing'[f].set)
    <3> TAKE f \in Editor
    <3>1. CASE f = e
      <4>1. editing'[f] = NotEditing
        BY <1>5, <3>1
      <4>2. NotEditing.what # "save project"
        BY DEF NotEditing
      <4> QED
        BY <4>1, <4>2
    <3>2. CASE f # e
      <4>1. editing'[f] = editing[f]
        BY <1>5, <3>2
      <4> QED
        BY <4>1 DEF ProjectInv, ProjectEdits
    <3> QED
      BY <3>1, <3>2
  <2> QED
    BY <2>1 DEF ProjectEdits
<1>7. ASSUME NEW b \in Account, b \notin reopened', <<"start", b>> \notin crossed'
      PROVE  AtMostOneOpen(b)' /\ NoneBesideStart(b)'
  <2>1. b \notin reopened /\ <<"start", b>> \notin crossed
    BY <1>1, <1>7
  <2>2. OpenProjects(b)' \subseteq OpenProjects(b)
    BY <1>1, <1>3, <1>4, <1>7 DEF OpenProjects
  <2> QED
    BY <1>5, <2>1, <2>2 DEF ProjectInv, OneAtATime, AtMostOneOpen, NoneBesideStart, NotEditing
<1> QED
  BY <1>1, <1>4, <1>6, <1>7 DEF ProjectInv, OneAtATime

LEMMA ProjectStep ==
    ASSUME ProjectInv, Shape, [OnboardingNext]_onboardingVars
    PROVE  ProjectInv'
<1> USE DEF History
<1>1. CASE UNCHANGED onboardingVars \/ DayPasses \/ \E a \in Account : CreateAccount(a)
  <2>1. /\ project' = project /\ editing' = editing /\ crossed' = crossed /\ reopened' = reopened
        /\ day' \in Int
    BY <1>1 DEF onboardingVars, DayPasses, CreateAccount, ProjectInv
  <2>2. \A a \in Account : OpenProjects(a)' = OpenProjects(a)
    BY <2>1 DEF OpenProjects
  <2> QED
    BY <2>1, <2>2 DEF ProjectInv, ProjectEdits, OneAtATime, AtMostOneOpen, NoneBesideStart
<1>2. ASSUME NEW e \in Editor, NEW what, NEW row, NEW set, Decides(e, what, row, set),
             Allowed(what, row, set)
      PROVE  ProjectInv'
  BY <1>2, OneProjectEdit DEF Decides
<1>3. ASSUME NEW e \in Editor, Ends(e), project' = project, day' = day, reopened' = reopened
      PROVE  ProjectInv'
  <2>1. editing' = [editing EXCEPT ![e] = [what |-> "nothing", row |-> <<>>, set |-> <<>>]] /\ crossed \subseteq crossed'
    BY <1>3 DEF Ends, NotEditing
  <2>2. Allowed("nothing", <<>>, <<>>)
    BY OtherPlansAllowed
  <2> QED
    BY <1>3, <2>1, <2>2, OneProjectEdit
<1>4. ASSUME NEW e \in Editor, NotSaved(e) \/ LookForOther(e) PROVE ProjectInv'
  <2>1. /\ project' = project /\ day' = day /\ reopened' = reopened /\ crossed' = crossed
        /\ \/ editing' = [editing EXCEPT ![e] = [what |-> "nothing", row |-> <<>>, set |-> <<>>]]
           \/ editing' = [editing EXCEPT ![e] = [what |-> "save account", row |-> editing[e].row, set |-> editing[e].set]]
    BY <1>4 DEF NotSaved, LookForOther, NotEditing
  <2>2. Allowed("nothing", <<>>, <<>>) /\ Allowed("save account", editing[e].row, editing[e].set)
    BY OtherPlansAllowed
  <2>3. CASE editing' = [editing EXCEPT ![e] = [what |-> "nothing", row |-> <<>>, set |-> <<>>]]
    BY <2>1, <2>2, <2>3, OneProjectEdit
  <2>4. CASE editing' = [editing EXCEPT ![e] = [what |-> "save account", row |-> editing[e].row, set |-> editing[e].set]]
    BY <2>1, <2>2, <2>4, OneProjectEdit
  <2> QED
    BY <2>1, <2>3, <2>4
<1>5. ASSUME NEW e \in Editor, NEW a \in Account, ChangeStatus(e, a) \/ Link(e, a) \/ StartProject(e, a) PROVE ProjectInv'
  <2>1. CASE ChangeStatus(e, a)
    <3>1. PICK set : Decides(e, "save account", <<"account", a>>, set)
      BY <2>1 DEF ChangeStatus
    <3>2. Allowed("save account", <<"account", a>>, set)
      BY OtherPlansAllowed
    <3> QED
      BY <1>2, <3>1, <3>2
  <2>2. CASE Link(e, a)
    <3>1. PICK set : Decides(e, "look", <<"account", a>>, set)
      BY <2>2 DEF Link
    <3>2. Allowed("look", <<"account", a>>, set)
      BY OtherPlansAllowed
    <3> QED
      BY <1>2, <3>1, <3>2
  <2>3. CASE StartProject(e, a)
    <3>1. \A b \in Account : <<"start", a>> = <<"start", b>> => OpenProjects(b) = {}
      BY <2>3 DEF StartProject, MayStart
    <3> QED
      BY <1>2, <2>3, <3>1 DEF StartProject, Allowed
  <2> QED
    BY <1>5, <2>1, <2>2, <2>3
<1>6. ASSUME NEW e \in Editor, NEW a \in Account, SaveAccount(e, a) PROVE ProjectInv'
  BY <1>3, <1>6 DEF SaveAccount
<1>7. ASSUME NEW e \in Editor, NEW p \in DOMAIN project, UpdateProject(e, p) PROVE ProjectInv'
  <2>1. PICK status \in ProjectStatus : Decides(e, "save project", <<"project", p>>, Changes(project[p], ProjectWith(status)))
    BY <1>7 DEF UpdateProject
  <2> DEFINE set == Changes(project[p], ProjectWith(status))
  <2>2. ProjectSet(set)
    <3>1. DOMAIN set \subseteq {"status", "completed"}
      BY DEF Changes, ProjectWith
    <3>2. "status" \in DOMAIN set => set["status"] = status
      BY DEF Changes, ProjectWith
    <3>3. "completed" \in DOMAIN set => set["completed"] \in SUBSET Int
      BY DEF Changes, ProjectWith, ProjectInv
    <3> QED
      BY <3>1, <3>2, <3>3 DEF ProjectSet
  <2> HIDE DEF set
  <2>3. Allowed("save project", <<"project", p>>, set)
    BY <2>2 DEF Allowed
  <2> QED
    BY <1>2, <2>1, <2>3 DEF set
<1>8. ASSUME NEW e \in Editor, NEW p \in DOMAIN project, NEW k \in TaskNo,
             UpdateTask(e, p, k) \/ UpdateOnboardingTask(e, p, k) \/ SaveTask(e, p, k)
      PROVE  ProjectInv'
  <2>1. CASE UpdateTask(e, p, k) \/ UpdateOnboardingTask(e, p, k)
    <3>1. PICK set : Decides(e, "save task", <<"task", p, k>>, set)
      BY <2>1 DEF UpdateTask, UpdateOnboardingTask
    <3>2. Allowed("save task", <<"task", p, k>>, set)
      BY OtherPlansAllowed
    <3> QED
      BY <1>2, <3>1, <3>2
  <2>2. CASE SaveTask(e, p, k)
    BY <1>3, <2>2 DEF SaveTask
  <2> QED
    BY <1>8, <2>1, <2>2
<1> QED
  BY <1>1, <1>4, <1>5, <1>6, <1>7, <1>8, InsertProjectStep, SaveProjectStep DEF OnboardingNext

\* Two open projects of one account come from a project that was opened again, or from two
\* overlapping starts, and from nothing else.
THEOREM SecondHasReason == OnboardingSpec => []SecondProjectHasAReason
<1>1. OnboardingInit => Shape /\ ProjectInv
  BY ShapeInit, ProjectInit
<1>2. Shape /\ ProjectInv /\ [OnboardingNext]_onboardingVars => Shape' /\ ProjectInv'
  BY Steps, ProjectStep
<1>3. ProjectInv => SecondProjectHasAReason
  <2> SUFFICES ASSUME ProjectInv, NEW a \in Account, a \notin reopened, <<"start", a>> \notin crossed
               PROVE  ~(Cardinality(OpenProjects(a)) > 1)
    BY DEF SecondProjectHasAReason
  <2>1. AtMostOneOpen(a)
    BY DEF ProjectInv, OneAtATime
  <2>2. CASE OpenProjects(a) = {}
    BY <2>2, FS_EmptySet
  <2>3. ASSUME NEW p \in OpenProjects(a), OpenProjects(a) = {p} PROVE ~(Cardinality(OpenProjects(a)) > 1)
    <3>1. Cardinality({p}) = 1
      BY FS_Singleton
    <3> QED
      BY <2>3, <3>1
  <2> QED
    BY <2>1, <2>2, <2>3 DEF AtMostOneOpen
<1> QED
  BY <1>1, <1>2, <1>3, PTL DEF OnboardingSpec
-----------------------------------------------------------------------------
(* Stamps. *)

ProjectFits(r) == r.completed # {} <=> r.status = "completed"

TaskFits(t) ==
    /\ t.status \in ClosedTask => t.completed # {} /\ t.by # {}
    /\ t.status = "todo" => t.completed = {}

TaskRow == [status : TaskStatus, started : SUBSET Nat, completed : SUBSET Nat, by : SUBSET {"hq", "customer"}]

\* Not before the project was started, nor in the future.
Within(p, c) == c <= day /\ \A s \in project[p].started : s <= c

\* What an edit may put into a task of project p.
TaskSet(p, set) ==
    /\ DOMAIN set \subseteq {"status", "started", "completed", "by"}
    /\ "status" \in DOMAIN set => set["status"] \in TaskStatus
    /\ "started" \in DOMAIN set => set["started"] \in SUBSET Nat
    /\ "completed" \in DOMAIN set => set["completed"] \in SUBSET Nat /\ \A c \in set["completed"] : Within(p, c)
    /\ "by" \in DOMAIN set => set["by"] \in SUBSET {"hq", "customer"}

\* As long as requests did not cross, what is about to be written makes a row that fits.
ProjectPlan(e, p) ==
    /\ editing[e].row = <<"project", p>> /\ ProjectSet(editing[e].set)
    /\ <<"project", p>> \notin crossed => ProjectFits(Updated(project[p], editing[e].set))

TaskPlan(e, p, k) ==
    /\ editing[e].row = <<"task", p, k>> /\ TaskSet(p, editing[e].set)
    /\ <<"task", p, k>> \notin crossed => TaskFits(Updated(task[p][k], editing[e].set))

Planned(e) ==
    /\ editing[e].what = "save project" => \E p \in DOMAIN project : ProjectPlan(e, p)
    /\ editing[e].what = "save task" => \E p \in DOMAIN project, k \in TaskNo : TaskPlan(e, p, k)

ProjectStamps(p) ==
    /\ \A s \in project[p].started : s <= day
    /\ <<"project", p>> \notin crossed => ProjectFits(project[p])

TaskStamps(p, k) ==
    /\ \A c \in task[p][k].completed : Within(p, c)
    /\ <<"task", p, k>> \notin crossed => TaskFits(task[p][k])

StampInv ==
    /\ project \in Seq(ProjectRow) /\ day \in Nat
    /\ task \in Seq([TaskNo -> TaskRow]) /\ Len(task) = Len(project)
    /\ \A p \in DOMAIN project : ProjectStamps(p) /\ \A k \in TaskNo : TaskStamps(p, k)
    /\ \A e \in Editor : Planned(e)

LEMMA RowNames ==
    /\ \A p, q : <<"project", p>> = <<"project", q>> => p = q
    /\ \A p, k, q, l : <<"task", p, k>> = <<"task", q, l>> => p = q /\ k = l
<1>1. ASSUME NEW p, NEW q, <<"project", p>> = <<"project", q>> PROVE p = q
  <2>1. <<"project", p>>[2] = <<"project", q>>[2]
    BY <1>1, Zenon
  <2> QED
    BY <2>1
<1>2. ASSUME NEW p, NEW k, NEW q, NEW l, <<"task", p, k>> = <<"task", q, l>> PROVE p = q /\ k = l
  <2>1. <<"task", p, k>>[2] = <<"task", q, l>>[2] /\ <<"task", p, k>>[3] = <<"task", q, l>>[3]
    BY <1>2, Zenon
  <2> QED
    BY <2>1
<1> QED
  BY <1>1, <1>2

\* An UPDATE leaves the row as the values assigned would have it.
LEMMA ChangesApplied ==
    ASSUME NEW row, NEW values, DOMAIN values \subseteq DOMAIN row
    PROVE  /\ \A c \in DOMAIN row :
                 Updated(row, Changes(row, values))[c] = IF c \in DOMAIN values THEN values[c] ELSE row[c]
           /\ DOMAIN Changes(row, values) \subseteq DOMAIN values
           /\ \A c \in DOMAIN Changes(row, values) : Changes(row, values)[c] = values[c]
<1> DEFINE set == Changes(row, values)
           written == {c \in DOMAIN values : values[c] # row[c] \/ (c \in Dates /\ values[c] # {})}
<1>1. set = [c \in written |-> values[c]]
  BY DEF Changes
<1>2. written \subseteq DOMAIN values /\ \A c \in DOMAIN values \ written : values[c] = row[c]
  OBVIOUS
<1> HIDE DEF written, set
<1>3. DOMAIN set = written /\ \A c \in written : set[c] = values[c]
  BY <1>1
<1>4. \A c \in DOMAIN row : Updated(row, set)[c] = IF c \in DOMAIN values THEN values[c] ELSE row[c]
  BY <1>2, <1>3 DEF Updated
<1> QED
  BY <1>2, <1>3, <1>4 DEF set

\* A new status takes the end of the project with it.
LEMMA ProjectChange ==
    ASSUME NEW row \in ProjectRow, day \in Nat, NEW status \in ProjectStatus
    PROVE  /\ ProjectSet(Changes(row, ProjectWith(status)))
           /\ ProjectFits(Updated(row, Changes(row, ProjectWith(status))))
<1> DEFINE values == ProjectWith(status)
           set == Changes(row, values)
<1>1. /\ DOMAIN values = {"status", "completed"} /\ values["status"] = status
      /\ values["completed"] = IF status = "completed" THEN {day} ELSE {}
  BY DEF ProjectWith
<1>2. DOMAIN row = {"account", "status", "started", "completed"}
  BY DEF ProjectRow
<1> HIDE DEF values
<1>3. /\ \A c \in DOMAIN row : Updated(row, set)[c] = IF c \in DOMAIN values THEN values[c] ELSE row[c]
      /\ DOMAIN set \subseteq DOMAIN values
      /\ \A c \in DOMAIN set : set[c] = values[c]
  BY <1>1, <1>2, ChangesApplied
<1> HIDE DEF set
<1>4. ProjectSet(set)
  BY <1>1, <1>3 DEF ProjectSet
<1>5. ProjectFits(Updated(row, set))
  BY <1>1, <1>2, <1>3 DEF ProjectFits
<1> QED
  BY <1>4, <1>5 DEF set, values

\* A closed task has its completion, one to be done anew has none.
LEMMA TaskChange ==
    ASSUME NEW row \in TaskRow, day \in Nat, NEW p \in DOMAIN project, Within(p, day),
           NEW status \in TaskStatus, NEW actor \in {"hq", "customer"}
    PROVE  /\ TaskSet(p, Changes(row, TaskWith(row, status, actor)))
           /\ TaskFits(Updated(row, Changes(row, TaskWith(row, status, actor))))
<1> DEFINE values == TaskWith(row, status, actor)
           set == Changes(row, values)
<1>1. /\ DOMAIN values \subseteq {"status", "started", "completed", "by"}
      /\ "status" \in DOMAIN values /\ values["status"] = status
      /\ "started" \in DOMAIN values => values["started"] = {day}
      /\ "completed" \in DOMAIN values => values["completed"] \in {{}, {day}}
      /\ "by" \in DOMAIN values => values["by"] \in {{}, {actor}}
      /\ status \in ClosedTask =>
            /\ "completed" \in DOMAIN values /\ values["completed"] = {day}
            /\ "by" \in DOMAIN values /\ values["by"] = {actor}
      /\ status = "todo" => "completed" \in DOMAIN values /\ values["completed"] = {}
  <2>1. CASE status = "doing" /\ row.started = {}
    BY <2>1 DEF TaskWith, ClosedTask
  <2>2. CASE status \in ClosedTask
    BY <2>2 DEF TaskWith, ClosedTask
  <2>3. CASE status = "todo"
    BY <2>3 DEF TaskWith, ClosedTask
  <2>4. CASE ~(status = "doing" /\ row.started = {}) /\ status \notin ClosedTask /\ status # "todo"
    BY <2>4 DEF TaskWith, ClosedTask
  <2> QED
    BY <2>1, <2>2, <2>3, <2>4
<1>2. DOMAIN row = {"status", "started", "completed", "by"}
  BY DEF TaskRow
<1> HIDE DEF values
<1>3. /\ \A c \in DOMAIN row : Updated(row, set)[c] = IF c \in DOMAIN values THEN values[c] ELSE row[c]
      /\ DOMAIN set \subseteq DOMAIN values
      /\ \A c \in DOMAIN set : set[c] = values[c]
  BY <1>1, <1>2, ChangesApplied
<1> HIDE DEF set
<1>4. TaskSet(p, set)
  BY <1>1, <1>3 DEF TaskSet
<1>5. TaskFits(Updated(row, set))
  BY <1>1, <1>2, <1>3 DEF TaskFits, ClosedTask
<1> QED
  BY <1>4, <1>5 DEF set, values

LEMMA UpdatedTask ==
    ASSUME NEW p, NEW row \in TaskRow, NEW set, TaskSet(p, set)
    PROVE  /\ Updated(row, set) \in TaskRow
           /\ Updated(row, set).completed = IF "completed" \in DOMAIN set THEN set["completed"] ELSE row.completed
<1>1. /\ DOMAIN row = {"status", "started", "completed", "by"}
      /\ row.status \in TaskStatus /\ row.started \in SUBSET Nat /\ row.completed \in SUBSET Nat
      /\ row.by \in SUBSET {"hq", "customer"}
  BY DEF TaskRow
<1>2. Updated(row, set) = [status |-> IF "status" \in DOMAIN set THEN set["status"] ELSE row.status,
                           started |-> IF "started" \in DOMAIN set THEN set["started"] ELSE row.started,
                           completed |-> IF "completed" \in DOMAIN set THEN set["completed"] ELSE row.completed,
                           by |-> IF "by" \in DOMAIN set THEN set["by"] ELSE row.by]
  BY <1>1 DEF Updated
<1> QED
  BY <1>1, <1>2 DEF TaskRow, TaskSet

\* A request that does nothing new still fits, if the row it is about is as it was or was
\* written meanwhile.
LEMMA PlannedKept ==
    ASSUME NEW e \in Editor, Planned(e), editing'[e] = editing[e], crossed \subseteq crossed',
           DOMAIN project \subseteq DOMAIN project', day \in Nat, day' \in Nat, day <= day',
           \A p \in DOMAIN project :
              /\ project'[p].started = project[p].started /\ project[p].started \in SUBSET Int
              /\ \/ project'[p] = project[p]
                 \/ <<"project", p>> \in crossed'
                 \/ editing[e].row # <<"project", p>>
              /\ \A k \in TaskNo :
                    \/ task'[p][k] = task[p][k]
                    \/ <<"task", p, k>> \in crossed'
                    \/ editing[e].row # <<"task", p, k>>
    PROVE  Planned(e)'
<1>1. ASSUME editing'[e].what = "save project" PROVE \E p \in DOMAIN project' : ProjectPlan(e, p)'
  <2>1. PICK p \in DOMAIN project : ProjectPlan(e, p)
    BY <1>1 DEF Planned
  <2>2. ProjectPlan(e, p)'
    BY <2>1 DEF ProjectPlan, ProjectSet
  <2> QED
    BY <2>2
<1>2. ASSUME editing'[e].what = "save task" PROVE \E p \in DOMAIN project', k \in TaskNo : TaskPlan(e, p, k)'
  <2>1. PICK p \in DOMAIN project, k \in TaskNo : TaskPlan(e, p, k)
    BY <1>2 DEF Planned
  <2>2. ASSUME NEW c \in Nat, Within(p, c) PROVE Within(p, c)'
    <3>1. project'[p].started = project[p].started
      OBVIOUS
    <3>2. c <= day'
      BY <2>2 DEF Within
    <3> QED
      BY <2>2, <3>1, <3>2 DEF Within
  <2>3. TaskSet(p, editing[e].set)'
    BY <2>1, <2>2 DEF TaskPlan, TaskSet
  <2>4. TaskPlan(e, p, k)'
    BY <2>1, <2>3 DEF TaskPlan
  <2> QED
    BY <2>4
<1> QED
  BY <1>1, <1>2 DEF Planned

LEMMA StampFacts ==
    ASSUME StampInv
    PROVE  /\ day \in Nat /\ day <= day
           /\ \A p \in DOMAIN project : project[p].started \in SUBSET Int
<1>1. day \in Nat /\ project \in Seq(ProjectRow)
  BY DEF StampInv
<1>2. \A p \in DOMAIN project : project[p] \in ProjectRow
  BY <1>1
<1> QED
  BY <1>1, <1>2 DEF ProjectRow

\* One request plans or ends its work, the rows stay.
LEMMA OneStampEdit ==
    ASSUME StampInv, Shape, NEW e \in Editor, NEW plan,
           editing' = [editing EXCEPT ![e] = plan], project' = project, task' = task, day' = day,
           crossed \subseteq crossed',
           plan.what \notin {"save project", "save task"} \/ Planned(e)'
    PROVE  StampInv'
<1>1. ASSUME NEW f \in Editor PROVE Planned(f)'
  <2>1. CASE f # e
    <3>1. editing'[f] = editing[f] /\ Planned(f)
      BY <2>1 DEF Shape, StampInv
    <3>2. day \in Nat /\ day <= day /\ \A p \in DOMAIN project : project[p].started \in SUBSET Int
      BY StampFacts
    <3>3. \A p \in DOMAIN project :
             /\ project'[p].started = project[p].started /\ project[p].started \in SUBSET Int
             /\ project'[p] = project[p]
             /\ \A k \in TaskNo : task'[p][k] = task[p][k]
      BY <3>2
    <3> QED
      BY <3>1, <3>2, <3>3, PlannedKept
  <2>2. CASE f = e
    <3>1. editing'[e] = plan
      BY DEF Shape
    <3> QED
      BY <2>2, <3>1 DEF Planned
  <2> QED
    BY <2>1, <2>2
<1>2. \A p \in DOMAIN project : ProjectStamps(p)' /\ \A k \in TaskNo : TaskStamps(p, k)'
  BY DEF StampInv, ProjectStamps, TaskStamps, Within
<1> QED
  BY <1>1, <1>2 DEF StampInv

LEMMA StampInit == OnboardingInit => StampInv
<1> SUFFICES ASSUME OnboardingInit PROVE StampInv
  OBVIOUS
<1>1. project = <<>> /\ task = <<>> /\ day = 0
  BY DEF OnboardingInit
<1>2. \A e \in Editor : Planned(e)
  BY DEF OnboardingInit, NotEditing, Planned
<1>3. project \in Seq(ProjectRow) /\ task \in Seq([TaskNo -> TaskRow]) /\ Len(task) = Len(project) /\ DOMAIN project = {}
  BY <1>1
<1> QED
  BY <1>1, <1>2, <1>3 DEF StampInv

\* A project and its tasks.
LEMMA InsertStamps ==
    ASSUME StampInv, Shape, NEW e \in Editor, NEW a \in Account, InsertProject(e, a)
    PROVE  StampInv'
<1> DEFINE new == [account |-> a, status |-> "active", started |-> {day}, completed |-> {}]
           tasks == [k \in TaskNo |-> NewTask]
<1>0. PICK n : n = Len(project) + 1
  OBVIOUS
<1>1. /\ project' = Append(project, new) /\ task' = Append(task, tasks)
      /\ editing' = [editing EXCEPT ![e] = NotEditing]
      /\ crossed \subseteq crossed' /\ day' = day
  BY DEF InsertProject, Ends
<1>2. new \in ProjectRow /\ new.started = {day} /\ ProjectFits(new) /\ day \in Nat
  BY DEF StampInv, ProjectRow, ProjectStatus, OpenProject, ProjectFits
<1>3. NewTask \in TaskRow /\ NewTask.completed = {} /\ TaskFits(NewTask)
  BY DEF NewTask, TaskRow, TaskStatus, ClosedTask, TaskFits
<1>4. tasks \in [TaskNo -> TaskRow] /\ \A k \in TaskNo : tasks[k] = NewTask
  BY <1>3
<1> HIDE DEF new, tasks
<1>5. /\ project' \in Seq(ProjectRow) /\ DOMAIN project' = DOMAIN project \union {n}
      /\ \A p \in DOMAIN project : project'[p] = project[p]
      /\ project'[n] = new
  BY <1>0, <1>1, <1>2 DEF StampInv
<1>6. /\ task' \in Seq([TaskNo -> TaskRow]) /\ Len(task') = Len(project')
      /\ \A p \in DOMAIN project : task'[p] = task[p]
      /\ task'[n] = tasks
  BY <1>0, <1>1, <1>2, <1>4 DEF StampInv
<1>7. ASSUME NEW f \in Editor PROVE Planned(f)'
  <2>1. CASE f # e
    <3>1. editing'[f] = editing[f] /\ Planned(f)
      BY <1>1, <2>1 DEF Shape, StampInv
    <3>2. day \in Nat /\ day' \in Nat /\ day <= day' /\ \A p \in DOMAIN project : project[p].started \in SUBSET Int
      BY <1>1, StampFacts
    <3>3. \A p \in DOMAIN project :
             /\ project'[p].started = project[p].started /\ project[p].started \in SUBSET Int
             /\ project'[p] = project[p]
             /\ \A k \in TaskNo : task'[p][k] = task[p][k]
      BY <1>5, <1>6, <3>2
    <3> QED
      BY <1>1, <1>5, <3>1, <3>2, <3>3, PlannedKept
  <2>2. CASE f = e
    <3>1. editing'[e].what = "nothing"
      BY <1>1 DEF Shape, NotEditing
    <3> QED
      BY <2>2, <3>1 DEF Planned
  <2> QED
    BY <2>1, <2>2
<1>8. ASSUME NEW p \in DOMAIN project PROVE ProjectStamps(p)' /\ \A k \in TaskNo : TaskStamps(p, k)'
  <2>1. project'[p] = project[p] /\ task'[p] = task[p]
    BY <1>5, <1>6
  <2>2. ProjectStamps(p) /\ \A k \in TaskNo : TaskStamps(p, k)
    BY DEF StampInv
  <2> QED
    BY <1>1, <2>1, <2>2 DEF ProjectStamps, TaskStamps, Within
<1>9. ProjectStamps(n)' /\ \A k \in TaskNo : TaskStamps(n, k)'
  <2>1. ProjectStamps(n)'
    <3>1. \A s \in project'[n].started : s <= day'
      BY <1>1, <1>2, <1>5
    <3> QED
      BY <1>2, <1>5, <3>1 DEF ProjectStamps
  <2>2. ASSUME NEW k \in TaskNo PROVE TaskStamps(n, k)'
    <3>1. task'[n][k] = NewTask
      BY <1>4, <1>6
    <3> QED
      BY <1>3, <3>1 DEF TaskStamps
  <2> QED
    BY <2>1, <2>2
<1> QED
  BY <1>1, <1>2, <1>5, <1>6, <1>7, <1>8, <1>9 DEF StampInv

\* Who else was about to write the row that e writes crossed with it.
LEMMA Crossing ==
    ASSUME Shape, NEW e \in Editor, Ends(e)
    PROVE  /\ crossed \subseteq crossed'
           /\ editing'[e] = NotEditing
           /\ \A f \in Editor \ {e} : editing'[f] = editing[f] /\ (editing[f].row = editing[e].row => editing[e].row \in crossed')
BY DEF Shape, Ends

LEMMA SaveProjectStamps ==
    ASSUME StampInv, Shape, NEW e \in Editor, NEW p \in DOMAIN project, SaveProject(e, p)
    PROVE  StampInv'
<1> DEFINE row == Updated(project[p], editing[e].set)
<1>1. /\ editing[e].what = "save project" /\ editing[e].row = <<"project", p>>
      /\ project' = [project EXCEPT ![p] = row]
      /\ Ends(e) /\ day' = day /\ task' = task
  BY DEF SaveProject
<1>2. /\ crossed \subseteq crossed' /\ editing'[e].what = "nothing"
      /\ \A f \in Editor \ {e} : editing'[f] = editing[f] /\ (editing[f].row = <<"project", p>> => <<"project", p>> \in crossed')
  <2>1. /\ crossed \subseteq crossed' /\ editing'[e] = NotEditing
        /\ \A f \in Editor \ {e} : editing'[f] = editing[f] /\ (editing[f].row = editing[e].row => editing[e].row \in crossed')
    BY <1>1, Crossing
  <2>2. NotEditing.what = "nothing"
    BY DEF NotEditing
  <2> QED
    BY <1>1, <2>1, <2>2
<1>3. ProjectPlan(e, p)
  <2>1. PICK q \in DOMAIN project : ProjectPlan(e, q)
    BY <1>1 DEF StampInv, Planned
  <2>2. q = p
    BY <1>1, <2>1, RowNames DEF ProjectPlan
  <2> QED
    BY <2>1, <2>2
<1>4. project[p] \in ProjectRow
  BY DEF StampInv
<1>5. row \in ProjectRow /\ row.started = project[p].started
  <2>1. row \in ProjectRow
    BY <1>3, <1>4, UpdatedProject DEF ProjectPlan
  <2>2. DOMAIN project[p] = {"account", "status", "started", "completed"} /\ "started" \notin DOMAIN editing[e].set
    BY <1>3, <1>4 DEF ProjectPlan, ProjectSet, ProjectRow
  <2>3. row.started = project[p].started
    BY <2>2 DEF Updated
  <2> QED
    BY <2>1, <2>3
<1>6. <<"project", p>> \notin crossed => ProjectFits(row)
  BY <1>3 DEF ProjectPlan
<1> HIDE DEF row
<1>7. /\ project' \in Seq(ProjectRow) /\ DOMAIN project' = DOMAIN project /\ Len(project') = Len(project)
      /\ \A q \in DOMAIN project : project'[q] = IF q = p THEN row ELSE project[q]
  <2>1. project \in Seq(ProjectRow) /\ DOMAIN project = 1..Len(project) /\ Len(project) \in Nat
    BY DEF StampInv
  <2>2. project' \in Seq(ProjectRow) /\ Len(project') = Len(project)
    BY <1>1, <1>5, <2>1, ExceptSeq
  <2>3. DOMAIN project' = DOMAIN project /\ \A q \in DOMAIN project : project'[q] = IF q = p THEN row ELSE project[q]
    BY <1>1
  <2> QED
    BY <2>2, <2>3
<1>8. \A q \in DOMAIN project : project'[q].started = project[q].started /\ project[q].started \in SUBSET Int
  <2>1. \A q \in DOMAIN project : project[q].started \in SUBSET Int
    BY StampFacts
  <2> QED
    BY <1>5, <1>7, <2>1
<1>9. ASSUME NEW f \in Editor PROVE Planned(f)'
  <2>1. CASE f # e
    <3>1. editing'[f] = editing[f] /\ Planned(f)
      BY <1>2, <2>1 DEF StampInv
    <3>2. ASSUME NEW q \in DOMAIN project
          PROVE  \/ project'[q] = project[q]
                 \/ <<"project", q>> \in crossed'
                 \/ editing[f].row # <<"project", q>>
      BY <1>2, <1>7, <2>1
    <3>3. \A q \in DOMAIN project :
             /\ project'[q].started = project[q].started /\ project[q].started \in SUBSET Int
             /\ \/ project'[q] = project[q]
                \/ <<"project", q>> \in crossed'
                \/ editing[f].row # <<"project", q>>
             /\ \A k \in TaskNo :
                   \/ task'[q][k] = task[q][k]
                   \/ <<"task", q, k>> \in crossed'
                   \/ editing[f].row # <<"task", q, k>>
      BY <1>1, <1>8, <3>2
    <3>4. DOMAIN project \subseteq DOMAIN project' /\ day \in Nat /\ day' \in Nat /\ day <= day'
      BY <1>1, <1>7, StampFacts
    <3> QED
      BY <1>2, <3>1, <3>3, <3>4, PlannedKept
  <2>2. CASE f = e
    BY <1>2, <2>2 DEF Planned
  <2> QED
    BY <2>1, <2>2
<1>10. ASSUME NEW q \in DOMAIN project PROVE ProjectStamps(q)' /\ \A k \in TaskNo : TaskStamps(q, k)'
  <2>1. ProjectStamps(q) /\ \A k \in TaskNo : TaskStamps(q, k)
    BY DEF StampInv
  <2>2. ProjectStamps(q)'
    BY <1>1, <1>2, <1>6, <1>7, <1>8, <2>1 DEF ProjectStamps
  <2>3. \A k \in TaskNo : TaskStamps(q, k)'
    BY <1>1, <1>2, <1>8, <2>1 DEF TaskStamps, Within
  <2> QED
    BY <2>2, <2>3
<1> QED
  BY <1>1, <1>7, <1>9, <1>10 DEF StampInv

LEMMA SaveTaskStamps ==
    ASSUME StampInv, Shape, NEW e \in Editor, NEW p \in DOMAIN project, NEW k \in TaskNo, SaveTask(e, p, k)
    PROVE  StampInv'
<1> DEFINE row == Updated(task[p][k], editing[e].set)
<1>1. /\ editing[e].what = "save task" /\ editing[e].row = <<"task", p, k>>
      /\ task' = [task EXCEPT ![p][k] = row]
      /\ Ends(e) /\ day' = day /\ project' = project
  BY DEF SaveTask
<1>2. /\ crossed \subseteq crossed' /\ editing'[e].what = "nothing"
      /\ \A f \in Editor \ {e} : editing'[f] = editing[f] /\ (editing[f].row = <<"task", p, k>> => <<"task", p, k>> \in crossed')
  <2>1. /\ crossed \subseteq crossed' /\ editing'[e] = NotEditing
        /\ \A f \in Editor \ {e} : editing'[f] = editing[f] /\ (editing[f].row = editing[e].row => editing[e].row \in crossed')
    BY <1>1, Crossing
  <2>2. NotEditing.what = "nothing"
    BY DEF NotEditing
  <2> QED
    BY <1>1, <2>1, <2>2
<1>3. TaskPlan(e, p, k)
  <2>1. PICK q \in DOMAIN project, l \in TaskNo : TaskPlan(e, q, l)
    BY <1>1 DEF StampInv, Planned
  <2>2. <<"task", q, l>> = <<"task", p, k>>
    BY <1>1, <2>1 DEF TaskPlan
  <2>3. q = p /\ l = k
    BY <2>2, RowNames
  <2> QED
    BY <2>1, <2>3
<1>4. /\ task \in Seq([TaskNo -> TaskRow]) /\ DOMAIN task = DOMAIN project /\ DOMAIN task = 1..Len(task)
      /\ Len(task) \in Nat /\ task[p] \in [TaskNo -> TaskRow] /\ task[p][k] \in TaskRow
  BY DEF StampInv
<1>5. /\ row \in TaskRow
      /\ row.completed = IF "completed" \in DOMAIN editing[e].set THEN editing[e].set["completed"] ELSE task[p][k].completed
  BY <1>3, <1>4, UpdatedTask DEF TaskPlan
<1>6. \A c \in row.completed : Within(p, c)
  BY <1>3, <1>5 DEF TaskPlan, TaskSet, StampInv, TaskStamps
<1>7. <<"task", p, k>> \notin crossed => TaskFits(row)
  BY <1>3 DEF TaskPlan
<1> HIDE DEF row
<1>8. /\ task' \in Seq([TaskNo -> TaskRow]) /\ Len(task') = Len(task)
      /\ \A q \in DOMAIN project, l \in TaskNo : task'[q][l] = IF q = p /\ l = k THEN row ELSE task[q][l]
  <2> DEFINE tasks == [task[p] EXCEPT ![k] = row]
  <2>1. tasks \in [TaskNo -> TaskRow] /\ \A l \in TaskNo : tasks[l] = IF l = k THEN row ELSE task[p][l]
    BY <1>4, <1>5
  <2>2. task' = [task EXCEPT ![p] = tasks]
    BY <1>1
  <2> HIDE DEF tasks
  <2>3. task' \in Seq([TaskNo -> TaskRow])
    BY <1>4, <2>1, <2>2, ExceptSeq
  <2> QED
    BY <1>4, <2>1, <2>2, <2>3
<1>9. \A q \in DOMAIN project : project[q].started \in SUBSET Int
  BY StampFacts
<1>10. ASSUME NEW f \in Editor PROVE Planned(f)'
  <2>1. CASE f # e
    <3>1. editing'[f] = editing[f] /\ Planned(f)
      BY <1>2, <2>1 DEF StampInv
    <3>2. ASSUME NEW q \in DOMAIN project, NEW l \in TaskNo
          PROVE  \/ task'[q][l] = task[q][l]
                 \/ <<"task", q, l>> \in crossed'
                 \/ editing[f].row # <<"task", q, l>>
      BY <1>2, <1>8, <2>1
    <3>3. \A q \in DOMAIN project :
             /\ project'[q].started = project[q].started /\ project[q].started \in SUBSET Int
             /\ \/ project'[q] = project[q]
                \/ <<"project", q>> \in crossed'
                \/ editing[f].row # <<"project", q>>
             /\ \A l \in TaskNo :
                   \/ task'[q][l] = task[q][l]
                   \/ <<"task", q, l>> \in crossed'
                   \/ editing[f].row # <<"task", q, l>>
      BY <1>1, <1>9, <3>2
    <3>4. DOMAIN project \subseteq DOMAIN project' /\ day \in Nat /\ day' \in Nat /\ day <= day'
      BY <1>1, StampFacts
    <3> QED
      BY <1>2, <3>1, <3>3, <3>4, PlannedKept
  <2>2. CASE f = e
    BY <1>2, <2>2 DEF Planned
  <2> QED
    BY <2>1, <2>2
<1>11. ASSUME NEW q \in DOMAIN project PROVE ProjectStamps(q)' /\ \A l \in TaskNo : TaskStamps(q, l)'
  <2>1. ProjectStamps(q) /\ \A l \in TaskNo : TaskStamps(q, l)
    BY DEF StampInv
  <2>2. ProjectStamps(q)'
    BY <1>1, <1>2, <2>1 DEF ProjectStamps
  <2>3. \A c : Within(q, c)' <=> Within(q, c)
    BY <1>1 DEF Within
  <2>4. ASSUME NEW l \in TaskNo PROVE TaskStamps(q, l)'
    BY <1>2, <1>6, <1>7, <1>8, <2>1, <2>3 DEF TaskStamps
  <2> QED
    BY <2>2, <2>4
<1> QED
  BY <1>1, <1>4, <1>8, <1>10, <1>11 DEF StampInv

\* A handler plans from the row it loaded.
LEMMA PlanStamps ==
    ASSUME StampInv, Shape, NEW e \in Editor, NEW p \in DOMAIN project,
           UpdateProject(e, p) \/ \E k \in TaskNo : UpdateTask(e, p, k) \/ UpdateOnboardingTask(e, p, k)
    PROVE  StampInv'
<1>1. ASSUME NEW what, NEW row, NEW set, Decides(e, what, row, set),
             editing'[e].what = what /\ editing'[e].row = row /\ editing'[e].set = set => Planned(e)'
      PROVE  StampInv'
  <2>1. /\ editing' = [editing EXCEPT ![e] = [what |-> what, row |-> row, set |-> set]]
        /\ project' = project /\ task' = task /\ day' = day /\ crossed' = crossed
    BY <1>1 DEF Decides, History
  <2>2. editing'[e] = [what |-> what, row |-> row, set |-> set]
    BY <2>1 DEF Shape
  <2>3. Planned(e)'
    BY <1>1, <2>2
  <2>4. PICK plan : plan = [what |-> what, row |-> row, set |-> set]
    OBVIOUS
  <2>5. editing' = [editing EXCEPT ![e] = plan] /\ crossed \subseteq crossed'
    BY <2>1, <2>4
  <2> QED
    BY <2>1, <2>3, <2>5, OneStampEdit
<1>2. day \in Nat /\ project[p] \in ProjectRow /\ Within(p, day)
  <2>1. day \in Nat /\ day <= day
    BY StampFacts
  <2>2. project \in Seq(ProjectRow) /\ ProjectStamps(p)
    BY DEF StampInv
  <2>3. project[p] \in ProjectRow
    BY <2>2
  <2> QED
    BY <2>1, <2>2, <2>3 DEF ProjectStamps, Within
<1>3. CASE UpdateProject(e, p)
  <2>1. PICK status \in ProjectStatus : Decides(e, "save project", <<"project", p>>, Changes(project[p], ProjectWith(status)))
    BY <1>3 DEF UpdateProject
  <2>2. PICK set : set = Changes(project[p], ProjectWith(status))
    OBVIOUS
  <2>3. ProjectSet(set) /\ ProjectFits(Updated(project[p], set))
    BY <1>2, <2>2, ProjectChange
  <2>4. project' = project
    BY <2>1 DEF Decides
  <2>5. ASSUME editing'[e].what = "save project", editing'[e].row = <<"project", p>>, editing'[e].set = set
        PROVE  Planned(e)'
    <3>1. ProjectPlan(e, p)'
      BY <2>3, <2>4, <2>5 DEF ProjectPlan
    <3> QED
      BY <2>4, <2>5, <3>1 DEF Planned
  <2> QED
    BY <1>1, <2>1, <2>2, <2>5
<1>4. ASSUME NEW k \in TaskNo, UpdateTask(e, p, k) \/ UpdateOnboardingTask(e, p, k) PROVE StampInv'
  <2>1. PICK status \in TaskStatus, actor \in {"hq", "customer"} :
           Decides(e, "save task", <<"task", p, k>>, Changes(task[p][k], TaskWith(task[p][k], status, actor)))
    BY <1>4 DEF UpdateTask, UpdateOnboardingTask, TaskStatus, ClosedTask
  <2>2. PICK set : set = Changes(task[p][k], TaskWith(task[p][k], status, actor))
    OBVIOUS
  <2>3. task[p][k] \in TaskRow
    BY DEF StampInv
  <2>4. TaskSet(p, set) /\ TaskFits(Updated(task[p][k], set))
    BY <1>2, <2>2, <2>3, TaskChange
  <2>5. project' = project /\ task' = task /\ day' = day
    BY <2>1 DEF Decides
  <2>6. ASSUME editing'[e].what = "save task", editing'[e].row = <<"task", p, k>>, editing'[e].set = set
        PROVE  Planned(e)'
    <3>1. TaskSet(p, set)'
      BY <2>4, <2>5 DEF TaskSet, Within
    <3>2. TaskPlan(e, p, k)'
      BY <2>4, <2>5, <2>6, <3>1 DEF TaskPlan, TaskSet, Within
    <3> QED
      BY <2>5, <2>6, <3>2 DEF Planned
  <2> QED
    BY <1>1, <2>1, <2>2, <2>6
<1> QED
  BY <1>3, <1>4

LEMMA StampStep ==
    ASSUME StampInv, Shape, [OnboardingNext]_onboardingVars
    PROVE  StampInv'
<1> USE DEF History
<1>1. CASE UNCHANGED onboardingVars \/ DayPasses \/ \E a \in Account : CreateAccount(a)
  <2>1. /\ project' = project /\ task' = task /\ editing' = editing /\ crossed' = crossed
        /\ day' \in Nat /\ day <= day' /\ day \in Nat
    BY <1>1, StampFacts DEF onboardingVars, DayPasses, CreateAccount
  <2>2. ASSUME NEW e \in Editor PROVE Planned(e)'
    <3>1. Planned(e) /\ editing'[e] = editing[e]
      BY <2>1 DEF StampInv
    <3>2. \A p \in DOMAIN project :
             /\ project'[p].started = project[p].started /\ project[p].started \in SUBSET Int
             /\ project'[p] = project[p]
             /\ \A k \in TaskNo : task'[p][k] = task[p][k]
      BY <2>1, StampFacts
    <3> QED
      BY <2>1, <3>1, <3>2, PlannedKept
  <2>3. ASSUME NEW p \in DOMAIN project PROVE ProjectStamps(p)' /\ \A k \in TaskNo : TaskStamps(p, k)'
    <3>1. ProjectStamps(p) /\ \A k \in TaskNo : TaskStamps(p, k)
      BY DEF StampInv
    <3>2. project[p].started \in SUBSET Int /\ \A k \in TaskNo : task[p][k] \in TaskRow
      BY StampFacts DEF StampInv
    <3>3. ProjectStamps(p)'
      BY <2>1, <3>1, <3>2 DEF ProjectStamps
    <3>4. ASSUME NEW k \in TaskNo PROVE TaskStamps(p, k)'
      <4>1. task[p][k].completed \in SUBSET Nat
        BY <3>2 DEF TaskRow
      <4>2. ASSUME NEW c \in task[p][k].completed PROVE Within(p, c)'
        <5>1. c \in Nat /\ Within(p, c)
          BY <3>1, <4>1, <4>2 DEF TaskStamps
        <5> QED
          BY <2>1, <5>1 DEF Within
      <4> QED
        BY <2>1, <3>1, <4>2 DEF TaskStamps
    <3> QED
      BY <3>3, <3>4
  <2> QED
    BY <2>1, <2>2, <2>3 DEF StampInv
<1>2. ASSUME NEW e \in Editor, NEW plan, editing' = [editing EXCEPT ![e] = plan],
             plan.what \notin {"save project", "save task"},
             project' = project, task' = task, day' = day, crossed \subseteq crossed'
      PROVE  StampInv'
  BY <1>2, OneStampEdit
<1>3. ASSUME NEW e \in Editor, NotSaved(e) \/ LookForOther(e) PROVE StampInv'
  <2>1. /\ project' = project /\ task' = task /\ day' = day /\ crossed' = crossed
        /\ \/ editing' = [editing EXCEPT ![e] = NotEditing]
           \/ editing' = [editing EXCEPT ![e] = [what |-> "save account", row |-> editing[e].row, set |-> editing[e].set]]
    BY <1>3 DEF NotSaved, LookForOther
  <2>2. NotEditing.what = "nothing"
    BY DEF NotEditing
  <2> QED
    BY <1>2, <2>1, <2>2
<1>4. ASSUME NEW e \in Editor, NEW what, NEW row, NEW set, Decides(e, what, row, set),
             what \notin {"save project", "save task"}
      PROVE  StampInv'
  BY <1>2, <1>4 DEF Decides
<1>5. ASSUME NEW e \in Editor, NEW a \in Account, ChangeStatus(e, a) \/ Link(e, a) \/ StartProject(e, a) \/ SaveAccount(e, a)
      PROVE  StampInv'
  <2>1. CASE ChangeStatus(e, a) \/ Link(e, a) \/ StartProject(e, a)
    <3>1. PICK what, row, set : Decides(e, what, row, set) /\ what \in {"save account", "look", "start"}
      BY <2>1 DEF ChangeStatus, Link, StartProject
    <3> QED
      BY <1>4, <3>1
  <2>2. CASE SaveAccount(e, a)
    <3>1. NotEditing.what = "nothing"
      BY DEF NotEditing
    <3> QED
      BY <1>2, <2>2, <3>1 DEF SaveAccount, Ends
  <2> QED
    BY <1>5, <2>1, <2>2
<1> QED
  BY <1>1, <1>3, <1>5, InsertStamps, SaveProjectStamps, SaveTaskStamps, PlanStamps DEF OnboardingNext

-----------------------------------------------------------------------------
(* Phases. *)

\* The latest of some days up to a day.
LEMMA LatestDay ==
    ASSUME NEW d \in Nat, NEW days \in SUBSET Nat, days # {}, \A c \in days : c <= d
    PROVE  \E last \in days : \A c \in days : c <= last
<1> DEFINE left == {d - c : c \in days}
           less == OpToRel(<, Nat)
<1>1. left \subseteq Nat /\ left # {}
  <2>1. \A c \in days : d - c \in Nat
    OBVIOUS
  <2>2. left \subseteq Nat
    BY <2>1
  <2>3. PICK c \in days : TRUE
    OBVIOUS
  <2>4. d - c \in left
    OBVIOUS
  <2> QED
    BY <2>2, <2>4
<1>2. IsWellFoundedOn(less, Nat)
  BY NatLessThanWellFounded
<1>3. \A m, n \in Nat : <<m, n>> \in less <=> m < n
  BY DEF OpToRel
<1> HIDE DEF less, left
<1>4. PICK x \in left : \A y \in left : <<y, x>> \notin less
  BY <1>1, <1>2, WFMin
<1>5. PICK last \in days : x = d - last
  BY DEF left
<1>6. \A c \in days : ~(d - c < d - last)
  BY <1>1, <1>3, <1>4, <1>5 DEF left
<1> QED
  BY <1>6

\* A phase has ended iff its tasks are closed; it did not end before it, or its project, began.
LEMMA PhasesFit ==
    ASSUME StampInv, NEW p \in DOMAIN project, NEW phase,
           \A k \in TaskNo : <<"task", p, k>> \notin crossed
    PROVE  /\ TasksOf(p, phase) # {} => (PhaseEnd(p, phase) # {} <=> AllClosed(p, phase))
           /\ \A d \in DaysBetween(PhaseStart(p, phase), PhaseEnd(p, phase)) : d >= 0
           /\ \A d \in DaysBetween(project[p].started, PhaseEnd(p, phase)) : d >= 0
<1> DEFINE ends == UNION {t.completed : t \in TasksOf(p, phase)}
           touches == UNION {t.started \union t.completed : t \in TasksOf(p, phase)}
<1>1. \A t \in TasksOf(p, phase) : \E k \in TaskNo : t = task[p][k]
  BY DEF TasksOf
<1>2. ASSUME NEW k \in TaskNo
      PROVE  /\ task[p][k] \in TaskRow /\ TaskFits(task[p][k])
             /\ \A c \in task[p][k].completed : Within(p, c)
  <2>1. TaskStamps(p, k) /\ <<"task", p, k>> \notin crossed /\ task \in Seq([TaskNo -> TaskRow]) /\ p \in DOMAIN task
    BY DEF StampInv
  <2>2. task[p] \in [TaskNo -> TaskRow]
    BY <2>1
  <2> QED
    BY <2>1, <2>2 DEF TaskStamps
<1>3. \A t \in TasksOf(p, phase) :
         /\ t.completed \in SUBSET Nat /\ t.started \in SUBSET Nat
         /\ \A c \in t.completed : Within(p, c)
         /\ t.status \in ClosedTask => t.completed # {}
  BY <1>1, <1>2 DEF TaskRow, TaskFits
<1>4. day \in Nat /\ project[p].started \in SUBSET Int
  BY StampFacts
<1>5. ends \in SUBSET Nat /\ touches \in SUBSET Nat /\ ends \subseteq touches
  BY <1>3
<1>6. \A c \in ends : c <= day /\ \A s \in project[p].started : s <= c
  BY <1>3 DEF Within
<1>7. AllClosed(p, phase) /\ TasksOf(p, phase) # {} => ends # {}
  BY <1>3 DEF AllClosed
<1>8. /\ \A d : d \in PhaseEnd(p, phase) <=> (d \in ends /\ AllClosed(p, phase) /\ \A c \in ends : c <= d)
      /\ \A d : d \in PhaseStart(p, phase) <=> (d \in touches /\ \A c \in touches : d <= c)
  BY DEF PhaseEnd, PhaseStart
<1> HIDE DEF ends, touches
<1>9. ASSUME TasksOf(p, phase) # {}, AllClosed(p, phase) PROVE PhaseEnd(p, phase) # {}
  <2>1. PICK last \in ends : \A c \in ends : c <= last
    BY <1>4, <1>5, <1>6, <1>7, <1>9, LatestDay
  <2> QED
    BY <1>8, <1>9, <2>1
<1>10. PhaseEnd(p, phase) # {} => AllClosed(p, phase)
  <2> SUFFICES ASSUME NEW d \in PhaseEnd(p, phase) PROVE AllClosed(p, phase)
    OBVIOUS
  <2> QED
    BY <1>8
<1>11. ASSUME NEW c \in PhaseStart(p, phase), NEW d \in PhaseEnd(p, phase) PROVE d - c >= 0
  <2>1. c \in touches /\ d \in ends /\ \A b \in touches : c <= b
    BY <1>8
  <2>2. c \in Nat /\ d \in Nat /\ c <= d
    BY <1>5, <2>1
  <2> QED
    BY <2>2
<1>12. ASSUME NEW s \in project[p].started, NEW d \in PhaseEnd(p, phase) PROVE d - s >= 0
  <2>1. d \in ends
    BY <1>8
  <2>2. s \in Int /\ d \in Nat /\ s <= d
    BY <1>4, <1>5, <1>6, <2>1
  <2> QED
    BY <2>2
<1>13. \A from, to : (\A c \in from, d \in to : d - c >= 0) => \A d \in DaysBetween(from, to) : d >= 0
  BY DEF DaysBetween
<1> QED
  BY <1>9, <1>10, <1>11, <1>12, <1>13

\* For any number of projects, tasks and overlapping requests, and any template: the stamps, and
\* with them the metrics, say what the statuses say, unless two requests overlapped on the row
\* (update_project, apply_task_status, get_project_metrics in services/onboarding.py).
THEOREM StampsFitStatuses == OnboardingSpec => []DatesFitStatuses
<1>1. OnboardingInit => Shape /\ StampInv
  BY ShapeInit, StampInit
<1>2. Shape /\ StampInv /\ [OnboardingNext]_onboardingVars => Shape' /\ StampInv'
  BY Steps, StampStep
<1>3. StampInv => DatesFitStatuses
  <2> SUFFICES ASSUME StampInv, NEW p \in DOMAIN project
               PROVE  /\ <<"project", p>> \notin crossed => (project[p].completed # {} <=> project[p].status = "completed")
                      /\ \A k \in TaskNo :
                            <<"task", p, k>> \notin crossed =>
                               /\ task[p][k].status \in ClosedTask => task[p][k].completed # {} /\ task[p][k].by # {}
                               /\ task[p][k].status = "todo" => task[p][k].completed = {}
                      /\ (\A k \in TaskNo : <<"task", p, k>> \notin crossed) =>
                            /\ \A phase \in 1..FinalPhase : TasksOf(p, phase) # {} =>
                                  /\ PhaseEnd(p, phase) # {} <=> AllClosed(p, phase)
                                  /\ \A d \in DaysBetween(PhaseStart(p, phase), PhaseEnd(p, phase)) : d >= 0
                            /\ \A d \in TotalDays(p) : d >= 0
    BY DEF DatesFitStatuses
  <2>1. <<"project", p>> \notin crossed => (project[p].completed # {} <=> project[p].status = "completed")
    BY DEF StampInv, ProjectStamps, ProjectFits
  <2>2. ASSUME NEW k \in TaskNo, <<"task", p, k>> \notin crossed
        PROVE  /\ task[p][k].status \in ClosedTask => task[p][k].completed # {} /\ task[p][k].by # {}
               /\ task[p][k].status = "todo" => task[p][k].completed = {}
    BY <2>2 DEF StampInv, TaskStamps, TaskFits
  <2>3. ASSUME \A k \in TaskNo : <<"task", p, k>> \notin crossed
        PROVE  /\ \A phase \in 1..FinalPhase : TasksOf(p, phase) # {} =>
                     /\ PhaseEnd(p, phase) # {} <=> AllClosed(p, phase)
                     /\ \A d \in DaysBetween(PhaseStart(p, phase), PhaseEnd(p, phase)) : d >= 0
               /\ \A d \in TotalDays(p) : d >= 0
    BY <2>3, PhasesFit DEF TotalDays
  <2> QED
    BY <2>1, <2>2, <2>3
<1> QED
  BY <1>1, <1>2, <1>3, PTL DEF OnboardingSpec

-----------------------------------------------------------------------------
(* Modules and tiers. *)

\* Where a PUT is, and what it is about to write.
PutState ==
    [at : {"idle", "rows", "commit"}, tier : SUBSET Tier, wanted : SUBSET CatalogKey,
     set : UNION {[S -> {"on", "off"}] : S \in SUBSET CatalogKey}, newTier : BOOLEAN]

ModulesTypes ==
    /\ tier \in SUBSET Tier
    /\ module \in [CatalogKey -> {"none", "on", "off"}]
    /\ updating \in [Updater -> PutState]
    /\ putsOverlapped \in BOOLEAN

\* What u is going to write switches these keys on, or finds them on.
SwitchesOn(u, keys) ==
    \A k \in keys : IF k \in DOMAIN updating[u].set THEN updating[u].set[k] = "on" ELSE module[k] = "on"

\* A PUT that is to change the rows knows a set its tier allows, and its tier.
PutInHand(u) ==
    /\ updating[u].at = "rows" => \A t \in updating[u].tier : ValidTierModules(t, updating[u].wanted)
    /\ updating[u].at = "rows" => updating[u].tier # {}
    /\ updating[u].at = "commit" => SwitchesOn(u, {CoreKey})
    /\ updating[u].at = "commit" /\ ~putsOverlapped =>
          \E keys \in SUBSET CatalogKey :
             /\ \A t \in updating[u].tier : ValidTierModules(t, keys)
             /\ SwitchesOn(u, keys)
    /\ updating[u].at # "idle" /\ ~putsOverlapped /\ ~updating[u].newTier => updating[u].tier = tier

ModulesInv ==
    /\ ModulesTypes
    /\ TierRulesHold
    /\ \A u \in Updater : PutInHand(u)

-----------------------------------------------------------------------------
\* More modules than required do no harm.
LEMMA MoreModules ==
    ASSUME NEW t \in Tier, NEW K \in SUBSET CatalogKey, NEW L \in SUBSET CatalogKey, K \subseteq L,
           ValidTierModules(t, K)
    PROVE  ValidTierModules(t, L)
<1>1. IsFiniteSet(L \ {CoreKey}) /\ K \ {CoreKey} \subseteq L \ {CoreKey}
  BY CatalogAssumption, FS_Subset
<1>2. /\ Cardinality(K \ {CoreKey}) <= Cardinality(L \ {CoreKey})
      /\ Cardinality(K \ {CoreKey}) \in Nat /\ Cardinality(L \ {CoreKey}) \in Nat
  BY <1>1, FS_Subset, FS_CardinalityType
<1>3. MinWorkflows[t] \in Nat
  BY CatalogAssumption
<1> QED
  BY <1>2, <1>3 DEF ValidTierModules

LEMMA ModulesInitInv == ModulesInit => ModulesInv
<1> SUFFICES ASSUME ModulesInit PROVE ModulesInv
  OBVIOUS
<1>1. NotUpdating \in PutState
  <2>1. <<>> \in [{} -> {"on", "off"}]
    OBVIOUS
  <2> QED
    BY <2>1 DEF NotUpdating, PutState
<1>2. ModulesTypes
  BY <1>1 DEF ModulesInit, ModulesTypes
<1>3. TierRulesHold
  BY DEF ModulesInit, TierRulesHold
<1>4. \A u \in Updater : PutInHand(u)
  BY DEF ModulesInit, PutInHand, NotUpdating
<1> QED
  BY <1>2, <1>3, <1>4 DEF ModulesInv

\* Steps of the deploy script, and steps that change nothing here: modules are only added.
LEMMA OnlyAdded ==
    ASSUME ModulesInv, UNCHANGED <<tier, updating, putsOverlapped>>,
           module' \in [CatalogKey -> {"none", "on", "off"}],
           \A k \in CatalogKey : module[k] = "on" => module'[k] = "on"
    PROVE  ModulesInv'
<1>1. ModulesTypes'
  BY DEF ModulesInv, ModulesTypes
<1>2. TierRulesHold'
  <2>1. ActiveKeys \in SUBSET CatalogKey /\ ActiveKeys' \in SUBSET CatalogKey /\ ActiveKeys \subseteq ActiveKeys'
    BY DEF ActiveKeys
  <2>2. tier \in SUBSET Tier
    BY DEF ModulesInv, ModulesTypes
  <2>3. ASSUME NEW t \in tier, ValidTierModules(t, ActiveKeys) PROVE ValidTierModules(t, ActiveKeys')
    BY <2>1, <2>2, <2>3, MoreModules
  <2> QED
    BY <2>1, <2>3 DEF ModulesInv, TierRulesHold, ValidTierModules
<1>3. ASSUME NEW u \in Updater PROVE PutInHand(u)'
  <2>1. ASSUME NEW keys \in SUBSET CatalogKey, SwitchesOn(u, keys) PROVE SwitchesOn(u, keys)'
    BY <2>1 DEF SwitchesOn
  <2>2. SwitchesOn(u, {CoreKey}) => SwitchesOn(u, {CoreKey})'
    BY <2>1, CatalogAssumption
  <2> QED
    BY <2>1, <2>2 DEF ModulesInv, PutInHand, ValidTierModules
<1> QED
  BY <1>1, <1>2, <1>3 DEF ModulesInv

\* One PUT moves on or gives up, and nothing is written.
LEMMA OnePutMoves ==
    ASSUME ModulesInv, UNCHANGED <<tier, module, putsOverlapped>>, NEW u \in Updater, NEW next \in PutState,
           updating' = [updating EXCEPT ![u] = next], PutInHand(u)'
    PROVE  ModulesInv'
<1>1. ModulesTypes'
  BY DEF ModulesInv, ModulesTypes
<1>2. TierRulesHold'
  BY DEF ModulesInv, TierRulesHold, ActiveKeys, ValidTierModules
<1>3. ASSUME NEW v \in Updater PROVE PutInHand(v)'
  <2>1. CASE v = u
    BY <2>1
  <2>2. CASE v # u
    <3>1. updating'[v] = updating[v]
      BY <2>2 DEF ModulesInv, ModulesTypes
    <3>2. ASSUME NEW keys PROVE SwitchesOn(v, keys)' <=> SwitchesOn(v, keys)
      BY <3>1 DEF SwitchesOn
    <3> QED
      BY <3>1, <3>2 DEF ModulesInv, PutInHand, ValidTierModules
  <2> QED
    BY <2>1, <2>2
<1> QED
  BY <1>1, <1>2, <1>3 DEF ModulesInv

LEMMA PutModulesStep ==
    ASSUME ModulesInv, NEW u \in Updater, PutModules(u)
    PROVE  ModulesInv'
<1>1. PICK chosen \in SUBSET Tier, wanted \in SUBSET CatalogKey :
         /\ chosen # {} /\ \A t \in chosen : ValidTierModules(t, wanted)
         /\ updating' = [updating EXCEPT ![u] =
                            [at |-> "rows", tier |-> chosen, wanted |-> wanted, set |-> <<>>, newTier |-> chosen # tier]]
  <2>1. PICK given \in {{}} \union {{t} : t \in Tier}, wanted \in SUBSET CatalogKey :
           LET chosen == IF given # {} THEN given ELSE tier IN
           /\ chosen # {} /\ \A t \in chosen : ValidTierModules(t, wanted)
           /\ updating' = [updating EXCEPT ![u] =
                              [at |-> "rows", tier |-> chosen, wanted |-> wanted, set |-> <<>>, newTier |-> chosen # tier]]
    BY DEF PutModules
  <2>2. (IF given # {} THEN given ELSE tier) \in SUBSET Tier
    BY DEF ModulesInv, ModulesTypes
  <2> QED
    BY <2>1, <2>2
<1>5. PICK isNew \in BOOLEAN : isNew = (chosen # tier)
  OBVIOUS
<1> DEFINE next == [at |-> "rows", tier |-> chosen, wanted |-> wanted, set |-> <<>>, newTier |-> isNew]
<1>6. updating' = [updating EXCEPT ![u] = next]
  BY <1>1, <1>5
<1>7. ~isNew => chosen = tier
  BY <1>5, Zenon
<1>2. next \in PutState
  <2>1. <<>> \in [{} -> {"on", "off"}]
    OBVIOUS
  <2> QED
    BY <2>1 DEF PutState
<1>3. updating'[u] = next /\ UNCHANGED <<tier, module, putsOverlapped>>
  BY <1>6 DEF ModulesInv, ModulesTypes, PutModules
<1>4. PutInHand(u)'
  <2>1. /\ updating'[u].at = "rows" /\ updating'[u].tier = chosen /\ updating'[u].wanted = wanted
    BY <1>3
  <2>2. updating'[u].newTier = isNew
    BY <1>3
  <2> QED
    BY <1>1, <1>3, <1>7, <2>1, <2>2 DEF PutInHand, ValidTierModules
<1> HIDE DEF next
<1> QED
  BY <1>2, <1>3, <1>4, <1>6, OnePutMoves

LEMMA ReadRowsStep ==
    ASSUME ModulesInv, NEW u \in Updater, ReadRows(u)
    PROVE  ModulesInv'
<1>0. PICK wanted : wanted = updating[u].wanted
  OBVIOUS
<1> DEFINE inserts == {k \in wanted : module[k] = "none"}
           next == [at |-> "commit", tier |-> updating[u].tier, wanted |-> inserts,
                    set |-> Replaced(wanted), newTier |-> updating[u].newTier]
<1>1. /\ updating[u].at = "rows" /\ updating' = [updating EXCEPT ![u] = next]
      /\ UNCHANGED <<tier, module, putsOverlapped>>
  BY <1>0 DEF ReadRows
<1>2. updating[u] \in PutState /\ wanted \in SUBSET CatalogKey /\ module \in [CatalogKey -> {"none", "on", "off"}]
  BY <1>0 DEF ModulesInv, ModulesTypes, PutState
<1>3. /\ Replaced(wanted) \in UNION {[S -> {"on", "off"}] : S \in SUBSET CatalogKey}
      /\ \A k \in wanted : IF k \in DOMAIN Replaced(wanted) THEN Replaced(wanted)[k] = "on" ELSE module[k] = "on"
  <2> DEFINE D == {k \in CatalogKey : IF k \in wanted THEN module[k] # "on" ELSE module[k] = "on"}
  <2>1. Replaced(wanted) = [k \in D |-> IF k \in wanted THEN "on" ELSE "off"]
    BY DEF Replaced
  <2>2. Replaced(wanted) \in [D -> {"on", "off"}] /\ D \in SUBSET CatalogKey
    BY <2>1
  <2>3. \A k \in wanted : IF k \in DOMAIN Replaced(wanted) THEN Replaced(wanted)[k] = "on" ELSE module[k] = "on"
    BY <1>2, <2>1
  <2> QED
    BY <2>2, <2>3
<1> HIDE DEF inserts
<1>4. inserts \in SUBSET CatalogKey
  BY <1>2 DEF inserts
<1>5. next \in PutState
  BY <1>2, <1>3, <1>4 DEF PutState
<1>6. updating'[u] = next
  BY <1>1 DEF ModulesInv, ModulesTypes
<1>7. /\ updating'[u].at = "commit" /\ updating'[u].set = Replaced(wanted)
      /\ updating'[u].tier = updating[u].tier /\ updating'[u].newTier = updating[u].newTier
  BY <1>6
<1>8. SwitchesOn(u, wanted)'
  BY <1>1, <1>3, <1>7 DEF SwitchesOn
<1>9. /\ \A t \in updating[u].tier : ValidTierModules(t, wanted)
      /\ updating[u].tier # {}
  BY <1>0, <1>1 DEF ModulesInv, PutInHand
<1>10. CoreKey \in wanted
  BY <1>9 DEF ValidTierModules
<1>11. PutInHand(u)'
  <2>1. SwitchesOn(u, {CoreKey})'
    BY <1>8, <1>10 DEF SwitchesOn
  <2>2. ~putsOverlapped /\ ~updating[u].newTier => updating[u].tier = tier
    BY <1>1 DEF ModulesInv, PutInHand
  <2> QED
    BY <1>1, <1>2, <1>7, <1>8, <1>9, <2>1, <2>2 DEF PutInHand, ValidTierModules
<1> HIDE DEF next
<1> QED
  BY <1>1, <1>5, <1>11, OnePutMoves

LEMMA CommitPutStep ==
    ASSUME ModulesInv, NEW u \in Updater, CommitPut(u)
    PROVE  ModulesInv'
<1>1. /\ updating[u].at = "commit" /\ updating' = [updating EXCEPT ![u] = NotUpdating]
      /\ putsOverlapped' = (putsOverlapped \/ \E v \in Updater \ {u} : updating[v] # NotUpdating)
  BY DEF CommitPut
<1>2. /\ tier \in SUBSET Tier /\ module \in [CatalogKey -> {"none", "on", "off"}]
      /\ updating \in [Updater -> PutState] /\ updating[u] \in PutState /\ putsOverlapped \in BOOLEAN
  BY DEF ModulesInv, ModulesTypes
<1>3. PICK S \in SUBSET CatalogKey : updating[u].set \in [S -> {"on", "off"}]
  BY <1>2 DEF PutState
<1>4. updating[u].tier \in SUBSET Tier
  BY <1>2 DEF PutState
<1>5. SwitchesOn(u, {CoreKey})
  BY <1>1 DEF ModulesInv, PutInHand
<1>6. \/ UNCHANGED <<tier, module>>
      \/ /\ module' = [k \in CatalogKey |-> IF k \in DOMAIN updating[u].set THEN updating[u].set[k] ELSE module[k]]
         /\ tier' = IF updating[u].newTier THEN updating[u].tier ELSE tier
  BY DEF CommitPut
<1>7. NotUpdating \in PutState /\ NotUpdating.at = "idle"
  <2>1. <<>> \in [{} -> {"on", "off"}]
    OBVIOUS
  <2> QED
    BY <2>1 DEF NotUpdating, PutState
<1>8. ModulesTypes'
  <2>1. module' \in [CatalogKey -> {"none", "on", "off"}]
    BY <1>2, <1>3, <1>6
  <2>2. tier' \in SUBSET Tier
    BY <1>2, <1>4, <1>6
  <2>3. updating' \in [Updater -> PutState]
    BY <1>1, <1>2, <1>7
  <2>4. putsOverlapped' \in BOOLEAN
    BY <1>1, <1>2
  <2> QED
    BY <2>1, <2>2, <2>3, <2>4 DEF ModulesTypes
<1>9. \A k \in CatalogKey, keys \in SUBSET CatalogKey :
         SwitchesOn(u, keys) /\ k \in keys => (module' = module \/ module'[k] = "on")
  BY <1>2, <1>6 DEF SwitchesOn
<1>10. module[CoreKey] = "on" => module'[CoreKey] = "on"
  BY <1>5, <1>9, CatalogAssumption
<1>11. TierRulesHold'
  <2>1. CASE UNCHANGED <<tier, module>>
    BY <1>1, <2>1 DEF ModulesInv, TierRulesHold, ActiveKeys, ValidTierModules
  <2>2. CASE /\ module' = [k \in CatalogKey |-> IF k \in DOMAIN updating[u].set THEN updating[u].set[k] ELSE module[k]]
             /\ tier' = IF updating[u].newTier THEN updating[u].tier ELSE tier
    <3>1. \A keys \in SUBSET CatalogKey : SwitchesOn(u, keys) => keys \subseteq ActiveKeys'
      BY <1>2, <2>2 DEF SwitchesOn, ActiveKeys
    <3>2. CoreKey \in ActiveKeys'
      BY <1>5, <3>1, CatalogAssumption
    <3>3. ASSUME ~putsOverlapped', NEW t \in tier' PROVE ValidTierModules(t, ActiveKeys')
      <4>1. ~putsOverlapped
        BY <1>1, <3>3
      <4>2. PICK keys \in SUBSET CatalogKey :
               /\ \A s \in updating[u].tier : ValidTierModules(s, keys)
               /\ SwitchesOn(u, keys)
        BY <1>1, <4>1 DEF ModulesInv, PutInHand
      <4>3. t \in updating[u].tier
        BY <1>1, <2>2, <3>3, <4>1 DEF ModulesInv, PutInHand
      <4>4. ActiveKeys' \in SUBSET CatalogKey /\ keys \subseteq ActiveKeys'
        BY <3>1, <4>2 DEF ActiveKeys
      <4> QED
        BY <1>4, <4>2, <4>3, <4>4, MoreModules
    <3> QED
      BY <3>2, <3>3 DEF TierRulesHold, ValidTierModules
  <2> QED
    BY <1>6, <2>1, <2>2
<1>12. ASSUME NEW v \in Updater PROVE PutInHand(v)'
  <2>1. CASE updating'[v].at = "idle"
    BY <2>1 DEF PutInHand
  <2>2. CASE updating'[v].at # "idle"
    <3>1. v # u /\ updating'[v] = updating[v] /\ updating[v] # NotUpdating
      BY <1>1, <1>2, <1>7, <2>2
    <3>2. putsOverlapped'
      BY <1>1, <3>1
    <3>3. SwitchesOn(v, {CoreKey}) => SwitchesOn(v, {CoreKey})'
      BY <1>10, <3>1 DEF SwitchesOn
    <3> QED
      BY <3>1, <3>2, <3>3 DEF ModulesInv, PutInHand, ValidTierModules
  <2> QED
    BY <2>1, <2>2
<1> QED
  BY <1>8, <1>11, <1>12 DEF ModulesInv

LEMMA ModulesStep == ModulesInv /\ [ModulesNext]_modulesVars => ModulesInv'
<1> SUFFICES ASSUME ModulesInv, [ModulesNext]_modulesVars PROVE ModulesInv'
  OBVIOUS
<1>1. module \in [CatalogKey -> {"none", "on", "off"}]
  BY DEF ModulesInv, ModulesTypes
<1>2. CASE UNCHANGED modulesVars \/ Seed \/ LookForKey
  BY <1>1, <1>2, OnlyAdded DEF modulesVars, Seed, LookForKey
<1>3. CASE CommitSeed
  BY <1>1, <1>3, OnlyAdded DEF CommitSeed
<1>4. ASSUME NEW u \in Updater, PutFails(u) PROVE ModulesInv'
  <2>1. NotUpdating \in PutState /\ NotUpdating.at = "idle"
    <3>1. <<>> \in [{} -> {"on", "off"}]
      OBVIOUS
    <3> QED
      BY <3>1 DEF NotUpdating, PutState
  <2>2. updating' = [updating EXCEPT ![u] = NotUpdating] /\ UNCHANGED <<tier, module, putsOverlapped>>
    BY <1>4 DEF PutFails
  <2>3. updating'[u] = NotUpdating
    BY <2>2 DEF ModulesInv, ModulesTypes
  <2>4. PutInHand(u)'
    BY <2>1, <2>3 DEF PutInHand
  <2> QED
    BY <2>1, <2>2, <2>4, OnePutMoves
<1> QED
  BY <1>2, <1>3, <1>4, PutModulesStep, ReadRowsStep, CommitPutStep DEF ModulesNext

\* A tenant with a tier has core, and has what its tier requires unless two PUTs overlapped;
\* a deploy that seeds while the tier is given takes nothing away.
THEOREM RulesHold == ModulesSpec => []TierRulesHold
<1>1. ModulesInv => TierRulesHold
  BY DEF ModulesInv
<1> QED
  BY <1>1, ModulesInitInv, ModulesStep, PTL DEF ModulesSpec

-----------------------------------------------------------------------------
(* Provisioning: what a call has inserted, and what is inductive about it. *)

RowsOf(r, parts) == {Row(r, part, org[r]) : part \in parts}

\* The parts a call has inserted when s is its next statement.
InsertedParts(s, p) ==
    {part \in Wanted(p) :
        \/ part = "organization" /\ s \in InTransaction \ {"organization"}
        \/ part = "user" /\ s \in InTransaction \ {"organization", "user"}
        \/ part = "modules" /\ s \in {"governance", "write_file", "document", "request", "commit"}
        \/ part = "governance" /\ s \in {"write_file", "document", "request", "commit"}
        \/ part = "document" /\ s \in {"request", "commit"}
        \/ part = "request" /\ s = "commit"}

\* The calls whose rows are committed, whether their callers know it or not.
Committed == {r \in Request : \E w \in table : w.org = org[r]}

\* The parts a call holds, committed or not.
Has(r) == IF r \in Committed THEN Wanted(params[r]) ELSE InsertedParts(pc[r], params[r])

Statements == {"find_replay", "check_name", "check_user", "respond", "look_again", "done"} \union InTransaction
Answers == {"none", "created", "unshown", "replayed", "refused", "failed", "lost", "crashed"}

Types ==
    /\ params \in [Request -> Params]
    /\ pc \in [Request -> Statements]
    /\ answer \in [Request -> Answers]
    /\ pending = [r \in Request |-> pending[r]]
    /\ nextOrg \in Nat \ {0}

\* Ids are numbers below nextOrg, and no two calls have the same one.
Ids ==
    /\ org \in [Request -> (1..nextOrg - 1) \union {NoOrg}]
    /\ \A r, q \in Request : r # q /\ org[r] # NoOrg => org[r] # org[q]
    /\ \A r \in Request :
          /\ pc[r] \in {"find_replay", "check_name", "check_user", "organization"} => org[r] = NoOrg
          /\ pc[r] \in (InTransaction \ {"organization"}) \union {"respond"} => org[r] # NoOrg

\* A transaction has inserted what comes before its next statement; what is committed is whole.
RowsAreTheCalls ==
    /\ \A r \in Request : pending[r] = RowsOf(r, InsertedParts(pc[r], params[r]))
    /\ table = UNION {RowsOf(r, Wanted(params[r])) : r \in Committed}

\* What became of a call.
Fates ==
    \A r \in Request :
        /\ r \in Committed => /\ org[r] # NoOrg /\ pc[r] \in {"respond", "done"}
                              /\ answer[r] \in {"none", "created", "unshown", "lost", "crashed"}
        /\ pc[r] = "respond" \/ answer[r] \in {"created", "unshown"} => r \in Committed
        /\ pc[r] # "done" => answer[r] = "none"
        /\ answer[r] = "replayed" => \E q \in Committed : params[q] = params[r]

\* The unique constraints, also between rows that are not committed yet.
Unshared ==
    \A r, q \in Request : r # q =>
        /\ "user" \in Has(r) \intersect Has(q) => params[r].admin # params[q].admin
        /\ "request" \in Has(r) \intersect Has(q) => params[r].key # params[q].key

Files ==
    /\ files \subseteq 1..nextOrg - 1
    /\ \A r \in Request :
          params[r].document /\ (pc[r] \in {"document", "request", "commit", "respond"} \/ r \in Committed)
             => org[r] \in files \/ answer[r] = "lost"
    /\ \A o \in files : \E r \in Request :
          org[r] = o /\ params[r].document /\ (r \in Committed \/ Inside(r) \/ answer[r] = "crashed")

ProvisioningInv == Types /\ Ids /\ RowsAreTheCalls /\ Fates /\ Unshared /\ Files

-----------------------------------------------------------------------------
(* Lemmas about rows. *)

LEMMA StatementAfter ==
    /\ After("find_replay") = "check_name" /\ After("check_name") = "check_user"
    /\ After("check_user") = "organization" /\ After("organization") = "user"
    /\ After("user") = "modules" /\ After("modules") = "governance"
    /\ After("governance") = "write_file" /\ After("write_file") = "document"
    /\ After("document") = "request" /\ After("request") = "commit" /\ After("commit") = "respond"
BY DEF After

\* Each statement inserts its own part.
LEMMA InsertedGrows ==
    ASSUME NEW p \in Params, NEW s \in Part
    PROVE  InsertedParts(After(s), p) = InsertedParts(s, p) \union ({s} \intersect Wanted(p))
<1>1. s \in {"organization", "user", "modules", "governance", "document", "request"}
  BY DEF Part
<1>2. Wanted(p) \subseteq Part
  BY DEF Wanted, Part
<1>3. CASE s = "organization"
  BY <1>2, <1>3, StatementAfter DEF InsertedParts, InTransaction, Part
<1>4. CASE s = "user"
  BY <1>2, <1>4, StatementAfter DEF InsertedParts, InTransaction, Part
<1>5. CASE s = "modules"
  BY <1>2, <1>5, StatementAfter DEF InsertedParts, InTransaction, Part
<1>6. CASE s = "governance"
  BY <1>2, <1>6, StatementAfter DEF InsertedParts, InTransaction, Part
<1>7. CASE s = "document"
  BY <1>2, <1>7, StatementAfter DEF InsertedParts, InTransaction, Part
<1>8. CASE s = "request"
  BY <1>2, <1>8, StatementAfter DEF InsertedParts, InTransaction, Part
<1> QED  BY <1>1, <1>3, <1>4, <1>5, <1>6, <1>7, <1>8

\* Outside a transaction nothing is inserted, before COMMIT everything is.
LEMMA InsertedEnds ==
    ASSUME NEW p \in Params, NEW s
    PROVE  /\ s \notin InTransaction \/ s = "organization" => InsertedParts(s, p) = {}
           /\ s = "commit" => InsertedParts(s, p) = Wanted(p)
           /\ s = "write_file" => InsertedParts(After(s), p) = InsertedParts(s, p)
<1>1. Wanted(p) \subseteq Part
  BY DEF Wanted, Part
<1>2. s \notin InTransaction \/ s = "organization" => InsertedParts(s, p) = {}
  BY DEF InsertedParts, InTransaction
<1>3. s = "commit" => InsertedParts(s, p) = Wanted(p)
  BY <1>1 DEF InsertedParts, InTransaction, Part
<1>4. s = "write_file" => InsertedParts(After(s), p) = InsertedParts(s, p)
  BY StatementAfter DEF InsertedParts, InTransaction
<1> QED  BY <1>2, <1>3, <1>4

\* The fields of a row.
LEMMA RowFields ==
    ASSUME NEW r, NEW part, NEW id
    PROVE  /\ Row(r, part, id).part = part /\ Row(r, part, id).org = id
           /\ Row(r, part, id).hash = params[r] /\ Row(r, part, id).key = params[r].key
           /\ Row(r, part, id).admin = params[r].admin
BY DEF Row

\* A committed row belongs to exactly one call, and with it all the others of that call.
LEMMA RowBelongs ==
    ASSUME ProvisioningInv, NEW w \in table
    PROVE  \E r \in Committed :
              /\ w.org = org[r] /\ w.hash = params[r] /\ w.part \in Wanted(params[r])
              /\ w = Row(r, w.part, org[r])
<1>1. PICK r \in Committed : w \in RowsOf(r, Wanted(params[r]))
  BY DEF ProvisioningInv, RowsAreTheCalls
<1>2. PICK part \in Wanted(params[r]) : w = Row(r, part, org[r])
  BY <1>1 DEF RowsOf
<1> QED  BY <1>2, RowFields

LEMMA PartsOfCall ==
    ASSUME ProvisioningInv, NEW r \in Request
    PROVE  PartsOf(org[r]) = IF r \in Committed THEN Wanted(params[r]) ELSE {}
<1>1. CASE r \notin Committed
  BY <1>1 DEF Committed, PartsOf
<1>2. CASE r \in Committed
  <2>1. ASSUME NEW part \in Wanted(params[r]) PROVE part \in PartsOf(org[r])
    <3>1. Row(r, part, org[r]) \in table
      BY <1>2, <2>1 DEF ProvisioningInv, RowsAreTheCalls, RowsOf
    <3> QED  BY <3>1, RowFields DEF PartsOf
  <2>2. ASSUME NEW w \in table, w.org = org[r] PROVE w.part \in Wanted(params[r])
    <3>1. PICK q \in Committed : w.org = org[q] /\ w.part \in Wanted(params[q])
      BY RowBelongs
    <3>2. org[q] # NoOrg
      BY DEF ProvisioningInv, Fates, Committed
    <3>3. q = r
      BY <2>2, <3>1, <3>2 DEF ProvisioningInv, Ids, Committed
    <3> QED  BY <3>1, <3>3
  <2> QED  BY <1>2, <2>1, <2>2 DEF PartsOf
<1> QED  BY <1>1, <1>2

LEMMA NothingPending ==
    ASSUME ProvisioningInv, NEW r \in Request, pc[r] \notin InTransaction \/ pc[r] = "organization"
    PROVE  pending[r] = {} /\ InsertedParts(pc[r], params[r]) = {}
<1>1. params[r] \in Params
  BY DEF ProvisioningInv, Types
<1>2. InsertedParts(pc[r], params[r]) = {}
  BY <1>1, InsertedEnds
<1> QED  BY <1>2 DEF ProvisioningInv, RowsAreTheCalls, RowsOf

\* In a transaction, nothing is committed.
LEMMA NotYetCommitted ==
    ASSUME ProvisioningInv, NEW r \in Request, pc[r] \notin {"respond", "done"}
    PROVE  r \notin Committed
BY DEF ProvisioningInv, Fates

LEMMA SameCommitted ==
    ASSUME table' = table, org' = org
    PROVE  Committed' = Committed
BY DEF Committed

-----------------------------------------------------------------------------
(* The kinds of steps. *)

LEMMA InvInit == Init => ProvisioningInv
<1> SUFFICES ASSUME Init PROVE ProvisioningInv
  OBVIOUS
<1>1. Types
  BY DEF Init, Types, Statements, Answers
<1>2. Ids
  BY DEF Init, Ids, InTransaction
<1>3. Committed = {}
  BY DEF Init, Committed
<1>4. \A r \in Request : InsertedParts(pc[r], params[r]) = {}
  BY DEF Init, InsertedParts, InTransaction
<1>5. RowsAreTheCalls
  BY <1>3, <1>4 DEF Init, RowsAreTheCalls, RowsOf
<1>6. Fates
  BY <1>3 DEF Init, Fates
<1>7. Unshared
  BY <1>3, <1>4 DEF Unshared, Has
<1>8. Files
  BY <1>3 DEF Init, Files
<1> QED  BY <1>1, <1>2, <1>5, <1>6, <1>7, <1>8 DEF ProvisioningInv

\* A call goes on or ends outside its transaction.
LEMMA StepOutside ==
    ASSUME ProvisioningInv, NEW r \in Request, pc[r] \notin InTransaction, pc[r] # "done",
           NEW s \in {"check_name", "check_user", "organization", "done"}, NEW a \in Answers,
           pc' = [pc EXCEPT ![r] = s], answer' = [answer EXCEPT ![r] = a],
           UNCHANGED <<params, table, pending, files, nextOrg, org>>,
           s # "done" => org[r] = NoOrg /\ a = "none" /\ pc[r] # "respond",
           a \in {"created", "unshown"} <=> s = "done" /\ pc[r] = "respond" /\ a # "crashed",
           a # "lost", a = "failed" => pc[r] # "respond",
           a = "replayed" => \E q \in Committed : params[q] = params[r]
    PROVE  ProvisioningInv'
<1> USE DEF ProvisioningInv
<1>1. Committed' = Committed
  BY SameCommitted
<1>2. Types'
  BY DEF Types, Statements, InTransaction
<1>3. Ids'
  BY DEF Types, Ids, InTransaction
<1>4. \A q \in Request : InsertedParts(pc[q], params[q])' = InsertedParts(pc[q], params[q])
  <2> SUFFICES ASSUME NEW q \in Request PROVE InsertedParts(pc'[q], params[q]) = InsertedParts(pc[q], params[q])
    OBVIOUS
  <2>1. CASE q = r
    <3>1. InsertedParts(pc[r], params[r]) = {}
      BY NothingPending
    <3>2. InsertedParts(s, params[r]) = {}
      BY InsertedEnds DEF Types, InTransaction
    <3> QED  BY <2>1, <3>1, <3>2 DEF Types
  <2>2. CASE q # r
    BY <2>2 DEF Types
  <2> QED  BY <2>1, <2>2
<1>5. RowsAreTheCalls'
  BY <1>1, <1>4 DEF RowsAreTheCalls, RowsOf, Row
<1>6. Fates'
  BY <1>1 DEF Fates, Types
<1>7. Unshared'
  BY <1>1, <1>4 DEF Unshared, Has
<1>8. Files'
  BY <1>1 DEF Files, Types, Fates, Inside
<1> QED  BY <1>2, <1>3, <1>5, <1>6, <1>7, <1>8

\* A statement of the transaction inserts its part, unless another call has the same value.
LEMMA InsertKeeps ==
    ASSUME ProvisioningInv, NEW r \in Request, Insert(r)
    PROVE  ProvisioningInv'
<1> USE DEF ProvisioningInv
<1> DEFINE s == pc[r]
           row == Row(r, s, org[r])
<1>1. /\ s \in Part \ {"organization"} /\ ~Blocked(r, row) /\ ~Duplicate(row)
      /\ pc' = [pc EXCEPT ![r] = After(s)]
      /\ UNCHANGED <<params, table, files, nextOrg, org, answer>>
  BY DEF Insert, Advance, Flush
<1>2. s \in {"user", "modules", "governance", "document", "request"}
  BY <1>1 DEF Part
<1>3. After(s) \in InTransaction \ {"organization"} /\ s \in InTransaction \ {"organization"}
  BY <1>2, StatementAfter DEF InTransaction
<1>4. params[r] \in Params /\ org[r] # NoOrg
  BY <1>3 DEF Types, Ids
<1>5. Committed' = Committed /\ r \notin Committed
  BY <1>1, <1>2, SameCommitted, NotYetCommitted
<1>6. InsertedParts(After(s), params[r]) = InsertedParts(s, params[r]) \union ({s} \intersect Wanted(params[r]))
  BY <1>1, <1>4, InsertedGrows
<1>7. pending' = [pending EXCEPT ![r] = RowsOf(r, InsertedParts(After(s), params[r]))]
  <2>1. pending[r] = RowsOf(r, InsertedParts(s, params[r]))
    BY DEF RowsAreTheCalls
  <2>2. CASE s \in Wanted(params[r])
    <3>1. ~(s = "document" /\ ~params[r].document)
      BY <2>2 DEF Wanted
    <3>2. pending' = [pending EXCEPT ![r] = @ \union {row}]
      BY <3>1 DEF Insert, Flush
    <3>3. RowsOf(r, InsertedParts(After(s), params[r])) = RowsOf(r, InsertedParts(s, params[r])) \union {row}
      BY <1>6, <2>2 DEF RowsOf
    <3> QED  BY <2>1, <3>2, <3>3
  <2>3. CASE s \notin Wanted(params[r])
    <3>1. s = "document" /\ ~params[r].document
      BY <1>1, <2>3 DEF Wanted
    <3>2. pending' = pending
      BY <3>1 DEF Insert
    <3> QED  BY <1>6, <2>1, <2>3, <3>2 DEF Types
  <2> QED  BY <2>2, <2>3
<1>8. Types'
  BY <1>1, <1>3, <1>7 DEF Types, Statements
<1>9. Ids'
  BY <1>1, <1>3, <1>4 DEF Ids, Types, InTransaction
<1>10. RowsAreTheCalls'
  BY <1>1, <1>5, <1>7 DEF RowsAreTheCalls, RowsOf, Row, Types
<1>11. Fates'
  BY <1>1, <1>2, <1>3, <1>5 DEF Fates, Types, InTransaction
<1>12. \A q \in Request : Has(q)' = IF q = r THEN InsertedParts(After(s), params[r]) ELSE Has(q)
  BY <1>1, <1>5 DEF Has, Types
<1>13. \A q \in Request \ {r} :
          /\ s = "user" /\ "user" \in Has(q) => params[r].admin # params[q].admin
          /\ s = "request" /\ "request" \in Has(q) => params[r].key # params[q].key
  <2> SUFFICES ASSUME NEW q \in Request \ {r}, s \in {"user", "request"}, s \in Has(q)
               PROVE  /\ s = "user" => params[r].admin # params[q].admin
                      /\ s = "request" => params[r].key # params[q].key
    OBVIOUS
  <2> DEFINE other == Row(q, s, org[q])
  <2>1. ~Clashes(s, row, other)
    <3>1. CASE q \in Committed
      <4>1. other \in table
        BY <3>1 DEF RowsAreTheCalls, RowsOf, Has
      <4> QED  BY <1>1, <4>1, RowFields DEF Duplicate
    <3>2. CASE q \notin Committed
      <4>1. other \in pending[q]
        BY <3>2 DEF RowsAreTheCalls, RowsOf, Has
      <4> QED  BY <1>1, <4>1, RowFields DEF Blocked
    <3> QED  BY <3>1, <3>2
  <2> QED  BY <2>1, RowFields DEF Clashes
<1>14. Unshared'
  <2> SUFFICES ASSUME NEW p \in Request, NEW q \in Request, p # q
               PROVE  /\ "user" \in Has(p)' \intersect Has(q)' => params[p].admin # params[q].admin
                      /\ "request" \in Has(p)' \intersect Has(q)' => params[p].key # params[q].key
    BY <1>1 DEF Unshared
  <2>1. \A x \in Has(r)' : x \in Has(r) \/ x = s
    BY <1>5, <1>6, <1>12 DEF Has
  <2>2. CASE p # r /\ q # r
    BY <1>12, <2>2 DEF Unshared
  <2>3. CASE p = r
    BY <1>12, <1>13, <2>1, <2>3 DEF Unshared
  <2>4. CASE q = r
    BY <1>12, <1>13, <2>1, <2>4 DEF Unshared
  <2> QED  BY <2>2, <2>3, <2>4
<1>15. Files'
  <2>1. params[r].document /\ pc'[r] \in {"document", "request", "commit", "respond"} => org[r] \in files
    <3>1. pc[r] = "governance" => pc'[r] = "write_file"
      BY <1>1, StatementAfter DEF Types
    <3>2. pc[r] \in {"user", "modules"} => pc'[r] \in {"modules", "governance"}
      BY <1>1, StatementAfter DEF Types
    <3>3. answer[r] = "none"
      BY <1>2 DEF Fates
    <3>4. pc[r] \in {"document", "request"} /\ params[r].document => org[r] \in files
      BY <3>3 DEF Files
    <3> QED  BY <1>2, <3>1, <3>2, <3>4
  <2>2. \A q \in Request : Inside(q)' = Inside(q)
    BY <1>1, <1>3 DEF Inside, Types
  <2>3. \A q \in Request \ {r} : pc'[q] = pc[q]
    BY <1>1 DEF Types
  <2>4. \A q \in Request :
          params[q].document /\ (pc'[q] \in {"document", "request", "commit", "respond"} \/ q \in Committed)
             => org[q] \in files \/ answer[q] = "lost"
    BY <1>5, <2>1, <2>3 DEF Files
  <2> QED  BY <1>1, <1>5, <2>2, <2>4 DEF Files
<1> QED  BY <1>8, <1>9, <1>10, <1>11, <1>14, <1>15

\* Nobody knows the id an organization is going to get.
LEMMA CreateOrganizationKeeps ==
    ASSUME ProvisioningInv, NEW r \in Request, CreateOrganization(r)
    PROVE  ProvisioningInv'
<1> USE DEF ProvisioningInv
<1>1. /\ pc[r] = "organization" /\ After("organization") = "user"
      /\ org' = [org EXCEPT ![r] = nextOrg] /\ nextOrg' = nextOrg + 1
      /\ pending' = [pending EXCEPT ![r] = @ \union {Row(r, "organization", nextOrg)}]
      /\ pc' = [pc EXCEPT ![r] = "user"]
      /\ UNCHANGED <<params, table, files, answer>>
  BY StatementAfter DEF CreateOrganization, Advance, Flush, Types
<1>2. r \notin Committed
  BY <1>1, NotYetCommitted
<1>3. \A w \in table : w.org # nextOrg
  <2> SUFFICES ASSUME NEW w \in table PROVE w.org # nextOrg
    OBVIOUS
  <2>1. PICK q \in Committed : w.org = org[q]
    BY RowBelongs
  <2>2. q \in Request /\ org[q] \in (1..nextOrg - 1) \union {NoOrg}
    BY DEF Committed, Ids
  <2>3. NoOrg # nextOrg
    BY ParamsAssumption DEF Types
  <2> QED  BY <2>1, <2>2, <2>3 DEF Types
<1>5. Committed' = Committed
  <2>1. \A q \in Request \ {r} : q \in Committed' <=> q \in Committed
    BY <1>1 DEF Committed, Ids
  <2>2. r \notin Committed'
    BY <1>1, <1>3 DEF Committed, Ids
  <2> QED  BY <1>2, <2>1, <2>2 DEF Committed
<1>4. pending' = [q \in Request |-> pending'[q]]
  <2> DEFINE new == Row(r, "organization", nextOrg)
  <2>1. pending' = [pending EXCEPT ![r] = @ \union {new}]
    BY <1>1
  <2> HIDE DEF new
  <2> QED  BY <2>1 DEF Types
<1>6. Types'
  <2>1. nextOrg' \in Nat \ {0}
    BY <1>1 DEF Types
  <2> QED  BY <1>1, <1>4, <2>1 DEF Types, Statements, InTransaction
<1>7. Ids'
  <2>1. org' \in [Request -> (1..nextOrg' - 1) \union {NoOrg}]
    BY <1>1 DEF Ids, Types
  <2>2. \A p, q \in Request : p # q /\ org'[p] # NoOrg => org'[p] # org'[q]
    <3>1. \A p \in Request : org[p] # nextOrg
      BY ParamsAssumption DEF Ids, Types
    <3> QED  BY <1>1, <3>1 DEF Ids
  <2>3. \A p \in Request :
          /\ pc'[p] \in {"find_replay", "check_name", "check_user", "organization"} => org'[p] = NoOrg
          /\ pc'[p] \in (InTransaction \ {"organization"}) \union {"respond"} => org'[p] # NoOrg
    BY <1>1, ParamsAssumption DEF Ids, Types
  <2> QED  BY <2>1, <2>2, <2>3 DEF Ids
<1>8. InsertedParts("user", params[r]) = {"organization"} /\ pending[r] = {}
  <2>1. params[r] \in Params
    BY DEF Types
  <2> QED  BY <1>1, <2>1, NothingPending DEF InsertedParts, InTransaction, Wanted, Part
<1>9. RowsAreTheCalls'
  <2>1. \A q \in Request : pending'[q] = RowsOf(q, InsertedParts(pc[q], params[q]))'
    <3>1. \A q \in Request \ {r} : pending'[q] = RowsOf(q, InsertedParts(pc[q], params[q]))'
      BY <1>1 DEF RowsAreTheCalls, RowsOf, Row, Types, Ids
    <3>2. pending'[r] = {Row(r, "organization", nextOrg)}
      BY <1>1, <1>8 DEF Types
    <3>3. pc'[r] = "user" /\ org'[r] = nextOrg /\ params' = params
      BY <1>1 DEF Types, Ids
    <3>4. RowsOf(r, InsertedParts(pc[r], params[r]))' = {Row(r, "organization", nextOrg)}
      BY <1>8, <3>3 DEF RowsOf, Row
    <3> QED  BY <3>1, <3>2, <3>4
  <2>2. \A q \in Committed : RowsOf(q, Wanted(params[q]))' = RowsOf(q, Wanted(params[q]))
    BY <1>1, <1>2 DEF RowsOf, Row, Ids, Committed
  <2>3. table = UNION {RowsOf(q, Wanted(params[q])) : q \in Committed}
    BY DEF RowsAreTheCalls
  <2>4. {RowsOf(q, Wanted(params[q]))' : q \in Committed} = {RowsOf(q, Wanted(params[q])) : q \in Committed}
    BY <2>2
  <2>5. table' = UNION {RowsOf(q, Wanted(params[q])) : q \in Committed}'
    BY <1>1, <1>5, <2>3, <2>4
  <2> QED  BY <2>1, <2>5 DEF RowsAreTheCalls
<1>10. Fates'
  BY <1>1, <1>2, <1>5, NotYetCommitted DEF Fates, Types, Ids, Committed
<1>11. \A q \in Request : Has(q)' = IF q = r THEN {"organization"} ELSE Has(q)
  BY <1>1, <1>2, <1>5, <1>8 DEF Has, Types
<1>12. Unshared'
  BY <1>1, <1>11 DEF Unshared
<1>13. Files'
  <2>1. files' \subseteq 1..nextOrg' - 1
    BY <1>1 DEF Files, Types
  <2>2. \A q \in Request :
          params'[q].document /\ (pc'[q] \in {"document", "request", "commit", "respond"} \/ q \in Committed')
             => org'[q] \in files' \/ answer'[q] = "lost"
    BY <1>1, <1>2, <1>5 DEF Files, Types, Ids
  <2>3. ASSUME NEW o \in files
        PROVE  \E q \in Request : org'[q] = o /\ params'[q].document
                   /\ (q \in Committed' \/ Inside(q)' \/ answer'[q] = "crashed")
    <3>1. PICK q \in Request : org[q] = o /\ params[q].document
                   /\ (q \in Committed \/ Inside(q) \/ answer[q] = "crashed")
      BY DEF Files
    <3>2. q # r
      BY <1>1, <3>1, ParamsAssumption DEF Ids, Files
    <3> QED  BY <1>1, <1>5, <3>1, <3>2 DEF Inside, Ids, Types
  <2> QED  BY <1>1, <2>1, <2>2, <2>3 DEF Files
<1> QED  BY <1>6, <1>7, <1>9, <1>10, <1>12, <1>13

LEMMA WriteFileKeeps ==
    ASSUME ProvisioningInv, NEW r \in Request, WriteFile(r)
    PROVE  ProvisioningInv'
<1> USE DEF ProvisioningInv
<1>1. /\ pc[r] = "write_file" /\ pc' = [pc EXCEPT ![r] = "document"]
      /\ files' = IF params[r].document THEN files \union {org[r]} ELSE files
      /\ UNCHANGED <<params, table, pending, nextOrg, org, answer>>
  BY StatementAfter DEF WriteFile, Advance, Types
<1>2. Committed' = Committed /\ r \notin Committed
  BY <1>1, SameCommitted, NotYetCommitted
<1>3. \A q \in Request : InsertedParts(pc[q], params[q])' = InsertedParts(pc[q], params[q])
  <2>1. params[r] \in Params
    BY DEF Types
  <2>2. InsertedParts("document", params[r]) = InsertedParts("write_file", params[r])
    BY <2>1, InsertedEnds, StatementAfter
  <2> QED  BY <1>1, <2>2 DEF Types
<1>4. Types'
  BY <1>1 DEF Types, Statements, InTransaction
<1>5. Ids'
  BY <1>1 DEF Types, Ids, InTransaction
<1>6. RowsAreTheCalls'
  BY <1>1, <1>2, <1>3 DEF RowsAreTheCalls, RowsOf, Row
<1>7. Fates'
  BY <1>1, <1>2 DEF Fates, Types
<1>8. Unshared'
  BY <1>1, <1>2, <1>3 DEF Unshared, Has
<1>9. Files'
  <2>1. org[r] \in 1..nextOrg - 1
    BY <1>1 DEF Ids, InTransaction
  <2>2. \A q \in Request : Inside(q)' = Inside(q)
    BY <1>1 DEF Inside, InTransaction, Types
  <2>3. Inside(r) /\ pc'[r] = "document"
    BY <1>1 DEF Inside, InTransaction, Types
  <2> QED  BY <1>1, <1>2, <2>1, <2>2, <2>3 DEF Files, Types
<1> QED  BY <1>4, <1>5, <1>6, <1>7, <1>8, <1>9

\* Whatever goes wrong in a transaction, the rows are gone; only a dead process leaves the file.
LEMMA AbandonKeeps ==
    ASSUME ProvisioningInv, NEW r \in Request, pc[r] \in InTransaction,
           NEW s \in {"look_again", "done"}, NEW a \in {"none", "failed", "lost", "crashed"},
           a = "none" <=> s = "look_again",
           pc' = [pc EXCEPT ![r] = s], answer' = [answer EXCEPT ![r] = a],
           pending' = [pending EXCEPT ![r] = {}],
           files' = (IF a = "crashed" THEN files ELSE files \ {org[r]}),
           UNCHANGED <<params, table, nextOrg, org>>
    PROVE  ProvisioningInv'
<1> USE DEF ProvisioningInv
<1>1. Committed' = Committed /\ r \notin Committed
  <2>1. pc[r] \notin {"respond", "done"}
    BY DEF InTransaction
  <2> QED  BY <2>1, SameCommitted, NotYetCommitted
<1>2. Types'
  BY DEF Types, Statements, Answers
<1>3. Ids'
  BY DEF Types, Ids, InTransaction
<1>4. \A q \in Request : InsertedParts(pc[q], params[q])' = IF q = r THEN {} ELSE InsertedParts(pc[q], params[q])
  <2>1. InsertedParts(s, params[r]) = {}
    BY InsertedEnds DEF Types, InTransaction
  <2> QED  BY <2>1 DEF Types
<1>5. RowsAreTheCalls'
  BY <1>1, <1>4 DEF RowsAreTheCalls, RowsOf, Row, Types
<1>6. Fates'
  BY <1>1 DEF Fates, Types, InTransaction
<1>7. Unshared'
  BY <1>1, <1>4 DEF Unshared, Has
<1>8. Files'
  <2>1. \A q \in Request \ {r} : Inside(q)' = Inside(q) /\ answer'[q] = answer[q] /\ pc'[q] = pc[q]
    BY DEF Inside, Types
  <2>2. \A o \in files' : o \in files /\ (org[r] = o => a = "crashed")
    OBVIOUS
  <2>3. answer'[r] = a /\ pc'[r] = s
    BY DEF Types
  <2>4. ASSUME NEW o \in files'
        PROVE  \E q \in Request : org'[q] = o /\ params'[q].document
                   /\ (q \in Committed' \/ Inside(q)' \/ answer'[q] = "crashed")
    <3>1. PICK q \in Request : org[q] = o /\ params[q].document
                   /\ (q \in Committed \/ Inside(q) \/ answer[q] = "crashed")
      BY <2>2 DEF Files
    <3> QED  BY <1>1, <2>1, <2>2, <2>3, <3>1
  <2>5. ASSUME NEW q \in Request, params'[q].document,
               pc'[q] \in {"document", "request", "commit", "respond"} \/ q \in Committed'
        PROVE  org'[q] \in files' \/ answer'[q] = "lost"
    <3>1. q # r
      BY <1>1, <2>3, <2>5
    <3>2. org[q] \in files \/ answer[q] = "lost"
      BY <1>1, <2>1, <2>5, <3>1 DEF Files
    <3>3. org[q] # NoOrg /\ org[q] # org[r]
      <4>1. org[q] # NoOrg
        BY <1>1, <2>1, <2>5, <3>1 DEF Ids, Fates, InTransaction
      <4> QED  BY <3>1, <4>1 DEF Ids
    <3> QED  BY <2>1, <3>1, <3>2, <3>3
  <2> QED  BY <2>2, <2>4, <2>5 DEF Files
<1> QED  BY <1>2, <1>3, <1>5, <1>6, <1>7, <1>8

\* COMMIT makes a whole tenant of a transaction, whether or not the caller hears of it.
LEMMA CommittedNow ==
    ASSUME ProvisioningInv, NEW r \in Request, pc[r] = "commit", table' = table \union pending[r],
           UNCHANGED <<params, org>>
    PROVE  /\ r \notin Committed /\ org[r] # NoOrg /\ Committed' = Committed \union {r}
           /\ pending[r] = RowsOf(r, Wanted(params[r]))
<1> USE DEF ProvisioningInv
<1>1. r \notin Committed /\ org[r] # NoOrg
  BY NotYetCommitted DEF Ids, InTransaction
<1>2. pending[r] = RowsOf(r, Wanted(params[r]))
  <2>1. params[r] \in Params
    BY DEF Types
  <2> QED  BY <2>1, InsertedEnds DEF RowsAreTheCalls
<1>3. \A w \in pending[r] : w.org = org[r]
  BY <1>2, RowFields DEF RowsOf
<1>4. \E w \in pending[r] : w.org = org[r]
  <2>1. "organization" \in Wanted(params[r])
    BY DEF Wanted, Part
  <2>2. Row(r, "organization", org[r]) \in pending[r]
    BY <1>2, <2>1 DEF RowsOf
  <2> QED  BY <2>2, RowFields
<1>5. \A q \in Request : q \in Committed' <=> q \in Committed \/ q = r
  BY <1>1, <1>3, <1>4 DEF Committed, Ids
<1> QED  BY <1>1, <1>2, <1>5 DEF Committed

LEMMA CommitKeeps ==
    ASSUME ProvisioningInv, NEW r \in Request, pc[r] = "commit", table' = table \union pending[r],
           NEW s \in {"respond", "done"}, NEW a \in {"none", "lost"}, a = "none" <=> s = "respond",
           pc' = [pc EXCEPT ![r] = s], answer' = [answer EXCEPT ![r] = a],
           pending' = [pending EXCEPT ![r] = {}],
           files' = (IF a = "lost" THEN files \ {org[r]} ELSE files),
           UNCHANGED <<params, nextOrg, org>>
    PROVE  ProvisioningInv'
<1> USE DEF ProvisioningInv
<1>1. /\ r \notin Committed /\ org[r] # NoOrg /\ Committed' = Committed \union {r}
      /\ pending[r] = RowsOf(r, Wanted(params[r]))
  BY CommittedNow
<1>2. Types'
  BY DEF Types, Statements, Answers
<1>3. Ids'
  BY DEF Types, Ids, InTransaction
<1>4. \A q \in Request : InsertedParts(pc[q], params[q])' = IF q = r THEN {} ELSE InsertedParts(pc[q], params[q])
  <2>1. InsertedParts(s, params[r]) = {}
    BY InsertedEnds DEF Types, InTransaction
  <2> QED  BY <2>1 DEF Types
<1>5. RowsAreTheCalls'
  <2>1. \A q \in Request : pending'[q] = RowsOf(q, InsertedParts(pc[q], params[q]))'
    BY <1>4 DEF RowsAreTheCalls, RowsOf, Row, Types
  <2>2. \A q \in Request : RowsOf(q, Wanted(params[q]))' = RowsOf(q, Wanted(params[q]))
    BY DEF RowsOf, Row
  <2>3. table' = UNION {RowsOf(q, Wanted(params[q])) : q \in Committed'}
    BY <1>1 DEF RowsAreTheCalls
  <2>4. Committed' \subseteq Request
    BY DEF Committed
  <2>5. UNION {RowsOf(q, Wanted(params[q])) : q \in Committed'}
          = UNION {RowsOf(q, Wanted(params[q]))' : q \in Committed'}
    BY <2>2, <2>4
  <2> QED  BY <2>1, <2>3, <2>5 DEF RowsAreTheCalls
<1>6. Fates'
  BY <1>1 DEF Fates, Types
<1>7. \A q \in Request : Has(q)' = Has(q)
  <2>1. Has(r) = Wanted(params[r])
    <3>1. params[r] \in Params
      BY DEF Types
    <3> QED  BY <1>1, <3>1, InsertedEnds DEF Has
  <2> QED  BY <1>1, <1>4, <2>1 DEF Has
<1>8. Unshared'
  BY <1>7 DEF Unshared
<1>9. Files'
  <2>1. \A q \in Request \ {r} : Inside(q)' = Inside(q) /\ answer'[q] = answer[q] /\ pc'[q] = pc[q]
    BY DEF Inside, Types
  <2>2. answer'[r] = a /\ pc'[r] = s /\ answer[r] = "none"
    BY DEF Types, Fates
  <2>3. ASSUME NEW o \in files'
        PROVE  \E q \in Request : org'[q] = o /\ params'[q].document
                   /\ (q \in Committed' \/ Inside(q)' \/ answer'[q] = "crashed")
    <3>1. PICK q \in Request : org[q] = o /\ params[q].document
                   /\ (q \in Committed \/ Inside(q) \/ answer[q] = "crashed")
      BY DEF Files
    <3> QED  BY <1>1, <2>1, <3>1
  <2>4. ASSUME NEW q \in Request, params'[q].document,
               pc'[q] \in {"document", "request", "commit", "respond"} \/ q \in Committed'
        PROVE  org'[q] \in files' \/ answer'[q] = "lost"
    <3>1. org[q] \in files \/ answer[q] = "lost"
      BY <1>1, <2>1, <2>4 DEF Files
    <3>2. org[q] # org[r] \/ q = r
      BY <1>1 DEF Ids
    <3> QED  BY <2>1, <2>2, <3>1, <3>2
  <2> QED  BY <2>3, <2>4 DEF Files
<1> QED  BY <1>2, <1>3, <1>5, <1>6, <1>8, <1>9

-----------------------------------------------------------------------------
(* The invariant. *)

LEMMA LookKeeps ==
    ASSUME ProvisioningInv, NEW r \in Request, FirstLook(r) \/ SecondLook(r)
    PROVE  ProvisioningInv'
<1>1. /\ pc[r] \notin InTransaction /\ pc[r] # "done" /\ pc[r] # "respond"
      /\ pc[r] = "find_replay" => org[r] = NoOrg /\ answer[r] = "none"
      /\ UNCHANGED <<params, table, pending, files, nextOrg, org>>
  BY DEF FirstLook, SecondLook, FindReplay, InTransaction, ProvisioningInv, Ids, Fates
<1>2. CASE SameCall(r) /\ Tell(r, "replayed")
  <2>1. PICK w \in table : w.hash = params[r]
    BY <1>2 DEF SameCall, Requests, Rows
  <2>2. \E q \in Committed : params[q] = params[r]
    BY <2>1, RowBelongs
  <2> QED  BY <1>1, <1>2, <2>2, StepOutside DEF Tell, Answers
<1>3. CASE Tell(r, "refused")
  BY <1>1, <1>3, StepOutside DEF Tell, Answers
<1>4. CASE pc[r] = "find_replay" /\ Advance(r) /\ UNCHANGED answer
  <2>1. pc' = [pc EXCEPT ![r] = "check_name"] /\ answer' = [answer EXCEPT ![r] = "none"]
    BY <1>1, <1>4, StatementAfter DEF Advance, ProvisioningInv, Types
  <2> QED  BY <1>1, <1>4, <2>1, StepOutside DEF Answers
<1> QED  BY <1>2, <1>3, <1>4 DEF FirstLook, SecondLook, FindReplay

LEMMA CheckKeeps ==
    ASSUME ProvisioningInv, NEW r \in Request, CheckName(r) \/ CheckUser(r)
    PROVE  ProvisioningInv'
<1>1. /\ pc[r] \in {"check_name", "check_user"} /\ org[r] = NoOrg /\ answer[r] = "none"
      /\ UNCHANGED <<params, table, pending, files, nextOrg, org>>
      /\ \/ Tell(r, "refused")
         \/ Advance(r) /\ UNCHANGED answer
  BY DEF CheckName, CheckUser, Check, ProvisioningInv, Ids, Fates
<1>2. pc[r] \notin InTransaction /\ pc[r] # "done" /\ pc[r] # "respond"
  BY <1>1 DEF InTransaction
<1>3. CASE Tell(r, "refused")
  BY <1>1, <1>2, <1>3, StepOutside DEF Tell, Answers
<1>4. CASE Advance(r) /\ UNCHANGED answer
  <2>1. PICK s \in {"check_user", "organization"} : pc' = [pc EXCEPT ![r] = s]
    BY <1>1, <1>4, StatementAfter DEF Advance
  <2>2. answer' = [answer EXCEPT ![r] = "none"]
    BY <1>1, <1>4 DEF ProvisioningInv, Types
  <2> QED  BY <1>1, <1>2, <2>1, <2>2, StepOutside DEF Answers
<1> QED  BY <1>1, <1>3, <1>4

LEMMA CrashKeeps ==
    ASSUME ProvisioningInv, NEW r \in Request, Crash(r)
    PROVE  ProvisioningInv'
<1>1. /\ pc[r] # "done" /\ pc' = [pc EXCEPT ![r] = "done"]
      /\ answer' = [answer EXCEPT ![r] = "crashed"] /\ pending' = [pending EXCEPT ![r] = {}]
      /\ UNCHANGED <<params, table, files, nextOrg, org>>
  BY DEF Crash, Tell
<1>2. CASE pc[r] \in InTransaction
  BY <1>1, <1>2, AbandonKeeps
<1>3. CASE pc[r] \notin InTransaction
  <2>1. pending' = pending
    BY <1>1, <1>3, NothingPending DEF ProvisioningInv, Types
  <2> QED  BY <1>1, <1>3, <2>1, StepOutside DEF Answers
<1> QED  BY <1>2, <1>3

LEMMA RaiseKeeps ==
    ASSUME ProvisioningInv, NEW r \in Request, Raise(r) \/ RaiseAtCommit(r) \/ Conflict(r)
    PROVE  ProvisioningInv'
<1>1. /\ pending' = [pending EXCEPT ![r] = {}]
      /\ files' = files \ {org[r]} /\ UNCHANGED <<params, nextOrg, org>>
  BY DEF Raise, RaiseAtCommit, Conflict, Undo, RolledBack, FilesWithout
<1>2. CASE Raise(r)
  <2>1. pc[r] \notin {"commit", "respond", "done"} /\ Tell(r, "failed") /\ UNCHANGED table
    BY <1>2 DEF Raise
  <2>2. CASE pc[r] \in InTransaction
    BY <1>1, <2>1, <2>2, AbandonKeeps DEF Tell
  <2>3. CASE pc[r] \notin InTransaction
    <3>1. pending' = pending
      BY <1>1, <2>3, NothingPending DEF ProvisioningInv, Types
    <3>2. org[r] \notin files
      <4> SUFFICES ASSUME org[r] \in files PROVE FALSE
        OBVIOUS
      <4>1. org[r] # NoOrg
        BY ParamsAssumption DEF ProvisioningInv, Files, Types
      <4>2. PICK q \in Request : org[q] = org[r] /\ (q \in Committed \/ Inside(q) \/ answer[q] = "crashed")
        BY DEF ProvisioningInv, Files
      <4>3. q = r
        BY <4>1, <4>2 DEF ProvisioningInv, Ids
      <4> QED  BY <2>1, <2>3, <4>2, <4>3 DEF ProvisioningInv, Fates, Inside
    <3>3. files' = files
      BY <1>1, <3>2
    <3> QED  BY <1>1, <2>1, <2>3, <3>1, <3>3, StepOutside DEF Tell, Answers
  <2> QED  BY <2>2, <2>3
<1>3. CASE RaiseAtCommit(r)
  <2>1. pc[r] = "commit" /\ Tell(r, "lost") /\ table' \in {table, table \union pending[r]}
    BY <1>3 DEF RaiseAtCommit
  <2>2. CASE table' = table
    BY <1>1, <2>1, <2>2, AbandonKeeps DEF Tell, InTransaction
  <2>3. CASE table' = table \union pending[r]
    BY <1>1, <2>1, <2>3, CommitKeeps DEF Tell
  <2> QED  BY <2>1, <2>2, <2>3
<1>4. CASE Conflict(r)
  <2>1. pc[r] \in InTransaction
    BY <1>4 DEF Conflict, InTransaction
  <2>2. answer[r] = "none"
    BY <2>1 DEF ProvisioningInv, Fates, InTransaction
  <2>3. answer' = [answer EXCEPT ![r] = "none"] /\ pc' = [pc EXCEPT ![r] = "look_again"] /\ table' = table
    BY <1>4, <2>2 DEF Conflict, ProvisioningInv, Types
  <2> QED  BY <1>1, <2>1, <2>3, AbandonKeeps
<1> QED  BY <1>2, <1>3, <1>4

LEMMA InvStep == ProvisioningInv /\ [Next]_vars => ProvisioningInv'
<1> SUFFICES ASSUME ProvisioningInv, [Next]_vars PROVE ProvisioningInv'
  OBVIOUS
<1>1. CASE UNCHANGED vars
  <2>1. UNCHANGED <<params, table, pending, files, nextOrg, org, pc, answer>>
    BY <1>1 DEF vars
  <2>2. Committed' = Committed
    BY <2>1, SameCommitted
  <2>3. Types' /\ Ids' /\ RowsAreTheCalls'
    BY <2>1, <2>2 DEF ProvisioningInv, Types, Ids, RowsAreTheCalls, RowsOf, Row
  <2>4. Fates' /\ Unshared' /\ Files'
    BY <2>1, <2>2 DEF ProvisioningInv, Fates, Unshared, Has, Files, Inside
  <2> QED  BY <2>3, <2>4 DEF ProvisioningInv
<1>2. ASSUME NEW r \in Request, Step(r) PROVE ProvisioningInv'
  <2>1. CASE Commit(r)
    <3>1. answer[r] = "none" /\ pc[r] = "commit"
      BY <2>1 DEF Commit, ProvisioningInv, Fates
    <3>2. /\ answer' = [answer EXCEPT ![r] = "none"] /\ pc' = [pc EXCEPT ![r] = "respond"]
          /\ table' = table \union pending[r] /\ pending' = [pending EXCEPT ![r] = {}]
          /\ UNCHANGED <<params, files, nextOrg, org>>
      BY <2>1, <3>1, StatementAfter DEF Commit, Advance, ProvisioningInv, Types
    <3> QED  BY <3>1, <3>2, CommitKeeps
  <2>2. CASE Respond(r)
    <3>1. PICK a \in {"created", "unshown"} : Tell(r, a)
      BY <2>2 DEF Respond
    <3> QED  BY <2>2, <3>1, StepOutside DEF Respond, Tell, Answers, InTransaction
  <2> QED
    BY <1>2, <2>1, <2>2, LookKeeps, CheckKeeps, RaiseKeeps, InsertKeeps, CreateOrganizationKeeps, WriteFileKeeps
    DEF Step
<1>3. ASSUME NEW r \in Request, Raise(r) \/ RaiseAtCommit(r) \/ Crash(r) PROVE ProvisioningInv'
  BY <1>3, RaiseKeeps, CrashKeeps
<1> QED  BY <1>1, <1>2, <1>3 DEF Next, Rest

-----------------------------------------------------------------------------
(* What a call that has ended leaves behind, on top of that invariant. *)

\* The owner of a part of a file has ended without a tenant.
TornInv ==
    /\ torn \subseteq 1..nextOrg - 1
    /\ \A o \in torn : \E r \in Request : org[r] = o /\ pc[r] = "done" /\ r \notin Committed

\* Who was stopped by a unique value was stopped by a tenant that has it, and if refused
\* by one that was asked for with other parameters.
StoppedBy(r, q) ==
    /\ params[q].admin = params[r].admin \/ params[q].key = params[r].key
    /\ answer[r] = "refused" => params[q] # params[r]

TwinInv ==
    \A r \in Request :
        pc[r] = "look_again" \/ (answer[r] = "refused" /\ org[r] # NoOrg) =>
            \E q \in Committed : StoppedBy(r, q)

LEMMA TableStep ==
    ASSUME ProvisioningInv, [Next]_vars
    PROVE  \/ table' = table
           \/ \E r \in Request : pc[r] = "commit" /\ table' = table \union pending[r] /\ UNCHANGED <<params, org>>
<1>1. ASSUME NEW r \in Request, Step(r) \/ Raise(r) \/ RaiseAtCommit(r) \/ Crash(r)
      PROVE  \/ table' = table
             \/ pc[r] = "commit" /\ table' = table \union pending[r] /\ UNCHANGED <<params, org>>
  BY <1>1 DEF Step, FirstLook, SecondLook, FindReplay, CheckName, CheckUser, Check, CreateOrganization,
              Insert, Flush, WriteFile, Commit, Conflict, Respond, Raise, RaiseAtCommit, Undo, Crash
<1> QED  BY <1>1 DEF Next, Rest, vars

\* What a step changes of the calls and their rows.
LEMMA OneCallMoves ==
    ASSUME ProvisioningInv, [Next]_vars
    PROVE  /\ params' = params /\ Committed \subseteq Committed'
           /\ \A r \in Request : pc[r] = "done" => pc'[r] = "done" /\ org'[r] = org[r] /\ answer'[r] = answer[r]
           /\ \A r \in Request : org'[r] # org[r] => pc'[r] = "user"
           /\ nextOrg' \in {nextOrg, nextOrg + 1}
           /\ \A r \in Committed' \ Committed : pc[r] # "done"
<1>1. CASE UNCHANGED vars
  BY <1>1 DEF vars, Committed, ProvisioningInv, Types
<1>2. ASSUME NEW q \in Request, Step(q) \/ Raise(q) \/ RaiseAtCommit(q) \/ Crash(q)
      PROVE  /\ params' = params /\ nextOrg' \in {nextOrg, nextOrg + 1} /\ pc[q] # "done"
             /\ \A r \in Request \ {q} : pc'[r] = pc[r] /\ org'[r] = org[r] /\ answer'[r] = answer[r]
             /\ org'[q] # org[q] => pc[q] = "organization" /\ pc'[q] = "user"
  <2>1. pc[q] # "done"
    BY <1>2 DEF Step, FirstLook, SecondLook, FindReplay, CheckName, CheckUser, Check, CreateOrganization,
                Insert, WriteFile, Commit, Conflict, Respond, Raise, RaiseAtCommit, Crash, Part
  <2>2. CASE CreateOrganization(q)
    BY <2>1, <2>2, StatementAfter DEF CreateOrganization, Advance, ProvisioningInv, Types, Ids
  <2>3. CASE ~CreateOrganization(q)
    <3>1. params' = params /\ nextOrg' = nextOrg /\ org' = org
      BY <1>2, <2>3 DEF Step, FirstLook, SecondLook, FindReplay, CheckName, CheckUser, Check, Insert, WriteFile,
                        Commit, Conflict, Respond, Raise, RaiseAtCommit, Crash, Undo
    <3>2. /\ \E s : pc' = [pc EXCEPT ![q] = s]
          /\ answer' = answer \/ \E a : answer' = [answer EXCEPT ![q] = a]
      BY <1>2, <2>3 DEF Step, FirstLook, SecondLook, FindReplay, CheckName, CheckUser, Check, Insert, WriteFile,
                        Commit, Conflict, Respond, Raise, RaiseAtCommit, Crash, Undo, Tell, Advance
    <3>3. \A r \in Request \ {q} : pc'[r] = pc[r] /\ answer'[r] = answer[r]
      BY <3>2 DEF ProvisioningInv, Types
    <3> QED  BY <2>1, <3>1, <3>3
  <2> QED  BY <2>2, <2>3
<1>3. ASSUME NEW q \in Request, Step(q) \/ Raise(q) \/ RaiseAtCommit(q) \/ Crash(q)
      PROVE  Committed \subseteq Committed' /\ \A r \in Committed' \ Committed : pc[r] # "done"
  <2>1. table \subseteq table'
    BY TableStep
  <2>2. Committed \subseteq Committed'
    <3>1. \A r \in Committed : org'[r] = org[r]
      BY <1>2, <1>3 DEF Committed, ProvisioningInv, Fates
    <3> QED  BY <2>1, <3>1 DEF Committed
  <2>3. CASE table' = table
    <3>1. \A r \in Request : pc[r] = "done" => org'[r] = org[r]
      BY <1>2, <1>3
    <3> QED  BY <2>2, <2>3, <3>1 DEF Committed
  <2>4. ASSUME NEW r \in Request, pc[r] = "commit", table' = table \union pending[r], UNCHANGED <<params, org>>
        PROVE  \A p \in Committed' \ Committed : pc[p] # "done"
    BY <2>4, CommittedNow
  <2> QED  BY <2>2, <2>3, <2>4, TableStep
<1> QED  BY <1>1, <1>2, <1>3 DEF Next, Rest

LEMMA TornStep ==
    ASSUME ProvisioningInv, ProvisioningInv', TornInv, [Next]_vars
    PROVE  TornInv'
<1>1. \/ torn' = torn
      \/ \E r \in Request : /\ pc[r] = "write_file" /\ pc'[r] = "done" /\ org'[r] = org[r] /\ table' = table
                            /\ org' = org /\ torn' = torn \union {org[r]}
  <2>1. ASSUME NEW r \in Request, Raise(r) \/ Crash(r), torn' # torn
        PROVE  /\ pc[r] = "write_file" /\ pc'[r] = "done" /\ org' = org /\ table' = table
               /\ torn' = torn \union {org[r]}
    BY <2>1 DEF Raise, Crash, TearFile, Undo, Tell, ProvisioningInv, Types
  <2> QED
    BY <2>1 DEF Next, Rest, vars, Step, FirstLook, SecondLook, FindReplay, CheckName, CheckUser, Check,
                CreateOrganization, Insert, WriteFile, Commit, Conflict, Respond, RaiseAtCommit
<1>2. ASSUME NEW o \in torn
      PROVE  o \in 1..nextOrg' - 1 /\ \E r \in Request : org'[r] = o /\ pc'[r] = "done" /\ r \notin Committed'
  <2>1. PICK r \in Request : org[r] = o /\ pc[r] = "done" /\ r \notin Committed
    BY DEF TornInv
  <2>2. o \in 1..nextOrg' - 1
    BY OneCallMoves DEF TornInv, ProvisioningInv, Types
  <2> QED  BY <2>1, <2>2, OneCallMoves
<1>3. ASSUME NEW r \in Request, pc[r] = "write_file", pc'[r] = "done", table' = table, org' = org
      PROVE  org[r] \in 1..nextOrg' - 1 /\ r \notin Committed' /\ org'[r] = org[r]
  <2>1. org[r] \in 1..nextOrg - 1
    BY <1>3 DEF ProvisioningInv, Ids, InTransaction
  <2>2. r \notin Committed'
    BY <1>3, NotYetCommitted, SameCommitted
  <2> QED  BY <1>3, <2>1, <2>2, OneCallMoves DEF ProvisioningInv, Types
<1> QED  BY <1>1, <1>2, <1>3 DEF TornInv

LEMMA TwinStep ==
    ASSUME ProvisioningInv, ProvisioningInv', TwinInv, [Next]_vars
    PROVE  TwinInv'
<1> SUFFICES ASSUME NEW r \in Request, pc'[r] = "look_again" \/ (answer'[r] = "refused" /\ org'[r] # NoOrg)
             PROVE  \E q \in Committed' : StoppedBy(r, q)'
  BY DEF TwinInv
<1>1. params' = params /\ Committed \subseteq Committed'
  BY OneCallMoves
<1>2. CASE pc'[r] = pc[r] /\ answer'[r] = answer[r] /\ org'[r] = org[r]
  <2>1. PICK q \in Committed : StoppedBy(r, q)
    BY <1>2 DEF TwinInv
  <2> QED  BY <1>1, <1>2, <2>1 DEF StoppedBy
<1>3. CASE Conflict(r)
  <2>1. PICK w \in table : Clashes(pc[r], Row(r, pc[r], org[r]), w)
    BY <1>3, RowFields DEF Conflict, Duplicate
  <2>2. PICK q \in Committed : w = Row(q, w.part, org[q])
    BY <2>1, RowBelongs
  <2>3. params[q].admin = params[r].admin \/ params[q].key = params[r].key
    BY <2>1, <2>2, RowFields DEF Clashes
  <2>4. answer'[r] = "none"
    BY <1>3 DEF Conflict, ProvisioningInv, Fates, Types
  <2> QED  BY <1>1, <2>3, <2>4 DEF StoppedBy
<1>4. CASE SecondLook(r)
  <2>1. PICK q \in Committed : params[q].admin = params[r].admin \/ params[q].key = params[r].key
    BY <1>4 DEF SecondLook, FindReplay, TwinInv, StoppedBy
  <2>2. answer'[r] = "refused" => params[q] # params[r]
    <3> SUFFICES ASSUME answer'[r] = "refused", params[q] = params[r] PROVE FALSE
      OBVIOUS
    <3>1. "request" \in Wanted(params[q])
      BY DEF Wanted, Part
    <3>2. Row(q, "request", org[q]) \in table
      BY <3>1 DEF ProvisioningInv, RowsAreTheCalls, RowsOf
    <3>3. SameCall(r) /\ Requests(r) # {}
      BY <3>2, RowFields DEF SameCall, Requests, Rows
    <3> QED  BY <1>4, <3>3 DEF SecondLook, FindReplay, Tell, ProvisioningInv, Types
  <2> QED  BY <1>1, <2>1, <2>2 DEF StoppedBy
<1>5. ASSUME ~Conflict(r), ~SecondLook(r), NEW q \in Request, Step(q) \/ Raise(q) \/ RaiseAtCommit(q) \/ Crash(q)
      PROVE  pc'[r] = pc[r] /\ answer'[r] = answer[r] /\ org'[r] = org[r]
  <2>1. CASE q # r
    <3>1. /\ \E s : pc' = [pc EXCEPT ![q] = s]
          /\ answer' = answer \/ \E a : answer' = [answer EXCEPT ![q] = a]
          /\ org' = org \/ \E o : org' = [org EXCEPT ![q] = o]
      BY <1>5 DEF Step, FirstLook, SecondLook, FindReplay, CheckName, CheckUser, Check, CreateOrganization, Insert,
                  WriteFile, Commit, Conflict, Respond, Raise, RaiseAtCommit, Crash, Undo, Tell, Advance
    <3> QED  BY <2>1, <3>1 DEF ProvisioningInv, Types, Ids
  <2>2. CASE q = r
    <3>1. pc'[r] # "look_again"
      <4>1. \A s \in Part \union {"write_file", "find_replay", "check_name", "check_user", "commit"} :
               After(s) # "look_again"
        BY StatementAfter DEF Part
      <4>2. CASE \E a : Tell(r, a)
        BY <4>2 DEF Tell, ProvisioningInv, Types
      <4>3. CASE Advance(r) /\ pc[r] \in Part \union {"write_file", "find_replay", "check_name", "check_user", "commit"}
        BY <4>1, <4>3 DEF Advance, ProvisioningInv, Types
      <4> QED
        BY <1>5, <2>2, <4>2, <4>3 DEF Step, FirstLook, FindReplay, CheckName, CheckUser, Check, CreateOrganization,
              Insert, WriteFile, Commit, Respond, Raise, RaiseAtCommit, Crash, Part
    <3>2. pc[r] \in {"find_replay", "check_name", "check_user"} /\ org'[r] = org[r]
      BY <1>5, <2>2, <3>1 DEF Step, FirstLook, FindReplay, CheckName, CheckUser, Check, CreateOrganization, Insert,
              WriteFile, Commit, Respond, Raise, RaiseAtCommit, Crash, Tell, ProvisioningInv, Types, Fates, Part
    <3> QED  BY <3>1, <3>2 DEF ProvisioningInv, Ids
  <2> QED  BY <2>1, <2>2
<1>6. CASE UNCHANGED vars
  BY <1>2, <1>6 DEF vars
<1> QED  BY <1>2, <1>3, <1>4, <1>5, <1>6 DEF Next, Rest

LEMMA Invariance == Spec => [](ProvisioningInv /\ TornInv /\ TwinInv)
<1>1. Init => TornInv /\ TwinInv
  BY DEF Init, TornInv, TwinInv
<1>2. (ProvisioningInv /\ TornInv /\ TwinInv) /\ [Next]_vars => (ProvisioningInv /\ TornInv /\ TwinInv)'
  BY InvStep, TornStep, TwinStep
<1> QED  BY InvInit, <1>1, <1>2, PTL DEF Spec

-----------------------------------------------------------------------------
(* Theorems. *)

(***************************************************************************)
(* The types: every row belongs to an organization that was inserted, and  *)
(* every file to one whose id was given out.                               *)
(***************************************************************************)
THEOREM TypeCorrect == Spec => []TypeOK
<1>1. ASSUME ProvisioningInv, TornInv PROVE TypeOK
  <2> USE <1>1 DEF ProvisioningInv
  <2>1. org \in [Request -> Nat \union {NoOrg}] /\ DOMAIN pending = Request /\ nextOrg \in Nat \ {0}
    BY DEF Types, Ids
  <2>2. ASSUME NEW w \in table
        PROVE  w.part \in Part /\ w.org \in 1..nextOrg - 1 /\ w.hash \in Params
    <3>1. PICK r \in Committed : w.org = org[r] /\ w.hash = params[r] /\ w.part \in Wanted(params[r])
      BY RowBelongs
    <3>2. r \in Request /\ org[r] # NoOrg
      BY DEF Committed, Fates
    <3> QED  BY <3>1, <3>2 DEF Types, Ids, Wanted
  <2>3. ASSUME NEW r \in Request, NEW w \in pending[r]
        PROVE  w.part \in Part /\ w.org \in 1..nextOrg - 1 /\ w.hash \in Params
    <3>1. PICK part \in InsertedParts(pc[r], params[r]) : w = Row(r, part, org[r])
      BY DEF RowsAreTheCalls, RowsOf
    <3>2. part \in Part
      BY DEF InsertedParts, Wanted
    <3>3. org[r] # NoOrg
      BY <3>1, NothingPending DEF Ids
    <3> QED  BY <3>1, <3>2, <3>3, RowFields DEF Types, Ids
  <2>4. pc \in [Request -> {"find_replay", "check_name", "check_user", "respond", "look_again", "done"}
                          \union InTransaction]
        /\ answer \in [Request -> {"none", "created", "unshown", "replayed", "refused", "failed", "lost",
                                    "crashed"}]
    BY DEF Types, Statements, Answers
  <2>5. params \in [Request -> Params] /\ files \subseteq 1..nextOrg - 1 /\ torn \subseteq 1..nextOrg - 1
    BY <1>1 DEF Types, Files, TornInv
  <2> QED  BY <2>1, <2>2, <2>3, <2>4, <2>5 DEF TypeOK
<1> QED  BY <1>1, Invariance, PTL

(***************************************************************************)
(* Whatever statement of provision_tenant raises, wherever the process     *)
(* dies and however calls interleave: an organization whose rows are       *)
(* committed has all the rows its call asked for.                          *)
(***************************************************************************)
THEOREM WholeTenants == Spec => []TenantIsComplete
<1>1. ASSUME ProvisioningInv PROVE TenantIsComplete
  <2> SUFFICES ASSUME NEW w \in table PROVE PartsOf(w.org) = Wanted(w.hash)
    BY DEF TenantIsComplete
  <2>1. PICK r \in Committed : w.org = org[r] /\ w.hash = params[r]
    BY <1>1, RowBelongs
  <2>2. PartsOf(org[r]) = Wanted(params[r])
    BY <1>1, <2>1, PartsOfCall DEF Committed
  <2> QED  BY <2>1, <2>2
<1> QED  BY <1>1, Invariance, PTL

(***************************************************************************)
(* _cleanup_file keeps the demo file in step with its row: it misses only  *)
(* the file of a process that died and a file written in part, which no    *)
(* tenant has, and takes away too much only when the answer to COMMIT got  *)
(* lost.                                                                   *)
(***************************************************************************)
THEOREM FilesFollow == Spec => []FilesFollowDocuments
<1>1. ASSUME ProvisioningInv, TornInv PROVE FilesFollowDocuments
  <2> USE <1>1 DEF ProvisioningInv
  <2>1. ASSUME NEW w \in Rows("document", table)
        PROVE  w.org \in files \/ \E r \in Request : org[r] = w.org /\ answer[r] = "lost"
    <3>1. w \in table /\ w.part = "document"
      BY DEF Rows
    <3>2. PICK r \in Committed : w.org = org[r] /\ w.part \in Wanted(params[r])
      BY <3>1, RowBelongs
    <3>3. r \in Request /\ params[r].document
      BY <3>1, <3>2 DEF Committed, Wanted
    <3> QED  BY <3>2, <3>3 DEF Files
  <2>2. ASSUME NEW o \in files
        PROVE  \/ \E w \in Rows("document", table) : w.org = o
               \/ \E r \in Request : org[r] = o /\ (Inside(r) \/ answer[r] = "crashed")
    <3>1. PICK r \in Request : org[r] = o /\ params[r].document
                   /\ (r \in Committed \/ Inside(r) \/ answer[r] = "crashed")
      BY DEF Files
    <3>2. CASE r \in Committed
      <4>1. "document" \in Wanted(params[r])
        BY <3>1 DEF Wanted, Part
      <4>2. Row(r, "document", o) \in table
        BY <3>1, <3>2, <4>1 DEF RowsAreTheCalls, RowsOf
      <4> QED  BY <4>2, RowFields DEF Rows
    <3> QED  BY <3>1, <3>2
  <2>3. \A o \in torn : PartsOf(o) = {}
    BY <1>1, PartsOfCall DEF TornInv
  <2> QED  BY <2>1, <2>2, <2>3 DEF FilesFollowDocuments
<1> QED  BY <1>1, Invariance, PTL

(***************************************************************************)
(* What provision_tenant tells its caller is true of the database: created *)
(* and replayed tenants are there, also if an error comes behind COMMIT;   *)
(* refused and failed calls left nothing; and who lost the race for a      *)
(* unique value is refused only if no identical call has won it.           *)
(***************************************************************************)
THEOREM TrueAnswers == Spec => []AnswersAreTrue
<1>1. ASSUME ProvisioningInv, TwinInv PROVE AnswersAreTrue
  <2> USE <1>1 DEF ProvisioningInv
  <2>1. ASSUME NEW r \in Request, NEW q \in Committed, params[q] = params[r]
        PROVE  \E w \in Requests(r) : w.org = org[q] /\ w.hash = params[r]
    <3>1. "request" \in Wanted(params[q])
      BY DEF Wanted, Part
    <3>2. Row(q, "request", org[q]) \in table
      BY <3>1 DEF RowsAreTheCalls, RowsOf
    <3> QED  BY <2>1, <3>2, RowFields DEF Requests, Rows
  <2> SUFFICES ASSUME NEW r \in Request
               PROVE  /\ answer[r] \in {"created", "unshown"} =>
                            \E w \in Requests(r) : w.org = org[r] /\ w.hash = params[r]
                      /\ answer[r] = "replayed" => \E w \in Requests(r) : w.org # org[r] /\ w.hash = params[r]
                      /\ answer[r] \in {"refused", "failed"} => PartsOf(org[r]) = {}
                      /\ answer[r] = "refused" /\ org[r] # NoOrg => ~SameCall(r)
    BY DEF AnswersAreTrue
  <2>2. answer[r] \in {"created", "unshown"} => \E w \in Requests(r) : w.org = org[r] /\ w.hash = params[r]
    BY <2>1 DEF Fates
  <2>3. ASSUME answer[r] = "replayed" PROVE \E w \in Requests(r) : w.org # org[r] /\ w.hash = params[r]
    <3>1. PICK q \in Committed : params[q] = params[r]
      BY <2>3 DEF Fates
    <3>2. q # r /\ q \in Request /\ org[q] # NoOrg
      BY <2>3 DEF Fates, Committed
    <3>3. org[q] # org[r]
      BY <3>2 DEF Ids
    <3> QED  BY <2>1, <3>1, <3>3
  <2>4. answer[r] \in {"refused", "failed"} => PartsOf(org[r]) = {}
    BY PartsOfCall DEF Fates
  <2>5. ASSUME answer[r] = "refused", org[r] # NoOrg, SameCall(r) PROVE FALSE
    <3>1. PICK q \in Committed : StoppedBy(r, q)
      BY <1>1, <2>5 DEF TwinInv
    <3>2. PICK w \in table : w.hash = params[r]
      BY <2>5 DEF SameCall, Requests, Rows
    <3>3. PICK p \in Committed : params[p] = params[r]
      BY <3>2, RowBelongs
    <3>4. p # q /\ p \in Request /\ q \in Request
      BY <2>5, <3>1, <3>3 DEF StoppedBy, Committed
    <3>5. {"user", "request"} \subseteq Has(p) \intersect Has(q)
      BY <3>4 DEF Has, Wanted, Part
    <3> QED  BY <3>1, <3>3, <3>4, <3>5 DEF Unshared, StoppedBy
  <2> QED  BY <2>2, <2>3, <2>4, <2>5
<1> QED  BY <1>1, Invariance, PTL

(***************************************************************************)
(* The refinement: every committed transaction is one Provision of the     *)
(* registry, and no other step changes a tenant.                           *)
(***************************************************************************)
TenantsAreTheCalls ==
    {TenantOf(w) : w \in table}
        = {[org |-> org[r], params |-> params[r], parts |-> Wanted(params[r])] : r \in Committed}

LEMMA TenantsAreCalls == ProvisioningInv => TenantsAreTheCalls
<1> SUFFICES ASSUME ProvisioningInv PROVE TenantsAreTheCalls
  OBVIOUS
<1> DEFINE T(r) == [org |-> org[r], params |-> params[r], parts |-> Wanted(params[r])]
<1>1. ASSUME NEW w \in table PROVE \E r \in Committed : TenantOf(w) = T(r)
  <2>1. PICK r \in Committed : w.org = org[r] /\ w.hash = params[r]
    BY RowBelongs
  <2>2. PartsOf(org[r]) = Wanted(params[r])
    BY <2>1, PartsOfCall DEF Committed
  <2> QED  BY <2>1, <2>2 DEF TenantOf
<1>2. ASSUME NEW r \in Committed PROVE \E w \in table : TenantOf(w) = T(r)
  <2>1. "organization" \in Wanted(params[r])
    BY DEF Wanted, Part
  <2>2. Row(r, "organization", org[r]) \in table
    BY <2>1 DEF ProvisioningInv, RowsAreTheCalls, RowsOf
  <2>3. PartsOf(org[r]) = Wanted(params[r])
    BY PartsOfCall DEF Committed
  <2> QED  BY <2>2, <2>3, RowFields DEF TenantOf
<1> QED  BY <1>1, <1>2 DEF TenantsAreTheCalls

LEMMA TenantsAreCallsNext == ProvisioningInv' => TenantsAreTheCalls'
BY TenantsAreCalls, PTL

LEMMA CommitProvides ==
    ASSUME ProvisioningInv, ProvisioningInv', NEW r \in Request, pc[r] = "commit",
           table' = table \union pending[r], UNCHANGED <<params, org>>
    PROVE  Registry!Next
<1> DEFINE T(q) == [org |-> org[q], params |-> params[q], parts |-> Wanted(params[q])]
           tenants == {TenantOf(w) : w \in table}
<1>1. r \notin Committed /\ org[r] # NoOrg /\ Committed' = Committed \union {r} /\ Committed \subseteq Request
  BY CommittedNow DEF Committed
<1>2. tenants = {T(q) : q \in Committed}
  BY TenantsAreCalls DEF TenantsAreTheCalls
<1>3. tenants' = {T(q) : q \in Committed'}
  BY TenantsAreCallsNext DEF TenantsAreTheCalls, Wanted
<1>4. tenants' = tenants \union {T(r)}
  BY <1>1, <1>2, <1>3
<1>5. ASSUME NEW q \in Committed PROVE Registry!Apart(T(q), T(r))
  <2>1. q \in Request /\ q # r
    BY <1>1
  <2>2. org[q] # org[r]
    BY <1>1, <2>1 DEF ProvisioningInv, Ids
  <2>3. {"user", "request"} \subseteq Has(q)' /\ {"user", "request"} \subseteq Has(r)'
    BY <1>1, <2>1 DEF Has, Wanted, Part
  <2>4. params[q].key # params[r].key /\ params[q].admin # params[r].admin
    BY <2>1, <2>3 DEF ProvisioningInv, Unshared
  <2> QED  BY <2>2, <2>4 DEF Registry!Apart
<1>6. T(r) \notin tenants
  BY <1>2, <1>5 DEF Registry!Apart
<1>7. T(r).params = params[r] /\ T(r).parts = Registry!Whole(params[r]) /\ params[r] \in Params
  BY DEF Wanted, Registry!Whole, ProvisioningInv, Types
<1>8. \A t \in tenants : Registry!Apart(t, T(r))
  BY <1>2, <1>5
<1>9. Registry!Provision(params[r])
  <2> HIDE DEF T, tenants
  <2>1. T(r) \in tenants' \ tenants
    BY <1>4, <1>6
  <2> USE DEF tenants
  <2> QED  BY <1>4, <1>7, <1>8, <2>1 DEF Registry!Provision
<1> QED  BY <1>7, <1>9 DEF Registry!Next

(***************************************************************************)
(* However calls race, the committed rows behave as the registry of        *)
(* tenants: whole tenants appear one at a time and for good, with keys,    *)
(* administrators and ids of their own.                                    *)
(***************************************************************************)
THEOREM Refinement == Spec => OneTenantPerKey
<1>1. Init => Registry!Init
  BY DEF Init, Registry!Init
<1>2. ProvisioningInv /\ [Next]_vars => [Registry!Next]_{TenantOf(w) : w \in table}
  <2> SUFFICES ASSUME ProvisioningInv, [Next]_vars PROVE [Registry!Next]_{TenantOf(w) : w \in table}
    OBVIOUS
  <2>1. CASE table' = table
    BY <2>1 DEF TenantOf, PartsOf
  <2>2. ASSUME NEW r \in Request, pc[r] = "commit", table' = table \union pending[r], UNCHANGED <<params, org>>
        PROVE  Registry!Next
    BY <2>2, InvStep, CommitProvides
  <2> QED  BY <2>1, <2>2, TableStep
<1> QED
  BY <1>1, <1>2, Invariance, PTL DEF Spec, OneTenantPerKey, Registry!Spec
=============================================================================
