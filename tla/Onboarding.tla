----------------------------- MODULE Onboarding -----------------------------
(***************************************************************************)
(* The accounts headquarters keeps of its customers, and the projects and  *)
(* tasks of bringing one in (app/services/onboarding.py, services/         *)
(* ops_accounts.py, api/ops_accounts.py, api/ops_onboarding.py,            *)
(* api/onboarding.py).                                                     *)
(*                                                                         *)
(* A handler loads a row, decides, and writes at its commit the attributes *)
(* that differ from what it loaded; time stamps always differ.  What other *)
(* requests commit in between is neither seen nor locked out.  A nullable  *)
(* column is a set of at most one value.                                   *)
(***************************************************************************)
EXTENDS Integers, Sequences, FiniteSets

CONSTANTS
    Account, Tenant,
    Template,      \* the tasks of the template: [phase, position, owner, visible]
    Editor,        \* requests in flight
    MaxProjects,   \* bound: onboarding projects
    LastDay        \* bound: days that pass

TaskNo == DOMAIN Template

VARIABLES
    account,       \* ops_accounts: [status, org], status "absent" before it is created
    project,       \* onboarding_projects in the order of their ids: [account, status, started, completed]
    task,          \* onboarding_tasks of each project: [status, started, completed, by]
    editing,       \* what a request will do: [what, row, set]
    day,           \* the clock
    crossed,       \* rows written while another request was about to write them, too
    reopened       \* accounts of which a closed project was opened again

onboardingVars == <<account, project, task, editing, day, crossed, reopened>>

History == <<crossed, reopened>>

Pipeline == <<"lead", "qualified", "proposal", "contract", "onboarding", "live">>
Terminal == {"lost", "churned"}
OpenProject == {"active", "paused"}
ProjectStatus == OpenProject \union {"completed", "cancelled"}
ClosedTask == {"done", "skipped"}
TaskStatus == ClosedTask \union {"todo", "doing", "blocked"}

NotEditing == [what |-> "nothing", row |-> <<>>, set |-> <<>>]

NewTask == [status |-> "todo", started |-> {}, completed |-> {}, by |-> {}]

\* Accounts that were there before: each tenant is linked to one of them at most.
OnboardingInit ==
    /\ account \in [Account -> [status : {"absent", "lead", "live"}, org : {{}} \union {{o} : o \in Tenant}]]
    /\ \A a \in Account : account[a].status = "absent" => account[a].org = {}
    /\ \A a, b \in Account : a # b => account[a].org \intersect account[b].org = {}
    /\ project = <<>> /\ task = <<>>
    /\ editing = [e \in Editor |-> NotEditing]
    /\ day = 0 /\ crossed = {} /\ reopened = {}

Exists(a) == account[a].status # "absent"

OpenProjects(a) == {p \in DOMAIN project : project[p].account = a /\ project[p].status \in OpenProject}

\* A handler has loaded a row and decided what to do with it.
Decides(e, what, row, set) ==
    /\ editing[e] = NotEditing
    /\ editing' = [editing EXCEPT ![e] = [what |-> what, row |-> row, set |-> set]]
    /\ UNCHANGED <<account, project, task, day, History>>

\* The attributes of values an UPDATE contains, given the row as loaded.
Dates == {"started", "completed"}
Changes(loaded, values) ==
    LET written == {c \in DOMAIN values : values[c] # loaded[c] \/ (c \in Dates /\ values[c] # {})}
    IN  [c \in written |-> values[c]]

Updated(row, set) == [c \in DOMAIN row |-> IF c \in DOMAIN set THEN set[c] ELSE row[c]]

\* e is done with its row, whether or not another request still is at it.
Ends(e) ==
    /\ editing' = [editing EXCEPT ![e] = NotEditing]
    /\ crossed' = crossed \union {row \in {editing[e].row} : \E f \in Editor \ {e} : editing[f].row = row}

-----------------------------------------------------------------------------
(* Accounts. *)

CreateAccount(a) ==
    /\ ~Exists(a)
    /\ account' = [account EXCEPT ![a] = [status |-> "lead", org |-> {}]]
    /\ UNCHANGED <<project, task, editing, day, History>>

Rank(status) == CHOOSE i \in DOMAIN Pipeline : Pipeline[i] = status

\* validate_transition, for a status that changes.
ValidTransition(old, new) ==
    /\ old \notin Terminal
    /\ \/ new = "lost" /\ old # "live"
       \/ new = "churned" /\ old = "live"
       \/ new \notin Terminal /\ Rank(new) > Rank(old)

ChangeStatus(e, a) ==
    /\ Exists(a)
    /\ \E new \in Terminal \union {Pipeline[i] : i \in DOMAIN Pipeline} :
          /\ ValidTransition(account[a].status, new)
          /\ Decides(e, "save account", <<"account", a>>, Changes(account[a], [status |-> new]))

\* The account is loaded ...
Link(e, a) ==
    /\ Exists(a) /\ account[a].org = {}
    /\ \E o \in Tenant : Decides(e, "look", <<"account", a>>, [org |-> {o}])

\* ... and then another account with this tenant is looked for.
LookForOther(e) ==
    /\ editing[e].what = "look"
    /\ editing' = [editing EXCEPT ![e] = IF \E b \in Account : account[b].org = editing[e].set.org
                                         THEN NotEditing
                                         ELSE [what |-> "save account", row |-> editing[e].row, set |-> editing[e].set]]
    /\ UNCHANGED <<account, project, task, day, History>>

\* Variant: organization_id is not unique.
UniqueTenantUnchecked(a, row) == TRUE

\* organization_id is unique.
UniqueTenant(a, row) == \A b \in Account \ {a} : row.org \intersect account[b].org = {}

SaveAccount(e, a) ==
    /\ editing[e].what = "save account" /\ editing[e].row = <<"account", a>>
    /\ LET row == Updated(account[a], editing[e].set) IN
       account' = IF UniqueTenant(a, row) THEN [account EXCEPT ![a] = row] ELSE account
    /\ Ends(e)
    /\ UNCHANGED <<project, task, day, reopened>>

-----------------------------------------------------------------------------
(* Projects. *)

\* Variant: a paused project does not stand in the way.
MayStartBesidePaused(a) == \A p \in OpenProjects(a) : project[p].status = "paused"

MayStart(a) == OpenProjects(a) = {}

StartProject(e, a) ==
    /\ Exists(a) /\ MayStart(a)
    /\ Decides(e, "start", <<"start", a>>, <<>>)

\* The project and its copy of the template's tasks, in one transaction.
InsertProject(e, a) ==
    /\ editing[e].what = "start" /\ editing[e].row = <<"start", a>>
    /\ Len(project) < MaxProjects
    /\ project' = Append(project, [account |-> a, status |-> "active", started |-> {day}, completed |-> {}])
    /\ task' = Append(task, [k \in TaskNo |-> NewTask])
    /\ Ends(e)
    /\ UNCHANGED <<account, day, reopened>>

\* Variant: the end of a project is not taken back.
ProjectWithKept(status) ==
    IF status = "completed" THEN [status |-> status, completed |-> {day}] ELSE [status |-> status]

\* What a PATCH with a status assigns.
ProjectWith(status) ==
    [status |-> status, completed |-> IF status = "completed" THEN {day} ELSE {}]

\* With a new target date it is written even if the status is not new.
UpdateProject(e, p) ==
    \E status \in ProjectStatus, newDate \in BOOLEAN :
        /\ status # project[p].status \/ newDate
        /\ Decides(e, "save project", <<"project", p>>, Changes(project[p], ProjectWith(status)))

SaveProject(e, p) ==
    /\ editing[e].what = "save project" /\ editing[e].row = <<"project", p>>
    /\ project' = [project EXCEPT ![p] = Updated(@, editing[e].set)]
    /\ reopened' = reopened \union {a \in {project[p].account} : project[p].status \notin OpenProject /\ project'[p].status \in OpenProject}
    /\ Ends(e)
    /\ UNCHANGED <<account, task, day>>

-----------------------------------------------------------------------------
(* Tasks. *)

\* apply_task_status: what it assigns.
TaskWith(loaded, status, actor) ==
    CASE status = "doing" /\ loaded.started = {} -> [status |-> status, started |-> {day}]
      [] status \in ClosedTask -> [status |-> status, completed |-> {day}, by |-> {actor}]
      [] status = "todo" -> [status |-> status, completed |-> {}, by |-> {}]
      [] OTHER -> [status |-> status]

\* Headquarters: any status that is new.
UpdateTask(e, p, k) ==
    \E status \in TaskStatus \ {task[p][k].status} :
        Decides(e, "save task", <<"task", p, k>>, Changes(task[p][k], TaskWith(task[p][k], status, "hq")))

\* The customer's own tasks, in a project of the account linked to the customer's tenant.
CustomersTask(o, p, k) ==
    /\ account[project[p].account].org = {o}
    /\ Template[k].visible /\ Template[k].owner = "customer"

UpdateOnboardingTask(e, p, k) ==
    /\ \E o \in Tenant : CustomersTask(o, p, k)
    /\ \E status \in {"todo", "doing", "done"} :
          Decides(e, "save task", <<"task", p, k>>, Changes(task[p][k], TaskWith(task[p][k], status, "customer")))

SaveTask(e, p, k) ==
    /\ editing[e].what = "save task" /\ editing[e].row = <<"task", p, k>>
    /\ task' = [task EXCEPT ![p][k] = Updated(@, editing[e].set)]
    /\ Ends(e)
    /\ UNCHANGED <<account, project, day, reopened>>

-----------------------------------------------------------------------------
\* A commit fails, or the process dies.
NotSaved(e) ==
    /\ editing[e] # NotEditing
    /\ editing' = [editing EXCEPT ![e] = NotEditing]
    /\ UNCHANGED <<account, project, task, day, History>>

DayPasses ==
    /\ day < LastDay
    /\ day' = day + 1
    /\ UNCHANGED <<account, project, task, editing, History>>

OnboardingNext ==
    \/ DayPasses
    \/ \E a \in Account : CreateAccount(a)
    \/ \E e \in Editor :
          \/ NotSaved(e) \/ LookForOther(e)
          \/ \E a \in Account :
                \/ ChangeStatus(e, a) \/ Link(e, a) \/ SaveAccount(e, a)
                \/ StartProject(e, a) \/ InsertProject(e, a)
          \/ \E p \in DOMAIN project :
                \/ UpdateProject(e, p) \/ SaveProject(e, p)
                \/ \E k \in TaskNo : UpdateTask(e, p, k) \/ UpdateOnboardingTask(e, p, k) \/ SaveTask(e, p, k)

OnboardingSpec == OnboardingInit /\ [][OnboardingNext]_onboardingVars

-----------------------------------------------------------------------------
(* Metrics (get_project_metrics). *)

FinalPhase == 8

TasksOf(p, phase) == {task[p][k] : k \in {n \in TaskNo : Template[n].phase = phase}}
AllClosed(p, phase) == \A t \in TasksOf(p, phase) : t.status \in ClosedTask

\* _phase_window: from the first touch to the last completion, once all tasks are closed.
PhaseStart(p, phase) ==
    LET touches == UNION {t.started \union t.completed : t \in TasksOf(p, phase)}
    IN  {d \in touches : \A c \in touches : d <= c}

PhaseEnd(p, phase) ==
    LET ends == UNION {t.completed : t \in TasksOf(p, phase)}
    IN  {d \in ends : AllClosed(p, phase) /\ \A c \in ends : c <= d}

DaysBetween(from, to) == {d - c : c \in from, d \in to}

TotalDays(p) == DaysBetween(project[p].started, PhaseEnd(p, FinalPhase))

-----------------------------------------------------------------------------
(* Properties. *)

\* A tenant belongs to one account at most, however requests that link it overlap, and an
\* account keeps its tenant, unless two requests that write the account overlapped
\* (link_organization, uq_ops_accounts_organization_id).
TenantsAreLinkedOnce ==
    [][\A a \in Account :
          account'[a].org # account[a].org =>
              /\ account[a].org = {} \/ <<"account", a>> \in crossed
              /\ \A b \in Account \ {a} : account'[a].org \intersect account'[b].org = {}]_onboardingVars

\* Two open projects of one account come from a project that was opened again, or from two
\* overlapping starts (create_project_from_template).
SecondProjectHasAReason ==
    \A a \in Account :
        Cardinality(OpenProjects(a)) > 1 => a \in reopened \/ <<"start", a>> \in crossed

\* The stamps, and with them the metrics, say what the statuses say, unless two requests
\* overlapped on the row: a project has ended iff it is completed; a closed task has its
\* completion, one still to be done has none; a phase has ended iff its tasks are closed, and
\* only then does the onboarding have a duration, which is not negative (update_project,
\* apply_task_status, get_project_metrics).
DatesFitStatuses ==
    \A p \in DOMAIN project :
        /\ <<"project", p>> \notin crossed => (project[p].completed # {} <=> project[p].status = "completed")
        /\ \A k \in TaskNo : LET t == task[p][k] IN
              <<"task", p, k>> \notin crossed =>
                  /\ t.status \in ClosedTask => t.completed # {} /\ t.by # {}
                  /\ t.status = "todo" => t.completed = {}
        /\ (\A k \in TaskNo : <<"task", p, k>> \notin crossed) =>
              /\ \A phase \in 1..FinalPhase : TasksOf(p, phase) # {} =>
                    /\ PhaseEnd(p, phase) # {} <=> AllClosed(p, phase)
                    /\ \A d \in DaysBetween(PhaseStart(p, phase), PhaseEnd(p, phase)) : d >= 0
              /\ \A d \in TotalDays(p) : d >= 0

-----------------------------------------------------------------------------
\* Claimed by app/models/onboarding_project.py:9-11: at most one project with status active or
\* paused per account.
OneOpenProject == \A a \in Account : Cardinality(OpenProjects(a)) <= 1
=============================================================================
