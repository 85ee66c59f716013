-------------------------- MODULE ProductionGate --------------------------
(***************************************************************************)
(* How one AI system gets into production, and out of it again: the two    *)
(* gates (POST /ai-systems/{id}/deploy and PATCH .../governance in         *)
(* app/api/governance.py, app/core/deployment_service.py), the readiness   *)
(* check beside them, and everything they read: the system's risks,        *)
(* corrective actions, production approvals and the governance config.     *)
(*                                                                         *)
(* No handler locks a row.  A gate loads the system once and then runs one *)
(* SELECT after the other, each seeing what is committed at that moment    *)
(* (deploy's lookups of the actions, one per risk, are one SELECT here);   *)
(* the commit writes the attributes that differ from the loaded ones.      *)
(***************************************************************************)
EXTENDS Integers, Sequences

CONSTANTS
    User,
    Admin,          \* users with role "admin"
    SuperAdmin,     \* users with super-admin powers
    Risk,           \* ids the system's risks can get
    Request,        \* request slots, each serving one request after another
    RiskAge,        \* days after which an open high risk is aged
    ReviewAges,     \* the values max_review_age_days takes
    MaxApprovals,   \* bound: production approvals given
    MaxRequired,    \* bound: required_production_approvals
    LastDay         \* bound: the last day of the model

ASSUME GateAssumption ==
    /\ Admin \subseteq User /\ SuperAdmin \subseteq User
    /\ ReviewAges \subseteq Nat /\ ReviewAges # {}
    /\ RiskAge \in Nat
    /\ {MaxApprovals, MaxRequired, LastDay} \subseteq Nat \ {0}

VARIABLES
    system,     \* the row in ai_systems
    risk,       \* id -> the row in ai_risks
    closed,     \* the risks that have a closed corrective action
    approvals,  \* the users who approved, oldest first
    org,        \* the governance config
    today,
    job,        \* request -> what it is doing
    disturbed   \* history: running requests under which something else changed

vars == <<system, risk, closed, approvals, org, today, job, disturbed>>

db == <<system, risk, closed, approvals, org, today>>

\* "other" is NULL, "archived" and every other text: neither gate tells them apart.
Stage == {"other", "restricted", "production"}
\* "low" stands for medium as well.
Level == {"low", "high"}
Never == 0      \* NULL in last_reviewed_at

System == [deleted : BOOLEAN, stage : Stage, assessed : BOOLEAN, reviewed : 0..LastDay]

\* An id not given out yet, and a row nobody reads any more.
NoRisk == [state |-> "absent", level |-> "low", born |-> 1]
DeletedRisk == [state |-> "deleted", level |-> "low", born |-> 1]

\* The user a handler does not look at.
Anyone == "anyone"
\* The organization before a handler has loaded it.
Unread == [required |-> 1, maxReviewAge |-> 0]

Idle == [kind |-> "idle"]

-----------------------------------------------------------------------------
(* What the checks look at. *)

IsHigh(row) == row.state = "live" /\ row.level = "high"

HighRisks == {k \in Risk : IsHigh(risk[k])}

Aged(k) == risk[k].born < today - RiskAge

Expired(day, config) == day # Never /\ day < today - config.maxReviewAge

\* Both gates ask for the newest approval: ORDER BY timestamp DESC.
LastApprover == approvals[Len(approvals)]

SeparationBlocks(u, last) == approvals # <<>> /\ last = u

\* Variant: aged risks are not reported.
ReadyIgnoringAge(u, assessed, last) ==
    /\ Len(approvals) >= org.required
    /\ \A k \in HighRisks : k \in closed
    /\ assessed
    /\ ~SeparationBlocks(u, last)

\* GET .../readiness-check for user u, with the conformity flag as given.  Its SELECT of the
\* approvals has no ORDER BY: `last` gave whichever one comes back as the last row.
Ready(u, assessed, last) ==
    /\ Len(approvals) >= org.required
    /\ \A k \in HighRisks : k \in closed /\ ~Aged(k)
    /\ assessed
    /\ ~SeparationBlocks(u, last)

\* Variant: the deploy endpoint asks for the last approver before counting.
DeployChecksLastFirst == <<"admission", "risks", "last", "actions", "config", "count">>

\* What the deploy endpoint and the PATCH handler ask, in their order: what needs no SELECT
\* first, and then one SELECT after the other.
\* The organization is read once: a second query would answer with the loaded object.
DeployChecks == <<"admission", "risks", "actions", "config", "count", "last">>
PromoteChecks == <<"admission", "risks", "last", "actions", "config", "count">>
PatchChecks == <<"config">>

-----------------------------------------------------------------------------
Init ==
    /\ system = [deleted |-> FALSE, stage |-> "other", assessed |-> FALSE, reviewed |-> Never]
    /\ today = 1
    /\ risk = [k \in Risk |-> NoRisk]
    /\ closed = {}
    /\ approvals = <<>>
    /\ \E age \in ReviewAges : org = [required |-> 1, maxReviewAge |-> age]
    /\ job = [r \in Request |-> Idle]
    /\ disturbed = {}

Running == {r \in Request : job[r] # Idle}

-----------------------------------------------------------------------------
(* The gate. *)

Start(r, j) ==
    /\ job[r] = Idle
    /\ job' = [job EXCEPT ![r] = j]
    /\ UNCHANGED <<db, disturbed>>

GateJob(kind, u, selects) ==
    [kind |-> kind, by |-> u, copy |-> system, todo |-> selects, found |-> {},
     config |-> Unread]

\* get_org_scoped_system finds a system only while it is not archived.
Found == ~system.deleted

\* Anyone may ask, whatever stage the system is in; the handler loads the system.
StartDeploy(r, u) == Found /\ Start(r, GateJob("deploy", u, DeployChecks))

\* PATCH with lifecycle_stage "production" and a reason.
StartPromote(r, u) == Found /\ Start(r, GateJob("promote", u, PromoteChecks))

\* PATCH with anything else, and DELETE: no checks, whoever asks.
StartPatch(r) == Found /\ Start(r, GateJob("patch", Anyone, PatchChecks))
StartArchive(r) == Found /\ Start(r, GateJob("archive", Anyone, <<>>))

\* The conformity flag is the system's own at deploy, and PATCH brings it along.
Assessed(r) == IF job[r].kind = "deploy" THEN {job[r].copy.assessed} ELSE BOOLEAN

\* require_role("admin") lets a super-admin pass, the PATCH handler's own comparison does not.
\* Only deploy asks for the stage.
Admitted(j, row) ==
    IF j.kind = "deploy"
    THEN j.by \in Admin \union SuperAdmin /\ row.stage = "restricted"
    ELSE j.by \in Admin

\* Does the next check let request r through?
Passes(r, assessed) ==
    LET j == job[r] IN
    CASE Head(j.todo) = "admission" -> Admitted(j, j.copy)
      [] Head(j.todo) = "actions" ->
            /\ \A k \in j.found : k \in closed /\ ~Aged(k)
            /\ assessed
      [] Head(j.todo) = "count" -> Len(approvals) >= j.config.required
      [] Head(j.todo) = "last"  -> ~SeparationBlocks(j.by, LastApprover)
      [] OTHER -> TRUE

\* What a SELECT returns is kept, and the handler goes on.
Selected(j) ==
    [j EXCEPT !.todo = Tail(j.todo),
              !.found = IF Head(j.todo) = "risks" THEN HighRisks ELSE j.found,
              !.config = IF Head(j.todo) = "config" THEN org ELSE j.config]

Select(r, assessed) ==
    /\ job[r] # Idle /\ job[r].todo # <<>>
    /\ assessed \in Assessed(r) /\ Passes(r, assessed)
    /\ job' = [job EXCEPT ![r] = Selected(job[r])]
    /\ UNCHANGED <<db, disturbed>>

\* The request is over.
Leave(r) == job' = [job EXCEPT ![r] = Idle]

Refuse(r, assessed) ==
    /\ job[r] # Idle /\ job[r].todo # <<>>
    /\ assessed \in Assessed(r) /\ ~Passes(r, assessed)
    /\ Leave(r)
    /\ disturbed' = disturbed \ {r}
    /\ UNCHANGED db

Finish(r) ==
    /\ Leave(r)
    /\ disturbed' = (disturbed \union Running) \ {r}
    /\ UNCHANGED <<closed, approvals, org, today>>

\* Variant: the UPDATE sets every column.
WriteWholeRow(r, new) == system' = new

\* COMMIT: the attributes in which `new` differs from the loaded system.
Write(r, new) ==
    LET old == job[r].copy
    IN system' = [a \in DOMAIN system |-> IF new[a] # old[a] THEN new[a] ELSE system[a]]

Allowed(r, kind) == job[r] # Idle /\ job[r].kind = kind /\ job[r].todo = <<>>

Deploy(r) ==
    /\ Allowed(r, "deploy")
    /\ Write(r, [job[r].copy EXCEPT !.stage = "production"])
    /\ Finish(r)
    /\ UNCHANGED risk

\* Variant: the review date is stored and not judged.
NotDowngraded(u, config) == u

\* The PATCH handler's last word: a system whose review has expired is restricted.
Downgraded(u, config) ==
    IF Expired(u.reviewed, config) THEN [u EXCEPT !.stage = "restricted"] ELSE u

\* The PATCH handler: a field that is not sent keeps the loaded value.
Promote(r, day) ==
    /\ Allowed(r, "promote")
    /\ day \in {job[r].copy.reviewed} \union 1..LastDay
    /\ Write(r, Downgraded([job[r].copy EXCEPT !.stage = "production", !.assessed = TRUE,
                                               !.reviewed = day], job[r].config))
    /\ Finish(r)
    /\ UNCHANGED risk

Patch(r, stage, assessed, day) ==
    /\ Allowed(r, "patch")
    /\ stage \in {job[r].copy.stage} \union (Stage \ {"production"})
    /\ day \in {job[r].copy.reviewed} \union 1..LastDay
    /\ Write(r, Downgraded([job[r].copy EXCEPT !.stage = stage, !.assessed = assessed,
                                               !.reviewed = day], job[r].config))
    /\ Finish(r)
    /\ UNCHANGED risk

Archive(r) ==
    /\ Allowed(r, "archive")
    /\ Write(r, [job[r].copy EXCEPT !.deleted = TRUE, !.stage = "other"])
    /\ Finish(r)
    /\ UNCHANGED risk

-----------------------------------------------------------------------------
(* Everything else that changes what a gate reads, one commit each.  Who may lower or   *)
(* delete a high risk is not the gate's business: some user may.                        *)

Other == /\ disturbed' = disturbed \union Running
         /\ UNCHANGED <<system, job>>

SetRisk(k, row) ==
    /\ risk' = [risk EXCEPT ![k] = row]
    /\ Other
    /\ UNCHANGED <<closed, approvals, org, today>>

CreateRisk(k, level) ==
    /\ Found /\ risk[k] = NoRisk
    /\ SetRisk(k, [state |-> "live", level |-> level, born |-> today])

ChangeLevel(k, level) ==
    /\ risk[k].state = "live"
    /\ SetRisk(k, [risk[k] EXCEPT !.level = level])

DeleteRisk(k) ==
    /\ risk[k].state = "live"
    /\ SetRisk(k, DeletedRisk)

\* A corrective action of the risk is closed, or set back to open or in progress.
SetAction(k, status) ==
    /\ risk[k].state = "live"
    /\ closed' = IF status = "closed" THEN closed \union {k} ELSE closed \ {k}
    /\ Other
    /\ UNCHANGED <<risk, approvals, org, today>>

Approve(u) ==
    /\ Found /\ u \in Admin \union SuperAdmin
    /\ Len(approvals) < MaxApprovals
    /\ approvals' = Append(approvals, u)
    /\ Other
    /\ UNCHANGED <<risk, closed, org, today>>

Configure(required, age) ==
    /\ org' = [required |-> required, maxReviewAge |-> age]
    /\ Other
    /\ UNCHANGED <<risk, closed, approvals, today>>

NextDay ==
    /\ today < LastDay
    /\ today' = today + 1
    /\ Other
    /\ UNCHANGED <<risk, closed, approvals, org>>

Gate(r) ==
    \/ \E u \in User : StartDeploy(r, u) \/ StartPromote(r, u)
    \/ StartPatch(r) \/ StartArchive(r)
    \/ \E assessed \in BOOLEAN : Select(r, assessed) \/ Refuse(r, assessed)
    \/ Deploy(r) \/ Archive(r)
    \/ \E day \in 0..LastDay : Promote(r, day)
    \/ \E stage \in Stage, assessed \in BOOLEAN, day \in 0..LastDay : Patch(r, stage, assessed, day)

Next ==
    \/ \E r \in Request : Gate(r)
    \/ \E k \in Risk :
          \/ DeleteRisk(k)
          \/ \E level \in Level : CreateRisk(k, level) \/ ChangeLevel(k, level)
    \/ \E k \in Risk, status \in {"open", "closed"} : SetAction(k, status)
    \/ \E u \in User : Approve(u)
    \/ \E n \in 1..MaxRequired, age \in ReviewAges : Configure(n, age)
    \/ NextDay

Spec == Init /\ [][Next]_vars

-----------------------------------------------------------------------------
(* Properties. *)

Config == [required : 1..MaxRequired, maxReviewAge : ReviewAges \union {Unread.maxReviewAge}]

Check == {"admission", "risks", "last", "actions", "config", "count"}

Job == {Idle}
       \union [kind : {"deploy", "promote", "patch", "archive"}, by : User \union {Anyone},
               copy : System, todo : Seq(Check),
               found : SUBSET Risk, config : Config]

\* The rows are well formed, and a request that is judging a system judges a live one.
TypeOK ==
    /\ system \in System
    /\ risk \in [Risk -> [state : {"absent", "live", "deleted"}, level : Level, born : 1..LastDay]]
    /\ closed \subseteq Risk
    /\ approvals \in Seq(User) /\ Len(approvals) <= MaxApprovals
    /\ org \in Config
    /\ today \in 1..LastDay
    /\ job \in [Request -> Job]
    /\ \A r \in Request : job[r] # Idle => ~job[r].copy.deleted
    /\ disturbed \subseteq Running

\* The deploy endpoint never puts a system into production that only the deployer has
\* approved, whatever is approved, configured or archived while it looks.
DeployIsFourEyes ==
    [][\A r \in Request : Deploy(r) => \E i \in DOMAIN approvals : approvals[i] # job[r].by]_vars

\* What the gates ask of the request, and what the readiness check asks.
Open(r, assessed) ==
    Admitted(job[r], system) /\ Ready(job[r].by, assessed, LastApprover)

\* Three implementations of one rule: left undisturbed, a deployment or promotion goes
\* through exactly when the role (and at deploy the stage) admits it, which the readiness
\* check does not ask, and the readiness check would say yes, had the newest approval come
\* back as its last row.
OneGate ==
    [][\A r \in Request \ disturbed :
          /\ Deploy(r) => Open(r, system.assessed)
          /\ \A day \in 0..LastDay : Promote(r, day) => Open(r, TRUE)
          /\ \A assessed \in BOOLEAN : Refuse(r, assessed) => ~Open(r, assessed)]_vars

PatchCommits(r) ==
    \/ \E day \in 0..LastDay : Promote(r, day)
    \/ \E stage \in Stage, assessed \in BOOLEAN, day \in 0..LastDay : Patch(r, stage, assessed, day)

\* Left undisturbed, no PATCH leaves a system in production whose review has expired,
\* neither one that asks for production nor one that changes something else.
ExpiredReviewRestricts ==
    [][\A r \in Request \ disturbed :
          PatchCommits(r) => ~(system'.stage = "production" /\ Expired(system'.reviewed, org))]_vars

\* Archiving wins: no request that loaded the system before brings it back.
ArchivedForGood == [][system.deleted => system'.deleted]_vars

-----------------------------------------------------------------------------
(* The inductive invariant behind DeployIsFourEyes. *)

\* What is left of DeployChecks at some point of the handler.
DeployTodo ==
    {DeployChecks, <<"risks", "actions", "config", "count", "last">>, <<"actions", "config", "count", "last">>,
     <<"config", "count", "last">>, <<"count", "last">>, <<"last">>, <<>>}

\* A deployment that has counted has seen an approval, and one that has passed the last
\* check has seen somebody else's; approvals are never taken back.
SeenApprovals(r) ==
    job[r].kind = "deploy" =>
        /\ job[r].todo \in DeployTodo
        /\ job[r].todo = <<"last">> => approvals # <<>>
        /\ job[r].todo = <<>> => \E i \in DOMAIN approvals : approvals[i] # job[r].by

IInv == TypeOK /\ \A r \in Request : SeenApprovals(r)
=============================================================================
