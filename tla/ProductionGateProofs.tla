----------------------- MODULE ProductionGateProofs -----------------------
(***************************************************************************)
(* Theorems about the production gate for any users, roles, risks, numbers *)
(* of concurrent requests, approvals and days: its types, and that the     *)
(* deploy endpoint keeps the four-eyes rule without any lock, because      *)
(* approvals are never taken back and are counted before the last one is   *)
(* looked at.                                                              *)
(***************************************************************************)
EXTENDS ProductionGate, TLAPS

-----------------------------------------------------------------------------
(* Types. *)

LEMMA InitType == Init => TypeOK
BY GateAssumption DEF Init, TypeOK, System, Stage, Level, NoRisk, Never, Config, Unread, Job,
                      Running, Idle

(* What a handler commits is a row again. *)
LEMMA WriteType ==
    ASSUME TypeOK, NEW r \in Request, NEW new \in System, Write(r, new)
    PROVE  system' \in System
BY DEF TypeOK, Write, System

(* A handler starts with the live system it has just loaded. *)
LEMMA StartType ==
    ASSUME TypeOK, Found, NEW r \in Request, NEW u \in User \union {Anyone},
           NEW kind \in {"deploy", "promote", "patch", "archive"},
           NEW selects \in Seq(Check),
           Start(r, GateJob(kind, u, selects))
    PROVE  TypeOK'
<1>1. GateJob(kind, u, selects) \in Job /\ GateJob(kind, u, selects) # Idle
  BY GateAssumption DEF TypeOK, GateJob, Job, Config, Unread, Idle
<1>2. job' \in [Request -> Job]
  BY <1>1 DEF Start, TypeOK
<1>3. \A q \in Request : job'[q] # Idle => ~job'[q].copy.deleted
  BY <1>1 DEF Start, TypeOK, GateJob, Found, Idle
<1> QED
  BY <1>1, <1>2, <1>3 DEF Start, TypeOK, db, Running

(* A SELECT takes the head off the list and remembers what it found. *)
LEMMA SelectType ==
    ASSUME TypeOK, NEW r \in Request, NEW assessed \in BOOLEAN, Select(r, assessed)
    PROVE  TypeOK'
<1> DEFINE Judging == [kind : {"deploy", "promote", "patch", "archive"}, by : User \union {Anyone},
                       copy : System, todo : Seq(Check),
                       found : SUBSET Risk, config : Config]
<1>1. job[r] \in Judging /\ job[r].todo # <<>>
  BY DEF TypeOK, Select, Job
<1>2. HighRisks \subseteq Risk /\ org \in Config
  BY DEF HighRisks, TypeOK
<1>3. Selected(job[r]) \in Judging
  <2>1. job[r].todo \in Seq(Check)
    BY <1>1
  <2>2. Tail(job[r].todo) \in Seq(Check)
    BY <1>1, <2>1
  <2>3. /\ (IF Head(job[r].todo) = "risks" THEN HighRisks ELSE job[r].found) \in SUBSET Risk
        /\ (IF Head(job[r].todo) = "config" THEN org ELSE job[r].config) \in Config
    BY <1>1, <1>2
  <2> QED  BY <1>1, <2>2, <2>3 DEF Selected
<1>4. Selected(job[r]) # Idle /\ Selected(job[r]).copy = job[r].copy
  BY <1>1, <1>3 DEF Selected, Idle
<1>5. job' = [job EXCEPT ![r] = Selected(job[r])]
  BY DEF Select
<1>6. job' \in [Request -> Job]
  BY <1>3, <1>5 DEF TypeOK, Job
<1>7. \A q \in Request : job'[q] # Idle => ~job'[q].copy.deleted
  BY <1>4, <1>5 DEF TypeOK, Select
<1>8. disturbed' \subseteq Running'
  BY <1>4, <1>5 DEF TypeOK, Running, Select
<1> QED
  BY <1>6, <1>7, <1>8 DEF TypeOK, Select, db

LEMMA RefuseType ==
    ASSUME TypeOK, NEW r \in Request, NEW assessed \in BOOLEAN, Refuse(r, assessed)
    PROVE  TypeOK'
BY DEF TypeOK, Refuse, Leave, Job, db, Running

(* A request that commits leaves the others as they were. *)
LEMMA FinishType ==
    ASSUME TypeOK, NEW r \in Request, job[r] # Idle, NEW new \in System, Write(r, new),
           Finish(r), UNCHANGED risk
    PROVE  TypeOK'
<1>1. system' \in System
  BY WriteType
<1> QED
  BY <1>1 DEF TypeOK, Finish, Leave, Job, Running

(* What the handlers want to commit. *)
LEMMA CommitType ==
    ASSUME TypeOK, NEW r \in Request,
           \/ Deploy(r) \/ Archive(r)
           \/ \E day \in 0..LastDay : Promote(r, day)
           \/ \E stage \in Stage, assessed \in BOOLEAN, day \in 0..LastDay :
                 Patch(r, stage, assessed, day)
    PROVE  TypeOK'
<1>1. job[r] # Idle /\ job[r].copy \in System
  BY DEF TypeOK, Job, Deploy, Archive, Promote, Patch, Allowed
<1>2. ASSUME NEW u \in System, NEW config PROVE Downgraded(u, config) \in System
  BY DEF Downgraded, System, Stage
<1>3. CASE Deploy(r)
  <2>1. [job[r].copy EXCEPT !.stage = "production"] \in System
    BY <1>1 DEF System, Stage
  <2> QED  BY <1>1, <1>3, <2>1, FinishType DEF Deploy
<1>4. CASE Archive(r)
  <2>1. [job[r].copy EXCEPT !.deleted = TRUE, !.stage = "other"] \in System
    BY <1>1 DEF System, Stage
  <2> QED  BY <1>1, <1>4, <2>1, FinishType DEF Archive
<1>5. ASSUME NEW day \in 0..LastDay, Promote(r, day) PROVE TypeOK'
  <2> DEFINE u == [job[r].copy EXCEPT !.stage = "production", !.assessed = TRUE, !.reviewed = day]
  <2>1. u \in System
    BY <1>1 DEF System, Stage
  <2>2. Downgraded(u, job[r].config) \in System
    BY <1>2, <2>1
  <2> QED  BY <1>1, <1>5, <2>2, FinishType DEF Promote
<1>6. ASSUME NEW stage \in Stage, NEW assessed \in BOOLEAN, NEW day \in 0..LastDay,
             Patch(r, stage, assessed, day)
      PROVE  TypeOK'
  <2> DEFINE u == [job[r].copy EXCEPT !.stage = stage, !.assessed = assessed, !.reviewed = day]
  <2>1. u \in System
    BY <1>1 DEF System
  <2>2. Downgraded(u, job[r].config) \in System
    BY <1>2, <2>1
  <2> QED  BY <1>1, <1>6, <2>2, FinishType DEF Patch
<1> QED
  BY <1>3, <1>4, <1>5, <1>6

(* One commit of something a gate reads. *)
LEMMA OtherType ==
    ASSUME TypeOK,
           \/ \E k \in Risk, level \in Level :
                 CreateRisk(k, level) \/ ChangeLevel(k, level) \/ DeleteRisk(k)
           \/ \E k \in Risk, status \in {"open", "closed"} : SetAction(k, status)
           \/ \E u \in User : Approve(u)
           \/ \E n \in 1..MaxRequired, age \in ReviewAges : Configure(n, age)
           \/ NextDay
    PROVE  TypeOK'
<1> USE DEF Other, Running
<1>1. ASSUME NEW k \in Risk, NEW level \in Level,
             CreateRisk(k, level) \/ ChangeLevel(k, level) \/ DeleteRisk(k)
      PROVE  TypeOK'
  <2> DEFINE Risks == [state : {"absent", "live", "deleted"}, level : Level, born : 1..LastDay]
  <2>1. PICK row \in Risks : SetRisk(k, row)
    <3>1. CASE CreateRisk(k, level)
      <4>1. [state |-> "live", level |-> level, born |-> today] \in Risks
        BY DEF TypeOK
      <4> QED  BY <3>1, <4>1 DEF CreateRisk
    <3>2. CASE ChangeLevel(k, level)
      <4>1. [risk[k] EXCEPT !.level = level] \in Risks
        BY DEF TypeOK
      <4> QED  BY <3>2, <4>1 DEF ChangeLevel
    <3>3. CASE DeleteRisk(k)
      <4>1. DeletedRisk \in Risks
        BY GateAssumption DEF DeletedRisk, Level
      <4> QED  BY <3>3, <4>1 DEF DeleteRisk
    <3> QED  BY <1>1, <3>1, <3>2, <3>3
  <2> QED  BY <2>1 DEF SetRisk, TypeOK
<1>2. ASSUME NEW k \in Risk, NEW status \in {"open", "closed"}, SetAction(k, status)
      PROVE  TypeOK'
  BY <1>2 DEF SetAction, TypeOK
<1>3. ASSUME NEW u \in User, Approve(u) PROVE TypeOK'
  <2>1. approvals' \in Seq(User) /\ Len(approvals') <= MaxApprovals
    BY <1>3, GateAssumption DEF Approve, TypeOK
  <2> QED  BY <1>3, <2>1 DEF Approve, TypeOK
<1>4. ASSUME NEW n \in 1..MaxRequired, NEW age \in ReviewAges, Configure(n, age)
      PROVE  TypeOK'
  BY <1>4 DEF Configure, TypeOK, Config
<1>5. CASE NextDay
  BY <1>5, GateAssumption DEF NextDay, TypeOK
<1> QED
  BY <1>1, <1>2, <1>3, <1>4, <1>5 DEF Level

LEMMA NextType == TypeOK /\ [Next]_vars => TypeOK'
<1> SUFFICES ASSUME TypeOK, [Next]_vars PROVE TypeOK'
  OBVIOUS
<1>1. ASSUME NEW r \in Request, Gate(r) PROVE TypeOK'
  <2>1. /\ DeployChecks \in Seq(Check)
        /\ PromoteChecks \in Seq(Check)
        /\ PatchChecks \in Seq(Check)
        /\ <<>> \in Seq(Check)
    BY DEF DeployChecks, PromoteChecks, PatchChecks, Check
  <2>2. ASSUME NEW u \in User, StartDeploy(r, u) PROVE TypeOK'
    BY <2>1, <2>2, StartType DEF StartDeploy
  <2>3. ASSUME NEW u \in User, StartPromote(r, u) PROVE TypeOK'
    BY <2>1, <2>3, StartType DEF StartPromote
  <2>4. CASE StartPatch(r)
    BY <2>1, <2>4, StartType DEF StartPatch
  <2>5. CASE StartArchive(r)
    BY <2>1, <2>5, StartType DEF StartArchive
  <2> QED  BY <1>1, <2>2, <2>3, <2>4, <2>5, SelectType, RefuseType, CommitType DEF Gate
<1>2. CASE UNCHANGED vars
  BY <1>2 DEF vars, TypeOK, Running
<1> QED
  BY <1>1, <1>2, OtherType DEF Next, Level

(***************************************************************************)
(* The rows of the gate, and the copies its handlers carry, stay well      *)
(* formed; a handler always judges a system that was live when it looked.  *)
(***************************************************************************)
THEOREM TypeCorrect == Spec => []TypeOK
BY InitType, NextType, PTL DEF Spec

-----------------------------------------------------------------------------
(* Four eyes. *)

(* Approvals are only ever added at the end. *)
LEMMA ApprovalsGrow ==
    ASSUME TypeOK, [Next]_vars
    PROVE  /\ approvals' \in Seq(User)
           /\ Len(approvals) <= Len(approvals')
           /\ \A i \in DOMAIN approvals : i \in DOMAIN approvals' /\ approvals'[i] = approvals[i]
<1>1. approvals' = approvals \/ \E u \in User : approvals' = Append(approvals, u)
  BY DEF Next, Gate, StartDeploy, StartPromote, StartPatch, StartArchive, Start, Select, Refuse,
         Deploy, Promote, Patch, Archive, Finish, CreateRisk, ChangeLevel, DeleteRisk, SetRisk,
         SetAction, Approve, Configure, NextDay, db, vars
<1>2. approvals \in Seq(User)
  BY DEF TypeOK
<1> QED
  BY <1>1, <1>2

(* What a deployment has seen stays true while others go on. *)
LEMMA SeenStays ==
    ASSUME TypeOK, [Next]_vars, NEW r \in Request, SeenApprovals(r), job'[r] = job[r]
    PROVE  SeenApprovals(r)'
BY ApprovalsGrow DEF SeenApprovals, TypeOK

(* A deployment's own SELECT: counting sees an approval because at least one is      *)
(* required, and the last check sees somebody else's.                                *)
LEMMA SeenSelect ==
    ASSUME TypeOK, NEW r \in Request, NEW assessed \in BOOLEAN, SeenApprovals(r),
           Select(r, assessed)
    PROVE  SeenApprovals(r)'
<1> SUFFICES ASSUME job[r].kind = "deploy" PROVE SeenApprovals(r)'
  BY DEF SeenApprovals, Select, Selected, TypeOK, Job, Idle
<1>1. /\ job'[r].kind = "deploy" /\ job'[r].by = job[r].by
      /\ job'[r].todo = Tail(job[r].todo)
      /\ approvals' = approvals /\ approvals \in Seq(User)
  BY DEF Select, Selected, TypeOK, Job, Idle, db
<1>2. job[r].todo \in DeployTodo /\ job[r].todo # <<>> /\ Passes(r, assessed)
  BY DEF SeenApprovals, Select
<1>3. CASE job[r].todo \in {DeployChecks, <<"risks", "actions", "config", "count", "last">>,
                           <<"actions", "config", "count", "last">>,
                           <<"config", "count", "last">>}
  <2>4. CASE job[r].todo = DeployChecks
    <3>1. job'[r].todo = <<"risks", "actions", "config", "count", "last">>
      BY <1>1, <2>4 DEF DeployChecks
    <3>2. /\ <<"risks", "actions", "config", "count", "last">> \notin {<<"last">>, <<>>}
          /\ <<"risks", "actions", "config", "count", "last">> \in DeployTodo
      BY DEF DeployTodo
    <3> QED  BY <3>1, <3>2 DEF SeenApprovals
  <2>1. CASE job[r].todo = <<"risks", "actions", "config", "count", "last">>
    <3>1. job'[r].todo = <<"actions", "config", "count", "last">>
      BY <1>1, <2>1
    <3>2. /\ <<"actions", "config", "count", "last">> \notin {<<"last">>, <<>>}
          /\ <<"actions", "config", "count", "last">> \in DeployTodo
      BY DEF DeployTodo
    <3> QED  BY <3>1, <3>2 DEF SeenApprovals
  <2>2. CASE job[r].todo = <<"actions", "config", "count", "last">>
    <3>1. job'[r].todo = <<"config", "count", "last">>
      BY <1>1, <2>2
    <3>2. /\ <<"config", "count", "last">> \notin {<<"last">>, <<>>}
          /\ <<"config", "count", "last">> \in DeployTodo
      BY DEF DeployTodo
    <3> QED  BY <3>1, <3>2 DEF SeenApprovals
  <2>3. CASE job[r].todo = <<"config", "count", "last">>
    <3>1. job'[r].todo = <<"count", "last">>
      BY <1>1, <2>3
    <3>2. <<"count", "last">> \notin {<<"last">>, <<>>} /\ <<"count", "last">> \in DeployTodo
      BY DEF DeployTodo
    <3> QED  BY <3>1, <3>2 DEF SeenApprovals
  <2> QED  BY <1>3, <2>1, <2>2, <2>3, <2>4
<1>4. CASE job[r].todo = <<"count", "last">>
  <2>1. Len(approvals) >= job[r].config.required
    BY <1>2, <1>4 DEF Passes
  <2>2. job[r].config.required \in Nat \ {0}
    BY GateAssumption DEF TypeOK, Job, Config, Idle, Select
  <2>3. approvals # <<>>
    BY <1>1, <2>1, <2>2
  <2>4. job'[r].todo = <<"last">>
    BY <1>1, <1>4
  <2>5. <<"last">> # <<>> /\ <<"last">> \in DeployTodo
    BY DEF DeployTodo
  <2> QED  BY <1>1, <2>3, <2>4, <2>5 DEF SeenApprovals
<1>5. CASE job[r].todo = <<"last">>
  <2>1. approvals # <<>> /\ ~SeparationBlocks(job[r].by, LastApprover)
    BY <1>2, <1>5 DEF Passes, SeenApprovals
  <2>2. Len(approvals) \in DOMAIN approvals /\ approvals[Len(approvals)] # job[r].by
    BY <1>1, <2>1 DEF SeparationBlocks, LastApprover
  <2>3. job'[r].todo = <<>>
    BY <1>1, <1>5
  <2>4. <<>> # <<"last">> /\ <<>> \in DeployTodo
    BY DEF DeployTodo
  <2> QED  BY <1>1, <2>2, <2>3, <2>4 DEF SeenApprovals
<1> QED
  BY <1>2, <1>3, <1>4, <1>5 DEF DeployTodo

LEMMA InitSeen == Init => \A r \in Request : SeenApprovals(r)
BY DEF Init, SeenApprovals, Idle

LEMMA NextSeen == IInv /\ [Next]_vars => (\A r \in Request : SeenApprovals(r))'
<1> SUFFICES ASSUME IInv, [Next]_vars, NEW r \in Request PROVE SeenApprovals(r)'
  OBVIOUS
<1> USE DEF IInv
<1>1. CASE job'[r] = job[r]
  BY <1>1, SeenStays
<1>2. CASE job'[r] # job[r]
  <2>1. Gate(r)
    <3>1. PICK q \in Request : Gate(q)
      BY <1>2 DEF Next, CreateRisk, ChangeLevel, DeleteRisk, SetRisk, SetAction, Approve,
                  Configure, NextDay, Other, vars
    <3>2. \E j : job' = [job EXCEPT ![q] = j]
      BY <3>1 DEF Gate, StartDeploy, StartPromote, StartPatch, StartArchive, Start, Select,
                  Refuse, Deploy, Promote, Patch, Archive, Finish, Leave
    <3> QED  BY <1>2, <3>1, <3>2 DEF TypeOK
  <2>2. ASSUME NEW u \in User, StartDeploy(r, u) PROVE SeenApprovals(r)'
    <3>1. job'[r].todo = DeployChecks
      BY <2>2 DEF StartDeploy, Start, GateJob, TypeOK
    <3>2. DeployChecks # <<"last">> /\ DeployChecks # <<>> /\ DeployChecks \in DeployTodo
      BY DEF DeployChecks, DeployTodo
    <3> QED  BY <3>1, <3>2 DEF SeenApprovals
  <2>3. ASSUME NEW assessed \in BOOLEAN, Select(r, assessed) PROVE SeenApprovals(r)'
    BY <2>3, SeenSelect
  <2>4. ASSUME job'[r].kind # "deploy" PROVE SeenApprovals(r)'
    BY <2>4 DEF SeenApprovals
  <2>5. ASSUME (\E u \in User : StartPromote(r, u)) \/ StartPatch(r) \/ StartArchive(r)
        PROVE  job'[r].kind # "deploy"
    BY <2>5 DEF StartPromote, StartPatch, StartArchive, Start, GateJob, TypeOK
  <2>6. ASSUME job'[r] = Idle PROVE job'[r].kind # "deploy"
    BY <2>6 DEF Idle
  <2>7. ASSUME NEW assessed \in BOOLEAN, Refuse(r, assessed) PROVE job'[r] = Idle
    BY <2>7 DEF Refuse, Leave, TypeOK
  <2>8. ASSUME Finish(r) PROVE job'[r] = Idle
    BY <2>8 DEF Finish, Leave, TypeOK
  <2> QED
    BY <2>1, <2>2, <2>3, <2>4, <2>5, <2>6, <2>7, <2>8
    DEF Gate, Deploy, Archive, Promote, Patch, StartPatch, StartArchive
<1> QED
  BY <1>1, <1>2

(***************************************************************************)
(* However approvals, configuration, risks and other requests change under *)
(* it, POST /ai-systems/{id}/deploy never commits "production" when nobody *)
(* but the deployer has approved: the count and the last-approver check    *)
(* need no lock.                                                           *)
(***************************************************************************)
THEOREM FourEyes == Spec => DeployIsFourEyes
<1>1. Init => IInv
  BY InitType, InitSeen DEF IInv
<1>2. IInv /\ [Next]_vars => IInv'
  BY NextType, NextSeen DEF IInv
<1>3. IInv /\ [Next]_vars =>
        [\A r \in Request : Deploy(r) => \E i \in DOMAIN approvals : approvals[i] # job[r].by]_vars
  BY DEF IInv, SeenApprovals, Deploy, Allowed
<1> QED
  BY <1>1, <1>2, <1>3, PTL DEF Spec, DeployIsFourEyes

-----------------------------------------------------------------------------
(* Archiving. *)

(* A commit that leaves is_deleted as it was loaded does not write it. *)
LEMMA WriteKeepsDeleted ==
    ASSUME TypeOK, NEW r \in Request, NEW new \in System, Write(r, new),
           new.deleted = job[r].copy.deleted
    PROVE  system'.deleted = system.deleted
BY DEF Write, TypeOK, System

(***************************************************************************)
(* Once a system is archived, no handler that loaded it before brings it   *)
(* back: the commit writes only the attributes the handler has changed.    *)
(***************************************************************************)
THEOREM ArchivedStays == Spec => ArchivedForGood
<1>1. TypeOK /\ [Next]_vars => [system.deleted => system'.deleted]_vars
  <2> SUFFICES ASSUME TypeOK, Next, system.deleted PROVE system'.deleted
    BY DEF vars
  <2>1. CASE UNCHANGED system
    BY <2>1
  <2>2. ASSUME NEW r \in Request, NEW new \in System, Write(r, new), job[r] # Idle,
               new.deleted = job[r].copy.deleted
        PROVE  system'.deleted
    BY <2>2, WriteKeepsDeleted
  <2>3. ASSUME NEW r \in Request, job[r] # Idle PROVE job[r].copy \in System
    BY <2>3 DEF TypeOK, Job
  <2>4. ASSUME NEW r \in Request, Deploy(r) PROVE system'.deleted
    <3>1. /\ [job[r].copy EXCEPT !.stage = "production"] \in System
          /\ [job[r].copy EXCEPT !.stage = "production"].deleted = job[r].copy.deleted
      BY <2>3, <2>4 DEF System, Stage, Deploy, Allowed
    <3> QED  BY <2>2, <2>4, <3>1 DEF Deploy, Allowed
  <2>5. ASSUME NEW u \in System, NEW config
        PROVE  Downgraded(u, config) \in System /\ Downgraded(u, config).deleted = u.deleted
    BY DEF Downgraded, System, Stage
  <2>6. ASSUME NEW r \in Request, NEW day \in 0..LastDay, Promote(r, day) PROVE system'.deleted
    <3> DEFINE u == [job[r].copy EXCEPT !.stage = "production", !.assessed = TRUE,
                                        !.reviewed = day]
    <3>1. u \in System /\ u.deleted = job[r].copy.deleted
      BY <2>3, <2>6 DEF System, Stage, Promote, Allowed
    <3>2. /\ Downgraded(u, job[r].config) \in System
          /\ Downgraded(u, job[r].config).deleted = job[r].copy.deleted
      BY <2>5, <3>1
    <3> QED  BY <2>2, <2>6, <3>2 DEF Promote, Allowed
  <2>7. ASSUME NEW r \in Request, NEW stage \in Stage, NEW assessed \in BOOLEAN,
               NEW day \in 0..LastDay, Patch(r, stage, assessed, day)
        PROVE  system'.deleted
    <3> DEFINE u == [job[r].copy EXCEPT !.stage = stage, !.assessed = assessed, !.reviewed = day]
    <3>1. u \in System /\ u.deleted = job[r].copy.deleted
      BY <2>3, <2>7 DEF System, Patch, Allowed
    <3>2. /\ Downgraded(u, job[r].config) \in System
          /\ Downgraded(u, job[r].config).deleted = job[r].copy.deleted
      BY <2>5, <3>1
    <3> QED  BY <2>2, <2>7, <3>2 DEF Patch, Allowed
  <2>8. ASSUME NEW r \in Request, Archive(r) PROVE system'.deleted
    <3> DEFINE new == [job[r].copy EXCEPT !.deleted = TRUE, !.stage = "other"]
    <3>1. job[r].copy \in System /\ ~job[r].copy.deleted
      BY <2>3, <2>8 DEF Archive, Allowed, TypeOK
    <3>2. new.deleted /\ "deleted" \in DOMAIN system
      BY <3>1 DEF System, TypeOK
    <3>3. Write(r, new)
      BY <2>8 DEF Archive
    <3> HIDE DEF new
    <3> QED  BY <3>1, <3>2, <3>3 DEF Write
  <2>9. ASSUME NEW r \in Request, Gate(r), ~UNCHANGED system PROVE system'.deleted
    BY <2>4, <2>6, <2>7, <2>8, <2>9
    DEF Gate, StartDeploy, StartPromote, StartPatch, StartArchive, Start, Select, Refuse, db
  <2>10. CASE ~\E r \in Request : Gate(r)
    <3>1. Other
      BY <2>10 DEF Next, CreateRisk, ChangeLevel, DeleteRisk, SetRisk, SetAction, Approve,
                   Configure, NextDay
    <3> QED  BY <2>1, <3>1 DEF Other
  <2> QED
    BY <2>1, <2>9, <2>10
<1> QED
  BY <1>1, InitType, NextType, PTL DEF Spec, ArchivedForGood

-----------------------------------------------------------------------------
(* A handler nobody disturbs. *)

PromoteTodo ==
    {PromoteChecks, <<"risks", "last", "actions", "config", "count">>,
     <<"last", "actions", "config", "count">>, <<"actions", "config", "count">>,
     <<"config", "count">>, <<"count">>, <<>>}

\* The SELECTs still to come.
Left(q) == {q[i] : i \in DOMAIN q}

\* What a SELECT that let the handler through has established.
Holds(j, s) ==
    /\ s = "risks" => j.found = HighRisks
    /\ s = "actions" => /\ \A k \in HighRisks : k \in closed /\ ~Aged(k)
                        /\ j.kind = "deploy" => j.copy.assessed
    /\ s = "config" => j.config = org
    /\ s = "count" => Len(approvals) >= org.required
    /\ s = "last" => ~SeparationBlocks(j.by, LastApprover)
    /\ s = "admission" => Admitted(j, j.copy)

\* A handler under which nothing has changed knows the rows as they are.
Current(r) ==
    LET j == job[r] IN
    j # Idle /\ r \notin disturbed =>
        /\ j.copy = system
        /\ j.kind = "deploy" => j.todo \in DeployTodo
        /\ j.kind = "promote" => j.todo \in PromoteTodo
        /\ j.kind = "patch" => j.todo \in {PatchChecks, <<>>}
        /\ j.kind = "archive" => j.todo = <<>>
        /\ j.kind \in {"deploy", "promote"} => \A s \in Check \ Left(j.todo) : Holds(j, s)
        /\ j.kind \in {"promote", "patch"} /\ "config" \notin Left(j.todo) => j.config = org

GateInv == TypeOK /\ \A r \in Request : Current(r)

LEMMA LeftTail ==
    ASSUME NEW q \in Seq(Check), q # <<>>
    PROVE  \A s : s \notin Left(Tail(q)) => s = Head(q) \/ s \notin Left(q)
<1> SUFFICES ASSUME NEW i \in DOMAIN q, i # 1 PROVE q[i] \in Left(Tail(q))
  BY DEF Left
<1>1. i - 1 \in DOMAIN Tail(q) /\ Tail(q)[i - 1] = q[i]
  OBVIOUS
<1> QED  BY <1>1 DEF Left

\* The lists are in an order in which what a check compares has been read before it.
LEMMA TodoOrder ==
    ASSUME NEW q \in DeployTodo \union PromoteTodo, q # <<>>
    PROVE  /\ q \in Seq(Check) /\ Head(q) \in Check
           /\ q \in DeployTodo => Tail(q) \in DeployTodo
           /\ q \in PromoteTodo => Tail(q) \in PromoteTodo
           /\ Head(q) = "actions" => "risks" \notin Left(q)
           /\ Head(q) = "count" => "config" \notin Left(q)
<1>1. CASE q = DeployChecks
  BY <1>1 DEF DeployChecks, DeployTodo, PromoteTodo, PromoteChecks, Check, Left
<1>2. CASE q = PromoteChecks
  BY <1>2 DEF DeployChecks, DeployTodo, PromoteTodo, PromoteChecks, Check, Left
<1>11. CASE q = <<"risks", "actions", "config", "count", "last">>
  BY <1>11 DEF DeployChecks, DeployTodo, PromoteTodo, PromoteChecks, Check, Left
<1>12. CASE q = <<"risks", "last", "actions", "config", "count">>
  BY <1>12 DEF DeployChecks, DeployTodo, PromoteTodo, PromoteChecks, Check, Left
<1>3. CASE q = <<"actions", "config", "count", "last">>
  BY <1>3 DEF DeployChecks, DeployTodo, PromoteTodo, PromoteChecks, Check, Left
<1>4. CASE q = <<"config", "count", "last">>
  BY <1>4 DEF DeployChecks, DeployTodo, PromoteTodo, PromoteChecks, Check, Left
<1>5. CASE q = <<"count", "last">>
  BY <1>5 DEF DeployChecks, DeployTodo, PromoteTodo, PromoteChecks, Check, Left
<1>6. CASE q = <<"last">>
  BY <1>6 DEF DeployChecks, DeployTodo, PromoteTodo, PromoteChecks, Check, Left
<1>7. CASE q = <<"last", "actions", "config", "count">>
  BY <1>7 DEF DeployChecks, DeployTodo, PromoteTodo, PromoteChecks, Check, Left
<1>8. CASE q = <<"actions", "config", "count">>
  BY <1>8 DEF DeployChecks, DeployTodo, PromoteTodo, PromoteChecks, Check, Left
<1>9. CASE q = <<"config", "count">>
  BY <1>9 DEF DeployChecks, DeployTodo, PromoteTodo, PromoteChecks, Check, Left
<1>10. CASE q = <<"count">>
  BY <1>10 DEF DeployChecks, DeployTodo, PromoteTodo, PromoteChecks, Check, Left
<1> QED
  BY <1>1, <1>2, <1>3, <1>4, <1>5, <1>6, <1>7, <1>8, <1>9, <1>10, <1>11, <1>12
     DEF DeployTodo, PromoteTodo

(* Whatever is committed marks every handler that is still running. *)
LEMMA Undisturbed ==
    ASSUME TypeOK, [Next]_vars, NEW r \in Request, job[r] # Idle, job'[r] = job[r], r \notin disturbed'
    PROVE  UNCHANGED db /\ r \notin disturbed
<1>1. r \in Running
  BY DEF Running
<1>2. CASE UNCHANGED vars
  BY <1>2 DEF vars, db
<1>3. ASSUME NEW q \in Request, Gate(q) PROVE UNCHANGED db /\ r \notin disturbed
  <2>1. ASSUME NEW j, Start(q, j) PROVE UNCHANGED db /\ r \notin disturbed
    BY <2>1 DEF Start, db
  <2>2. ASSUME NEW a \in BOOLEAN, Select(q, a) PROVE UNCHANGED db /\ r \notin disturbed
    BY <2>2 DEF Select, db
  <2>3. ASSUME job'[q] = Idle PROVE q # r
    BY <2>3
  <2>4. ASSUME NEW a \in BOOLEAN, Refuse(q, a) PROVE UNCHANGED db /\ r \notin disturbed
    <3>1. job'[q] = Idle
      BY <2>4 DEF Refuse, Leave, TypeOK
    <3> QED  BY <2>3, <2>4, <3>1 DEF Refuse
  <2>5. ASSUME Finish(q) PROVE FALSE
    <3>1. job'[q] = Idle /\ disturbed' = (disturbed \union Running) \ {q}
      BY <2>5 DEF Finish, Leave, TypeOK
    <3> QED  BY <1>1, <2>3, <3>1
  <2> QED
    BY <1>3, <2>1, <2>2, <2>4, <2>5
    DEF Gate, StartDeploy, StartPromote, StartPatch, StartArchive, Deploy, Archive, Promote, Patch
<1>4. CASE Other
  BY <1>1, <1>4 DEF Other
<1> QED
  BY <1>2, <1>3, <1>4
  DEF Next, CreateRisk, ChangeLevel, DeleteRisk, SetRisk, SetAction, Approve, Configure, NextDay

LEMMA CurrentStays ==
    ASSUME GateInv, [Next]_vars, NEW r \in Request, job'[r] = job[r]
    PROVE  Current(r)'
<1> SUFFICES ASSUME job[r] # Idle, r \notin disturbed' PROVE Current(r)'
  BY DEF Current
<1>1. UNCHANGED db /\ r \notin disturbed
  BY Undisturbed DEF GateInv
<1>2. UNCHANGED <<system, risk, closed, approvals, org, today>>
  BY <1>1 DEF db
<1>3. Current(r)
  BY DEF GateInv
<1>4. \A s : Holds(job[r], s)' = Holds(job[r], s)
  BY <1>2 DEF Holds, HighRisks, IsHigh, Aged, SeparationBlocks, LastApprover
<1> QED  BY <1>1, <1>2, <1>3, <1>4 DEF Current

LEMMA CurrentStart ==
    ASSUME GateInv, NEW r \in Request,
           \/ \E u \in User : StartDeploy(r, u) \/ StartPromote(r, u)
           \/ StartPatch(r) \/ StartArchive(r)
    PROVE  Current(r)'
<1> PICK j : j = job'[r]
  OBVIOUS
<1>1. \E kind, u, selects :
         /\ j = GateJob(kind, u, selects) /\ system' = system
         /\ <<kind, selects>> \in {<<"deploy", DeployChecks>>, <<"promote", PromoteChecks>>,
                                  <<"patch", PatchChecks>>, <<"archive", <<>> >>}
  BY DEF GateInv, TypeOK, StartDeploy, StartPromote, StartPatch, StartArchive, Start, db
<1>2. j.copy = system'
  BY <1>1 DEF GateJob
<1>3. \/ j.kind = "deploy" /\ j.todo = DeployChecks
      \/ j.kind = "promote" /\ j.todo = PromoteChecks
      \/ j.kind = "patch" /\ j.todo = PatchChecks
      \/ j.kind = "archive" /\ j.todo = <<>>
  BY <1>1 DEF GateJob
<1>4. Check \subseteq Left(DeployChecks) /\ Check \subseteq Left(PromoteChecks)
  <2>1. /\ DeployChecks[1] = "admission" /\ DeployChecks[2] = "risks"
        /\ DeployChecks[3] = "actions" /\ DeployChecks[4] = "config"
        /\ DeployChecks[5] = "count" /\ DeployChecks[6] = "last" /\ DOMAIN DeployChecks = 1..6
    BY DEF DeployChecks
  <2>2. /\ PromoteChecks[1] = "admission" /\ PromoteChecks[2] = "risks"
        /\ PromoteChecks[3] = "last" /\ PromoteChecks[4] = "actions"
        /\ PromoteChecks[5] = "config" /\ PromoteChecks[6] = "count" /\ DOMAIN PromoteChecks = 1..6
    BY DEF PromoteChecks
  <2> QED  BY <2>1, <2>2 DEF Left, Check
<1>5. "config" \in Left(PatchChecks)
  <2>1. PatchChecks[1] = "config" /\ 1 \in DOMAIN PatchChecks
    BY DEF PatchChecks
  <2> QED  BY <2>1 DEF Left
<1>6. DeployChecks \in DeployTodo /\ PromoteChecks \in PromoteTodo
  BY DEF DeployTodo, PromoteTodo
<1>7. "config" \in Check
  BY DEF Check
<1>8. \A s \in Check : s \in Left(j.todo) \/ j.kind \notin {"deploy", "promote"}
  BY <1>3, <1>4
<1>9. /\ j.kind \in {"promote", "patch"} => "config" \in Left(j.todo)
      /\ j.kind = "deploy" => j.todo \in DeployTodo
      /\ j.kind = "promote" => j.todo \in PromoteTodo
  BY <1>3, <1>4, <1>5, <1>6, <1>7
<1>10. /\ j.kind = "patch" => j.todo \in {PatchChecks, <<>>}
       /\ j.kind = "archive" => j.todo = <<>>
  BY <1>3
<1> QED  BY <1>2, <1>8, <1>9, <1>10 DEF Current

LEMMA CurrentSelect ==
    ASSUME GateInv, NEW r \in Request, NEW assessed \in BOOLEAN, Select(r, assessed)
    PROVE  Current(r)'
<1> DEFINE j == job[r]
<1> SUFFICES ASSUME r \notin disturbed PROVE Current(r)'
  BY DEF Current, Select
<1>1. /\ j # Idle /\ j.todo # <<>> /\ assessed \in Assessed(r) /\ Passes(r, assessed)
      /\ UNCHANGED <<system, risk, closed, approvals, org, today>> /\ disturbed' = disturbed
  BY DEF Select, db
<1>2. PICK n : n = Selected(j)
  OBVIOUS
<1>3. /\ job'[r] = n /\ n.kind = j.kind /\ n.by = j.by /\ n.copy = j.copy /\ n.todo = Tail(j.todo)
      /\ n.found = (IF Head(j.todo) = "risks" THEN HighRisks ELSE j.found)
      /\ n.config = (IF Head(j.todo) = "config" THEN org ELSE j.config)
      /\ j.todo \in Seq(Check)
  BY <1>1, <1>2 DEF Select, Selected, GateInv, TypeOK, Job, Idle, Check
<1>4. /\ j.copy = system
      /\ j.kind = "deploy" => j.todo \in DeployTodo
      /\ j.kind = "promote" => j.todo \in PromoteTodo
      /\ j.kind = "patch" => j.todo \in {PatchChecks, <<>>}
      /\ j.kind = "archive" => j.todo = <<>>
      /\ j.kind \in {"deploy", "promote"} => \A s \in Check \ Left(j.todo) : Holds(j, s)
      /\ j.kind \in {"promote", "patch"} /\ "config" \notin Left(j.todo) => j.config = org
  BY <1>1 DEF GateInv, Current
<1> HIDE DEF j
<1>5. \A s : s \notin Left(n.todo) => s = Head(j.todo) \/ s \notin Left(j.todo)
  BY <1>1, <1>3, LeftTail
<1>6. \A s : Holds(n, s)' <=> Holds(n, s)
  BY <1>1 DEF Holds, HighRisks, IsHigh, Aged, SeparationBlocks, LastApprover
<1>7. ASSUME j.kind \in {"deploy", "promote"}
      PROVE  /\ n.kind = "deploy" => n.todo \in DeployTodo
             /\ n.kind = "promote" => n.todo \in PromoteTodo
             /\ \A s \in Check \ Left(n.todo) : Holds(n, s)
  <2>1. /\ Head(j.todo) \in Check
        /\ j.todo \in DeployTodo => Tail(j.todo) \in DeployTodo
        /\ j.todo \in PromoteTodo => Tail(j.todo) \in PromoteTodo
        /\ Head(j.todo) = "actions" => "risks" \notin Left(j.todo)
        /\ Head(j.todo) = "count" => "config" \notin Left(j.todo)
    BY <1>1, <1>4, <1>7, TodoOrder
  <2>2. ASSUME NEW s \in Check \ Left(j.todo) PROVE Holds(n, s)
    BY <1>3, <1>4, <1>7, <2>2 DEF Holds, Admitted
  <2>3. Holds(n, Head(j.todo))
    <3>1. CASE Head(j.todo) = "actions"
      <4>1. j.found = HighRisks
        BY <1>4, <1>7, <2>1, <3>1 DEF Holds, Check
      <4>2. (\A k \in j.found : k \in closed /\ ~Aged(k)) /\ assessed
        BY <1>1, <3>1 DEF Passes, j
      <4>3. j.kind = "deploy" => assessed = j.copy.assessed
        BY <1>1 DEF Assessed, j
      <4> QED  BY <1>3, <3>1, <4>1, <4>2, <4>3 DEF Holds
    <3>2. CASE Head(j.todo) = "count"
      <4>1. j.config = org
        BY <1>4, <1>7, <2>1, <3>2 DEF Holds, Check
      <4>2. Len(approvals) >= j.config.required
        BY <1>1, <3>2 DEF Passes, j
      <4> QED  BY <3>2, <4>1, <4>2 DEF Holds
    <3>3. CASE Head(j.todo) = "last"
      <4>1. ~SeparationBlocks(j.by, LastApprover)
        BY <1>1, <3>3 DEF Passes, j
      <4> QED  BY <1>3, <3>3, <4>1 DEF Holds
    <3>4. CASE Head(j.todo) \in {"risks", "config"}
      BY <1>3, <3>4 DEF Holds
    <3>5. CASE Head(j.todo) = "admission"
      <4>1. Admitted(j, j.copy)
        BY <1>1, <3>5 DEF Passes, j
      <4> QED  BY <1>3, <3>5, <4>1 DEF Holds, Admitted
    <3> QED  BY <2>1, <3>1, <3>2, <3>3, <3>4, <3>5 DEF Check
  <2> QED  BY <1>3, <1>4, <1>5, <1>7, <2>1, <2>2, <2>3
<1>8. n.kind \in {"promote", "patch"} /\ "config" \notin Left(n.todo) => n.config = org
  BY <1>3, <1>4, <1>5
<1>9. /\ n.kind = "patch" => n.todo \in {PatchChecks, <<>>}
      /\ n.kind # "archive"
  <2>1. Tail(PatchChecks) = <<>>
    BY DEF PatchChecks
  <2> QED  BY <1>1, <1>3, <1>4, <2>1
<1> QED  BY <1>1, <1>3, <1>4, <1>6, <1>7, <1>8, <1>9 DEF Current

LEMMA NextCurrent == GateInv /\ [Next]_vars => (\A r \in Request : Current(r))'
<1> SUFFICES ASSUME GateInv, [Next]_vars, NEW r \in Request, job'[r] # Idle PROVE Current(r)'
  BY DEF Current
<1>1. CASE job'[r] = job[r]
  BY <1>1, CurrentStays
<1>2. CASE job'[r] # job[r]
  <2>1. PICK q \in Request : Gate(q)
    BY <1>2 DEF Next, CreateRisk, ChangeLevel, DeleteRisk, SetRisk, SetAction, Approve, Configure,
                NextDay, Other, vars
  <2>2. \E j : job' = [job EXCEPT ![q] = j]
    BY <2>1 DEF Gate, StartDeploy, StartPromote, StartPatch, StartArchive, Start, Select,
                Refuse, Deploy, Promote, Patch, Archive, Finish, Leave
  <2>3. q = r
    BY <1>2, <2>2 DEF GateInv, TypeOK
  <2>4. ASSUME Leave(r) PROVE FALSE
    BY <2>4 DEF Leave, GateInv, TypeOK
  <2> QED
    BY <2>1, <2>3, <2>4, CurrentStart, CurrentSelect
    DEF Gate, Refuse, Deploy, Promote, Patch, Archive, Finish
<1> QED  BY <1>1, <1>2

LEMMA GateInvariance == Spec => []GateInv
<1>1. Init => GateInv
  BY InitType DEF Init, GateInv, Current
<1>2. GateInv /\ [Next]_vars => GateInv'
  BY NextType, NextCurrent DEF GateInv
<1> QED  BY <1>1, <1>2, PTL DEF Spec

(***************************************************************************)
(* Deploy, PATCH and readiness check keep one rule: a request under which  *)
(* nothing changes goes through exactly when its role, and at deploy the   *)
(* stage, admits it and the readiness check says yes with the newest       *)
(* approval as its last row, although each handler asks in an order of its *)
(* own.                                                                    *)
(***************************************************************************)
THEOREM GatesAgree == Spec => OneGate
<1>1. ASSUME GateInv, NEW r \in Request \ disturbed
      PROVE  /\ Deploy(r) => Open(r, system.assessed)
             /\ \A day \in 0..LastDay : Promote(r, day) => Open(r, TRUE)
             /\ \A assessed \in BOOLEAN : Refuse(r, assessed) => ~Open(r, assessed)
  <2>1. Current(r)
    BY <1>1 DEF GateInv
  <2>2. ASSUME job[r] # Idle, job[r].kind \in {"deploy", "promote"}, job[r].todo = <<>>
        PROVE  Open(r, TRUE) /\ (job[r].kind = "deploy" => system.assessed)
    <3>1. Left(job[r].todo) = {}
      BY <2>2 DEF Left
    <3>2. job[r].copy = system /\ \A s \in Check : Holds(job[r], s)
      BY <1>1, <2>1, <2>2, <3>1 DEF Current
    <3> QED  BY <3>2 DEF Holds, Check, Ready, Open
  <2>3. Deploy(r) => Open(r, system.assessed)
    BY <2>2 DEF Deploy, Allowed, Ready, Open
  <2>4. \A day \in 0..LastDay : Promote(r, day) => Open(r, TRUE)
    BY <2>2 DEF Promote, Allowed
  <2>5. ASSUME NEW assessed \in BOOLEAN, Refuse(r, assessed) PROVE ~Open(r, assessed)
    <3>1. job[r] # Idle /\ job[r].todo # <<>> /\ ~Passes(r, assessed)
      BY <2>5 DEF Refuse
    <3>2. CASE job[r].kind \in {"deploy", "promote"}
      <4>1. job[r].todo \in DeployTodo \union PromoteTodo
        BY <1>1, <2>1, <3>1, <3>2 DEF Current
      <4>2. /\ Head(job[r].todo) \in Check
            /\ Head(job[r].todo) = "actions" => "risks" \notin Left(job[r].todo)
            /\ Head(job[r].todo) = "count" => "config" \notin Left(job[r].todo)
        BY <3>1, <4>1, TodoOrder
      <4>3. /\ Head(job[r].todo) = "actions" => job[r].found = HighRisks
            /\ Head(job[r].todo) = "count" => job[r].config = org
        BY <1>1, <2>1, <3>1, <3>2, <4>2 DEF Current, Holds, Check
      <4>4. CASE Head(job[r].todo) = "actions"
        BY <3>1, <4>3, <4>4 DEF Passes, Ready, Open
      <4>5. CASE Head(job[r].todo) = "count"
        BY <3>1, <4>3, <4>5 DEF Passes, Ready, Open
      <4>6. CASE Head(job[r].todo) = "last"
        BY <3>1, <4>6 DEF Passes, Ready, Open
      <4>7. CASE Head(job[r].todo) \in {"risks", "config"}
        BY <3>1, <4>7 DEF Passes
      <4>8. CASE Head(job[r].todo) = "admission"
        <5>1. job[r].copy = system
          BY <1>1, <2>1, <3>1 DEF Current
        <5> QED  BY <3>1, <4>8, <5>1 DEF Passes, Open
      <4> QED  BY <4>2, <4>4, <4>5, <4>6, <4>7, <4>8 DEF Check
    <3>3. CASE job[r].kind \notin {"deploy", "promote"}
      <4>1. job[r].kind = "patch" /\ job[r].todo = PatchChecks
        BY <1>1, <2>1, <3>1, <3>3 DEF Current, GateInv, TypeOK, Job
      <4>2. Head(job[r].todo) = "config"
        BY <4>1 DEF PatchChecks
      <4> QED  BY <3>1, <4>2 DEF Passes
    <3> QED  BY <3>2, <3>3
  <2> QED  BY <2>3, <2>4, <2>5
<1>2. GateInv /\ [Next]_vars =>
        [\A r \in Request \ disturbed :
            /\ Deploy(r) => Open(r, system.assessed)
            /\ \A day \in 0..LastDay : Promote(r, day) => Open(r, TRUE)
            /\ \A assessed \in BOOLEAN : Refuse(r, assessed) => ~Open(r, assessed)]_vars
  BY <1>1
<1> QED  BY <1>2, GateInvariance, PTL DEF Spec, OneGate

(***************************************************************************)
(* PATCH never leaves a system in production whose review has expired when *)
(* nothing changed meanwhile: the handler's last word is about the row it  *)
(* writes and the limit it has read.                                       *)
(***************************************************************************)
THEOREM ExpiredRestricted == Spec => ExpiredReviewRestricts
<1>1. ASSUME GateInv, NEW r \in Request \ disturbed, PatchCommits(r)
      PROVE  ~(system'.stage = "production" /\ Expired(system'.reviewed, org))
  <2>1. PICK u \in System : Write(r, Downgraded(u, job[r].config))
    <3>1. job[r] # Idle /\ job[r].copy \in System
      BY <1>1 DEF GateInv, TypeOK, Job, PatchCommits, Promote, Patch, Allowed
    <3>2. ASSUME NEW stage \in Stage, NEW assessed \in BOOLEAN, NEW day \in 0..LastDay
          PROVE  [job[r].copy EXCEPT !.stage = stage, !.assessed = assessed, !.reviewed = day] \in System
      BY <3>1 DEF System
    <3>3. ASSUME NEW day \in 0..LastDay, Promote(r, day)
          PROVE  \E u \in System : Write(r, Downgraded(u, job[r].config))
      <4>1. [job[r].copy EXCEPT !.stage = "production", !.assessed = TRUE, !.reviewed = day] \in System
        BY <3>2 DEF Stage
      <4> QED  BY <3>3, <4>1 DEF Promote
    <3>4. ASSUME NEW stage \in Stage, NEW assessed \in BOOLEAN, NEW day \in 0..LastDay,
                 Patch(r, stage, assessed, day)
          PROVE  \E u \in System : Write(r, Downgraded(u, job[r].config))
      BY <3>2, <3>4 DEF Patch
    <3> QED  BY <1>1, <3>3, <3>4 DEF PatchCommits
  <2>2. job[r].copy = system /\ job[r].config = org
    <3>1. job[r] # Idle /\ job[r].kind \in {"promote", "patch"} /\ job[r].todo = <<>>
      BY <1>1 DEF PatchCommits, Promote, Patch, Allowed
    <3>2. "config" \notin Left(job[r].todo)
      BY <3>1 DEF Left
    <3> QED  BY <1>1, <3>1, <3>2 DEF GateInv, Current
  <2>3. PICK v \in System : v = Downgraded(u, org) /\ ~(v.stage = "production" /\ Expired(v.reviewed, org))
    <3>1. CASE Expired(u.reviewed, org)
      <4>1. [u EXCEPT !.stage = "restricted"] \in System /\ [u EXCEPT !.stage = "restricted"].stage = "restricted"
        BY DEF System, Stage
      <4> QED  BY <3>1, <4>1 DEF Downgraded
    <3>2. CASE ~Expired(u.reviewed, org)
      BY <3>2 DEF Downgraded
    <3> QED  BY <3>1, <3>2
  <2>4. system'.stage = v.stage /\ system'.reviewed = v.reviewed
    BY <1>1, <2>1, <2>2, <2>3 DEF Write, GateInv, TypeOK, System
  <2> QED  BY <2>3, <2>4
<1>2. GateInv /\ [Next]_vars =>
        [\A r \in Request \ disturbed :
            PatchCommits(r) => ~(system'.stage = "production" /\ Expired(system'.reviewed, org))]_vars
  BY <1>1
<1> QED  BY <1>2, GateInvariance, PTL DEF Spec, ExpiredReviewRestricts
=============================================================================
