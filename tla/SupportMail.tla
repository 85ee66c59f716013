---------------------------- MODULE SupportMail ----------------------------
(***************************************************************************)
(* A customer's support request and the mail that tells headquarters about *)
(* it: POST /support-requests (app/api/support_requests.py), the task that *)
(* mails after the answer (app/services/support_mail.py), the status that  *)
(* headquarters sets (app/api/ops_support.py), and the script that tries   *)
(* again (scripts/resend_support_notifications.py).                        *)
(*                                                                         *)
(* Nobody locks a row.  A mail leaves before its outcome is committed; the *)
(* commit writes the attributes that differ from the loaded ones.  The     *)
(* limits on requests per hour and day are left out: any request may come. *)
(***************************************************************************)
EXTENDS Integers

CONSTANTS
    Id,             \* ids of support requests, given out in order
    Script,         \* runs of the resend script
    Employee,       \* headquarters' status changes under way
    MaxMails        \* bound: mails one request's attempts hand to the mail service

ASSUME SupportAssumption ==
    /\ Id \subseteq Nat \ {0}
    /\ Id \intersect Script = {}
    /\ MaxMails \in Nat \ {0}

VARIABLES
    row,            \* id -> the row in support_requests
    job,            \* who mails -> what it is doing
    change,         \* employee -> the status change it is about to commit
    configured,     \* does the API process have its mail settings?
    mails,          \* id -> mails that arrived
    dropped,        \* history: requests whose own task died
    uncertain,      \* history: requests whose mail arrived without being recorded as sent
    overlapped      \* history: have two runs of the script ever overlapped?

vars == <<row, job, change, configured, mails, dropped, uncertain, overlapped>>

\* "new" stands for in progress as well.
Status == {"new", "done"}
Notify == {"pending", "sent", "failed", "skipped_no_config"}

\* Who mails: request i's own background task is named i.
Worker == Id \union Script

None == 0           \* NULL in notified_at

Absent == [status |-> "new", notify |-> "absent", notified |-> None]
NewRow == [status |-> "new", notify |-> "pending", notified |-> None]

Idle == [at |-> "idle"]

Current(w) == job[w].current

\* Variant: rows whose own task has not finished are taken as well.
RetryPendingToo == {"failed", "skipped_no_config", "pending"}

\* Variant: every row is taken again.
RetryAll == {"failed", "skipped_no_config", "sent"}

RETRY_STATUSES == {"failed", "skipped_no_config"}

Candidates == {i \in Id : row[i].notify \in RETRY_STATUSES}

Oldest(i, ids) == i \in ids /\ \A k \in ids : i <= k

-----------------------------------------------------------------------------
Init ==
    /\ row = [i \in Id |-> Absent]
    /\ job = [w \in Worker |-> Idle]
    /\ change = [e \in Employee |-> Idle]
    /\ configured \in BOOLEAN
    /\ mails = [i \in Id |-> 0]
    /\ dropped = {}
    /\ uncertain = {}
    /\ overlapped = FALSE

-----------------------------------------------------------------------------
(* The request. *)

\* create_support_request: the row is committed, the audit line comes next.
Create(i) ==
    /\ Oldest(i, {k \in Id : row[k] = Absent})
    /\ row' = [row EXCEPT ![i] = NewRow]
    /\ job' = [job EXCEPT ![i] = [at |-> "audit"]]
    /\ UNCHANGED <<change, configured, mails, dropped, uncertain, overlapped>>

\* Variant: the task is not scheduled.
AuditOnly(i) ==
    /\ job[i].at = "audit"
    /\ job' = [job EXCEPT ![i] = Idle]
    /\ UNCHANGED <<row, change, configured, mails, dropped, uncertain, overlapped>>

\* The audit line is committed and the task scheduled.
Audit(i) ==
    /\ job[i].at = "audit"
    /\ job' = [job EXCEPT ![i] = [at |-> "load", current |-> i, todo |-> {}]]
    /\ UNCHANGED <<row, change, configured, mails, dropped, uncertain, overlapped>>

-----------------------------------------------------------------------------
(* The mail: notify_support_request for one row, resend_pending for several. *)

Loaded(i, todo) == [at |-> "send", current |-> i, todo |-> todo, copy |-> row[i]]

\* The query of the rows to send again.
StartScript(s) ==
    /\ job[s] = Idle
    /\ \E i \in Candidates :
          /\ Oldest(i, Candidates)
          /\ job' = [job EXCEPT ![s] = Loaded(i, Candidates \ {i})]
    /\ overlapped' = (overlapped \/ \E t \in Script \ {s} : job[t] # Idle)
    /\ UNCHANGED <<row, change, configured, mails, dropped, uncertain>>

\* The task's query; in the script, the row expired by the previous commit is reloaded,
\* and its status not looked at again.
Load(w) ==
    /\ job[w].at = "load"
    /\ job' = [job EXCEPT ![w] = Loaded(job[w].current, job[w].todo)]
    /\ UNCHANGED <<row, change, configured, mails, dropped, uncertain, overlapped>>

\* Variant: a timeout counts as sent.
OutcomesOptimistic ==
    {[arrives |-> TRUE, says |-> "sent"], [arrives |-> FALSE, says |-> "sent"],
     [arrives |-> FALSE, says |-> "failed"]}

\* What the mail service does, and what `send` makes of it: after a timeout the mail may
\* arrive all the same.
Outcomes ==
    {[arrives |-> TRUE, says |-> "sent"], [arrives |-> TRUE, says |-> "failed"],
     [arrives |-> FALSE, says |-> "failed"]}

Sent(w, says, number) ==
    job' = [job EXCEPT ![w] = [at |-> "record", current |-> Current(w), todo |-> job[w].todo,
                               copy |-> job[w].copy, says |-> says, number |-> number]]

\* The script has stopped before, unless it is configured.
Send(w) ==
    /\ job[w].at = "send"
    /\ w \in Script \/ configured
    /\ \E o \in Outcomes :
          LET i == Current(w) IN
          /\ o.arrives => mails[i] < MaxMails
          /\ mails' = IF o.arrives THEN [mails EXCEPT ![i] = @ + 1] ELSE mails
          /\ Sent(w, o.says, IF o.says = "sent" THEN mails[i] + 1 ELSE None)
          /\ uncertain' = IF o.arrives /\ o.says # "sent" THEN uncertain \union {i} ELSE uncertain
    /\ UNCHANGED <<row, change, configured, dropped, overlapped>>

Skip(w) ==
    /\ job[w].at = "send"
    /\ w \in Id /\ ~configured
    /\ Sent(w, "skipped_no_config", None)
    /\ UNCHANGED <<row, change, configured, mails, dropped, uncertain, overlapped>>

\* Variant: the UPDATE sets every column.
WriteWholeRow(i, old, new) == row' = [row EXCEPT ![i] = new]

\* What is committed: the attributes in which `new` differs from the loaded row.
Merged(now, old, new) == [a \in DOMAIN now |-> IF new[a] # old[a] THEN new[a] ELSE now[a]]

Write(i, old, new) == row' = [row EXCEPT ![i] = Merged(row[i], old, new)]

\* The outcome is committed; the time of a sent mail is told by the mail's number.  The
\* script goes on with its next row.
Record(w) ==
    /\ job[w].at = "record"
    /\ Write(Current(w), job[w].copy,
             [job[w].copy EXCEPT !.notify = job[w].says, !.notified = job[w].number])
    /\ \/ job[w].todo = {} /\ job' = [job EXCEPT ![w] = Idle]
       \/ \E i \in job[w].todo :
             /\ Oldest(i, job[w].todo)
             /\ job' = [job EXCEPT ![w] = [at |-> "load", current |-> i, todo |-> job[w].todo \ {i}]]
    /\ UNCHANGED <<change, configured, mails, dropped, uncertain, overlapped>>

-----------------------------------------------------------------------------
(* Headquarters. *)

\* The handler only commits a status other than the loaded one, and no other attribute.
LoadChange(e, i, status) ==
    /\ change[e] = Idle
    /\ row[i] # Absent /\ status # row[i].status
    /\ change' = [change EXCEPT ![e] = [at |-> "commit", current |-> i, to |-> status]]
    /\ UNCHANGED <<row, job, configured, mails, dropped, uncertain, overlapped>>

CommitChange(e) ==
    /\ change[e] # Idle
    /\ row' = [row EXCEPT ![change[e].current].status = change[e].to]
    /\ change' = [change EXCEPT ![e] = Idle]
    /\ UNCHANGED <<job, configured, mails, dropped, uncertain, overlapped>>

-----------------------------------------------------------------------------
(* Failures. *)

\* Requests whose mail has left while their worker has not committed that it did.
Unrecorded(ws) == {Current(w) : w \in {v \in ws : job[v].at = "record" /\ job[v].says = "sent"}}

Kill(ws) ==
    /\ job' = [w \in Worker |-> IF w \in ws THEN Idle ELSE job[w]]
    /\ dropped' = dropped \union (ws \intersect Id)
    /\ uncertain' = uncertain \union Unrecorded(ws)

\* A statement raises or one process dies: the audit, a query, the commit of the outcome.
Die(w) ==
    /\ job[w] # Idle
    /\ Kill({w})
    /\ UNCHANGED <<row, change, configured, mails, overlapped>>

\* The API restarts, perhaps with other settings, and forgets its tasks.
Restart ==
    /\ Kill({i \in Id : job[i] # Idle})
    /\ change' = [e \in Employee |-> Idle]
    /\ configured' \in BOOLEAN
    /\ UNCHANGED <<row, mails, overlapped>>

Next ==
    \/ \E i \in Id : Create(i) \/ Audit(i)
    \/ \E s \in Script : StartScript(s)
    \/ \E w \in Worker : Load(w) \/ Send(w) \/ Skip(w) \/ Record(w) \/ Die(w)
    \/ \E e \in Employee, i \in Id, status \in Status : LoadChange(e, i, status)
    \/ \E e \in Employee : CommitChange(e)
    \/ Restart

Spec == Init /\ [][Next]_vars

-----------------------------------------------------------------------------
(* Properties. *)

Row == [status : Status, notify : Notify, notified : 0..MaxMails]

Job == {Idle, [at |-> "audit"]}
       \union [at : {"load"}, current : Id, todo : SUBSET Id]
       \union [at : {"send"}, current : Id, todo : SUBSET Id, copy : Row]
       \union [at : {"record"}, current : Id, todo : SUBSET Id, copy : Row,
               says : Notify \ {"pending"}, number : 0..MaxMails]

Mailing == {"load", "send", "record"}

\* The requests w is to mail for, now or later in its run.
Handled(w) ==
    IF job[w].at = "audit" THEN {w}
    ELSE IF job[w].at \in Mailing THEN {job[w].current} \union job[w].todo
    ELSE {}

\* Rows, loaded rows and outcomes are well formed; nobody is at
\* work on a request that is not there.
TypeOK ==
    /\ row \in [Id -> Row \union {Absent}]
    /\ job \in [Worker -> Job]
    /\ change \in [Employee -> {Idle} \union [at : {"commit"}, current : Id, to : Status]]
    /\ configured \in BOOLEAN
    /\ mails \in [Id -> 0..MaxMails]
    /\ dropped \subseteq Id /\ uncertain \subseteq Id
    /\ overlapped \in BOOLEAN
    /\ \A w \in Worker : \A i \in Handled(w) : i \in Id /\ row[i] # Absent
    /\ \A e \in Employee : change[e] # Idle => row[change[e].current] # Absent

\* Whatever overlaps or dies, a request that counts as notified has reached headquarters.
SentMeansArrived == \A i \in Id : row[i].notify = "sent" => mails[i] > 0

\* Unless runs of the script overlap, a request is mailed once, except after an attempt
\* that nobody recorded as sent although its mail arrived.
OneMailPerRequest ==
    ~overlapped => \A i \in Id \ uncertain : mails[i] <= 1

\* As long as runs of the script do not overlap, what is recorded as sent stays so.
SentIsFinal ==
    [][~overlapped => \A i \in Id :
          row[i].notify = "sent" => row'[i].notify = "sent" /\ row'[i].notified = row[i].notified]_vars

\* Mailing and working on a request do not undo each other, whatever was loaded when.
WorkAndMailAreIndependent ==
    [][/\ \A w \in Worker : Record(w) => \A i \in Id : row'[i].status = row[i].status
       /\ \A e \in Employee : CommitChange(e) => \A i \in Id :
             row'[i].notify = row[i].notify /\ row'[i].notified = row[i].notified]_vars

\* No notification is forgotten: a request that still counts as pending has its own task
\* at work, or that task has died.
PendingIsInHand ==
    \A i \in Id : row[i].notify = "pending" => job[i] # Idle \/ i \in dropped

-----------------------------------------------------------------------------
(* The inductive invariant behind the theorems of SupportMailProofs. *)

\* w has a mail of request i out that it is about to record as sent.
AboutToRecord(w, i) == job[w].at = "record" /\ job[w].current = i /\ job[w].says = "sent"

\* What w knows holds, whoever else is at work: its mail is out, and no request returns to
\* pending while it holds a copy.  A request's own task mails for nothing else.
WellInformed(w) ==
    /\ w \in Id => Handled(w) \subseteq {w}
    /\ job[w].at \in Mailing => job[w].current \notin job[w].todo
    /\ \A i \in Id : AboutToRecord(w, i) => mails[i] > 0
    /\ job[w].at \in {"send", "record"} =>
          (job[w].copy.notify # "pending" => row[job[w].current].notify # "pending")

SafeInv ==
    /\ TypeOK /\ SentMeansArrived /\ PendingIsInHand
    /\ \A w \in Worker : WellInformed(w)

\* A request is in the hands of its own task while it is pending, and afterwards of the
\* one run of the script; until its outcome is recorded, nobody else records one.
OwnerInv ==
    /\ \A s, t \in Script : job[s] # Idle /\ job[t] # Idle => s = t
    /\ \A i \in Id : job[i] # Idle => row[i].notify = "pending"
    /\ \A s \in Script : \A i \in Handled(s) : row[i].notify \in RETRY_STATUSES
    /\ \A w \in Worker : job[w].at \in {"send", "record"} =>
          job[w].copy.notify = row[job[w].current].notify

\* A mail that arrived is recorded, about to be, or uncertain.
MailInv ==
    \A i \in Id \ uncertain :
        mails[i] > 0 => mails[i] = 1 /\ (row[i].notify = "sent" \/ \E w \in Worker : AboutToRecord(w, i))

IInv ==
    /\ SafeInv
    /\ ~overlapped => OwnerInv /\ MailInv
=============================================================================
