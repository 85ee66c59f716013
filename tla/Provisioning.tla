--------------------------- MODULE Provisioning ---------------------------
(***************************************************************************)
(* A new customer in one call: provision_tenant (app/services/             *)
(* provisioning.py), called concurrently from POST /ops/tenants/provision  *)
(* and from scripts/provision_tenant.py.                                   *)
(*                                                                         *)
(* One transaction inserts everything; one file is written outside it.     *)
(* PostgreSQL makes an INSERT wait for an open transaction that holds the  *)
(* same unique value, and fails it when that value gets committed.  A step *)
(* may raise, a process may die, and the answer to a COMMIT may get lost;  *)
(* after it the caller may still get an error instead of the password.     *)
(***************************************************************************)
EXTENDS Integers, FiniteSets

CONSTANTS
    Request,    \* the calls
    Params,     \* what is asked: [key, name, admin, document]
    NoOrg       \* no organization created yet

ASSUME ParamsAssumption ==
    /\ NoOrg \notin Nat
    /\ \A p \in Params : DOMAIN p = {"key", "name", "admin", "document"} /\ p.document \in BOOLEAN

VARIABLES
    params,     \* request -> its parameters
    table,      \* the committed rows
    pending,    \* request -> the rows its open transaction has inserted
    files,      \* the organizations whose demo file is on disk
    torn,       \* the organizations of which a part of the file is
    nextOrg,    \* the id sequence of organizations; aborts leave gaps
    org,        \* request -> the id of the organization it has inserted
    pc,         \* request -> its next statement
    answer      \* request -> what its caller was told

vars == <<params, table, pending, files, torn, nextOrg, org, pc, answer>>

Part == {"organization", "user", "modules", "governance", "document", "request"}

\* The order of _STEPS, with the SELECTs before and what follows after.
After(s) ==
    [find_replay |-> "check_name", check_name |-> "check_user", check_user |-> "organization",
     organization |-> "user", user |-> "modules", modules |-> "governance",
     governance |-> "write_file", write_file |-> "document", document |-> "request",
     request |-> "commit", commit |-> "respond"][s]

InTransaction == {"organization", "user", "modules", "governance", "write_file", "document",
                  "request", "commit"}

Row(r, part, id) ==
    [part |-> part, org |-> id, name |-> params[r].name, admin |-> params[r].admin,
     key |-> params[r].key, hash |-> params[r]]

Rows(part, rows) == {w \in rows : w.part = part}

Init ==
    /\ params \in [Request -> Params]
    /\ table = {}
    /\ pending = [r \in Request |-> {}]
    /\ files = {}
    /\ torn = {}
    /\ nextOrg = 1
    /\ org = [r \in Request |-> NoOrg]
    /\ pc = [r \in Request |-> "find_replay"]
    /\ answer = [r \in Request |-> "none"]

Advance(r) == pc' = [pc EXCEPT ![r] = After(@)]

\* The call is over and its caller is told `a`.
Tell(r, a) ==
    /\ pc' = [pc EXCEPT ![r] = "done"]
    /\ answer' = [answer EXCEPT ![r] = a]

-----------------------------------------------------------------------------
(* Before the transaction: SELECTs of what is committed. *)

Requests(r) == {w \in Rows("request", table) : w.key = params[r].key}

\* Variant: any use of the key counts as a replay.
SameCallAnyParams(r) == Requests(r) # {}

\* The fingerprint of the earlier call equals this one's.
SameCall(r) == \E w \in Requests(r) : w.hash = params[r]

\* _find_replay: answer with what exists, refuse other parameters, or go on to `next`.
FindReplay(r, at, otherwise) ==
    /\ pc[r] = at
    /\ \/ SameCall(r) /\ Tell(r, "replayed")
       \/ ~SameCall(r) /\ Requests(r) # {} /\ Tell(r, "refused")
       \/ Requests(r) = {} /\ otherwise
    /\ UNCHANGED <<params, table, pending, files, torn, nextOrg, org>>

FirstLook(r) == FindReplay(r, "find_replay", Advance(r) /\ UNCHANGED answer)

\* After an IntegrityError: a replay after all, or a conflict.
SecondLook(r) == FindReplay(r, "look_again", Tell(r, "refused"))

\* _check_conflicts: one SELECT for the name, one for the username.
Check(r, at, part, taken) ==
    /\ pc[r] = at
    /\ \/ taken /\ Tell(r, "refused")
       \/ ~taken /\ Advance(r) /\ UNCHANGED answer
    /\ UNCHANGED <<params, table, pending, files, torn, nextOrg, org>>

CheckName(r) ==
    Check(r, "check_name", "organization", \E w \in Rows("organization", table) : w.name = params[r].name)

CheckUser(r) ==
    Check(r, "check_user", "user", \E w \in Rows("user", table) : w.admin = params[r].admin)

-----------------------------------------------------------------------------
(* The transaction. *)

\* Variant: every step commits.
FlushCommitted(r, row) == table' = table \union {row} /\ UNCHANGED pending

Flush(r, row) == pending' = [pending EXCEPT ![r] = @ \union {row}] /\ UNCHANGED table

\* Variant: there is no unique constraint on the key.
ClashesOnUserOnly(part, v, w) == part = "user" /\ w.part = part /\ v.admin = w.admin

\* Two rows the unique constraints on users.username and idempotency_key keep apart.
Clashes(part, v, w) ==
    /\ w.part = part
    /\ \/ part = "user" /\ v.admin = w.admin
       \/ part = "request" /\ v.key = w.key

Blocked(r, row) == \E q \in Request \ {r} : \E w \in pending[q] : Clashes(row.part, row, w)

Duplicate(row) == \E w \in table : Clashes(row.part, row, w)

CreateOrganization(r) ==
    /\ pc[r] = "organization"
    /\ org' = [org EXCEPT ![r] = nextOrg]
    /\ nextOrg' = nextOrg + 1
    /\ Flush(r, Row(r, "organization", nextOrg))
    /\ Advance(r)
    /\ UNCHANGED <<params, files, torn, answer>>

\* A row of the step's table; without a demo document that step inserts nothing.
Insert(r) ==
    /\ pc[r] \in Part \ {"organization"}
    /\ LET row == Row(r, pc[r], org[r]) IN
       /\ ~Blocked(r, row) /\ ~Duplicate(row)
       /\ IF pc[r] = "document" /\ ~params[r].document
          THEN UNCHANGED <<table, pending>> ELSE Flush(r, row)
    /\ Advance(r)
    /\ UNCHANGED <<params, files, torn, nextOrg, org, answer>>

WriteFile(r) ==
    /\ pc[r] = "write_file"
    /\ files' = IF params[r].document THEN files \union {org[r]} ELSE files
    /\ Advance(r)
    /\ UNCHANGED <<params, table, pending, torn, nextOrg, org, answer>>

Commit(r) ==
    /\ pc[r] = "commit"
    /\ table' = table \union pending[r]
    /\ pending' = [pending EXCEPT ![r] = {}]
    /\ Advance(r)
    /\ UNCHANGED <<params, files, torn, nextOrg, org, answer>>

\* Variant: the error path forgets the file.
FilesKept(r) == files

\* _cleanup_file: it knows of the file once write_bytes has returned.
FilesWithout(r) == files \ {org[r]}

\* Variant: the error path leaves the transaction open.
TransactionLeftOpen(r) == pending

RolledBack(r) == [pending EXCEPT ![r] = {}]

Undo(r) ==
    /\ pending' = RolledBack(r)
    /\ files' = FilesWithout(r)
    /\ UNCHANGED <<params, nextOrg, org>>

\* IntegrityError: roll back and look again.
Conflict(r) ==
    /\ pc[r] \in {"user", "request"} /\ Duplicate(Row(r, pc[r], org[r]))
    /\ Undo(r)
    /\ pc' = [pc EXCEPT ![r] = "look_again"]
    /\ UNCHANGED <<table, torn, answer>>

\* write_bytes is cut short: a part of the file stays, which the clean-up does not know of.
TearFile(r) ==
    \/ UNCHANGED torn
    \/ pc[r] = "write_file" /\ params[r].document /\ torn' = torn \union {org[r]}

\* Any other exception, in a SELECT or inside the transaction.
Raise(r) ==
    /\ pc[r] \notin {"commit", "respond", "done"}
    /\ Undo(r)
    /\ TearFile(r)
    /\ Tell(r, "failed")
    /\ UNCHANGED table

\* COMMIT raises: the transaction may have gone through although the answer got lost.
RaiseAtCommit(r) ==
    /\ pc[r] = "commit"
    /\ Undo(r)
    /\ table' \in {table, table \union pending[r]}
    /\ Tell(r, "lost")
    /\ UNCHANGED torn

\* _summary reads the tenant back, outside any try: an error keeps the one-time password
\* from the caller.  Then the audit lines, written or not, the demo run, and the answer.
Respond(r) ==
    /\ pc[r] = "respond"
    /\ \E a \in {"created", "unshown"} : Tell(r, a)
    /\ UNCHANGED <<params, table, pending, files, torn, nextOrg, org>>

\* The process dies: PostgreSQL rolls back, nobody removes the file.
Crash(r) ==
    /\ pc[r] # "done"
    /\ Tell(r, "crashed")
    /\ TearFile(r)
    /\ pending' = [pending EXCEPT ![r] = {}]
    /\ UNCHANGED <<params, table, files, nextOrg, org>>

Step(r) ==
    \/ FirstLook(r) \/ CheckName(r) \/ CheckUser(r)
    \/ CreateOrganization(r) \/ Insert(r) \/ WriteFile(r) \/ Commit(r)
    \/ Conflict(r) \/ SecondLook(r) \/ Respond(r)

\* Every call is over: the run of the model stops here.
Rest == (\A r \in Request : pc[r] = "done") /\ UNCHANGED vars

Next == (\E r \in Request : Step(r) \/ Raise(r) \/ RaiseAtCommit(r) \/ Crash(r)) \/ Rest

Spec == Init /\ [][Next]_vars

\* Calls keep executing statements.  Nothing forces a failure.
FairSpec == Spec /\ \A r \in Request : WF_vars(Step(r))

-----------------------------------------------------------------------------
(* Properties. *)

\* Rows and locks are well formed; every row belongs to an organization that was inserted.
TypeOK ==
    /\ params \in [Request -> Params]
    /\ \A w \in table \union UNION {pending[r] : r \in Request} :
          w.part \in Part /\ w.org \in 1..nextOrg - 1 /\ w.hash \in Params
    /\ DOMAIN pending = Request
    /\ files \subseteq 1..nextOrg - 1
    /\ torn \subseteq 1..nextOrg - 1
    /\ nextOrg \in Nat \ {0}
    /\ org \in [Request -> Nat \union {NoOrg}]
    /\ pc \in [Request -> {"find_replay", "check_name", "check_user", "respond", "look_again", "done"}
                          \union InTransaction]
    /\ answer \in [Request -> {"none", "created", "unshown", "replayed", "refused", "failed",
                              "lost", "crashed"}]

PartsOf(o) == {w.part : w \in {v \in table : v.org = o}}

\* The parts a call asks for.
Wanted(p) == IF p.document THEN Part ELSE Part \ {"document"}

\* All or nothing: whatever raises or dies, an organization that exists has its
\* administrator, modules, governance records and key, and its demo document if asked for.
TenantIsComplete ==
    \A w \in table : PartsOf(w.org) = Wanted(w.hash)

Inside(r) == pc[r] \in InTransaction

\* The file outside the transaction follows it: a document row has its file unless the
\* answer to its COMMIT got lost, a file without a row is being written or was left by a
\* process that died, and a part of a file belongs to no tenant.
FilesFollowDocuments ==
    /\ \A w \in Rows("document", table) :
          w.org \in files \/ \E r \in Request : org[r] = w.org /\ answer[r] = "lost"
    /\ \A o \in files :
          \/ \E w \in Rows("document", table) : w.org = o
          \/ \E r \in Request : org[r] = o /\ (Inside(r) \/ answer[r] = "crashed")
    /\ \A o \in torn : PartsOf(o) = {}

\* A caller that got a password, or an error behind COMMIT instead, has its tenant; a replay
\* is answered with the tenant of an earlier identical call; a call that was refused or
\* failed has left nothing behind, and one that was refused in its transaction, by a race on
\* a unique value, has no identical twin that it should have been answered with.  Refused at
\* the check of the name or username it may have one, which committed after its lookup.
AnswersAreTrue ==
    \A r \in Request :
        /\ answer[r] \in {"created", "unshown"} =>
              \E w \in Requests(r) : w.org = org[r] /\ w.hash = params[r]
        /\ answer[r] = "replayed" => \E w \in Requests(r) : w.org # org[r] /\ w.hash = params[r]
        /\ answer[r] \in {"refused", "failed"} => PartsOf(org[r]) = {}
        /\ answer[r] = "refused" /\ org[r] # NoOrg => ~SameCall(r)

\* Tenants appear whole, one at a time and for good, and share neither key nor
\* administrator: however calls race, a key makes one tenant and one password.
TenantOf(w) == [org |-> w.org, params |-> w.hash, parts |-> PartsOf(w.org)]
Registry == INSTANCE TenantRegistry WITH tenants <- {TenantOf(w) : w \in table}
OneTenantPerKey == Registry!Spec

\* Rows are inserted in one order, so nobody waits in a circle: every call ends.
EveryCallEnds == \A r \in Request : <>(pc[r] = "done")
=============================================================================
