---------------------------- MODULE AuditChain ----------------------------
(***************************************************************************)
(* The tamper-evident audit trail: create_audit_log (app/core/audit.py),   *)
(* the two-line variant for operator actions (app/core/ops_audit.py) and   *)
(* the verification that reads it back (app/api/audit.py), running as      *)
(* concurrent requests on PostgreSQL in READ COMMITTED mode.               *)
(*                                                                         *)
(* Every request commits its own change first and writes its audit lines   *)
(* afterwards, each line in a transaction of its own.  One action below is *)
(* one SQL statement of that transaction; between two statements any other *)
(* request may run, and at any statement the process may die.              *)
(***************************************************************************)
EXTENDS Integers, FiniteSets

CONSTANTS
    Org,        \* organizations
    HQ,         \* the organization HQ_ORGANIZATION_ID names ("tenant 0")
    NoOrg,      \* an operator action that concerns no tenant
    Request,    \* the requests and scripts that write audit lines
    NoRequest,  \* nobody holds the lock
    System,     \* content of a marker row
    Text(_, _, _), \* the columns of a row one after the other, nothing in between
    Legacy,     \* rows written before the per-organization chain existed
    FirstId     \* where the id sequence stands

Kind == {"marker", "tenant", "ops", "ops_access"}

\* NULL in previous_hash or record_hash.
NoHash == <<>>

\* The HMAC over a row's text and its predecessor's hash, a free constructor: equal
\* signatures sign equal texts, not equal columns.  Only previous_hash stands apart, 64
\* digits or "None" at the end of the text.
HMAC(org, kind, content, prev) == <<Text(org, kind, content), prev>>

ASSUME OrgAssumption == HQ \in Org /\ NoOrg \notin Org

ASSUME RequestAssumption == NoRequest \notin Request /\ System \notin Request

\* Legacy rows carry no marker and no request of this run; ids are unique.
ASSUME LegacyAssumption ==
    /\ FirstId \in Nat
    /\ \A w \in Legacy : /\ w.id \in Nat /\ w.id < FirstId
                         /\ w.org \in Org
                         /\ w.kind \in Kind \ {"marker"}
                         /\ w.content \notin Request
                         /\ w.hash \in {NoHash, HMAC(w.org, w.kind, w.content, w.prev)}
    /\ \A v, w \in Legacy : v.id = w.id => v = w

VARIABLES
    table,      \* the committed rows of audit_logs
    nextId,     \* the id sequence: not transactional, so aborts leave gaps
    orgLock,    \* organization row -> the request holding it FOR UPDATE
    pending,    \* request -> the rows its open transaction has inserted
    prev,       \* request -> the previous_hash it has read
    pc,         \* request -> its next statement
    line,       \* request -> which of its audit lines it is writing
    plan,       \* request -> what it is: a tenant's own request or an operator action
    changed     \* the requests whose own change is committed

vars == <<table, nextId, orgLock, pending, prev, pc, line, plan, changed>>

-----------------------------------------------------------------------------
(* What a request writes. *)

Plan == [type : {"tenant"}, org : Org] \union [type : {"ops"}, org : Org \union {NoOrg}]

\* log_ops_action writes a second line when the action concerns a customer tenant.
HasCustomerLine(r) == plan[r].type = "ops" /\ plan[r].org \notin {HQ, NoOrg}

LineOrg(r) ==
    IF plan[r].type = "ops" /\ line[r] = 1 THEN HQ ELSE plan[r].org

\* Variant: the customer's line is written first.
LineKindSwapped(r) ==
    IF plan[r].type = "tenant" THEN "tenant"
    ELSE IF line[r] = 1 THEN "ops_access" ELSE "ops"

LineKind(r) ==
    IF plan[r].type = "tenant" THEN "tenant"
    ELSE IF line[r] = 1 THEN "ops" ELSE "ops_access"

-----------------------------------------------------------------------------
(* What a statement sees: committed rows and the transaction's own. *)

RowsOf(o, rows) == {w \in rows : w.org = o}

Visible(r) == RowsOf(LineOrg(r), table \union pending[r])

\* Variant: the lookup of the marker never finds it.
ChainStartedUnseen(r) == FALSE

ChainStarted(r) == \E w \in Visible(r) : w.kind = "marker"

IsLast(w, rows) == w \in rows /\ \A v \in rows : v.id <= w.id

\* A freshly inserted and flushed row of r's transaction.
NewRow(r, kind, content, p) ==
    [id |-> nextId, org |-> LineOrg(r), kind |-> kind, content |-> content,
     prev |-> p, hash |-> HMAC(LineOrg(r), kind, content, p)]

Insert(r, kind, content, p) ==
    /\ pending' = [pending EXCEPT ![r] = @ \union {NewRow(r, kind, content, p)}]
    /\ nextId' = nextId + 1

Goto(r, from, to) == pc[r] = from /\ pc' = [pc EXCEPT ![r] = to]

-----------------------------------------------------------------------------
Init ==
    /\ table = Legacy
    /\ nextId = FirstId
    /\ orgLock = [o \in Org |-> NoRequest]
    /\ pending = [r \in Request |-> {}]
    /\ prev = [r \in Request |-> NoHash]
    /\ pc = [r \in Request |-> "work"]
    /\ line = [r \in Request |-> 1]
    /\ plan \in [Request -> Plan]
    /\ changed = {}

\* Variant: SELECT without FOR UPDATE.
LockNotTaken(r) == TRUE

LockIsFree(r) == orgLock[LineOrg(r)] = NoRequest

\* Variant: a failed transaction keeps its row lock.
LocksKept(r) == orgLock

LocksWithout(r) == [o \in Org |-> IF orgLock[o] = r THEN NoRequest ELSE orgLock[o]]

\* Variant: the handler audits a change it has not committed.
WorkUncommitted(r) ==
    /\ Goto(r, "work", "lock")
    /\ UNCHANGED <<table, nextId, orgLock, pending, prev, line, plan, changed>>

\* The handler commits its own change, before anything is written to the trail.
Work(r) ==
    /\ Goto(r, "work", "lock")
    /\ changed' = changed \union {r}
    /\ UNCHANGED <<table, nextId, orgLock, pending, prev, line, plan>>

\* SELECT ... FROM organizations ... FOR UPDATE.
LockOrg(r) ==
    /\ Goto(r, "lock", "check")
    /\ LockIsFree(r)
    /\ orgLock' = [orgLock EXCEPT ![LineOrg(r)] = r]
    /\ UNCHANGED <<table, nextId, pending, prev, line, plan, changed>>

\* Has this organization's chain been started?
CheckMarker(r) ==
    /\ Goto(r, "check", IF ChainStarted(r) THEN "read" ELSE "mark")
    /\ UNCHANGED <<table, nextId, orgLock, pending, prev, line, plan, changed>>

InsertMarker(r) ==
    /\ Goto(r, "mark", "read")
    /\ Insert(r, "marker", System, NoHash)
    /\ UNCHANGED <<table, orgLock, prev, line, plan, changed>>

\* The record_hash of the organization's last row, by id.
ReadLast(r) ==
    /\ Goto(r, "read", "insert")
    /\ \/ /\ Visible(r) = {}
          /\ prev' = [prev EXCEPT ![r] = NoHash]
       \/ \E w \in Visible(r) :
             /\ IsLast(w, Visible(r))
             /\ prev' = [prev EXCEPT ![r] = w.hash]
    /\ UNCHANGED <<table, nextId, orgLock, pending, line, plan, changed>>

InsertLine(r) ==
    /\ Goto(r, "insert", "commit")
    /\ Insert(r, LineKind(r), r, prev[r])
    /\ UNCHANGED <<table, orgLock, prev, line, plan, changed>>

\* COMMIT publishes the rows and releases the row lock; an operator action on a
\* customer tenant then starts over with the customer's line.
Commit(r) ==
    /\ pc[r] = "commit"
    /\ table' = table \union pending[r]
    /\ pending' = [pending EXCEPT ![r] = {}]
    /\ orgLock' = [orgLock EXCEPT ![LineOrg(r)] = NoRequest]
    /\ \/ /\ line[r] = 1 /\ HasCustomerLine(r)
          /\ line' = [line EXCEPT ![r] = 2]
          /\ pc' = [pc EXCEPT ![r] = "lock"]
       \/ /\ ~(line[r] = 1 /\ HasCustomerLine(r))
          /\ pc' = [pc EXCEPT ![r] = "done"]
          /\ UNCHANGED line
    /\ UNCHANGED <<nextId, prev, plan, changed>>

\* The process dies, or a statement raises: the open transaction is rolled back.
Abort(r) ==
    /\ pc[r] \notin {"done", "failed"}
    /\ pc' = [pc EXCEPT ![r] = "failed"]
    /\ pending' = [pending EXCEPT ![r] = {}]
    /\ orgLock' = LocksWithout(r)
    /\ UNCHANGED <<table, nextId, prev, line, plan, changed>>

Step(r) ==
    \/ Work(r) \/ CheckMarker(r) \/ InsertMarker(r)
    \/ ReadLast(r) \/ InsertLine(r) \/ Commit(r)

Ended(r) == pc[r] \in {"done", "failed"}

\* Every request has ended: the run of the model stops here.
Rest == (\A r \in Request : Ended(r)) /\ UNCHANGED vars

Next == (\E r \in Request : LockOrg(r) \/ Step(r) \/ Abort(r)) \/ Rest

Spec == Init /\ [][Next]_vars

(***************************************************************************)
(* Requests keep executing statements; PostgreSQL queues the waiters for a *)
(* row lock, so a request that keeps finding the row free at some point    *)
(* gets it.  Nothing forces a crash.                                       *)
(***************************************************************************)
FairSpec ==
    /\ Spec
    /\ \A r \in Request : WF_vars(Step(r)) /\ SF_vars(LockOrg(r))

-----------------------------------------------------------------------------
(* GET /audit/verify: one SELECT of an organization's committed rows, judged as a *)
(* set ordered by id.                                                             *)

Markers(rows) == {w \in rows : w.kind = "marker"}

\* Rows from the first marker on form the chain; the ones before are legacy.
ChainOf(rows) == {w \in rows : \E m \in Markers(rows) : m.id <= w.id}

Signed(w) == w.hash = HMAC(w.org, w.kind, w.content, w.prev)

\* The row that comes just before w in a chain; the marker has none.
Before(w, chain) == {v \in chain : v.id < w.id /\ \A u \in chain : u.id < w.id => u.id <= v.id}

\* Variant: verification recomputes signatures but does not follow the links.
LinkedUnchecked(w, chain) == TRUE

Linked(w, chain) ==
    IF Before(w, chain) = {} THEN w.prev = NoHash
    ELSE \A v \in Before(w, chain) : w.prev = v.hash

\* The endpoint answers "valid".
Valid(rows) ==
    /\ \A w \in rows \ ChainOf(rows) : w.hash = NoHash \/ Signed(w)
    /\ \A w \in ChainOf(rows) : Linked(w, ChainOf(rows)) /\ Signed(w)

-----------------------------------------------------------------------------
(* Properties. *)

\* Rows have an id, an owner and a kind; every program counter and lock is what
\* create_audit_log's statements make of it.
TypeOK ==
    /\ \A w \in table \union UNION {pending[r] : r \in Request} :
          w.id \in Nat /\ w.org \in Org /\ w.kind \in Kind
    /\ nextId \in Nat
    /\ orgLock \in [Org -> Request \union {NoRequest}]
    /\ DOMAIN pending = Request
    /\ DOMAIN prev = Request
    /\ pc \in [Request -> {"work", "lock", "check", "mark", "read", "insert",
                           "commit", "done", "failed"}]
    /\ line \in [Request -> {1, 2}]
    /\ \A r \in Request : line[r] = 2 => HasCustomerLine(r)
    /\ plan \in [Request -> Plan]
    /\ changed \subseteq Request

\* However the statements of concurrent writers interleave, and whichever of them die,
\* verification never reports an untouched trail as compromised.
ChainVerifies == \A o \in Org : Valid(RowsOf(o, table))

\* A customer never sees an operator's line that headquarters' own chain lacks: the
\* ops_access line of a request is preceded by the request's line in the HQ chain.
CustomerLineFollowsHqLine ==
    \A w \in table :
        w.kind = "ops_access" /\ w.content \in Request =>
            \E v \in table : v.org = HQ /\ v.kind = "ops" /\ v.content = w.content /\ v.id < w.id

LinesOf(r) == {w \in table : w.content = r}

\* The trail matches what happened: a request that was answered has every one of its
\* lines exactly once, one that committed no change has none, and none has too many.
TrailMatchesRequests ==
    \A r \in Request :
        /\ pc[r] = "done" => Cardinality(LinesOf(r)) = IF HasCustomerLine(r) THEN 2 ELSE 1
        /\ r \notin changed => LinesOf(r) = {}
        /\ \A v, w \in LinesOf(r) : v.kind = w.kind => v = w

\* Each organization's committed rows are an append-only log: one step adds one line,
\* above every id a reader has already seen, with the marker exactly once.
LedgerRow(w) == [id |-> w.id, org |-> w.org, kind |-> w.kind, content |-> w.content]
Ledger == INSTANCE AuditLedger WITH
              ledger <- {LedgerRow(w) : w \in table},
              LegacyLog <- {LedgerRow(w) : w \in Legacy}
AppendOnlyLedger == Ledger!Spec

\* Two lines, two locks, one after the other: no request waits for ever.
EveryRequestEnds == \A r \in Request : <>Ended(r)

-----------------------------------------------------------------------------
(* The inductive invariant behind the theorems of AuditChainProofs. *)

Holding(r) == pc[r] \in {"check", "mark", "read", "insert", "commit"}

\* The row lock of the organization belongs to the one request inside the protocol.
LockInv ==
    /\ \A r \in Request : Holding(r) => orgLock[LineOrg(r)] = r
    /\ \A o \in Org : orgLock[o] # NoRequest =>
          Holding(orgLock[o]) /\ LineOrg(orgLock[o]) = o

\* Ids identify a row within its organization and stay below the sequence.
IdInv ==
    /\ \A w \in table : w.id < nextId
    /\ \A v, w \in table : v.org = w.org /\ v.id = w.id => v = w

IsMarker(w) == w.kind = "marker" /\ w.prev = NoHash

\* The rows an open transaction holds before its line: a new marker, or none because
\* the chain has started.
OpensChain(r, rows) ==
    LET old == RowsOf(LineOrg(r), table)
    IN \/ rows = {} /\ Markers(old) # {}
       \/ Markers(old) = {} /\ \E m \in rows : rows = {m} /\ IsMarker(m)

\* Every row a transaction has inserted is signed, its organization's, and newer than
\* everything committed there: nobody else has appended since the lock was taken.
Fresh(r) ==
    \A w \in pending[r] :
        /\ w.org = LineOrg(r)
        /\ w.id < nextId
        /\ Signed(w)
        /\ \A v \in RowsOf(LineOrg(r), table) : v.id < w.id

\* r's HQ line is committed, with an id below n.
HqLineBelow(r, n) ==
    \E v \in table : v.org = HQ /\ v.kind = "ops" /\ v.content = r /\ v.id < n

\* e is r's line, ready to be committed behind everything r sees.
ReadyLine(r, e) ==
    /\ e.kind = LineKind(r) /\ e.content = r
    /\ OpensChain(r, pending[r] \ {e})
    /\ \A v \in Visible(r) \ {e} : v.id < e.id
    /\ \E w \in Visible(r) \ {e} : IsLast(w, Visible(r) \ {e}) /\ e.prev = w.hash
    /\ line[r] = 2 => HqLineBelow(r, e.id)

\* What each program counter knows.
Progress(r) ==
    /\ ~Holding(r) \/ pc[r] \in {"check", "mark"} => pending[r] = {}
    /\ pc[r] = "mark" => Markers(RowsOf(LineOrg(r), table)) = {}
    /\ pc[r] \in {"read", "insert"} => OpensChain(r, pending[r])
    /\ pc[r] = "insert" => \E w \in Visible(r) : IsLast(w, Visible(r)) /\ prev[r] = w.hash
    /\ pc[r] = "commit" => \E e \in pending[r] : ReadyLine(r, e)
    /\ line[r] = 2 => HqLineBelow(r, nextId)

RequestInv == \A r \in Request : Fresh(r) /\ Progress(r)

IInv ==
    /\ TypeOK /\ LockInv /\ IdInv /\ RequestInv
    /\ ChainVerifies /\ CustomerLineFollowsHqLine
=============================================================================
