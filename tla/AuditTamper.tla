---------------------------- MODULE AuditTamper ----------------------------
(***************************************************************************)
(* The audit trail with somebody writing to audit_logs behind the          *)
(* application's back, as tests/test_audit_chain.py does with raw SQL: the *)
(* model's own listeners (app/models/audit_log.py) reject every update and *)
(* delete that goes through the ORM.  Any one row of one tenant is deleted *)
(* or gets other columns, at any moment, while writers keep appending.     *)
(***************************************************************************)
EXTENDS AuditChain

CONSTANTS
    Foreign,    \* contents somebody may put in a row
    Customer    \* the tenant whose rows are touched

VARIABLE tampered \* organization -> what somebody did to its rows, if anything: [was, now]

ASSUME CustomerAssumption == Customer \in Org

\* The timestamp tells the lines the application writes apart, whatever their columns.
ASSUME TextAssumption ==
    \A o \in Org, j, k \in Kind, q \in Request, c \in Request \union {System} :
        Text(o, j, q) = Text(o, k, c) => q = c /\ j = k

\* No other text begins as a marker's does: entity_type and action of a marker are fixed.
ASSUME MarkerAssumption ==
    /\ \A o \in Org, k \in Kind \ {"marker"}, q \in Request : \A c \in Foreign \union {q} :
          Text(o, "marker", c) # Text(o, k, q)
    /\ \A w \in Legacy : \A c \in Foreign \union {w.content} :
          Text(w.org, "marker", c) # Text(w.org, w.kind, w.content)

tvars == <<vars, tampered>>

TInit == Init /\ tampered = [o \in Org |-> {}]

\* Somebody puts the rows of now in the place of the row w.
Touch(w, now) ==
    /\ tampered[Customer] = {}
    /\ table' = (table \ {w}) \union now
    /\ tampered' = [tampered EXCEPT ![Customer] = {[was |-> w, now |-> now]}]
    /\ UNCHANGED <<nextId, orgLock, pending, prev, pc, line, plan, changed>>

\* A hash that is nobody's.
Garbage == <<0>>

\* What the row w can be made into by whoever has no key: its columns changed, either
\* hash overwritten or set to NULL.
Forgeries(w) ==
    {v \in [id : {w.id}, org : {w.org}, kind : Kind, content : Foreign \union {w.content},
            prev : {w.prev, NoHash, Garbage}, hash : {w.hash, NoHash, Garbage}] : v # w}

\* UPDATE audit_logs SET ... WHERE id = ...
Alter(w) == \E v \in Forgeries(w) : Touch(w, {v})

\* DELETE FROM audit_logs WHERE id = ...
Delete(w) == Touch(w, {})

TNext ==
    \/ Next /\ UNCHANGED tampered
    \/ \E w \in RowsOf(Customer, table) : Alter(w) \/ Delete(w)

TSpec == TInit /\ [][TNext]_tvars

-----------------------------------------------------------------------------
(* What verification can see of a touch. *)

\* The row with this id belongs to the chain, not to the legacy rows.
InChain(n) == \E m \in Markers(RowsOf(Customer, table)) : m.id <= n

\* The signed text and both hashes are as they were; a character may have moved from one
\* column to the next.
ReadsTheSame(w, v) ==
    /\ Text(v.org, v.kind, v.content) = Text(w.org, w.kind, w.content)
    /\ v.prev = w.prev /\ v.hash = w.hash

\* A line of the trail follows the row, and says so.
HasSuccessor(w) ==
    \E x \in RowsOf(Customer, table) : x.id > w.id /\ x.prev = w.hash

\* The damage: a chain row is missing in front of another one, or a row does not read as
\* it did, unless it is a legacy row with no record_hash left to check.
Shows(c) ==
    \/ c.now = {} /\ InChain(c.was.id) /\ HasSuccessor(c.was)
    \/ \E v \in c.now : ~ReadsTheSame(c.was, v) /\ (v.hash # NoHash \/ InChain(v.id))

\* The verdict is "compromised" exactly for the organizations whose damage shows, now and
\* after everything later writers append, whatever they had read when it was done.  What
\* does not show: the last line of a trail deleted before a writer read it, the marker
\* deleted or made unrecognizable (the chain turns into legacy rows, and the next writer
\* starts another), a legacy row deleted or left without record_hash, a boundary between
\* two columns moved.
VerdictIsExact ==
    \A o \in Org : ~Valid(RowsOf(o, table)) <=> \E c \in tampered[o] : Shows(c)
=============================================================================
