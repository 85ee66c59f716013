------------------------- MODULE AuditChainProofs -------------------------
(***************************************************************************)
(* Theorems about the audit trail for any organizations, requests, plans   *)
(* and legacy rows: its types, that verification never reports an          *)
(* untouched trail as compromised, the order of an operator action's two   *)
(* lines, and that the trail implements the append-only ledger.            *)
(***************************************************************************)
EXTENDS AuditChain, FiniteSetTheorems, TLAPS

(* A set of rows with distinct natural ids, all below those of n. *)
Below(rows, n) == n.id \in Nat /\ \A w \in rows : w.id \in Nat /\ w.id < n.id

(***************************************************************************)
(* Adding a signed line that points at the last row keeps a started chain  *)
(* valid: what the insert statement of create_audit_log relies on.         *)
(***************************************************************************)
LEMMA ExtendValid ==
    ASSUME NEW rows, NEW e, NEW last \in rows,
           Below(rows, e), Markers(rows) # {}, IsLast(last, rows),
           \A v, w \in rows : v.id = w.id => v = w,
           e.kind # "marker", Signed(e), e.prev = last.hash, Valid(rows)
    PROVE  Valid(rows \union {e})
<1> DEFINE new == rows \union {e}
<1>1. Markers(new) = Markers(rows)
  BY DEF Markers
<1>2. PICK m \in rows : m \in Markers(rows)
  BY DEF Markers
<1>3. ChainOf(new) = ChainOf(rows) \union {e}
  BY <1>1, <1>2 DEF ChainOf, Below, Markers
<1>4. new \ ChainOf(new) = rows \ ChainOf(rows)
  BY <1>3 DEF Below
<1>5. last \in ChainOf(rows)
  BY <1>2 DEF ChainOf, IsLast
<1>6. Before(e, ChainOf(new)) = {last}
  <2>1. \A v \in ChainOf(rows) : v \in rows /\ v.id \in Nat /\ v.id < e.id /\ v.id <= last.id
    BY DEF ChainOf, Below, IsLast
  <2>2. last \in Before(e, ChainOf(new))
    <3>1. last \in ChainOf(new) /\ last.id < e.id
      BY <1>3, <1>5, <2>1
    <3>2. ASSUME NEW u \in ChainOf(new), u.id < e.id PROVE u.id <= last.id
      <4>1. u # e
        BY <3>2 DEF Below
      <4> QED  BY <1>3, <2>1, <3>2, <4>1
    <3> QED  BY <3>1, <3>2 DEF Before
  <2>3. ASSUME NEW v \in Before(e, ChainOf(new)) PROVE v = last
    <3>1. v \in ChainOf(new) /\ v.id < e.id /\ last.id <= v.id
      BY <1>3, <1>5, <2>1 DEF Before
    <3>2. v \in ChainOf(rows)
      BY <1>3, <3>1 DEF Below
    <3>3. v \in rows /\ v.id = last.id
      BY <1>5, <2>1, <3>1, <3>2
    <3> QED  BY <3>3
  <2> QED  BY <2>2, <2>3
<1>7. ASSUME NEW w \in ChainOf(rows) PROVE Before(w, ChainOf(new)) = Before(w, ChainOf(rows))
  <2>1. w.id \in Nat /\ w.id < e.id /\ e.id \in Nat
    BY DEF ChainOf, Below
  <2>2. \A u : u \in ChainOf(new) /\ u.id < w.id <=> u \in ChainOf(rows) /\ u.id < w.id
    BY <1>3, <2>1
  <2> QED  BY <2>2 DEF Before
<1>8. \A w \in ChainOf(new) : Linked(w, ChainOf(new)) /\ Signed(w)
  <2>1. Linked(e, ChainOf(new))
    BY <1>6 DEF Linked
  <2>2. ASSUME NEW w \in ChainOf(rows) PROVE Linked(w, ChainOf(new)) /\ Signed(w)
    BY <1>7 DEF Linked, Valid
  <2> QED  BY <1>3, <2>1, <2>2
<1> QED
  BY <1>4, <1>8 DEF Valid

(***************************************************************************)
(* Opening a chain: a marker and a first line above the legacy rows form a *)
(* valid chain, whatever the legacy rows point at.                         *)
(***************************************************************************)
LEMMA StartValid ==
    ASSUME NEW rows, NEW m, NEW e,
           Below(rows, m), Below(rows \union {m}, e), Markers(rows) = {},
           IsMarker(m), Signed(m), e.kind # "marker", Signed(e), e.prev = m.hash, Valid(rows)
    PROVE  Valid(rows \union {m, e})
<1> DEFINE new == rows \union {m, e}
<1>1. Markers(new) = {m}
  BY DEF Markers, IsMarker
<1>2. /\ m.id \in Nat /\ e.id \in Nat /\ m.id < e.id
      /\ \A w \in rows : w.id \in Nat /\ w.id < m.id
  BY DEF Below
<1>3. ChainOf(new) = {m, e}
  <2>1. ChainOf(new) = {w \in new : m.id <= w.id}
    BY <1>1 DEF ChainOf
  <2>2. \A w \in rows : ~(m.id <= w.id)
    BY <1>2
  <2>3. m.id <= m.id /\ m.id <= e.id
    BY <1>2
  <2> QED  BY <2>1, <2>2, <2>3
<1>4. ChainOf(rows) = {}
  BY DEF ChainOf
<1>5. new \ ChainOf(new) = rows
  BY <1>2, <1>3
<1>6. Before(m, {m, e}) = {}
  BY <1>2 DEF Before
<1>7. Before(e, {m, e}) = {m}
  BY <1>2 DEF Before
<1>8. Linked(m, {m, e}) /\ Linked(e, {m, e})
  BY <1>6, <1>7 DEF Linked, IsMarker
<1> QED
  BY <1>3, <1>4, <1>5, <1>8 DEF Valid

-----------------------------------------------------------------------------
(* Invariance. *)

(* The initial table holds nothing but well-formed legacy rows. *)
LEMMA InitInv == Init => IInv
<1> SUFFICES ASSUME Init PROVE IInv
  OBVIOUS
<1> USE DEF Init
<1>1. \A o \in Org : Markers(RowsOf(o, table)) = {}
  BY LegacyAssumption DEF Markers, RowsOf
<1>2. TypeOK
  BY LegacyAssumption DEF TypeOK, Kind
<1>3. LockInv
  BY DEF LockInv, Holding
<1>4. IdInv
  BY LegacyAssumption DEF IdInv
<1>5. RequestInv
  BY DEF RequestInv, Fresh, Progress, Holding
<1>6. ChainVerifies
  <2>1. \A o \in Org : ChainOf(RowsOf(o, table)) = {}
    BY <1>1 DEF ChainOf
  <2> QED  BY <2>1, LegacyAssumption DEF ChainVerifies, Valid, RowsOf, Signed
<1>7. CustomerLineFollowsHqLine
  BY LegacyAssumption DEF CustomerLineFollowsHqLine
<1> QED
  BY <1>2, <1>3, <1>4, <1>5, <1>6, <1>7 DEF IInv

(***************************************************************************)
(* A step of somebody else leaves what q knows intact, provided the        *)
(* organization q holds got no new row.                                    *)
(***************************************************************************)
LEMMA Frame ==
    ASSUME NEW q \in Request, TypeOK, TypeOK', Fresh(q), Progress(q),
           nextId <= nextId', table \subseteq table', plan' = plan,
           pending'[q] = pending[q], prev'[q] = prev[q], pc'[q] = pc[q], line'[q] = line[q],
           Holding(q) => RowsOf(LineOrg(q), table') = RowsOf(LineOrg(q), table)
    PROVE  Fresh(q)' /\ Progress(q)'
<1>1. /\ LineOrg(q)' = LineOrg(q)
      /\ LineKind(q)' = LineKind(q)
      /\ HasCustomerLine(q)' = HasCustomerLine(q)
      /\ Holding(q)' = Holding(q)
  BY DEF LineOrg, LineKind, HasCustomerLine, Holding
<1>2. nextId \in Nat /\ nextId' \in Nat
  BY DEF TypeOK
<1>3. CASE ~Holding(q)
  <2>1. pending[q] = {} /\ pending'[q] = {}
    BY <1>3 DEF Progress
  <2>2. line[q] = 2 => HqLineBelow(q, nextId)'
    BY <1>2 DEF Progress, HqLineBelow, TypeOK
  <2> QED
    BY <1>1, <1>3, <2>1, <2>2 DEF Fresh, Progress, Holding
<1>4. CASE Holding(q)
  <2>1. RowsOf(LineOrg(q), table') = RowsOf(LineOrg(q), table)
    BY <1>4
  <2>2. Visible(q)' = Visible(q)
    BY <1>1, <2>1 DEF Visible, RowsOf
  <2>3. Fresh(q)'
    BY <1>1, <1>2, <2>1 DEF Fresh, TypeOK
  <2>4. \A rows : OpensChain(q, rows) => OpensChain(q, rows)'
    BY <1>1, <2>1 DEF OpensChain
  <2>5. \A n : HqLineBelow(q, n) => HqLineBelow(q, n)'
    BY DEF HqLineBelow
  <2>6. \A e : ReadyLine(q, e) => ReadyLine(q, e)'
    BY <1>1, <2>2, <2>4, <2>5 DEF ReadyLine
  <2>7. line[q] = 2 => HqLineBelow(q, nextId)'
    BY <1>2 DEF Progress, HqLineBelow, TypeOK
  <2> QED
    BY <1>1, <2>1, <2>2, <2>3, <2>4, <2>6, <2>7 DEF Progress
<1> QED
  BY <1>3, <1>4

(* Type correctness of every step. *)
LEMMA NextTypeOK == TypeOK /\ [Next]_vars => TypeOK'
<1> SUFFICES ASSUME TypeOK, [Next]_vars PROVE TypeOK'
  OBVIOUS
<1>1. ASSUME NEW r \in Request PROVE LineOrg(r) \in Org /\ LineKind(r) \in Kind
  BY OrgAssumption DEF TypeOK, LineOrg, LineKind, HasCustomerLine, Plan, Kind
<1>2. ASSUME NEW r \in Request, Work(r) PROVE TypeOK'
  BY <1>2 DEF TypeOK, Work, Goto, HasCustomerLine
<1>3. ASSUME NEW r \in Request, LockOrg(r) PROVE TypeOK'
  BY <1>1, <1>3 DEF TypeOK, LockOrg, Goto, HasCustomerLine
<1>4. ASSUME NEW r \in Request, CheckMarker(r) PROVE TypeOK'
  BY <1>4 DEF TypeOK, CheckMarker, Goto, HasCustomerLine
<1>5. ASSUME NEW r \in Request, NEW kind \in Kind, NEW content, NEW p, Insert(r, kind, content, p)
      PROVE  /\ DOMAIN pending' = Request
             /\ nextId' \in Nat
             /\ \A w \in UNION {pending'[q] : q \in Request} :
                   w.id \in Nat /\ w.org \in Org /\ w.kind \in Kind
  <2>1. NewRow(r, kind, content, p).id \in Nat
        /\ NewRow(r, kind, content, p).org \in Org
        /\ NewRow(r, kind, content, p).kind \in Kind
    BY <1>1 DEF NewRow, TypeOK
  <2> QED
    BY <1>5, <2>1 DEF Insert, TypeOK
<1>6. ASSUME NEW r \in Request, InsertMarker(r) PROVE TypeOK'
  <2>1. "marker" \in Kind
    BY DEF Kind
  <2> QED
    BY <1>5, <1>6, <2>1 DEF TypeOK, InsertMarker, Goto, HasCustomerLine
<1>7. ASSUME NEW r \in Request, ReadLast(r) PROVE TypeOK'
  BY <1>7 DEF TypeOK, ReadLast, Goto, HasCustomerLine
<1>8. ASSUME NEW r \in Request, InsertLine(r) PROVE TypeOK'
  BY <1>1, <1>5, <1>8 DEF TypeOK, InsertLine, Goto, HasCustomerLine
<1>9. ASSUME NEW r \in Request, Commit(r) PROVE TypeOK'
  BY <1>1, <1>9 DEF TypeOK, Commit, HasCustomerLine
<1>10. ASSUME NEW r \in Request, Abort(r) PROVE TypeOK'
  BY <1>10 DEF TypeOK, Abort, LocksWithout, HasCustomerLine
<1>11. CASE UNCHANGED vars
  BY <1>11 DEF TypeOK, vars, HasCustomerLine
<1> QED
  BY <1>2, <1>3, <1>4, <1>6, <1>7, <1>8, <1>9, <1>10, <1>11 DEF Next, Step, Rest

(* Rows, locks and program counters keep their types in every execution. *)
THEOREM TypeCorrect == Spec => []TypeOK
<1>1. Init => TypeOK
  BY InitInv DEF IInv
<1> QED
  BY <1>1, NextTypeOK, PTL DEF Spec

(* The organization's row lock keeps belonging to the request inside the protocol. *)
LEMMA NextLockInv ==
    ASSUME TypeOK, LockInv, NEW r \in Request, LockOrg(r) \/ Step(r) \/ Abort(r)
    PROVE  LockInv'
<1>1. \A q \in Request : LineOrg(q) \in Org
  BY OrgAssumption DEF TypeOK, LineOrg, HasCustomerLine, Plan
<1>2. CASE Work(r) \/ CheckMarker(r) \/ InsertMarker(r) \/ ReadLast(r) \/ InsertLine(r)
  <2>1. /\ UNCHANGED <<orgLock, line, plan>>
        /\ \A q \in Request : Holding(q)' <=> Holding(q)
    BY <1>2 DEF TypeOK, Work, CheckMarker, InsertMarker, ReadLast, InsertLine, Goto, Holding
  <2> QED
    BY <2>1, RequestAssumption DEF TypeOK, LockInv, LineOrg
<1>3. CASE LockOrg(r)
  <2>1. /\ UNCHANGED <<line, plan>>
        /\ Holding(r)' /\ ~Holding(r)
        /\ \A q \in Request : q # r => (Holding(q)' <=> Holding(q))
        /\ orgLock[LineOrg(r)] = NoRequest
        /\ orgLock' = [orgLock EXCEPT ![LineOrg(r)] = r]
    BY <1>3 DEF TypeOK, LockOrg, LockIsFree, Goto, Holding
  <2> QED
    BY <1>1, <2>1, RequestAssumption DEF TypeOK, LockInv, LineOrg
<1>4. CASE Commit(r)
  <2>1. /\ UNCHANGED plan
        /\ Holding(r) /\ ~Holding(r)'
        /\ \A q \in Request : q # r => (Holding(q)' <=> Holding(q)) /\ line'[q] = line[q]
        /\ orgLock' = [orgLock EXCEPT ![LineOrg(r)] = NoRequest]
    BY <1>4 DEF TypeOK, Commit, Holding
  <2>2. \A q \in Request : q # r => LineOrg(q)' = LineOrg(q)
    BY <2>1 DEF LineOrg
  <2> QED
    BY <1>1, <2>1, <2>2, RequestAssumption DEF TypeOK, LockInv
<1>5. CASE Abort(r)
  <2>1. /\ UNCHANGED <<line, plan>>
        /\ ~Holding(r)'
        /\ \A q \in Request : q # r => (Holding(q)' <=> Holding(q))
        /\ orgLock' = [o \in Org |-> IF orgLock[o] = r THEN NoRequest ELSE orgLock[o]]
    BY <1>5 DEF TypeOK, Abort, LocksWithout, Holding
  <2> QED
    BY <1>1, <2>1, RequestAssumption DEF TypeOK, LockInv, LineOrg
<1> QED
  BY <1>2, <1>3, <1>4, <1>5 DEF Step

(* While one request executes a statement, every other keeps what it knows. *)
LEMMA NextOthers ==
    ASSUME TypeOK, TypeOK', LockInv, RequestInv,
           NEW r \in Request, LockOrg(r) \/ Step(r) \/ Abort(r),
           NEW q \in Request, q # r
    PROVE  Fresh(q)' /\ Progress(q)'
<1>1. /\ plan' = plan /\ table \subseteq table' /\ nextId <= nextId'
      /\ pending'[q] = pending[q] /\ prev'[q] = prev[q] /\ pc'[q] = pc[q] /\ line'[q] = line[q]
  BY DEF TypeOK, Step, Work, LockOrg, CheckMarker, InsertMarker, ReadLast, InsertLine, Insert,
         Commit, Abort, Goto
<1>2. ASSUME Holding(q) PROVE RowsOf(LineOrg(q), table') = RowsOf(LineOrg(q), table)
  <2>1. CASE Commit(r)
    <3>1. LineOrg(q) # LineOrg(r)
      BY <1>2, <2>1 DEF LockInv, Holding, Commit
    <3>2. \A w \in pending[r] : w.org = LineOrg(r)
      BY DEF RequestInv, Fresh
    <3> QED
      BY <2>1, <3>1, <3>2 DEF Commit, RowsOf
  <2>2. CASE ~Commit(r)
    BY <2>2 DEF Step, Work, LockOrg, CheckMarker, InsertMarker, ReadLast, InsertLine, Abort
  <2> QED  BY <2>1, <2>2
<1> QED
  BY <1>1, <1>2, Frame DEF RequestInv

(* A statement that commits nothing leaves its own request with what the next *)
(* program counter claims to know.                                            *)
LEMMA NextOwn ==
    ASSUME IInv, TypeOK', NEW r \in Request,
           LockOrg(r) \/ (Step(r) /\ ~Commit(r)) \/ Abort(r)
    PROVE  Fresh(r)' /\ Progress(r)'
<1> DEFINE old == RowsOf(LineOrg(r), table)
<1>1. /\ table' = table /\ line' = line
      /\ LineOrg(r)' = LineOrg(r) /\ LineKind(r)' = LineKind(r)
      /\ old' = old
      /\ \A rows : OpensChain(r, rows)' <=> OpensChain(r, rows)
      /\ \A n : HqLineBelow(r, n)' <=> HqLineBelow(r, n)
      /\ nextId \in Nat /\ nextId' \in Nat /\ nextId <= nextId'
  <2>1. table' = table /\ line' = line /\ plan' = plan /\ (nextId' = nextId \/ nextId' = nextId + 1)
    BY DEF Step, Work, LockOrg, CheckMarker, InsertMarker, ReadLast, InsertLine, Insert, Abort
  <2>2. LineOrg(r)' = LineOrg(r) /\ LineKind(r)' = LineKind(r)
    BY <2>1 DEF LineOrg, LineKind
  <2>3. nextId \in Nat /\ nextId' \in Nat /\ nextId <= nextId'
    BY <2>1 DEF IInv, TypeOK
  <2> QED
    BY <2>1, <2>2, <2>3 DEF RowsOf, OpensChain, HqLineBelow
<1>2. line'[r] = 2 => HqLineBelow(r, nextId)'
  <2>1. line[r] = 2 => HqLineBelow(r, nextId)
    BY DEF IInv, RequestInv, Progress
  <2> QED
    BY <1>1, <2>1 DEF HqLineBelow, IInv, TypeOK
<1>3. Fresh(r) /\ Progress(r)
  BY DEF IInv, RequestInv
<1>4. CASE Work(r) \/ LockOrg(r) \/ Abort(r)
  <2>1. pending'[r] = {} /\ pc'[r] \in {"lock", "check", "failed"}
    BY <1>3, <1>4 DEF IInv, TypeOK, Work, LockOrg, Abort, Goto, Progress, Holding
  <2> QED
    BY <1>2, <2>1 DEF Fresh, Progress, Holding
<1>5. CASE CheckMarker(r)
  <2>1. pending[r] = {} /\ pending' = pending /\ nextId' = nextId
    BY <1>3, <1>5 DEF CheckMarker, Goto, Progress
  <2>2. Visible(r) = old
    BY <2>1 DEF Visible, RowsOf
  <2>3. CASE Markers(old) # {}
    <3>1. pc'[r] = "read"
      BY <1>5, <2>2, <2>3 DEF IInv, TypeOK, CheckMarker, ChainStarted, Goto, Markers
    <3>2. OpensChain(r, {})
      BY <2>3 DEF OpensChain
    <3> QED
      BY <1>1, <1>2, <2>1, <3>1, <3>2 DEF Fresh, Progress, Holding
  <2>4. CASE Markers(old) = {}
    <3>1. pc'[r] = "mark"
      BY <1>5, <2>2, <2>4 DEF IInv, TypeOK, CheckMarker, ChainStarted, Goto, Markers
    <3> QED
      BY <1>1, <1>2, <2>1, <2>4, <3>1 DEF Fresh, Progress, Holding
  <2> QED
    BY <2>3, <2>4
<1>6. CASE InsertMarker(r)
  <2> DEFINE m == NewRow(r, "marker", System, NoHash)
  <2>1. pending[r] = {} /\ pending'[r] = {m} /\ pc'[r] = "read" /\ Markers(old) = {}
    BY <1>3, <1>6 DEF IInv, TypeOK, InsertMarker, Insert, Goto, Progress
  <2>2. IsMarker(m) /\ Signed(m) /\ m.org = LineOrg(r) /\ m.id = nextId
    BY DEF NewRow, IsMarker, Signed
  <2>3. nextId' = nextId + 1
    BY <1>6 DEF InsertMarker, Insert
  <2>4. OpensChain(r, {m})
    BY <2>1, <2>2 DEF OpensChain
  <2>5. \A v \in old : v.id < m.id
    BY <2>2 DEF IInv, IdInv, RowsOf
  <2>6. Fresh(r)'
    BY <1>1, <2>1, <2>2, <2>3, <2>5 DEF Fresh, RowsOf
  <2> QED
    BY <1>1, <1>2, <2>1, <2>4, <2>6 DEF Progress, Holding
<1>7. CASE ReadLast(r)
  <2>1. /\ pending' = pending /\ nextId' = nextId /\ pc'[r] = "insert" /\ OpensChain(r, pending[r])
        /\ Visible(r)' = Visible(r)
    BY <1>1, <1>3, <1>7 DEF IInv, TypeOK, ReadLast, Goto, Progress, Visible
  <2>2. Visible(r) # {}
    BY <1>3, <2>1 DEF OpensChain, Markers, Visible, RowsOf, Fresh
  <2>3. \E w \in Visible(r) : IsLast(w, Visible(r)) /\ prev'[r] = w.hash
    BY <1>7, <2>2 DEF IInv, TypeOK, ReadLast
  <2>4. Fresh(r)'
    BY <1>1, <1>3, <2>1 DEF Fresh, RowsOf
  <2> QED
    BY <1>1, <1>2, <2>1, <2>3, <2>4 DEF Progress, Holding
<1>8. CASE InsertLine(r)
  <2> PICK e : e = NewRow(r, LineKind(r), r, prev[r])
    OBVIOUS
  <2>1. /\ pending'[r] = pending[r] \union {e} /\ pc'[r] = "commit" /\ nextId' = nextId + 1
        /\ OpensChain(r, pending[r])
        /\ \E w \in Visible(r) : IsLast(w, Visible(r)) /\ prev[r] = w.hash
    BY <1>3, <1>8 DEF IInv, TypeOK, InsertLine, Insert, Goto, Progress
  <2>2. e.id = nextId /\ e.org = LineOrg(r) /\ e.kind = LineKind(r) /\ e.content = r
        /\ e.prev = prev[r] /\ Signed(e)
    BY DEF NewRow, Signed
  <2>3. \A v \in table \union pending[r] : v.id \in Nat /\ v.id < e.id
    BY <1>3, <2>2 DEF IInv, IdInv, Fresh, TypeOK
  <2>4. e \notin pending[r] /\ e \notin table
    BY <2>3
  <2>5. pending'[r] \ {e} = pending[r] /\ Visible(r)' \ {e} = Visible(r)
    BY <1>1, <2>1, <2>2, <2>4 DEF Visible, RowsOf
  <2>6. Fresh(r)'
    BY <1>1, <1>3, <2>1, <2>2, <2>3 DEF Fresh, RowsOf
  <2>7. line[r] = 2 => HqLineBelow(r, e.id)
    BY <1>3, <2>2 DEF Progress
  <2>8. \A v \in Visible(r) : v.id < e.id
    BY <2>3 DEF Visible, RowsOf
  <2>9. ReadyLine(r, e)'
    BY <1>1, <2>1, <2>2, <2>5, <2>7, <2>8 DEF ReadyLine
  <2> QED
    BY <1>1, <1>2, <2>1, <2>6, <2>9 DEF Progress, Holding
<1> QED
  BY <1>4, <1>5, <1>6, <1>7, <1>8 DEF Step

(***************************************************************************)
(* What a commit adds: behind the rows of its organization comes one line, *)
(* after a marker if the chain had not been opened.                        *)
(***************************************************************************)
LEMMA CommitAdds ==
    ASSUME IInv, NEW r \in Request, Commit(r)
    PROVE  \E e \in pending[r] :
              /\ ReadyLine(r, e)
              /\ e.kind # "marker"
              /\ \/ /\ Markers(RowsOf(LineOrg(r), table)) # {}
                    /\ pending[r] = {e}
                 \/ /\ Markers(RowsOf(LineOrg(r), table)) = {}
                    /\ \E m \in pending[r] : m # e /\ IsMarker(m) /\ m.id < e.id /\ pending[r] = {m, e}
<1>1. PICK e \in pending[r] : ReadyLine(r, e)
  BY DEF IInv, RequestInv, Progress, Commit
<1>2. e.kind # "marker"
  BY <1>1 DEF ReadyLine, LineKind
<1>3. OpensChain(r, pending[r] \ {e})
  BY <1>1 DEF ReadyLine
<1>4. CASE pending[r] \ {e} = {} /\ Markers(RowsOf(LineOrg(r), table)) # {}
  BY <1>1, <1>2, <1>4
<1>5. ASSUME Markers(RowsOf(LineOrg(r), table)) = {},
             NEW m \in pending[r] \ {e}, pending[r] \ {e} = {m}, IsMarker(m)
      PROVE  m \in pending[r] /\ m # e /\ m.id < e.id /\ pending[r] = {m, e}
  <2>1. m \in Visible(r) \ {e}
    BY DEF IInv, RequestInv, Fresh, Visible, RowsOf
  <2> QED
    BY <1>1, <1>5, <2>1 DEF ReadyLine
<1> QED
  BY <1>1, <1>2, <1>3, <1>4, <1>5 DEF OpensChain

LEMMA CommitInv ==
    ASSUME IInv, TypeOK', NEW r \in Request, Commit(r)
    PROVE  Fresh(r)' /\ Progress(r)' /\ IdInv' /\ ChainVerifies' /\ CustomerLineFollowsHqLine'
<1> DEFINE o == LineOrg(r)
           old == RowsOf(o, table)
<1>1. PICK e \in pending[r] :
        /\ ReadyLine(r, e)
        /\ e.kind # "marker"
        /\ \/ /\ Markers(old) # {}
              /\ pending[r] = {e}
           \/ /\ Markers(old) = {}
              /\ \E m \in pending[r] : m # e /\ IsMarker(m) /\ m.id < e.id /\ pending[r] = {m, e}
  BY CommitAdds
<1>2. /\ table' = table \union pending[r] /\ pending'[r] = {} /\ nextId' = nextId
      /\ plan' = plan /\ pc'[r] \in {"lock", "done"}
  BY DEF Commit, IInv, TypeOK
<1>3. \A w \in pending[r] : /\ w.org = o /\ w.id \in Nat /\ w.id < nextId /\ Signed(w)
                             /\ \A v \in old : v.id \in Nat /\ v.id < w.id
  BY DEF IInv, TypeOK, RequestInv, Fresh, RowsOf
<1>4. o \in Org
  BY OrgAssumption DEF IInv, TypeOK, LineOrg, HasCustomerLine, Plan
<1>5. Fresh(r)' /\ Progress(r)'
  <2>1. ASSUME line'[r] = 2 PROVE HqLineBelow(r, nextId)'
    <3>1. CASE line[r] = 2
      BY <1>2, <3>1 DEF IInv, RequestInv, Progress, HqLineBelow
    <3>2. CASE line[r] # 2
      <4>1. line[r] = 1 /\ HasCustomerLine(r)
        BY <2>1, <3>2 DEF Commit, IInv, TypeOK
      <4>2. e.org = HQ /\ e.kind = "ops" /\ e.content = r /\ e.id < nextId'
        BY <1>1, <1>2, <1>3, <4>1 DEF ReadyLine, LineOrg, LineKind, HasCustomerLine
      <4> QED
        BY <1>2, <4>2 DEF HqLineBelow
    <3> QED
      BY <3>1, <3>2
  <2> QED
    BY <1>2, <2>1 DEF Fresh, Progress, Holding
<1>6. IdInv'
  <2>1. \A w \in table' : w.id < nextId'
    BY <1>2, <1>3 DEF IInv, IdInv
  <2>2. ASSUME NEW v \in table', NEW w \in table', v.org = w.org, v.id = w.id PROVE v = w
    <3>1. CASE v \in table /\ w \in table
      BY <2>2, <3>1 DEF IInv, IdInv
    <3>2. CASE v \in pending[r] /\ w \in pending[r]
      BY <1>1, <1>3, <2>2, <3>2
    <3>3. CASE (v \in table /\ w \in pending[r]) \/ (v \in pending[r] /\ w \in table)
      BY <1>3, <2>2, <3>3 DEF RowsOf
    <3> QED
      BY <1>2, <3>1, <3>2, <3>3
  <2> QED
    BY <2>1, <2>2 DEF IdInv
<1>7. ChainVerifies'
  <2>1. ASSUME NEW p \in Org, p # o PROVE Valid(RowsOf(p, table'))
    <3>1. RowsOf(p, table') = RowsOf(p, table)
      BY <1>2, <1>3, <2>1 DEF RowsOf
    <3> QED
      BY <3>1 DEF IInv, ChainVerifies
  <2>2. RowsOf(o, table') = old \union pending[r]
    BY <1>2, <1>3 DEF RowsOf
  <2>3. Valid(old)
    BY <1>4 DEF IInv, ChainVerifies
  <2>4. PICK last \in Visible(r) \ {e} : IsLast(last, Visible(r) \ {e}) /\ e.prev = last.hash
    BY <1>1 DEF ReadyLine
  <2>5. Visible(r) = old \union pending[r]
    BY <1>3 DEF Visible, RowsOf
  <2>6. e \notin old
    BY <1>3
  <2>7. ASSUME Markers(old) # {}, pending[r] = {e} PROVE Valid(RowsOf(o, table'))
    <3>1. Visible(r) \ {e} = old
      BY <2>5, <2>6, <2>7
    <3>2. Below(old, e) /\ \A v, w \in old : v.id = w.id => v = w
      BY <1>3 DEF Below, IInv, IdInv, RowsOf
    <3>3. last \in old /\ IsLast(last, old) /\ e.prev = last.hash
      BY <2>4, <3>1
    <3>4. Valid(old \union {e})
      BY <1>1, <1>3, <2>3, <2>7, <3>2, <3>3, ExtendValid
    <3> QED
      BY <2>2, <2>7, <3>4
  <2>8. ASSUME Markers(old) = {},
               NEW m \in pending[r], m # e, IsMarker(m), m.id < e.id, pending[r] = {m, e}
        PROVE  Valid(RowsOf(o, table'))
    <3>1. Visible(r) \ {e} = old \union {m}
      BY <2>5, <2>6, <2>8
    <3>2. Below(old, m) /\ Below(old \union {m}, e)
      BY <1>3, <2>8 DEF Below
    <3>3. last = m
      BY <1>3, <2>4, <2>8, <3>1 DEF IsLast
    <3> QED
      BY <1>1, <1>3, <2>2, <2>3, <2>4, <2>8, <3>2, <3>3, StartValid
  <2>9. Valid(RowsOf(o, table'))
    BY <1>1, <2>7, <2>8
  <2> QED
    BY <2>1, <2>9 DEF ChainVerifies
<1>8. CustomerLineFollowsHqLine'
  <2> SUFFICES ASSUME NEW w \in table', w.kind = "ops_access", w.content \in Request
               PROVE  \E v \in table' : /\ v.org = HQ /\ v.kind = "ops"
                                        /\ v.content = w.content /\ v.id < w.id
    BY DEF CustomerLineFollowsHqLine
  <2>1. CASE w \in table
    BY <1>2, <2>1 DEF IInv, CustomerLineFollowsHqLine
  <2>2. CASE w \notin table
    <3>1. w = e
      BY <1>1, <1>2, <2>2 DEF IsMarker
    <3>2. line[r] = 2 /\ w.content = r
      BY <1>1, <3>1 DEF ReadyLine, LineKind, IInv, TypeOK
    <3>3. HqLineBelow(r, w.id)
      BY <1>1, <3>1, <3>2 DEF ReadyLine
    <3> QED
      BY <1>2, <3>2, <3>3 DEF HqLineBelow
  <2> QED
    BY <2>1, <2>2
<1> QED
  BY <1>5, <1>6, <1>7, <1>8

LEMMA NextInv == IInv /\ [Next]_vars => IInv'
<1> SUFFICES ASSUME IInv, [Next]_vars PROVE IInv'
  OBVIOUS
<1>1. TypeOK'
  BY NextTypeOK DEF IInv
<1>2. ASSUME NEW r \in Request, LockOrg(r) \/ Step(r) \/ Abort(r) PROVE IInv'
  <2>1. LockInv'
    BY <1>2, NextLockInv DEF IInv
  <2>2. \A q \in Request : q # r => Fresh(q)' /\ Progress(q)'
    BY <1>1, <1>2, NextOthers DEF IInv
  <2>3. CASE Commit(r)
    <3>1. Fresh(r)' /\ Progress(r)' /\ IdInv' /\ ChainVerifies' /\ CustomerLineFollowsHqLine'
      BY <1>1, <2>3, CommitInv
    <3> QED
      BY <1>1, <2>1, <2>2, <3>1 DEF IInv, RequestInv
  <2>4. CASE ~Commit(r)
    <3>1. Fresh(r)' /\ Progress(r)'
      BY <1>1, <1>2, <2>4, NextOwn
    <3>2. table' = table /\ (nextId' = nextId \/ nextId' = nextId + 1)
      BY <1>2, <2>4 DEF Step, Work, LockOrg, CheckMarker, InsertMarker, ReadLast, InsertLine, Insert, Abort
    <3>3. IdInv'
      BY <3>2 DEF IInv, IdInv, TypeOK
    <3>4. ChainVerifies' /\ CustomerLineFollowsHqLine'
      BY <3>2 DEF IInv, ChainVerifies, CustomerLineFollowsHqLine, RowsOf
    <3> QED
      BY <1>1, <2>1, <2>2, <3>1, <3>3, <3>4 DEF IInv, RequestInv
  <2> QED
    BY <2>3, <2>4
<1>3. CASE UNCHANGED vars
  <2>1. /\ plan' = plan /\ table' = table /\ nextId' = nextId /\ pending' = pending
        /\ prev' = prev /\ pc' = pc /\ line' = line
    BY <1>3 DEF vars
  <2>2. nextId <= nextId'
    BY <2>1 DEF IInv, TypeOK
  <2>3. RequestInv'
    BY <1>1, <2>1, <2>2, Frame DEF IInv, RequestInv
  <2> QED
    BY <1>1, <1>3, <2>3 DEF IInv, vars, LockInv, Holding, LineOrg, IdInv, ChainVerifies,
                            CustomerLineFollowsHqLine, RowsOf
<1> QED
  BY <1>2, <1>3 DEF Next, Rest

-----------------------------------------------------------------------------
(* Theorems. *)

(* The inductive invariant holds throughout. *)
THEOREM Invariance == Spec => []IInv
BY InitInv, NextInv, PTL DEF Spec

(***************************************************************************)
(* create_audit_log and verify_audit_chain agree: whatever the             *)
(* interleaving of writers and whichever of them die, the endpoint never   *)
(* reports an untouched trail as compromised.                              *)
(***************************************************************************)
THEOREM NoFalseAlarm == Spec => []ChainVerifies
<1>1. IInv => ChainVerifies
  BY DEF IInv
<1> QED
  BY <1>1, Invariance, PTL

(* log_ops_action writes headquarters' line before the customer's. *)
THEOREM HqLineFirst == Spec => []CustomerLineFollowsHqLine
<1>1. IInv => CustomerLineFollowsHqLine
  BY DEF IInv
<1> QED
  BY <1>1, Invariance, PTL

(* A commit of the detailed protocol is one append to the abstract ledger. *)
LEMMA CommitAppends ==
    ASSUME IInv, NEW r \in Request, Commit(r)
    PROVE  Ledger!Append(LineOrg(r))
<1> DEFINE o == LineOrg(r)
           old == RowsOf(o, table)
           log == {LedgerRow(w) : w \in table}
<1>1. PICK e \in pending[r] :
        /\ ReadyLine(r, e)
        /\ e.kind # "marker"
        /\ \/ /\ Markers(old) # {}
              /\ pending[r] = {e}
           \/ /\ Markers(old) = {}
              /\ \E m \in pending[r] : m # e /\ IsMarker(m) /\ m.id < e.id /\ pending[r] = {m, e}
  BY CommitAdds
<1>2. table' = table \union pending[r]
  BY DEF Commit
<1>3. \A w \in pending[r] : /\ w.org = o /\ w.id \in Nat
                             /\ \A v \in old : v.id \in Nat /\ v.id < w.id
  BY DEF IInv, TypeOK, RequestInv, Fresh, RowsOf
<1>4. Ledger!Log(o) = {LedgerRow(w) : w \in old}
  BY DEF Ledger!Log, RowsOf, LedgerRow
<1>5. \A w \in pending[r] : LedgerRow(w) \notin log /\ \A f \in Ledger!Log(o) : f.id < LedgerRow(w).id
  <2>1. ASSUME NEW w \in pending[r], NEW v \in table, LedgerRow(w) = LedgerRow(v) PROVE FALSE
    <3>1. v.org = o /\ v.id = w.id
      BY <1>3, <2>1 DEF LedgerRow
    <3> QED
      BY <1>3, <3>1 DEF RowsOf
  <2>2. ASSUME NEW w \in pending[r], NEW f \in Ledger!Log(o) PROVE f.id < LedgerRow(w).id
    <3>1. PICK v \in old : f = LedgerRow(v)
      BY <1>4
    <3> QED
      BY <1>3, <3>1 DEF LedgerRow
  <2> QED
    BY <2>1, <2>2
<1>6. Ledger!Markers(o) = {} <=> Markers(old) = {}
  <2>1. \A w \in old : LedgerRow(w).kind = w.kind
    BY DEF LedgerRow
  <2> QED
    BY <1>4, <2>1 DEF Ledger!Markers, Markers
<1>7. {LedgerRow(w) : w \in table'} = log \union {LedgerRow(w) : w \in pending[r]}
  BY <1>2
<1>8. LedgerRow(e).org = o /\ LedgerRow(e).kind # "marker"
  BY <1>1, <1>3 DEF LedgerRow
<1>9. ASSUME Markers(old) # {}, pending[r] = {e} PROVE Ledger!Append(o)
  BY <1>5, <1>6, <1>7, <1>8, <1>9 DEF Ledger!Append
<1>10. ASSUME Markers(old) = {},
              NEW m \in pending[r], IsMarker(m), m.id < e.id, pending[r] = {m, e}
       PROVE  Ledger!Append(o)
  <2>1. LedgerRow(m).org = o /\ LedgerRow(m).kind = "marker" /\ LedgerRow(m).id < LedgerRow(e).id
    BY <1>3, <1>10 DEF LedgerRow, IsMarker
  <2>2. {LedgerRow(w) : w \in table'} = log \union {LedgerRow(m), LedgerRow(e)}
    BY <1>7, <1>10
  <2>3. LedgerRow(e) \notin log /\ \A f \in Ledger!Log(o) : f.id < LedgerRow(e).id /\ f.id < LedgerRow(m).id
    BY <1>5
  <2>4. Ledger!Markers(o) = {}
    BY <1>6, <1>10
  <2> QED
    BY <1>8, <2>1, <2>2, <2>3, <2>4 DEF Ledger!Append
<1> QED
  BY <1>1, <1>9, <1>10

(***************************************************************************)
(* The trail implements the append-only ledger: whatever a reader or an    *)
(* export has seen of an organization stays in place, and every new line   *)
(* comes behind it.                                                        *)
(***************************************************************************)
THEOREM Refinement == Spec => AppendOnlyLedger
<1>1. Init => Ledger!Init
  BY DEF Init, Ledger!Init
<1>2. IInv /\ [Next]_vars => [Ledger!Next]_{LedgerRow(w) : w \in table}
  <2> SUFFICES ASSUME IInv, [Next]_vars, table' # table PROVE Ledger!Next
    OBVIOUS
  <2>1. PICK r \in Request : Commit(r)
    BY DEF Next, Rest, vars, Step, Work, LockOrg, CheckMarker, InsertMarker, ReadLast, InsertLine, Abort
  <2>2. LineOrg(r) \in Org
    BY OrgAssumption DEF IInv, TypeOK, LineOrg, HasCustomerLine, Plan
  <2> QED
    BY <2>1, <2>2, CommitAppends DEF Ledger!Next
<1> QED
  BY <1>1, <1>2, Invariance, PTL DEF Spec, AppendOnlyLedger, Ledger!Spec

-----------------------------------------------------------------------------
(* The trail and the requests. *)

\* The kinds of the lines a request has committed.
Written(r) ==
    IF pc[r] = "done"
    THEN IF HasCustomerLine(r) THEN {"ops", "ops_access"} ELSE {LineKind(r)}
    ELSE IF line[r] = 2 THEN {"ops"} ELSE {}

\* One line of each of these kinds is in the trail, and no other.
TrailOf(r) ==
    /\ {w.kind : w \in LinesOf(r)} = Written(r)
    /\ \A v, w \in LinesOf(r) : v.kind = w.kind => v = w

TrailInv ==
    \A r \in Request :
        /\ TrailOf(r)
        /\ pc[r] = "done" => (HasCustomerLine(r) <=> line[r] = 2)
        /\ r \notin changed => pc[r] \in {"work", "failed"} /\ line[r] = 1
        /\ \A w \in pending[r] : w.kind = "marker" => w.content = System

LEMMA TrailInit == Init => TrailInv
<1> SUFFICES ASSUME Init, NEW r \in Request
             PROVE  /\ LinesOf(r) = {} /\ pc[r] = "work" /\ line[r] = 1 /\ pending[r] = {}
  BY DEF TrailInv, TrailOf, Written
<1> QED  BY LegacyAssumption DEF Init, LinesOf

(* A statement that commits nothing leaves the trail as it is. *)
LEMMA TrailKept ==
    ASSUME IInv, TrailInv, NEW r \in Request, LockOrg(r) \/ (Step(r) /\ ~Commit(r)) \/ Abort(r)
    PROVE  TrailInv'
<1>1. /\ table' = table /\ line' = line /\ plan' = plan /\ changed \subseteq changed'
      /\ pc' = [pc EXCEPT ![r] = pc'[r]] /\ pc[r] # "done" /\ pc'[r] # "done"
  BY DEF IInv, TypeOK, Step, Work, LockOrg, CheckMarker, InsertMarker, ReadLast, InsertLine, Insert, Abort, Goto
<1>2. r \in changed' \/ (pc'[r] = "failed" /\ line[r] = 1)
  BY DEF IInv, TypeOK, TrailInv, Step, Work, LockOrg, CheckMarker, InsertMarker, ReadLast, InsertLine, Abort, Goto
<1>3. \A q \in Request : \A w \in pending'[q] : w.kind = "marker" => w.content = System
  <2>1. CASE InsertMarker(r)
    BY <2>1 DEF IInv, TypeOK, TrailInv, InsertMarker, Insert, NewRow
  <2>2. CASE InsertLine(r)
    <3>1. LineKind(r) # "marker"
      BY DEF LineKind
    <3> QED  BY <2>2, <3>1 DEF IInv, TypeOK, TrailInv, InsertLine, Insert, NewRow
  <2>3. CASE Abort(r)
    BY <2>3 DEF IInv, TypeOK, TrailInv, Abort
  <2> QED  BY <2>1, <2>2, <2>3 DEF TrailInv, Step, Work, LockOrg, CheckMarker, ReadLast
<1> SUFFICES ASSUME NEW q \in Request
             PROVE  /\ TrailOf(q)'
                    /\ pc'[q] = "done" => (HasCustomerLine(q) <=> line[q] = 2)'
                    /\ q \notin changed' => pc'[q] \in {"work", "failed"} /\ line'[q] = 1
  BY <1>3 DEF TrailInv
<1>4. LinesOf(q)' = LinesOf(q) /\ HasCustomerLine(q)' = HasCustomerLine(q) /\ LineKind(q)' = LineKind(q)
  BY <1>1 DEF LinesOf, HasCustomerLine, LineKind
<1>5. pc'[q] = "done" <=> pc[q] = "done"
  BY <1>1 DEF IInv, TypeOK
<1>6. Written(q)' = Written(q)
  BY <1>1, <1>4, <1>5 DEF Written
<1>7. q # r => pc'[q] = pc[q]
  BY <1>1 DEF IInv, TypeOK
<1> QED  BY <1>1, <1>2, <1>4, <1>5, <1>6, <1>7 DEF TrailInv, TrailOf

(* A commit adds the line the request was writing. *)
LEMMA TrailGrows ==
    ASSUME IInv, TrailInv, NEW r \in Request, Commit(r)
    PROVE  TrailInv'
<1>1. PICK e \in pending[r] :
         /\ e.kind = LineKind(r) /\ e.content = r
         /\ \A w \in pending[r] : w = e \/ w.kind = "marker"
  <2>1. PICK e \in pending[r] :
           /\ ReadyLine(r, e)
           /\ \/ pending[r] = {e}
              \/ \E m \in pending[r] : IsMarker(m) /\ pending[r] = {m, e}
    BY CommitAdds
  <2>2. \A w \in pending[r] : w = e \/ w.kind = "marker"
    BY <2>1 DEF IsMarker
  <2>3. e.kind = LineKind(r) /\ e.content = r
    BY <2>1 DEF ReadyLine
  <2> QED  BY <2>2, <2>3
<1>2. /\ table' = table \union pending[r] /\ pc[r] = "commit" /\ plan' = plan /\ changed' = changed
      /\ pending' = [pending EXCEPT ![r] = {}]
  BY DEF Commit
<1>3. LinesOf(r)' = LinesOf(r) \union {e}
  BY <1>1, <1>2, RequestAssumption DEF LinesOf, TrailInv
<1>4. \A q \in Request \ {r} : LinesOf(q)' = LinesOf(q) /\ pc'[q] = pc[q] /\ line'[q] = line[q]
  <2>1. \A w \in pending[r] : w.content \in {r, System}
    BY <1>1 DEF TrailInv
  <2> QED  BY <1>2, <2>1, RequestAssumption DEF LinesOf, Commit, IInv, TypeOK
<1>5. \A q \in Request : HasCustomerLine(q)' = HasCustomerLine(q)
  BY <1>2 DEF HasCustomerLine
<1>6. ASSUME NEW q \in Request \ {r}
      PROVE  /\ TrailOf(q)'
             /\ pc'[q] = "done" => (HasCustomerLine(q) <=> line[q] = 2)'
             /\ q \notin changed' => pc'[q] \in {"work", "failed"} /\ line'[q] = 1
  <2>1. Written(q)' = Written(q)
    BY <1>2, <1>4, <1>5 DEF Written, LineKind
  <2> QED  BY <1>2, <1>4, <1>5, <2>1 DEF TrailInv, TrailOf
<1>7. r \in changed'
  BY <1>2 DEF TrailInv
<1>8. line[r] \in {1, 2} /\ (line[r] = 2 => HasCustomerLine(r))
  BY DEF IInv, TypeOK
<1>9. TrailOf(r)' /\ (pc'[r] = "done" => (HasCustomerLine(r) <=> line[r] = 2)')
  <2>1. CASE line[r] = 2
    <3>1. LineKind(r) = "ops_access" /\ Written(r) = {"ops"} /\ pc'[r] = "done" /\ line'[r] = 2
      BY <1>2, <1>8, <2>1 DEF LineKind, Written, HasCustomerLine, Commit, IInv, TypeOK
    <3>2. Written(r)' = {"ops", "ops_access"}
      BY <1>5, <1>8, <2>1, <3>1 DEF Written
    <3> QED  BY <1>1, <1>3, <1>5, <1>8, <2>1, <3>1, <3>2 DEF TrailInv, TrailOf
  <2>2. CASE line[r] = 1
    <3>1. LinesOf(r) = {} /\ LinesOf(r)' = {e}
      BY <1>2, <1>3, <2>2 DEF TrailInv, TrailOf, Written
    <3>2. CASE HasCustomerLine(r)
      <4>1. pc'[r] = "lock" /\ line'[r] = 2 /\ LineKind(r) = "ops"
        BY <2>2, <3>2 DEF Commit, IInv, TypeOK, LineKind, HasCustomerLine
      <4> QED  BY <1>1, <3>1, <4>1 DEF TrailOf, Written
    <3>3. CASE ~HasCustomerLine(r)
      <4>1. pc'[r] = "done" /\ line'[r] = 1 /\ LineKind(r)' = LineKind(r)
        BY <1>2, <2>2, <3>3 DEF Commit, IInv, TypeOK, LineKind
      <4> QED  BY <1>1, <1>5, <3>1, <3>3, <4>1 DEF TrailOf, Written
    <3> QED  BY <3>2, <3>3
  <2> QED  BY <1>8, <2>1, <2>2
<1>10. \A q \in Request : \A w \in pending'[q] : w.kind = "marker" => w.content = System
  BY <1>2 DEF TrailInv, IInv, TypeOK
<1> QED  BY <1>6, <1>7, <1>9, <1>10 DEF TrailInv

LEMMA NextTrailInv == IInv /\ TrailInv /\ [Next]_vars => TrailInv'
<1> SUFFICES ASSUME IInv, TrailInv, [Next]_vars PROVE TrailInv'
  OBVIOUS
<1>1. CASE UNCHANGED vars
  BY <1>1 DEF vars, TrailInv, TrailOf, Written, LinesOf, HasCustomerLine, LineKind
<1>2. ASSUME NEW r \in Request, LockOrg(r) \/ Step(r) \/ Abort(r) PROVE TrailInv'
  BY <1>2, TrailKept, TrailGrows
<1> QED  BY <1>1, <1>2 DEF Next, Rest

(***************************************************************************)
(* The trail matches what happened, for any number of requests and         *)
(* organizations: log_ops_action's two lines, create_audit_log's one, each *)
(* exactly once when the request was answered, none without a change.      *)
(***************************************************************************)
THEOREM TrailIsExact == Spec => []TrailMatchesRequests
<1>1. TrailInv => TrailMatchesRequests
  <2> SUFFICES ASSUME TrailInv, NEW r \in Request
               PROVE  /\ pc[r] = "done" => Cardinality(LinesOf(r)) = IF HasCustomerLine(r) THEN 2 ELSE 1
                      /\ r \notin changed => LinesOf(r) = {}
                      /\ \A v, w \in LinesOf(r) : v.kind = w.kind => v = w
    BY DEF TrailMatchesRequests
  <2>1. TrailOf(r)
    BY DEF TrailInv
  <2>2. r \notin changed => LinesOf(r) = {}
    BY <2>1 DEF TrailInv, TrailOf, Written
  <2>3. ASSUME pc[r] = "done", HasCustomerLine(r) PROVE Cardinality(LinesOf(r)) = 2
    <3>1. PICK v \in LinesOf(r), w \in LinesOf(r) : v.kind = "ops" /\ w.kind = "ops_access"
      BY <2>1, <2>3 DEF TrailOf, Written
    <3>2. LinesOf(r) = {v} \union {w} /\ v # w
      BY <2>1, <2>3, <3>1 DEF TrailOf, Written
    <3>3. IsFiniteSet({v}) /\ Cardinality({v}) = 1
      BY FS_Singleton
    <3>4. Cardinality({v} \union {w}) = 2
      BY <3>2, <3>3, FS_AddElement
    <3> QED  BY <3>2, <3>4
  <2>4. ASSUME pc[r] = "done", ~HasCustomerLine(r) PROVE Cardinality(LinesOf(r)) = 1
    <3>1. PICK v \in LinesOf(r) : v.kind = LineKind(r)
      BY <2>1, <2>4 DEF TrailOf, Written
    <3>2. LinesOf(r) = {v}
      BY <2>1, <2>4, <3>1 DEF TrailOf, Written
    <3> QED  BY <3>2, FS_Singleton
  <2> QED  BY <2>1, <2>2, <2>3, <2>4 DEF TrailOf
<1> QED  BY <1>1, NextTrailInv, TrailInit, Invariance, PTL DEF Spec

-----------------------------------------------------------------------------
(* Where rows come from. *)

\* A row that is not a legacy row is newer than all of them; it is a marker or a
\* request's line.
WrittenRow(w) ==
    /\ w.id \in Nat /\ w.id >= FirstId
    /\ \/ w.content = System /\ w.kind = "marker"
       \/ w.content \in Request

OriginInv ==
    /\ nextId \in Nat /\ nextId >= FirstId
    /\ \A w \in table : w \in Legacy \/ WrittenRow(w)
    /\ \A r \in Request : \A w \in pending[r] : WrittenRow(w)

LEMMA OriginInit == Init => OriginInv
BY LegacyAssumption DEF Init, OriginInv

LEMMA NextOriginInv == TypeOK /\ OriginInv /\ [Next]_vars => OriginInv'
<1> SUFFICES ASSUME TypeOK, OriginInv, [Next]_vars PROVE OriginInv'
  OBVIOUS
<1>1. CASE UNCHANGED vars
  BY <1>1 DEF vars, OriginInv
<1>2. ASSUME NEW r \in Request, NEW kind, NEW content, NEW p, Insert(r, kind, content, p), table' = table,
             (content = System /\ kind = "marker") \/ content \in Request
      PROVE  OriginInv'
  <2>1. nextId' \in Nat /\ nextId' >= FirstId
    BY <1>2, LegacyAssumption DEF OriginInv, Insert
  <2>2. WrittenRow(NewRow(r, kind, content, p))
    BY <1>2 DEF OriginInv, WrittenRow, NewRow
  <2> QED
    BY <1>2, <2>1, <2>2 DEF OriginInv, Insert, TypeOK
<1>3. ASSUME NEW r \in Request, LockOrg(r) \/ Step(r) \/ Abort(r) PROVE OriginInv'
  <2>1. CASE InsertMarker(r)
    BY <1>2, <2>1 DEF InsertMarker
  <2>2. CASE InsertLine(r)
    BY <1>2, <2>2 DEF InsertLine
  <2>3. CASE Commit(r)
    BY <2>3 DEF OriginInv, Commit, TypeOK
  <2>4. CASE Abort(r)
    BY <2>4 DEF OriginInv, Abort, TypeOK
  <2>5. CASE LockOrg(r) \/ Work(r) \/ CheckMarker(r) \/ ReadLast(r)
    BY <2>5 DEF OriginInv, LockOrg, Work, CheckMarker, ReadLast
  <2> QED  BY <1>3, <2>1, <2>2, <2>3, <2>4, <2>5 DEF Step
<1> QED  BY <1>1, <1>3 DEF Next, Rest
=============================================================================
