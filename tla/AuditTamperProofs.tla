------------------------- MODULE AuditTamperProofs -------------------------
(***************************************************************************)
(* Theorems about an audit trail that somebody writes to behind the        *)
(* application's back, for any organizations, requests, plans, legacy      *)
(* rows, contents and texts: the verdict of GET /audit/verify is exact.    *)
(***************************************************************************)
EXTENDS AuditTamper, AuditChainProofs, WellFoundedInduction

-----------------------------------------------------------------------------
(* Signatures. *)

\* A signature is neither NULL nor somebody's invention.
LEMMA SignedHash == \A w : Signed(w) => w.hash # NoHash /\ w.hash # Garbage
<1>1. ASSUME NEW a, NEW b PROVE <<a, b>> # <<>> /\ <<a, b>> # <<0>>
  OBVIOUS
<1> QED  BY <1>1 DEF Signed, HMAC, NoHash, Garbage

\* Equal signatures sign equal texts behind equal predecessors.
LEMMA SameText ==
    ASSUME NEW v, NEW w, Signed(v), Signed(w), v.hash = w.hash
    PROVE  Text(v.org, v.kind, v.content) = Text(w.org, w.kind, w.content) /\ v.prev = w.prev
BY DEF Signed, HMAC

\* A row that reads the same is signed when the other is.
LEMMA SameSignature ==
    ASSUME NEW w, NEW v, ReadsTheSame(w, v)
    PROVE  Signed(v) <=> Signed(w)
BY DEF ReadsTheSame, Signed, HMAC

(***************************************************************************)
(* Whoever has no key cannot sign: a row that does not read as it did is   *)
(* no longer signed.                                                       *)
(***************************************************************************)
LEMMA Unsigned ==
    ASSUME NEW w, w.hash = NoHash \/ Signed(w), NEW v \in Forgeries(w), ~ReadsTheSame(w, v)
    PROVE  ~Signed(v)
<1> SUFFICES ASSUME Signed(v) PROVE FALSE
  OBVIOUS
<1>1. v.hash \in {w.hash, NoHash, Garbage}
  BY DEF Forgeries
<1>2. v.hash = w.hash /\ Signed(w)
  BY <1>1, SignedHash
<1>3. ReadsTheSame(w, v)
  BY <1>2, SameText DEF ReadsTheSame
<1> QED  BY <1>3

-----------------------------------------------------------------------------
(* What a table's verdict depends on. *)

\* Rows x and y look alike to verification.
Alike(x, y) ==
    /\ x.id = y.id /\ x.prev = y.prev /\ x.hash = y.hash
    /\ x.kind = "marker" <=> y.kind = "marker"
    /\ Signed(x) <=> Signed(y)

LEMMA AlikeValid ==
    ASSUME NEW rows, NEW others, Valid(rows),
           \A x \in others : \E y \in rows : Alike(x, y),
           \A y \in rows : \E x \in others : Alike(x, y)
    PROVE  Valid(others)
<1>1. \A x \in others, y \in rows : Alike(x, y) => (x \in ChainOf(others) <=> y \in ChainOf(rows))
  BY DEF ChainOf, Markers, Alike
<1>2. ASSUME NEW x \in others \ ChainOf(others) PROVE x.hash = NoHash \/ Signed(x)
  <2>1. PICK y \in rows : Alike(x, y)
    OBVIOUS
  <2> QED  BY <1>1, <2>1 DEF Valid, Alike
<1>3. ASSUME NEW x \in others, NEW y \in rows, Alike(x, y),
             NEW u \in others, NEW v \in rows, Alike(u, v)
      PROVE  u \in Before(x, ChainOf(others)) <=> v \in Before(y, ChainOf(rows))
  <2>1. u \in ChainOf(others) <=> v \in ChainOf(rows)
    BY <1>1, <1>3
  <2>2. u.id = v.id /\ x.id = y.id
    BY <1>3 DEF Alike
  <2>3. ASSUME NEW a \in ChainOf(others) PROVE \E b \in ChainOf(rows) : b.id = a.id
    <3>1. a \in others
      BY DEF ChainOf
    <3>2. PICK b \in rows : Alike(a, b)
      BY <3>1
    <3> QED  BY <1>1, <3>1, <3>2 DEF Alike
  <2>4. ASSUME NEW b \in ChainOf(rows) PROVE \E a \in ChainOf(others) : b.id = a.id
    <3>1. b \in rows
      BY DEF ChainOf
    <3>2. PICK a \in others : Alike(a, b)
      BY <3>1
    <3> QED  BY <1>1, <3>1, <3>2 DEF Alike
  <2> QED  BY <2>1, <2>2, <2>3, <2>4 DEF Before
<1>4. ASSUME NEW x \in ChainOf(others) PROVE Linked(x, ChainOf(others)) /\ Signed(x)
  <2>1. x \in others
    BY DEF ChainOf
  <2>2. PICK y \in rows : Alike(x, y)
    BY <2>1
  <2>3. Linked(y, ChainOf(rows)) /\ Signed(y)
    BY <1>1, <2>1, <2>2 DEF Valid
  <2>4. ASSUME Before(x, ChainOf(others)) = {} PROVE x.prev = NoHash
    <3>1. Before(y, ChainOf(rows)) = {}
      <4> SUFFICES ASSUME NEW v \in Before(y, ChainOf(rows)) PROVE FALSE
        OBVIOUS
      <4>1. v \in rows
        BY DEF Before, ChainOf
      <4>2. PICK u \in others : Alike(u, v)
        BY <4>1
      <4> QED  BY <1>3, <2>1, <2>2, <2>4, <4>1, <4>2
    <3> QED  BY <2>2, <2>3, <3>1 DEF Linked, Alike
  <2>5. ASSUME NEW u \in Before(x, ChainOf(others)) PROVE x.prev = u.hash
    <3>1. u \in others
      BY DEF Before, ChainOf
    <3>2. PICK v \in rows : Alike(u, v)
      BY <3>1
    <3>3. v \in Before(y, ChainOf(rows))
      BY <1>3, <2>1, <2>2, <2>5, <3>1, <3>2
    <3> QED  BY <2>2, <2>3, <3>2, <3>3 DEF Linked, Alike
  <2> QED  BY <2>2, <2>3, <2>4, <2>5 DEF Linked, Alike
<1> QED  BY <1>2, <1>4 DEF Valid

\* Rows that form no chain are judged one by one.
LEMMA UnchainedValid ==
    ASSUME NEW rows, NEW others, Valid(rows), Markers(others) = {},
           \A x \in others : x \in rows \/ x.hash = NoHash \/ Signed(x)
    PROVE  Valid(others)
BY DEF Valid, ChainOf

\* Legacy rows may go, or lose their hash.
LEMMA SameChainValid ==
    ASSUME NEW rows, NEW others, Valid(rows), ChainOf(others) = ChainOf(rows),
           \A x \in others \ ChainOf(others) : x \in rows \/ x.hash = NoHash
    PROVE  Valid(others)
BY DEF Valid

\* So may the last line of a chain.
LEMMA TailRemovedValid ==
    ASSUME NEW rows, Valid(rows), NEW w \in rows, w.kind # "marker",
           \A x \in rows : x.id \in Nat /\ x.id <= w.id
    PROVE  Valid(rows \ {w})
<1> DEFINE rest == rows \ {w}
<1>1. ChainOf(rest) = ChainOf(rows) \ {w}
  BY DEF ChainOf, Markers
<1>2. ASSUME NEW x \in ChainOf(rest) PROVE Before(x, ChainOf(rest)) = Before(x, ChainOf(rows))
  <2>1. x \in rows /\ w.id \in Nat
    BY DEF ChainOf
  <2>2. ~(w.id < x.id)
    BY <2>1
  <2>3. \A u : u \in ChainOf(rest) /\ u.id < x.id <=> u \in ChainOf(rows) /\ u.id < x.id
    BY <1>1, <2>2
  <2> QED  BY <2>3 DEF Before
<1> QED  BY <1>1, <1>2 DEF Valid, Linked

\* Ids have a least among any of them, and a greatest among any that are bounded.
LEMMA LeastId ==
    ASSUME NEW rows, rows # {}, \A w \in rows : w.id \in Nat
    PROVE  \E u \in rows : \A v \in rows : u.id <= v.id
<1> DEFINE ids == {w.id : w \in rows}
           less == OpToRel(<, Nat)
<1>1. ids \subseteq Nat /\ ids # {}
  OBVIOUS
<1>2. IsWellFoundedOn(less, Nat)
  BY NatLessThanWellFounded
<1>3. \A m, n \in Nat : <<m, n>> \in less <=> m < n
  BY DEF OpToRel
<1> HIDE DEF less, ids
<1>4. PICK x \in ids : \A y \in ids : <<y, x>> \notin less
  BY <1>1, <1>2, WFMin
<1>5. PICK u \in rows : x = u.id
  BY DEF ids
<1>6. \A v \in rows : ~(v.id < u.id)
  BY <1>1, <1>3, <1>4, <1>5 DEF ids
<1> QED
  BY <1>6

LEMMA GreatestId ==
    ASSUME NEW rows, rows # {}, NEW n \in Nat, \A w \in rows : w.id \in Nat /\ w.id <= n
    PROVE  \E u \in rows : \A v \in rows : v.id <= u.id
<1> DEFINE left == {[id |-> n - w.id, row |-> w] : w \in rows}
<1>1. left # {} /\ \A x \in left : x.id \in Nat
  <2>1. PICK w \in rows : TRUE
    OBVIOUS
  <2>2. [id |-> n - w.id, row |-> w] \in left
    BY <2>1
  <2>3. \A v \in rows : n - v.id \in Nat
    OBVIOUS
  <2>4. \A x \in left : x.id \in Nat
    BY <2>3
  <2> QED  BY <2>2, <2>4
<1> HIDE DEF left
<1>2. PICK x \in left : \A y \in left : x.id <= y.id
  BY <1>1, LeastId
<1>3. PICK u \in rows : x = [id |-> n - u.id, row |-> u]
  BY DEF left
<1>4. ASSUME NEW v \in rows PROVE v.id <= u.id
  <2>1. [id |-> n - v.id, row |-> v] \in left
    BY DEF left
  <2>2. n - u.id <= n - v.id
    BY <1>2, <1>3, <2>1
  <2> QED  BY <2>2
<1> QED  BY <1>4

(***************************************************************************)
(* A row taken out of a chain leaves a successor whose previous_hash is    *)
(* not its new predecessor's, for no two rows have the same signature.     *)
(***************************************************************************)
LEMMA RemovalShows ==
    ASSUME NEW rows, \A x \in rows : x.id \in Nat, \A x, y \in rows : x.id = y.id => x = y,
           Valid(rows), NEW w \in ChainOf(rows), w.kind # "marker",
           NEW v \in rows, v.id > w.id,
           \A x \in ChainOf(rows) : x.hash = w.hash => x = w
    PROVE  ~Valid(rows \ {w}) /\ \E x \in rows : x.id > w.id /\ x.prev = w.hash
<1> DEFINE chain == ChainOf(rows)
           rest == ChainOf(rows \ {w})
<1>1. PICK m \in rows : m.kind = "marker" /\ m.id <= w.id
  BY DEF ChainOf, Markers
<1>2. chain \subseteq rows /\ m \in chain /\ v \in chain /\ m.id < w.id
  BY <1>1 DEF ChainOf, Markers
<1>3. Markers(rows \ {w}) = Markers(rows)
  BY DEF Markers
<1>4. rest = chain \ {w}
  BY <1>3 DEF ChainOf
<1> HIDE DEF chain, rest
<1>5. PICK before \in chain : before.id < w.id /\ \A x \in chain : x.id < w.id => x.id <= before.id
  <2> DEFINE lower == {x \in chain : x.id < w.id}
  <2>1. lower # {} /\ w.id \in Nat /\ \A x \in lower : x.id \in Nat /\ x.id <= w.id
    BY <1>2 DEF ChainOf
  <2>2. PICK u \in lower : \A x \in lower : x.id <= u.id
    BY <2>1, GreatestId
  <2> QED  BY <2>2
<1>6. PICK next \in chain : next.id > w.id /\ \A x \in chain : x.id > w.id => next.id <= x.id
  <2> DEFINE upper == {x \in chain : x.id > w.id}
  <2>1. upper # {} /\ \A x \in upper : x.id \in Nat
    BY <1>2
  <2>2. PICK u \in upper : \A x \in upper : u.id <= x.id
    BY <2>1, LeastId
  <2> QED  BY <2>2
<1>7. w \in chain /\ \A x \in chain : x.id \in Nat
  BY <1>2 DEF chain
<1>8. next.prev = w.hash
  <2>1. w \in Before(next, chain)
    BY <1>6, <1>7 DEF Before
  <2> QED  BY <2>1 DEF Valid, Linked, chain
<1>9. before \in Before(next, rest) /\ next \in rest
  <2>1. before \in rest /\ next \in rest /\ before.id < next.id
    BY <1>4, <1>5, <1>6, <1>7
  <2>2. ASSUME NEW x \in rest, x.id < next.id PROVE x.id <= before.id
    <3>1. x \in chain /\ x # w /\ x.id \in Nat /\ w.id \in Nat /\ next.id \in Nat
      BY <1>4, <1>7
    <3>2. x.id # w.id
      BY <1>2, <1>7, <3>1
    <3>3. ~(x.id > w.id)
      BY <1>6, <2>2, <3>1
    <3> QED  BY <1>5, <3>1, <3>2, <3>3
  <2> QED  BY <2>1, <2>2 DEF Before
<1>10. before.hash # w.hash
  BY <1>5, <1>7 DEF chain
<1>11. ~Valid(rows \ {w})
  <2> SUFFICES ASSUME Valid(rows \ {w}) PROVE FALSE
    OBVIOUS
  <2>1. Linked(next, rest)
    BY <1>9 DEF Valid, rest
  <2>2. next.prev = before.hash
    BY <1>9, <2>1 DEF Linked
  <2> QED  BY <1>8, <1>10, <2>2
<1>12. next \in rows
  BY <1>2
<1> QED  BY <1>6, <1>8, <1>11, <1>12

-----------------------------------------------------------------------------
(* What appending does to a verdict. *)

\* Rows behind a compromised trail do not make up for it.
LEMMA StaysCondemned ==
    ASSUME NEW rows, NEW more, \A x \in rows : x.id \in Nat, \A e \in more : e.id \in Nat,
           \A x \in rows, e \in more : x.id < e.id, Valid(rows \union more)
    PROVE  Valid(rows)
<1> DEFINE all == rows \union more
<1>1. \A x \in rows : x \in ChainOf(all) <=> x \in ChainOf(rows)
  BY DEF ChainOf, Markers
<1>2. ASSUME NEW x \in ChainOf(rows) PROVE Before(x, ChainOf(all)) = Before(x, ChainOf(rows))
  <2>1. x \in rows
    BY DEF ChainOf
  <2>2. ASSUME NEW u PROVE u \in ChainOf(all) /\ u.id < x.id <=> u \in ChainOf(rows) /\ u.id < x.id
    <3>1. CASE u \in rows
      BY <1>1, <3>1
    <3>2. CASE u \in more
      BY <2>1, <3>2 DEF ChainOf
    <3>3. CASE u \notin rows /\ u \notin more
      BY <3>3 DEF ChainOf
    <3> QED  BY <3>1, <3>2, <3>3
  <2> QED  BY <2>2 DEF Before
<1>3. \A x \in rows \ ChainOf(rows) : x.hash = NoHash \/ Signed(x)
  BY <1>1 DEF Valid
<1>4. \A x \in ChainOf(rows) : Linked(x, ChainOf(rows)) /\ Signed(x)
  <2>1. \A x \in ChainOf(rows) : x \in rows
    BY DEF ChainOf
  <2> QED  BY <1>1, <1>2, <2>1 DEF Valid, Linked
<1> QED  BY <1>3, <1>4 DEF Valid

\* A line that points at a row that is no longer the last one breaks the chain.
LEMMA StaleLinkShows ==
    ASSUME NEW rows, NEW e, Below(rows, e), NEW last \in rows, IsLast(last, rows),
           Markers(rows) # {}, e.prev # last.hash
    PROVE  ~Valid(rows \union {e})
<1> DEFINE all == rows \union {e}
<1>1. PICK m \in rows : m.kind = "marker"
  BY DEF Markers
<1>2. m.id <= last.id /\ m.id \in Nat /\ last.id \in Nat /\ e.id \in Nat /\ last.id < e.id /\ m.id < e.id
  BY DEF Below, IsLast
<1>3. last \in ChainOf(all) /\ e \in ChainOf(all)
  <2>1. m \in Markers(all)
    BY <1>1 DEF Markers
  <2>2. m.id <= e.id
    BY <1>2
  <2> QED  BY <1>2, <2>1, <2>2 DEF ChainOf
<1>4. last \in Before(e, ChainOf(all))
  <2>1. ASSUME NEW u \in ChainOf(all), u.id < e.id PROVE u.id <= last.id
    BY <1>2, <2>1 DEF ChainOf, IsLast
  <2> QED  BY <1>2, <1>3, <2>1 DEF Before
<1>5. ~Linked(e, ChainOf(all))
  BY <1>4 DEF Linked
<1> QED  BY <1>3, <1>5 DEF Valid

-----------------------------------------------------------------------------
(* The inductive invariant. *)

Rows(r) == RowsOf(LineOrg(r), table)

\* No trail is opened twice.
OneMarker == \A o \in Org : \A m, n \in Markers(RowsOf(o, table)) : m = n

\* Nobody has touched anything.
Clean ==
    /\ tampered = [o \in Org |-> {}]
    /\ IInv /\ TrailInv /\ OriginInv /\ OneMarker

\* The rows an open transaction holds before its line.
Opens(r, rows) ==
    \/ rows = {}
    \/ Markers(Rows(r)) = {} /\ \E m \in rows : rows = {m} /\ IsMarker(m)

\* h is the hash of a row that came last when it was read and is gone since.
Stale(touches, h, seen) ==
    \E c \in touches : c.now = {} /\ h = c.was.hash /\ \A x \in seen : x.id < c.was.id

\* h is the hash of the last row, unless nothing seen forms a chain.
LinksTo(touches, h, seen) ==
    \/ Markers(seen) = {}
    \/ \E x \in seen : IsLast(x, seen) /\ h = x.hash
    \/ Stale(touches, h, seen)

ReadyBehind(r, e) ==
    /\ e.kind = LineKind(r) /\ e.content = r
    /\ Opens(r, pending[r] \ {e})
    /\ \A v \in Visible(r) \ {e} : v.id < e.id
    /\ LinksTo(tampered[LineOrg(r)], e.prev, Visible(r) \ {e})

\* What each program counter knows of a trail that still verifies.
Knows(r) ==
    /\ pc[r] = "mark" => Markers(Rows(r)) = {}
    /\ pc[r] \in {"read", "insert"} => Opens(r, pending[r])
    /\ pc[r] = "insert" => LinksTo(tampered[LineOrg(r)], prev[r], Visible(r))
    /\ pc[r] = "commit" => \E e \in pending[r] : ReadyBehind(r, e)

\* What holds of a writer's rows whatever somebody else does to the table.
Own(r) ==
    /\ Fresh(r)
    /\ ~Holding(r) \/ pc[r] \in {"check", "mark"} => pending[r] = {}
    /\ pc[r] = "commit" => \E e \in pending[r] : e.content = r /\ e.kind = LineKind(r)
    /\ \A x \in pending[r] : x.kind = "marker" \/ (x.content = r /\ x.kind = LineKind(r))
    /\ \A x, y \in pending[r] : x.id = y.id => x = y
    /\ Valid(Rows(r)) => Knows(r)

\* The line w is written, was part of the chain, and no other row is that line.
WasWritten(w) ==
    /\ Signed(w) /\ w.kind \in Kind \ {"marker"}
    /\ w.content \in Request /\ w.kind \in Written(w.content)
    /\ \A x \in table : x.content = w.content => x.kind # w.kind

\* The touch and the row it was done to.
TouchInv(w, now) ==
    /\ tampered = [o \in Org |-> IF o = Customer THEN {[was |-> w, now |-> now]} ELSE {}]
    /\ w.org = Customer /\ w.id \in Nat /\ w.id < nextId
    /\ \A r \in Request : LineOrg(r) = Customer => \A x \in pending[r] : w.id < x.id
    /\ \/ now = {} /\ OriginInv /\ (InChain(w.id) => WasWritten(w))
       \/ \E v \in Forgeries(w) \intersect table : now = {v}

Touched ==
    /\ TypeOK /\ LockInv /\ IdInv
    /\ \A r \in Request : Own(r)
    /\ \E c \in tampered[Customer] : TouchInv(c.was, c.now)
    /\ VerdictIsExact

TamperInv == Clean \/ Touched
-----------------------------------------------------------------------------
(* As long as nobody has touched anything. *)

LEMMA InitClean == TInit => Clean
<1> SUFFICES ASSUME TInit PROVE Clean
  OBVIOUS
<1>1. tampered = [o \in Org |-> {}] /\ Init
  BY DEF TInit
<1>2. OneMarker
  BY <1>1, LegacyAssumption DEF Init, OneMarker, Markers, RowsOf
<1> QED  BY <1>1, <1>2, InitInv, TrailInit, OriginInit DEF Clean

LEMMA NextClean == Clean /\ [Next]_vars /\ UNCHANGED tampered => Clean'
<1> SUFFICES ASSUME Clean, [Next]_vars, UNCHANGED tampered PROVE Clean'
  OBVIOUS
<1>1. IInv' /\ TrailInv' /\ OriginInv'
  <2>1. IInv /\ TypeOK /\ TrailInv /\ OriginInv
    BY DEF Clean, IInv
  <2> QED  BY <2>1, NextInv, NextTrailInv, NextOriginInv
<1>2. OneMarker'
  <2>1. ASSUME table' = table PROVE OneMarker'
    BY <2>1 DEF Clean, OneMarker, RowsOf
  <2>2. ASSUME NEW r \in Request, Commit(r) PROVE OneMarker'
    <3> DEFINE old == RowsOf(LineOrg(r), table)
    <3>1. PICK e \in pending[r] :
            /\ e.kind # "marker"
            /\ \/ Markers(old) # {} /\ pending[r] = {e}
               \/ /\ Markers(old) = {}
                  /\ \E m \in pending[r] : pending[r] = {m, e}
      BY <2>2, CommitAdds DEF Clean
    <3>2. table' = table \union pending[r]
      BY <2>2 DEF Commit
    <3>3. \A w \in pending[r] : w.org = LineOrg(r)
      BY DEF Clean, IInv, RequestInv, Fresh
    <3>4. ASSUME NEW o \in Org, o # LineOrg(r) PROVE RowsOf(o, table') = RowsOf(o, table)
      BY <3>2, <3>3, <3>4 DEF RowsOf
    <3>5. RowsOf(LineOrg(r), table') = old \union pending[r]
      BY <3>2, <3>3 DEF RowsOf
    <3>6. ASSUME NEW o \in Org, NEW m \in Markers(RowsOf(o, table')), NEW n \in Markers(RowsOf(o, table'))
          PROVE  m = n
      <4>1. CASE o # LineOrg(r)
        BY <3>4, <3>6, <4>1 DEF Clean, OneMarker
      <4>2. CASE o = LineOrg(r) /\ Markers(old) # {} /\ pending[r] = {e}
        <5>1. m \in Markers(old) /\ n \in Markers(old)
          BY <3>1, <3>5, <3>6, <4>2 DEF Markers
        <5> QED  BY <4>2, <5>1 DEF Clean, OneMarker
      <4>3. CASE o = LineOrg(r) /\ Markers(old) = {} /\ \E x \in pending[r] : pending[r] = {x, e}
        BY <3>1, <3>5, <3>6, <4>3 DEF Markers
      <4> QED  BY <3>1, <4>1, <4>2, <4>3
    <3> QED  BY <3>6 DEF OneMarker
  <2>3. table' = table \/ \E r \in Request : Commit(r)
    BY DEF Next, Rest, vars, Step, LockOrg, Abort, Work, CheckMarker, InsertMarker, ReadLast, InsertLine
  <2> QED  BY <2>1, <2>2, <2>3
<1> QED  BY <1>1, <1>2 DEF Clean

(* Two rows of an untouched chain have different signatures, unless both are markers. *)
LEMMA HashesDiffer ==
    ASSUME Clean, NEW o \in Org,
           NEW w \in ChainOf(RowsOf(o, table)), w.kind # "marker"
    PROVE  /\ Signed(w) /\ w.kind \in Kind /\ w.content \in Request
           /\ \A x \in ChainOf(RowsOf(o, table)) : x.hash = w.hash => x = w
<1>1. Valid(RowsOf(o, table))
  BY DEF Clean, IInv, ChainVerifies
<1>2. \A x \in ChainOf(RowsOf(o, table)) : x \in table /\ x.org = o /\ Signed(x) /\ x.kind \in Kind
  BY <1>1 DEF Valid, ChainOf, RowsOf, Clean, IInv, TypeOK
<1>3. ASSUME NEW y \in ChainOf(RowsOf(o, table)) PROVE WrittenRow(y)
  <2>1. PICK m \in table : m.kind = "marker" /\ m.id <= y.id
    BY DEF ChainOf, Markers, RowsOf
  <2>2. m \notin Legacy
    BY <2>1, LegacyAssumption
  <2>3. m.id \in Nat /\ m.id >= FirstId
    BY <2>1, <2>2 DEF Clean, OriginInv, WrittenRow
  <2>4. y \in table /\ y.id \in Nat
    BY <1>2 DEF Clean, IInv, TypeOK
  <2>5. y \notin Legacy
    BY <2>1, <2>3, <2>4, LegacyAssumption
  <2> QED  BY <2>4, <2>5 DEF Clean, OriginInv
<1>4. Signed(w) /\ w.kind \in Kind /\ w.content \in Request /\ w \in table /\ w.org = o
  BY <1>2, <1>3 DEF WrittenRow
<1>5. ASSUME NEW x \in ChainOf(RowsOf(o, table)), x.hash = w.hash PROVE x = w
  <2>1. x.content \in Request \union {System} /\ Signed(x) /\ x.kind \in Kind /\ x \in table /\ x.org = o
    BY <1>2, <1>3 DEF WrittenRow
  <2>2. Text(o, w.kind, w.content) = Text(o, x.kind, x.content)
    BY <1>4, <1>5, <2>1, SameText
  <2>3. w.content = x.content /\ w.kind = x.kind
    BY <1>4, <2>1, <2>2, TextAssumption
  <2> QED  BY <1>4, <2>1, <2>3 DEF Clean, TrailInv, TrailOf, LinesOf
<1> QED  BY <1>4, <1>5

(* An untouched trail verifies, with the rows an open transaction is about to add. *)
LEMMA CleanVerdict == Clean => VerdictIsExact
BY DEF Clean, VerdictIsExact, IInv, ChainVerifies

-----------------------------------------------------------------------------
(* The touch. *)

LEMMA CleanOwn == ASSUME Clean, NEW r \in Request PROVE Own(r)
<1>1. Fresh(r) /\ Progress(r)
  BY DEF Clean, IInv, RequestInv
<1>2. \A rows : OpensChain(r, rows) => Opens(r, rows)
  BY DEF OpensChain, Opens, Rows
<1>3. pc[r] = "commit" => \E e \in pending[r] : /\ ReadyBehind(r, e)
                                                /\ \A x \in pending[r] \ {e} : x.kind = "marker"
  <2> SUFFICES ASSUME pc[r] = "commit"
               PROVE  \E e \in pending[r] : /\ ReadyBehind(r, e)
                                            /\ \A x \in pending[r] \ {e} : x.kind = "marker"
    OBVIOUS
  <2>1. PICK e \in pending[r] : ReadyLine(r, e)
    BY <1>1 DEF Progress
  <2>2. ReadyBehind(r, e)
    BY <1>2, <2>1 DEF ReadyLine, ReadyBehind, LinksTo
  <2>3. \A x \in pending[r] \ {e} : x.kind = "marker"
    BY <2>1 DEF ReadyLine, OpensChain, IsMarker
  <2> QED  BY <2>2, <2>3
<1>4. \A x \in pending[r] : x.kind = "marker" \/ (x.content = r /\ x.kind = LineKind(r))
  <2>1. CASE pc[r] = "commit"
    BY <1>3, <2>1 DEF ReadyBehind
  <2>2. CASE pc[r] \in {"read", "insert"}
    BY <1>1, <2>2 DEF Progress, OpensChain, IsMarker
  <2>3. CASE ~Holding(r) \/ pc[r] \in {"check", "mark"}
    BY <1>1, <2>3 DEF Progress
  <2> QED  BY <2>1, <2>2, <2>3 DEF Holding
<1>5. Knows(r)
  BY <1>1, <1>2, <1>3 DEF Progress, Knows, Rows, LinksTo
<1>6. \A x, y \in pending[r] : x.id = y.id => x = y
  <2>1. CASE pc[r] = "commit"
    <3>1. PICK e \in pending[r] : ReadyBehind(r, e)
      BY <1>3, <2>1
    <3>2. \A x \in pending[r] : x \in Visible(r) /\ x.id \in Nat
      BY <1>1 DEF Fresh, Visible, RowsOf, Clean, IInv, TypeOK
    <3>3. \A x \in pending[r] \ {e} : x.id < e.id
      BY <3>1, <3>2 DEF ReadyBehind
    <3>4. \A x, y \in pending[r] \ {e} : x = y
      BY <3>1 DEF ReadyBehind, Opens
    <3> QED  BY <3>2, <3>3, <3>4
  <2>2. CASE pc[r] \in {"read", "insert"}
    BY <1>1, <2>2 DEF Progress, OpensChain
  <2>3. CASE ~Holding(r) \/ pc[r] \in {"check", "mark"}
    BY <1>1, <2>3 DEF Progress
  <2> QED  BY <2>1, <2>2, <2>3 DEF Holding
<1> QED  BY <1>1, <1>3, <1>4, <1>5, <1>6 DEF Own, Progress, ReadyBehind

\* One row of the customer is replaced or gone; everything else is as it was.
LEMMA TouchFrame ==
    ASSUME Clean, NEW w \in RowsOf(Customer, table), NEW now, Touch(w, now),
           now = {} \/ \E v \in Forgeries(w) : now = {v}
    PROVE  /\ TypeOK' /\ LockInv' /\ IdInv'
           /\ w \in table /\ w.org = Customer /\ w.id \in Nat /\ w.id < nextId /\ nextId' = nextId
           /\ RowsOf(Customer, table') = (RowsOf(Customer, table) \ {w}) \union now
           /\ \A o \in Org \ {Customer} : RowsOf(o, table') = RowsOf(o, table)
           /\ tampered' = [o \in Org |-> IF o = Customer THEN {[was |-> w, now |-> now]} ELSE {}]
<1>1. /\ w \in table /\ w.org = Customer
      /\ table' = (table \ {w}) \union now
      /\ UNCHANGED <<nextId, orgLock, pending, prev, pc, line, plan, changed>>
  BY DEF Touch, RowsOf
<1>2. \A v \in now : v.id = w.id /\ v.org = w.org /\ v.kind \in Kind
  BY DEF Forgeries
<1>3. TypeOK /\ LockInv /\ IdInv
  BY DEF Clean, IInv
<1>4. w.id \in Nat /\ w.org \in Org /\ w.id < nextId
  BY <1>1, <1>3 DEF TypeOK, IdInv
<1>5. TypeOK'
  BY <1>1, <1>2, <1>3, <1>4 DEF TypeOK, HasCustomerLine
<1>6. LockInv'
  BY <1>1, <1>3 DEF LockInv, Holding, LineOrg
<1>7. IdInv'
  <2>1. \A x \in table' : x.id < nextId'
    BY <1>1, <1>2, <1>3, <1>4 DEF IdInv
  <2>2. \A x, y \in table' : x.org = y.org /\ x.id = y.id => x = y
    <3>1. \A x \in table : x.org = w.org /\ x.id = w.id => x = w
      BY <1>1, <1>3 DEF IdInv
    <3>2. \A x, y \in now : x = y
      OBVIOUS
    <3>3. \A x, y \in table \ {w} : x.org = y.org /\ x.id = y.id => x = y
      BY <1>3 DEF IdInv
    <3> QED  BY <1>1, <1>2, <3>1, <3>2, <3>3
  <2> QED  BY <2>1, <2>2 DEF IdInv
<1>8. RowsOf(Customer, table') = (RowsOf(Customer, table) \ {w}) \union now
  BY <1>1, <1>2 DEF RowsOf
<1>9. \A o \in Org \ {Customer} : RowsOf(o, table') = RowsOf(o, table)
  BY <1>1, <1>2 DEF RowsOf
<1>10. tampered' = [o \in Org |-> IF o = Customer THEN {[was |-> w, now |-> now]} ELSE {}]
  BY CustomerAssumption DEF Clean, Touch
<1> QED  BY <1>1, <1>4, <1>5, <1>6, <1>7, <1>8, <1>9, <1>10

\* The rows of the customer, as far as a verdict goes.
LEMMA CleanRows ==
    ASSUME Clean
    PROVE  LET rows == RowsOf(Customer, table)
           IN /\ Valid(rows)
              /\ \A x \in rows : x.id \in Nat /\ (x.hash = NoHash \/ Signed(x))
              /\ \A x, y \in rows : x.id = y.id => x = y
              /\ \A m, n \in Markers(rows) : m = n
<1> DEFINE rows == RowsOf(Customer, table)
<1>1. Valid(rows)
  BY CustomerAssumption DEF Clean, IInv, ChainVerifies
<1>2. \A x \in rows : x.id \in Nat
  BY DEF RowsOf, Clean, IInv, TypeOK
<1>3. \A x, y \in rows : x.id = y.id => x = y
  BY DEF RowsOf, Clean, IInv, IdInv
<1>4. \A x \in rows : x.hash = NoHash \/ Signed(x)
  BY <1>1 DEF Valid
<1>5. \A m, n \in Markers(rows) : m = n
  BY CustomerAssumption DEF Clean, OneMarker
<1> QED  BY <1>1, <1>2, <1>3, <1>4, <1>5

(***************************************************************************)
(* A deleted row is missed exactly when it is a line of the chain with     *)
(* another one behind it.                                                  *)
(***************************************************************************)
LEMMA DeletionVerdict ==
    ASSUME Clean, NEW w \in RowsOf(Customer, table), Touch(w, {})
    PROVE  Valid(RowsOf(Customer, table')) <=> ~Shows([was |-> w, now |-> {}])'
<1> DEFINE rows == RowsOf(Customer, table)
           rest == RowsOf(Customer, table')
<1>1. rest = rows \ {w}
  BY TouchFrame
<1>2. /\ Valid(rows)
      /\ \A x \in rows : x.id \in Nat /\ (x.hash = NoHash \/ Signed(x))
      /\ \A x, y \in rows : x.id = y.id => x = y
      /\ \A m, n \in Markers(rows) : m = n
  BY CleanRows
<1>3. Shows([was |-> w, now |-> {}])' <=>
        /\ \E m \in Markers(rest) : m.id <= w.id
        /\ \E x \in rest : x.id > w.id /\ x.prev = w.hash
  BY DEF Shows, InChain, HasSuccessor
<1>4. w \in ChainOf(rows) /\ w.kind # "marker" =>
        /\ Signed(w)
        /\ \A x \in ChainOf(rows) : x.hash = w.hash => x = w
  BY HashesDiffer, CustomerAssumption
<1> w \in rows
  OBVIOUS
<1> HIDE DEF rows, rest
<1>5. CASE w.kind = "marker"
  <2>1. Markers(rest) = {}
    BY <1>1, <1>2, <1>5 DEF Markers
  <2>2. Valid(rest)
    BY <1>1, <1>2, <2>1, UnchainedValid
  <2> QED  BY <1>3, <2>1, <2>2 DEF rest
<1>6. CASE w.kind # "marker" /\ w \notin ChainOf(rows)
  <2>1. Markers(rest) = Markers(rows)
    BY <1>1, <1>6 DEF Markers
  <2>2. ChainOf(rest) = ChainOf(rows)
    BY <1>1, <1>6, <2>1 DEF ChainOf
  <2>3. Valid(rest)
    BY <1>1, <1>2, <2>2, SameChainValid
  <2>4. ~\E m \in Markers(rest) : m.id <= w.id
    BY <1>6, <2>1 DEF ChainOf, rows
  <2> QED  BY <1>3, <2>3, <2>4 DEF rest
<1>7. CASE w.kind # "marker" /\ w \in ChainOf(rows) /\ \E x \in rows : x.id > w.id
  <2>1. ~Valid(rest) /\ \E x \in rows : x.id > w.id /\ x.prev = w.hash
    BY <1>1, <1>2, <1>4, <1>7, RemovalShows
  <2>2. \E x \in rest : x.id > w.id /\ x.prev = w.hash
    BY <1>1, <1>2, <2>1 DEF rows
  <2>3. \E m \in Markers(rest) : m.id <= w.id
    BY <1>1, <1>7 DEF ChainOf, Markers
  <2> QED  BY <1>3, <2>1, <2>2, <2>3 DEF rest
<1>8. CASE w.kind # "marker" /\ w \in ChainOf(rows) /\ ~\E x \in rows : x.id > w.id
  <2>1. \A x \in rows : x.id <= w.id
    BY <1>2, <1>8 DEF rows
  <2>2. Valid(rest)
    BY <1>1, <1>2, <1>8, <2>1, TailRemovedValid DEF rows
  <2>3. ~\E x \in rest : x.id > w.id
    BY <1>1, <1>8
  <2> QED  BY <1>3, <2>2, <2>3 DEF rest
<1> QED  BY <1>5, <1>6, <1>7, <1>8

\* No row can be made to read as a marker does.
LEMMA NoNewMarker ==
    ASSUME Clean, NEW w \in RowsOf(Customer, table), w.kind # "marker",
           NEW v \in Forgeries(w), v.kind = "marker"
    PROVE  ~ReadsTheSame(w, v)
<1>1. w \in table /\ w.org = Customer /\ w.org \in Org /\ w.kind \in Kind
  BY DEF RowsOf, Clean, IInv, TypeOK
<1>2. v.org = w.org /\ v.content \in Foreign \union {w.content}
  BY DEF Forgeries
<1>3. CASE w \in Legacy
  BY <1>2, <1>3, MarkerAssumption DEF ReadsTheSame
<1>4. CASE WrittenRow(w)
  <2>1. w.content \in Request
    BY <1>4 DEF WrittenRow
  <2> QED  BY <1>1, <1>2, <2>1, MarkerAssumption DEF ReadsTheSame
<1> QED  BY <1>1, <1>3, <1>4 DEF Clean, OriginInv

(***************************************************************************)
(* An altered row is noticed exactly when it does not read as it did,      *)
(* unless it is a legacy row nothing is left to check of.                  *)
(***************************************************************************)
LEMMA AlterationVerdict ==
    ASSUME Clean, NEW w \in RowsOf(Customer, table), NEW v \in Forgeries(w), Touch(w, {v})
    PROVE  Valid(RowsOf(Customer, table')) <=> ~Shows([was |-> w, now |-> {v}])'
<1> DEFINE rows == RowsOf(Customer, table)
           rest == RowsOf(Customer, table')
<1>1. rest = (rows \ {w}) \union {v}
  BY TouchFrame
<1>2. /\ Valid(rows)
      /\ \A x \in rows : x.id \in Nat /\ (x.hash = NoHash \/ Signed(x))
      /\ \A x, y \in rows : x.id = y.id => x = y
      /\ \A m, n \in Markers(rows) : m = n
  BY CleanRows
<1>3. Shows([was |-> w, now |-> {v}])' <=>
        ~ReadsTheSame(w, v) /\ (v.hash # NoHash \/ \E m \in Markers(rest) : m.id <= v.id)
  BY DEF Shows, InChain, ReadsTheSame
<1>4. v.id = w.id /\ v.org = w.org
  BY DEF Forgeries
<1>5. w.kind # "marker" /\ v.kind = "marker" => ~ReadsTheSame(w, v)
  BY NoNewMarker
<1>6. w \in rows
  OBVIOUS
<1> HIDE DEF rows, rest
<1>7. CASE ReadsTheSame(w, v)
  <2>1. Signed(v) <=> Signed(w)
    BY <1>7, SameSignature
  <2>2. CASE v.kind = "marker" <=> w.kind = "marker"
    <3>1. Alike(v, w) /\ \A x : Alike(x, x)
      BY <1>4, <1>7, <2>1, <2>2 DEF Alike, ReadsTheSame
    <3>2. Valid(rest)
      BY <1>1, <1>2, <1>6, <3>1, AlikeValid
    <3> QED  BY <1>3, <1>7, <3>2 DEF rest
  <2>3. CASE w.kind = "marker" /\ v.kind # "marker"
    <3>1. Markers(rest) = {}
      BY <1>1, <1>2, <1>6, <2>3 DEF Markers
    <3>2. v.hash = NoHash \/ Signed(v)
      BY <1>2, <1>6, <1>7, <2>1 DEF ReadsTheSame
    <3>3. \A x \in rest : x \in rows \/ x.hash = NoHash \/ Signed(x)
      BY <1>1, <3>2
    <3>4. Valid(rest)
      BY <1>2, <3>1, <3>3, UnchainedValid
    <3> QED  BY <1>3, <1>7, <3>4 DEF rest
  <2> QED  BY <1>5, <1>7, <2>2, <2>3
<1>8. CASE ~ReadsTheSame(w, v) /\ (v.hash # NoHash \/ \E m \in Markers(rest) : m.id <= v.id)
  <2>1. ~Signed(v)
    BY <1>2, <1>6, <1>8, Unsigned
  <2>2. v \in rest /\ (v.hash # NoHash \/ v \in ChainOf(rest))
    BY <1>1, <1>8 DEF ChainOf
  <2>3. ~Valid(rest)
    BY <2>1, <2>2 DEF Valid
  <2> QED  BY <1>3, <1>8, <2>3 DEF rest
<1>9. CASE v.hash = NoHash /\ ~\E m \in Markers(rest) : m.id <= v.id
  <2>1. v.kind # "marker"
    <3>1. v.id \in Nat
      BY <1>2, <1>4, <1>6
    <3> QED  BY <1>1, <1>9, <3>1 DEF Markers
  <2>2. CASE w.kind = "marker"
    <3>1. Markers(rest) = {}
      BY <1>1, <1>2, <1>6, <2>1, <2>2 DEF Markers
    <3>2. Valid(rest)
      BY <1>1, <1>2, <1>9, <3>1, UnchainedValid
    <3> QED  BY <1>3, <1>9, <3>2 DEF rest
  <2>3. CASE w.kind # "marker"
    <3>1. Markers(rest) = Markers(rows)
      BY <1>1, <2>1, <2>3 DEF Markers
    <3>2. ChainOf(rest) = ChainOf(rows)
      BY <1>1, <1>4, <1>9, <3>1 DEF ChainOf
    <3>3. Valid(rest)
      BY <1>1, <1>2, <1>9, <3>2, SameChainValid
    <3> QED  BY <1>3, <1>9, <3>3 DEF rest
  <2> QED  BY <2>2, <2>3
<1> QED  BY <1>7, <1>8, <1>9

\* What a writer knows it knows still, as long as the trail verifies.
LEMMA TouchOwn ==
    ASSUME Clean, NEW w \in RowsOf(Customer, table), NEW now, Touch(w, now),
           now = {} \/ (\E v \in Forgeries(w) : now = {v}), NEW r \in Request
    PROVE  Own(r)'
<1> DEFINE rows == RowsOf(Customer, table)
           rest == RowsOf(Customer, table')
           c == [was |-> w, now |-> now]
<1>1. /\ UNCHANGED <<nextId, pending, prev, pc, line, plan>>
      /\ w \in table /\ w.org = Customer /\ w.id \in Nat
      /\ rest = (rows \ {w}) \union now
      /\ \A o \in Org \ {Customer} : RowsOf(o, table') = RowsOf(o, table)
      /\ tampered' = [o \in Org |-> IF o = Customer THEN {c} ELSE {}]
  BY TouchFrame DEF Touch
<1>2. Own(r)
  BY CleanOwn
<1>3. LineOrg(r)' = LineOrg(r) /\ LineKind(r)' = LineKind(r) /\ (Holding(r)' <=> Holding(r))
  BY <1>1 DEF LineOrg, LineKind, Holding
<1>4. LineOrg(r) \in Org
  BY OrgAssumption DEF Clean, IInv, TypeOK, LineOrg, HasCustomerLine, Plan
<1>5. Rows(r)' = RowsOf(LineOrg(r), table')
  BY <1>3 DEF Rows
<1>6. Fresh(r)'
  <2>1. CASE LineOrg(r) # Customer
    BY <1>1, <1>2, <1>3, <1>4, <2>1 DEF Own, Fresh
  <2>2. CASE LineOrg(r) = Customer
    <3>1. \A v \in now : v.id = w.id
      BY DEF Forgeries
    <3>2. \A x \in pending[r] : \A v \in rest : v.id < x.id
      BY <1>1, <1>2, <2>2, <3>1 DEF Own, Fresh
    <3> QED  BY <1>1, <1>2, <1>3, <2>2, <3>2 DEF Own, Fresh, Signed
  <2> QED  BY <2>1, <2>2
<1>7. ASSUME Valid(Rows(r)') PROVE Knows(r)'
  <2>1. CASE LineOrg(r) # Customer
    <3>1. Rows(r)' = Rows(r) /\ tampered'[LineOrg(r)] = {} /\ tampered[LineOrg(r)] = {}
      BY <1>1, <1>4, <1>5, <2>1 DEF Rows, Clean
    <3>2. Visible(r)' = Visible(r)
      BY <1>1, <1>3, <3>1, <1>5 DEF Visible, RowsOf, Rows
    <3>3. Knows(r)
      BY <1>2, <1>7, <3>1 DEF Own
    <3>4. \A s : Opens(r, s) => Opens(r, s)'
      BY <3>1 DEF Opens
    <3> QED
      BY <1>1, <1>3, <3>1, <3>2, <3>3, <3>4 DEF Knows, ReadyBehind
  <2>2. CASE LineOrg(r) = Customer
    <3>1. /\ Rows(r)' = rest /\ Rows(r) = rows /\ Valid(rows)
          /\ tampered'[LineOrg(r)] = {c} /\ tampered[LineOrg(r)] = {}
      BY <1>1, <1>4, <1>5, <2>2, CleanRows DEF Rows, Clean
    <3>2. /\ \A x \in rows : x.id \in Nat /\ (x.hash = NoHash \/ Signed(x))
          /\ \A x, y \in rows : x.id = y.id => x = y
          /\ w \in rows
      BY CleanRows
    <3>3. Knows(r) /\ Fresh(r)
      BY <1>2, <3>1 DEF Own
    <3>4. \A v \in now : v \in rest /\ now = {v} /\ v.id = w.id /\ v.org = w.org
      BY <1>1 DEF Forgeries
    \* An alteration that went unnoticed left the row as it reads, or outside the chain.
    <3>5. ASSUME NEW v \in now
          PROVE  v.hash = w.hash \/ ~\E m \in Markers(rest) : m.id <= v.id
      <4>1. v \in Forgeries(w) /\ now = {v}
        BY <3>4
      <4>2. ~Shows([was |-> w, now |-> {v}])'
        BY <1>7, <3>1, <4>1, AlterationVerdict
      <4>3. ReadsTheSame(w, v) \/ ~\E m \in Markers(rest) : m.id <= v.id
        BY <4>2 DEF Shows, InChain, ReadsTheSame
      <4> QED  BY <4>3 DEF ReadsTheSame
    <3>6. Markers(rows) = {} => Markers(rest) = {}
      <4> SUFFICES ASSUME Markers(rows) = {}, NEW m \in Markers(rest) PROVE FALSE
        OBVIOUS
      <4>1. m \in now /\ m.kind = "marker" /\ w.kind # "marker"
        BY <1>1, <3>2 DEF Markers
      <4>2. m \in Forgeries(w) /\ now = {m}
        BY <3>4, <4>1
      <4>3. ~ReadsTheSame(w, m)
        BY <4>1, <4>2, NoNewMarker
      <4>4. m.id <= m.id
        BY <3>2, <3>4, <4>1
      <4>5. Shows([was |-> w, now |-> {m}])'
        BY <4>3, <4>4 DEF Shows, InChain, ReadsTheSame
      <4> QED  BY <1>7, <3>1, <4>2, <4>5, AlterationVerdict
    <3>7. \A s : Opens(r, s) => Opens(r, s)'
      BY <3>1, <3>6 DEF Opens
    \* The rows r sees besides the ones it has written and will still write.
    <3>8. ASSUME NEW h, NEW own \in SUBSET pending[r], LinksTo({}, h, rows \union own)
          PROVE  LinksTo({c}, h, rest \union own)
      <4> DEFINE seen == rows \union own
                 sees == rest \union own
      <4>1. \A x \in own : x.id \in Nat /\ \A y \in rows : y.id < x.id
        BY <3>1, <3>3 DEF Fresh, Rows, Clean, IInv, TypeOK
      <4>2. CASE Markers(seen) = {}
        <5>1. Markers(sees) = {}
          BY <3>6, <4>2 DEF Markers
        <5> QED  BY <5>1 DEF LinksTo
      <4>3. ASSUME NEW x \in seen, IsLast(x, seen), h = x.hash, x # w
            PROVE  LinksTo({c}, h, sees)
        <5>1. x \in sees
          BY <1>1, <4>3
        <5>2. IsLast(x, sees)
          BY <1>1, <3>2, <3>4, <4>3, <5>1 DEF IsLast
        <5> QED  BY <4>3, <5>1, <5>2 DEF LinksTo
      <4>4. CASE IsLast(w, seen) /\ h = w.hash
        <5>1. own = {}
          <6> SUFFICES ASSUME NEW x \in own PROVE FALSE
            OBVIOUS
          <6>1. x.id <= w.id /\ w.id < x.id /\ x.id \in Nat /\ w.id \in Nat
            BY <1>1, <3>2, <4>1, <4>4 DEF IsLast
          <6> QED  BY <6>1
        <5>2. CASE now = {}
          <6>1. \A x \in sees : x.id < w.id
            <7>1. \A x \in sees : x \in rows /\ x # w
              BY <1>1, <5>1, <5>2
            <7>2. \A x \in rows : x.id <= w.id /\ x.id \in Nat
              BY <3>2, <4>4 DEF IsLast
            <7> QED  BY <1>1, <3>2, <7>1, <7>2
          <6>2. Stale({c}, h, sees)
            BY <1>3, <3>1, <4>4, <5>2, <6>1 DEF Stale
          <6> QED  BY <6>2 DEF LinksTo
        <5>3. ASSUME NEW v \in now PROVE LinksTo({c}, h, sees)
          <6>1. IsLast(v, sees)
            BY <1>1, <3>2, <3>4, <4>4, <5>1, <5>3 DEF IsLast
          <6>2. CASE v.hash = w.hash
            BY <4>4, <6>1, <6>2 DEF LinksTo, IsLast
          <6>3. CASE ~\E m \in Markers(rest) : m.id <= v.id
            <7>1. Markers(sees) = {}
              BY <5>1, <6>1, <6>3 DEF IsLast, Markers
            <7> QED  BY <7>1 DEF LinksTo
          <6> QED  BY <3>5, <6>2, <6>3
        <5> QED  BY <5>2, <5>3
      <4>5. ~Stale({}, h, seen)
        BY DEF Stale
      <4> QED  BY <3>8, <4>2, <4>3, <4>4, <4>5 DEF LinksTo
    <3>9. Visible(r) = rows \union pending[r] /\ Visible(r)' = rest \union pending[r]
      BY <1>1, <1>3, <2>2, <3>1, <3>3, <1>5 DEF Visible, RowsOf, Fresh
    <3>10. pc[r] = "commit" => \E e \in pending[r] : ReadyBehind(r, e)'
      <4> SUFFICES ASSUME pc[r] = "commit" PROVE \E e \in pending[r] : ReadyBehind(r, e)'
        OBVIOUS
      <4>1. PICK e \in pending[r] : ReadyBehind(r, e)
        BY <3>3 DEF Knows
      <4>2. e \notin rows /\ e \notin rest
        <5>1. \A y \in rows : y.id < e.id /\ y.id \in Nat
          BY <3>1, <3>2, <3>3 DEF Fresh, Rows
        <5>2. \A y \in rest : y.id < e.id /\ y.id \in Nat
          BY <1>1, <3>2, <3>4, <5>1
        <5> QED  BY <5>1, <5>2
      <4>3. /\ Visible(r) \ {e} = rows \union (pending[r] \ {e})
            /\ Visible(r)' \ {e} = rest \union (pending[r] \ {e})
        BY <3>9, <4>2
      <4>4. LinksTo({c}, e.prev, rest \union (pending[r] \ {e}))
        BY <3>1, <3>8, <4>1, <4>3 DEF ReadyBehind
      <4>5. \A x \in rest \union (pending[r] \ {e}) : x.id < e.id
        BY <1>1, <3>2, <3>4, <4>1, <4>3 DEF ReadyBehind
      <4>6. ReadyBehind(r, e)'
        BY <1>1, <1>3, <3>1, <3>7, <3>9, <4>1, <4>3, <4>4, <4>5 DEF ReadyBehind
      <4> QED  BY <4>6
    <3>11. pc[r] = "insert" => LinksTo({c}, prev[r], rest \union pending[r])
      BY <3>1, <3>3, <3>8, <3>9 DEF Knows
    <3>12. pc'[r] = "insert" => LinksTo(tampered[LineOrg(r)], prev[r], Visible(r))'
      BY <1>1, <1>3, <3>1, <3>9, <3>11
    <3>13. pc'[r] = "commit" => (\E e \in pending[r] : ReadyBehind(r, e))'
      BY <1>1, <3>10
    <3>14. pc'[r] \in {"read", "insert"} => Opens(r, pending[r])'
      BY <1>1, <3>3, <3>7 DEF Knows
    <3>15. pc'[r] = "mark" => Markers(Rows(r)') = {}
      BY <1>1, <3>1, <3>3, <3>6 DEF Knows
    <3> QED
      BY <3>12, <3>13, <3>14, <3>15 DEF Knows
  <2> QED  BY <2>1, <2>2
<1> QED  BY <1>1, <1>2, <1>3, <1>6, <1>7 DEF Own, Rows

LEMMA TouchStep ==
    ASSUME Clean, NEW w \in RowsOf(Customer, table), Alter(w) \/ Delete(w)
    PROVE  Touched'
<1>1. PICK now : Touch(w, now) /\ (now = {} \/ \E v \in Forgeries(w) : now = {v})
  BY DEF Alter, Delete
<1> DEFINE rows == RowsOf(Customer, table)
           rest == RowsOf(Customer, table')
           c == [was |-> w, now |-> now]
<1>2. /\ TypeOK' /\ LockInv' /\ IdInv'
      /\ w \in table /\ w.org = Customer /\ w.id \in Nat /\ w.id < nextId /\ nextId' = nextId
      /\ rest = (rows \ {w}) \union now
      /\ \A o \in Org \ {Customer} : RowsOf(o, table') = RowsOf(o, table)
      /\ tampered' = [o \in Org |-> IF o = Customer THEN {c} ELSE {}]
  BY <1>1, TouchFrame
<1>3. \A r \in Request : Own(r)'
  BY <1>1, TouchOwn
<1>4. Valid(rest) <=> ~Shows(c)'
  BY <1>1, DeletionVerdict, AlterationVerdict
<1>5. VerdictIsExact'
  <2>1. \A o \in Org \ {Customer} : Valid(RowsOf(o, table')) /\ tampered'[o] = {}
    BY <1>2 DEF Clean, IInv, ChainVerifies
  <2>2. tampered'[Customer] = {c}
    BY <1>2, CustomerAssumption
  <2>3. ~Valid(rest) <=> \E d \in tampered'[Customer] : Shows(d)'
    BY <1>4, <2>2
  <2> QED  BY <2>1, <2>3 DEF VerdictIsExact
<1>6. table' = (table \ {w}) \union now /\ UNCHANGED <<pending, pc, line, plan>>
  BY <1>1 DEF Touch
<1>7. ASSUME NEW r \in Request, (LineOrg(r) = Customer)', NEW x \in pending'[r] PROVE w.id < x.id
  <2>1. LineOrg(r) = Customer /\ x \in pending[r]
    BY <1>6, <1>7 DEF LineOrg
  <2> QED  BY <2>1 DEF Clean, IInv, RequestInv, Fresh
<1>8. ASSUME now = {}, InChain(w.id)' PROVE WasWritten(w)'
  <2>1. PICK m \in rest : m.kind = "marker" /\ m.id <= w.id
    BY <1>8 DEF InChain, Markers
  <2>2. m \in rows /\ w \in ChainOf(rows) /\ w.kind # "marker"
    <3>1. m \in rows /\ m # w
      BY <1>2, <1>8, <2>1
    <3>2. w \in ChainOf(rows)
      BY <2>1, <3>1 DEF ChainOf, Markers
    <3>3. w.kind # "marker"
      BY <2>1, <3>1, CleanRows DEF Markers
    <3> QED  BY <3>1, <3>2, <3>3
  <2>3. Signed(w) /\ w.kind \in Kind \ {"marker"} /\ w.content \in Request
    BY <2>2, HashesDiffer, CustomerAssumption
  <2>4. /\ w.kind \in Written(w.content)
        /\ \A x \in table \ {w} : x.content = w.content => x.kind # w.kind
    BY <1>2, <2>3 DEF Clean, TrailInv, TrailOf, LinesOf
  <2>5. Written(w.content)' = Written(w.content)
    BY <1>6 DEF Written, HasCustomerLine, LineKind
  <2> QED  BY <1>6, <1>8, <2>3, <2>4, <2>5 DEF WasWritten
<1>9. now # {} => \E v \in Forgeries(w) \intersect table' : now = {v}
  BY <1>1, <1>6
<1>10. TouchInv(w, now)'
  <2>1. tampered' = [o \in Org |-> IF o = Customer THEN {[was |-> w, now |-> now]} ELSE {}]
    BY <1>2
  <2>2. w.org = Customer /\ w.id \in Nat /\ w.id < nextId'
    BY <1>2
  <2>3. \/ now = {} /\ OriginInv' /\ (InChain(w.id)' => WasWritten(w)')
        \/ \E v \in Forgeries(w) \intersect table' : now = {v}
    <3>1. now = {} => OriginInv'
      BY <1>1, <1>6 DEF Touch, Clean, OriginInv
    <3> QED  BY <1>8, <1>9, <3>1
  <2> QED  BY <1>7, <2>1, <2>2, <2>3 DEF TouchInv
<1>11. (\E d \in tampered[Customer] : TouchInv(d.was, d.now))'
  BY <1>2, <1>10, CustomerAssumption
<1> QED  BY <1>2, <1>3, <1>5, <1>11 DEF Touched

-----------------------------------------------------------------------------
(* Writers after the touch. *)

\* A statement of somebody else.
LEMMA OthersOwn ==
    ASSUME Touched, UNCHANGED tampered, NEW r \in Request, LockOrg(r) \/ Step(r) \/ Abort(r),
           NEW q \in Request, q # r
    PROVE  Own(q)'
<1>1. /\ plan' = plan /\ nextId' \in {nextId, nextId + 1} /\ nextId \in Nat
      /\ pending'[q] = pending[q] /\ prev'[q] = prev[q] /\ pc'[q] = pc[q] /\ line'[q] = line[q]
  BY DEF Touched, TypeOK, Step, Work, LockOrg, CheckMarker, InsertMarker, ReadLast, InsertLine, Insert,
         Commit, Abort, Goto
<1>2. Own(q)
  BY DEF Touched
<1>3. LineOrg(q)' = LineOrg(q) /\ LineKind(q)' = LineKind(q) /\ (Holding(q)' <=> Holding(q))
  BY <1>1 DEF LineOrg, LineKind, HasCustomerLine, Holding
<1>4. CASE ~Holding(q)
  <2>1. pending'[q] = {} /\ pc'[q] \notin {"check", "mark", "read", "insert", "commit"}
    BY <1>1, <1>2, <1>4 DEF Own, Holding
  <2> QED  BY <2>1 DEF Own, Fresh, Knows, Holding
<1>5. CASE Holding(q)
  <2>1. Rows(q)' = Rows(q)
    <3>1. CASE Commit(r)
      <4>1. LineOrg(q) # LineOrg(r)
        BY <1>5, <3>1 DEF Touched, LockInv, Holding, Commit
      <4>2. \A w \in pending[r] : w.org = LineOrg(r)
        BY DEF Touched, Own, Fresh
      <4> QED  BY <1>3, <3>1, <4>1, <4>2 DEF Commit, Rows, RowsOf
    <3>2. CASE ~Commit(r)
      BY <1>3, <3>2 DEF Step, Work, LockOrg, CheckMarker, InsertMarker, ReadLast, InsertLine, Abort, Rows
    <3> QED  BY <3>1, <3>2
  <2>2. Visible(q)' = Visible(q)
    BY <1>1, <1>3, <2>1 DEF Visible, RowsOf, Rows
  <2>3. \A x \in pending[q] : x.id < nextId => x.id < nextId'
    BY <1>1 DEF Touched, TypeOK
  <2>4. Fresh(q)'
    BY <1>1, <1>2, <1>3, <2>1, <2>3 DEF Own, Fresh, Rows
  <2>5. \A s : Opens(q, s)' <=> Opens(q, s)
    BY <2>1 DEF Opens
  <2>6. Knows(q) => Knows(q)'
    BY <1>1, <1>3, <2>1, <2>2, <2>5 DEF Knows, ReadyBehind
  <2> QED  BY <1>1, <1>2, <1>3, <2>1, <2>4, <2>6 DEF Own
<1> QED  BY <1>4, <1>5

\* A statement of its own that commits nothing.
LEMMA StepOwn ==
    ASSUME Touched, TypeOK', UNCHANGED tampered, NEW r \in Request,
           LockOrg(r) \/ (Step(r) /\ ~Commit(r)) \/ Abort(r)
    PROVE  Own(r)'
<1>1. /\ table' = table /\ line' = line /\ nextId \in Nat
      /\ LineOrg(r)' = LineOrg(r) /\ LineKind(r)' = LineKind(r) /\ Rows(r)' = Rows(r)
      /\ \A rows : Opens(r, rows)' <=> Opens(r, rows)
  <2>1. table' = table /\ line' = line /\ plan' = plan /\ nextId \in Nat
    BY DEF Step, Work, LockOrg, CheckMarker, InsertMarker, ReadLast, InsertLine, Insert, Abort, Touched, TypeOK
  <2>2. LineOrg(r)' = LineOrg(r) /\ LineKind(r)' = LineKind(r)
    BY <2>1 DEF LineOrg, LineKind
  <2> QED  BY <2>1, <2>2 DEF Rows, Opens
<1>2. Own(r) /\ TypeOK
  BY DEF Touched
<1>3. \A x \in Rows(r) : x.id \in Nat /\ x.id < nextId
  BY DEF Touched, TypeOK, IdInv, Rows, RowsOf
<1>4. CASE Work(r) \/ LockOrg(r) \/ Abort(r)
  <2>1. pending'[r] = {} /\ pc'[r] \in {"lock", "check", "failed"}
    BY <1>2, <1>4 DEF TypeOK, Work, LockOrg, Abort, Goto, Own, Holding
  <2> QED  BY <2>1 DEF Own, Fresh, Knows, Holding
<1>5. CASE CheckMarker(r)
  <2>1. pending[r] = {} /\ pending' = pending /\ pc'[r] \in {"read", "mark"}
    BY <1>2, <1>5 DEF CheckMarker, Goto, Own, TypeOK
  <2>2. Visible(r) = Rows(r)
    BY <2>1 DEF Visible, RowsOf, Rows
  <2>3. pc'[r] = "mark" => Markers(Rows(r)) = {}
    BY <1>2, <1>5, <2>2 DEF TypeOK, CheckMarker, ChainStarted, Goto, Markers
  <2>4. Opens(r, {})
    BY DEF Opens
  <2> QED  BY <1>1, <2>1, <2>3, <2>4 DEF Own, Fresh, Knows, Holding
<1>6. CASE InsertMarker(r)
  <2> PICK m : m = NewRow(r, "marker", System, NoHash)
    OBVIOUS
  <2>1. /\ pending[r] = {} /\ pending'[r] = {m} /\ pc'[r] = "read" /\ nextId' = nextId + 1
        /\ Valid(Rows(r)) => Markers(Rows(r)) = {}
    BY <1>2, <1>6 DEF TypeOK, InsertMarker, Insert, Goto, Own, Knows
  <2>2. IsMarker(m) /\ Signed(m) /\ m.org = LineOrg(r) /\ m.id = nextId /\ m.kind = "marker"
    BY DEF NewRow, IsMarker, Signed
  <2>3. Valid(Rows(r)) => Opens(r, {m})
    BY <2>1, <2>2 DEF Opens
  <2>4. Fresh(r)'
    BY <1>1, <1>3, <2>1, <2>2 DEF Fresh, Rows
  <2> QED  BY <1>1, <2>1, <2>2, <2>3, <2>4 DEF Own, Knows, Holding
<1>7. CASE ReadLast(r)
  <2>1. /\ pending' = pending /\ nextId' = nextId /\ pc[r] = "read" /\ pc'[r] = "insert"
        /\ Visible(r)' = Visible(r)
    BY <1>1, <1>2, <1>7 DEF TypeOK, ReadLast, Goto, Visible
  <2>2. \/ Visible(r) = {}
        \/ \E w \in Visible(r) : IsLast(w, Visible(r)) /\ prev'[r] = w.hash
    BY <1>2, <1>7 DEF TypeOK, ReadLast
  <2>3. LinksTo(tampered[LineOrg(r)], prev'[r], Visible(r))
    BY <2>2 DEF LinksTo, Markers
  <2>4. Fresh(r)'
    BY <1>1, <1>2, <2>1 DEF Own, Fresh, Rows
  <2>5. Valid(Rows(r)) => Opens(r, pending[r])
    BY <1>2, <2>1 DEF Own, Knows
  <2>6. LinksTo(tampered[LineOrg(r)], prev[r], Visible(r))'
    BY <1>1, <2>1, <2>3
  <2> QED  BY <1>1, <1>2, <2>1, <2>4, <2>5, <2>6 DEF Own, Knows, Holding
<1>8. CASE InsertLine(r)
  <2> PICK e : e = NewRow(r, LineKind(r), r, prev[r])
    OBVIOUS
  <2>1. /\ pending'[r] = pending[r] \union {e} /\ pc[r] = "insert" /\ pc'[r] = "commit"
        /\ nextId' = nextId + 1
    BY <1>2, <1>8 DEF TypeOK, InsertLine, Insert, Goto
  <2>2. e.id = nextId /\ e.org = LineOrg(r) /\ e.kind = LineKind(r) /\ e.content = r
        /\ e.prev = prev[r] /\ Signed(e)
    BY DEF NewRow, Signed
  <2>3. \A v \in Rows(r) \union pending[r] : v.id \in Nat /\ v.id < e.id
    BY <1>2, <1>3, <2>2 DEF Own, Fresh, TypeOK
  <2>4. Visible(r)' \ {e} = Visible(r) /\ pending'[r] \ {e} = pending[r]
    BY <1>1, <1>2, <2>1, <2>2, <2>3 DEF Visible, RowsOf, Rows, Own, Fresh
  <2>5. Fresh(r)'
    BY <1>1, <1>2, <1>3, <2>1, <2>2, <2>3 DEF Own, Fresh, Rows
  <2>6. \A v \in Visible(r) : v.id < e.id
    BY <1>2, <2>3 DEF Visible, RowsOf, Rows
  <2>7. ASSUME Valid(Rows(r)) PROVE ReadyBehind(r, e)'
    <3>1. Opens(r, pending[r]) /\ LinksTo(tampered[LineOrg(r)], e.prev, Visible(r))
      BY <1>2, <2>1, <2>2, <2>7 DEF Own, Knows
    <3> QED  BY <1>1, <2>1, <2>2, <2>4, <2>6, <3>1 DEF ReadyBehind
  <2>8. \A x, y \in pending'[r] : x.id = y.id => x = y
    BY <1>2, <2>1, <2>3 DEF Own
  <2>9. pc'[r] = "commit" /\ e \in pending'[r] /\ e.content = r /\ e.kind = LineKind(r)'
    BY <1>1, <2>1, <2>2
  <2>10. \A x \in pending'[r] : x.kind = "marker" \/ (x.content = r /\ x.kind = LineKind(r)')
    BY <1>1, <1>2, <2>1, <2>2 DEF Own
  <2>11. Valid(Rows(r))' => Knows(r)'
    BY <1>1, <2>7, <2>9 DEF Knows
  <2> QED  BY <2>5, <2>8, <2>9, <2>10, <2>11 DEF Own, Holding
<1> QED  BY <1>4, <1>5, <1>6, <1>7, <1>8 DEF Step

\* Whatever was done, a line that is committed is the writer's, and above every other row.
LEMMA CommitRows ==
    ASSUME Touched, NEW r \in Request, Commit(r)
    PROVE  /\ LineOrg(r) \in Org
           /\ RowsOf(LineOrg(r), table') = Rows(r) \union pending[r]
           /\ \A o \in Org \ {LineOrg(r)} : RowsOf(o, table') = RowsOf(o, table)
           /\ \A x \in pending[r] : /\ x.id \in Nat /\ Signed(x) /\ x.org = LineOrg(r)
                                    /\ \A y \in Rows(r) : y.id < x.id
           /\ \A y \in Rows(r) : y.id \in Nat
           /\ \A x, y \in Rows(r) : x.id = y.id => x = y
<1>1. table' = table \union pending[r]
  BY DEF Commit
<1>2. LineOrg(r) \in Org
  BY OrgAssumption DEF Touched, TypeOK, LineOrg, HasCustomerLine, Plan
<1>3. \A x \in pending[r] : /\ x.id \in Nat /\ Signed(x) /\ x.org = LineOrg(r)
                             /\ \A y \in Rows(r) : y.id < x.id
  BY DEF Touched, TypeOK, Own, Fresh, Rows
<1>4. \A y \in Rows(r) : y.id \in Nat
  BY DEF Touched, TypeOK, Rows, RowsOf
<1>5. \A x, y \in Rows(r) : x.id = y.id => x = y
  BY DEF Touched, IdInv, Rows, RowsOf
<1> QED  BY <1>1, <1>2, <1>3, <1>4, <1>5 DEF Rows, RowsOf

(***************************************************************************)
(* A line committed to a trail that verifies keeps it so, unless the line  *)
(* points at a row that has gone since.                                    *)
(***************************************************************************)
LEMMA CommitValid ==
    ASSUME Touched, NEW r \in Request, Commit(r), Valid(Rows(r))
    PROVE  \/ /\ Valid(Rows(r) \union pending[r])
              /\ Markers(Rows(r)) # {} =>
                    \E last \in Rows(r) : \A x \in pending[r] : IsLast(last, Rows(r)) /\ x.prev = last.hash
           \/ \E e \in pending[r] :
                 /\ pending[r] = {e} /\ Markers(Rows(r)) # {}
                 /\ Stale(tampered[LineOrg(r)], e.prev, Rows(r))
<1> DEFINE old == Rows(r)
<1>1. PICK e \in pending[r] : ReadyBehind(r, e)
  BY DEF Commit, Touched, Own, Knows
<1>2. /\ \A x \in pending[r] : /\ x.id \in Nat /\ Signed(x) /\ x.org = LineOrg(r)
                               /\ \A y \in old : y.id < x.id
      /\ \A y \in old : y.id \in Nat
      /\ \A x, y \in old : x.id = y.id => x = y
  BY CommitRows
<1>3. Visible(r) = old \union pending[r]
  BY <1>2 DEF Visible, Rows, RowsOf
<1>4. e.kind # "marker" /\ e \notin old
  BY <1>1, <1>2 DEF ReadyBehind, LineKind
<1>5. CASE pending[r] = {e} /\ Markers(old) = {}
  <2>1. Markers(old \union {e}) = {}
    BY <1>4, <1>5 DEF Markers
  <2>2. Valid(old \union {e})
    BY <1>2, <2>1, UnchainedValid
  <2> QED  BY <1>5, <2>2
<1>6. CASE pending[r] = {e} /\ Markers(old) # {}
  <2>1. Visible(r) \ {e} = old
    BY <1>3, <1>4, <1>6
  <2>2. ASSUME NEW last \in old, IsLast(last, old), e.prev = last.hash PROVE Valid(old \union {e})
    <3>1. Below(old, e)
      BY <1>2 DEF Below
    <3> QED  BY <1>2, <1>4, <1>6, <2>2, <3>1, ExtendValid
  <2>3. \/ \E last \in old : IsLast(last, old) /\ e.prev = last.hash
        \/ Stale(tampered[LineOrg(r)], e.prev, old)
    BY <1>1, <1>6, <2>1 DEF ReadyBehind, LinksTo
  <2> QED  BY <1>6, <2>2, <2>3
<1>7. ASSUME Markers(old) = {}, NEW m \in pending[r] \ {e}, pending[r] \ {e} = {m}, IsMarker(m)
      PROVE  Valid(old \union pending[r])
  <2>1. Visible(r) \ {e} = old \union {m} /\ pending[r] = {m, e}
    BY <1>3, <1>4, <1>7
  <2>2. m.id < e.id
    BY <1>1, <2>1 DEF ReadyBehind
  <2>3. Below(old, m) /\ Below(old \union {m}, e)
    BY <1>2, <2>2 DEF Below
  <2>4. ~Stale(tampered[LineOrg(r)], e.prev, old \union {m})
    <3> SUFFICES ASSUME NEW c \in tampered[LineOrg(r)], m.id < c.was.id PROVE FALSE
      BY DEF Stale
    <3>1. PICK d \in tampered[Customer] : TouchInv(d.was, d.now)
      BY DEF Touched
    <3>2. LineOrg(r) = Customer /\ c = [was |-> d.was, now |-> d.now]
      BY <3>1, CommitRows DEF TouchInv
    <3>3. d.was.id < m.id /\ d.was.id \in Nat
      BY <3>1, <3>2 DEF TouchInv
    <3> QED  BY <1>2, <3>2, <3>3
  <2>5. m \in Markers(old \union {m})
    BY <1>7 DEF Markers, IsMarker
  <2>6. PICK last \in old \union {m} : IsLast(last, old \union {m}) /\ e.prev = last.hash
    BY <1>1, <2>1, <2>4, <2>5 DEF ReadyBehind, LinksTo
  <2>7. last = m
    BY <1>2, <2>3, <2>6 DEF IsLast, Below
  <2>8. Valid(old \union {m, e})
    BY <1>2, <1>4, <1>7, <2>1, <2>3, <2>6, <2>7, StartValid
  <2> QED  BY <2>1, <2>8
<1>8. \/ pending[r] = {e}
      \/ Markers(old) = {} /\ \E m \in pending[r] \ {e} : pending[r] \ {e} = {m} /\ IsMarker(m)
  BY <1>1 DEF ReadyBehind, Opens
<1> QED  BY <1>5, <1>6, <1>7, <1>8

\* No row of a chain is signed as one that is missing from it.
LEMMA NotWritten ==
    ASSUME Touched, NEW w, TouchInv(w, {}), InChain(w.id), OriginInv,
           Valid(RowsOf(Customer, table)), NEW x \in ChainOf(RowsOf(Customer, table))
    PROVE  x.hash # w.hash
<1>1. x \in table /\ x.org = Customer /\ x.kind \in Kind /\ Signed(x) /\ x.id \in Nat
  BY DEF ChainOf, RowsOf, Valid, Touched, TypeOK
<1>2. PICK m \in table : m.kind = "marker" /\ m.id <= x.id
  BY DEF ChainOf, Markers, RowsOf
<1>3. m.id \in Nat /\ m.id >= FirstId
  BY <1>2, LegacyAssumption DEF OriginInv, WrittenRow
<1>4. x \notin Legacy
  BY <1>1, <1>2, <1>3, LegacyAssumption
<1>5. x.content \in Request \union {System}
  BY <1>1, <1>4 DEF OriginInv, WrittenRow
<1>6. WasWritten(w) /\ w.org = Customer
  BY DEF TouchInv, Forgeries
<1> SUFFICES ASSUME x.hash = w.hash PROVE FALSE
  OBVIOUS
<1>7. Text(Customer, w.kind, w.content) = Text(Customer, x.kind, x.content)
  BY <1>1, <1>6, SameText DEF WasWritten
<1>8. w.content = x.content /\ w.kind = x.kind
  BY <1>1, <1>5, <1>6, <1>7, TextAssumption, CustomerAssumption DEF WasWritten
<1> QED  BY <1>1, <1>6, <1>8 DEF WasWritten

\* What a request has written stays written, and a line is written once.
LEMMA WrittenGrows ==
    ASSUME TypeOK, [Next]_vars, NEW q \in Request
    PROVE  Written(q) \subseteq Written(q)'
<1>1. CASE UNCHANGED vars
  BY <1>1 DEF vars, Written, HasCustomerLine, LineKind
<1>2. ASSUME NEW r \in Request, LockOrg(r) \/ (Step(r) /\ ~Commit(r)) \/ Abort(r)
      PROVE  Written(q) \subseteq Written(q)'
  <2>1. line' = line /\ plan' = plan /\ pc[r] # "done" /\ \A p \in Request \ {r} : pc'[p] = pc[p]
    BY <1>2 DEF TypeOK, Step, Work, LockOrg, CheckMarker, InsertMarker, ReadLast, InsertLine, Insert, Abort, Goto
  <2>2. pc'[r] # "done"
    BY <1>2 DEF TypeOK, Step, Work, LockOrg, CheckMarker, InsertMarker, ReadLast, InsertLine, Insert, Abort, Goto
  <2> QED  BY <2>1, <2>2 DEF Written, HasCustomerLine, LineKind
<1>3. ASSUME NEW r \in Request, Commit(r)
      PROVE  Written(q) \subseteq Written(q)'
  <2>1. plan' = plan /\ pc[r] = "commit" /\ \A p \in Request \ {r} : pc'[p] = pc[p] /\ line'[p] = line[p]
    BY <1>3 DEF TypeOK, Commit
  <2>2. \/ line[r] = 1 /\ HasCustomerLine(r) /\ line'[r] = 2 /\ pc'[r] = "lock"
        \/ ~(line[r] = 1 /\ HasCustomerLine(r)) /\ pc'[r] = "done" /\ line'[r] = line[r]
    BY <1>3 DEF TypeOK, Commit
  <2>3. line[r] = 2 => HasCustomerLine(r)
    BY DEF TypeOK
  <2> QED  BY <2>1, <2>2, <2>3 DEF Written, HasCustomerLine, LineKind, TypeOK
<1> QED  BY <1>1, <1>2, <1>3 DEF Next, Rest

LEMMA CommitIsNew ==
    ASSUME TypeOK, NEW r \in Request, Commit(r)
    PROVE  LineKind(r) \notin Written(r)
BY DEF TypeOK, Commit, Written, LineKind, HasCustomerLine

\* The touch stays what it was while writers go on.
LEMMA TouchStays ==
    ASSUME Touched, [Next]_vars, UNCHANGED tampered, NEW w, NEW now, TouchInv(w, now),
           TypeOK'
    PROVE  /\ TouchInv(w, now)'
           /\ InChain(w.id)' <=> InChain(w.id)
<1>1. /\ table \subseteq table' /\ nextId \in Nat /\ nextId' \in {nextId, nextId + 1} /\ plan' = plan
      /\ table' = table \/ \E r \in Request : Commit(r) /\ table' = table \union pending[r]
  BY DEF Next, Rest, vars, Step, Work, LockOrg, CheckMarker, InsertMarker, ReadLast, InsertLine, Insert,
         Commit, Abort, Touched, TypeOK
<1>2. w.id \in Nat /\ w.id < nextId /\ w.org = Customer
  BY DEF TouchInv
<1>3. InChain(w.id)' <=> InChain(w.id)
  <2>1. ASSUME NEW r \in Request, Commit(r), table' = table \union pending[r]
        PROVE  \A m \in table' : m.org = Customer /\ m.id <= w.id => m \in table
    <3>1. \A x \in pending[r] : x.org = LineOrg(r) /\ x.id \in Nat /\ (LineOrg(r) = Customer => w.id < x.id)
      BY <2>1, CommitRows DEF TouchInv
    <3> QED  BY <1>2, <2>1, <3>1
  <2>2. \A m \in table' : m.org = Customer /\ m.id <= w.id => m \in table
    BY <1>1, <2>1
  <2> QED  BY <1>1, <2>2 DEF InChain, Markers, RowsOf
<1>4. ASSUME NEW r \in Request, (LineOrg(r) = Customer)', NEW x \in pending'[r] PROVE w.id < x.id
  <2>1. CASE x \in pending[r] /\ LineOrg(r)' = LineOrg(r)
    BY <1>4, <2>1 DEF TouchInv
  <2>2. CASE x.id = nextId
    BY <1>2, <2>2
  <2>3. x \in pending[r] \/ x.id = nextId
    BY <1>4 DEF Next, Rest, vars, Step, Work, LockOrg, CheckMarker, InsertMarker, ReadLast, InsertLine, Insert,
                NewRow, Commit, Abort, Touched, TypeOK
  <2>4. line'[r] = line[r] \/ pending'[r] = {}
    BY DEF Next, Rest, vars, Step, Work, LockOrg, CheckMarker, InsertMarker, ReadLast, InsertLine, Insert,
           Commit, Abort, Touched, TypeOK
  <2>5. LineOrg(r)' = LineOrg(r)
    BY <1>1, <1>4, <2>4 DEF LineOrg
  <2> QED  BY <2>1, <2>2, <2>3, <2>5
<1>5. ASSUME OriginInv PROVE OriginInv'
  BY <1>5, NextOriginInv DEF Touched
<1>6. ASSUME WasWritten(w) PROVE WasWritten(w)'
  <2>1. w.kind \in Written(w.content)'
    BY <1>6, WrittenGrows DEF WasWritten, Touched
  <2>2. ASSUME NEW x \in table' \ table, x.content = w.content PROVE x.kind # w.kind
    <3>1. PICK r \in Request : Commit(r) /\ x \in pending[r]
      BY <1>1, <2>2
    <3>2. x.kind = "marker" \/ (x.content = r /\ x.kind = LineKind(r))
      BY <3>1 DEF Touched, Own
    <3>3. LineKind(r) \notin Written(r)
      BY <3>1, CommitIsNew DEF Touched
    <3> QED  BY <1>6, <2>2, <3>2, <3>3 DEF WasWritten
  <2> QED  BY <1>6, <2>1, <2>2 DEF WasWritten
<1>7. TouchInv(w, now)'
  <2>1. tampered' = [o \in Org |-> IF o = Customer THEN {[was |-> w, now |-> now]} ELSE {}]
    BY DEF TouchInv
  <2>2. w.id < nextId'
    BY <1>1, <1>2
  <2>3. \/ now = {} /\ OriginInv' /\ (InChain(w.id)' => WasWritten(w)')
        \/ \E v \in Forgeries(w) \intersect table' : now = {v}
    BY <1>1, <1>3, <1>5, <1>6 DEF TouchInv
  <2> QED  BY <1>2, <1>4, <2>1, <2>2, <2>3 DEF TouchInv
<1> QED  BY <1>3, <1>7

(***************************************************************************)
(* A line committed behind the touched rows: damage that showed shows      *)
(* still, and what was missed by nobody is missed by a writer who had read *)
(* it, and by no other.                                                    *)
(***************************************************************************)
LEMMA CommitVerdict ==
    ASSUME Touched, UNCHANGED tampered, NEW r \in Request, Commit(r), TypeOK',
           NEW w, NEW now, TouchInv(w, now), LineOrg(r) = Customer
    PROVE  Valid(RowsOf(Customer, table')) <=> ~Shows([was |-> w, now |-> now])'
<1> DEFINE c == [was |-> w, now |-> now]
           old == RowsOf(Customer, table)
           new == RowsOf(Customer, table')
<1>1. /\ old = Rows(r) /\ new = old \union pending[r]
      /\ \A x \in pending[r] : x.id \in Nat /\ \A y \in old : y.id < x.id
      /\ \A y \in old : y.id \in Nat
  BY CommitRows DEF Rows
<1>2. tampered[LineOrg(r)] = {c} /\ w.id \in Nat /\ \A x \in pending[r] : w.id < x.id
  BY CustomerAssumption DEF TouchInv
<1>3. InChain(w.id)' <=> InChain(w.id)
  BY TouchStays DEF Next, Step
<1>4. HasSuccessor(w)' <=> HasSuccessor(w) \/ \E x \in pending[r] : x.prev = w.hash
  BY <1>1, <1>2 DEF HasSuccessor
<1>5. Valid(old) <=> ~Shows(c)
  BY <1>2, CustomerAssumption DEF Touched, VerdictIsExact
<1>6. \A v \in now : v.id = w.id
  BY DEF TouchInv, Forgeries
<1>7. Shows(c)' <=> \/ now = {} /\ InChain(w.id)' /\ HasSuccessor(w)'
                    \/ \E v \in now : ~ReadsTheSame(w, v) /\ (v.hash # NoHash \/ InChain(w.id)')
  BY <1>6 DEF Shows, ReadsTheSame
<1>8. Shows(c) <=> \/ now = {} /\ InChain(w.id) /\ HasSuccessor(w)
                   \/ \E v \in now : ~ReadsTheSame(w, v) /\ (v.hash # NoHash \/ InChain(w.id))
  BY <1>6 DEF Shows
<1>9. CASE ~Valid(old)
  <2>1. ~Valid(new)
    BY <1>1, <1>9, StaysCondemned
  <2>2. Shows(c)'
    BY <1>3, <1>4, <1>5, <1>7, <1>8, <1>9
  <2> QED  BY <2>1, <2>2
<1>10. ASSUME Valid(old), now = {}, InChain(w.id) PROVE \A x \in ChainOf(old) : x.hash # w.hash
  <2>1. TouchInv(w, {}) /\ OriginInv
    BY <1>10 DEF TouchInv, Forgeries
  <2> QED  BY <1>10, <2>1, NotWritten
<1>11. ASSUME NEW last \in old, IsLast(last, old), Markers(old) # {} PROVE last \in ChainOf(old)
  BY <1>11 DEF IsLast, ChainOf, Markers
<1>12. ASSUME Valid(old), Valid(new),
              Markers(old) # {} => \E last \in old : \A x \in pending[r] : IsLast(last, old) /\ x.prev = last.hash
       PROVE  ~Shows(c)'
  <2>1. ASSUME now = {}, InChain(w.id) PROVE ~\E x \in pending[r] : x.prev = w.hash
    <3>1. Markers(old) # {}
      BY <2>1 DEF InChain
    <3> QED  BY <1>10, <1>11, <1>12, <2>1, <3>1
  <2> QED  BY <1>3, <1>4, <1>5, <1>7, <1>8, <1>12, <2>1
<1>13. ASSUME Valid(old), NEW e \in pending[r], pending[r] = {e}, Markers(old) # {}, Stale({c}, e.prev, old)
       PROVE  ~Valid(new) /\ Shows(c)'
  <2>1. now = {} /\ e.prev = w.hash /\ \A x \in old : x.id < w.id
    BY <1>13 DEF Stale
  <2>2. PICK m \in old : m.kind = "marker"
    BY <1>13 DEF Markers
  <2>3. m.id <= w.id
    BY <1>1, <1>2, <2>1, <2>2
  <2>4. InChain(w.id)
    BY <2>2, <2>3 DEF InChain, Markers
  <2>5. PICK last \in old : \A x \in old : x.id <= last.id
    <3>1. \A x \in old : x.id \in Nat /\ x.id <= w.id
      BY <1>1, <1>2, <2>1
    <3> HIDE DEF old
    <3> QED  BY <1>2, <2>2, <3>1, GreatestId
  <2>6. IsLast(last, old) /\ last.hash # w.hash
    BY <1>10, <1>11, <1>13, <2>1, <2>4, <2>5 DEF IsLast
  <2>7. Below(old, e)
    BY <1>1 DEF Below
  <2>8. ~Valid(old \union {e})
    BY <1>13, <2>1, <2>6, <2>7, StaleLinkShows
  <2> QED  BY <1>1, <1>3, <1>4, <1>7, <1>13, <2>1, <2>4, <2>8
<1>14. CASE Valid(old)
  <2>1. \/ Valid(new) /\ (Markers(old) # {} =>
              \E last \in old : \A x \in pending[r] : IsLast(last, old) /\ x.prev = last.hash)
        \/ \E e \in pending[r] : pending[r] = {e} /\ Markers(old) # {} /\ Stale({c}, e.prev, old)
    BY <1>1, <1>2, <1>14, CommitValid
  <2> QED  BY <1>12, <1>13, <1>14, <2>1
<1> QED  BY <1>9, <1>14

LEMMA NextTouched == Touched /\ [Next]_vars /\ UNCHANGED tampered => Touched'
<1> SUFFICES ASSUME Touched, [Next]_vars, UNCHANGED tampered PROVE Touched'
  OBVIOUS
<1>1. TypeOK'
  BY NextTypeOK DEF Touched
<1>2. PICK c \in tampered[Customer] : TouchInv(c.was, c.now)
  BY DEF Touched
<1>3. TouchInv(c.was, c.now)'
  BY <1>1, <1>2, TouchStays
<1>4. (\E d \in tampered[Customer] : TouchInv(d.was, d.now))'
  BY <1>3
<1>5. ASSUME NEW r \in Request, LockOrg(r) \/ Step(r) \/ Abort(r)
      PROVE  LockInv' /\ IdInv' /\ (\A q \in Request : Own(q)') /\ VerdictIsExact'
  <2>1. LockInv'
    BY <1>5, NextLockInv DEF Touched
  <2>2. \A q \in Request \ {r} : Own(q)'
    BY <1>5, OthersOwn
  <2>3. CASE ~Commit(r)
    <3>1. Own(r)'
      BY <1>1, <1>5, <2>3, StepOwn
    <3>2. table' = table /\ (nextId' = nextId \/ nextId' = nextId + 1)
      BY <1>5, <2>3 DEF Step, Work, LockOrg, CheckMarker, InsertMarker, ReadLast, InsertLine, Insert, Abort
    <3>3. IdInv'
      BY <3>2 DEF Touched, IdInv, TypeOK
    <3>4. VerdictIsExact'
      BY <3>2 DEF Touched, VerdictIsExact, Shows, InChain, HasSuccessor, ReadsTheSame, RowsOf
    <3> QED  BY <2>1, <2>2, <3>1, <3>3, <3>4
  <2>4. CASE Commit(r)
    <3>1. Own(r)'
      <4>1. pending'[r] = {} /\ pc'[r] \in {"lock", "done"}
        BY <2>4 DEF Commit, Touched, TypeOK
      <4> QED  BY <4>1 DEF Own, Fresh, Knows, Holding
    <3>2. table' = table \union pending[r] /\ nextId' = nextId
      BY <2>4 DEF Commit
    <3>3. /\ LineOrg(r) \in Org
          /\ RowsOf(LineOrg(r), table') = Rows(r) \union pending[r]
          /\ \A o \in Org \ {LineOrg(r)} : RowsOf(o, table') = RowsOf(o, table)
      BY <2>4, CommitRows
    <3>4. IdInv'
      <4>1. \A x \in table' : x.id < nextId'
        BY <3>2 DEF Touched, IdInv, Own, Fresh
      <4>2. \A x, y \in pending[r] : x.id = y.id => x = y
        BY DEF Touched, Own
      <4>3. \A x \in pending[r] : x.org = LineOrg(r) /\ x.id \in Nat /\ \A y \in Rows(r) : y.id < x.id
        BY <2>4, CommitRows
      <4>4. \A x, y \in table' : x.org = y.org /\ x.id = y.id => x = y
        BY <3>2, <4>2, <4>3 DEF Touched, IdInv, TypeOK, Rows, RowsOf
      <4> QED  BY <4>1, <4>4 DEF IdInv
    <3>5. VerdictIsExact'
      <4> SUFFICES ASSUME NEW o \in Org
                   PROVE  ~Valid(RowsOf(o, table')) <=> \E d \in tampered[o] : Shows(d)'
        BY DEF VerdictIsExact
      <4>1. tampered = [p \in Org |-> IF p = Customer THEN {[was |-> c.was, now |-> c.now]} ELSE {}]
        BY <1>2 DEF TouchInv
      <4>2. CASE o # Customer /\ o # LineOrg(r)
        BY <3>3, <4>1, <4>2 DEF Touched, VerdictIsExact
      <4>3. CASE o # Customer /\ o = LineOrg(r)
        <5>1. tampered[o] = {} /\ Valid(Rows(r))
          BY <4>1, <4>3 DEF Touched, VerdictIsExact, Rows
        <5>2. ~Stale(tampered[LineOrg(r)], NoHash, {}) /\ \A h, s : ~Stale(tampered[LineOrg(r)], h, s)
          BY <4>3, <5>1 DEF Stale
        <5>3. Valid(Rows(r) \union pending[r])
          BY <2>4, <5>1, <5>2, CommitValid
        <5> QED  BY <3>3, <4>3, <5>1, <5>3
      <4>4. CASE o = Customer /\ o = LineOrg(r)
        <5>1. Valid(RowsOf(Customer, table')) <=> ~Shows([was |-> c.was, now |-> c.now])'
          BY <1>1, <1>2, <2>4, <4>4, CommitVerdict
        <5> QED  BY <4>1, <4>4, <5>1
      <4>5. CASE o = Customer /\ o # LineOrg(r)
        <5>1. RowsOf(Customer, table') = RowsOf(Customer, table)
          BY <3>3, <4>5
        <5>2. \A d : Shows(d)' <=> Shows(d)
          BY <5>1 DEF Shows, InChain, HasSuccessor, ReadsTheSame
        <5> QED  BY <4>5, <5>1, <5>2 DEF Touched, VerdictIsExact
      <4> QED  BY <4>2, <4>3, <4>4, <4>5
    <3> QED  BY <2>1, <2>2, <3>1, <3>4, <3>5
  <2> QED  BY <2>3, <2>4
<1>6. CASE UNCHANGED vars
  <2>1. LockInv' /\ IdInv'
    BY <1>6 DEF vars, Touched, LockInv, Holding, LineOrg, IdInv
  <2>2. VerdictIsExact'
    <3>1. table' = table
      BY <1>6 DEF vars
    <3>2. \A d : Shows(d)' <=> Shows(d)
      BY <3>1 DEF Shows, InChain, HasSuccessor, ReadsTheSame
    <3> QED  BY <3>1, <3>2 DEF Touched, VerdictIsExact
  <2>3. \A q \in Request : Own(q)'
    <3> SUFFICES ASSUME NEW q \in Request PROVE Own(q)'
      OBVIOUS
    <3>1. /\ table' = table /\ pending' = pending /\ prev' = prev /\ pc' = pc /\ line' = line
          /\ plan' = plan /\ nextId' = nextId
      BY <1>6 DEF vars
    <3>2. LineOrg(q)' = LineOrg(q) /\ LineKind(q)' = LineKind(q) /\ (Holding(q)' <=> Holding(q))
      BY <3>1 DEF LineOrg, LineKind, HasCustomerLine, Holding
    <3>3. Rows(q)' = Rows(q) /\ Visible(q)' = Visible(q)
      BY <3>1, <3>2 DEF Rows, Visible
    <3>4. Fresh(q)' <=> Fresh(q)
      BY <3>1, <3>2, <3>3 DEF Fresh, Rows
    <3>5. \A s : Opens(q, s)' <=> Opens(q, s)
      BY <3>3 DEF Opens
    <3>6. \A e : ReadyBehind(q, e)' <=> ReadyBehind(q, e)
      BY <3>1, <3>2, <3>3, <3>5 DEF ReadyBehind
    <3>7. Knows(q)' <=> Knows(q)
      BY <3>1, <3>2, <3>3, <3>5, <3>6 DEF Knows
    <3> QED  BY <3>1, <3>2, <3>3, <3>4, <3>7 DEF Touched, Own
  <2> QED  BY <1>1, <1>4, <2>1, <2>2, <2>3 DEF Touched
<1> QED  BY <1>1, <1>4, <1>5, <1>6 DEF Touched, Next, Rest

-----------------------------------------------------------------------------
(* Theorem. *)

(***************************************************************************)
(* verify_audit_chain is exact about what it can see: an organization is   *)
(* reported as compromised exactly if a row in front of another of its     *)
(* chain is gone or a row reads otherwise than it was written, whenever it *)
(* was done, whatever the writers had read by then, and whatever they have *)
(* appended since; no other organization is affected.  The touches it does *)
(* not see are those that leave Shows false.                               *)
(***************************************************************************)
THEOREM TamperingShows == TSpec => []VerdictIsExact
<1>1. TInit => TamperInv
  BY InitClean DEF TamperInv
<1>2. TamperInv /\ [TNext]_tvars => TamperInv'
  <2> SUFFICES ASSUME TamperInv, [TNext]_tvars PROVE TamperInv'
    OBVIOUS
  <2>1. CASE [Next]_vars /\ UNCHANGED tampered
    BY <2>1, NextClean, NextTouched DEF TamperInv
  <2>2. ASSUME NEW w \in RowsOf(Customer, table), Alter(w) \/ Delete(w) PROVE TamperInv'
    <3>1. tampered[Customer] = {}
      BY <2>2 DEF Alter, Delete, Touch
    <3>2. Clean
      BY <3>1 DEF TamperInv, Touched
    <3> QED  BY <2>2, <3>2, TouchStep DEF TamperInv
  <2> QED  BY <2>1, <2>2 DEF TNext, tvars
<1>3. TamperInv => VerdictIsExact
  BY CleanVerdict DEF TamperInv, Touched
<1> QED  BY <1>1, <1>2, <1>3, PTL DEF TSpec
=============================================================================
