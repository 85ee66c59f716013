---------------------------- MODULE AuditLedger ----------------------------
(***************************************************************************)
(* What the audit trail promises, without locks, statements or hashes:     *)
(* every organization owns an append-only log of numbered entries.  One    *)
(* step adds one line to one log, numbered above everything that log       *)
(* already holds; the first line of a log brings the marker that opens     *)
(* the log's chain, numbered between the legacy entries and the line.      *)
(***************************************************************************)
EXTENDS Integers

CONSTANTS
    Org,        \* the organizations
    LegacyLog   \* the entries written before per-organization chains existed

VARIABLE ledger \* a set of entries [id, org, kind, content]

\* The entries of one organization's log.
Log(o) == {e \in ledger : e.org = o}

Markers(o) == {e \in Log(o) : e.kind = "marker"}

Init == ledger = LegacyLog

(***************************************************************************)
(* Appending to o's log: the line `e` comes last; it is preceded by a new  *)
(* marker exactly when o's log has none.                                   *)
(***************************************************************************)
Append(o) ==
    \E e \in ledger' \ ledger :
        /\ e.org = o
        /\ e.kind # "marker"
        /\ \A f \in Log(o) : f.id < e.id
        /\ \/ /\ Markers(o) # {}
              /\ ledger' = ledger \union {e}
           \/ /\ Markers(o) = {}
              /\ \E m \in ledger' :
                    /\ m.org = o
                    /\ m.kind = "marker"
                    /\ m.id < e.id
                    /\ \A f \in Log(o) : f.id < m.id
                    /\ ledger' = ledger \union {m, e}

Next == \E o \in Org : Append(o)

Spec == Init /\ [][Next]_ledger
=============================================================================
