---------------------------- MODULE WorkflowRuns ----------------------------
(***************************************************************************)
(* Requests that run a workflow or delete a stored run: the connection     *)
(* pool, the anonymiser's engine, the workflow_runs rows and their audit   *)
(* lines (app/workflows/services/runner.py and routers/, app/api/          *)
(* workflows.py, core/pii_anonymizer.py, db/session.py).                   *)
(*                                                                         *)
(* A request holds a connection from its first query on.  The runner works *)
(* on a session of its own, which takes one more connection from the pool  *)
(* for each transaction and gives it back within the step; one that finds  *)
(* none free waits, and gives up after 30 seconds.                         *)
(***************************************************************************)
EXTENDS Naturals, Sequences, FiniteSets

CONSTANTS
    Runner,        \* requests that run a workflow
    Deleter,       \* requests that delete a run
    Nobody,        \* who holds the engine's lock when nobody does
    PoolSize,      \* connections of the pool (15)
    MaxCrashes     \* bound: crashes of the process

Request == Runner \union Deleter

ASSUME RunsAssumption ==
    /\ Runner \intersect Deleter = {} /\ Nobody \notin Request
    /\ IsFiniteSet(Runner) /\ IsFiniteSet(Deleter)
    /\ PoolSize \in Nat /\ MaxCrashes \in Nat

VARIABLES
    pc,            \* where a request is; "end" when it is answered, "dead" after a crash
    holds,         \* the requests holding the connection of their own session
    target,        \* the run a Deleter is about
    row,           \* the statuses of the rows with the id of a Runner's run
    lines,         \* the audit lines about a run: [kind, by]
    answer,        \* what a request was told
    engine,        \* "none", "ready" or "failed": _analyzer and _init_error
    builder,       \* who holds _init_lock
    builds,        \* how often the engine was built since the process started
    lost,          \* the requests for which a COMMIT was carried out and its answer lost
    crashes

vars == <<pc, holds, target, row, lines, answer, engine, builder, builds, lost, crashes>>

Store == <<row, lines, lost>>
Engine == <<engine, builder, builds>>
Fixed == <<target, crashes>>

Ended(r) == pc[r] \in {"end", "dead"}

Line(kind, by) == [kind |-> kind, by |-> by]

ConnectionFree == Cardinality(holds) < PoolSize

Go(r, place) == pc' = [pc EXCEPT ![r] = place]

\* The answer, and the end of the request's own session.
Reply(r, told) ==
    /\ Go(r, "end")
    /\ answer' = [answer EXCEPT ![r] = told]
    /\ holds' = holds \ {r}

\* Variant: run_id is not unique.
UniqueUnchecked(r) == TRUE

\* run_id is unique: no row with it may be there.
Unique(r) == row[r] = {}

StoreRow(r, status) == row' = [row EXCEPT ![r] = @ \union {status}]
StoreLine(r, kind, by) == lines' = [lines EXCEPT ![r] = @ \union {Line(kind, by)}]

\* What follows a COMMIT that was carried out.  If its answer is lost that is an exception, and
\* the end of the request: the error path cannot use the session any more.
Committed(r, place, held) ==
    \/ Go(r, place) /\ holds' = held /\ UNCHANGED <<answer, lost>>
    \/ Reply(r, "500") /\ lost' = lost \union {r}

Init ==
    /\ pc = [r \in Request |-> "new"]
    /\ holds = {}
    /\ target \in [Deleter -> Runner]
    /\ row = [r \in Runner |-> {}]
    /\ lines = [r \in Runner |-> {}]
    /\ answer = [r \in Request |-> "none"]
    /\ engine = "none" /\ builder = Nobody /\ builds = 0
    /\ lost = {} /\ crashes = 0

-----------------------------------------------------------------------------
(* The request's own session. *)

Connect(r) ==
    /\ pc[r] = "new" /\ ConnectionFree
    /\ Go(r, "check")
    /\ holds' = holds \union {r}
    /\ UNCHANGED <<Store, answer, Engine, Fixed>>

\* No valid token, no such module for the organization, an unsupported language of a quote.
Refuse(r) ==
    /\ pc[r] = "check"
    /\ Reply(r, "refused")
    /\ UNCHANGED <<Store, Engine, Fixed>>

\* A question to the library reads the documents first.
Accept(r) ==
    /\ pc[r] = "check" /\ r \in Runner
    /\ Go(r, "documents") \/ Go(r, "engine")
    /\ UNCHANGED <<holds, Store, answer, Engine, Fixed>>

\* _load_documents: a third session.
LoadDocuments(r) ==
    /\ pc[r] = "documents" /\ ConnectionFree
    /\ Go(r, "engine")
    /\ UNCHANGED <<holds, Store, answer, Engine, Fixed>>

-----------------------------------------------------------------------------
(* The engine (_get_engines).  What the anonymiser cannot do ends in a degraded result, which *)
(* the runner stores as "ok". *)

LookForEngine(r) ==
    /\ pc[r] = "engine"
    /\ Go(r, CASE engine = "ready" -> "model" [] engine = "failed" -> "save" [] OTHER -> "lock")
    /\ UNCHANGED <<holds, Store, answer, Engine, Fixed>>

\* Variant: whoever gets the lock builds.
FoundUnderLockNothing == FALSE

\* What another request has built, or failed to build, while this one waited for the lock.
FoundUnderLock == engine # "none"

LockEngine(r) ==
    /\ pc[r] = "lock" /\ builder = Nobody
    /\ IF FoundUnderLock
       THEN Go(r, IF engine = "ready" THEN "model" ELSE "save") /\ UNCHANGED builder
       ELSE Go(r, "build") /\ builder' = r
    /\ UNCHANGED <<holds, Store, answer, engine, builds, Fixed>>

BuildEngine(r) ==
    /\ pc[r] = "build"
    /\ \/ engine' = "ready" /\ Go(r, "model")
       \/ engine' = "failed" /\ Go(r, "save")
    /\ builder' = Nobody /\ builds' = builds + 1
    /\ UNCHANGED <<holds, Store, answer, Fixed>>

-----------------------------------------------------------------------------
(* The runner. *)

\* The workflow returns, whatever the language model did, or raises.
Work(r) ==
    /\ pc[r] = "model"
    /\ Go(r, "save") \/ Go(r, "saveError")
    /\ UNCHANGED <<holds, Store, answer, Engine, Fixed>>

Save(r) ==
    /\ pc[r] = "save" /\ ConnectionFree
    /\ StoreRow(r, "ok")
    /\ Committed(r, "audit", holds)
    /\ UNCHANGED <<lines, Engine, Fixed>>

\* A flush that fails leaves the session in a state in which the error path fails, too.
SaveFails(r) ==
    /\ pc[r] \in {"save", "saveError"}
    /\ Reply(r, "500")
    /\ UNCHANGED <<Store, Engine, Fixed>>

\* The row is read again, then its line is written; a row deleted meanwhile is an exception.
Audit(r) ==
    /\ pc[r] = "audit" /\ ConnectionFree
    /\ IF row[r] = {}
       THEN Go(r, "saveError") /\ UNCHANGED <<holds, lines, answer, lost>>
       ELSE StoreLine(r, "ok", r) /\ Committed(r, "ok", holds)
    /\ UNCHANGED <<row, Engine, Fixed>>

\* Variant: the error of the audit line is swallowed.
AuditFailsSilently(r) ==
    /\ pc[r] = "audit"
    /\ Reply(r, "ok")
    /\ UNCHANGED <<Store, Engine, Fixed>>

\* A query of the audit fails, which leads to the error path, or a flush, which ends it.
AuditFails(r) ==
    /\ pc[r] = "audit"
    /\ \/ Go(r, "saveError") /\ UNCHANGED <<holds, answer>>
       \/ Reply(r, "500")
    /\ UNCHANGED <<Store, Engine, Fixed>>

\* The error path inserts a row with the same run_id.
SaveError(r) ==
    /\ pc[r] = "saveError" /\ ConnectionFree
    /\ IF Unique(r)
       THEN StoreRow(r, "error") /\ Committed(r, "auditError", holds)
       ELSE Reply(r, "500") /\ UNCHANGED <<row, lost>>
    /\ UNCHANGED <<lines, Engine, Fixed>>

AuditError(r) ==
    /\ pc[r] = "auditError" /\ ConnectionFree
    /\ IF row[r] = {}
       THEN Reply(r, "500") /\ UNCHANGED <<lines, lost>>
       ELSE StoreLine(r, "error", r) /\ Committed(r, "error", holds)
    /\ UNCHANGED <<row, Engine, Fixed>>

AuditErrorFails(r) ==
    /\ pc[r] = "auditError"
    /\ Reply(r, "500")
    /\ UNCHANGED <<Store, Engine, Fixed>>

-----------------------------------------------------------------------------
(* Deleting a run. *)

Find(r) ==
    /\ pc[r] = "check" /\ r \in Deleter
    /\ IF row[target[r]] = {}
       THEN Reply(r, "404")
       ELSE Go(r, "delete") /\ UNCHANGED <<holds, answer>>
    /\ UNCHANGED <<Store, Engine, Fixed>>

\* The commit ends the transaction and with it the hold on the connection; a row that another
\* request has deleted meanwhile is no error.
Delete(r) ==
    /\ pc[r] = "delete"
    /\ row' = [row EXCEPT ![target[r]] = {}]
    /\ Committed(r, "auditDelete", holds \ {r})
    /\ UNCHANGED <<lines, Engine, Fixed>>

AuditDelete(r) ==
    /\ pc[r] = "auditDelete" /\ ConnectionFree
    /\ StoreLine(target[r], "deleted", r)
    /\ Committed(r, "deleted", holds)
    /\ UNCHANGED <<row, Engine, Fixed>>

AuditDeleteFails(r) ==
    /\ pc[r] \in {"delete", "auditDelete"}
    /\ Reply(r, "500")
    /\ UNCHANGED <<Store, Engine, Fixed>>

-----------------------------------------------------------------------------
(* The end. *)

\* All is committed; the response is made and sent.
Answer(r) ==
    /\ pc[r] \in {"ok", "error", "deleted"}
    /\ Reply(r, pc[r])
    /\ UNCHANGED <<Store, Engine, Fixed>>

-----------------------------------------------------------------------------
(* Waiting, crashes. *)

\* Variant: only a request's first connection is given up.
WaitsUpFirst(r) == pc[r] = "new"

Waits(r) == pc[r] \in {"new", "documents", "save", "audit", "saveError", "auditError", "auditDelete"}

\* No connection came free: an exception.  In the workflow, and when the stored row is read
\* again, it leads to the error path; anywhere else it is the end of the request.
GiveUp(r) ==
    /\ Waits(r) /\ ~ConnectionFree
    /\ IF pc[r] \in {"documents", "audit"}
       THEN Go(r, "saveError") /\ UNCHANGED <<holds, answer>>
       ELSE Reply(r, "500")
    /\ UNCHANGED <<Store, Engine, Fixed>>

Crash ==
    /\ crashes < MaxCrashes
    /\ crashes' = crashes + 1
    /\ pc' = [r \in Request |-> IF Ended(r) THEN pc[r] ELSE "dead"]
    /\ holds' = {}
    /\ engine' = "none" /\ builder' = Nobody /\ builds' = 0
    /\ UNCHANGED <<target, Store, answer>>

Step(r) ==
    \/ Connect(r) \/ Refuse(r) \/ GiveUp(r)
    \/ Accept(r) \/ LoadDocuments(r)
    \/ LookForEngine(r) \/ LockEngine(r) \/ BuildEngine(r) \/ Work(r)
    \/ Save(r) \/ SaveFails(r) \/ Audit(r) \/ AuditFails(r)
    \/ SaveError(r) \/ AuditError(r) \/ AuditErrorFails(r)
    \/ Find(r) \/ Delete(r) \/ AuditDelete(r) \/ AuditDeleteFails(r) \/ Answer(r)

Next == Crash \/ \E r \in Request : Step(r)

Spec == Init /\ [][Next]_vars

\* Every thread gets on; the calls of the language model have a time limit of their own.
FairSpec == Spec /\ \A r \in Request : WF_vars(Step(r))

-----------------------------------------------------------------------------
(* Properties. *)

Place ==
    {"new", "check", "documents", "engine", "lock", "build", "model", "save", "audit", "saveError",
     "auditError", "delete", "auditDelete", "ok", "error", "deleted", "end", "dead"}

\* A request that has ended holds nothing: no connection of the pool, no lock; the pool never
\* lends more than it has.
TypeOK ==
    /\ pc \in [Request -> Place]
    /\ holds \subseteq {r \in Request : ~Ended(r)} /\ Cardinality(holds) <= PoolSize
    /\ target \in [Deleter -> Runner]
    /\ row \in [Runner -> SUBSET {"ok", "error"}]
    /\ lines \in [Runner -> SUBSET [kind : {"ok", "error", "deleted"}, by : Request]]
    /\ answer \in [Request -> {"none", "refused", "ok", "error", "500", "404", "deleted"}]
    /\ engine \in {"none", "ready", "failed"} /\ builds \in Nat /\ crashes \in 0..MaxCrashes
    /\ builder \in Request \union {Nobody} /\ lost \subseteq Request

Written(r) == {line \in lines[r] : line.kind # "deleted"}

\* The request that wrote a line has told its caller so, is about to, died before, or lost the
\* answer to the COMMIT, and its caller was told of a failure.
Says(r, kind) == answer[r] = kind \/ pc[r] \in {kind, "dead"} \/ r \in lost

\* The row of a run was taken away by a request that has written its line, failed to, or is
\* about to.
WasDeleted(r) == row[r] = {} /\ \E d \in Deleter : target[d] = r /\ pc[d] \in {"auditDelete", "deleted", "end", "dead"}

\* What a caller is told is what was recorded: a run has one row at most and one line of its
\* execution at most, of the row's status, and its caller was told of it unless the process
\* died or the answer to a COMMIT was lost in between; a caller who was told how a run ended
\* has its line, and a run that is gone was deleted; an answered deletion has its line, and a
\* line its answer but for the same two reasons (run_workflow, delete_workflow_run).
RunsAreAccountedFor ==
    /\ \A r \in Runner :
          /\ Cardinality(row[r]) <= 1
          /\ answer[r] \in {"ok", "error"} => Line(answer[r], r) \in lines[r]
          /\ \/ Written(r) = {}
             \/ \E kind \in {"ok", "error"} :
                   Written(r) = {Line(kind, r)} /\ Says(r, kind) /\ (row[r] = {kind} \/ WasDeleted(r))
    /\ \A d \in Deleter :
          /\ answer[d] = "deleted" => Line("deleted", d) \in lines[target[d]]
          /\ Line("deleted", d) \in lines[target[d]] => Says(d, "deleted")

\* The engine is built once, though several first requests ask for it at once, and nobody
\* uses it before it is there (_get_engines).
EngineIsBuiltOnce ==
    /\ builds <= 1
    /\ engine = "none" <=> builds = 0
    /\ \A r \in Runner : pc[r] = "model" => engine = "ready"

\* Every request is answered or dies with the process, although each run needs a second
\* connection while it holds its first.
EveryRequestEnds == \A r \in Request : <>Ended(r)
=============================================================================
