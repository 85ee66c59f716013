----------------------------- MODULE MfaLogin -----------------------------
(***************************************************************************)
(* The second factor of one user: enrolment, the code step of the login,   *)
(* disabling, and the emergency reset (app/api/mfa.py, app/core/mfa.py,    *)
(* scripts/mfa_reset.py).                                                  *)
(*                                                                         *)
(* A handler first loads the user (authentication, or the candidate of the *)
(* login), then takes the row lock in _locked_user.  That second query     *)
(* returns the object already in the session's identity map with the       *)
(* attributes of the FIRST load, so everything after it is decided on      *)
(* `copy`.  The commit writes the attributes whose value differs from the  *)
(* loaded one, and no other.  Time is counted in 30-second TOTP steps.     *)
(***************************************************************************)
EXTENDS Integers, Sequences, FiniteSets

CONSTANTS
    Request,        \* request slots, each serving one request after another
    NoRequest,
    SuperAdmin,     \* is this user a super-admin?
    BackupNo,       \* numbers of the backup codes of one batch
    MaxFailed,      \* MAX_FAILED_ATTEMPTS
    LockSteps,      \* LOCK_MINUTES, in steps
    MaxInFlight,    \* how many requests overlap
    MaxClock,       \* bound: the last step of the clock
    MaxIssued       \* bound: secrets and batches of backup codes issued

ASSUME MfaAssumption ==
    /\ NoRequest \notin Request
    /\ SuperAdmin \in BOOLEAN
    /\ {MaxFailed, LockSteps, MaxInFlight, MaxClock, MaxIssued} \subseteq Nat \ {0}

VARIABLES
    user,       \* the committed row
    rowLock,    \* the request holding the row FOR UPDATE
    pc,         \* request -> "idle", "loaded" or "locked"
    copy,       \* request -> the attributes as first loaded
    op,         \* request -> the endpoint or script it runs
    clock,      \* the current TOTP step
    issued,     \* secrets and batches handed out so far
    spent,      \* history: the codes accepted so far
    reused,     \* history: was a code accepted twice?
    wrong,      \* history: when the last wrong codes since a success were judged
    raced       \* history: have two requests about this user ever overlapped?

vars == <<user, rowLock, pc, copy, op, clock, issued, spent, reused, wrong, raced>>

TOLERANCE_STEPS == 1

None == 0       \* NULL in mfa_secret_enc and mfa_last_step; no lock in mfa_locked_until

Totp == [kind : {"totp"}, of : 1..MaxIssued, n : 1..MaxClock + TOLERANCE_STEPS]
Backup == [kind : {"backup"}, of : 1..MaxIssued, n : BackupNo]
Code == Totp \union Backup

Op == {"login", "enable", "disable", "setup", "reset"}

\* setup and the reset script change the row without locking it first.
Locking == {"login", "enable", "disable"}

-----------------------------------------------------------------------------
(* _check_code: the row after accepting `code`, judged on a row u. *)

\* Variant: a step may be used again.
FreshStepAny(u, s) == TRUE

FreshStep(u, s) == s > u.lastStep

AcceptsTotp(u, c) ==
    /\ c.kind = "totp"
    /\ c.of = u.secret
    /\ c.n \in clock - TOLERANCE_STEPS .. clock + TOLERANCE_STEPS
    /\ FreshStep(u, c.n)

AcceptsBackup(u, c) == c.kind = "backup" /\ c \in u.backup

Spend(u, c) ==
    IF c.kind = "totp" THEN [u EXCEPT !.lastStep = c.n] ELSE [u EXCEPT !.backup = @ \ {c}]

ResetCounters(u) == [u EXCEPT !.failed = 0, !.lockedUntil = None]

\* Variant: the fifth failure locks one step too short.
LockEndEarly == clock + LockSteps - 1

LockEnd == clock + LockSteps

\* _register_failure: the fifth failure in a row locks and starts counting anew.
Fail(u) ==
    IF u.failed + 1 >= MaxFailed
    THEN [u EXCEPT !.failed = 0, !.lockedUntil = LockEnd]
    ELSE [u EXCEPT !.failed = @ + 1]

IsLocked(u) == u.lockedUntil > clock

\* Variant: the backup codes survive.
ClearMfaKeepingBackup(u) ==
    ResetCounters([u EXCEPT !.enabled = FALSE, !.secret = None, !.lastStep = None])

ClearMfa(u) ==
    ResetCounters([u EXCEPT !.enabled = FALSE, !.secret = None, !.lastStep = None, !.backup = {}])

NewBatch == {[kind |-> "backup", of |-> issued + 1, n |-> b] : b \in BackupNo}

-----------------------------------------------------------------------------
\* A user who has never touched MFA.
Blank == [enabled |-> FALSE, secret |-> None, lastStep |-> None, backup |-> {},
          failed |-> 0, lockedUntil |-> None]

Init ==
    /\ user = Blank
    /\ rowLock = NoRequest
    /\ pc = [r \in Request |-> "idle"]
    /\ copy = [r \in Request |-> Blank]
    /\ op = [r \in Request |-> "none"]
    /\ clock = 1
    /\ issued = 0
    /\ spent = {}
    /\ reused = FALSE
    /\ wrong = <<>>
    /\ raced = FALSE

InFlight == {r \in Request : pc[r] # "idle"}

\* The request arrives and loads the user into its session.
Load(r, o) ==
    /\ pc[r] = "idle"
    /\ Cardinality(InFlight) < MaxInFlight
    /\ pc' = [pc EXCEPT ![r] = "loaded"]
    /\ copy' = [copy EXCEPT ![r] = user]
    /\ op' = [op EXCEPT ![r] = o]
    /\ raced' = (raced \/ InFlight # {})
    /\ UNCHANGED <<user, rowLock, clock, issued, spent, reused, wrong>>

\* _locked_user: the lock is taken, the loaded attributes stay.
Lock(r) ==
    /\ pc[r] = "loaded" /\ op[r] \in Locking
    /\ rowLock = NoRequest
    /\ rowLock' = r
    /\ pc' = [pc EXCEPT ![r] = "locked"]
    /\ UNCHANGED <<user, copy, op, clock, issued, spent, reused, wrong, raced>>

\* The request is over: its session closes and gives the row lock back.
Close(r) ==
    /\ pc' = [pc EXCEPT ![r] = "idle"]
    /\ rowLock' = IF rowLock = r THEN NoRequest ELSE rowLock
    /\ copy' = [copy EXCEPT ![r] = Blank]
    /\ op' = [op EXCEPT ![r] = "none"]
    /\ UNCHANGED <<clock, raced>>

\* Variant: the commit writes every attribute.
WriteWholeRow(r, new) == user' = new

\* COMMIT of the attributes in which `new` differs from the loaded copy.
Write(r, new) ==
    user' = [a \in DOMAIN user |-> IF new[a] # copy[r][a] THEN new[a] ELSE user[a]]

\* The handlers' checks before a code is looked at.
Judges(r) ==
    LET u == copy[r] IN
    /\ u.secret # None
    /\ ~IsLocked(u)
    /\ \/ op[r] = "login" /\ u.enabled
       \/ op[r] = "enable" /\ ~u.enabled
       \/ op[r] = "disable" /\ u.enabled /\ ~SuperAdmin

\* Codes somebody holds belong to a secret or batch that was issued; enable takes no
\* backup codes.
Accepts(r, c) ==
    /\ c.of <= issued
    /\ AcceptsTotp(copy[r], c) \/ (AcceptsBackup(copy[r], c) /\ op[r] # "enable")

Refuse(r) ==
    /\ pc[r] = "locked" /\ ~Judges(r)
    /\ Close(r)
    /\ UNCHANGED <<user, issued, spent, reused, wrong>>

\* A code _check_code does not accept (there always is one), or at disable a wrong password.
WrongCode(r) ==
    /\ pc[r] = "locked" /\ Judges(r)
    /\ Write(r, Fail(copy[r]))
    /\ wrong' = Append(IF Len(wrong) = MaxFailed THEN Tail(wrong) ELSE wrong, clock)
    /\ Close(r)
    /\ UNCHANGED <<issued, spent, reused>>

\* What an accepted code is for: the row after login_mfa, mfa_enable or mfa_disable.
Effect(r, c) ==
    LET u == Spend(copy[r], c) IN
    IF op[r] = "login" THEN ResetCounters(u)
    ELSE IF op[r] = "enable" THEN ResetCounters([u EXCEPT !.enabled = TRUE, !.backup = NewBatch])
    ELSE ClearMfa(u)

RightCode(r, c) ==
    /\ pc[r] = "locked" /\ Judges(r) /\ Accepts(r, c)
    /\ op[r] = "enable" => issued < MaxIssued
    /\ Write(r, Effect(r, c))
    /\ issued' = IF op[r] = "enable" THEN issued + 1 ELSE issued
    /\ spent' = spent \union {c}
    /\ reused' = (reused \/ c \in spent)
    /\ wrong' = <<>>
    /\ Close(r)

\* mfa_setup: a new secret, unless the loaded user already has MFA on.  The UPDATE waits
\* for the row lock.
Setup(r) ==
    /\ pc[r] = "loaded" /\ op[r] = "setup" /\ rowLock = NoRequest
    /\ \/ /\ ~copy[r].enabled /\ issued < MaxIssued
          /\ Write(r, [copy[r] EXCEPT !.secret = issued + 1, !.lastStep = None])
          /\ issued' = issued + 1
       \/ /\ copy[r].enabled
          /\ UNCHANGED <<user, issued>>
    /\ Close(r)
    /\ UNCHANGED <<spent, reused, wrong>>

\* scripts/mfa_reset.py.
Reset(r) ==
    /\ pc[r] = "loaded" /\ op[r] = "reset" /\ rowLock = NoRequest
    /\ Write(r, ClearMfa(copy[r]))
    /\ wrong' = <<>>
    /\ Close(r)
    /\ UNCHANGED <<issued, spent, reused>>

\* The client disconnects or the worker dies before the commit.
Abort(r) ==
    /\ pc[r] # "idle"
    /\ Close(r)
    /\ UNCHANGED <<user, issued, spent, reused, wrong>>

Tick ==
    /\ clock < MaxClock
    /\ clock' = clock + 1
    /\ UNCHANGED <<user, rowLock, pc, copy, op, issued, spent, reused, wrong, raced>>

Next ==
    \/ \E r \in Request :
          \/ \E o \in Op : Load(r, o)
          \/ \E c \in Code : RightCode(r, c)
          \/ Lock(r) \/ Refuse(r) \/ WrongCode(r) \/ Setup(r) \/ Reset(r) \/ Abort(r)
    \/ Tick

Spec == Init /\ [][Next]_vars

-----------------------------------------------------------------------------
(* Properties. *)

Row == [enabled : BOOLEAN, secret : 0..MaxIssued, lastStep : 0..MaxClock + TOLERANCE_STEPS,
        backup : SUBSET Backup, failed : 0..MaxFailed - 1, lockedUntil : 0..MaxClock + LockSteps]

\* The row and its copies are well formed; in particular the counter never reaches the limit.
TypeOK ==
    /\ user \in Row
    /\ rowLock \in Request \union {NoRequest}
    /\ pc \in [Request -> {"idle", "loaded", "locked"}]
    /\ copy \in [Request -> Row]
    /\ op \in [Request -> Op \union {"none"}]
    /\ clock \in 1..MaxClock
    /\ issued \in 0..MaxIssued
    /\ spent \subseteq Code
    /\ reused \in BOOLEAN
    /\ wrong \in Seq(1..MaxClock)
    /\ raced \in BOOLEAN

\* As long as requests do not overlap, a code that has been accepted is dead: no later row
\* accepts it again, across re-enrolments, disabling, resets, lock-outs and clock tolerance.
UsedCodeIsDead ==
    ~raced => \A c \in spent : ~AcceptsTotp(user, c) /\ ~AcceptsBackup(user, c)

\* As long as requests do not overlap, at most MaxFailed codes are judged wrong in any
\* LockSteps steps between two successes.
GuessesAreLimited ==
    [][(\E r \in Request : WrongCode(r)) /\ ~raced /\ Len(wrong) = MaxFailed =>
          clock - wrong[1] >= LockSteps]_vars

\* As long as requests do not overlap, MFA that is on can be passed and MFA that was
\* cleared leaves nothing behind.
SwitchedOnMeansUsable ==
    ~raced /\ (user.enabled \/ user.backup # {}) => user.secret # None

\* Even when requests overlap, a failed attempt decided on stale attributes neither lifts
\* a lock nor revives a code nor switches anything: it touches nothing but the counter.
FailureIsHarmless ==
    [][(\E r \in Request : WrongCode(r)) =>
          /\ user'.lockedUntil >= user.lockedUntil
          /\ [user' EXCEPT !.failed = 0, !.lockedUntil = None] =
             [user EXCEPT !.failed = 0, !.lockedUntil = None]]_vars

\* app/api/mfa.py:10 and :105: a TOTP step and a backup code can be used once, also by two
\* parallel requests.
CodeUsedOnce == ~reused
=============================================================================
