------------------------------- MODULE Access -------------------------------
(***************************************************************************)
(* Users, their passwords and tokens: the password step of the login, the  *)
(* password change, and what an administrator does to the users of a       *)
(* tenant (app/api/auth.py, api/users.py, api/dependencies.py,             *)
(* core/security.py).                                                      *)
(*                                                                         *)
(* A request loads its rows, checks a password or a right against them,    *)
(* and commits what follows from what it loaded.  Whether a password is    *)
(* right is a choice; the second factor is MfaLogin.                       *)
(***************************************************************************)
EXTENDS Naturals, FiniteSets

CONSTANTS
    Person,          \* users
    TenantOf,        \* the tenant of a user
    Administrator,   \* users with role admin
    SuperAdmin,
    Visit,           \* requests in flight
    MaxFailed,       \* wrong passwords that lock (5)
    LockPeriod,      \* how long a lock lasts (15 minutes)
    LastTick         \* bound: ticks of the clock

ASSUME AccessAssumption ==
    /\ Administrator \union SuperAdmin \subseteq Person
    /\ MaxFailed \in Nat \ {0} /\ LockPeriod \in Nat \ {0} /\ LastTick \in Nat

VARIABLES
    user,            \* [exists, active, failed, lockedUntil, mustChange]
    tokens,          \* [user, mfa]: access tokens that have not expired
    visit,           \* what a request is about to commit: [what, by, on, powers, right, loaded]
    tick,            \* the clock
    wrong,           \* wrong passwords tried since the last right one, reset or end of a lock
    mixed,           \* users that requests wrote, or were about to, while others did
    crowded          \* users that three requests were about to write at once

accessVars == <<user, tokens, visit, tick, wrong, mixed, crowded>>

NewUser == [exists |-> TRUE, active |-> TRUE, failed |-> 0, lockedUntil |-> 0, mustChange |-> FALSE]

NotVisiting == [what |-> "nothing", by |-> {}, on |-> {}, powers |-> FALSE, right |-> FALSE, loaded |-> NewUser]

\* The first administrator of a tenant has to change the password (provisioning).
AccessInit ==
    /\ user \in [Person -> {NewUser, [NewUser EXCEPT !.exists = FALSE], [NewUser EXCEPT !.mustChange = TRUE]}]
    /\ tokens = {} /\ tick = 1
    /\ visit = [v \in Visit |-> NotVisiting]
    /\ wrong = [u \in Person |-> 0] /\ mixed = {} /\ crowded = {}

Locked(row) == row.lockedUntil > tick

\* Variant: a token is enough, also that of a deactivated user.
UsableOfAnyone(u) == user[u].exists

\* _authenticate: a token counts as long as its user is active.
Usable(u) == user[u].exists /\ user[u].active

Authenticated(token) == token \in tokens /\ Usable(token.user)

\* get_current_user; the other one is for changing the password.
CurrentUser(token) == Authenticated(token) /\ ~user[token.user].mustChange

SuperPowers(token) == token.user \in SuperAdmin /\ token.mfa

RequireAdmin(token) == CurrentUser(token) /\ (token.user \in Administrator \/ SuperPowers(token))

\* _get_target_user and _guard_super_admin_target
MayManage(token, u) ==
    /\ user[u].exists
    /\ SuperPowers(token) \/ (TenantOf[u] = TenantOf[token.user] /\ u \notin SuperAdmin)

Loads(v, what, by, on, powers, right) ==
    /\ visit[v] = NotVisiting
    /\ visit' = [visit EXCEPT ![v] = [what |-> what, by |-> {by}, on |-> {on}, powers |-> powers,
                                      right |-> right, loaded |-> user[on]]]
    /\ crowded' = crowded \union
                     {u \in {on} : \E w, x \in Visit : w # x /\ visit[w].on = {u} /\ visit[x].on = {u}}
    /\ UNCHANGED <<user, tokens, tick, wrong, mixed>>

\* The commit of v's change to u.
Commits(v, u, row) ==
    /\ user' = [user EXCEPT ![u] = row]
    /\ visit' = [visit EXCEPT ![v] = NotVisiting]
    /\ LET others == UNION {visit[w].on : w \in Visit \ {v}} IN
       mixed' = mixed \union (IF others = {} THEN {} ELSE others \union {u})
    /\ UNCHANGED <<tick, crowded>>

-----------------------------------------------------------------------------
(* Passwords. *)

Login(v, u) ==
    /\ user[u].exists /\ user[u].active /\ ~Locked(user[u])
    /\ \E right \in BOOLEAN : Loads(v, "login", u, u, FALSE, right)

ChangePassword(v, token) ==
    /\ Authenticated(token) /\ ~Locked(user[token.user])
    /\ \E right \in BOOLEAN : Loads(v, "change", token.user, token.user, FALSE, right)

\* Variant: one more.
LocksLate(failed) == failed > MaxFailed

Locks(failed) == failed >= MaxFailed

\* The counter that was loaded, plus one; the lock if that is too many.
WrongPassword(v, u) ==
    LET failed == visit[v].loaded.failed + 1 IN
    /\ visit[v].what \in {"login", "change"} /\ visit[v].on = {u} /\ ~visit[v].right
    /\ Commits(v, u, [user[u] EXCEPT !.failed = failed, !.lockedUntil = IF Locks(failed) THEN tick + LockPeriod ELSE @])
    /\ wrong' = [wrong EXCEPT ![u] = @ + 1]
    /\ UNCHANGED tokens

\* What a handler that clears counter and lock writes: only what it did not load clear.
Cleared(v, row) ==
    LET loaded == visit[v].loaded IN
    [row EXCEPT !.failed = IF loaded.failed # 0 THEN 0 ELSE @,
                !.lockedUntil = IF loaded.lockedUntil # 0 THEN 0 ELSE @]

\* The token, or the way to the second factor and then a token that says so.
RightPassword(v, u) ==
    /\ visit[v].what = "login" /\ visit[v].on = {u} /\ visit[v].right
    /\ Commits(v, u, Cleared(v, user[u]))
    /\ \E mfa \in BOOLEAN : tokens' = tokens \union {[user |-> u, mfa |-> mfa]}
    /\ wrong' = [wrong EXCEPT ![u] = 0]

PasswordChanged(v, u) ==
    /\ visit[v].what = "change" /\ visit[v].on = {u} /\ visit[v].right
    /\ Commits(v, u, [Cleared(v, user[u]) EXCEPT !.mustChange = IF visit[v].loaded.mustChange THEN FALSE ELSE @])
    /\ wrong' = [wrong EXCEPT ![u] = 0]
    /\ UNCHANGED tokens

-----------------------------------------------------------------------------
(* Administration. *)

CreateUser(token, u) ==
    /\ RequireAdmin(token) /\ ~user[u].exists
    /\ SuperPowers(token) \/ TenantOf[u] = TenantOf[token.user]
    /\ u \notin SuperAdmin
    /\ user' = [user EXCEPT ![u] = NewUser]
    /\ UNCHANGED <<tokens, visit, tick, wrong, mixed, crowded>>

DeactivateUser(v, token, u) ==
    /\ RequireAdmin(token) /\ token.user # u
    /\ MayManage(token, u) /\ user[u].active
    /\ Loads(v, "deactivate", token.user, u, SuperPowers(token), FALSE)

Deactivated(v, u) ==
    /\ visit[v].what = "deactivate" /\ visit[v].on = {u}
    /\ Commits(v, u, [user[u] EXCEPT !.active = FALSE])
    /\ UNCHANGED <<tokens, wrong>>

ResetPassword(v, token, u) ==
    /\ RequireAdmin(token) /\ MayManage(token, u)
    /\ Loads(v, "reset", token.user, u, SuperPowers(token), FALSE)

PasswordReset(v, u) ==
    /\ visit[v].what = "reset" /\ visit[v].on = {u}
    /\ Commits(v, u, Cleared(v, user[u]))
    /\ wrong' = [wrong EXCEPT ![u] = 0]
    /\ UNCHANGED tokens

-----------------------------------------------------------------------------
(* Time and failures. *)

\* Locks that end with this tick give the count of guesses a new start.
Tick ==
    /\ tick < LastTick
    /\ tick' = tick + 1
    /\ wrong' = [u \in Person |-> IF user[u].lockedUntil = tick + 1 THEN 0 ELSE wrong[u]]
    /\ UNCHANGED <<user, tokens, visit, mixed, crowded>>

TokenExpires(token) ==
    /\ tokens' = tokens \ {token}
    /\ UNCHANGED <<user, visit, tick, wrong, mixed, crowded>>

Abandoned(v) ==
    /\ visit[v] # NotVisiting
    /\ visit' = [visit EXCEPT ![v] = NotVisiting]
    /\ UNCHANGED <<user, tokens, tick, wrong, mixed, crowded>>

AccessNext ==
    \/ Tick
    \/ \E token \in tokens :
          \/ TokenExpires(token)
          \/ \E u \in Person : CreateUser(token, u)
          \/ \E v \in Visit :
                \/ ChangePassword(v, token)
                \/ \E u \in Person : DeactivateUser(v, token, u) \/ ResetPassword(v, token, u)
    \/ \E v \in Visit :
          \/ Abandoned(v)
          \/ \E u \in Person :
                \/ Login(v, u) \/ WrongPassword(v, u) \/ RightPassword(v, u)
                \/ PasswordChanged(v, u) \/ PasswordReset(v, u) \/ Deactivated(v, u)

AccessSpec == AccessInit /\ [][AccessNext]_accessVars

-----------------------------------------------------------------------------
(* Properties. *)

\* Nobody has more than MaxFailed guesses before a lock; two requests on a user at a time, which
\* count from what they loaded, have 1 + 2 + ... + MaxFailed and one that was under way when the
\* lock came, and only three at once may have more (login, change_password).
GuessesAreBounded ==
    \A u \in Person \ crowded :
        wrong[u] <= IF u \in mixed THEN 1 + (MaxFailed * (MaxFailed + 1)) \div 2 ELSE MaxFailed

Admins(t) == {u \in Administrator : TenantOf[u] = t /\ user[u].exists /\ user[u].active}

\* A tenant keeps an active administrator, unless a super-admin takes the last one away or
\* two requests overlapped (deactivate_user, _authenticate).
AnAdminRemains ==
    [][\A u \in Person :
          Admins(TenantOf[u]) = {u} /\ u \notin Admins(TenantOf[u])' =>
              u \in mixed' \/ \E v \in Visit : visit[v].what = "deactivate" /\ visit[v].on = {u} /\ visit[v].powers]_accessVars
=============================================================================
