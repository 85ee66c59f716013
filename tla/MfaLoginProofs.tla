--------------------------- MODULE MfaLoginProofs ---------------------------
(***************************************************************************)
(* Theorems about the second factor, for any number of requests, secrets,  *)
(* backup codes and any limits: what holds however requests overlap, and   *)
(* what holds as long as they do not.                                      *)
(***************************************************************************)
EXTENDS MfaLogin, SequenceTheorems, TLAPS

LEMMA Numbers ==
    /\ MaxFailed \in Nat \ {0} /\ LockSteps \in Nat \ {0}
    /\ MaxClock \in Nat \ {0} /\ MaxIssued \in Nat \ {0}
BY MfaAssumption

-----------------------------------------------------------------------------
(* Rows. *)

LEMMA RowFields ==
    ASSUME NEW u \in Row
    PROVE  /\ DOMAIN u = {"enabled", "secret", "lastStep", "backup", "failed", "lockedUntil"}
           /\ u.enabled \in BOOLEAN /\ u.secret \in 0..MaxIssued
           /\ u.lastStep \in 0..MaxClock + TOLERANCE_STEPS /\ u.backup \in SUBSET Backup
           /\ u.failed \in 0..MaxFailed - 1 /\ u.lockedUntil \in 0..MaxClock + LockSteps
BY DEF Row

\* A commit mixes the new row into the current one.
LEMMA Written ==
    ASSUME NEW u \in Row, NEW c \in Row, NEW n \in Row, NEW w,
           w = [a \in DOMAIN u |-> IF n[a] # c[a] THEN n[a] ELSE u[a]]
    PROVE  /\ w \in Row
           /\ w.enabled = IF n.enabled # c.enabled THEN n.enabled ELSE u.enabled
           /\ w.secret = IF n.secret # c.secret THEN n.secret ELSE u.secret
           /\ w.lastStep = IF n.lastStep # c.lastStep THEN n.lastStep ELSE u.lastStep
           /\ w.backup = IF n.backup # c.backup THEN n.backup ELSE u.backup
           /\ w.failed = IF n.failed # c.failed THEN n.failed ELSE u.failed
           /\ w.lockedUntil = IF n.lockedUntil # c.lockedUntil THEN n.lockedUntil ELSE u.lockedUntil
<1>1. w = [enabled |-> IF n.enabled # c.enabled THEN n.enabled ELSE u.enabled,
           secret |-> IF n.secret # c.secret THEN n.secret ELSE u.secret,
           lastStep |-> IF n.lastStep # c.lastStep THEN n.lastStep ELSE u.lastStep,
           backup |-> IF n.backup # c.backup THEN n.backup ELSE u.backup,
           failed |-> IF n.failed # c.failed THEN n.failed ELSE u.failed,
           lockedUntil |-> IF n.lockedUntil # c.lockedUntil THEN n.lockedUntil ELSE u.lockedUntil]
  BY RowFields
<1> QED
  BY <1>1, RowFields DEF Row

\* Written by whoever has loaded it as it is, a row becomes what that request wants.
LEMMA WrittenFresh ==
    ASSUME NEW u \in Row, NEW n \in Row, NEW w,
           w = [a \in DOMAIN u |-> IF n[a] # u[a] THEN n[a] ELSE u[a]]
    PROVE  w = n
<1>1. DOMAIN u = DOMAIN n
  BY RowFields
<1>2. w = [a \in DOMAIN n |-> n[a]]
  BY <1>1
<1>3. n = [a \in DOMAIN n |-> n[a]]
  BY DEF Row
<1> QED
  BY <1>2, <1>3

LEMMA RowResetCounters ==
    ASSUME NEW u \in Row
    PROVE  /\ ResetCounters(u) \in Row
           /\ ResetCounters(u).enabled = u.enabled /\ ResetCounters(u).secret = u.secret
           /\ ResetCounters(u).lastStep = u.lastStep /\ ResetCounters(u).backup = u.backup
           /\ ResetCounters(u).failed = 0 /\ ResetCounters(u).lockedUntil = 0
<1>1. ResetCounters(u) = [enabled |-> u.enabled, secret |-> u.secret, lastStep |-> u.lastStep,
                          backup |-> u.backup, failed |-> 0, lockedUntil |-> 0]
  <2>1. [u EXCEPT !.failed = 0] = [enabled |-> u.enabled, secret |-> u.secret, lastStep |-> u.lastStep,
                                   backup |-> u.backup, failed |-> 0, lockedUntil |-> u.lockedUntil]
    BY DEF Row
  <2>2. ResetCounters(u) = [[u EXCEPT !.failed = 0] EXCEPT !.lockedUntil = 0]
    BY DEF ResetCounters, None
  <2> QED
    BY <2>1, <2>2
<1>2. u.enabled \in BOOLEAN /\ u.secret \in 0..MaxIssued /\ u.lastStep \in 0..MaxClock + TOLERANCE_STEPS /\ u.backup \in SUBSET Backup
  BY RowFields
<1>3. 0 \in 0..MaxFailed - 1 /\ 0 \in 0..MaxClock + LockSteps
  BY Numbers
<1> QED
  BY <1>1, <1>2, <1>3 DEF Row

LEMMA RowClearMfa ==
    ASSUME NEW u \in Row
    PROVE  /\ ClearMfa(u) \in Row
           /\ ~ClearMfa(u).enabled /\ ClearMfa(u).secret = 0
           /\ ClearMfa(u).lastStep = 0 /\ ClearMfa(u).backup = {}
           /\ ClearMfa(u).failed = 0 /\ ClearMfa(u).lockedUntil = 0
<1> DEFINE w == [u EXCEPT !.enabled = FALSE, !.secret = None, !.lastStep = None, !.backup = {}]
<1>1. w \in Row
  <2>1. 0 \in 0..MaxIssued /\ 0 \in 0..MaxClock + TOLERANCE_STEPS
    BY Numbers DEF TOLERANCE_STEPS
  <2> QED
    BY <2>1 DEF Row, None
<1>2. w.enabled = FALSE /\ w.secret = None /\ w.lastStep = None /\ w.backup = {}
  <2>1. {"enabled", "secret", "lastStep", "backup"} \subseteq DOMAIN u
    BY RowFields
  <2> QED
    BY <2>1, Zenon
<1>3. ClearMfa(u) = ResetCounters(w)
  BY DEF ClearMfa
<1> HIDE DEF w
<1> QED
  BY <1>1, <1>2, <1>3, RowResetCounters DEF None

LEMMA RowFail ==
    ASSUME NEW u \in Row, clock \in 1..MaxClock
    PROVE  /\ Fail(u) \in Row
           /\ Fail(u).enabled = u.enabled /\ Fail(u).secret = u.secret
           /\ Fail(u).lastStep = u.lastStep /\ Fail(u).backup = u.backup
           /\ IF u.failed + 1 >= MaxFailed
              THEN Fail(u).failed = 0 /\ Fail(u).lockedUntil = clock + LockSteps
              ELSE Fail(u).failed = u.failed + 1 /\ Fail(u).lockedUntil = u.lockedUntil
<1>1. Fail(u) = [enabled |-> u.enabled, secret |-> u.secret, lastStep |-> u.lastStep, backup |-> u.backup,
                 failed |-> IF u.failed + 1 >= MaxFailed THEN 0 ELSE u.failed + 1,
                 lockedUntil |-> IF u.failed + 1 >= MaxFailed THEN clock + LockSteps ELSE u.lockedUntil]
  BY DEF Fail, LockEnd, Row
<1>2. /\ (IF u.failed + 1 >= MaxFailed THEN 0 ELSE u.failed + 1) \in 0..MaxFailed - 1
      /\ (IF u.failed + 1 >= MaxFailed THEN clock + LockSteps ELSE u.lockedUntil) \in 0..MaxClock + LockSteps
  BY RowFields, Numbers
<1> QED
  BY <1>1, <1>2, RowFields DEF Row

\* A backup code leaves its batch, a TOTP step becomes the last one.
LEMMA RowSpend ==
    ASSUME NEW u \in Row, NEW c \in Code
    PROVE  /\ Spend(u, c) \in Row
           /\ Spend(u, c).enabled = u.enabled /\ Spend(u, c).secret = u.secret
           /\ Spend(u, c).lastStep = IF c.kind = "totp" THEN c.n ELSE u.lastStep
           /\ Spend(u, c).backup = IF c.kind = "totp" THEN u.backup ELSE u.backup \ {c}
<1>1. c.kind = "totp" => c.n \in 0..MaxClock + TOLERANCE_STEPS
  BY DEF Code, Totp, Backup, TOLERANCE_STEPS
<1>2. u.backup \ {c} \in SUBSET Backup
  BY DEF Row
<1> QED
  BY <1>1, <1>2, RowFields DEF Row, Spend

-----------------------------------------------------------------------------
(* Types. *)

LEMMA BlankRow == Blank \in Row /\ Blank.lockedUntil = 0
BY Numbers DEF Blank, Row, None, TOLERANCE_STEPS

LEMMA WriteRow ==
    ASSUME TypeOK, NEW r \in Request, NEW new \in Row, Write(r, new)
    PROVE  /\ user' \in Row
           /\ user'.enabled = IF new.enabled # copy[r].enabled THEN new.enabled ELSE user.enabled
           /\ user'.secret = IF new.secret # copy[r].secret THEN new.secret ELSE user.secret
           /\ user'.lastStep = IF new.lastStep # copy[r].lastStep THEN new.lastStep ELSE user.lastStep
           /\ user'.backup = IF new.backup # copy[r].backup THEN new.backup ELSE user.backup
           /\ user'.failed = IF new.failed # copy[r].failed THEN new.failed ELSE user.failed
           /\ user'.lockedUntil = IF new.lockedUntil # copy[r].lockedUntil THEN new.lockedUntil ELSE user.lockedUntil
<1>1. user \in Row /\ copy[r] \in Row
  BY DEF TypeOK
<1>2. user' = [a \in DOMAIN user |-> IF new[a] # copy[r][a] THEN new[a] ELSE user[a]]
  BY DEF Write
<1> QED
  BY <1>1, <1>2, Written

LEMMA EffectRow ==
    ASSUME TypeOK, NEW r \in Request, NEW c \in Code, op[r] = "enable" => issued < MaxIssued
    PROVE  /\ Effect(r, c) \in Row
           /\ Effect(r, c).failed = 0 /\ Effect(r, c).lockedUntil = 0
           /\ op[r] = "login" =>
                 /\ Effect(r, c).secret = copy[r].secret
                 /\ Effect(r, c).enabled = copy[r].enabled
                 /\ Effect(r, c).lastStep = Spend(copy[r], c).lastStep
                 /\ Effect(r, c).backup = Spend(copy[r], c).backup
           /\ op[r] = "enable" =>
                 /\ Effect(r, c).secret = copy[r].secret
                 /\ Effect(r, c).lastStep = Spend(copy[r], c).lastStep
                 /\ Effect(r, c).backup = NewBatch
           /\ op[r] \notin {"login", "enable"} => Effect(r, c) = ClearMfa(Spend(copy[r], c))
<1> DEFINE u == Spend(copy[r], c)
<1>1. u \in Row /\ u.enabled = copy[r].enabled /\ u.secret = copy[r].secret
  <2>1. copy[r] \in Row
    BY DEF TypeOK
  <2> QED
    BY <2>1, RowSpend
<1> HIDE DEF u
<1>2. CASE op[r] = "login"
  <2>1. Effect(r, c) = ResetCounters(u)
    BY <1>2 DEF Effect, u
  <2> QED
    BY <1>1, <1>2, <2>1, RowResetCounters DEF u
<1>3. CASE op[r] = "enable"
  <2> DEFINE w == [u EXCEPT !.enabled = TRUE, !.backup = NewBatch]
  <2>1. Effect(r, c) = ResetCounters(w)
    BY <1>3 DEF Effect, u
  <2>2. NewBatch \in SUBSET Backup
    BY <1>3, Numbers DEF NewBatch, Backup, TypeOK
  <2>3. w \in Row
    BY <1>1, <2>2 DEF Row
  <2>4. w.secret = u.secret /\ w.lastStep = u.lastStep /\ w.backup = NewBatch
    BY <1>1 DEF Row
  <2> HIDE DEF w
  <2> QED
    BY <1>1, <1>3, <2>1, <2>3, <2>4, RowResetCounters DEF u
<1>4. CASE op[r] \notin {"login", "enable"}
  <2>1. Effect(r, c) = ClearMfa(u)
    BY <1>4 DEF Effect, u
  <2> QED
    BY <1>1, <1>4, <2>1, RowClearMfa DEF u
<1> QED
  BY <1>2, <1>3, <1>4

LEMMA NewSecretRow ==
    ASSUME NEW u \in Row, NEW s \in 0..MaxIssued
    PROVE  LET n == [u EXCEPT !.secret = s, !.lastStep = None] IN
           /\ n \in Row
           /\ n.enabled = u.enabled /\ n.secret = s /\ n.lastStep = 0 /\ n.backup = u.backup
           /\ n.failed = u.failed /\ n.lockedUntil = u.lockedUntil
<1> DEFINE n == [u EXCEPT !.secret = s, !.lastStep = None]
<1>1. 0 \in 0..MaxClock + TOLERANCE_STEPS
  BY Numbers DEF TOLERANCE_STEPS
<1>2. n \in Row
  BY <1>1 DEF Row, None
<1>3. /\ n.enabled = u.enabled /\ n.secret = s /\ n.lastStep = None /\ n.backup = u.backup
      /\ n.failed = u.failed /\ n.lockedUntil = u.lockedUntil
  <2>1. {"enabled", "secret", "lastStep", "backup", "failed", "lockedUntil"} \subseteq DOMAIN u
    BY RowFields
  <2> QED
    BY <2>1, Zenon
<1> QED
  BY <1>2, <1>3 DEF None

LEMMA TypeInit == Init => TypeOK
<1> SUFFICES ASSUME Init PROVE TypeOK
  OBVIOUS
<1>1. user \in Row /\ copy \in [Request -> Row] /\ clock \in 1..MaxClock /\ issued \in 0..MaxIssued
  BY BlankRow, Numbers DEF Init
<1>2. /\ pc \in [Request -> {"idle", "loaded", "locked"}]
      /\ op \in [Request -> Op \union {"none"}]
      /\ wrong \in Seq(1..MaxClock)
  BY DEF Init
<1>3. reused \in BOOLEAN /\ raced \in BOOLEAN
  BY DEF Init
<1> QED
  BY <1>1, <1>2, <1>3 DEF Init, TypeOK

LEMMA CloseTypes ==
    ASSUME TypeOK, NEW r \in Request, Close(r)
    PROVE  /\ rowLock' \in Request \union {NoRequest}
           /\ pc' \in [Request -> {"idle", "loaded", "locked"}]
           /\ copy' \in [Request -> Row]
           /\ op' \in [Request -> Op \union {"none"}]
           /\ clock' \in 1..MaxClock
           /\ raced' \in BOOLEAN
BY BlankRow DEF TypeOK, Close

\* The four handlers that write the row, and what they want it to be.
Wants(r, new) ==
    \/ WrongCode(r) /\ new = Fail(copy[r])
    \/ \E c \in Code : RightCode(r, c) /\ new = Effect(r, c)
    \/ /\ Setup(r) /\ ~copy[r].enabled /\ issued < MaxIssued /\ issued' = issued + 1
       /\ new = [copy[r] EXCEPT !.secret = issued + 1, !.lastStep = None]
    \/ Reset(r) /\ new = ClearMfa(copy[r])

\* Every step writes what a handler wants, or leaves the row alone.
LEMMA Writers ==
    ASSUME TypeOK, NEW r \in Request,
           \/ WrongCode(r) \/ Setup(r) \/ Reset(r) \/ \E c \in Code : RightCode(r, c)
    PROVE  \/ user' = user /\ issued' = issued /\ Setup(r)
           \/ \E new \in Row : Wants(r, new) /\ Write(r, new)
<1>1. copy[r] \in Row /\ clock \in 1..MaxClock /\ issued \in 0..MaxIssued
  BY DEF TypeOK
<1>2. CASE WrongCode(r)
  BY <1>1, <1>2, RowFail DEF WrongCode, Wants
<1>3. ASSUME NEW c \in Code, RightCode(r, c) PROVE \E new \in Row : Wants(r, new) /\ Write(r, new)
  <2>1. Effect(r, c) \in Row
    BY <1>3, EffectRow DEF RightCode
  <2> QED
    BY <1>3, <2>1 DEF RightCode, Wants
<1>4. CASE Setup(r)
  <2>1. CASE copy[r].enabled
    BY <1>4, <2>1 DEF Setup
  <2>2. CASE ~copy[r].enabled
    <3> DEFINE new == [copy[r] EXCEPT !.secret = issued + 1, !.lastStep = None]
    <3>1. issued < MaxIssued /\ issued' = issued + 1 /\ Write(r, new)
      BY <1>4, <2>2 DEF Setup
    <3>2. issued + 1 \in 0..MaxIssued
      BY <1>1, <3>1, Numbers
    <3>3. new \in Row
      BY <1>1, <3>2, NewSecretRow
    <3> QED
      BY <1>4, <2>2, <3>1, <3>3 DEF Wants
  <2> QED
    BY <2>1, <2>2
<1>5. CASE Reset(r)
  BY <1>1, <1>5, RowClearMfa DEF Reset, Wants
<1> QED
  BY <1>2, <1>3, <1>4, <1>5

LEMMA TypeStep == TypeOK /\ [Next]_vars => TypeOK'
<1> SUFFICES ASSUME TypeOK, [Next]_vars PROVE TypeOK'
  OBVIOUS
<1>1. CASE UNCHANGED vars
  BY <1>1 DEF vars, TypeOK
<1>2. CASE Tick
  <2>1. clock' \in 1..MaxClock
    BY <1>2, Numbers DEF Tick, TypeOK
  <2> QED
    BY <1>2, <2>1 DEF Tick, TypeOK
<1>3. ASSUME NEW r \in Request, NEW o \in Op, Load(r, o) PROVE TypeOK'
  BY <1>3 DEF Load, TypeOK
<1>4. ASSUME NEW r \in Request, Lock(r) PROVE TypeOK'
  BY <1>4 DEF Lock, TypeOK
<1>5. ASSUME NEW r \in Request, Refuse(r) \/ Abort(r) PROVE TypeOK'
  <2>1. Close(r) /\ UNCHANGED <<user, issued, spent, reused, wrong>>
    BY <1>5 DEF Refuse, Abort
  <2> QED
    BY <2>1, CloseTypes DEF TypeOK
<1>6. ASSUME NEW r \in Request, \/ WrongCode(r) \/ Setup(r) \/ Reset(r) \/ \E c \in Code : RightCode(r, c)
      PROVE  TypeOK'
  <2>1. Close(r)
    BY <1>6 DEF WrongCode, Setup, Reset, RightCode
  <2>2. user' \in Row
    <3>1. CASE user' = user
      BY <3>1 DEF TypeOK
    <3>2. CASE \E new \in Row : Write(r, new)
      BY <3>2, WriteRow
    <3> QED
      BY <1>6, <3>1, <3>2, Writers
  <2>3. issued' \in 0..MaxIssued
    BY <1>6, Numbers DEF TypeOK, WrongCode, Setup, Reset, RightCode
  <2>4. spent' \subseteq Code /\ reused' \in BOOLEAN
    <3>1. CASE \E c \in Code : RightCode(r, c)
      BY <3>1 DEF TypeOK, RightCode
    <3>2. CASE UNCHANGED <<spent, reused>>
      BY <3>2 DEF TypeOK
    <3> QED
      BY <1>6, <3>1, <3>2 DEF WrongCode, Setup, Reset
  <2>5. wrong' \in Seq(1..MaxClock)
    <3>1. CASE WrongCode(r)
      <4>1. wrong # <<>> => Tail(wrong) \in Seq(1..MaxClock)
        BY DEF TypeOK
      <4>2. (IF Len(wrong) = MaxFailed THEN Tail(wrong) ELSE wrong) \in Seq(1..MaxClock)
        BY <4>1, Numbers DEF TypeOK
      <4> QED
        BY <3>1, <4>2 DEF WrongCode, TypeOK
    <3>2. CASE wrong' = wrong \/ wrong' = <<>>
      <4>1. <<>> \in Seq(1..MaxClock) /\ wrong \in Seq(1..MaxClock)
        BY DEF TypeOK
      <4> QED
        BY <3>2, <4>1
    <3> QED
      BY <1>6, <3>1, <3>2 DEF Setup, Reset, RightCode
  <2> QED
    BY <2>1, <2>2, <2>3, <2>4, <2>5, CloseTypes DEF TypeOK
<1> QED
  BY <1>1, <1>2, <1>3, <1>4, <1>5, <1>6 DEF Next

\* The row and its copies are well formed; in particular the counter never reaches the limit.
THEOREM TypeCorrect == Spec => []TypeOK
BY TypeInit, TypeStep, PTL DEF Spec

-----------------------------------------------------------------------------
(* A failed attempt, however requests overlap. *)

\* No lock lasts longer than one that starts now.
LockBound ==
    /\ user.lockedUntil <= clock + LockSteps
    /\ \A r \in Request : copy[r].lockedUntil <= clock + LockSteps

LEMMA LockBoundInit == Init => LockBound
BY BlankRow, Numbers DEF Init, LockBound

LEMMA WantedLock ==
    ASSUME TypeOK, LockBound, NEW r \in Request, NEW new \in Row, Wants(r, new)
    PROVE  new.lockedUntil <= clock + LockSteps
<1>1. copy[r] \in Row /\ clock \in 1..MaxClock /\ copy[r].lockedUntil <= clock + LockSteps /\ copy[r].lockedUntil \in Nat
  BY RowFields DEF TypeOK, LockBound
<1>2. CASE new = Fail(copy[r])
  BY <1>1, <1>2, RowFail, Numbers
<1>3. ASSUME NEW c \in Code, RightCode(r, c), new = Effect(r, c) PROVE new.lockedUntil <= clock + LockSteps
  BY <1>1, <1>3, EffectRow, Numbers DEF RightCode
<1>4. CASE issued < MaxIssued /\ new = [copy[r] EXCEPT !.secret = issued + 1, !.lastStep = None]
  <2>1. issued + 1 \in 0..MaxIssued
    BY <1>4, Numbers DEF TypeOK
  <2> QED
    BY <1>1, <1>4, <2>1, NewSecretRow
<1>5. CASE new = ClearMfa(copy[r])
  BY <1>1, <1>5, RowClearMfa, Numbers
<1> QED
  BY <1>2, <1>3, <1>4, <1>5 DEF Wants

\* A handler leaves the other requests' copies alone.
LEMMA ClosedCopies ==
    ASSUME TypeOK, NEW r \in Request, Close(r)
    PROVE  /\ \A s \in Request : copy'[s] = IF s = r THEN Blank ELSE copy[s]
           /\ \A s \in Request : pc'[s] = IF s = r THEN "idle" ELSE pc[s]
           /\ clock' = clock /\ raced' = raced
BY DEF TypeOK, Close

LEMMA LockBoundStep == TypeOK /\ LockBound /\ [Next]_vars => LockBound'
<1> SUFFICES ASSUME TypeOK, LockBound, [Next]_vars PROVE LockBound'
  OBVIOUS
<1>1. CASE UNCHANGED vars
  BY <1>1 DEF vars, LockBound
<1>2. CASE Tick
  <2>1. /\ user.lockedUntil \in Nat /\ clock \in Nat
        /\ \A r \in Request : copy[r].lockedUntil \in Nat
    BY RowFields DEF TypeOK
  <2> QED
    BY <1>2, <2>1, Numbers DEF Tick, LockBound
<1>3. ASSUME NEW r \in Request, NEW o \in Op, Load(r, o) PROVE LockBound'
  BY <1>3 DEF Load, LockBound, TypeOK
<1>4. ASSUME NEW r \in Request, Lock(r) PROVE LockBound'
  BY <1>4 DEF Lock, LockBound
<1>5. ASSUME NEW r \in Request, Close(r), user'.lockedUntil <= clock + LockSteps PROVE LockBound'
  <2>1. Blank.lockedUntil <= clock + LockSteps
    BY BlankRow, Numbers DEF TypeOK
  <2> QED
    BY <1>5, <2>1, ClosedCopies DEF LockBound
<1>6. ASSUME NEW r \in Request, Refuse(r) \/ Abort(r) PROVE LockBound'
  BY <1>5, <1>6 DEF Refuse, Abort, LockBound
<1>7. ASSUME NEW r \in Request, \/ WrongCode(r) \/ Setup(r) \/ Reset(r) \/ \E c \in Code : RightCode(r, c)
      PROVE  LockBound'
  <2>1. Close(r)
    BY <1>7 DEF WrongCode, Setup, Reset, RightCode
  <2>2. user'.lockedUntil <= clock + LockSteps
    <3>1. CASE user' = user
      BY <3>1 DEF LockBound
    <3>2. ASSUME NEW new \in Row, Wants(r, new), Write(r, new) PROVE user'.lockedUntil <= clock + LockSteps
      BY <3>2, WantedLock, WriteRow DEF LockBound
    <3> QED
      BY <1>7, <3>1, <3>2, Writers
  <2> QED
    BY <1>5, <2>1, <2>2
<1> QED
  BY <1>1, <1>2, <1>3, <1>4, <1>6, <1>7 DEF Next

\* A wrong code judged on stale attributes touches nothing but the counter, and lifts no lock.
Harmless ==
    (\E r \in Request : WrongCode(r)) =>
       /\ user'.lockedUntil >= user.lockedUntil
       /\ [user' EXCEPT !.failed = 0, !.lockedUntil = None] =
          [user EXCEPT !.failed = 0, !.lockedUntil = None]

LEMMA WrongCodeHarmless ==
    ASSUME TypeOK, LockBound PROVE Harmless
<1> SUFFICES ASSUME NEW r \in Request, WrongCode(r)
             PROVE  /\ user'.lockedUntil >= user.lockedUntil
                    /\ [user' EXCEPT !.failed = 0, !.lockedUntil = None] =
                       [user EXCEPT !.failed = 0, !.lockedUntil = None]
  BY DEF Harmless
<1> DEFINE new == Fail(copy[r])
<1>1. user \in Row /\ copy[r] \in Row /\ clock \in 1..MaxClock
  BY DEF TypeOK
<1>2. /\ new \in Row
      /\ new.enabled = copy[r].enabled /\ new.secret = copy[r].secret
      /\ new.lastStep = copy[r].lastStep /\ new.backup = copy[r].backup
      /\ new.lockedUntil = clock + LockSteps \/ new.lockedUntil = copy[r].lockedUntil
  BY <1>1, RowFail
<1>3. Write(r, new)
  BY DEF WrongCode
<1> HIDE DEF new
<1>4. /\ user' \in Row
      /\ user'.enabled = user.enabled /\ user'.secret = user.secret
      /\ user'.lastStep = user.lastStep /\ user'.backup = user.backup
      /\ user'.lockedUntil = clock + LockSteps \/ user'.lockedUntil = user.lockedUntil
  BY <1>2, <1>3, WriteRow
<1>5. user'.lockedUntil >= user.lockedUntil
  BY <1>1, <1>4, RowFields, Numbers DEF LockBound
<1>6. ResetCounters(user') = ResetCounters(user)
  <2>1. ASSUME NEW u \in Row
        PROVE  ResetCounters(u) = [enabled |-> u.enabled, secret |-> u.secret, lastStep |-> u.lastStep,
                                   backup |-> u.backup, failed |-> 0, lockedUntil |-> 0]
    <3>1. ResetCounters(u) \in Row
      BY <2>1, RowResetCounters
    <3>2. ResetCounters(u) = [enabled |-> ResetCounters(u).enabled, secret |-> ResetCounters(u).secret,
                              lastStep |-> ResetCounters(u).lastStep, backup |-> ResetCounters(u).backup,
                              failed |-> ResetCounters(u).failed, lockedUntil |-> ResetCounters(u).lockedUntil]
      BY <3>1 DEF Row
    <3> QED
      BY <2>1, <3>2, RowResetCounters
  <2> QED
    BY <1>1, <1>4, <2>1
<1> QED
  BY <1>5, <1>6 DEF ResetCounters

\* Even when requests overlap, a failed attempt decided on stale attributes neither lifts a
\* lock nor revives a code nor switches anything.
THEOREM FailuresAreHarmless == Spec => FailureIsHarmless
<1>1. TypeOK /\ LockBound /\ [Next]_vars => TypeOK' /\ LockBound'
  BY TypeStep, LockBoundStep
<1>2. TypeOK /\ LockBound /\ [Next]_vars =>
        [(\E r \in Request : WrongCode(r)) =>
          /\ user'.lockedUntil >= user.lockedUntil
          /\ [user' EXCEPT !.failed = 0, !.lockedUntil = None] =
             [user EXCEPT !.failed = 0, !.lockedUntil = None]]_vars
  BY WrongCodeHarmless DEF Harmless
<1> QED
  BY <1>1, <1>2, TypeInit, LockBoundInit, PTL DEF Spec, FailureIsHarmless

-----------------------------------------------------------------------------
(* As long as requests do not overlap. *)

\* The one request in flight knows the row as it is.
Undisturbed ==
    ~raced =>
        /\ \A r, s \in Request : pc[r] # "idle" /\ pc[s] # "idle" => r = s
        /\ \A r \in Request : pc[r] # "idle" => copy[r] = user

\* Accepted codes are of an issued secret or batch, and the row is past them.
CodesBehind ==
    /\ user.secret <= issued
    /\ \A c \in spent :
          /\ c.of <= issued
          /\ c.kind = "totp" /\ c.of = user.secret => c.n <= user.lastStep
          /\ c \notin user.backup

CanBePassed == user.enabled \/ user.backup # {} => user.secret # None

\* The wrong codes since the last lock are the last ones; the one before them has locked.
Window ==
    /\ user.failed <= Len(wrong) /\ Len(wrong) <= MaxFailed
    /\ \A i, j \in 1..Len(wrong) : i <= j => wrong[i] <= wrong[j]
    /\ \A i \in 1..Len(wrong) : wrong[i] <= clock
    /\ Len(wrong) > user.failed => user.lockedUntil = wrong[Len(wrong) - user.failed] + LockSteps

MfaInv ==
    /\ TypeOK
    /\ Undisturbed
    /\ ~raced => CodesBehind /\ CanBePassed /\ Window

LEMMA MfaInvInit == Init => MfaInv
<1> SUFFICES ASSUME Init PROVE MfaInv
  OBVIOUS
<1>1. TypeOK
  BY TypeInit
<1>2. Undisturbed
  BY DEF Init, Undisturbed
<1>3. user = Blank /\ issued = 0 /\ spent = {} /\ wrong = <<>>
  BY DEF Init
<1>4. ~Blank.enabled /\ Blank.secret = 0 /\ Blank.backup = {} /\ Blank.failed = 0
  BY DEF Blank, None
<1>5. CodesBehind /\ CanBePassed
  BY <1>3, <1>4 DEF CodesBehind, CanBePassed
<1>6. Window
  BY <1>3, <1>4, Numbers DEF Window
<1> QED
  BY <1>1, <1>2, <1>5, <1>6 DEF MfaInv

LEMMA CodeFields ==
    ASSUME NEW c \in Code
    PROVE  c.of \in 1..MaxIssued /\ c.kind \in {"totp", "backup"} /\ (c.kind = "totp" => c.n \in Nat)
BY Numbers DEF Code, Totp, Backup, TOLERANCE_STEPS

\* Who is alone writes the row it wants, and nobody is in flight when it is done.
LEMMA AloneWrites ==
    ASSUME MfaInv, ~raced, NEW r \in Request, pc[r] # "idle", Close(r)
    PROVE  /\ copy[r] = user
           /\ Undisturbed'
           /\ \A new \in Row : Write(r, new) => user' = new
<1>1. copy[r] = user /\ \A s \in Request : pc[s] # "idle" => s = r
  BY DEF MfaInv, Undisturbed
<1>2. \A s \in Request : pc'[s] = "idle"
  BY <1>1, ClosedCopies DEF MfaInv
<1>3. ASSUME NEW new \in Row, Write(r, new) PROVE user' = new
  <2>1. user \in Row
    BY DEF MfaInv, TypeOK
  <2>2. user' = [a \in DOMAIN user |-> IF new[a] # user[a] THEN new[a] ELSE user[a]]
    BY <1>1, <1>3 DEF Write
  <2> QED
    BY <2>1, <2>2, WrittenFresh
<1> QED
  BY <1>1, <1>2, <1>3 DEF Undisturbed

LEMMA UndisturbedStep == MfaInv /\ [Next]_vars => Undisturbed'
<1> SUFFICES ASSUME MfaInv, [Next]_vars, ~raced' PROVE Undisturbed'
  BY DEF Undisturbed
<1>1. CASE UNCHANGED vars
  BY <1>1 DEF vars, Undisturbed, MfaInv
<1>2. CASE Tick
  BY <1>2 DEF Tick, Undisturbed, MfaInv
<1>3. ASSUME NEW r \in Request, NEW o \in Op, Load(r, o) PROVE Undisturbed'
  <2>1. InFlight = {}
    BY <1>3 DEF Load
  <2>2. \A s \in Request : pc[s] = "idle"
    BY <2>1 DEF InFlight
  <2>3. /\ \A s \in Request : pc'[s] = IF s = r THEN "loaded" ELSE pc[s]
        /\ copy'[r] = user /\ user' = user
    BY <1>3 DEF Load, MfaInv, TypeOK
  <2> QED
    BY <2>2, <2>3 DEF Undisturbed
<1>4. ASSUME NEW r \in Request, Lock(r) PROVE Undisturbed'
  <2>1. /\ \A s \in Request : pc'[s] # "idle" => pc[s] # "idle"
        /\ copy' = copy /\ user' = user /\ raced' = raced
    BY <1>4 DEF Lock, MfaInv, TypeOK
  <2> QED
    BY <2>1 DEF Undisturbed, MfaInv
<1>5. ASSUME NEW r \in Request, Close(r), pc[r] # "idle" PROVE Undisturbed'
  BY <1>5, AloneWrites DEF Close
<1>6. ASSUME NEW r \in Request,
             \/ Refuse(r) \/ Abort(r) \/ WrongCode(r) \/ Setup(r) \/ Reset(r)
             \/ \E c \in Code : RightCode(r, c)
      PROVE  Undisturbed'
  <2>1. Close(r) /\ pc[r] # "idle"
    BY <1>6 DEF Refuse, Abort, WrongCode, Setup, Reset, RightCode
  <2> QED
    BY <1>5, <2>1
<1> QED
  BY <1>1, <1>2, <1>3, <1>4, <1>6 DEF Next

LEMMA GuessTimes ==
    ASSUME NEW w \in Seq(1..MaxClock)
    PROVE  \A i \in 1..Len(w) : w[i] \in Nat
<1> TAKE i \in 1..Len(w)
<1>1. w[i] \in 1..MaxClock
  BY ElementOfSeq
<1> QED
  BY <1>1, Numbers

\* Steps that leave the row, the codes and the history of guesses alone.
LEMMA NothingWritten ==
    ASSUME MfaInv, ~raced, UNCHANGED <<user, issued, spent, wrong>>, clock' \in Nat, clock <= clock'
    PROVE  CodesBehind' /\ CanBePassed' /\ Window'
<1>1. CodesBehind' /\ CanBePassed'
  BY DEF MfaInv, CodesBehind, CanBePassed
<1>2. clock \in Nat /\ wrong \in Seq(1..MaxClock)
  BY Numbers DEF MfaInv, TypeOK
<1>3. \A i \in 1..Len(wrong) : wrong[i] \in Nat /\ wrong[i] <= clock'
  <2>1. \A i \in 1..Len(wrong) : wrong[i] \in Nat
    BY <1>2, GuessTimes
  <2> QED
    BY <1>2, <2>1 DEF MfaInv, Window
<1> QED
  BY <1>1, <1>3 DEF MfaInv, Window

LEMMA WrongCodeStep ==
    ASSUME MfaInv, ~raced, NEW r \in Request, WrongCode(r)
    PROVE  /\ CodesBehind' /\ CanBePassed' /\ Window'
           /\ Len(wrong) = MaxFailed => clock - wrong[1] >= LockSteps
<1>1. /\ copy[r] = user /\ user' = Fail(user)
  <2>1. pc[r] # "idle" /\ Close(r) /\ Write(r, Fail(copy[r]))
    BY DEF WrongCode
  <2>2. copy[r] \in Row /\ clock \in 1..MaxClock
    BY DEF MfaInv, TypeOK
  <2> QED
    BY <2>1, <2>2, AloneWrites, RowFail
<1>2. user \in Row /\ clock \in 1..MaxClock /\ wrong \in Seq(1..MaxClock)
  BY DEF MfaInv, TypeOK
<1>3. /\ user'.enabled = user.enabled /\ user'.secret = user.secret
      /\ user'.lastStep = user.lastStep /\ user'.backup = user.backup
      /\ IF user.failed + 1 >= MaxFailed
         THEN user'.failed = 0 /\ user'.lockedUntil = clock + LockSteps
         ELSE user'.failed = user.failed + 1 /\ user'.lockedUntil = user.lockedUntil
  BY <1>1, <1>2, RowFail
<1>4. issued' = issued /\ spent' = spent /\ clock' = clock
  BY DEF WrongCode, Close
<1>5. CodesBehind' /\ CanBePassed'
  BY <1>3, <1>4 DEF MfaInv, CodesBehind, CanBePassed
<1> DEFINE kept == IF Len(wrong) = MaxFailed THEN Tail(wrong) ELSE wrong
           off == IF Len(wrong) = MaxFailed THEN 1 ELSE 0
<1>6. /\ kept \in Seq(1..MaxClock) /\ Len(kept) = Len(wrong) - off /\ Len(kept) \in Nat
      /\ \A i \in 1..Len(kept) : kept[i] = wrong[i + off]
  <2>1. CASE Len(wrong) = MaxFailed
    <3>1. wrong # <<>> /\ kept = Tail(wrong) /\ off = 1
      BY <1>2, <2>1, Numbers
    <3>2. /\ Tail(wrong) \in Seq(1..MaxClock) /\ Len(Tail(wrong)) = Len(wrong) - 1
          /\ \A i \in 1..Len(Tail(wrong)) : Tail(wrong)[i] = wrong[i + 1]
      BY <1>2, <3>1
    <3> HIDE DEF kept, off
    <3> QED
      BY <1>2, <3>1, <3>2
  <2>2. CASE Len(wrong) # MaxFailed
    <3>1. kept = wrong /\ off = 0
      BY <2>2
    <3> HIDE DEF kept, off
    <3> QED
      BY <1>2, <3>1
  <2> QED
    BY <2>1, <2>2
<1>7. /\ wrong' = Append(kept, clock)
  BY DEF WrongCode
<1>8. /\ Len(wrong) \in Nat /\ user.failed \in 0..MaxFailed - 1 /\ Len(wrong) <= MaxFailed
      /\ user.failed <= Len(wrong)
      /\ \A i \in 1..Len(wrong) : wrong[i] \in Nat /\ wrong[i] <= clock
      /\ \A i, j \in 1..Len(wrong) : i <= j => wrong[i] <= wrong[j]
      /\ Len(wrong) > user.failed => user.lockedUntil = wrong[Len(wrong) - user.failed] + LockSteps
  <2>1. Len(wrong) \in Nat /\ \A i \in 1..Len(wrong) : wrong[i] \in Nat
    BY <1>2, GuessTimes
  <2>2. user.failed \in 0..MaxFailed - 1
    BY <1>2, RowFields
  <2>3. Window
    BY DEF MfaInv
  <2> QED
    BY <2>1, <2>2, <2>3 DEF Window
<1>9. Len(wrong) = MaxFailed => clock - wrong[1] >= LockSteps
  <2> SUFFICES ASSUME Len(wrong) = MaxFailed PROVE clock - wrong[1] >= LockSteps
    OBVIOUS
  <2>1. user.lockedUntil <= clock /\ user.lockedUntil \in Nat
    BY <1>1, <1>2, RowFields DEF WrongCode, Judges, IsLocked
  <2> DEFINE k == MaxFailed - user.failed
  <2>2. k \in 1..Len(wrong) /\ 1 \in 1..Len(wrong) /\ 1 <= k
    BY <1>8, Numbers
  <2>3. user.lockedUntil = wrong[k] + LockSteps /\ wrong[1] <= wrong[k]
    BY <1>8, <2>2, Numbers
  <2>4. wrong[k] \in Nat /\ wrong[1] \in Nat
    BY <1>8, <2>2
  <2> HIDE DEF k
  <2> QED
    BY <1>2, <2>1, <2>3, <2>4, Numbers
<1> HIDE DEF kept, off
<1>10. off \in {0, 1} /\ Len(wrong) - off < MaxFailed /\ (off = 1 => Len(wrong) = MaxFailed)
  BY <1>8, Numbers DEF off
<1>11. /\ Len(wrong') = Len(kept) + 1 /\ wrong'[Len(kept) + 1] = clock
       /\ \A i \in 1..Len(kept) : wrong'[i] = wrong[i + off]
  BY <1>2, <1>6, <1>7
<1> HIDE DEF kept, off
<1>13. /\ Len(wrong') = Len(kept) + 1 /\ Len(kept) = Len(wrong) - off
       /\ Len(wrong) \in Nat /\ off \in 0..1 /\ user.failed \in Nat
  BY <1>6, <1>8, <1>10, <1>11, Numbers
<1>12. Window'
  <2>1. user'.failed <= Len(wrong') /\ Len(wrong') <= MaxFailed
    <3>1. Len(wrong') = Len(wrong) - off + 1 /\ Len(wrong') <= MaxFailed /\ Len(wrong') >= 0
      BY <1>6, <1>8, <1>10, <1>11, Numbers
    <3>2. user'.failed = 0 \/ (user'.failed = user.failed + 1 /\ user.failed + 1 < MaxFailed)
      BY <1>3, <1>8, Numbers
    <3>3. off = 0 => user.failed + 1 <= Len(wrong')
      BY <1>8, <3>1
    <3>4. off = 1 => Len(wrong') = MaxFailed
      BY <1>8, <1>10, <3>1, Numbers
    <3> QED
      BY <1>8, <1>10, <3>1, <3>2, <3>3, <3>4, Numbers
  <2>2. \A i \in 1..Len(kept) : i + off \in 1..Len(wrong)
    BY <1>6, <1>8, <1>10
  <2>3. \A i \in 1..Len(wrong') : wrong'[i] \in Nat /\ wrong'[i] <= clock
    <3> SUFFICES ASSUME NEW i \in 1..Len(wrong') PROVE wrong'[i] \in Nat /\ wrong'[i] <= clock
      OBVIOUS
    <3>1. CASE i = Len(kept) + 1
      BY <1>2, <1>11, <3>1, Numbers
    <3>2. CASE i # Len(kept) + 1
      <4>1. i \in 1..Len(kept)
        BY <1>6, <1>11, <3>2
      <4> QED
        BY <1>8, <1>11, <2>2, <4>1
    <3> QED
      BY <3>1, <3>2
  <2>4. \A i, j \in 1..Len(wrong') : i <= j => wrong'[i] <= wrong'[j]
    <3> SUFFICES ASSUME NEW i \in 1..Len(wrong'), NEW j \in 1..Len(wrong'), i <= j
                 PROVE  wrong'[i] <= wrong'[j]
      OBVIOUS
    <3>1. CASE j = Len(kept) + 1
      BY <1>11, <2>3, <3>1
    <3>2. CASE j # Len(kept) + 1
      <4>1. i \in 1..Len(kept) /\ j \in 1..Len(kept)
        BY <1>6, <1>11, <3>2
      <4> QED
        BY <1>8, <1>10, <1>11, <2>2, <4>1
    <3> QED
      BY <3>1, <3>2
  <2>5. Len(wrong') > user'.failed => user'.lockedUntil = wrong'[Len(wrong') - user'.failed] + LockSteps
    <3>1. CASE user.failed + 1 >= MaxFailed
      BY <1>3, <1>6, <1>11, <3>1
    <3>2. CASE user.failed + 1 < MaxFailed /\ Len(wrong') > user'.failed
      <4> DEFINE k == Len(wrong') - user'.failed
      <4>1. user'.failed = user.failed + 1 /\ user'.lockedUntil = user.lockedUntil
        BY <1>3, <1>8, <3>2, Numbers
      <4>2. /\ k = Len(wrong) - off - user.failed /\ k + off = Len(wrong) - user.failed
            /\ k <= Len(kept) /\ k \in Int
        <5>1. Len(wrong') = Len(wrong) - off + 1 /\ Len(kept) = Len(wrong) - off
          BY <1>13
        <5>2. k = Len(wrong') - user'.failed
          OBVIOUS
        <5> HIDE DEF k
        <5> QED
          BY <1>13, <4>1, <5>1, <5>2
      <4>3. k >= 1
        <5>1. CASE off = 1
          BY <1>8, <1>10, <3>2, <4>2, <5>1, Numbers
        <5>2. CASE off = 0
          BY <1>6, <1>8, <1>11, <3>2, <4>1, <4>2, <5>2
        <5> QED
          BY <1>10, <5>1, <5>2
      <4> HIDE DEF k
      <4>4. wrong'[k] = wrong[Len(wrong) - user.failed] /\ Len(wrong) > user.failed
        <5>1. k \in 1..Len(kept)
          BY <1>13, <4>2, <4>3
        <5>2. wrong'[k] = wrong[k + off]
          BY <1>11, <5>1
        <5> QED
          BY <1>13, <4>2, <4>3, <5>2
      <4> QED
        BY <1>8, <4>1, <4>4 DEF k
    <3> QED
      BY <1>8, <3>1, <3>2, Numbers
  <2> QED
    BY <1>4, <2>1, <2>3, <2>4, <2>5 DEF Window
<1> QED
  BY <1>5, <1>9, <1>12

LEMMA RightCodeStep ==
    ASSUME MfaInv, ~raced, NEW r \in Request, NEW c \in Code, RightCode(r, c)
    PROVE  CodesBehind' /\ CanBePassed' /\ Window'
<1> DEFINE new == Effect(r, c)
<1>1. /\ TypeOK /\ user \in Row /\ issued \in Nat
      /\ op[r] = "enable" => issued < MaxIssued
  BY Numbers DEF MfaInv, TypeOK, RightCode
<1>2. copy[r] = user /\ user' = new
  <2>1. pc[r] # "idle" /\ Close(r) /\ Write(r, new)
    BY DEF RightCode
  <2>2. new \in Row
    BY <1>1, EffectRow
  <2> QED
    BY <2>1, <2>2, AloneWrites
<1>3. /\ issued' = IF op[r] = "enable" THEN issued + 1 ELSE issued
      /\ spent' = spent \union {c} /\ wrong' = <<>>
      /\ user.secret # 0 /\ c.of <= issued
      /\ op[r] \in {"login", "enable", "disable"}
      /\ \/ c.kind = "totp" /\ c.of = user.secret /\ c.n > user.lastStep
         \/ c.kind = "backup" /\ c \in user.backup
  BY <1>2 DEF RightCode, Judges, Accepts, AcceptsTotp, AcceptsBackup, FreshStep, None
<1>4. /\ user.secret <= issued /\ user.secret \in Nat /\ user.lastStep \in Nat
      /\ user.backup \subseteq Backup
      /\ spent \subseteq Code
      /\ \A d \in spent :
            /\ d.of <= issued
            /\ d.kind = "totp" /\ d.of = user.secret => d.n <= user.lastStep
            /\ d \notin user.backup
  <2>1. CodesBehind /\ user \in Row /\ spent \subseteq Code
    BY <1>1 DEF MfaInv, TypeOK
  <2>2. user.secret \in Nat /\ user.lastStep \in Nat /\ user.backup \subseteq Backup
    BY <2>1, RowFields, MfaAssumption
  <2> QED
    BY <2>1, <2>2 DEF CodesBehind
<1>5. /\ Spend(user, c).lastStep = IF c.kind = "totp" THEN c.n ELSE user.lastStep
      /\ Spend(user, c).backup = IF c.kind = "totp" THEN user.backup ELSE user.backup \ {c}
  BY <1>1, RowSpend
<1>6. \A d \in spent' : /\ d \in Code /\ d.of <= issued
                        /\ d.of \in Nat /\ d.of >= 1 /\ (d.kind = "totp" => d.n \in Nat)
  BY <1>3, <1>4, CodeFields, Numbers
<1>7. \A d \in Backup : d.kind = "backup"
  BY DEF Backup
<1>8. CASE op[r] \in {"login", "enable"}
  <2>1. user'.secret = user.secret /\ user'.lastStep = Spend(user, c).lastStep
    BY <1>1, <1>2, <1>8, EffectRow
  <2>2. user'.secret <= issued'
    BY <1>1, <1>3, <1>4, <2>1
  <2>3. ASSUME NEW d \in spent' PROVE d.kind = "totp" /\ d.of = user'.secret => d.n <= user'.lastStep
    <3> SUFFICES ASSUME d.kind = "totp", d.of = user'.secret PROVE d.n <= user'.lastStep
      OBVIOUS
    <3>1. d.n \in Nat /\ c.kind = "totp" => c.n \in Nat
      BY <1>6, CodeFields
    <3>2. CASE d = c
      BY <1>5, <1>6, <2>1, <3>2
    <3>3. CASE d \in spent
      <4>1. d.n <= user.lastStep /\ d.n \in Nat
        BY <1>4, <1>6, <2>1, <3>3
      <4>2. CASE c.kind = "totp"
        BY <1>3, <1>4, <1>5, <2>1, <4>1, <4>2, CodeFields
      <4>3. CASE c.kind # "totp"
        BY <1>5, <2>1, <4>1, <4>3
      <4> QED
        BY <4>2, <4>3
    <3> QED
      BY <1>3, <3>2, <3>3
  <2>4. ASSUME NEW d \in spent' PROVE d \notin user'.backup
    <3>1. CASE op[r] = "login"
      <4>1. user'.backup = Spend(user, c).backup
        BY <1>1, <1>2, <3>1, EffectRow
      <4>2. c \notin user'.backup
        BY <1>4, <1>5, <1>7, <4>1
      <4>3. user'.backup \subseteq user.backup
        BY <1>5, <4>1
      <4> QED
        BY <1>3, <1>4, <4>2, <4>3
    <3>2. CASE op[r] = "enable"
      <4>1. user'.backup = NewBatch
        BY <1>1, <1>2, <3>2, EffectRow
      <4>2. \A b \in NewBatch : b.of = issued + 1
        BY DEF NewBatch
      <4>3. d.of # issued + 1
        BY <1>1, <1>6
      <4> QED
        BY <4>1, <4>2, <4>3
    <3> QED
      BY <1>8, <3>1, <3>2
  <2>5. \A d \in spent' : d.of <= issued'
    BY <1>1, <1>3, <1>6
  <2>6. CodesBehind'
    BY <2>2, <2>3, <2>4, <2>5 DEF CodesBehind
  <2> QED
    <3>1. CanBePassed'
      BY <1>3, <2>1 DEF CanBePassed, None
    <3>2. user'.failed = 0
      BY <1>1, <1>2, EffectRow
    <3>3. Window'
      BY <1>3, <3>2, Numbers DEF Window
    <3> QED
      BY <2>6, <3>1, <3>3
<1>9. CASE op[r] = "disable"
  <2>1. ~user'.enabled /\ user'.secret = 0 /\ user'.backup = {} /\ user'.failed = 0
    <3>1. Effect(r, c) = ClearMfa(Spend(user, c))
      BY <1>1, <1>2, <1>9, EffectRow
    <3>2. Spend(user, c) \in Row
      BY <1>1, RowSpend
    <3> QED
      BY <1>2, <3>1, <3>2, RowClearMfa
  <2>2. issued' = issued
    BY <1>3, <1>9
  <2>3. CodesBehind'
    BY <1>1, <1>6, <2>1, <2>2 DEF CodesBehind
  <2>4. CanBePassed' /\ Window'
    BY <1>3, <2>1, Numbers DEF CanBePassed, Window
  <2> QED
    BY <2>3, <2>4
<1> QED
  BY <1>3, <1>8, <1>9

LEMMA SetupStep ==
    ASSUME MfaInv, ~raced, NEW r \in Request, Setup(r)
    PROVE  CodesBehind' /\ CanBePassed' /\ Window'
<1>1. /\ pc[r] # "idle" /\ Close(r) /\ spent' = spent /\ wrong' = wrong /\ clock' = clock
      /\ user \in Row /\ issued \in 0..MaxIssued /\ clock \in Nat /\ spent \subseteq Code
  BY Numbers DEF Setup, Close, MfaInv, TypeOK
<1>2. copy[r] = user
  BY <1>1, AloneWrites
<1>3. CASE UNCHANGED <<user, issued>>
  BY <1>1, <1>3, NothingWritten
<1>4. CASE issued < MaxIssued /\ issued' = issued + 1 /\ Write(r, [copy[r] EXCEPT !.secret = issued + 1, !.lastStep = None])
  <2> DEFINE new == [user EXCEPT !.secret = issued + 1, !.lastStep = None]
  <2>1. issued + 1 \in 0..MaxIssued
    BY <1>1, <1>4, Numbers
  <2>2. /\ new \in Row /\ new.secret = issued + 1 /\ new.backup = user.backup
        /\ new.failed = user.failed /\ new.lockedUntil = user.lockedUntil
    BY <1>1, <2>1, NewSecretRow
  <2>3. user' = new
    BY <1>1, <1>2, <1>4, <2>2, AloneWrites
  <2> HIDE DEF new
  <2>4. issued \in Nat /\ \A d \in spent : d.of <= issued /\ d.of \in Nat /\ d \notin user.backup
    BY <1>1, CodeFields, Numbers DEF MfaInv, CodesBehind
  <2>5. CodesBehind'
    <3>1. user'.secret = issued + 1 /\ issued' = issued + 1 /\ user'.backup = user.backup
      BY <1>4, <2>2, <2>3
    <3>2. \A d \in spent' : d.of <= issued' /\ d.of # user'.secret /\ d \notin user'.backup
      BY <1>1, <2>4, <3>1
    <3> QED
      BY <2>4, <3>1, <3>2 DEF CodesBehind
  <2>6. CanBePassed'
    BY <1>1, <2>2, <2>3 DEF CanBePassed, None
  <2>7. Window'
    BY <1>1, <2>2, <2>3 DEF MfaInv, Window
  <2> QED
    BY <2>5, <2>6, <2>7
<1> QED
  BY <1>3, <1>4 DEF Setup

LEMMA ResetStep ==
    ASSUME MfaInv, ~raced, NEW r \in Request, Reset(r)
    PROVE  CodesBehind' /\ CanBePassed' /\ Window'
<1>1. /\ pc[r] # "idle" /\ Close(r) /\ spent' = spent /\ wrong' = <<>> /\ issued' = issued
      /\ user \in Row /\ issued \in Nat /\ spent \subseteq Code /\ Write(r, ClearMfa(copy[r]))
  BY Numbers DEF Reset, MfaInv, TypeOK
<1>2. /\ copy[r] = user /\ user' = ClearMfa(user)
  BY <1>1, AloneWrites, RowClearMfa
<1>3. ~user'.enabled /\ user'.secret = 0 /\ user'.backup = {} /\ user'.failed = 0
  BY <1>1, <1>2, RowClearMfa
<1>4. \A d \in spent : d.of <= issued /\ d.of \in Nat /\ d.of >= 1
  BY <1>1, CodeFields, Numbers DEF MfaInv, CodesBehind
<1>5. CodesBehind'
  BY <1>1, <1>3, <1>4 DEF CodesBehind
<1> QED
  BY <1>1, <1>3, <1>5, Numbers DEF CanBePassed, Window

LEMMA MfaInvStep == MfaInv /\ [Next]_vars => MfaInv'
<1> SUFFICES ASSUME MfaInv, [Next]_vars PROVE MfaInv'
  OBVIOUS
<1>1. TypeOK' /\ Undisturbed'
  BY TypeStep, UndisturbedStep DEF MfaInv
<1>2. ASSUME ~raced' PROVE CodesBehind' /\ CanBePassed' /\ Window'
  <2>1. ~raced
    BY <1>2 DEF Next, vars, Tick, Load, Lock, Refuse, WrongCode, RightCode, Setup, Reset, Abort, Close
  <2>2. clock \in Nat
    BY Numbers DEF MfaInv, TypeOK
  <2>3. CASE UNCHANGED vars
    BY <2>1, <2>2, <2>3, NothingWritten DEF vars
  <2>4. CASE Tick
    BY <2>1, <2>2, <2>4, NothingWritten DEF Tick
  <2>5. ASSUME NEW r \in Request, Lock(r) \/ Refuse(r) \/ Abort(r) \/ \E o \in Op : Load(r, o)
        PROVE  CodesBehind' /\ CanBePassed' /\ Window'
    BY <2>1, <2>2, <2>5, NothingWritten DEF Lock, Refuse, Abort, Load, Close
  <2>6. ASSUME NEW r \in Request, WrongCode(r) \/ Setup(r) \/ Reset(r) \/ \E c \in Code : RightCode(r, c)
        PROVE  CodesBehind' /\ CanBePassed' /\ Window'
    BY <2>1, <2>6, WrongCodeStep, RightCodeStep, SetupStep, ResetStep
  <2> QED
    BY <2>3, <2>4, <2>5, <2>6 DEF Next
<1> QED
  BY <1>1, <1>2 DEF MfaInv

\* As long as requests do not overlap, a code that has been accepted is dead.
THEOREM UsedCodesStayDead == Spec => []UsedCodeIsDead
<1>1. MfaInv => UsedCodeIsDead
  BY DEF MfaInv, CodesBehind, UsedCodeIsDead, AcceptsTotp, AcceptsBackup, FreshStep, TypeOK, Row, Code, Totp, Backup
<1> QED
  BY <1>1, MfaInvInit, MfaInvStep, PTL DEF Spec

\* As long as requests do not overlap, MFA that is on can be passed and MFA that was
\* cleared leaves nothing behind.
THEOREM UsableWhenOn == Spec => []SwitchedOnMeansUsable
<1>1. MfaInv => SwitchedOnMeansUsable
  BY DEF MfaInv, CanBePassed, SwitchedOnMeansUsable
<1> QED
  BY <1>1, MfaInvInit, MfaInvStep, PTL DEF Spec

\* As long as requests do not overlap, at most MaxFailed codes are judged wrong in any
\* LockSteps steps between two successes.
THEOREM LimitedGuesses == Spec => GuessesAreLimited
<1>1. MfaInv /\ [Next]_vars =>
        [(\E r \in Request : WrongCode(r)) /\ ~raced /\ Len(wrong) = MaxFailed =>
          clock - wrong[1] >= LockSteps]_vars
  BY WrongCodeStep
<1> QED
  BY <1>1, MfaInvInit, MfaInvStep, PTL DEF Spec, GuessesAreLimited
=============================================================================
