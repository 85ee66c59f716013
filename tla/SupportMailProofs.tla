------------------------- MODULE SupportMailProofs -------------------------
(***************************************************************************)
(* Theorems about the notification of support requests for any number of   *)
(* requests, runs of the script and status changes, whoever dies: its      *)
(* types, that "sent" means arrived, that none is forgotten, that mailing  *)
(* and working on a request are independent, and, as long as runs of the   *)
(* script do not overlap, that a request is mailed once and stays sent.    *)
(***************************************************************************)
EXTENDS SupportMail, TLAPS

-----------------------------------------------------------------------------
(* Rows and jobs. *)

LEMMA MergedRow ==
    ASSUME NEW now \in Row, NEW old \in Row, NEW new \in Row
    PROVE  /\ Merged(now, old, new) \in Row
           /\ Merged(now, old, new).status =
                 IF new.status # old.status THEN new.status ELSE now.status
           /\ Merged(now, old, new).notify =
                 IF new.notify # old.notify THEN new.notify ELSE now.notify
           /\ Merged(now, old, new).notified =
                 IF new.notified # old.notified THEN new.notified ELSE now.notified
BY DEF Merged, Row

(* A job that is about to load, send or record knows its request. *)
LEMMA JobShape ==
    ASSUME TypeOK, NEW w \in Worker, job[w].at \in Mailing
    PROVE  /\ job[w] # Idle
           /\ job[w].current \in Id /\ job[w].todo \subseteq Id
           /\ row[job[w].current] \in Row
           /\ job[w].at \in {"send", "record"} => job[w].copy \in Row
           /\ job[w].at = "record" => job[w].says \in Notify \ {"pending"} /\ job[w].number \in 0..MaxMails
<1>1. job[w] # Idle /\ job[w].current \in Id /\ job[w].todo \subseteq Id
  BY DEF TypeOK, Job, Idle, Mailing
<1>2. job[w].current \in Handled(w)
  BY DEF Handled, Mailing
<1>5. row[job[w].current] \in Row
  BY <1>1, <1>2 DEF TypeOK
<1>3. job[w].at \in {"send", "record"} => job[w].copy \in Row
  BY DEF TypeOK, Job, Idle, Mailing
<1>4. job[w].at = "record" => job[w].says \in Notify \ {"pending"} /\ job[w].number \in 0..MaxMails
  BY DEF TypeOK, Job, Idle, Mailing
<1> QED
  BY <1>1, <1>3, <1>4, <1>5

(* The outcome of a mail is what gets recorded, next to what is there. *)
LEMMA RecordRow ==
    ASSUME TypeOK, NEW w \in Worker, Record(w)
    PROVE  LET i == job[w].current
               old == job[w].copy
           IN /\ i \in Id /\ row[i] \in Row /\ row'[i] \in Row /\ old \in Row
              /\ row' = [row EXCEPT ![i] = row'[i]]
              /\ row'[i].status = row[i].status
              /\ row'[i].notify =
                    IF job[w].says # old.notify THEN job[w].says ELSE row[i].notify
<1> DEFINE i == job[w].current
           old == job[w].copy
           new == [old EXCEPT !.notify = job[w].says, !.notified = job[w].number]
<1>1. /\ i \in Id /\ row[i] \in Row /\ old \in Row
      /\ job[w].says \in Notify /\ job[w].number \in 0..MaxMails
  BY JobShape DEF Record, Mailing
<1>2. new \in Row /\ new.status = old.status /\ new.notify = job[w].says
  BY <1>1 DEF Row
<1>3. row' = [row EXCEPT ![i] = Merged(row[i], old, new)]
  BY DEF Record, Write, Current
<1>4. row'[i] = Merged(row[i], old, new)
  BY <1>1, <1>3 DEF TypeOK
<1> HIDE DEF new
<1>5. /\ Merged(row[i], old, new) \in Row
      /\ Merged(row[i], old, new).status = row[i].status
      /\ Merged(row[i], old, new).notify =
            IF job[w].says # old.notify THEN job[w].says ELSE row[i].notify
  BY <1>1, <1>2, MergedRow
<1> QED
  BY <1>1, <1>3, <1>4, <1>5

-----------------------------------------------------------------------------
(* Types. *)

LEMMA InitType == Init => TypeOK
<1> SUFFICES ASSUME Init PROVE TypeOK
  OBVIOUS
<1>1. row \in [Id -> Row \union {Absent}] /\ mails \in [Id -> 0..MaxMails]
  BY SupportAssumption DEF Init
<1>2. job \in [Worker -> Job] /\ \A w \in Worker : Handled(w) = {}
  BY DEF Init, Job, Idle, Handled, Mailing
<1>3. change \in [Employee -> {Idle} \union [at : {"commit"}, current : Id, to : Status]]
  BY DEF Init
<1> QED
  BY <1>1, <1>2, <1>3 DEF Init, TypeOK

(* What one worker handles after a step of its own. *)
LEMMA HandledNext ==
    ASSUME TypeOK, NEW w \in Worker, NEW j, job' = [job EXCEPT ![w] = j]
    PROVE  /\ job'[w] = j
           /\ \A v \in Worker \ {w} : job'[v] = job[v] /\ Handled(v)' = Handled(v)
           /\ j.at \in Mailing => Handled(w)' = {j.current} \union j.todo
           /\ j.at = "audit" => Handled(w)' = {w}
           /\ j.at = "idle" => Handled(w)' = {}
BY DEF TypeOK, Handled, Mailing

(* One worker goes on to its next state. *)
LEMMA StepType ==
    ASSUME TypeOK, NEW w \in Worker, NEW j \in Job, job' = [job EXCEPT ![w] = j],
           \A i \in Handled(w)' : i \in Id /\ row'[i] # Absent,
           row' \in [Id -> Row \union {Absent}],
           \A i \in Id : row[i] # Absent => row'[i] # Absent
    PROVE  /\ job' \in [Worker -> Job]
           /\ \A v \in Worker : \A i \in Handled(v)' : i \in Id /\ row'[i] # Absent
<1>1. job' \in [Worker -> Job]
  BY DEF TypeOK
<1>2. ASSUME NEW v \in Worker, NEW i \in Handled(v)' PROVE i \in Id /\ row'[i] # Absent
  <2>1. CASE v # w
    <3>1. i \in Handled(v)
      BY <1>2, <2>1, HandledNext
    <3> QED  BY <3>1 DEF TypeOK
  <2> QED  BY <1>2, <2>1
<1> QED
  BY <1>1, <1>2

(* Every action keeps the rows and the workers well formed. *)
LEMMA NextType == TypeOK /\ [Next]_vars => TypeOK'
<1> SUFFICES ASSUME TypeOK, [Next]_vars PROVE TypeOK'
  OBVIOUS
<1>1. ASSUME NEW i \in Id, Create(i) PROVE TypeOK'
  <2> DEFINE j == [at |-> "audit"]
  <2>1. NewRow \in Row /\ NewRow # Absent
    BY SupportAssumption DEF NewRow, Absent, Row, Status, Notify, None
  <2>2. /\ row' \in [Id -> Row \union {Absent}] /\ row'[i] # Absent
        /\ \A k \in Id : row[k] # Absent => row'[k] # Absent
    BY <1>1, <2>1 DEF Create, TypeOK
  <2>3. j \in Job /\ i \in Worker /\ job' = [job EXCEPT ![i] = j]
    BY <1>1 DEF Job, Worker, Create
  <2>6. j.at = "audit"
    OBVIOUS
  <2> HIDE DEF j
  <2>4. Handled(i)' = {i}
    BY <2>3, <2>6, HandledNext
  <2>5. /\ job' \in [Worker -> Job]
        /\ \A v \in Worker : \A k \in Handled(v)' : k \in Id /\ row'[k] # Absent
    BY <2>2, <2>3, <2>4, StepType
  <2> QED  BY <1>1, <2>2, <2>5 DEF Create, TypeOK
<1>2. ASSUME NEW w \in Worker, NEW j \in Job, job' = [job EXCEPT ![w] = j],
             Handled(w)' \subseteq Handled(w), UNCHANGED <<row, change, configured, overlapped>>,
             mails' \in [Id -> 0..MaxMails], dropped' \subseteq Id, uncertain' \subseteq Id
      PROVE  TypeOK'
  <2>1. \A i \in Handled(w)' : i \in Id /\ row'[i] # Absent
    BY <1>2 DEF TypeOK
  <2>2. /\ job' \in [Worker -> Job]
        /\ \A v \in Worker : \A i \in Handled(v)' : i \in Id /\ row'[i] # Absent
    BY <1>2, <2>1, StepType DEF TypeOK
  <2> QED  BY <1>2, <2>2 DEF TypeOK
<1>3. ASSUME NEW i \in Id, Audit(i) PROVE TypeOK'
  <2> DEFINE j == [at |-> "load", current |-> i, todo |-> {}]
  <2>1. j \in Job /\ i \in Worker /\ job' = [job EXCEPT ![i] = j]
    BY <1>3 DEF Job, Worker, Audit
  <2>2. Handled(i)' = {i} /\ Handled(i) = {i}
    BY <1>3, <2>1, HandledNext DEF Audit, Handled, Mailing
  <2> QED  BY <1>2, <1>3, <2>1, <2>2 DEF Audit, TypeOK
<1>4. ASSUME NEW s \in Script, StartScript(s) PROVE TypeOK'
  <2>1. PICK i \in Candidates : job' = [job EXCEPT ![s] = Loaded(i, Candidates \ {i})]
    BY <1>4 DEF StartScript
  <2> DEFINE j == Loaded(i, Candidates \ {i})
  <2>2. \A k \in Candidates : k \in Id /\ row[k] # Absent /\ row[k] \in Row
    BY DEF Candidates, RETRY_STATUSES, Absent, TypeOK
  <2>3. j \in Job /\ s \in Worker
    BY <2>2 DEF Loaded, Job, Worker
  <2>7. j.at \in Mailing /\ j.current = i /\ j.todo = Candidates \ {i}
    BY DEF Loaded, Mailing
  <2> HIDE DEF j
  <2>8. job' = [job EXCEPT ![s] = j]
    BY <2>1 DEF j
  <2>9. Handled(s)' = {i} \union (Candidates \ {i})
    <3>1. Handled(s)' = {j.current} \union j.todo
      BY <2>3, <2>7, <2>8, HandledNext
    <3> QED  BY <2>7, <3>1
  <2>4. Handled(s)' \subseteq Candidates
    BY <2>9
  <2>5. row' = row
    BY <1>4 DEF StartScript
  <2>6. /\ job' \in [Worker -> Job]
        /\ \A v \in Worker : \A k \in Handled(v)' : k \in Id /\ row'[k] # Absent
    BY <2>8, <2>2, <2>3, <2>4, <2>5, StepType DEF TypeOK
  <2> QED  BY <1>4, <2>6 DEF StartScript, TypeOK
<1>5. ASSUME NEW w \in Worker, Load(w) PROVE TypeOK'
  <2>1. job[w].current \in Id /\ job[w].todo \subseteq Id /\ row[job[w].current] \in Row
    BY <1>5, JobShape DEF Load, Mailing
  <2> DEFINE j == Loaded(job[w].current, job[w].todo)
  <2>2. j \in Job /\ job' = [job EXCEPT ![w] = j]
    BY <1>5, <2>1 DEF Load, Loaded, Job
  <2>3. Handled(w)' = Handled(w)
    BY <1>5, <2>2, HandledNext DEF Load, Loaded, Handled, Mailing
  <2> QED  BY <1>2, <1>5, <2>2, <2>3 DEF Load, TypeOK
<1>6. ASSUME NEW w \in Worker, NEW says \in Notify \ {"pending"}, NEW number \in 0..MaxMails,
             job[w].at = "send", Sent(w, says, number)
      PROVE  \E j \in Job : job' = [job EXCEPT ![w] = j] /\ Handled(w)' = Handled(w)
  <2>1. job[w].current \in Id /\ job[w].todo \subseteq Id /\ job[w].copy \in Row
    BY <1>6, JobShape DEF Mailing
  <2> DEFINE j == [at |-> "record", current |-> job[w].current, todo |-> job[w].todo,
                   copy |-> job[w].copy, says |-> says, number |-> number]
  <2>2. j \in Job
    BY <2>1 DEF Job
  <2>3. job' = [job EXCEPT ![w] = j]
    BY <1>6 DEF Sent, Current
  <2>4. j.at \in Mailing /\ j.current = job[w].current /\ j.todo = job[w].todo
    BY DEF Mailing
  <2> HIDE DEF j
  <2>5. Handled(w)' = Handled(w)
    BY <1>6, <2>3, <2>4, HandledNext DEF Handled, Mailing
  <2> QED  BY <2>2, <2>3, <2>5
<1>7. ASSUME NEW w \in Worker, Send(w) PROVE TypeOK'
  <2>1. job[w].current \in Id
    BY <1>7, JobShape DEF Send, Mailing
  <2>2. PICK o \in Outcomes :
           LET i == Current(w) IN
           /\ o.arrives => mails[i] < MaxMails
           /\ mails' = IF o.arrives THEN [mails EXCEPT ![i] = @ + 1] ELSE mails
           /\ Sent(w, o.says, IF o.says = "sent" THEN mails[i] + 1 ELSE None)
           /\ uncertain' = IF o.arrives /\ o.says # "sent" THEN uncertain \union {i} ELSE uncertain
    BY <1>7 DEF Send
  <2> DEFINE number == IF o.says = "sent" THEN mails[job[w].current] + 1 ELSE None
  <2>3. /\ o.says \in Notify \ {"pending"}
        /\ o.says = "sent" => o.arrives
    BY DEF Outcomes, Notify
  <2>4. mails[job[w].current] \in 0..MaxMails /\ MaxMails \in Nat
    BY <2>1, SupportAssumption DEF TypeOK
  <2>5. number \in 0..MaxMails
    BY <2>2, <2>3, <2>4 DEF None, Current
  <2>6. mails' \in [Id -> 0..MaxMails] /\ uncertain' \subseteq Id
    BY <2>1, <2>2, <2>4 DEF TypeOK, Current
  <2>7. Sent(w, o.says, number)
    BY <2>2 DEF Current
  <2> HIDE DEF number
  <2>8. PICK j \in Job : job' = [job EXCEPT ![w] = j] /\ Handled(w)' = Handled(w)
    BY <1>6, <1>7, <2>3, <2>5, <2>7 DEF Send
  <2> QED  BY <1>2, <1>7, <2>6, <2>8 DEF Send, TypeOK
<1>8. ASSUME NEW w \in Worker, Skip(w) PROVE TypeOK'
  <2>1. "skipped_no_config" \in Notify \ {"pending"} /\ None \in 0..MaxMails
    BY SupportAssumption DEF Notify, None
  <2>2. PICK j \in Job : job' = [job EXCEPT ![w] = j] /\ Handled(w)' = Handled(w)
    BY <1>6, <1>8, <2>1 DEF Skip
  <2> QED  BY <1>2, <1>8, <2>2 DEF Skip, TypeOK
<1>9. ASSUME NEW w \in Worker, Record(w) PROVE TypeOK'
  <2>1. job[w].todo \subseteq Id /\ job[w].at = "record"
    BY <1>9, JobShape DEF Record, Mailing
  <2>2. /\ row' \in [Id -> Row \union {Absent}]
        /\ \A k \in Id : row[k] # Absent => row'[k] # Absent
    <3>1. Absent \notin Row
      BY DEF Absent, Row, Notify
    <3> QED  BY <1>9, <3>1, RecordRow DEF TypeOK
  <2>3. \E j \in Job : job' = [job EXCEPT ![w] = j] /\ Handled(w)' \subseteq Handled(w)
    <3>1. CASE job' = [job EXCEPT ![w] = Idle]
      <4>1. Idle \in Job /\ Idle.at = "idle"
        BY DEF Job, Idle
      <4>2. Handled(w)' = {}
        BY <3>1, <4>1, HandledNext
      <4> QED  BY <3>1, <4>1, <4>2
    <3>2. ASSUME NEW i \in job[w].todo,
                 job' = [job EXCEPT ![w] = [at |-> "load", current |-> i, todo |-> job[w].todo \ {i}]]
          PROVE  \E j \in Job : job' = [job EXCEPT ![w] = j] /\ Handled(w)' \subseteq Handled(w)
      <4> DEFINE j == [at |-> "load", current |-> i, todo |-> job[w].todo \ {i}]
      <4>1. j \in Job /\ j.at \in Mailing /\ j.current = i /\ j.todo = job[w].todo \ {i}
        BY <2>1, <3>2 DEF Job, Mailing
      <4>2. job' = [job EXCEPT ![w] = j]
        BY <3>2
      <4> HIDE DEF j
      <4>3. Handled(w)' \subseteq Handled(w)
        BY <2>1, <3>2, <4>1, <4>2, HandledNext DEF Handled, Mailing
      <4> QED  BY <4>1, <4>2, <4>3
    <3> QED  BY <1>9, <3>1, <3>2 DEF Record
  <2>4. /\ job' \in [Worker -> Job]
        /\ \A v \in Worker : \A i \in Handled(v)' : i \in Id /\ row'[i] # Absent
    BY <2>2, <2>3, StepType DEF TypeOK
  <2> QED  BY <1>9, <2>2, <2>4 DEF Record, TypeOK
<1>10. ASSUME NEW e \in Employee, NEW i \in Id, NEW status \in Status, LoadChange(e, i, status)
       PROVE  TypeOK'
  BY <1>10 DEF LoadChange, TypeOK, Handled
<1>11. ASSUME NEW e \in Employee, CommitChange(e) PROVE TypeOK'
  <2>1. change[e].current \in Id /\ change[e].to \in Status
    BY <1>11 DEF CommitChange, TypeOK, Idle
  <2>3. row[change[e].current] \in Row
    BY <1>11, <2>1 DEF CommitChange, TypeOK
  <2>2. \A k \in Id : row'[k] \in Row \union {Absent} /\ (row[k] # Absent => row'[k] # Absent)
    BY <1>11, <2>1, <2>3 DEF CommitChange, TypeOK, Row, Absent, Notify, Status
  <2> QED  BY <1>11, <2>2 DEF CommitChange, TypeOK, Handled
<1>12. ASSUME NEW ws \in SUBSET Worker, Kill(ws), UNCHANGED <<row, mails, overlapped>>,
              UNCHANGED change \/ change' = [e \in Employee |-> Idle],
              configured' \in BOOLEAN
       PROVE  TypeOK'
  <2>1. job' \in [Worker -> Job]
    BY <1>12 DEF Kill, TypeOK, Job
  <2>2. \A w \in Worker : Handled(w)' \subseteq Handled(w)
    BY <1>12 DEF Kill, Handled, Idle, Mailing
  <2>3. Unrecorded(ws) \subseteq Id
    BY JobShape DEF Unrecorded, Current, Mailing
  <2>4. dropped' \subseteq Id /\ uncertain' \subseteq Id
    BY <1>12, <2>3 DEF Kill, TypeOK
  <2>5. \A w \in Worker : \A i \in Handled(w)' : i \in Id /\ row'[i] # Absent
    BY <1>12, <2>2 DEF TypeOK
  <2>6. \A e \in Employee : change'[e] # Idle => row'[change'[e].current] # Absent
    BY <1>12 DEF TypeOK
  <2> QED  BY <1>12, <2>1, <2>4, <2>5, <2>6 DEF TypeOK
<1>13. ASSUME NEW w \in Worker, Die(w) PROVE TypeOK'
  BY <1>12, <1>13 DEF Die, TypeOK
<1>14. CASE Restart
  <2>1. {i \in Id : job[i] # Idle} \in SUBSET Worker
    BY DEF Worker
  <2> QED  BY <1>12, <1>14, <2>1 DEF Restart, TypeOK
<1>15. CASE UNCHANGED vars
  BY <1>15 DEF vars, TypeOK, Handled
<1> QED
  BY <1>1, <1>3, <1>4, <1>5, <1>7, <1>8, <1>9, <1>10, <1>11, <1>13, <1>14, <1>15 DEF Next

(* Rows, loaded rows and outcomes are well formed; nobody is at work on a request that is not there. *)
THEOREM TypeCorrect == Spec => []TypeOK
<1>1. Init => TypeOK
  BY InitType
<1>2. TypeOK /\ [Next]_vars => TypeOK'
  BY NextType
<1> QED
  BY <1>1, <1>2, PTL DEF Spec

-----------------------------------------------------------------------------
(* What holds whatever overlaps. *)

(* Nothing that was recorded makes a request pending again. *)
LEMMA RecordNotify ==
    ASSUME SafeInv, NEW w \in Worker, Record(w)
    PROVE  LET i == job[w].current
           IN /\ row'[i].notify \in {job[w].says, row[i].notify}
              /\ row'[i].notify # "pending"
<1> DEFINE i == job[w].current
           old == job[w].copy
<1>1. job[w].says # "pending" /\ i \in Id
  BY JobShape DEF SafeInv, Record, Mailing
<1>2. row'[i].notify = IF job[w].says # old.notify THEN job[w].says ELSE row[i].notify
  BY RecordRow DEF SafeInv
<1>3. old.notify # "pending" => row[i].notify # "pending"
  BY DEF SafeInv, WellInformed, Record
<1> QED
  BY <1>1, <1>2, <1>3

(* Which row a step writes: nobody's, a new one, a recorded one, or the status of one. *)
LEMMA RowSteps ==
    ASSUME SafeInv, [Next]_vars
    PROVE  \/ row' = row
           \/ \E i \in Id : Create(i) /\ row[i] = Absent /\ row' = [row EXCEPT ![i] = NewRow]
           \/ \E w \in Worker : Record(w) /\ row' = [row EXCEPT ![job[w].current] = row'[job[w].current]]
           \/ \E e \in Employee : CommitChange(e)
<1>1. ASSUME NEW i \in Id, Create(i) PROVE row[i] = Absent /\ row' = [row EXCEPT ![i] = NewRow]
  BY <1>1 DEF Create, Oldest
<1>2. ASSUME NEW w \in Worker, Record(w)
      PROVE  row' = [row EXCEPT ![job[w].current] = row'[job[w].current]]
  BY <1>2, RecordRow DEF SafeInv
<1> QED
  BY <1>1, <1>2 DEF Next, Audit, StartScript, Load, Send, Skip, Die, LoadChange, Restart, vars

LEMMA CommitKeepsNotify ==
    ASSUME TypeOK, NEW e \in Employee, CommitChange(e), NEW i \in Id
    PROVE  row'[i].notify = row[i].notify /\ row'[i].notified = row[i].notified
<1>1. change[e].current \in Id /\ row[change[e].current] \in Row
  BY DEF CommitChange, TypeOK, Idle
<1> QED
  BY <1>1 DEF CommitChange, TypeOK, Row, Absent

(* Mails do not get less, and no row returns to pending. *)
LEMMA Monotone ==
    ASSUME SafeInv, [Next]_vars, NEW i \in Id
    PROVE  /\ mails[i] \in Nat /\ mails'[i] \in Nat /\ mails'[i] >= mails[i]
           /\ row[i] # Absent /\ row[i].notify # "pending" => row'[i].notify # "pending"
<1>1. TypeOK /\ TypeOK'
  BY NextType DEF SafeInv
<1>2. mails[i] \in Nat /\ mails'[i] \in Nat
  BY <1>1, SupportAssumption DEF TypeOK
<1>3. mails' = mails \/ \E w \in Worker : Send(w)
  BY DEF Next, Create, Audit, StartScript, Load, Skip, Record, Die, LoadChange, CommitChange,
         Restart, vars
<1>4. mails'[i] >= mails[i]
  <2>1. ASSUME NEW w \in Worker, Send(w) PROVE mails'[i] >= mails[i]
    BY <1>1, <1>2, <2>1 DEF Send, TypeOK
  <2> QED  BY <1>2, <1>3, <2>1
<1>5. ASSUME row[i] # Absent, row[i].notify # "pending" PROVE row'[i].notify # "pending"
  <2>1. CASE row' = row
    BY <1>5, <2>1
  <2>2. ASSUME NEW k \in Id, row[k] = Absent, row' = [row EXCEPT ![k] = NewRow]
        PROVE  row'[i].notify # "pending"
    BY <1>1, <1>5, <2>2 DEF TypeOK
  <2>3. ASSUME NEW w \in Worker, Record(w),
               row' = [row EXCEPT ![job[w].current] = row'[job[w].current]]
        PROVE  row'[i].notify # "pending"
    BY <1>1, <1>5, <2>3, RecordNotify DEF TypeOK
  <2>4. ASSUME NEW e \in Employee, CommitChange(e) PROVE row'[i].notify # "pending"
    BY <1>1, <1>5, <2>4, CommitKeepsNotify
  <2> QED  BY <2>1, <2>2, <2>3, <2>4, RowSteps
<1> QED
  BY <1>2, <1>4, <1>5

(* What the mailing steps do to the worker that takes them. *)
LEMMA LoadStep ==
    ASSUME TypeOK, NEW w \in Worker, NEW i, NEW todo, job' = [job EXCEPT ![w] = Loaded(i, todo)]
    PROVE  /\ job'[w].at = "send" /\ job'[w].current = i /\ job'[w].todo = todo
           /\ job'[w].copy = row[i] /\ job'[w] # Idle
           /\ Handled(w)' = {i} \union todo
           /\ \A v \in Worker \ {w} : job'[v] = job[v] /\ Handled(v)' = Handled(v)
<1>1. /\ job'[w].at = "send" /\ job'[w].current = i /\ job'[w].todo = todo
      /\ job'[w].copy = row[i] /\ job'[w] # Idle
  BY DEF Loaded, TypeOK, Idle
<1>2. Handled(w)' = {i} \union todo
  BY <1>1 DEF Handled, Mailing
<1>3. \A v \in Worker \ {w} : job'[v] = job[v] /\ Handled(v)' = Handled(v)
  BY DEF TypeOK, Handled
<1> QED
  BY <1>1, <1>2, <1>3

LEMMA SendStep ==
    ASSUME TypeOK, NEW w \in Worker, Send(w) \/ Skip(w)
    PROVE  /\ job[w].at = "send" /\ job'[w].at = "record"
           /\ job'[w].current = job[w].current /\ job'[w].todo = job[w].todo
           /\ job'[w].copy = job[w].copy
           /\ \A v \in Worker \ {w} : job'[v] = job[v] /\ Handled(v)' = Handled(v)
           /\ row' = row /\ overlapped' = overlapped
           /\ \A i \in Id \ {job[w].current} : mails'[i] = mails[i]
           /\ job'[w].says = "sent" => mails'[job[w].current] = mails[job[w].current] + 1
           /\ job'[w].says # "sent" => \/ mails' = mails
                                      \/ job[w].current \in uncertain'
           /\ uncertain \subseteq uncertain'
<1>1. job[w].at = "send" /\ job[w].current \in Id
  BY JobShape DEF Send, Skip, Mailing
<1>2. ASSUME NEW says, NEW number, Sent(w, says, number)
      PROVE  /\ job'[w].at = "record" /\ job'[w].says = says
             /\ job'[w].current = job[w].current /\ job'[w].todo = job[w].todo
             /\ job'[w].copy = job[w].copy
             /\ \A v \in Worker \ {w} : job'[v] = job[v] /\ Handled(v)' = Handled(v)
  BY <1>2 DEF Sent, Current, TypeOK, Handled
<1>3. CASE Send(w)
  <2>1. PICK o \in Outcomes :
           LET i == Current(w) IN
           /\ mails' = IF o.arrives THEN [mails EXCEPT ![i] = @ + 1] ELSE mails
           /\ Sent(w, o.says, IF o.says = "sent" THEN mails[i] + 1 ELSE None)
           /\ uncertain' = IF o.arrives /\ o.says # "sent" THEN uncertain \union {i} ELSE uncertain
    BY <1>3 DEF Send
  <2>2. o.says = "sent" => o.arrives
    BY DEF Outcomes
  <2>3. /\ job'[w].at = "record" /\ job'[w].says = o.says
        /\ job'[w].current = job[w].current /\ job'[w].todo = job[w].todo
        /\ job'[w].copy = job[w].copy
        /\ \A v \in Worker \ {w} : job'[v] = job[v] /\ Handled(v)' = Handled(v)
    BY <1>2, <2>1
  <2>4. /\ \A i \in Id \ {job[w].current} : mails'[i] = mails[i]
        /\ o.arrives => mails'[job[w].current] = mails[job[w].current] + 1
        /\ ~o.arrives => mails' = mails
    BY <1>1, <2>1 DEF TypeOK, Current
  <2>5. o.arrives /\ o.says # "sent" => job[w].current \in uncertain'
    BY <2>1 DEF Current
  <2>6. uncertain \subseteq uncertain'
    BY <2>1
  <2> QED  BY <1>1, <1>3, <2>2, <2>3, <2>4, <2>5, <2>6 DEF Send
<1>4. CASE Skip(w)
  BY <1>1, <1>2, <1>4 DEF Skip
<1> QED
  BY <1>3, <1>4

LEMMA RecordStep ==
    ASSUME TypeOK, NEW w \in Worker, Record(w)
    PROVE  /\ job[w].at = "record" /\ job[w].current \in Id
           /\ \/ job[w].todo = {} /\ job'[w] = Idle
              \/ /\ job'[w].at = "load" /\ job'[w].current \in job[w].todo
                 /\ job'[w].todo = job[w].todo \ {job'[w].current}
           /\ \A v \in Worker \ {w} : job'[v] = job[v] /\ Handled(v)' = Handled(v)
           /\ mails' = mails /\ uncertain' = uncertain /\ overlapped' = overlapped
<1>1. job[w].at = "record" /\ job[w].current \in Id
  BY JobShape DEF Record, Mailing
<1>2. \E j : job' = [job EXCEPT ![w] = j]
  BY DEF Record
<1>3. \A v \in Worker \ {w} : job'[v] = job[v] /\ Handled(v)' = Handled(v)
  BY <1>2 DEF TypeOK, Handled
<1>4. \/ job[w].todo = {} /\ job'[w] = Idle
      \/ /\ job'[w].at = "load" /\ job'[w].current \in job[w].todo
         /\ job'[w].todo = job[w].todo \ {job'[w].current}
  <2>1. CASE job[w].todo = {} /\ job' = [job EXCEPT ![w] = Idle]
    BY <2>1 DEF TypeOK
  <2>2. ASSUME NEW i \in job[w].todo,
               job' = [job EXCEPT ![w] = [at |-> "load", current |-> i, todo |-> job[w].todo \ {i}]]
        PROVE  /\ job'[w].at = "load" /\ job'[w].current = i
               /\ job'[w].todo = job[w].todo \ {i}
    BY <2>2 DEF TypeOK
  <2> QED  BY <2>1, <2>2 DEF Record
<1> QED
  BY <1>1, <1>3, <1>4 DEF Record

LEMMA KillStep ==
    ASSUME TypeOK, (\E w \in Worker : Die(w)) \/ Restart
    PROVE  /\ \A v \in Worker : job'[v] = job[v] \/ job'[v] = Idle
           /\ \A v \in Worker : job'[v] # job[v] =>
                 /\ v \in Id => v \in dropped'
                 /\ job[v].at = "record" /\ job[v].says = "sent" => job[v].current \in uncertain'
           /\ dropped \subseteq dropped' /\ uncertain \subseteq uncertain'
           /\ row' = row /\ mails' = mails /\ overlapped' = overlapped
<1>1. ASSUME NEW ws \in SUBSET Worker, Kill(ws)
      PROVE  /\ \A v \in Worker : job'[v] = job[v] \/ job'[v] = Idle
             /\ \A v \in Worker : job'[v] # job[v] =>
                   /\ v \in Id => v \in dropped'
                   /\ job[v].at = "record" /\ job[v].says = "sent" => job[v].current \in uncertain'
             /\ dropped \subseteq dropped' /\ uncertain \subseteq uncertain'
  BY <1>1 DEF Kill, Unrecorded, Current
<1>2. {i \in Id : job[i] # Idle} \in SUBSET Worker
  BY DEF Worker
<1> QED
  BY <1>1, <1>2 DEF Die, Restart

(* What a worker knows stays true. *)
LEMMA KnowledgeNext == SafeInv /\ [Next]_vars => \A v \in Worker : WellInformed(v)'
<1> SUFFICES ASSUME SafeInv, [Next]_vars, NEW v \in Worker PROVE WellInformed(v)'
  OBVIOUS
<1>0. TypeOK /\ TypeOK' /\ WellInformed(v)
  BY NextType DEF SafeInv
<1>1. ASSUME job'[v] = job[v] PROVE WellInformed(v)'
  <2>1. Handled(v)' = Handled(v)
    BY <1>1 DEF Handled
  <2>2. \A i \in Id : AboutToRecord(v, i)' => mails'[i] > 0
    BY <1>0, <1>1, Monotone DEF AboutToRecord, WellInformed
  <2>3. job[v].at \in {"send", "record"} => job[v].current \in Id /\ row[job[v].current] # Absent
    BY <1>0, JobShape DEF Mailing, Absent, Row, Notify
  <2>4. job'[v].at \in {"send", "record"} =>
            (job'[v].copy.notify # "pending" => row'[job'[v].current].notify # "pending")
    BY <1>0, <1>1, <2>3, Monotone DEF WellInformed
  <2> QED  BY <1>0, <1>1, <2>1, <2>2, <2>4 DEF WellInformed
<1>2. ASSUME job'[v] = Idle PROVE WellInformed(v)'
  BY <1>2 DEF WellInformed, Idle, Handled, AboutToRecord, Mailing
<1>3. ASSUME NEW i \in Id, Create(i) PROVE WellInformed(v)'
  <2>1. CASE v = i
    BY <1>0, <1>3, <2>1 DEF Create, TypeOK, WellInformed, Handled, AboutToRecord, Mailing
  <2> QED  BY <1>0, <1>1, <1>3, <2>1 DEF Create, TypeOK
<1>4. ASSUME NEW i \in Id, Audit(i) PROVE WellInformed(v)'
  <2>1. CASE v = i
    BY <1>0, <1>4, <2>1 DEF Audit, TypeOK, WellInformed, Handled, AboutToRecord, Mailing
  <2> QED  BY <1>0, <1>1, <1>4, <2>1 DEF Audit, TypeOK
<1>5. ASSUME NEW i \in Id, NEW todo \in SUBSET Id, job' = [job EXCEPT ![v] = Loaded(i, todo)],
             i \notin todo, v \in Id => {i} \union todo \subseteq {v}, row' = row
      PROVE  WellInformed(v)'
  <2>1. /\ job'[v].at = "send" /\ job'[v].current = i /\ job'[v].todo = todo
        /\ job'[v].copy = row[i]
    BY <1>0, <1>5 DEF Loaded, TypeOK
  <2>2. Handled(v)' = {i} \union todo
    BY <2>1 DEF Handled, Mailing
  <2>3. \A k \in Id : ~AboutToRecord(v, k)'
    BY <2>1 DEF AboutToRecord
  <2>4. v \in Id => Handled(v)' \subseteq {v}
    BY <1>5, <2>2
  <2> QED  BY <1>5, <2>1, <2>3, <2>4 DEF WellInformed
<1>6. ASSUME NEW s \in Script, StartScript(s) PROVE WellInformed(v)'
  <2>1. PICK i \in Candidates : job' = [job EXCEPT ![s] = Loaded(i, Candidates \ {i})]
    BY <1>6 DEF StartScript
  <2>2. i \in Id /\ Candidates \ {i} \in SUBSET Id /\ s \notin Id /\ s \in Worker
    BY SupportAssumption DEF Candidates, Worker
  <2>3. CASE v = s
    BY <1>5, <1>6, <2>1, <2>2, <2>3 DEF StartScript
  <2> QED  BY <1>0, <1>1, <2>1, <2>2, <2>3, LoadStep
<1>7. ASSUME NEW w \in Worker, Load(w) PROVE WellInformed(v)'
  <2>1. /\ job[w].current \in Id /\ job[w].todo \in SUBSET Id /\ job[w].at = "load"
        /\ job' = [job EXCEPT ![w] = Loaded(job[w].current, job[w].todo)]
    BY <1>0, <1>7, JobShape DEF Load, Mailing
  <2>2. CASE v = w
    <3>1. Handled(w) = {job[w].current} \union job[w].todo /\ job[w].current \notin job[w].todo
      BY <1>0, <2>1, <2>2 DEF Handled, Mailing, WellInformed
    <3> QED  BY <1>0, <1>5, <1>7, <2>1, <2>2, <3>1 DEF WellInformed, Load
  <2> QED  BY <1>0, <1>1, <2>1, <2>2, LoadStep
<1>8. ASSUME NEW w \in Worker, Send(w) \/ Skip(w) PROVE WellInformed(v)'
  <2>1. CASE v = w
    <3>1. Handled(w)' = Handled(w)
      BY <1>0, <1>8, SendStep DEF Handled, Mailing
    <3>2. \A i \in Id : AboutToRecord(w, i)' => mails'[i] > 0
      BY <1>0, <1>8, SendStep, Monotone DEF AboutToRecord
    <3> QED  BY <1>0, <1>8, <2>1, <3>1, <3>2, SendStep DEF WellInformed, Mailing
  <2> QED  BY <1>0, <1>1, <1>8, <2>1, SendStep
<1>9. ASSUME NEW w \in Worker, Record(w) PROVE WellInformed(v)'
  <2>1. CASE v = w /\ job'[w].at = "load"
    <3>1. /\ job'[w].current \in job[w].todo
          /\ job'[w].todo = job[w].todo \ {job'[w].current}
          /\ job[w].at = "record"
      BY <1>0, <1>9, <2>1, RecordStep DEF Idle
    <3>2. Handled(w)' \subseteq Handled(w)
      BY <2>1, <3>1 DEF Handled, Mailing
    <3> QED  BY <1>0, <2>1, <3>1, <3>2 DEF WellInformed, AboutToRecord, Mailing
  <2> QED  BY <1>0, <1>1, <1>2, <1>9, <2>1, RecordStep
<1>10. CASE (\E w \in Worker : Die(w)) \/ Restart
  BY <1>0, <1>1, <1>2, <1>10, KillStep
<1>11. CASE UNCHANGED job
  BY <1>1, <1>11
<1> QED
  BY <1>3, <1>4, <1>6, <1>7, <1>8, <1>9, <1>10, <1>11 DEF Next, LoadChange, CommitChange, vars

(* Unrecorded or not, what counts as sent has arrived. *)
LEMMA SentNext == SafeInv /\ [Next]_vars => SentMeansArrived'
<1> SUFFICES ASSUME SafeInv, [Next]_vars, NEW i \in Id, row'[i].notify = "sent"
             PROVE  mails'[i] > 0
  BY DEF SentMeansArrived
<1>0. TypeOK /\ (row[i].notify = "sent" => mails[i] > 0)
  BY DEF SafeInv, SentMeansArrived
<1>1. CASE row[i].notify = "sent"
  BY <1>0, <1>1, Monotone
<1>2. ASSUME NEW k \in Id, row' = [row EXCEPT ![k] = NewRow] PROVE row[i].notify = "sent"
  BY <1>0, <1>2 DEF TypeOK, NewRow
<1>3. ASSUME NEW w \in Worker, Record(w),
             row' = [row EXCEPT ![job[w].current] = row'[job[w].current]]
      PROVE  mails'[i] > 0
  <2>1. CASE i = job[w].current /\ job[w].says = "sent"
    <3>1. AboutToRecord(w, i)
      BY <1>3, <2>1 DEF AboutToRecord, Record
    <3>2. mails[i] > 0
      BY <3>1 DEF SafeInv, WellInformed
    <3> QED  BY <3>2, Monotone
  <2>2. CASE i = job[w].current /\ job[w].says # "sent"
    BY <1>1, <1>3, <2>2, RecordNotify
  <2>3. CASE i # job[w].current
    BY <1>0, <1>1, <1>3, <2>3 DEF TypeOK
  <2> QED  BY <2>1, <2>2, <2>3
<1>4. ASSUME NEW e \in Employee, CommitChange(e) PROVE row[i].notify = "sent"
  BY <1>0, <1>4, CommitKeepsNotify
<1> QED
  BY <1>0, <1>1, <1>2, <1>3, <1>4, RowSteps

(* A request that still counts as pending has its own task at work, or that task has died. *)
LEMMA PendingNext == SafeInv /\ [Next]_vars => PendingIsInHand'
<1> SUFFICES ASSUME SafeInv, [Next]_vars, NEW i \in Id, row'[i].notify = "pending"
             PROVE  job'[i] # Idle \/ i \in dropped'
  BY DEF PendingIsInHand
<1>0. TypeOK /\ i \in Worker
  BY DEF SafeInv, Worker
<1>1. CASE Create(i)
  BY <1>0, <1>1 DEF Create, TypeOK, Idle
<1>2. ASSUME ~Create(i) PROVE row[i].notify = "pending" /\ row[i] # Absent
  <2>1. row[i] # Absent
    <3>1. CASE row' = row
      BY <3>1 DEF Absent
    <3>2. ASSUME NEW k \in Id, Create(k), row' = [row EXCEPT ![k] = NewRow] PROVE row[i] # Absent
      BY <1>0, <1>2, <3>2 DEF Absent, TypeOK
    <3>3. ASSUME NEW w \in Worker, Record(w),
                 row' = [row EXCEPT ![job[w].current] = row'[job[w].current]]
          PROVE  row[i] # Absent
      <4>1. row[job[w].current] # Absent
        BY <1>0, <3>3, RecordRow DEF Absent, Row, Notify
      <4> QED  BY <1>0, <3>3, <4>1 DEF Absent, TypeOK
    <3>4. ASSUME NEW e \in Employee, CommitChange(e) PROVE row[i] # Absent
      BY <1>0, <3>4, CommitKeepsNotify DEF Absent
    <3> QED  BY <3>1, <3>2, <3>3, <3>4, RowSteps
  <2> QED  BY <2>1, Monotone
<1>3. CASE row[i].notify = "pending" /\ row[i] # Absent
  <2>1. job[i] # Idle \/ i \in dropped
    BY <1>3 DEF SafeInv, PendingIsInHand
  <2>2. ASSUME dropped \subseteq dropped', job'[i] = job[i]
        PROVE  job'[i] # Idle \/ i \in dropped'
    BY <2>1, <2>2
  <2>3. ASSUME NEW k \in Id, Create(k) PROVE job'[i] # Idle \/ i \in dropped'
    BY <1>0, <2>2, <2>3 DEF Create, TypeOK, Idle
  <2>4. ASSUME NEW k \in Id, Audit(k) PROVE job'[i] # Idle \/ i \in dropped'
    BY <1>0, <2>2, <2>4 DEF Audit, TypeOK, Idle
  <2>5. ASSUME NEW w \in Worker, NEW k, NEW todo, job' = [job EXCEPT ![w] = Loaded(k, todo)],
               dropped' = dropped
        PROVE  job'[i] # Idle \/ i \in dropped'
    BY <1>0, <2>2, <2>5 DEF TypeOK, Loaded, Idle
  <2>6. ASSUME NEW s \in Script, StartScript(s) PROVE job'[i] # Idle \/ i \in dropped'
    <3>1. PICK k : job' = [job EXCEPT ![s] = Loaded(k, Candidates \ {k})]
      BY <2>6 DEF StartScript
    <3> QED  BY <2>5, <2>6, <3>1 DEF StartScript, Worker
  <2>7. ASSUME NEW w \in Worker, Load(w) PROVE job'[i] # Idle \/ i \in dropped'
    BY <2>5, <2>7 DEF Load
  <2>8. ASSUME NEW w \in Worker, Send(w) \/ Skip(w) PROVE job'[i] # Idle \/ i \in dropped'
    <3>1. job'[w] # Idle /\ dropped' = dropped
      BY <1>0, <2>8, SendStep DEF Idle, Send, Skip
    <3> QED  BY <1>0, <2>2, <2>8, <3>1, SendStep
  <2>9. ASSUME NEW w \in Worker, Record(w) PROVE job'[i] # Idle \/ i \in dropped'
    <3>1. w # i
      <4>1. ASSUME w = i PROVE job[w].current = i
        BY <1>0, <2>9, <4>1 DEF SafeInv, WellInformed, Handled, Mailing, Record
      <4> QED  BY <2>9, <4>1, RecordNotify
    <3> QED  BY <1>0, <2>2, <2>9, <3>1, RecordStep DEF Record
  <2>10. CASE (\E w \in Worker : Die(w)) \/ Restart
    BY <1>0, <2>2, <2>10, KillStep
  <2>11. CASE UNCHANGED <<job, dropped>>
    BY <2>2, <2>11
  <2> QED
    BY <2>3, <2>4, <2>6, <2>7, <2>8, <2>9, <2>10, <2>11 DEF Next, LoadChange, CommitChange, vars
<1> QED
  BY <1>1, <1>2, <1>3

LEMMA SafeCorrect == Spec => []SafeInv
<1>1. Init => SafeInv
  <2> SUFFICES ASSUME Init PROVE SafeInv
    OBVIOUS
  <2>1. TypeOK
    BY InitType
  <2>2. SentMeansArrived /\ PendingIsInHand
    BY DEF Init, SentMeansArrived, PendingIsInHand, Absent
  <2>3. \A w \in Worker : WellInformed(w)
    BY DEF Init, WellInformed, Handled, AboutToRecord, Idle, Mailing
  <2> QED  BY <2>1, <2>2, <2>3 DEF SafeInv
<1>2. SafeInv /\ [Next]_vars => SafeInv'
  BY NextType, KnowledgeNext, SentNext, PendingNext DEF SafeInv
<1> QED
  BY <1>1, <1>2, PTL DEF Spec

(* Whatever overlaps or dies, a request that counts as notified has reached headquarters. *)
THEOREM SentIsTrue == Spec => []SentMeansArrived
BY SafeCorrect, PTL DEF SafeInv

(* No notification is forgotten: a request that still counts as pending has its own task *)
(* at work, or that task has died.                                                        *)
THEOREM NoneIsForgotten == Spec => []PendingIsInHand
BY SafeCorrect, PTL DEF SafeInv

(* Mailing and working on a request do not undo each other, whatever was loaded when. *)
THEOREM Independent == Spec => WorkAndMailAreIndependent
<1>1. ASSUME SafeInv, [Next]_vars
      PROVE  /\ \A w \in Worker : Record(w) => \A i \in Id : row'[i].status = row[i].status
             /\ \A e \in Employee : CommitChange(e) => \A i \in Id :
                   row'[i].notify = row[i].notify /\ row'[i].notified = row[i].notified
  <2>0. TypeOK
    BY <1>1 DEF SafeInv
  <2>1. ASSUME NEW w \in Worker, NEW i \in Id, Record(w) PROVE row'[i].status = row[i].status
    BY <2>0, <2>1, RecordRow DEF TypeOK
  <2>2. ASSUME NEW e \in Employee, NEW i \in Id, CommitChange(e)
        PROVE  row'[i].notify = row[i].notify /\ row'[i].notified = row[i].notified
    BY <2>0, <2>2, CommitKeepsNotify
  <2> QED  BY <2>1, <2>2
<1> QED
  BY <1>1, SafeCorrect, PTL DEF Spec, WorkAndMailAreIndependent

-----------------------------------------------------------------------------
(* As long as runs of the script do not overlap. *)

(* A worker that handles a request is at work, and it alone. *)
LEMMA OneOwner ==
    ASSUME SafeInv, OwnerInv, NEW v \in Worker, NEW w \in Worker,
           NEW i \in Handled(v), i \in Handled(w)
    PROVE  v = w
<1>1. ASSUME NEW u \in Worker, i \in Handled(u)
      PROVE  job[u] # Idle /\ (u \in Id => u = i /\ row[i].notify = "pending")
  <2>1. job[u] # Idle
    BY <1>1 DEF Handled, Idle, Mailing
  <2>2. u \in Id => u = i
    BY <1>1 DEF SafeInv, WellInformed
  <2> QED  BY <2>1, <2>2 DEF OwnerInv
<1>2. \A u \in Script : i \in Handled(u) => row[i].notify # "pending"
  BY DEF OwnerInv, RETRY_STATUSES
<1> QED
  BY <1>1, <1>2 DEF Worker, OwnerInv

(* What somebody handles is not sent yet. *)
LEMMA HandledUnsent ==
    ASSUME SafeInv, OwnerInv, NEW w \in Worker, NEW i \in Handled(w)
    PROVE  row[i].notify # "sent"
<1>1. job[w] # Idle
  BY DEF Handled, Idle, Mailing
<1>2. w \in Id => i = w
  BY DEF SafeInv, WellInformed
<1> QED
  BY <1>1, <1>2 DEF OwnerInv, Worker, RETRY_STATUSES

LEMMA CurrentHandled ==
    ASSUME NEW w \in Worker, job[w].at \in Mailing
    PROVE  job[w].current \in Handled(w)
BY DEF Handled, Mailing

(* The rows that somebody else handles are left alone by who records. *)
LEMMA RecordOwn ==
    ASSUME SafeInv, OwnerInv, NEW w \in Worker, Record(w),
           NEW v \in Worker, v # w, NEW i \in Handled(v)
    PROVE  row'[i] = row[i]
<1>1. job[w].current \in Handled(w)
  BY CurrentHandled DEF Record, Mailing
<1>2. i # job[w].current
  BY <1>1, OneOwner
<1>3. i \in Id
  BY DEF SafeInv, TypeOK
<1> QED
  BY <1>2, <1>3, RecordRow DEF SafeInv, TypeOK

(* No step but a record changes how a request in somebody's hands was notified. *)
LEMMA NotifyKept ==
    ASSUME SafeInv, OwnerInv, [Next]_vars, NEW v \in Worker, NEW i \in Handled(v), ~Record(v)
    PROVE  row'[i].notify = row[i].notify
<1>0. TypeOK /\ i \in Id /\ row[i] # Absent
  BY DEF SafeInv, TypeOK
<1>1. ASSUME NEW k \in Id, row[k] = Absent, row' = [row EXCEPT ![k] = NewRow]
      PROVE  row'[i].notify = row[i].notify
  BY <1>0, <1>1 DEF TypeOK
<1>2. ASSUME NEW w \in Worker, Record(w) PROVE row'[i].notify = row[i].notify
  BY <1>2, RecordOwn
<1>3. ASSUME NEW e \in Employee, CommitChange(e) PROVE row'[i].notify = row[i].notify
  BY <1>0, <1>3, CommitKeepsNotify
<1> QED
  BY <1>1, <1>2, <1>3, RowSteps

(* Which jobs a step changes, and what a changed job then is. *)
LEMMA JobSteps ==
    ASSUME SafeInv, [Next]_vars, NEW v \in Worker, job'[v] # job[v]
    PROVE  \/ v \in Id /\ Create(v)
           \/ v \in Id /\ Audit(v)
           \/ v \in Script /\ StartScript(v)
           \/ Load(v) \/ Send(v) \/ Skip(v) \/ Record(v)
           \/ job'[v] = Idle /\ ((\E w \in Worker : Die(w)) \/ Restart)
<1>0. TypeOK
  BY DEF SafeInv
<1>1. ASSUME NEW i \in Id, Create(i) \/ Audit(i) PROVE v = i
  BY <1>0, <1>1 DEF Create, Audit, TypeOK
<1>2. ASSUME NEW s \in Script, StartScript(s) PROVE v = s
  BY <1>0, <1>2 DEF StartScript, TypeOK
<1>3. ASSUME NEW w \in Worker, Load(w) PROVE v = w
  BY <1>0, <1>3 DEF Load, TypeOK
<1>4. ASSUME NEW w \in Worker, Send(w) \/ Skip(w) PROVE v = w
  BY <1>0, <1>4, SendStep
<1>5. ASSUME NEW w \in Worker, Record(w) PROVE v = w
  BY <1>0, <1>5, RecordStep
<1>6. ASSUME (\E w \in Worker : Die(w)) \/ Restart PROVE job'[v] = Idle
  BY <1>0, <1>6, KillStep
<1>7. ~UNCHANGED job
  OBVIOUS
<1> QED
  BY <1>1, <1>2, <1>3, <1>4, <1>5, <1>6, <1>7 DEF Next, LoadChange, CommitChange, vars

(* Only a new task and a starting script take on requests. *)
LEMMA HandledShrinks ==
    ASSUME SafeInv, [Next]_vars, NEW v \in Worker
    PROVE  \/ v \in Id /\ Create(v)
           \/ v \in Script /\ StartScript(v)
           \/ Handled(v)' \subseteq Handled(v) /\ (job'[v] # Idle => job[v] # Idle)
<1>0. TypeOK /\ WellInformed(v)
  BY DEF SafeInv
<1>1. CASE job'[v] = job[v]
  BY <1>1 DEF Handled
<1>2. CASE v \in Id /\ Audit(v)
  BY <1>0, <1>2 DEF Audit, TypeOK, Handled, Mailing, Idle
<1>3. CASE Load(v)
  <2>1. Handled(v)' = {job[v].current} \union job[v].todo
    <3> DEFINE i == job[v].current
               todo == job[v].todo
    <3>1. job' = [job EXCEPT ![v] = Loaded(i, todo)]
      BY <1>3 DEF Load
    <3> HIDE DEF i, todo
    <3>2. job'[v].at = "send" /\ job'[v].current = i /\ job'[v].todo = todo
      BY <1>0, <3>1 DEF Loaded, TypeOK
    <3>3. Handled(v)' = {i} \union todo
      BY <3>2 DEF Handled, Mailing
    <3> QED
      BY <3>3 DEF i, todo
  <2> QED  BY <1>3, <2>1 DEF Load, Handled, Mailing, Idle
<1>4. CASE Send(v) \/ Skip(v)
  BY <1>0, <1>4, SendStep DEF Handled, Mailing, Idle
<1>5. CASE Record(v)
  <2>1. job[v].at = "record" /\ job[v] # Idle
    BY <1>0, <1>5, JobShape DEF Record, Mailing
  <2>2. Handled(v) = {job[v].current} \union job[v].todo
    BY <2>1 DEF Handled, Mailing
  <2>3. CASE job'[v] = Idle
    BY <2>1, <2>3 DEF Handled, Idle, Mailing
  <2>4. CASE job'[v].at = "load" /\ job'[v].current \in job[v].todo
             /\ job'[v].todo = job[v].todo \ {job'[v].current}
    BY <2>1, <2>2, <2>4 DEF Handled, Mailing
  <2> QED  BY <1>0, <1>5, <2>3, <2>4, RecordStep
<1>6. CASE job'[v] = Idle
  BY <1>6 DEF Handled, Idle, Mailing
<1> QED
  BY <1>1, <1>2, <1>3, <1>4, <1>5, <1>6, JobSteps

LEMMA OwnerNext ==
    ASSUME SafeInv, OwnerInv, [Next]_vars, ~overlapped'
    PROVE  OwnerInv'
<1>0. TypeOK /\ TypeOK'
  BY NextType DEF SafeInv
<1>1. ASSUME NEW s \in Script, NEW t \in Script, job'[s] # Idle, job'[t] # Idle PROVE s = t
  <2>1. ASSUME NEW u \in Script, StartScript(u)
        PROVE  \A r \in Script \ {u} : job'[r] = Idle
    BY <1>0, <2>1 DEF StartScript, TypeOK, Worker
  <2>2. CASE StartScript(s) \/ StartScript(t)
    BY <1>1, <2>1, <2>2
  <2>3. CASE ~StartScript(s) /\ ~StartScript(t)
    <3>1. s \notin Id /\ t \notin Id /\ s \in Worker /\ t \in Worker
      BY SupportAssumption DEF Worker
    <3>2. job[s] # Idle /\ job[t] # Idle
      BY <1>1, <2>3, <3>1, HandledShrinks
    <3> QED  BY <3>2 DEF OwnerInv
  <2> QED  BY <2>2, <2>3
<1>2. ASSUME NEW i \in Id, job'[i] # Idle PROVE row'[i].notify = "pending"
  <2>1. CASE Create(i)
    BY <1>0, <2>1 DEF Create, TypeOK, NewRow
  <2>2. CASE ~Create(i)
    <3>1. i \in Worker /\ i \notin Script
      BY SupportAssumption DEF Worker
    <3>2. job[i] # Idle
      BY <1>2, <2>2, <3>1, HandledShrinks
    <3>3. i \in Handled(i)
      <4>1. job[i].at \in {"audit"} \union Mailing
        BY <1>0, <3>1, <3>2 DEF TypeOK, Job, Mailing
      <4>2. job[i].at \in Mailing => job[i].current \in Handled(i)
        BY <3>1, CurrentHandled
      <4>3. Handled(i) \subseteq {i}
        BY <3>1 DEF SafeInv, WellInformed
      <4> QED  BY <4>1, <4>2, <4>3 DEF Handled
    <3>4. ~Record(i)
      <4>1. ASSUME Record(i) PROVE FALSE
        <5>1. job[i].at = "record" /\ job[i].todo # {}
          BY <1>0, <1>2, <3>1, <4>1, RecordStep
        <5>2. job[i].todo \subseteq {i} /\ job[i].current = i /\ i \notin job[i].todo
          BY <3>1, <5>1 DEF SafeInv, WellInformed, Handled, Mailing
        <5> QED  BY <5>1, <5>2
      <4> QED  BY <4>1
    <3> QED  BY <3>1, <3>2, <3>3, <3>4, NotifyKept DEF OwnerInv
  <2> QED  BY <2>1, <2>2
<1>3. ASSUME NEW s \in Script, NEW i \in Handled(s)' PROVE row'[i].notify \in RETRY_STATUSES
  <2>0. s \in Worker /\ s \notin Id
    BY SupportAssumption DEF Worker
  <2>1. CASE StartScript(s)
    <3>1. PICK k \in Candidates : job' = [job EXCEPT ![s] = Loaded(k, Candidates \ {k})]
      BY <2>1 DEF StartScript
    <3>2. Handled(s)' = {k} \union (Candidates \ {k})
      <4>1. /\ job'[s].at = "send" /\ job'[s].current = k
            /\ job'[s].todo = Candidates \ {k}
        BY <1>0, <2>0, <3>1 DEF Loaded, TypeOK
      <4> QED  BY <4>1 DEF Handled, Mailing
    <3>3. i \in Candidates
      BY <1>3, <3>2
    <3> QED  BY <2>1, <3>3 DEF Candidates, StartScript
  <2>2. CASE ~StartScript(s)
    <3>1. i \in Handled(s)
      BY <1>3, <2>0, <2>2, HandledShrinks
    <3>2. i \in Id /\ row[i].notify \in RETRY_STATUSES
      BY <1>0, <2>0, <3>1 DEF OwnerInv, TypeOK
    <3>3. CASE Record(s)
      <4>1. i # job[s].current
        <5>1. job[s].at = "record" /\ job[s].current \notin job[s].todo
          BY <2>0, <3>3 DEF SafeInv, WellInformed, Record, Mailing
        <5>2. CASE job'[s] = Idle
          BY <1>3, <5>2 DEF Handled, Idle, Mailing
        <5>3. CASE job'[s].at = "load" /\ job'[s].current \in job[s].todo
                   /\ job'[s].todo = job[s].todo \ {job'[s].current}
          BY <1>3, <5>1, <5>3 DEF Handled, Mailing
        <5> QED  BY <1>0, <2>0, <3>3, <5>2, <5>3, RecordStep
      <4>2. row'[i] = row[i]
        BY <1>0, <2>0, <3>2, <3>3, <4>1, RecordRow DEF TypeOK
      <4> QED  BY <3>2, <4>2
    <3> QED  BY <2>0, <3>1, <3>2, <3>3, NotifyKept
  <2> QED  BY <2>1, <2>2
<1>4. ASSUME NEW w \in Worker, job'[w].at \in {"send", "record"}
      PROVE  job'[w].copy.notify = row'[job'[w].current].notify
  <2>1. ASSUME NEW i, NEW todo, job' = [job EXCEPT ![w] = Loaded(i, todo)], row' = row
        PROVE  job'[w].copy.notify = row'[job'[w].current].notify
    BY <1>0, <2>1 DEF Loaded, TypeOK
  <2>2. CASE w \in Script /\ StartScript(w)
    <3>1. PICK i : job' = [job EXCEPT ![w] = Loaded(i, Candidates \ {i})]
      BY <2>2 DEF StartScript
    <3> QED  BY <2>1, <2>2, <3>1 DEF StartScript
  <2>3. CASE Load(w)
    BY <2>1, <2>3 DEF Load
  <2>4. ASSUME job[w].at \in {"send", "record"}, job'[w].copy = job[w].copy,
               job'[w].current = job[w].current, ~Record(w)
        PROVE  job'[w].copy.notify = row'[job'[w].current].notify
    BY <2>4, CurrentHandled, NotifyKept DEF OwnerInv, Mailing
  <2>5. ~Record(w)
    BY <1>0, <1>4, RecordStep DEF Idle
  <2>6. CASE job'[w] = job[w]
    BY <1>4, <2>4, <2>5, <2>6
  <2>7. CASE Send(w) \/ Skip(w)
    BY <1>0, <2>4, <2>5, <2>7, SendStep
  <2>8. CASE w \in Id /\ (Create(w) \/ Audit(w))
    BY <1>0, <1>4, <2>8 DEF Create, Audit, TypeOK
  <2> QED
    BY <1>4, <2>2, <2>3, <2>5, <2>6, <2>7, <2>8, JobSteps DEF Idle
<1> QED
  BY <1>1, <1>2, <1>3, <1>4 DEF OwnerInv

LEMMA MailNext ==
    ASSUME SafeInv, OwnerInv, MailInv, [Next]_vars
    PROVE  MailInv'
<1> SUFFICES ASSUME NEW i \in Id, i \notin uncertain', mails'[i] > 0
             PROVE  /\ mails'[i] = 1
                    /\ row'[i].notify = "sent" \/ \E w \in Worker : AboutToRecord(w, i)'
  BY DEF MailInv
<1>0. TypeOK /\ mails[i] \in Nat
  BY Monotone DEF SafeInv
<1>1. uncertain \subseteq uncertain'
  <2>1. ASSUME NEW w \in Worker, Send(w) \/ Skip(w) PROVE uncertain \subseteq uncertain'
    BY <1>0, <2>1, SendStep
  <2>2. CASE (\E w \in Worker : Die(w)) \/ Restart
    BY <1>0, <2>2, KillStep
  <2> QED
    BY <2>1, <2>2 DEF Next, Create, Audit, StartScript, Load, Record, LoadChange, CommitChange, vars
<1>2. ASSUME NEW w \in Worker, AboutToRecord(w, i) PROVE i \in Handled(w)
  BY <1>2, CurrentHandled DEF AboutToRecord, Mailing
<1>3. CASE mails[i] > 0
  <2>1. mails[i] = 1 /\ (row[i].notify = "sent" \/ \E w \in Worker : AboutToRecord(w, i))
    BY <1>1, <1>3 DEF MailInv
  <2>2. mails'[i] = mails[i]
    <3>1. ASSUME NEW w \in Worker, Send(w), job[w].current = i PROVE FALSE
      <4>1. job[w].at = "send" /\ i \in Handled(w)
        BY <3>1, CurrentHandled DEF Send, Mailing
      <4>2. PICK v \in Worker : AboutToRecord(v, i)
        BY <2>1, <4>1, HandledUnsent
      <4>3. v = w
        BY <1>2, <4>1, <4>2, OneOwner
      <4> QED  BY <4>1, <4>2, <4>3 DEF AboutToRecord
    <3>2. mails' = mails \/ \E w \in Worker : Send(w)
      BY DEF Next, Create, Audit, StartScript, Load, Skip, Record, Die, LoadChange, CommitChange,
             Restart, vars
    <3> QED  BY <1>0, <3>1, <3>2, SendStep
  <2>3. CASE row[i].notify = "sent"
    <3>1. row[i] # Absent
      BY <2>3 DEF Absent
    <3>2. ASSUME NEW k \in Id, row[k] = Absent, row' = [row EXCEPT ![k] = NewRow]
          PROVE  row'[i].notify = "sent"
      BY <1>0, <2>3, <3>1, <3>2 DEF TypeOK
    <3>3. ASSUME NEW w \in Worker, Record(w) PROVE row'[i].notify = "sent"
      <4>1. i # job[w].current
        BY <2>3, <3>3, CurrentHandled, HandledUnsent DEF Record, Mailing
      <4> QED  BY <1>0, <2>3, <3>3, <4>1, RecordRow DEF TypeOK
    <3>4. ASSUME NEW e \in Employee, CommitChange(e) PROVE row'[i].notify = "sent"
      BY <1>0, <2>3, <3>4, CommitKeepsNotify
    <3>5. row'[i].notify = "sent"
      BY <2>3, <3>2, <3>3, <3>4, RowSteps
    <3> QED  BY <2>1, <2>2, <3>5
  <2>4. ASSUME NEW w \in Worker, AboutToRecord(w, i)
        PROVE  row'[i].notify = "sent" \/ \E v \in Worker : AboutToRecord(v, i)'
    <3>1. CASE job'[w] = job[w]
      BY <2>4, <3>1 DEF AboutToRecord
    <3>2. CASE Record(w)
      <4>1. job[w].copy.notify = row[i].notify
        BY <2>4 DEF AboutToRecord, OwnerInv
      <4> QED  BY <1>0, <2>4, <3>2, <4>1, RecordRow DEF AboutToRecord
    <3>3. CASE (\E v \in Worker : Die(v)) \/ Restart
      BY <1>0, <2>4, <3>1, <3>3, KillStep DEF AboutToRecord
    <3>4. ~(Load(w) \/ Send(w) \/ Skip(w)) /\ ~(w \in Script /\ StartScript(w))
      BY <2>4 DEF AboutToRecord, Load, Send, Skip, StartScript, Idle
    <3>5. ~(w \in Id /\ (Create(w) \/ Audit(w)))
      <4>1. row[i] # Absent /\ (w \in Id => w = i)
        BY <1>0, <1>2, <2>4 DEF TypeOK, SafeInv, WellInformed
      <4> QED  BY <2>4, <4>1 DEF AboutToRecord, Create, Audit, Oldest
    <3> QED  BY <3>1, <3>2, <3>3, <3>4, <3>5, JobSteps
  <2> QED  BY <2>1, <2>2, <2>3, <2>4
<1>4. CASE mails[i] = 0
  <2>1. PICK w \in Worker : Send(w) /\ job[w].current = i
    <3>1. mails' = mails \/ \E w \in Worker : Send(w)
      BY DEF Next, Create, Audit, StartScript, Load, Skip, Record, Die, LoadChange, CommitChange,
             Restart, vars
    <3> QED  BY <1>0, <1>4, <3>1, SendStep
  <2>2. job'[w].says = "sent"
    BY <1>0, <1>4, <2>1, SendStep
  <2>3. mails'[i] = 1 /\ AboutToRecord(w, i)'
    BY <1>0, <1>4, <2>1, <2>2, SendStep DEF AboutToRecord
  <2> QED  BY <2>3
<1> QED
  BY <1>0, <1>3, <1>4

LEMMA IInvCorrect == Spec => []IInv
<1>1. Init /\ SafeInv => IInv
  <2> SUFFICES ASSUME Init, SafeInv PROVE OwnerInv /\ MailInv
    BY DEF IInv
  <2>1. \A w \in Worker : job[w] = Idle /\ Handled(w) = {}
    BY DEF Init, Handled, Idle, Mailing
  <2>2. OwnerInv
    BY <2>1 DEF OwnerInv, Worker, Idle
  <2>3. MailInv
    BY DEF Init, MailInv
  <2> QED  BY <2>2, <2>3
<1>2. IInv /\ SafeInv' /\ [Next]_vars => IInv'
  <2>1. overlapped => overlapped' \/ ~[Next]_vars
    BY DEF Next, Create, Audit, StartScript, Load, Send, Skip, Record, Die, LoadChange,
           CommitChange, Restart, vars
  <2> QED  BY <2>1, OwnerNext, MailNext DEF IInv
<1> QED
  BY <1>1, <1>2, SafeCorrect, PTL DEF Spec

(* Unless runs of the script overlap, a request is mailed once, except after an attempt *)
(* that nobody recorded as sent although its mail arrived.                              *)
THEOREM MailedOnce == Spec => []OneMailPerRequest
<1>1. IInv => OneMailPerRequest
  <2> SUFFICES ASSUME IInv, ~overlapped, NEW i \in Id \ uncertain PROVE mails[i] <= 1
    BY DEF OneMailPerRequest
  <2>1. mails[i] \in Nat
    BY SupportAssumption DEF IInv, SafeInv, TypeOK
  <2> QED  BY <2>1 DEF IInv, MailInv
<1> QED
  BY <1>1, IInvCorrect, PTL

(* As long as runs of the script do not overlap, what is recorded as sent stays so. *)
THEOREM SentStays == Spec => SentIsFinal
<1>1. ASSUME IInv, [Next]_vars, ~overlapped, NEW i \in Id, row[i].notify = "sent"
      PROVE  row'[i].notify = "sent" /\ row'[i].notified = row[i].notified
  <2>0. TypeOK /\ SafeInv /\ OwnerInv /\ row[i] # Absent
    BY <1>1 DEF IInv, SafeInv, Absent
  <2>1. ASSUME NEW k \in Id, row[k] = Absent, row' = [row EXCEPT ![k] = NewRow] PROVE row'[i] = row[i]
    BY <2>0, <2>1 DEF TypeOK
  <2>2. ASSUME NEW w \in Worker, Record(w) PROVE row'[i] = row[i]
    <3>1. i # job[w].current
      BY <1>1, <2>0, <2>2, CurrentHandled, HandledUnsent DEF Record, Mailing
    <3> QED  BY <2>0, <2>2, <3>1, RecordRow DEF TypeOK
  <2>3. ASSUME NEW e \in Employee, CommitChange(e)
        PROVE  row'[i].notify = "sent" /\ row'[i].notified = row[i].notified
    BY <1>1, <2>0, <2>3, CommitKeepsNotify
  <2> QED  BY <1>1, <2>0, <2>1, <2>2, <2>3, RowSteps
<1>2. ASSUME IInv, [Next]_vars
      PROVE  ~overlapped => \A i \in Id :
                row[i].notify = "sent" => row'[i].notify = "sent" /\ row'[i].notified = row[i].notified
  BY <1>1, <1>2
<1> QED
  BY <1>2, IInvCorrect, PTL DEF Spec, SentIsFinal
=============================================================================
