# TLA+ models of the AI governance operating system

A FastAPI application on PostgreSQL in which organizations (tenants) keep a register of
their AI systems, risks, approvals and documents, run AI workflows, and are served by an
operator organization ("headquarters", HQ, tenant 0). The models here cover the parts whose
correctness depends on the order in which statements of concurrent requests, crashes and
retries happen, and the algorithms around the language model: what is taken out of a text
before it is sent, and what is shown of a reply. File names below are relative to `app/` of
the repository unless they say otherwise.

All models of requests share one picture of the database. Requests run as threads or
processes with a SQLAlchemy session each, on PostgreSQL in READ COMMITTED mode:

* one action is one SQL statement (or a group of statements nobody can tell apart) and any
  other request may run in between;
* a SELECT sees what is committed when it runs, plus the transaction's own rows;
* a row loaded twice in one session is ONE Python object: the second query returns it with
  the attributes of the first load unless the code refreshes it;
* a COMMIT writes only the attributes that differ from the loaded ones;
* a unique constraint makes an INSERT wait for an open transaction with the same value and
  fails it once that value is committed; id sequences are not transactional.

## Inventory

| Component | State | Operations | What makes it hard | Correct when |
|---|---|---|---|---|
| Audit chain (`core/audit.py`, `api/audit.py`, `models/audit_log.py`) | `audit_logs`: per organization a hash chain opened by a marker row, legacy rows before it | `create_audit_log`, `GET /audit/verify`, signed export | concurrent writers, several statements under one row lock, crashes, ids with gaps, legacy rows | untouched trails verify, damage that signatures and links can show is reported for ever, rows are only appended |
| Operator audit (`core/ops_audit.py`) | two chains: HQ's and the customer's | `log_ops_action` | two transactions, one per line, after the handler's own commit | the customer never sees a line HQ lacks |
| Second factor (`core/mfa.py`, `api/mfa.py`, `scripts/mfa_reset.py`) | six columns of `users` | setup, enable, disable, login code step, reset | stale attributes under a row lock, clock tolerance, lock-out, re-enrolment | a code works once, guesses are limited, MFA that is on can be passed |
| Password login and tokens (`api/auth.py`, `core/security.py`, `api/dependencies.py`) | failure counter and lock of `users`, signed tokens | login, change password, authentication of every request | a counter that is read, incremented and written without a lock, tokens that outlive what they claim | guesses are limited by a known number |
| User administration (`api/users.py`) | `users` of a tenant | create, deactivate, reset password | rights judged on what was loaded, two administrators at once | a tenant keeps an administrator |
| Production gate (`api/governance.py`, `core/deployment_service.py`) | `ai_systems`, `ai_risks`, corrective actions, approvals, governance config | deploy, PATCH governance, archive, readiness check, approve, configure | three implementations of one rule, a chain of SELECTs without a lock, days passing | four eyes on deployment, where the gates and the readiness check agree, archived systems stay so |
| Governance records (`api/governance.py`) | risks, incidents, corrective actions, evidence, policies, two scores | create, update, delete, list, score | records that hang on two others, a tenant derived through links, a role rule judged on loaded rows, an audit line committed after the record | the role rule on high risks holds, scores change only with a commit that owes the tenant's own trail a line, what is shown can be changed |
| Tenant provisioning (`services/provisioning.py`) | organization, administrator, modules, governance records, demo document, request row, one file | `provision_tenant` from the API and a script | one transaction with a file outside it, idempotency key, lost COMMIT answers | a tenant is whole or absent, once per key, callers are told the truth |
| Ops accounts (`services/ops_accounts.py`, `api/ops_accounts.py`) | accounts with a status and at most one organization | create, update, link organization, change status | check then act without a lock | a tenant has one account and keeps it |
| Onboarding (`services/onboarding.py`, `api/ops_onboarding.py`, `api/onboarding.py`) | projects and tasks with statuses and time stamps | create from template, PATCH project and task, customer PATCH, metrics | check then act on "one open project per account", time stamps that always differ | one open project, stamps say what statuses say |
| Workflow runner (`workflows/services/runner.py`, `api/workflows.py`) | `workflow_runs`, the connection pool, the anonymiser's engine | run, delete, list | a second session while the request holds a connection, failures between a row, its audit line and the answer, one-time start of the engine | the caller is told what row and trail say, unless the process dies or an answer to COMMIT is lost in between; nobody waits for ever |
| Workflow implementations (`workflows/implementations`) | none | build the message, mask, call, parse, put back, fall back | ten workflows, each with fields of its own to mask and to put back, every way a reply can be malformed | what is detected is masked, but for what a better detection leaves over of it, what was masked comes back, an answer is fit to show |
| PII anonymizer (`core/pii_anonymizer.py`) | a mapping of placeholders, the engine | anonymize, restore | two language models with overlapping finds, numbering per type while two types share a placeholder | only what is outdone is left in part, restore undoes anonymize |
| Support (`services/support_requests.py`, `services/support_mail.py`, `api/support_requests.py`, `api/ops_support.py`, `scripts/resend_support_notifications.py`) | requests, notification status | submit, notify, resend, work off | mail outside the transaction, retries | a notification is sent at least once, once if the script runs alone |
| Tenant modules (`services/tenant_modules.py`, `services/module_access.py`, `api/ops.py`, `scripts/seed_modules.py`) | tier and module rows of an organization | replace, seed at a deploy | read, compute and write the difference without a lock | the rows obey the tier |
| Documents (`api/documents.py`, `services/document_storage.py`) | rows and files | upload, delete, download | a file outside the transaction | - |
| Rate limiter (`core/rate_limiter.py`) | windows in memory or Redis | check | expiry set in a second call | - |
| Microsoft integration, outbound engine, application shell, unused helpers, scripts, reports and front end | see "Not modelled" | | | |

Interactions: every state-changing handler commits its own change and then calls
`create_audit_log` or `log_ops_action`, which commit on their own. The gate reads what the
governance endpoints write. Provisioning and onboarding hang on organizations and accounts.
Authentication loads the user whose attributes the MFA handlers later decide on. A workflow
request runs `WorkflowAnswers` where `WorkflowRuns` says "model". The hazards this leads to
are listed with their lines in PROJECT.json.

## Modules

| Module | Models | State and actions |
|---|---|---|
| `AuditLedger` | abstract: an append-only log per organization | one action, Append |
| `AuditChain` | `core/audit.py`, `core/ops_audit.py`, `api/audit.py` | `table` is audit_logs, `pending` the open transaction, `orgLock` the `FOR UPDATE` lock of the organization; one action per statement: Work (the handler's own commit), LockOrg, CheckMarker, InsertMarker, ReadLast, InsertLine, Commit, and Abort for every exception and crash; `Valid` is the verification |
| `AuditTamper` | raw SQL on audit_logs while writers go on | extends `AuditChain` with Alter and Delete of any row; `tampered` remembers the row that was touched and what took its place; `Shows` is the damage verification can see |
| `MfaLogin` | `core/mfa.py`, `api/mfa.py`, `scripts/mfa_reset.py` | `user` is the committed row, `copy` the attributes a session has loaded; Load, Lock, then Refuse, WrongCode or RightCode; Setup and Reset without the lock; Abort; Tick is one 30-second step |
| `Access` | `api/auth.py`, `api/users.py`, `api/dependencies.py`, `core/security.py` | `user` holds the columns of the password step, `tokens` what has been issued and has not expired, `visit` what a request loaded and is about to commit; Login, ChangePassword, Right- and WrongPassword, CreateUser, DeactivateUser, ResetPassword with their commits, Tick, TokenExpires. The second factor is `MfaLogin`; here it is a claim of the token |
| `ProductionGate` | `api/governance.py`, `core/deployment_service.py` | `job` holds what a handler has loaded and which checks it has left, the one that needs no SELECT first (role, and stage at deploy); Start*, Select, Refuse, then Deploy, Promote, Patch or Archive; the handlers that change what a gate reads are one action each |
| `GovernanceRecords` | `api/governance.py`, the look-ups of `api/dependencies.py` | a record per table, `handling` what a request looked up and is about to write, `owed` the audit line it still has to commit for a record it has committed, `line` the audit line of the last step with its organization; a create, an update (look up, then save) and a delete per record, WritesLine for the second commit, and Fails before or between the two; the systems the records hang on change from outside, as `ProductionGate` has them |
| `TenantRegistry` | abstract: tenants appear whole, once | one action, Provision |
| `Provisioning` | `services/provisioning.py`, its endpoint and script | `pending` is the open transaction, `files` and `torn` the disk (whole files and parts of one), `answer` what the caller was told; one action per step of `_STEPS` (the inserts share one), the SELECTs before, Commit, Conflict and SecondLook for the IntegrityError path, Respond for what follows the commit (it may end in an error), Raise, RaiseAtCommit and Crash for failures |
| `Onboarding` | `services/onboarding.py`, `services/ops_accounts.py`, `api/ops_accounts.py`, `api/ops_onboarding.py`, `api/onboarding.py` | `account`, `project`, `task` are the rows; `editing` is what a request has decided on the rows it loaded: the attributes its commit will write, which are those that differ; a deciding and a saving action per handler, a look-up in between where the handler makes one |
| `TenantModules` | `services/tenant_modules.py`, `services/module_access.py`, `api/ops.py`, `scripts/seed_modules.py` | `tier` and `module` are the rows of one tenant; PutModules loads the tenant, ReadRows the rows, CommitPut writes the difference or PutFails; Seed, LookForKey and CommitSeed are the script |
| `SupportMail` | `services/support_requests.py`, `services/support_mail.py`, `api/support_requests.py`, `api/ops_support.py`, `scripts/resend_support_notifications.py` | `row` is support_requests, `job` what the background task of each request and each run of the script is doing (with the row as it loaded it), `change` the status change headquarters is about to commit; Create, Audit, StartScript, Load, Send or Skip, Record, LoadChange, CommitChange, and Die and Restart for failures |
| `WorkflowRuns` | `workflows/services/runner.py`, `workflows/routers`, `api/workflows.py`, `db/session.py`, `_get_engines` of `core/pii_anonymizer.py` | `holds` are the requests with a pooled connection, `row` and `lines` what is stored of a run and in the trail, `engine` and `builder` the one-time start under its lock; every statement that takes the second connection, each way a commit fails or its answer is lost (`lost`), the answer as a step of its own, GiveUp after 30 seconds, Crash |
| `PiiAnonymizer` | `core/pii_anonymizer.py` | no state: operators on texts as sequences of tokens. `Analyzed` puts the detections of both language models one after the other, `Resolved` chooses among overlapping detections, `Masked` numbers and replaces, `Mapping` and `Restored` put back; `IsValidBsn` and `IsValidPhone` are its own two recognizers |
| `WorkflowTexts` | the ten `workflows/implementations` | no state: for each workflow its message, the parsed reply, the fields that are put back, the fallback; the arithmetic of the meeting agenda; scores |
| `WorkflowAnswers` | the run functions | one call: AnswerOnTheSpot, RaiseOnNumber and Block are the early ends, Send masks the message with what the recognizers find in it (`Found`) and the language detection says, Receive parses any reply, Fail is every exception |
| `*Proofs` | theorems about the module of that name; `HeadquartersProofs` about `Onboarding`, `TenantModules` and `Provisioning`, `TenantUsersProofs` about `GovernanceRecords`, `Access` and `WorkflowRuns` | |
| `MC*` | constants, bounds and parts for TLC | |

### Abstractions

* A signature is a constructor over the text of a row, which is its columns one after the other
  with nothing in between (`Text`): equal signatures sign equal texts. Secrets, TOTP codes and
  backup codes are records that name the secret or batch they belong to.
* `AuditChain`: the handler's own change is one flag, `changed`; `details` is the request.
* History variables record what happened and guard nothing: `reused`, `spent`, `wrong` and
  `raced` (MFA), `disturbed` (gate), `dropped`, `uncertain` and `overlapped` (support),
  `crossed` and `reopened` (onboarding), `line` and `together` (records), `wrong`, `mixed` and
  `crowded` (access), `putsOverlapped` (modules). `tampered` is one too, and limits a behaviour to one touch.
* `MfaLogin`: codes somebody presents belong to a secret or batch that was issued.
* `Access`: whether a password is right is a choice. The rule that a new password differs from
  the last and the list of modules in the login's answer are left out.
* `ProductionGate`: deploy's lookups of the corrective actions, one per risk, are one SELECT.
  Stages the gates do not tell apart ("other", archived, none) are one, as are low and medium
  risks; a risk's closed action is a flag of the risk. Who may lower or delete a high risk is
  left open here and filled in by `GovernanceRecords`. A PATCH without a reason, which is turned
  away like a body that does not parse, is left out; approvals are committed in the order of
  their timestamps.
* `GovernanceRecords`: creating a record loads nothing that can change and is one step. `aged`
  stands for the days after which an open risk counts more.
* `Provisioning`: the demo workflow run and the dry run change nothing here. An error answer
  carries where it came from: "failed" before COMMIT, "lost" at it, "unshown" behind it; the
  caller cannot tell. Removing a file that exists succeeds. Names have no
  unique constraint, so two overlapping calls with different keys may share one; no property
  claims otherwise. The one-time password is lost with a process that dies after COMMIT.
* `Onboarding`: a nullable column is a set of at most one value; a time stamp is a day, and
  writing one always counts as a difference. Titles, notes and target dates are left out.
* `SupportMail`: any request may come, as the limits are left out. `notified_at` is the number
  of the mail it belongs to; `notify_error` and `updated_at` are left out; "new" stands for
  "in_progress" too. A mail may arrive although the call timed out.
* `WorkflowRuns`: a run is the request that makes it. The second connection is taken and given
  back within the step that needs it. An exception out of COMMIT leaves the session prepared and
  its transaction inactive, so the error path fails, too, and the answer is a 500.
* `PiiAnonymizer`: a text is a sequence of tokens, a word or a placeholder; what Presidio
  recognizes with each language model is given from outside, as a list of recognizers that run
  one after the other, each with the words it finds, a type and a score.
* `WorkflowTexts`: a field is a text, so prompts, labels and wording are left out,
  and a limit on characters is `CutAt`, a limit on tokens. A reply is a text for every field
  that is asked for, what is odd about it is a flag; the minutes of an agenda are integers.

## Runs

| Run | Question | Bounds and why they are enough |
|---|---|---|
| `audit_chain` | does the trail verify, match what happened and refine the ledger, and does every request end? | two requests of every kind (tenant's own, operator on HQ, on a customer, on nobody), two organizations, one with a signed and an unsigned legacy row: two writers are enough for every race on a row lock and on "last row", and the operator action makes one of them take both locks |
| `audit_tamper` | does verification condemn exactly what it can see of a touch? | one row of one tenant, two legacy rows included, removed or given other columns or hashes, at any moment of two writers that may crash |
| `mfa` | are codes single-use, guesses limited, MFA usable, failures harmless? | in a behaviour either requests keep apart, over five steps of the clock with four secrets or batches (two re-enrolments, and locks that end before the last step), or two overlap, over three steps with two; two failures to a lock, a lock of two steps |
| `gate` | four eyes, where do the three implementations agree, do reviews and archiving hold? | either one request with two approvals, two required, one risk, two days and review ages of 0 and 1 day, everything changing in the middle of the handler, or two overlapping requests, past the check of role and stage, without risks and under a review age of 0 days; no review is dated ahead, and what hangs on an archived system no longer changes |
| `provisioning` | is provisioning all or nothing and idempotent? | two calls from four parameter sets that share a key, a name or an administrator, with and without a document; every step may raise, every process die, the answer of a COMMIT get lost |
| `support_mail` | is a notification true, single and never forgotten, and independent of the work on the request? | two requests, two runs of the script (each may start again and again), one status change, two mails per request: two is the first number that is too many, and two requests let a run of the script go on from one row to the next while the other run, or a task, is between load and commit |
| `workflow_answers` | what of what is detected is sent, does everything masked come back, is every answer fit to show? | every workflow; texts of two to four tokens that hold a name both language models see, one only the Dutch one sees, a street of which the English one takes more, two Dutch mobile numbers and one general number, and a placeholder the user typed; at most two fields given; texts cut at three tokens; meetings of 3 and 7 minutes, blocks of -1, 0, 2 and 6, at most two |
| `workflow_runs` | do row, trail and answer agree, is the engine built once, does everybody get an answer? | two runs and two deletions share a pool of two connections, which two requests exhaust; one crash; every commit may fail, and every answer to one may be lost |
| `back_office` | what survives overlapping handlers in onboarding, records, access and modules? | two requests at a time, three where only passwords are guessed; see below |
| `mfa_code_reuse` | is a code used once by two parallel requests? (violated) | two requests, three steps |
| `distinct_values` | do distinct values come back distinct? (violated) | as `workflow_answers` |
| `one_open_project` | has an account one open project at most? (violated) | as `back_office` |

`MCBackOffice` puts four modules into one run: in each behaviour one of them moves and the
others stand still, so their state spaces add up. `part` says which, and splits three of the
modules further:

* onboarding: accounts with their links (two accounts, two tenants); up to two projects of an
  account; both tasks of a project, one request at a time over two days; one task, with two
  overlapping requests;
* records: one risk under two overlapping handlers; the links of actions, incidents and risks
  of two tenants, and evidence, one handler at a time, with systems archived in between;
* access: three wrong passwords to a lock, with two overlapping requests of one user; guesses
  of three at once, which may be one more than two have; three ticks, one request at a time;
  administration by two administrators and a super-admin;
* modules: a catalogue of three keys, two tiers, two PUTs and the seeding script.

Requests of one kind are alike, so `Slots` exchanges them; in the back office it exchanges the
pairs of all four modules at once, which is sound as only one module's requests move.
`MCWorkflowAnswers` also has TLC evaluate three facts about pure functions: the eleven test
notices one wrong digit, the three spellings of a mobile number are one number, and scores
above 1 keep their order and their label.

`CHECK_DEADLOCK FALSE` stands where the model ends by itself: a call that was answered, a
pool whose requests are all answered, a back office at the last day or tick.

The history variables split what holds for requests left alone from what holds for overlapping
ones: the code promises more to the first than it can keep for the second, and the violated
properties say where.

## Fairness

`AuditChain!FairSpec` gives weak fairness to a request's statements and strong fairness to
LockOrg, since PostgreSQL queues the waiters of a row lock. `Provisioning!FairSpec` gives weak
fairness to the statements of a call: an INSERT that waits for another transaction is
disabled until that one ends, and it ends once. `WorkflowRuns!FairSpec` gives weak fairness to
each request: threads are scheduled, the calls of the language model have a time limit, and a
request that finds no connection gives up after the pool's 30 seconds, which is a step of
its own. Nothing forces a failure or a crash. The other models claim no liveness: a pending
support request whose task died is never mailed, as `PendingIsInHand` records.

## Findings

1. `mfa_code_reuse`: `_locked_user` re-reads the user FOR UPDATE but gets the object of the
   identity map with the attributes of the first load, so two parallel logins accept one code,
   against `api/mfa.py:105`.
2. `distinct_values`: placeholders are numbered per entity type, while PHONE_NUMBER and
   NL_PHONE share a placeholder: a number of one type comes back as the number of the other,
   against `core/pii_anonymizer.py:95-98`.
3. `one_open_project`: two overlapping starts, or a PATCH that opens a completed project again,
   give an account two open projects, against `models/onboarding_project.py:9-11`.

Met while modelling, and not runs of their own. In the first five the code does what a comment
beside it denies; the properties named there hold with exactly that exception:

* of two overlapping detections the loser is dropped as a whole (`_resolve_overlaps`), and what
  the winner does not cover is sent in clear: "piet" of the person "piet smit", when "smit
  street" is taken for a place. `core/pii_anonymizer.py:4-7` says that personal data is removed
  before a text is sent, `:45-48` that with two models none is missed; `OnlyTheOutdoneLeave` says
  that nothing else of what is detected leaves;
* under the known keys of a compliance finding placeholders are put back in strings only, so that
  a list under such a key shows its placeholders, against `compliance_monitoring.py:20-26` and
  `core/pii_anonymizer.py:109-112`. The same holds of other keys and of findings that are plain
  strings, which the docstring does not speak of. `AnswersAreFitToShow` excepts these findings
  (`NotRestored`);
* the currency of an invoice is text of the language model and is shown as it is, against
  `invoice_processing.py:35-38`; it is the other exception in `NotRestored`;
* of two identical provisioning calls the second is refused if the first commits between its
  lookup of a replay and its check of the name, against `services/provisioning.py:9`. A call that
  loses the race later, on a unique value, is answered with what exists, as `AnswersAreTrue` says;
* a provisioning call that fails while it writes the demo file leaves a part of it, as the
  clean-up learns of the file when it is written (`torn`), against
  `services/provisioning.py:6-7`; `FilesFollowDocuments` says that the part belongs to no tenant;
* an operator action is committed before its audit lines, so a crash leaves an action no chain
  records (`core/ops_audit.py:3-5`); `TrailMatchesRequests` has that exception;
* a governance record is committed before its audit line, so a request that dies in between
  leaves a score that no line explains (`api/governance.py:630-642`); `ScoresFollowTheTrail` has
  that exception;
* three overlapping requests of one user have more guesses at a password than two
  (`api/auth.py:43`); the code names no number for either;
* a provisioning call may end in an error although its tenant exists: the answer to COMMIT got
  lost, or reading the tenant back failed, outside any try (`services/provisioning.py:351`);
* overlapping runs of the resend script mail a request twice
  (`scripts/resend_support_notifications.py:9-10`); `OneMailPerRequest` and `SentIsFinal` hold
  for runs that do not overlap;
* a token's mfa claim counts again once a reset user has enrolled anew
  (`api/dependencies.py:67-69`);
* the score's `open_incidents` counts closed incidents as well (`api/governance.py:181`), and
  lowering a mitigated high risk to medium lowers the score;
* the PATCH gate counts approvals after it has looked at the last one, so that the requester's
  own approval counts if it arrives in between; the promise of separate persons is made for
  deploy, which keeps it;
* the readiness check may say yes where a gate refuses, and no where it opens: it asks neither
  for the stage (`core/deployment_service.py:20-24`) nor for the role, and takes the last row
  of a SELECT without ORDER BY for the last approval (`api/governance.py:473-475,503`);
* `verify_audit_chain` answers "valid" after some touches: the last line of a trail deleted
  before a writer read it; the marker deleted or made unrecognizable, which turns the chain into
  legacy rows and has the next writer start another; a legacy row deleted or left without
  `record_hash` (`api/audit.py:103-105`); a character moved across the boundary of two columns,
  which the unseparated text does not show (`core/audit.py:47`). `VerdictIsExact` says that these
  are all, for one touch that neither inserts a row nor moves one to another tenant nor copies
  the hash of another row;
* `kickoff_to_golive` may be negative; an account may leave a terminal status when two
  changes overlap.

## Proofs

TLAPS proves the following for every value of the constants that satisfies the named
assumptions of the modules (`OrgAssumption`, `RequestAssumption`, `LegacyAssumption`,
`TextAssumption`, `MarkerAssumption`, `CustomerAssumption`, `GateAssumption`, `SupportAssumption`, `MfaAssumption`, `ParamsAssumption`,
`RunsAssumption`, `CatalogAssumption`, `RecordsAssumption`, `AccessAssumption`,
`AnswersAssumption`, `CutAtAssumption`; `Onboarding` needs none). The
bounds of the models (mails, days, clock,
secrets, projects, crashes, blocks of an agenda) are constants of the theorems, of any size.

* `AuditChainProofs`: `TypeCorrect`, `NoFalseAlarm` (an untouched trail verifies),
  `HqLineFirst`, `TrailIsExact`, and `Refinement` (the locking protocol implements
  `AuditLedger`). The inductive invariant `IInv` adds to the type: `LockInv` (the row lock
  belongs to the one request that is between LockOrg and Commit), `IdInv` (ids identify rows
  and stay below the sequence) and `RequestInv` (what each program counter knows: the rows a
  transaction has inserted are signed and newer than everything committed in their
  organization, and the hash it has read is that of the last row it sees). `ChainVerifies` alone
  is not inductive: that a commit keeps a chain linked depends on nobody else having committed
  there since the last row was read, which is what the lock is for. `LegacyAssumption` says that
  legacy rows are unsigned or correctly signed and hold no marker. `TrailIsExact` rests on
  `TrailInv`: which lines of a request are committed follows from its program counter and plan.
* `AuditTamperProofs`: `TamperingShows` (`VerdictIsExact`). As long as nobody has touched the
  table, the invariant of `AuditChain` holds, with `TrailInv`, `OriginInv` (where rows come from)
  and one marker at most (`Clean`). Afterwards it does not, and a second one takes over
  (`Touched`): what a writer's own rows are whatever was done to the table (`Own`), what its
  program counter knows of a trail that still verifies (`Knows`: it may hold the hash of a last
  row that has gone since, `Stale`), which touch was made (`TouchInv`), and the verdict. The two
  are joined by what a touch does to the verdict: a row that no longer reads the same is not
  signed (`AlterationVerdict`), the successor of a removed row points at a hash that is not its
  new predecessor's, as no other row of the chain has the same text (`HashesDiffer`,
  `DeletionVerdict`), and a line committed later keeps a valid trail valid unless it points at
  the row that has gone, which then shows (`CommitVerdict`); what is condemned stays condemned
  (`StaysCondemned`). `TextAssumption` says that the timestamp tells the lines of this
  application apart, `MarkerAssumption` that no other text begins as a marker's.
* `ProductionGateProofs`: `TypeCorrect`, `FourEyes`, `ArchivedStays`, `GatesAgree` and
  `ExpiredRestricted`. `FourEyes` rests on `SeenApprovals`: a deployment that has counted has
  seen an approval, and one that has passed the last check has seen somebody else's; this stays
  true because approvals are never taken back, whatever else is committed. `ArchivedStays` rests
  on the type invariant's last part (a handler only judges a system that was live when loaded)
  and on commits writing only what they changed. `GatesAgree` rests on `GateInv`: for a handler
  nothing has changed under, its copy is the row, every SELECT it has passed would still be
  passed, and those it has left are the rest of its own order. So both gates open exactly
  when role and stage admit the request and `Ready` holds with the newest approval as the last
  one; `Ready` takes the last approver as a parameter, as the readiness check's SELECT has no
  order.
* `MfaLoginProofs`: `TypeCorrect`, `FailuresAreHarmless` (however requests overlap), and, for
  requests that do not, `UsedCodesStayDead`, `UsableWhenOn` and `LimitedGuesses`. The layers of
  the invariant: the lock ends within its period (`LockBound`); the copy of a request nobody
  raced with is the row (`Undisturbed`); every accepted code of a secret is at or behind its
  last step or the secret is gone (`CodesBehind`); what is on has a secret (`CanBePassed`); and
  the wrong codes since the last lock are the last ones counted, the one before them being the
  one that locked (`Window`). A code that
  is used stays dead across a re-enrolment only because a secret is never issued twice.
* `SupportMailProofs`: `TypeCorrect`, `SentIsTrue`, `NoneIsForgotten`, `Independent`,
  `MailedOnce` and `SentStays`. The inductive invariant has two layers. `SafeInv` holds
  whatever overlaps: what a worker knows stays true (`WellInformed`: a mail about to be
  recorded as sent has arrived, and a request does not return to pending while somebody holds
  a copy of its row). `OwnerInv` and `MailInv` hold as long as runs of the script have not
  overlapped: a request is in the hands of its own task while it is pending and of the one
  run of the script afterwards, so nobody else records an outcome between load and commit,
  and a mail that arrived is recorded, about to be, or uncertain. `OneMailPerRequest` alone
  is not inductive: that a second mail is not sent depends on who holds which copy.
* `HeadquartersProofs`, provisioning: `TypeCorrect`, `WholeTenants`, `FilesFollow`,
  `TrueAnswers`, and `Refinement` (the transactions implement `TenantRegistry`).
  `ProvisioningInv` says that the rows of an open transaction are determined by its next statement, that the table is the union
  of the whole tenants of the calls that have committed, and that ids are given out once
  (`RowsAreTheCalls`, `Ids`); what is known of a call that has ended (`Fates`); that rows which
  are committed or inserted share neither key nor administrator (`Unshared`); and which file
  belongs to which call (`Files`). On top of it, the owner of a part of a file has ended without a
  tenant (`TornInv`), and a call that was stopped by a unique value was stopped by a tenant that
  was asked for with other parameters, or is answered as its replay (`TwinInv`).
* `HeadquartersProofs`, onboarding: `LinkedOnce`, `SecondHasReason` and `StampsFitStatuses`.
  `AccountInv` says that an account
  about to get a tenant still has none unless requests crossed, and that no two accounts share
  one; `ProjectInv` that an account has one open project at most, and none while a request is
  about to insert one, unless a project was opened again or starts crossed. `SecondProjectHasAReason`
  alone is not inductive: that an insert makes no second project depends on what the request
  looked up before. `StampsFitStatuses` rests on `StampInv`: what a request that nobody
  crossed is about to write makes a row whose stamps fit (`Planned`), no stamp lies in the
  future, and no task was completed before its project was started (`Within`), which the
  property does not say and its durations need. That a phase which has ended has a last day is
  a minimum over days, from the well-foundedness of the naturals (`LatestDay`).
* `HeadquartersProofs`, modules: `RulesHold`. `ModulesInv` says that a PUT about to commit
  switches on, or finds on, what its tier needs as long as PUTs have not overlapped
  (`SwitchesOn`, `PutInHand`), and that the seeding script only adds rows. The core module is
  on even if they have: no PUT switches it off.
* `TenantUsersProofs`, records: `ShownIsChangeable`, `HighRisksAreLoweredRightly` and
  `ScoresAreExplained`. `RecordsInv` says that the risk and the incident of an action, and the
  system and the risk of a piece of evidence, belong to one tenant (`LinksAgree`: what the
  lists follow and what the look-ups follow is then the same), and that a request is about to
  write a record of its own tenant, and lowers a high risk only as a super-admin or after
  another request has written the risk (`HandlersFit`). The two action properties compare the
  state before a save with what was loaded, so they need the same invariant. `DebtsFit` says that
  a request owes a line only once it has written, to the chain of its user's tenant or as a
  super-admin; so a score changes with a commit that owes a line (`ScoresMove`), and a debt ends
  with the line or with the failure of its request (`DebtsMove`).
* `TenantUsersProofs`, access: `GuessesAreCounted`, `OnlyACrowdGuessesMore` and
  `TenantsKeepAnAdmin`, for any number of requests. `AccessInv` says that for somebody no two requests have written at once, the
  counter has counted every wrong password since the lock or the last right one
  (`CountedAlone`), and that a request about to deactivate an administrator knows another one
  (`AnotherAdmin`). The number for overlapping requests in `GuessesAreBounded` is that of two
  on one user, so the property leaves out users on whom three were under way at once
  (`crowded`), as each more allows more; nothing is assumed of how requests come. The invariant
  `HasRoom` says so of each user (`CrowdStep`), and `Room` is a potential: the guesses made, and those still
  possible from where the counter stands and from what the requests under way have loaded,
  never exceed the bound; MaxFailed may be any number.
* `TenantUsersProofs`, workflow runs: `RunsTypeCorrect`, `BuiltOnce` and `AccountedFor`.
  `EngineInv` says that only who builds holds the lock, and there is no engine yet; `RunInv` and
  `DeletionInv` say, for each place of a request, which row and which line of its run there may
  be, why its caller was not told of a line (`Says`), and who has deleted a row that is missing.
* `WorkflowAnswersProofs`: `CallsStayValid`, `TheRestStaysHome`, `MaskedValuesComeBack`,
  `AnswersStayFitToShow` and `AgendasFillTheMeeting`, for any texts, documents, recognizers,
  scores, replies and lengths of meetings. The transitions are few and the computations long, so
  the inductive invariant `CallInv` says only what each step computed from what: until a message
  is sent there is nothing masked (`NothingSent`), afterwards what is masked, sent and
  remembered is what the anonymizer makes of the message under some answer of the language
  detection (`HasSent`), and an answer is none, the one without a model, or one of the
  workflow's answers to what was heard (`Answered`). The four properties are then lemmas
  about the operators, for sequences of any length. They rest on these steps:
  - induction over the naturals comes from their well-foundedness (`NatSetInduction`), for
    members of a set instead of an operator, and from it what a flattened sequence and a
    left fold are (`FlattenSeq`, `FoldLeft`), by following the accumulator or the length along the
    sequence, and that `Sorted` lists a finite set in its order;
  - the greedy choice keeps detections that do not overlap, and covers each one it drops by
    one of at least its score, since better ones come first; whether
    or not the language detection is sure, names are looked for with one model at least and
    patterns with both;
  - the masked text is the stretches between the kept detections with a placeholder after each,
    so its words are the words outside (`TheRestStaysHome`), and putting back undoes it
    stretch by stretch (`MaskedComesBack`) provided a placeholder stands for one value. It does
    because first values of a type are counted (`TagsTellValuesApart`), and two types share a
    placeholder only if they are the two kinds of telephone number (`NamesTellTypesApart`,
    `PhonesAgree`): the exception of the property, and finding 2;
  - the messages and answers of the ten workflows are made of the user's tokens, the workflows'
    own words (`Label`) and what is put back (`Plain`), which holds no placeholder the user did
    not write, except in the fields nothing is put back in (`NotRestored`);
    `Fit` says so of an answer, with its fields, workflow by workflow;
  - a prefix of the stretched lengths of an agenda sums up to where the next block starts, and all
    of them to the meeting, unless the last was raised to a minute (`AgendaFilled`).

Only model-checked:

* the liveness properties (fairness is outside the prover's reach): `EveryRequestEnds` twice,
  `EveryCallEnds`;
* the three facts about pure functions in `MCWorkflowAnswers`, for the values named there: the
  eleven test, the spellings of a telephone number and the scores of leads.

The violated properties are refuted by the code, and stay with TLC for that reason.

The types of `MfaLogin`, `Provisioning`, `SupportMail`, `ProductionGate`, `AuditChain` and
`WorkflowRuns` are proved and not run again; those of the back office (`RecordsTypes`,
`AccessTypes` and the typed parts of `StampInv` and `ModulesInv`) are proved as parts of the
inductive invariants.

## Not modelled

* Documents: one row and one file for each upload, and nothing is promised about what a
  failure leaves behind. `Provisioning` has the same pattern with a promise (`FilesFollow`).
* Rate limiter: a sliding window that limits traffic approximately; the variant in
  `dependencies/rate_limiter.py` is not used by the application.
* The limits on support requests per hour and day: overlapping requests may exceed them, and
  the code promises no more.
* Microsoft integration: token storage and a read-only synchronisation with an external service.
* Outbound engine: models and schemas, no behaviour yet.
* Application shell, unused governance helpers (not called), operation scripts, reports, front
  end: wiring, one-off scripts and presentation.
* Prompts, labels, wording and the listings, which only read.

## Where it could grow

The order followed so far: the audit chain with its ledger and tampering; second factor;
production gate; provisioning with its registry; support mail; the workflows, from the
anonymizer to the runner; onboarding; governance records; users and tokens; tenant modules;
and the theorems. What would come next:

1. `Access` composed with `MfaLogin`, for the mfa claim of a token that outlives a reset.
2. The support limits: by how much n overlapping requests exceed them, to be proved for any n.
3. How many guesses n overlapping requests on one user have, for more than two.
4. Documents, once the code says what a failure may leave.
