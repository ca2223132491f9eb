# Verity: a TLA+ model of the accounts-payable server

Verity takes supplier invoices (PDF uploads and email attachments), lets an AI
read them, verifies the reading against the ERP's vendors and purchase orders
with deterministic rules, creates the AP invoice in the ERP, routes it to the
person who may approve it, and records the payment. The ERP is the system of
record; the product database holds the workflow. This directory specifies that
server, checks it with TLC on small instances and proves its main safety
properties with TLAPS for all instances.

All source paths below are relative to `src/`; `pipeline/...`, `app.ts` and so on
stand for `server/src/...`.

## 1. The system

### Parts, state and operations

| part | source | state it keeps | operations |
|---|---|---|---|
| front door | `ingest/ingestFile.ts`, upload route in `app.ts` | a document row, the stored file | check, hash, look up, store, create row, audit, enqueue |
| Gmail poller | `ingest/gmailPoller.ts` | processed UIDs (memory) | poll, fetch, hand to the front door, remember |
| job queue | `pipeline/queue.ts` (BullMQ on Valkey) | jobs with attempts and backoff; a `failed` listener in the process | add, activate, complete, fail, back off, stall check |
| pipeline worker | `pipeline/processDocument.ts` | the document in hand and what it has read | extract, verify, create invoice, route, settle, catch |
| rules | `rules/verify.ts`, `rules/route.ts` | none | matchVendor, verify, route |
| ERP client | `erp/*.ts` | configuration cache | list, create, set status, pay, get |
| ERP | outside the repository | vendors, orders, invoices, payments | answers 409, 400, 5xx; its own users decide and pay too |
| approvals, payment | `app.ts` `decideApproval`, `pay` | a request in flight and the rows it has read | approve, reject, pay |
| product database | `server/prisma/schema.prisma` | documents, extractions, tasks, events, users, organizations | single statements; no transaction anywhere |
| login and limits | `auth/auth.ts`, `security/rateLimit.ts`, `app.ts` | failure counters (memory) | register, login, gate, sweep |
| lifecycle | `index.ts` | | boot, graceful shutdown, forced exit; the queue dashboard's retry |
| documents page | `web/app/page.tsx` | the list, the search and its debounced copy | poll, search, upload, refresh |
| inbox and document page | `web/app/approvals/page.tsx`, `web/app/documents/[id]/page.tsx` | what is shown, the user remembered, the busy button | poll, approve, reject, pay |
| session | `web/lib/api.ts`, `OrgHeader.tsx`, `login/page.tsx` | token and user in localStorage, shared by all tabs | sign in, sign out, leave on a 401 |

### How they interact

The worker, the HTTP handlers, the poller and the event listener of the queue all
run in one Node process. They share the database and the ERP and no lock: every
`await` is a point where another may act. The worker runs one document at a time
(concurrency 1), the handlers any number. The ERP may also change an invoice
without being asked. Jobs live in Valkey and survive the process; the worker's
local variables, requests in flight and undelivered `failed` events do not.

### Which behaviours are hard

- **Interleaving at awaits.** A handler reads a task, asks the ERP, and writes two
  rows one after the other; a second approver, the worker or a payment may act in
  each gap.
- **Two systems without a transaction.** The ERP is written first, the records
  after it. Any call may fail, also after it took effect.
- **Retries.** BullMQ runs an attempt again from the start, while rows and ERP
  records of the earlier attempt stand.
- **Crashes.** A killed process leaves a job active; the library puts it back
  (once) and the attempt starts over from whatever state the row is in.
- **Swallowed failures.** Three writes end in `.catch(() => {})`, and the poller goes
  on to the next attachment after any error.
- **Answers out of order.** A page has several requests in flight and takes whatever
  answer arrives.
- **Shared sessions.** All tabs of a browser share one session; a page keeps the user it
  was opened with while the token it sends may be somebody else's.
- **Memory.** Waits after failed logins and the ERP's configuration are kept in the
  process, looked at before an `await` and written after it.

`PROJECT.json` lists the hazards at their lines with the properties that cover them.

## 2. The modules

Six specifications, each with the components that share its state:

```
Rules <- Workflow <- Erp <------ Approvals <--+
              ^       ^        |              |
              |       |        +-- Inbox <- MCInbox, InboxProofs
              |       +--- Pipeline <---------+-- Verity <- Claims ---+- MCVerity
              +- JobQueue <---+               |     ^  ^              |
                    ^                         |     |  +- Invariants -+
                    +--- Ingest <-------------+     |        ^
                                      (Payables) ---+   VerityProofs <-+- MoneyProofs
                                                                       +- ClaimsProofs

(Admission) -- Intake <- MCIntake, IntakeProofs
               Registration <- RegistrationProofs
Login, ErpConfig <- Memory <- MemoryProofs
               Dashboard <- MCDashboard, DashboardProofs
```

(A name in brackets is an abstract specification, implemented under a refinement
mapping.)

| module | models | state | actions |
|---|---|---|---|
| `Rules` | the rules and the ERP's master data | constants | operators `route`, `matchVendor`, `verify` |
| `Workflow` | the rows of the product database | `status`, `erpInvoiceId`, `extraction`, `task`, and the counter `faults` | `setStatus`, `Fault` |
| `Erp` | the ERP as the adapters use it, and its own users | `invoice`, `orderStatus`; history `raisedBy`, `decidedBy` | `createInvoice`, `Decide`, `AwaitApproval`, `createPayment`, `DirectInErp` |
| `JobQueue` | jobs, backoff, stalls, the failed listener | `job`, `failedHook` | `enqueueDocument`, `Activate`, `Complete`, `FailAttempt`, `BackoffEnds`, `JobStalls`, `JobStallsAgain`, `RetryFailed`, `FailedHandler`, `FailedHandlerLost` |
| `Ingest` | the row, the audit event and the job of an upload, as the pipeline sees it | `ingesting` | `IngestCreate`, `IngestEnqueue`, `IngestFails` |
| `Pipeline` | one attempt of `processDocument`, call by call | `worker` | `TakeJob` ... `RejectAttempt`, `Throw`, `CatchWriteLost` |
| `Approvals` | `decideApproval` and `pay`, call by call | `req` | `ReadTask` ... `RecordPayment`, `RequestFails` |
| `Verity` | everything above composed; crashes; the properties | `crashes` | `Next`, `Crash` |
| `Payables` | abstract: what the product promises about money | `ledger` | `Raise`, `Resolve`, `Pay` |
| `Claims` | what comments, schema and dashboard say: claims the code does not keep, claims it keeps whatever fails, and claims it keeps as long as nothing fails, or but for the document a failure hits | | |
| `Invariants` | the inductive invariants: `IInv` of what handlers know, `JobsInv` of jobs and their documents | | |
| `VerityProofs`, `MoneyProofs`, `ClaimsProofs` | proofs about `Verity`: what the records say, the money and the refinement, and what the claims come to | | |
| `Inbox` | the approvals inbox and the document page in a browser with several tabs, the session they share, and the handlers of `Approvals` that serve them | `session`, `tab`, `poll`, `click`, `recordedBy`, `logins`, and those of `Approvals` | `SignIn`, `SignOut`, `Open`, `Expire`, `Poll`, `Receive`, `PollFails`, `Click`, `ClickRefused`, `Serve`, `ServeFails`, `AnswerArrives`, `ErpUsers` |
| `InboxProofs` | proofs about `Inbox` | | |
| `Intake` | `ingestFile` as users and the poller call it, the poller, boot, shutdown and death of the process | `rows`, `stored`, `jobs`, `up`, `inbox`, `arrived`, `processed`, `poller`, `phase`, `budget` | `Upload`, `IngestStep`, `IngestFails`, `PollerStep`, `MailArrives`, `MailLeaves`, `Sigterm`, `CloseNext`, `CleanExit`, `Crash`, `Boot` |
| `Admission` | abstract: what the front door promises | `kept`, `admitted` | `Keep`, `Record`, `PlaceJob` |
| `IntakeProofs` | proofs about `Intake` | | |
| `Registration` | the registration route, request by request | `orgs`, `users`, `reg`, `answer`, `faults` | `FindUser`, `FindOrg`, `CreateOrg`, `InsertUser`, `CallFails`, `ProcessDies` |
| `RegistrationProofs` | proofs about `Registration` | | |
| `Login` | the login route and the backoff of failed logins | `failures`, `login`, `swept` | `Ask`, `WrongPassword`, `RightPassword`, `LookupFails`, `Sweep` |
| `ErpConfig` | how the ERP client finds the organization's ERP: the cache and the queries that fill it | `cache`, `call` | `Resolve`, `Answer`, `Keep`, `ResolveFails`, `Reconfigure` |
| `Memory` | both, with one clock and the restart that clears them | | `Tick`, `Restart` |
| `MemoryProofs` | proofs about `Memory` | | |
| `Dashboard` | the documents page against a server whose documents arrive, are read and change their status | `search`, `q`, `docs`, `error`, `request`, `upload`, `server` | `Type`, `Debounce`, `Poll`, `StartUpload`, `EndUpload`, `Answer`, `Receive`, `RequestFails`, `Arrive`, `ReadOut`, `SetStatus` |
| `DashboardProofs` | proofs about `Dashboard` | | |
| `MCVerity`, `MCIntake`, `MCDashboard`, `MCInbox` | small instances for TLC | | |

In every module a program counter names the awaited call about to be made, and one
action is one awaited call with the code up to the next one: its guard is the
condition the code tests, its assignments are the writes of the call. What a handler
read before earlier awaits it carries along (`req[u].invoice`, `req[u].outcome`,
`request[r].text`), exactly as the JavaScript closure does.

A definition whose comment begins "Mutant of ..." is a deliberately wrong variant of
the definition that follows it (`LookupSkipsStore` of `Lookup`, `DelayUncapped` of
`Delay`, and so on). Each property is shown to fail when its variant takes the
definition's place; the specifications do not use them.

### Abstractions

Of the payables system (`Verity` and its components):

- **A document is its file content.** The hash is unique per organization; one
  organization is modelled, since every query filters by it.
- **Lost answers.** A call that takes effect but whose answer is lost is the effect
  followed by the failure of the next call. For the handlers this is the same
  thing: in both cases the code after the effect does not run.
- **Audit events** in the middle of an attempt are part of the call that follows
  them: they append a row no decision reads, and their failure throws from the
  same place. The last audit event has a step of its own (`FinishAttempt`,
  `Throw`), since its failure undoes a finished document. Audit events at the end
  of a handler follow its last write and have no step.
- **Readings.** The AI may read any member of `Readings`, another one on each
  attempt. The worker's local copy of the reading is read from the Extraction row:
  the same attempt created it, and `RecordsAreFinal` (proved) says it never
  changes.
- **Names** are sequences of words, so that "contains" means what it means in
  `matchVendor`. An amount of 0 stands for a missing amount too; the code tests
  both by falsiness. Case folding and trimming are taken as done.
- **The ERP** is modelled from its use: 409 on a taken invoice number, 400 on a
  decision about a decided invoice, payment only of an approved one. It is not
  assumed to refuse a bill for an order that is no longer open, nor is it assumed
  to keep the order of a rejected invoice closed or to reopen it: both occur.
- **BullMQ** is modelled as far as `queue.ts` sets or relies on it. A job that is
  active without a process stalls: it is put back once, without counting an
  attempt, and failed the second time (the library's default `maxStalledCount` 1).
  Whether the second stall counts as an attempt, and so whether the handler takes it
  for the last, is left open: it depends on the library's version and on the attempts
  made before. The `failed` event is delivered in the process and lost with it.
- **Rows.** RECEIVED is a status of the schema that no code writes, and is left out. A
  task is its status and role here; `decidedBy` is in `Inbox` (`recordedBy`), since it
  is the one column of a decided task that the code overwrites.

Of the other specifications:

- **`Intake`**: a file is its content; every upload gets a storage key of its own, so
  the store is the set of contents it holds. The queue counts the jobs placed for a
  file; what the worker does with them is `Verity`. Mails are named by their UIDs,
  which a poll takes in ascending order, and may leave the three-day window at any
  time. The poller stops when `QueueOpen` is false only in that its jobs are refused:
  the code does not stop it. The phases of the shutdown are `worker`, `queue`, `http`,
  named for what is being closed.
- **`Registration`**: rows are never deleted, so an organization's name stands for its
  row. The hash of the password and the token have no state. When the process dies, the
  requests under way lose their connections, and what they wrote stays.
- **`Memory`**: times are kept relative to now (the rest of a wait, the age of an entry,
  how long ago a configuration was replaced) and are no longer told apart where no
  comparison of the code does, so time goes on without an end. Counting failures stops
  where the delay has reached its cap (`DelayAssumption`). Of a configuration it only
  matters whether the organization's row still holds it. That a query of that row ends
  within `MaxRead` is an assumption about the database. Request limits per address only
  turn requests away before they start.
- **`Inbox`**: a call and the server's first look at it are one step: what happens while
  a request is on its way may as well happen before it is sent. A refresh is one more
  poll. A page shows the documents it offers an action for; an error on the document
  page takes the document's place until the next answer, one in the inbox stands above
  the list. Which of the two buttons of a row is pressed is the handlers' choice, as in
  `Approvals`. The documents start out verified and waiting for their approver.
- **The queue dashboard's retry** (`RetryFailed`) puts a failed job back with the
  attempts it has made. That nobody presses it between the failure of the job and the
  one write of its handler is an assumption about time: the code does not exclude it.
- **`Dashboard`**: of a row its status and whether it has an Extraction are kept. A
  status may change to any other, since who may write which is the subject of `Verity`.
  A text finds a document by its file name at once and by what the AI read afterwards.
  Two files may be uploaded at once, one by the button and one dropped on the page. A
  401 leaves the page. The chips select among the rows and have no state here.
- **Bounds.** `MaxFaults`, `MaxCrashes`, `MaxStops` and `MaxLogins` bound what the
  environment does, `Requests` and `Uploads` of `Dashboard` and `MaxPolls` of `Inbox`
  the requests in flight; edits, uploads and failing requests of `Dashboard` have no
  other bound. All guard the steps that increase them. The
  proofs hold for any value of those they meet.

## 3. Properties

Of `Verity`, safety:

- `StatusTellsTheErpTruth`: a document is APPROVED, REJECTED or PAID only if its
  ERP invoice is, and a decided task agrees with the ERP. Violating it takes a late
  writer, a conflict with the ERP's own users, or a retry.
- `OneInvoicePerDocument`: no retry, stall or restart bills a document twice.
- `StoppedMeansNoInvoice`: what stopped for review or as a duplicate moved no money;
  in particular a retry never takes its own invoice for somebody else's duplicate.
- `OrderBilledOnce`: an order has one live bill, although the open orders are read
  two calls before the bill is created. It holds because the worker is the only
  one that bills and handles one document at a time.
- `PaymentMatchesOrder`: what is paid is the order's amount, on an invoice of the
  order's vendor, and the order is closed.
- `NothingStuckWithoutFailures` (`Claims`): without a failing call and without a crash
  no completed job leaves an unfinished document, no QUEUED document is without a job,
  no failed job leaves its document QUEUED, and none is FAILED with attempts left,
  whoever decides and whenever.
- `FailuresStickToOneDocument` (`Claims`): without crashes as many documents get stuck as
  calls have failed, at most. Three failures are swallowed, and a fault in one document's
  attempt, upload or event never holds up another document.
- `FailuresHideOneDecision` (`Claims`): no more documents look as if nobody had been asked
  about them (FAILED, QUEUED, EXTRACTING, although there is a task) than calls have
  failed. The catch block and the `failed` handler write without a look at what
  approvers and the ERP's users have decided meanwhile; this is all they can take
  back. Stated for one crash at most: a second may have the queue fail the job.
- `PendingMeansTask` (`Claims`): a document shown as waiting for approval has a task for
  the approver its amount calls for, although the catch block and the `failed` handler
  write statuses beside `routeToErp`. What is left of `page.tsx:26` after `claim_pending`.
- `RecordsAreFinal` (action property): a reading, an ERP link, and the status and role
  of a decided task are never overwritten. (Its `decidedBy` is: section 4.)
- `FinishedStaysFinished` (`Claims`, action property): while no call has failed, a
  finished document is not processed again, also when the process dies between its
  last write and the completion of its job. Stated for one death, as above.
- `OnlyPeopleAfterwards` (`Claims`, action property): once the queue and its handler are
  done with a document, however they ended and whatever failed, only a decision or a
  payment that the ERP has changes its status. What is left of "the final word" of
  `queue.ts:57`.
- `KeepsThePromise` (refinement): under the mapping `Ledger` every behaviour of the
  server is a behaviour of `Payables`: raised once for a whole order nobody else
  bills, decided by somebody with the authority for the amount, paid once after
  approval for the order's amount.

Liveness: `EveryJobSettles`: once its job waits in the queue, for the first time or
retried by hand, a document ends for good in a status a person can act on, unless the
last write of the `failed` handler is itself lost (`FinalWordLost`).

Of `Intake`:

- `KeepsOneDoor` (refinement): the front door implements `Admission`: the original is
  safe before the row, one row per content, at most one job per row.
- `IntakeInv`: the inductive invariant behind it; of several callers with the same
  bytes only the one whose row it is may place the job.
- `NothingLostWithoutFailures`: while nothing fails, dies or is asked to stop, the
  attachments of a remembered mail are recorded and every recorded file has its job.
- `EachFailureCostsOneFile`: a failing call costs one attachment at most; crashes and
  shutdowns cost none. It bounds what `claim_remembered` shows can happen.
- `NothingDropped`: the inductive invariant behind `NothingLostWithoutFailures`: no file
  slips between the mail, the poller, the call in hand, the row and the job.
- `EveryMailRecorded` (liveness): the attachments of a mail that stays in the window
  are recorded, across restarts and beside users who upload the same file. Two things
  excuse it, both in the code: a mail that always throws ends every poll before the
  mails behind it, and a failing call may cost a file (`claim_remembered`).

Of `Registration`: `AnswersAreTrue`: who was told "created" has the account, in the
organization that was named, and shares it with nobody; `EmptyOrganizationsAreReported`:
an organization without a user is never left in silence, although its row and the
user's are made by two calls, one of them may fail and the process may die in between; `RegistrationInv` is the inductive invariant behind them.

Of `Memory`: `WaitsAreBounded`: no number of overlapping failures makes anybody wait
longer than the cap; `WaitsStand` (action property): neither the sweep nor a failure
of a request that passed the gate earlier shortens a wait; `QuietAccountsAreForgotten`
(liveness): an account nobody logs in to any more leaves the map; `NeverLongStale`: no
call goes to an ERP that was replaced longer ago than an entry lives and a query takes,
also when a slow query overwrites the entry of a faster, newer one.

Of `Inbox`: `NamedPersonDecided`: a task that bears a person's name was decided in the
ERP with the authority of that person, whatever the ERP answers to whom;
`ButtonsAreHonest`: the server forbids what the inbox offered only if somebody else has
logged in since the page was opened. Liveness: `PagesCatchUp`: every page stops offering
what calls for no action any more and comes back to showing what does; `ActionsEnd`: a
pressed button comes back; `ExpiredSessionsEnd`: an expired session does not stay.

Of `Dashboard`: `OnlyNewsUnsettles` (action property): a page that is in step with the
server (what it shows, and whatever is on its way to it, is what the server has for the
search in the box) stays so until a document or the search changes: none of the closures
that call `refresh`, of the poll and of uploads begun in other renders, holds another
search; `ListCatchesUp` (liveness): once the user and the server are still and requests
no longer fail, the list comes to be what the server has for the search in the box,
without an error message, and stays so, in whatever order answers arrive.

Each module has one type invariant; `TypeOK` joins those of `Verity`, `Dashboard` has
`DashboardTypeOK`, and the others have theirs as a conjunct of the invariant that is
checked.

## 4. The runs

| run | instance | shows |
|---|---|---|
| `one_document` | `Verity`: 1 document, FINANCE_HEAD and CFO, readings of every kind, two vendors of one name, ERP users act, retries by hand, 1 fault, 2 crashes | `TypeOK`, `IInv`, `JobsInv`, `StatusTellsTheErpTruth`, `OneInvoicePerDocument`, `StoppedMeansNoInvoice`, `PaymentMatchesOrder`, `NothingStuckWithoutFailures`, `PendingMeansTask`, `FailuresHideOneDecision`, `KeepsThePromise`, `RecordsAreFinal`, `FinishedStaysFinished`, `OnlyPeopleAfterwards` |
| `two_documents` | `Verity`: 2 documents, FINANCE_HEAD, two bills of one order, ERP users reject, retries by hand, 1 fault, no crash | `OrderBilledOnce`, `FailuresStickToOneDocument`, `FailuresHideOneDecision`, `KeepsThePromise`, `EveryJobSettles` |
| `intake` | a user and the poller, a mail with two PDFs and a file that is none, a mail that cannot be parsed, 1 fault, 1 crash, 1 shutdown | `IntakeInv`, `NothingDropped`, `NothingLostWithoutFailures`, `EachFailureCostsOneFile`, `KeepsOneDoor`, `EveryMailRecorded` |
| `registration` | 3 requests, 2 emails, 2 organizations, 1 fault, the process may die at any time | `RegistrationInv`, `AnswersAreTrue`, `EmptyOrganizationsAreReported` |
| `memory` | 1 account, 2 overlapping requests, one free failure, delays 2 and 3 (the cap), a sweep every 4; 2 callers, entries used for 3, queries of up to 2; no end of time | `WaitsAreBounded`, `NeverLongStale`, `WaitsStand`, `QuietAccountsAreForgotten` |
| `dashboard` | 1 document of 2 statuses, 3 searches (one finds it once it has been read, one never), 2 requests and 2 uploads at a time; edits, uploads and failing requests without a bound | `DashboardTypeOK`, `OnlyNewsUnsettles`, `ListCatchesUp` |
| `inbox` | 1 bill for the CFO, an inbox and its page, FINANCE_HEAD and CFO, 2 polls of the inbox and 1 of the page in flight, 1 login, 1 fault, ERP users reject | `NamedPersonDecided`, `ButtonsAreHonest`, `PagesCatchUp`, `ActionsEnd`, `ExpiredSessionsEnd` |

**Why these bounds.** The runs of `Verity` have three vendors, one whose name is longer
than the printed one (containment) and two of the same name. Between them they bill
49,999, 50,000, 5,00,000 and 5,00,001, the edges of the three approval bands (50,000
with one document, 5,00,000 with two); the readings are clean in each band, clean under
a second number for the same order, of the wrong vendor, of the wrong amount, for the
order of a namesake, and with a due date that cannot be stored. One document is enough
for the first run because everything its properties relate belongs to one document:
the attempts, the two requests that may decide it, the ERP and the crashes. Two crashes
are what it takes for the queue to fail a job that stalled. One failing call is enough
for each of its claims about failures; a second failure inside the handling of the
first, with the crashes, would take the run past what is practical and is left to the
proofs. Two documents and two numbers are what
competition for an order or a number needs; crashes with two documents are left to
the proofs (which cover any number of both) and to a later run. In `intake` the same
file comes as an upload and as an attachment; mails before the unreadable one, and
the retry of a poll after a restart, occur. In `memory` three failures reach the cap,
and an entry of the cache, a wait and a query have several lengths that can fall to
either side of one another; accounts do not touch each other's entries, so one will do.
In `inbox` two polls of one page are enough for one answer to overtake another, one
login for a page and its session to part, and the bill of the CFO for a decision that
one of the two may not take. In `dashboard` two requests are enough for one
answer to overtake another, and one document for a list that is right, empty by the
search, or empty by the past; documents do not touch each other's rows.

**Fairness.** Of `Verity`: `WF(Worker)`: the worker loop goes on when it can.
`WF(Timers(d))`: backoff timers and the stall check fire, and the delivered `failed`
event is handled. `WF(Enqueue(d))`: an upload that has written its row goes on. These
are run by the Node event loop and by BullMQ, nobody has to ask for them. Nothing is
assumed of people, the ERP's users, faults or crashes. `two_documents` has no crashes:
with them `EveryJobSettles` is false, for the reason that `claim_restart` shows. Of
`Intake`: calls run to their end, the poll timer fires, a shutdown goes on and the
platform restarts the process; uploads, mails, failures and stops are owed by nobody.
Of `Dashboard`: timers fire and the server answers; the strong fairness of `Debounce`
only makes up for the bound on requests in flight, which a browser does not have. Of
`Memory`: time goes on, the hourly timer fires and queries end. Of `Inbox`: the pages'
timers fire, handlers go on and answers arrive; nobody has to press a button, log in or
work in the ERP.

**Deadlock** is checked in `intake` (a running process takes uploads, a stopped one
boots) and `dashboard` (the page polls forever). It is not checked in the runs of
`Verity` (with bounded faults and finitely many documents the system stops when
everything is settled), in `registration` (every request is answered), in `inbox`
(everybody may have logged out) and in `memory` (its restart is always possible).

### What the repository says and the code does not do

Each run refutes one claim. Those about a status (`Claims`) are stated for a document
*at rest*: not in the worker's hand, in no request, in no pending upload or event.

| run | the claim | what happens |
|---|---|---|
| `claim_retries` | `queue.ts:7-10`, `processDocument.ts:92`: failures are retried | the second attempt fails on the unique Extraction row of the first; one fault after the extraction is final |
| `claim_restart` | `queue.ts:9`: a job survives a restart | the stalled job skips its document, which is EXTRACTING, and completes |
| `claim_pending` | `page.tsx:26`: PENDING_APPROVAL waits for a person | an approver decides before the worker writes PENDING_APPROVAL over the decision |
| `claim_remembered` | `gmailPoller.ts:118-119`: a UID is remembered only after success | one failing call while an attachment is ingested: the mail is remembered, the file is not recorded |
| `claim_clean_exit` | `index.ts:62-63`: a shutdown finishes what is in flight | the queue closes before the HTTP server and the poller: a row is written and its job refused |

None of them breaks the safety properties above: money and records stay right, and
it is the document that gets stuck or looks wrong.

Observed in the code while modelling, each worth a decision of the team, without a
run of its own so far:

- a second approver's late write takes PAID back to APPROVED (`app.ts:292`);
- a failing last audit event takes a finished document to FAILED and has it processed
  again (`processDocument.ts:92`): why `FinishedStaysFinished` is stated for behaviours
  without a failing call;
- a process that dies twice within the job of one document may have the queue fail the
  job, and FAILED written over a document that was finished (`queue.ts:60-65`): why the
  two claims about finished documents are stated for one crash;
- a QUEUED row without a job, after a failure or a crash between the two, is kept out
  by the duplicate check on every later upload (`ingestFile.ts:48`);
- of two vendors of the same name `matchVendor` takes the first listed (`verify.ts`);
- of two people who register the same new organization at once, one gets a 500
  (`app.ts:64`);
- organization names that differ only in separators share an ERP tenant tag
  (`app.ts:68`);
- the page shows its first-run text for a moment when a search that found nothing is
  cleared (`page.tsx:119`), although it "disappears for good as soon as a single invoice
  exists" (`page.tsx:156`);
- for up to a minute after an organization's ERP settings change, calls go to the old
  ERP (`erpClient.ts:36`);
- of two people who decide the same invoice at once, the second is answered by the ERP's
  refusal, and the task's `decidedBy` becomes "decided directly in the ERP" over the
  name of the first, with a Conflict event, although nobody was in the ERP
  (`app.ts:261-278`; `app.ts:231` says the log records the real person);
- the late 401 of an old token logs out the session somebody has opened since
  (`api.ts:85-88`);
- the message about a decision that failed goes with the next poll, three seconds later
  at most (`approvals/page.tsx:29`);
- a failed job that is retried by hand finds its document FAILED, skips it and completes
  (`index.ts:31`, `processDocument.ts:26`);
- `removeDocuments.ts:86-88` says that removed mails in the window will be ingested
  again: not before a restart, since the poller remembers their UIDs.

## 5. What is proved

For every value of the constants that satisfies the named assumptions
(`OrdersAssumption`, `ReadingsAssumption`, `DirectAssumption`, `UsersAssumption`,
`CrashesAssumption`; `IntakeAssumption`; `RegistrationAssumption`; `PeopleAssumption`;
`LoginAssumption`, `DelayAssumption`, `ErpConfigAssumption`; `DashboardAssumption`).
`DelayAssumption` says of the powers of two that they are numbers and grow: the prover
knows no powers, and TLC evaluates it for the run's counts.

| theorem | statement |
|---|---|
| `VerityProofs!TypeCorrect` | `Spec => []TypeOK` |
| `VerityProofs!KnowledgeHolds` | `Spec => []IInv` |
| `VerityProofs!StatusTruthful` | `Spec => []StatusTellsTheErpTruth` |
| `VerityProofs!BilledOnce` | `Spec => []OneInvoicePerDocument` |
| `VerityProofs!StoppedMovesNoMoney` | `Spec => []StoppedMeansNoInvoice` |
| `VerityProofs!WrittenOnce` | `Spec => RecordsAreFinal` |
| `MoneyProofs!OrdersBilledOnce` | `Spec => []OrderBilledOnce` |
| `MoneyProofs!PaymentsMatch` | `Spec => []PaymentMatchesOrder` |
| `MoneyProofs!PromiseKept` | `Spec => KeepsThePromise`: `Verity` implements `Payables` |
| `ClaimsProofs!JobsKnown` | `Spec => []JobsInv` |
| `ClaimsProofs!NothingStuck` | `Spec => []NothingStuckWithoutFailures` |
| `ClaimsProofs!FailuresStick` | `Spec => []FailuresStickToOneDocument` |
| `ClaimsProofs!FailuresHide` | `Spec => []FailuresHideOneDecision` |
| `ClaimsProofs!FinishedStand` | `Spec => FinishedStaysFinished` |
| `ClaimsProofs!PendingHasTask` | `Spec => []PendingMeansTask` |
| `ClaimsProofs!PeopleHaveTheLastWord` | `Spec => OnlyPeopleAfterwards` |
| `IntakeProofs!FrontDoorKnows` | `Spec => []IntakeInv` |
| `IntakeProofs!NothingSlips` | `Spec => []NothingDropped` |
| `IntakeProofs!NothingLost` | `Spec => []NothingLostWithoutFailures` |
| `IntakeProofs!FailuresCost` | `Spec => []EachFailureCostsOneFile` |
| `IntakeProofs!OneDoor` | `Spec => KeepsOneDoor`: `Intake` implements `Admission` |
| `RegistrationProofs!RegistrationsKnow` | `Spec => []RegistrationInv` |
| `RegistrationProofs!AnswersStayTrue` | `Spec => []AnswersAreTrue` |
| `RegistrationProofs!NoSilentOrphans` | `Spec => []EmptyOrganizationsAreReported` |
| `InboxProofs!RecordedTruly` | `Spec => []NamedPersonDecided` |
| `InboxProofs!HonestInbox` | `Spec => []ButtonsAreHonest` |
| `MemoryProofs!WaitsBounded` | `Spec => []WaitsAreBounded` |
| `MemoryProofs!WaitsStandFirm` | `Spec => WaitsStand` |
| `MemoryProofs!NoLongStaleCalls` | `Spec => []NeverLongStale` |
| `DashboardProofs!PageTyped` | `Spec => []DashboardTypeOK` |
| `DashboardProofs!StaysInStep` | `Spec => OnlyNewsUnsettles` |

**The argument for `Verity`.** None of the properties is inductive alone: that a late
handler writes the truth depends on what it learned several calls ago.
`Invariants!IInv` says for each program counter of the worker (`Established`) and of
every request (`Carried`) what is known at that point, and that an invoice belongs to
the document it was raised for and carries the number of its reading
(`RaisedFromReading`, `LinkedToOwn`). Three facts carry the step:

1. *The ERP is monotone* (`VerityProofs!Monotone`): an invoice does not vanish, APPROVED
   only becomes PAID, REJECTED and PAID stand. So an answer, once true, stays true
   while a handler awaits (`BackedStays`).
2. *Rows are written once* (`FinalStep`): the unique Extraction row, the link only
   in `MarkMatched`, the task only in `CreateTask`.
3. *An attempt bills before it can be repeated, and cannot be repeated after
   reading*: `ReadInvoice` needs an absent Extraction row, so the attempt that
   raised an invoice is the last that gets past the extraction.

The first lemmas state for each component which variables its actions can change, so that
each later lemma looks only at the actions that disturb its formula
(`WorkerKnowsStep`, `RequestKnowsStep`, `StatusStep`, `StoppedStep`, ...).
`InvStep` joins them, and each theorem follows from `Spec => []Inv`.

**The argument about money** (`MoneyProofs`) builds on the same invariant and adds
`MoneyInv`: every live bill carries the order, vendor and amount of a clean reading
(`Faithful`); an order with a live bill is no longer open (`OrdersTaken`); an invoice
nobody has decided has no decider, and one that is not paid no payment (`NobodyYet`,
`Unpaid`); and while the worker is between `verify` and `createInvoice`, the order it
verified is still open (`StillOpen`). The last is what makes the stale list of open
orders harmless: only the worker bills, and it holds one document at a time. Under
`MoneyInv` each step of the server is, through `Ledger`, a step of `Payables`:
`createInvoice` raises, a decision (by the rule, by an approver or in the ERP) resolves
with the authority for the order's amount, a payment pays, and everything else stutters.

**The argument about stuck documents** (`ClaimsProofs`) adds `JobsInv` to `IInv`:

1. `JobsFit`: the worker's job is the active one, and a job whose last failure has yet to
   be handled has used up its attempts.
2. `TaskComesFirst`: there is a task before a document is left to people. A task is never
   taken back, so that `PendingMeansTask` survives the statuses other handlers write.
3. `NoJobAbandoned`: an active job that is in nobody's hand takes a crash, and one that
   has stalled before takes two: so it takes two for the queue to fail a job early.
4. `FailuresIsolated`: all but at most `faults` documents are undisturbed. An undisturbed
   document that people may act on is past everything in its pipeline that could fail
   (`PeopleUndisturbed`, until the process has died twice), and without a crash one that
   is under way has somebody to go on with it (`SomebodyGoesOn`).

The fourth is what makes the two kinds of claims one proof. The code does not record which
document a failing call hit, so the invariant says that *some* set of documents, no larger
than the number of failures, holds all that were disturbed. A step without a failure keeps
every undisturbed document undisturbed (`PeopleUndisturbedStep`, `SomebodyGoesOnStep`,
each by who can write a status, a job or an event at all: `StatusWriters`, `JobWriters`,
`HookWriters`, `WorkerMoves`). A step with one is made for one document, and leaves
every other document's part of the invariant alone (`OneFailure`); that
document joins the set. With no failures the set is empty (`NoneDisturbed`), which gives
`NothingStuckWithoutFailures` and `FinishedStaysFinished`; with some, every stuck document
is in it, which gives `FailuresStickToOneDocument`, and so is every document whose task
its status hides, which gives `FailuresHideOneDecision`. `PendingMeansTask` and
`OnlyPeopleAfterwards` hold whatever fails, and need only `TaskComesFirst` and `JobsFit`.

**For `Inbox`**, the names on the tasks are as good as what each request carries: the
invariant says that a request about to write a name has had its decision accepted by the
ERP, or carries the mark of a refusal, and that decisions stand. `ButtonsAreHonest` needs
that a task's role never changes, so that what the page compared is what the server
compares.

**For `Memory`**, a wait that is not over was earned (`WaitsAreEarned`): its account has
failed more often than is free, and it is no longer than the delay of that many
failures, so that the next one, whose delay is at least as long, does not shorten it. An
entry of the cache was replaced at most `MaxRead` longer ago than
it is old, and what a query brings at most as long ago as the query has taken.

**For `Dashboard`**, `InStep` is written so that every step of the page keeps it: a new
request is for the search in the box because the poll and the uploads under way hold it
(`RefreshInStep`), and an answer is the listing the page already shows. The steps of
the server change it, and are excused, because each changes a row (`ServerStep`).

**For `Intake`**, `IntakeInv` is inductive as it stands: `CallersKnow` says what a
caller of `ingestFile` has established before each call, and the unique key makes the
caller that created the row the only one with a job to place. Under it every step maps
to `Keep`, `Record`, `PlaceJob` or a stutter. For `NothingLostWithoutFailures` the
invariant is `NothingDropped`, which follows a file from hand to hand. For
`EachFailureCostsOneFile` the files to be counted include those of the mail the poller is
at (`Dropped`): a failing call adds the file in hand to them (`DroppedByFailure`), every
other step adds none, and remembering the mail moves its files from one half of the
count to the other.

**For `Registration`**, `RegistrationInv` adds to the answers that an organization a
request has found or made is there when it writes the user; the unique keys decide
between requests whose lookups both found nothing.

**Only model-checked** are the seven liveness properties: `EveryJobSettles`,
`EveryMailRecorded`, `QuietAccountsAreForgotten`, `ListCatchesUp`, `PagesCatchUp`,
`ActionsEnd` and `ExpiredSessionsEnd`. Liveness under fairness, and ENABLED, are outside
what the prover handles. Every invariant and every action property that a passing run
checks is proved.

## 6. Not modelled

- **Request limits** per address and per user (`express-rate-limit`): they turn requests
  away before they start, and every request of the models may as well not be made.
- **The role check of the upload** (`app.ts`), a condition on a constant.
- **Invoices, orders and vendors raised by the ERP's own users**: the ERP's master data
  is constant, its users decide and pay.
- **What audit events say.** No decision reads them; that writing one may fail is in the
  models wherever the code writes one.
- **The other buttons of the queue dashboard**, and the removal of old jobs from Valkey.
- **Maintenance scripts**: run by hand beside the server; `removeDocuments.ts` is a
  second writer of every row, against which no handler is written.
- **Text extraction and prompts**: the AI may read anything in `Readings`.
- **Forms, chips, the first-run text and layout** of the web front end, and
  configuration: no state that anything else depends on.
- **Two people who may both decide, and two documents, in one run of `Inbox`**: with the
  polls, the sessions and the handlers of each, such an instance is more than TLC
  finishes in five minutes. `RecordedTruly` and `HonestInbox` are proved for any number
  of either; that every button comes back (`ActionsEnd`), although `busyId` of the inbox
  is shared by its rows, is checked for one document only.
- **Which copy of an original a row names**: the store of `Intake` is the set of contents
  it holds.

## 7. Plan

Done, where money moves first: the payables system, its abstract ledger, and the proofs
of its safety properties and of the refinement; the front door with the poller and the
life of the process, and its refinement; registration; what the process remembers; the
documents page, the inbox and the document page with the session they share; the proofs
of every safety property, of what a failure can cost among them.

Next, in this order:

1. **The safety half of the liveness properties**: that a document whose job is in the
   queue always has a step left that brings it nearer its end, as an invariant over the
   attempts made, from `JobsInv`.
2. **What crashes cost**: a bound on the stuck documents that counts crashes too; a crash
   loses the attempt in hand and every undelivered event, so one document is not enough.
3. **The claim of `verify.ts:35-36`** that an ambiguous name always goes to a human, which
   two vendors of exactly the same name refute (section 4).
4. **The ERP's own users** raising invoices and orders, so that the gap between `verify`
   and `createInvoice` can be disturbed; and two documents with crashes.
5. **What the audit trail promises**: which events a settled document is sure to have.
