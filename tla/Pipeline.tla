------------------------------ MODULE Pipeline ------------------------------
(***************************************************************************)
(* processDocument (server/src/pipeline/processDocument.ts) as the queue   *)
(* worker runs it, one document at a time (concurrency 1).  worker.pc      *)
(* names the awaited call the function is about to make; any of them may   *)
(* fail (Throw), and between any two of them the approvers, the ERP's own  *)
(* users and a crash may act.                                              *)
(*                                                                         *)
(* Three abstractions.  A call that takes effect but whose answer is lost  *)
(* is the effect followed by a failure of the next call.  An audit event   *)
(* in the middle is part of the call after it (both only read or append),  *)
(* the last audit event keeps a pc of its own, because its failure undoes  *)
(* a finished document.  The extracted values are read from the Extraction *)
(* row, which the same attempt wrote and which is never written again.     *)
(***************************************************************************)
EXTENDS Erp, JobQueue

VARIABLE worker  \* [pc, doc]: the document in hand

InTry == {"extract", "read", "verify", "create", "match", "route", "task",
          "settle", "audit"}
WorkerPc == {"idle", "start", "failed", "reset", "reject"} \cup InTry
Idle == [pc |-> "idle", doc |-> None]

WorkerTypeOK == worker \in [pc : WorkerPc, doc : Docs \cup {None}]

WorkerInit == worker = Idle

\* The worker stands before the call `pc` for the document d.
At(pc, d) == worker.pc = pc /\ worker.doc = d
Goto(pc) == worker' = [worker EXCEPT !.pc = pc]

Read(d) == extraction[d]
Number(d) == Read(d).invoiceNo
Route(d) == route(Read(d).amount)

TakeJob(d) ==
  /\ worker.pc = "idle"
  /\ Activate(d)
  /\ worker' = [pc |-> "start", doc |-> d]
  /\ UNCHANGED <<workflowVars, faults, erpVars>>

\* Mutant of StartAttempt: the idempotency guard is missing.
StartAttemptAlways(d) ==
  /\ At("start", d)
  /\ Goto("extract")
  /\ UNCHANGED <<workflowVars, faults, erpVars, queueVars>>

\* The idempotency guard: only a QUEUED document is processed.
StartAttempt(d) ==
  /\ At("start", d)
  /\ status[d] = "QUEUED"
  /\ Goto("extract")
  /\ UNCHANGED <<workflowVars, faults, erpVars, queueVars>>

SkipAttempt(d) ==
  /\ At("start", d)
  /\ status[d] # "QUEUED"
  /\ Complete(d)
  /\ worker' = Idle
  /\ UNCHANGED <<workflowVars, faults, erpVars>>

MarkExtracting(d) ==
  /\ At("extract", d)
  /\ setStatus(d, "EXTRACTING")
  /\ Goto("read")
  /\ UNCHANGED <<erpInvoiceId, extraction, task, faults, erpVars, queueVars>>

\* Mutant of ReadInvoice: a retry upserts the extraction instead of creating it.
ReadInvoiceUpsert(d) ==
  /\ At("read", d)
  /\ \E x \in Readings :
       /\ x.dueDate = "VALID"
       /\ extraction' = [extraction EXCEPT ![d] = x]
  /\ Goto("verify")
  /\ UNCHANGED <<status, erpInvoiceId, task, faults, erpVars, queueVars>>

(***************************************************************************)
(* The AI reads the file, differently on each attempt if it likes, and the *)
(* reading is stored.  The row is unique per document, and a due date that *)
(* is no date cannot be stored: in both cases the create throws.           *)
(***************************************************************************)
ReadInvoice(d) ==
  /\ At("read", d)
  /\ extraction[d] = None
  /\ \E x \in Readings :
       /\ x.dueDate = "VALID"
       /\ extraction' = [extraction EXCEPT ![d] = x]
  /\ Goto("verify")
  /\ UNCHANGED <<status, erpInvoiceId, task, faults, erpVars, queueVars>>

ReadInvoiceThrows(d) ==
  /\ At("read", d)
  /\ \/ extraction[d] # None
     \/ \E x \in Readings : x.dueDate # "VALID"
  /\ Goto("failed")
  /\ UNCHANGED <<workflowVars, faults, erpVars, queueVars>>

FlagForReview(d) ==
  /\ At("verify", d)
  /\ ~verify(Read(d), listOpenPOs)
  /\ setStatus(d, "NEEDS_REVIEW")
  /\ Goto("audit")
  /\ UNCHANGED <<erpInvoiceId, extraction, task, faults, erpVars, queueVars>>

VerifyClean(d) ==
  /\ At("verify", d)
  /\ verify(Read(d), listOpenPOs)
  /\ Goto("create")
  /\ UNCHANGED <<workflowVars, faults, erpVars, queueVars>>

CreateInvoice(d) ==
  /\ At("create", d)
  /\ createInvoice(Number(d), Read(d).poNumber, VerifiedVendor(Read(d)),
                   Read(d).amount, d)
  /\ Goto("match")
  /\ UNCHANGED <<workflowVars, faults, queueVars>>

\* 409: the second line of duplicate defence.
CreateConflict(d) ==
  /\ At("create", d)
  /\ InvoiceExists(Number(d))
  /\ setStatus(d, "DUPLICATE")
  /\ Goto("audit")
  /\ UNCHANGED <<erpInvoiceId, extraction, task, faults, erpVars, queueVars>>

MarkMatched(d) ==
  /\ At("match", d)
  /\ setStatus(d, "MATCHED")
  /\ erpInvoiceId' = [erpInvoiceId EXCEPT ![d] = Number(d)]
  /\ Goto("route")
  /\ UNCHANGED <<extraction, task, faults, erpVars, queueVars>>

\* Mutant of RouteToErp: the task is left to be made later.
RouteToErpWithoutTask(d) ==
  /\ At("route", d)
  /\ IF Route(d) = "AUTO_APPROVE"
       THEN Decide(Number(d), "APPROVED", "RULE")
       ELSE AwaitApproval(Number(d))
  /\ Goto("settle")
  /\ UNCHANGED <<workflowVars, faults, queueVars>>

RouteToErp(d) ==
  /\ At("route", d)
  /\ IF Route(d) = "AUTO_APPROVE"
       THEN Decide(Number(d), "APPROVED", "RULE") /\ Goto("settle")
       ELSE AwaitApproval(Number(d)) /\ Goto("task")
  /\ UNCHANGED <<workflowVars, faults, queueVars>>

\* Mutant of RouteRefused: the task is made before the ERP is asked.
RouteRefusedAfterTask(d) ==
  /\ At("route", d)
  /\ ~Accepts(Number(d))
  /\ task' = [task EXCEPT ![d] = [status |-> "PENDING", requiredRole |-> Route(d)]]
  /\ Goto("failed")
  /\ UNCHANGED <<status, erpInvoiceId, extraction, faults, erpVars, queueVars>>

\* 400: somebody decided the new invoice in the ERP's UI already.
RouteRefused(d) ==
  /\ At("route", d)
  /\ ~Accepts(Number(d))
  /\ Goto("failed")
  /\ UNCHANGED <<workflowVars, faults, erpVars, queueVars>>

CreateTask(d) ==
  /\ At("task", d)
  /\ task[d].status = "NONE"
  /\ task' = [task EXCEPT ![d] = [status |-> "PENDING", requiredRole |-> Route(d)]]
  /\ Goto("settle")
  /\ UNCHANGED <<status, erpInvoiceId, extraction, faults, erpVars, queueVars>>

Settle(d) ==
  /\ At("settle", d)
  /\ setStatus(d, IF Route(d) = "AUTO_APPROVE" THEN "APPROVED" ELSE "PENDING_APPROVAL")
  /\ Goto("audit")
  /\ UNCHANGED <<erpInvoiceId, extraction, task, faults, erpVars, queueVars>>

FinishAttempt(d) ==
  /\ At("audit", d)
  /\ Complete(d)
  /\ worker' = Idle
  /\ UNCHANGED <<workflowVars, faults, erpVars>>

\* An awaited call fails: inside the try block the catch runs, before it
\* the attempt is rejected at once.
Throw(d) ==
  /\ worker.doc = d
  /\ \/ worker.pc \in InTry /\ Goto("failed")
     \/ worker.pc = "start" /\ Goto("reject")
  /\ Fault
  /\ UNCHANGED <<workflowVars, erpVars, queueVars>>

\* The catch block: FAILED, then QUEUED again so that a retry may run.
CatchFailed(d) ==
  /\ At("failed", d)
  /\ setStatus(d, "FAILED")
  /\ Goto("reset")
  /\ UNCHANGED <<erpInvoiceId, extraction, task, faults, erpVars, queueVars>>

CatchReset(d) ==
  /\ At("reset", d)
  /\ setStatus(d, "QUEUED")
  /\ Goto("reject")
  /\ UNCHANGED <<erpInvoiceId, extraction, task, faults, erpVars, queueVars>>

\* .catch(() => {}): either of the two writes may be lost without a word.
CatchWriteLost(d) ==
  /\ \/ At("failed", d) /\ Goto("reset")
     \/ At("reset", d) /\ Goto("reject")
  /\ Fault
  /\ UNCHANGED <<workflowVars, erpVars, queueVars>>

RejectAttempt(d) ==
  /\ At("reject", d)
  /\ FailAttempt(d)
  /\ worker' = Idle
  /\ UNCHANGED <<workflowVars, faults, erpVars>>

\* The steps the worker takes by itself, and those a failure adds.
WorkerStep(d) ==
  \/ TakeJob(d) \/ StartAttempt(d) \/ SkipAttempt(d) \/ MarkExtracting(d)
  \/ ReadInvoice(d) \/ ReadInvoiceThrows(d) \/ FlagForReview(d) \/ VerifyClean(d)
  \/ CreateInvoice(d) \/ CreateConflict(d) \/ MarkMatched(d)
  \/ RouteToErp(d) \/ RouteRefused(d) \/ CreateTask(d) \/ Settle(d)
  \/ FinishAttempt(d) \/ CatchFailed(d) \/ CatchReset(d) \/ RejectAttempt(d)

WorkerFault(d) == Throw(d) \/ CatchWriteLost(d)
=============================================================================
