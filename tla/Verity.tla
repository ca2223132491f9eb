------------------------------- MODULE Verity -------------------------------
(***************************************************************************)
(* The whole server: the front door, the queue and its worker, the         *)
(* handlers of the approvers, and the ERP with its own users, all sharing  *)
(* the product database and the ERP.                                       *)
(*                                                                         *)
(* A crash kills the one server process (index.ts runs the worker and the  *)
(* HTTP server together) and the platform starts it again: what lives in   *)
(* memory is gone, the two databases and the queue stay.                   *)
(***************************************************************************)
EXTENDS Pipeline, Approvals, Ingest

CONSTANT MaxCrashes  \* how many times the process may die

VARIABLE crashes

vars == <<workflowVars, faults, erpVars, queueVars, worker, req, ingesting, crashes>>

ASSUME CrashesAssumption == MaxCrashes \in Nat

TypeOK ==
  /\ WorkflowTypeOK
  /\ ErpTypeOK
  /\ QueueTypeOK
  /\ WorkerTypeOK
  /\ ApprovalsTypeOK
  /\ IngestTypeOK
  /\ crashes \in 0 .. MaxCrashes

Init ==
  /\ WorkflowInit
  /\ ErpInit
  /\ QueueInit
  /\ WorkerInit
  /\ ApprovalsInit
  /\ IngestInit
  /\ crashes = 0

Crash ==
  /\ crashes < MaxCrashes
  /\ crashes' = crashes + 1
  /\ worker' = Idle
  /\ req' = [u \in Users |-> NoRequest]
  /\ ingesting' = {}
  /\ failedHook' = {}
  /\ UNCHANGED <<workflowVars, faults, erpVars, job>>

\* The components, each leaving the state of the others alone.
Worker ==
  /\ \E d \in Docs : WorkerStep(d)
  /\ UNCHANGED <<req, ingesting, crashes>>

WorkerFails ==
  /\ \E d \in Docs : WorkerFault(d)
  /\ UNCHANGED <<req, ingesting, crashes>>

Timers(d) ==
  /\ \/ BackoffEnds(d)
     \/ worker.doc # d /\ (JobStalls(d) \/ JobStallsAgain(d))
     \/ FailedHandler(d)
  /\ UNCHANGED <<erpVars, worker, req, ingesting, crashes>>

HookFails ==
  /\ \E d \in Docs : FailedHandlerLost(d)
  /\ UNCHANGED <<erpVars, worker, req, ingesting, crashes>>

QueueBoard ==
  /\ \E d \in Docs : RetryFailed(d)
  /\ UNCHANGED <<erpVars, worker, req, ingesting, crashes>>

People ==
  /\ \E u \in Users : RequestArrives(u) \/ RequestStep(u) \/ RequestFails(u)
  /\ UNCHANGED <<queueVars, worker, ingesting, crashes>>

FrontDoor ==
  /\ \E d \in Docs : IngestCreate(d) \/ IngestFails(d)
  /\ UNCHANGED <<erpVars, worker, req, crashes>>

Enqueue(d) ==
  /\ IngestEnqueue(d)
  /\ UNCHANGED <<erpVars, worker, req, crashes>>

ErpUsers ==
  /\ DirectInErp
  /\ UNCHANGED <<queueVars, worker, req, ingesting, crashes>>

Next ==
  \/ Worker
  \/ WorkerFails
  \/ \E d \in Docs : Timers(d)
  \/ HookFails
  \/ QueueBoard
  \/ People
  \/ FrontDoor
  \/ \E d \in Docs : Enqueue(d)
  \/ ErpUsers
  \/ Crash

(***************************************************************************)
(* The worker loop, the queue's timers, its event handler and the rest of  *)
(* an upload are scheduled by the runtime and go on by themselves.         *)
(* Nothing is owed by people, the ERP's users, failures or crashes.        *)
(***************************************************************************)
Fairness ==
  /\ WF_vars(Worker)
  /\ \A d \in Docs : WF_vars(Timers(d)) /\ WF_vars(Enqueue(d))

Spec == Init /\ [][Next]_vars /\ Fairness

-----------------------------------------------------------------------------
(* What the records promise *)

\* The invoice of the document d bears the claim s out in the ERP.
Backed(s, d) ==
  /\ erpInvoiceId[d] # None
  /\ invoice[erpInvoiceId[d]].status \in
       (IF s = "APPROVED" THEN {"APPROVED", "PAID"} ELSE {s})

\* The product database never claims more than the ERP has done: a document
\* is APPROVED, REJECTED or PAID only if its invoice is (an APPROVED one may
\* have been paid meanwhile), and a decided task agrees with the ERP.  The
\* ERP is always written first (app.ts decideApproval and pay,
\* processDocument.ts routing) and every late writer carries an old answer.
StatusTellsTheErpTruth == \A d \in Docs :
  /\ status[d] \in Decided => Backed(status[d], d)
  /\ task[d].status \in Decided => Backed(task[d].status, d)

\* Retries, stalls and restarts never bill a document twice, although the AI
\* may read another invoice number on every attempt.
OneInvoicePerDocument == \A m, n \in Invoices :
  raisedBy[m] # None /\ raisedBy[m] = raisedBy[n] => m = n

\* A document that stopped for review or as a duplicate moved no money
\* (processDocument.ts:66): no invoice was raised for it, so no DUPLICATE is
\* a retry that ran into its own invoice.
StoppedMeansNoInvoice == \A d \in Docs :
  status[d] \in {"NEEDS_REVIEW", "DUPLICATE"} => \A n \in Invoices : raisedBy[n] # d

\* A purchase order is billed by one live invoice at most, although verify
\* reads the open orders two calls before it bills one (processDocument.ts).
OrderBilledOnce == \A m, n \in Invoices :
  /\ InvoiceExists(m) /\ invoice[m].status # "REJECTED"
  /\ InvoiceExists(n) /\ invoice[n].status # "REJECTED"
  /\ invoice[m].order = invoice[n].order
  => m = n

\* Money leaves only for a real order: the sum paid is the order's amount and
\* the vendor on the invoice is the one the order was placed with.
PaymentMatchesOrder == \A n \in Invoices :
  invoice[n].status = "PAID" =>
    /\ invoice[n].order \in Orders
    /\ invoice[n].paid = OrderAmount[invoice[n].order]
    /\ invoice[n].vendor = OrderVendor[invoice[n].order]
    /\ orderStatus[invoice[n].order] = "CLOSED"

\* A reading, a link to the ERP, and the outcome and the role of a decided task
\* are final: no retry, no late handler and no restart writes another value over
\* them, so what an approver read before an await still stands when it is used.
\* Who is named on the task, and when, is written again (app.ts:265-271): Inbox
\* says by whom.
RecordsAreFinal == [][\A d \in Docs :
  /\ extraction[d] # None => extraction'[d] = extraction[d]
  /\ erpInvoiceId[d] # None => erpInvoiceId'[d] = erpInvoiceId[d]
  /\ task[d].status \in {"APPROVED", "REJECTED"} => task'[d] = task[d]]_vars

-----------------------------------------------------------------------------
(* Refinement of the promise about money *)

\* Who may decide a bill of this amount (route.ts:6-8 and app.ts:242-245);
\* people working in the ERP's UI answer to the ERP.
MayDecide(amount) ==
  {by \in Authority : /\ by = "RULE" => amount < 50000
                      /\ by = "FINANCE_HEAD" => 50000 <= amount /\ amount <= 500000}

LedgerState ==
  [ABSENT |-> "none", RECEIVED |-> "raised", PENDING_APPROVAL |-> "raised",
   APPROVED |-> "approved", REJECTED |-> "rejected", PAID |-> "paid"]

Ledger == [n \in Invoices |->
  [state |-> LedgerState[invoice[n].status],
   order |-> invoice[n].order,
   by    |-> decidedBy[n],
   paid  |-> invoice[n].paid]]

Promise == INSTANCE Payables WITH
  Numbers <- Invoices, ledger <- Ledger,
  OrderAuthority <- [o \in Orders |-> MayDecide(OrderAmount[o])]

\* The server keeps the promise of Payables: one bill per order, decided by
\* somebody with the authority for its amount, paid once for that amount.
KeepsThePromise == Promise!PSpec

-----------------------------------------------------------------------------
(* Liveness *)

Settled == {"NEEDS_REVIEW", "PENDING_APPROVAL", "APPROVED", "REJECTED", "PAID",
            "DUPLICATE", "FAILED"}

\* The one way to lose the final word: the job failed, and the update of the
\* handler that should say so as well (queue.ts:60-65).
FinalWordLost(d) ==
  job[d].state = "failed" /\ d \notin failedHook /\ faults > 0

\* Every document whose job waits in the queue, for the first time or retried
\* by hand, ends in a status a person can act on, and stays settled
\* (queue.ts:57: "don't leave it looking QUEUED forever").
EveryJobSettles == \A d \in Docs :
  (job[d].state = "waiting") ~> [](status[d] \in Settled \/ FinalWordLost(d))
=============================================================================
