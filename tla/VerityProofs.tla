---------------------------- MODULE VerityProofs ----------------------------
(***************************************************************************)
(* Proofs about Verity, for every value of its constants.                  *)
(***************************************************************************)
EXTENDS Invariants, TLAPS

Inv == TypeOK /\ IInv

-----------------------------------------------------------------------------
(* Frames: for every variable the few actions that write it, so that a proof *)
(* looks only at the actions that can disturb the formula at hand.           *)

\* The worker: which of its actions writes which row or ERP record.
LEMMA WorkerFrame ==
  ASSUME NEW d \in Docs, WorkerStep(d)
  PROVE  /\ faults' = faults
         /\ extraction' = extraction \/ ReadInvoice(d)
         /\ erpInvoiceId' = erpInvoiceId \/ MarkMatched(d)
         /\ task' = task \/ CreateTask(d)
         /\ raisedBy' = raisedBy \/ CreateInvoice(d)
         /\ UNCHANGED erpVars \/ CreateInvoice(d) \/ RouteToErp(d)
         /\ \/ status' = status
            \/ MarkExtracting(d) \/ FlagForReview(d) \/ CreateConflict(d)
            \/ MarkMatched(d) \/ Settle(d) \/ CatchFailed(d) \/ CatchReset(d)
         /\ \/ UNCHANGED queueVars
            \/ TakeJob(d) \/ SkipAttempt(d) \/ FinishAttempt(d) \/ RejectAttempt(d)
BY DEF WorkerStep, TakeJob, StartAttempt, SkipAttempt, MarkExtracting, ReadInvoice,
  ReadInvoiceThrows, FlagForReview, VerifyClean, CreateInvoice, CreateConflict,
  MarkMatched, RouteToErp, RouteRefused, CreateTask, Settle, FinishAttempt,
  CatchFailed, CatchReset, RejectAttempt, workflowVars, erpVars, queueVars, Decide,
  AwaitApproval

\* A failure in the worker writes no row: it only moves the worker on.
LEMMA WorkerFaultFrame ==
  ASSUME WorkerFails
  PROVE  /\ UNCHANGED <<workflowVars, erpVars, queueVars, req, ingesting, crashes>>
         /\ Fault
         /\ \E d \in Docs : Throw(d) \/ CatchWriteLost(d)
BY DEF WorkerFails, WorkerFault, Throw, CatchWriteLost

\* The queue: only the failed handler writes a row, and only the status.
LEMMA QueueFrame ==
  ASSUME NEW d \in Docs, Timers(d)
  PROVE  /\ UNCHANGED <<erpInvoiceId, extraction, task, faults, erpVars, worker, req,
                        ingesting, crashes>>
         /\ \/ FailedHandler(d)
            \/ status' = status
BY DEF Timers, BackoffEnds, JobStalls, JobStallsAgain, FailedHandler, workflowVars

\* The front door: one new row, or none.
LEMMA IngestFrame ==
  ASSUME FrontDoor
  PROVE  /\ UNCHANGED <<erpInvoiceId, extraction, task, queueVars, erpVars, worker, req,
                        crashes>>
         /\ \E d \in Docs :
              \/ IngestCreate(d) /\ faults' = faults
              \/ status' = status /\ ingesting' = ingesting \ {d} /\ Fault
BY DEF FrontDoor, IngestCreate, IngestFails, workflowVars

\* A request: which step of a handler writes which row or ERP record.
LEMMA RequestFrame ==
  ASSUME People
  PROVE  /\ UNCHANGED <<queueVars, worker, ingesting, crashes, erpInvoiceId, extraction,
                        raisedBy>>
         /\ \E u \in Users :
              /\ RequestArrives(u) \/ RequestStep(u) \/ RequestFails(u)
              /\ task' = task \/ RecordTask(u)
              /\ status' = status \/ RecordDecision(u) \/ RecordPayment(u)
              /\ UNCHANGED erpVars \/ DecideInErp(u) \/ PayInErp(u)
              /\ faults' = faults \/ RequestFails(u)
<1>1. PICK u \in Users : RequestArrives(u) \/ RequestStep(u) \/ RequestFails(u)
  BY DEF People
<1>2. /\ UNCHANGED <<erpInvoiceId, extraction, raisedBy>>
      /\ task' = task \/ RecordTask(u)
      /\ status' = status \/ RecordDecision(u) \/ RecordPayment(u)
      /\ UNCHANGED erpVars \/ DecideInErp(u) \/ PayInErp(u)
      /\ faults' = faults \/ RequestFails(u)
  BY <1>1 DEF RequestArrives, RequestStep, RequestFails, ReadTask, ReadForPayment,
    DecideInErp, DecisionRefused, ReadActual, RecordTask, RecordDecision, PayInErp,
    PaymentRefused, RecordPayment, workflowVars, erpVars, Decide, createPayment
<1> QED
  BY <1>1, <1>2 DEF People

\* Whatever the ERP does on request of the product or of its own users, an
\* invoice keeps its existence, and a decision stands: APPROVED may only become
\* PAID, REJECTED and PAID are final.
Monotone ==
  \A n \in Invoices :
    /\ invoice'[n].status = "ABSENT" <=> invoice[n].status = "ABSENT"
    /\ invoice[n].status = "APPROVED" => invoice'[n].status \in {"APPROVED", "PAID"}
    /\ invoice[n].status = "REJECTED" => invoice'[n].status = "REJECTED"
    /\ invoice[n].status = "PAID" => invoice'[n].status = "PAID"

\* A decision in the ERP (approve or reject) is monotone.
LEMMA DecideMonotone ==
  ASSUME ErpTypeOK, NEW n, NEW s \in Decided, NEW by, Decide(n, s, by)
  PROVE  Monotone
BY DEF ErpTypeOK, Decide, Accepts, Monotone, Undecided, Decided, Invoice

\* Sending an undecided invoice to approval is monotone.
LEMMA AwaitMonotone ==
  ASSUME ErpTypeOK, NEW n, AwaitApproval(n)
  PROVE  Monotone
BY DEF ErpTypeOK, AwaitApproval, Accepts, Monotone, Undecided, Invoice

\* A payment is monotone: it only takes APPROVED to PAID.
LEMMA PayMonotone ==
  ASSUME ErpTypeOK, NEW n, NEW a, createPayment(n, a)
  PROVE  Monotone
BY DEF ErpTypeOK, createPayment, Monotone, Invoice

\* So is whatever people do in the ERP's own UI.
LEMMA DirectMonotone ==
  ASSUME ErpTypeOK, DirectInErp
  PROVE  Monotone
<1>1. PICK n \in Invoices :
         \/ \E s \in DirectDecisions \cap {"APPROVED", "REJECTED"} : Decide(n, s, "ERP")
         \/ createPayment(n, invoice[n].amount)
  BY DEF DirectInErp
<1>2. CASE \E s \in DirectDecisions \cap {"APPROVED", "REJECTED"} : Decide(n, s, "ERP")
  BY <1>2, DecideMonotone DEF Decided
<1>3. CASE createPayment(n, invoice[n].amount)
  BY <1>3, PayMonotone
<1> QED
  BY <1>1, <1>2, <1>3

-----------------------------------------------------------------------------
(* Lemmas about the rules and the rows *)

\* What a clean verdict tells about the reading and the order it names.
LEMMA VerifiedFacts ==
  ASSUME NEW x \in Readings, NEW open, verify(x, open), open \subseteq Orders
  PROVE  /\ verify(x, Orders)
         /\ x.invoiceNo \in Invoices
         /\ x.poNumber \in Orders
         /\ x.amount = OrderAmount[x.poNumber]
         /\ x.amount \in Int
         /\ VerifiedVendor(x) = OrderVendor[x.poNumber]
         /\ VerifiedVendor(x) \in VendorIds
<1>1. /\ x.poNumber \in Orders
      /\ matchVendor(VendorList, x.vendorName) = {OrderVendor[x.poNumber]}
  BY DEF verify
<1>2. VerifiedVendor(x) = OrderVendor[x.poNumber]
  BY <1>1 DEF VerifiedVendor
<1>3. OrderVendor[x.poNumber] \in VendorIds
  BY <1>1, OrdersAssumption
<1> QED
  BY <1>1, <1>2, <1>3, ReadingsAssumption DEF verify

\* The two thresholds, in this order.
LEMMA Thresholds ==
  /\ AUTO_APPROVE_BELOW \in Int
  /\ CFO_ABOVE \in Int
  /\ AUTO_APPROVE_BELOW <= CFO_ABOVE
BY SMT DEF AUTO_APPROVE_BELOW, CFO_ABOVE

\* route knows three answers, and which one an amount gets.
LEMMA RouteFacts ==
  ASSUME NEW amount \in Int
  PROVE  /\ route(amount) = "AUTO_APPROVE" <=> amount < AUTO_APPROVE_BELOW
         /\ route(amount) = "CFO" <=> amount > CFO_ABOVE
         /\ route(amount) \in {"AUTO_APPROVE", "CFO", "FINANCE_HEAD"}
<1>1. CASE amount < AUTO_APPROVE_BELOW
  BY <1>1, Thresholds DEF route
<1>2. CASE amount > CFO_ABOVE
  BY <1>2, Thresholds DEF route
<1>3. CASE ~(amount < AUTO_APPROVE_BELOW) /\ ~(amount > CFO_ABOVE)
  BY <1>3, Thresholds DEF route
<1> QED
  BY <1>1, <1>2, <1>3

\* A claim that is backed stays backed while the link stands and the ERP is
\* monotone.
LEMMA BackedStays ==
  ASSUME NEW d \in Docs, NEW s \in Decided, Backed(s, d), TypeOK,
         Monotone, erpInvoiceId'[d] = erpInvoiceId[d]
  PROVE  Backed(s, d)'
BY DEF Backed, Monotone, Decided, TypeOK, WorkflowTypeOK

-----------------------------------------------------------------------------
(* Type correctness of each component *)

\* The initial rows, jobs, requests and ERP records have their types.
LEMMA TypeInit == Init => TypeOK
<1> SUFFICES ASSUME Init PROVE TypeOK
  OBVIOUS
<1>1. WorkflowTypeOK
  BY ReadingsAssumption DEF Init, WorkflowInit, WorkflowTypeOK, NoTask, Task, DocStatus,
    ApprovalStatus
<1>2. ErpTypeOK
  BY DEF Init, ErpInit, ErpTypeOK, NoInvoice, Invoice, InvoiceStatus
<1>3. QueueTypeOK
  BY DEF Init, QueueInit, QueueTypeOK, NoJob, Job, JobState, Attempts
<1>4. WorkerTypeOK
  BY DEF Init, WorkerInit, WorkerTypeOK, Idle, WorkerPc
<1>5. ApprovalsTypeOK
  BY DEF Init, ApprovalsInit, ApprovalsTypeOK, NoRequest, Request, RequestPc
<1> QED
  BY <1>1, <1>2, <1>3, <1>4, <1>5, CrashesAssumption
     DEF Init, IngestInit, IngestTypeOK, TypeOK

\* Every step writes rows of the schema's types (Workflow).
LEMMA WorkflowTypeStep ==
  ASSUME Inv, [Next]_vars
  PROVE  WorkflowTypeOK'
<1> USE ReadingsAssumption DEF Inv, TypeOK, WorkflowTypeOK
<1>0. CASE UNCHANGED <<workflowVars, faults>>
  BY <1>0 DEF workflowVars
<1>f. Fault => faults' \in 0 .. MaxFaults
  BY DEF Fault
<1>1. CASE Worker
  <2>. PICK d \in Docs : WorkerStep(d)
    BY <1>1 DEF Worker
  <2>1. status' \in [Docs -> DocStatus]
    BY WorkerFrame DEF MarkExtracting, FlagForReview, CreateConflict, MarkMatched, Settle,
      CatchFailed, CatchReset, setStatus, DocStatus
  <2>2. extraction' \in [Docs -> Readings \cup {None}]
    BY WorkerFrame DEF ReadInvoice
  <2>3. erpInvoiceId' \in [Docs -> Invoices \cup {None}]
    <3>1. CASE MarkMatched(d)
      BY <3>1 DEF MarkMatched, IInv, WorkerKnows, Established, At
    <3> QED
      BY <3>1, WorkerFrame
  <2>4. task' \in [Docs -> Task]
    <3>1. CASE CreateTask(d)
      <4>1. Route(d) \in ApproverRole
        BY <3>1 DEF CreateTask, ApproverRole, Route, route, IInv, WorkerKnows, Established, At
      <4> QED
        BY <3>1, <4>1 DEF CreateTask, Task, ApprovalStatus
    <3> QED
      BY <3>1, WorkerFrame
  <2> QED
    BY <2>1, <2>2, <2>3, <2>4, WorkerFrame
<1>2. CASE WorkerFails
  BY <1>2, <1>f, WorkerFaultFrame DEF workflowVars
<1>3. CASE \E d \in Docs : Timers(d)
  BY <1>3, QueueFrame DEF FailedHandler, setStatus, DocStatus
<1>4. CASE HookFails \/ QueueBoard
  BY <1>4, <1>f DEF HookFails, FailedHandlerLost, QueueBoard, RetryFailed, workflowVars
<1>5. CASE People
  <2>. PICK u \in Users :
         /\ task' = task \/ RecordTask(u)
         /\ status' = status \/ RecordDecision(u) \/ RecordPayment(u)
         /\ faults' = faults \/ RequestFails(u)
    BY <1>5, RequestFrame
  <2>1. status' \in [Docs -> DocStatus]
    BY DEF RecordDecision, RecordPayment, setStatus, DocStatus, IInv, RequestKnows, Carried, Decided
  <2>2. task' \in [Docs -> Task]
    BY DEF RecordTask, Task, ApprovalStatus
  <2> QED
    BY <2>1, <2>2, <1>5, <1>f, RequestFrame DEF RequestFails
<1>6. CASE FrontDoor
  BY <1>6, <1>f, IngestFrame DEF IngestCreate, setStatus, DocStatus
<1>7. CASE \E d \in Docs : Enqueue(d)
  BY <1>0, <1>7 DEF Enqueue, IngestEnqueue
<1>8. CASE ErpUsers
  BY <1>0, <1>8 DEF ErpUsers, DirectInErp
<1>9. CASE Crash
  BY <1>0, <1>9 DEF Crash
<1> QED
  BY <1>0, <1>1, <1>2, <1>3, <1>4, <1>5, <1>6, <1>7, <1>8, <1>9 DEF Next, vars

\* Every step leaves well-typed invoices and orders in the ERP (Erp).
LEMMA ErpTypeStep ==
  ASSUME Inv, [Next]_vars
  PROVE  ErpTypeOK'
<1> USE DEF Inv, TypeOK
<1>0. CASE UNCHANGED erpVars
  BY <1>0 DEF erpVars, ErpTypeOK
<1>d. ASSUME NEW n \in Invoices, NEW s \in {"APPROVED", "REJECTED"},
             NEW by \in Authority, Decide(n, s, by)
      PROVE  ErpTypeOK'
  <2>1. invoice' \in [Invoices -> Invoice]
    BY <1>d DEF Decide, ErpTypeOK, Invoice, InvoiceStatus, Decided
  <2>2. orderStatus' \in [Orders -> {"OPEN", "MATCHED", "CLOSED"}]
    BY <1>d DEF Decide, ErpTypeOK
  <2>3. /\ raisedBy' = raisedBy
        /\ decidedBy' \in [Invoices -> Authority \cup {None}]
    BY <1>d DEF Decide, ErpTypeOK
  <2> QED
    BY <2>1, <2>2, <2>3 DEF ErpTypeOK
<1>p. ASSUME NEW n \in Invoices, NEW a \in Int, createPayment(n, a)
      PROVE  ErpTypeOK'
  <2> DEFINE paid == [invoice[n] EXCEPT !.status = "PAID", !.paid = a]
  <2>1. invoice' \in [Invoices -> Invoice]
    <3>1. paid \in Invoice
      BY DEF ErpTypeOK, Invoice, InvoiceStatus, Decided
    <3>2. invoice' = [invoice EXCEPT ![n] = paid]
      BY <1>p DEF createPayment
    <3> HIDE DEF paid
    <3> QED
      BY <3>1, <3>2 DEF ErpTypeOK
  <2>2. orderStatus' \in [Orders -> {"OPEN", "MATCHED", "CLOSED"}]
    BY <1>p DEF createPayment, ErpTypeOK
  <2> QED
    BY <1>p, <2>1, <2>2 DEF createPayment, ErpTypeOK
<1>1. CASE Worker
  <2>. PICK d \in Docs : WorkerStep(d)
    BY <1>1 DEF Worker
  <2>1. CASE CreateInvoice(d)
    <3>1. /\ Read(d) \in Readings
          /\ verify(Read(d), Orders)
      BY <2>1 DEF CreateInvoice, At, IInv, WorkerKnows, Established, WorkflowTypeOK, Read
    <3>2. /\ Read(d).poNumber \in Orders
          /\ VerifiedVendor(Read(d)) \in VendorIds
          /\ Read(d).amount \in Int
      BY <3>1, VerifiedFacts
    <3>3. invoice' \in [Invoices -> Invoice]
      <4> DEFINE new == [status |-> "RECEIVED", order |-> Read(d).poNumber,
            vendor |-> VerifiedVendor(Read(d)), amount |-> Read(d).amount, paid |-> 0]
      <4>1. new \in Invoice
        BY <3>2 DEF Invoice, InvoiceStatus, Undecided
      <4>2. invoice' = [invoice EXCEPT ![Number(d)] = new]
        BY <2>1 DEF CreateInvoice, createInvoice
      <4> HIDE DEF new
      <4> QED
        BY <4>1, <4>2 DEF ErpTypeOK
    <3>4. orderStatus' \in [Orders -> {"OPEN", "MATCHED", "CLOSED"}]
      BY <2>1 DEF CreateInvoice, createInvoice, ErpTypeOK
    <3>5. /\ raisedBy' \in [Invoices -> Docs \cup {None}]
          /\ decidedBy' = decidedBy
      BY <2>1 DEF CreateInvoice, createInvoice, ErpTypeOK
    <3> QED
      BY <3>3, <3>4, <3>5 DEF ErpTypeOK
  <2>2. CASE RouteToErp(d)
    <3>1. Number(d) \in Invoices
      BY <2>2 DEF RouteToErp, At, IInv, WorkerKnows, Established
    <3>2. CASE AwaitApproval(Number(d))
      BY <3>1, <3>2 DEF AwaitApproval, ErpTypeOK, Invoice, InvoiceStatus, Undecided
    <3>3. CASE Decide(Number(d), "APPROVED", "RULE")
      BY <3>1, <3>3, <1>d DEF Authority
    <3> QED
      BY <2>2, <3>2, <3>3 DEF RouteToErp
  <2> QED
    BY <2>1, <2>2, <1>0, WorkerFrame
<1>2. CASE WorkerFails
  BY <1>0, <1>2, WorkerFaultFrame
<1>3. CASE \E d \in Docs : Timers(d)
  BY <1>0, <1>3, QueueFrame
<1>4. CASE People
  <2>. PICK u \in Users : UNCHANGED erpVars \/ DecideInErp(u) \/ PayInErp(u)
    BY <1>4, RequestFrame
  <2>1. CASE DecideInErp(u)
    <3>1. /\ req[u].invoice \in Invoices
          /\ req[u].outcome \in {"APPROVED", "REJECTED"}
      BY <2>1 DEF DecideInErp, IInv, RequestKnows, Carried
    <3>2. Role[u] \in Authority
      <4>1. req[u].doc \in Docs /\ extraction[req[u].doc] \in Readings
        BY <2>1, ReadingsAssumption DEF DecideInErp, IInv, RequestKnows, Carried, LinkedToOwn,
          RaisedFromReading, WorkflowTypeOK
      <4>2. Route(req[u].doc) \in {"AUTO_APPROVE", "CFO", "FINANCE_HEAD"}
        BY <4>1, ReadingsAssumption, RouteFacts DEF Route, Read
      <4> QED
        BY <2>1, <4>2 DEF DecideInErp, IInv, RequestKnows, Carried, LinkedToOwn, Outranks, Authority
    <3> QED
      BY <2>1, <3>1, <3>2, <1>d DEF DecideInErp
  <2>2. CASE PayInErp(u)
    <3>1. /\ req[u].invoice \in Invoices
          /\ extraction[req[u].doc] \in Readings
      BY <2>2, ReadingsAssumption DEF PayInErp, IInv, RequestKnows, Carried, LinkedToOwn,
        RaisedFromReading, WorkflowTypeOK
    <3> QED
      BY <2>2, <3>1, <1>p, ReadingsAssumption DEF PayInErp
  <2> QED
    BY <2>1, <2>2, <1>0
<1>5. CASE ErpUsers
  <2>. PICK n \in Invoices :
         \/ \E s \in DirectDecisions \cap {"APPROVED", "REJECTED"} : Decide(n, s, "ERP")
         \/ createPayment(n, invoice[n].amount)
    BY <1>5 DEF ErpUsers, DirectInErp
  <2> QED
    BY <1>d, <1>p DEF Authority, ErpTypeOK, Invoice
<1>6. CASE HookFails \/ QueueBoard \/ FrontDoor \/ Crash \/ \E d \in Docs : Enqueue(d)
  BY <1>0, <1>6 DEF HookFails, QueueBoard, FrontDoor, Crash, Enqueue
<1> QED
  BY <1>0, <1>1, <1>2, <1>3, <1>4, <1>5, <1>6 DEF Next, vars

\* Every step leaves well-typed jobs, with up to three attempts counted (JobQueue).
LEMMA QueueTypeStep ==
  ASSUME Inv, [Next]_vars
  PROVE  QueueTypeOK'
<1> USE DEF Inv, TypeOK, QueueTypeOK
<1>0. CASE UNCHANGED queueVars
  BY <1>0 DEF queueVars
<1>1. CASE Worker
  <2>. PICK d \in Docs : WorkerStep(d)
    BY <1>1 DEF Worker
  <2>1. CASE TakeJob(d)
    BY <2>1 DEF TakeJob, Activate, Job, JobState
  <2>2. CASE SkipAttempt(d) \/ FinishAttempt(d)
    BY <2>2 DEF SkipAttempt, FinishAttempt, Complete, Job, JobState
  <2>3. CASE RejectAttempt(d)
    <3> DEFINE last == job[d].attemptsMade + 1 >= Attempts
               failed == [job[d] EXCEPT
                 !.attemptsMade = IF last THEN Attempts ELSE job[d].attemptsMade + 1,
                 !.state = IF last THEN "failed" ELSE "delayed"]
    <3>1. failed \in Job
      <4>1. (IF last THEN Attempts ELSE job[d].attemptsMade + 1) \in 0 .. Attempts
        BY DEF Job, Attempts
      <4> QED
        BY <4>1 DEF Job, JobState
    <3>2. /\ job' = [job EXCEPT ![d] = failed]
          /\ failedHook' \in {failedHook, failedHook \cup {d}}
      BY <2>3 DEF RejectAttempt, FailAttempt
    <3> HIDE DEF failed
    <3> QED
      BY <3>1, <3>2
  <2> QED
    BY <2>1, <2>2, <2>3, <1>0, WorkerFrame
<1>2. CASE WorkerFails
  BY <1>0, <1>2, WorkerFaultFrame
<1>3. CASE \E d \in Docs : Timers(d)
  <2>. PICK d \in Docs :
         BackoffEnds(d) \/ JobStalls(d) \/ JobStallsAgain(d) \/ FailedHandler(d)
    BY <1>3 DEF Timers
  <2>1. CASE BackoffEnds(d)
    BY <2>1 DEF BackoffEnds, Job, JobState
  <2>2. CASE JobStalls(d)
    <3> DEFINE stalled == [job[d] EXCEPT !.stalled = TRUE, !.state = "waiting"]
    <3>1. stalled \in Job
      BY DEF Job, JobState
    <3>2. job' = [job EXCEPT ![d] = stalled] /\ failedHook' = failedHook
      BY <2>2 DEF JobStalls
    <3> HIDE DEF stalled
    <3> QED
      BY <3>1, <3>2
  <2>3. CASE JobStallsAgain(d)
    <3>1. PICK made \in 0 .. Attempts :
            /\ job' = [job EXCEPT ![d].state = "failed", ![d].attemptsMade = made]
            /\ failedHook' = IF made = Attempts THEN failedHook \cup {d} ELSE failedHook
      BY <2>3 DEF JobStallsAgain
    <3> DEFINE failed == [job[d] EXCEPT !.state = "failed", !.attemptsMade = made]
    <3>2. failed \in Job
      BY DEF Job, JobState
    <3>3. job' = [job EXCEPT ![d] = failed] /\ failedHook' \in {failedHook, failedHook \cup {d}}
      BY <3>1
    <3> HIDE DEF failed
    <3> QED
      BY <3>2, <3>3
  <2>4. CASE FailedHandler(d)
    BY <2>4 DEF FailedHandler
  <2> QED
    BY <2>1, <2>2, <2>3, <2>4
<1>4. CASE HookFails \/ QueueBoard
  BY <1>4 DEF HookFails, FailedHandlerLost, QueueBoard, RetryFailed, Job, JobState
<1>5. CASE People
  BY <1>0, <1>5 DEF People
<1>6. CASE FrontDoor
  BY <1>0, <1>6, IngestFrame
<1>7. CASE \E d \in Docs : Enqueue(d)
  <2> DEFINE new == [NoJob EXCEPT !.state = "waiting"]
  <2>1. new \in Job
    <3>1. NoJob \in Job
      BY DEF NoJob, Job, JobState, Attempts
    <3> QED
      BY <3>1 DEF Job, JobState
  <2>2. failedHook' = failedHook /\ \E d \in Docs : job' = [job EXCEPT ![d] = new]
    BY <1>7 DEF Enqueue, IngestEnqueue, enqueueDocument
  <2> HIDE DEF new
  <2> QED
    BY <2>1, <2>2
<1>8. CASE ErpUsers \/ Crash
  BY <1>0, <1>8 DEF ErpUsers, Crash
<1> QED
  BY <1>0, <1>1, <1>2, <1>3, <1>4, <1>5, <1>6, <1>7, <1>8 DEF Next, vars

\* The worker stands before one of its calls, with a document or idle (Pipeline).
LEMMA WorkerTypeStep ==
  ASSUME Inv, [Next]_vars
  PROVE  WorkerTypeOK' /\ WorkerHolds'
<1> USE DEF Inv, TypeOK, IInv, WorkerTypeOK, WorkerHolds, Idle
<1>0. CASE UNCHANGED worker
  BY <1>0
<1>g. ASSUME NEW pc \in WorkerPc \ {"idle"}, worker.doc # None, Goto(pc)
      PROVE  WorkerTypeOK' /\ WorkerHolds'
  BY <1>g DEF Goto
<1>i. CASE worker' = Idle
  BY <1>i DEF WorkerPc
<1>1. CASE Worker
  <2>. PICK d \in Docs : WorkerStep(d)
    BY <1>1 DEF Worker
  <2>1. CASE TakeJob(d)
    BY <2>1, ReadingsAssumption DEF TakeJob, WorkerPc
  <2>2. CASE worker.doc = d /\ \E pc \in WorkerPc \ {"idle"} : Goto(pc)
    BY <2>2, <1>g, ReadingsAssumption
  <2>3. TakeJob(d) \/ worker' = Idle \/ (worker.doc = d /\ \E pc \in WorkerPc \ {"idle"} : Goto(pc))
    BY DEF WorkerStep, StartAttempt, SkipAttempt, MarkExtracting, ReadInvoice,
      ReadInvoiceThrows, FlagForReview, VerifyClean, CreateInvoice, CreateConflict,
      MarkMatched, RouteToErp, RouteRefused, CreateTask, Settle, FinishAttempt,
      CatchFailed, CatchReset, RejectAttempt, At, WorkerPc, InTry
  <2> QED
    BY <2>1, <2>2, <2>3, <1>i
<1>2. CASE WorkerFails
  <2>1. worker.doc # None /\ \E pc \in WorkerPc \ {"idle"} : Goto(pc)
    BY <1>2, WorkerFaultFrame, ReadingsAssumption
       DEF Throw, CatchWriteLost, At, WorkerPc, InTry
  <2> QED
    BY <2>1, <1>g
<1>3. CASE Crash
  BY <1>3, <1>i DEF Crash
<1>4. CASE \E d \in Docs : Timers(d) \/ Enqueue(d)
  BY <1>0, <1>4 DEF Timers, Enqueue
<1>5. CASE HookFails \/ QueueBoard \/ People \/ FrontDoor \/ ErpUsers
  BY <1>0, <1>5 DEF HookFails, QueueBoard, People, FrontDoor, ErpUsers
<1> QED
  BY <1>0, <1>1, <1>2, <1>3, <1>4, <1>5 DEF Next, vars

\* Every request in flight carries a document, an invoice and an outcome of their types
\* (Approvals).
LEMMA ApprovalsTypeStep ==
  ASSUME Inv, [Next]_vars
  PROVE  ApprovalsTypeOK'
<1> USE DEF Inv, TypeOK, ApprovalsTypeOK
<1>0. CASE UNCHANGED req
  BY <1>0
<1>1. CASE People
  <2>. PICK u \in Users : RequestArrives(u) \/ RequestStep(u) \/ RequestFails(u)
    BY <1>1 DEF People
  <2>s. ASSUME NEW pc \in RequestPc, Stay(u, pc) PROVE ApprovalsTypeOK'
    BY <2>s DEF Stay, Request
  <2>r. CASE Respond(u)
    BY <2>r DEF Respond, NoRequest, Request, RequestPc
  <2>1. ASSUME NEW d \in Docs, ReadTask(u, d) PROVE ApprovalsTypeOK'
    BY <2>1 DEF ReadTask, WorkflowTypeOK, Request, RequestPc, Decided
  <2>2. ASSUME NEW d \in Docs, ReadForPayment(u, d) PROVE ApprovalsTypeOK'
    BY <2>2 DEF ReadForPayment, WorkflowTypeOK, Request, RequestPc
  <2>3. CASE ReadActual(u)
    <3> DEFINE read == [req[u] EXCEPT !.pc = "task",
                                      !.outcome = invoice[req[u].invoice].status]
    <3>1. CASE invoice[req[u].invoice].status \in Decided
      <4>1. read \in Request
        BY <3>1 DEF Request, RequestPc
      <4>2. req' = [req EXCEPT ![u] = read]
        BY <2>3, <3>1 DEF ReadActual
      <4> HIDE DEF read
      <4> QED
        BY <4>1, <4>2
    <3> QED
      BY <2>3, <2>r, <3>1 DEF ReadActual
  <2>4. CASE DecideInErp(u) \/ DecisionRefused(u) \/ RecordTask(u) \/ PayInErp(u)
    BY <2>4, <2>s DEF DecideInErp, DecisionRefused, RecordTask, PayInErp, RequestPc
  <2>5. CASE RecordDecision(u) \/ PaymentRefused(u) \/ RecordPayment(u) \/ RequestFails(u)
    BY <2>5, <2>r DEF RecordDecision, PaymentRefused, RecordPayment, RequestFails
  <2> QED
    BY <2>1, <2>2, <2>3, <2>4, <2>5 DEF RequestArrives, RequestStep
<1>2. CASE Crash
  BY <1>2 DEF Crash, NoRequest, Request, RequestPc
<1>3. CASE \E d \in Docs : Timers(d) \/ Enqueue(d)
  BY <1>0, <1>3 DEF Timers, Enqueue
<1>4. CASE Worker \/ WorkerFails \/ HookFails \/ QueueBoard \/ FrontDoor \/ ErpUsers
  BY <1>0, <1>4 DEF Worker, WorkerFails, HookFails, QueueBoard, FrontDoor, ErpUsers
<1> QED
  BY <1>0, <1>1, <1>2, <1>3, <1>4 DEF Next, vars

\* TypeOK is inductive by itself.
LEMMA TypeStep ==
  ASSUME Inv, [Next]_vars
  PROVE  TypeOK'
<1>1. IngestTypeOK'
  BY DEF Inv, TypeOK, IngestTypeOK, Next, vars, Worker, WorkerFails, Timers, HookFails,
    QueueBoard, People, FrontDoor, IngestCreate, IngestFails, Enqueue, IngestEnqueue, ErpUsers, Crash
<1>2. crashes' \in 0 .. MaxCrashes
  BY CrashesAssumption DEF Inv, TypeOK, Next, vars, Worker, WorkerFails, Timers,
    HookFails, QueueBoard, People, FrontDoor, Enqueue, ErpUsers, Crash
<1> QED
  BY <1>1, <1>2, WorkflowTypeStep, ErpTypeStep, QueueTypeStep, WorkerTypeStep,
     ApprovalsTypeStep DEF TypeOK
-----------------------------------------------------------------------------
(* The inductive invariant, one conjunct at a time *)

\* What each component does to the ERP's record of an existing invoice.
LEMMA MonotoneStep ==
  ASSUME Inv, [Next]_vars
  PROVE  Monotone \/ \E d \in Docs : CreateInvoice(d)
<1> USE DEF Inv, TypeOK
<1>0. CASE UNCHANGED erpVars
  BY <1>0 DEF erpVars, Monotone
<1>1. CASE Worker
  <2>. PICK d \in Docs : WorkerStep(d)
    BY <1>1 DEF Worker
  <2>1. CASE RouteToErp(d)
    BY <2>1, DecideMonotone, AwaitMonotone DEF RouteToErp, Decided
  <2> QED
    BY <2>1, <1>0, WorkerFrame
<1>2. CASE WorkerFails
  BY <1>0, <1>2, WorkerFaultFrame
<1>3. CASE \E d \in Docs : Timers(d)
  BY <1>0, <1>3, QueueFrame
<1>4. CASE People
  <2>. PICK u \in Users : UNCHANGED erpVars \/ DecideInErp(u) \/ PayInErp(u)
    BY <1>4, RequestFrame
  <2>1. CASE DecideInErp(u)
    BY <2>1, DecideMonotone DEF DecideInErp, IInv, RequestKnows, Carried, Decided
  <2>2. CASE PayInErp(u)
    BY <2>2, PayMonotone DEF PayInErp
  <2> QED
    BY <2>1, <2>2, <1>0
<1>5. CASE ErpUsers
  BY <1>5, DirectMonotone DEF ErpUsers
<1>6. CASE HookFails \/ QueueBoard \/ FrontDoor \/ Crash \/ \E d \in Docs : Enqueue(d)
  BY <1>0, <1>6 DEF HookFails, QueueBoard, FrontDoor, Crash, Enqueue
<1> QED
  BY <1>0, <1>1, <1>2, <1>3, <1>4, <1>5, <1>6 DEF Next, vars

\* Which steps write an extraction, raise an invoice, or link one: in all
\* others the three stand.
LEMMA RowsStep ==
  ASSUME [Next]_vars
  PROVE  /\ extraction' = extraction \/ \E d \in Docs : ReadInvoice(d)
         /\ erpInvoiceId' = erpInvoiceId \/ \E d \in Docs : MarkMatched(d)
         /\ raisedBy' = raisedBy \/ \E d \in Docs : CreateInvoice(d)
         /\ \/ task' = task
            \/ \E d \in Docs : CreateTask(d)
            \/ \E u \in Users : RecordTask(u)
<1> USE DEF workflowVars, erpVars
<1>1. CASE Worker
  BY <1>1, WorkerFrame DEF Worker
<1>2. CASE WorkerFails
  BY <1>2, WorkerFaultFrame
<1>3. CASE \E d \in Docs : Timers(d)
  BY <1>3, QueueFrame
<1>4. CASE People
  BY <1>4, RequestFrame
<1>5. CASE FrontDoor
  BY <1>5, IngestFrame
<1>6. CASE HookFails \/ QueueBoard \/ ErpUsers \/ Crash \/ \E d \in Docs : Enqueue(d)
  <2>1. UNCHANGED <<extraction, erpInvoiceId, task>>
    BY <1>6 DEF HookFails, FailedHandlerLost, QueueBoard, RetryFailed, ErpUsers, DirectInErp,
      Crash, Enqueue, IngestEnqueue
  <2>2. raisedBy' = raisedBy
    BY <1>6 DEF HookFails, QueueBoard, ErpUsers, DirectInErp, Decide, createPayment, Crash, Enqueue
  <2> QED
    BY <2>1, <2>2
<1>7. CASE UNCHANGED vars
  BY <1>7 DEF vars
<1> QED
  BY <1>1, <1>2, <1>3, <1>4, <1>5, <1>6, <1>7 DEF Next

\* Every step keeps an invoice tied to the document it was raised for and to the number
\* read out of it: createInvoice is only called with the reading in hand.
LEMMA RaisedStep ==
  ASSUME Inv, [Next]_vars
  PROVE  RaisedFromReading'
<1> USE DEF Inv, TypeOK, IInv, RaisedFromReading
<1>1. CASE \E d \in Docs : CreateInvoice(d)
  <2>. PICK d \in Docs : CreateInvoice(d)
    BY <1>1
  <2>1. /\ extraction[d] # None
        /\ Number(d) \in Invoices
        /\ extraction' = extraction
    BY VerifiedFacts DEF CreateInvoice, At, WorkerKnows, Established, workflowVars, Number, Read,
      WorkflowTypeOK
  <2>2. /\ raisedBy' = [raisedBy EXCEPT ![Number(d)] = d]
        /\ \A n \in Invoices : InvoiceExists(n)' <=> InvoiceExists(n) \/ n = Number(d)
    BY <2>1 DEF CreateInvoice, createInvoice, InvoiceExists, ErpTypeOK
  <2> QED
    BY <2>1, <2>2, ReadingsAssumption DEF ErpTypeOK, Number, Read
<1>2. CASE Monotone /\ raisedBy' = raisedBy
  <2>1. \A n \in Invoices : InvoiceExists(n)' <=> InvoiceExists(n)
    BY <1>2 DEF Monotone, InvoiceExists
  <2>2. \A n \in Invoices : raisedBy[n] # None =>
          extraction'[raisedBy[n]] = extraction[raisedBy[n]]
    BY RowsStep DEF ReadInvoice, WorkflowTypeOK, ErpTypeOK
  <2> QED
    BY <1>2, <2>1, <2>2 DEF Number, Read
<1> QED
  BY <1>1, <1>2, MonotoneStep, RowsStep

\* Every step keeps links and tasks on the document's own invoice: MarkMatched links the
\* invoice just created, CreateTask asks for the role of the same reading.
LEMMA LinkStep ==
  ASSUME Inv, [Next]_vars
  PROVE  LinkedToOwn'
<1> USE DEF Inv, TypeOK, IInv
<1>1. \A d \in Docs : erpInvoiceId'[d] # None => raisedBy'[erpInvoiceId'[d]] = d
  <2>1. CASE \E d \in Docs : MarkMatched(d)
    BY <2>1 DEF MarkMatched, At, WorkerKnows, Established, LinkedToOwn, WorkflowTypeOK, erpVars
  <2>2. CASE erpInvoiceId' = erpInvoiceId /\ \E d \in Docs : CreateInvoice(d)
    <3>1. \A n \in Invoices : raisedBy[n] # None => raisedBy'[n] = raisedBy[n]
      BY <2>2 DEF CreateInvoice, createInvoice, RaisedFromReading, ErpTypeOK
    <3> QED
      BY <2>2, <3>1, ReadingsAssumption DEF LinkedToOwn, WorkflowTypeOK
  <2>3. CASE UNCHANGED <<erpInvoiceId, raisedBy>>
    BY <2>3 DEF LinkedToOwn
  <2> QED
    BY <2>1, <2>2, <2>3, RowsStep
<1>2. \A d \in Docs : task'[d].status # "NONE" =>
        /\ erpInvoiceId'[d] # None
        /\ (Route(d) # "AUTO_APPROVE")'
        /\ task'[d].requiredRole = Route(d)'
  <2>1. \A d \in Docs : extraction[d] # None => extraction'[d] = extraction[d]
    BY RowsStep DEF ReadInvoice, WorkflowTypeOK
  <2>2. \A d \in Docs : erpInvoiceId[d] # None => erpInvoiceId'[d] = erpInvoiceId[d]
    BY RowsStep DEF MarkMatched, At, WorkerKnows, Established, WorkflowTypeOK
  <2>3. \A d \in Docs : erpInvoiceId[d] # None => extraction[d] # None
    BY ReadingsAssumption DEF LinkedToOwn, RaisedFromReading, WorkflowTypeOK
  <2>4. \A d \in Docs : erpInvoiceId[d] # None => Route(d)' = Route(d)
    BY <2>1, <2>3 DEF Route, Read
  <2>5. CASE task' = task
    BY <2>5, <2>2, <2>4 DEF LinkedToOwn
  <2>6. CASE \E d \in Docs : CreateTask(d)
    <3>. PICK d \in Docs : CreateTask(d)
      BY <2>6
    <3>1. /\ erpInvoiceId[d] # None
          /\ Route(d) # "AUTO_APPROVE"
          /\ task' = [task EXCEPT ![d] = [status |-> "PENDING", requiredRole |-> Route(d)]]
      BY ReadingsAssumption DEF CreateTask, At, WorkerKnows, Established
    <3> QED
      BY <3>1, <2>2, <2>4 DEF LinkedToOwn, WorkflowTypeOK
  <2>7. CASE \E u \in Users : RecordTask(u)
    <3>1. \A d \in Docs : task'[d].requiredRole = task[d].requiredRole
      BY <2>7 DEF RecordTask, WorkflowTypeOK, Task
    <3>2. \A d \in Docs : task'[d].status # "NONE" => task[d].status # "NONE"
      BY <2>7 DEF RecordTask, RequestKnows, Carried, WorkflowTypeOK, Task
    <3> QED
      BY <3>1, <3>2, <2>2, <2>4 DEF LinkedToOwn
  <2> QED
    BY <2>5, <2>6, <2>7, RowsStep
<1> QED
  BY <1>1, <1>2 DEF LinkedToOwn

\* What is written once stands: readings, links, the origin of an invoice, the
\* existence of a task, and every claim the ERP backs.
LEMMA FinalStep ==
  ASSUME Inv, [Next]_vars, NEW d \in Docs
  PROVE  /\ extraction[d] # None => extraction'[d] = extraction[d]
         /\ erpInvoiceId[d] # None => erpInvoiceId'[d] = erpInvoiceId[d]
         /\ \A n \in Invoices : raisedBy[n] # None => raisedBy'[n] = raisedBy[n]
         /\ task[d].status # "NONE" => task'[d].status # "NONE"
         /\ \A s \in Decided : Backed(s, d) => Backed(s, d)'
<1> USE DEF Inv, TypeOK, IInv
<1>1. extraction[d] # None => extraction'[d] = extraction[d]
  BY RowsStep DEF ReadInvoice, WorkflowTypeOK
<1>2. erpInvoiceId[d] # None => erpInvoiceId'[d] = erpInvoiceId[d]
  BY RowsStep DEF MarkMatched, At, WorkerKnows, Established, WorkflowTypeOK
<1>3. ASSUME NEW n \in Invoices, raisedBy[n] # None PROVE raisedBy'[n] = raisedBy[n]
  <2>1. CASE \E e \in Docs : CreateInvoice(e)
    BY <1>3, <2>1 DEF CreateInvoice, createInvoice, RaisedFromReading, ErpTypeOK
  <2> QED
    BY <2>1, RowsStep
<1>4. task[d].status # "NONE" => task'[d].status # "NONE"
  <2>1. CASE \E e \in Docs : CreateTask(e)
    BY <2>1 DEF CreateTask, WorkflowTypeOK
  <2>2. CASE \E u \in Users : RecordTask(u)
    BY <2>2 DEF RecordTask, WorkflowTypeOK, Task
  <2> QED
    BY <2>1, <2>2, RowsStep
<1>5. ASSUME NEW s \in Decided, Backed(s, d) PROVE Backed(s, d)'
  <2>1. erpInvoiceId[d] \in Invoices /\ erpInvoiceId'[d] = erpInvoiceId[d]
    BY <1>2, <1>5 DEF Backed, WorkflowTypeOK
  <2>2. CASE \E e \in Docs : CreateInvoice(e)
    <3>1. invoice'[erpInvoiceId[d]] = invoice[erpInvoiceId[d]]
      BY <1>5, <2>1, <2>2 DEF Backed, CreateInvoice, createInvoice, InvoiceExists,
        ErpTypeOK, Decided
    <3> QED
      BY <1>5, <2>1, <3>1 DEF Backed
  <2>3. CASE Monotone
    BY <1>5, <2>1, <2>3, BackedStays
  <2> QED
    BY <2>2, <2>3, MonotoneStep
<1> QED
  BY <1>1, <1>2, <1>3, <1>4, <1>5

\* What the others may do to the document the worker has in hand.
LEMMA OthersStep ==
  ASSUME Inv, [Next]_vars, ~Worker, ~WorkerFails, ~Crash
  PROVE  /\ UNCHANGED <<worker, extraction, erpInvoiceId, raisedBy>>
         /\ \A d \in Docs : \/ status'[d] = status[d]
                             \/ status'[d] \in {"QUEUED", "FAILED"}
                             \/ /\ status'[d] \in Decided
                                /\ Backed(status'[d], d)
<1> USE DEF Inv, TypeOK, IInv
<1>1. UNCHANGED <<worker, extraction, erpInvoiceId, raisedBy>>
  <2>1. UNCHANGED <<extraction, erpInvoiceId, raisedBy>>
    BY QueueFrame, RequestFrame, IngestFrame DEF Next, vars, workflowVars, erpVars,
      HookFails, FailedHandlerLost, QueueBoard, RetryFailed, Enqueue, IngestEnqueue, ErpUsers,
      DirectInErp, Decide, createPayment
  <2>2. worker' = worker
    BY DEF Next, vars, Timers, HookFails, QueueBoard, People, FrontDoor, Enqueue, ErpUsers
  <2> QED
    BY <2>1, <2>2
<1>2. CASE status' = status
  BY <1>1, <1>2
<1>3. CASE \E e \in Docs : FailedHandler(e) \/ IngestCreate(e)
  BY <1>1, <1>3 DEF FailedHandler, IngestCreate, setStatus, WorkflowTypeOK
<1>4. CASE \E u \in Users : RecordDecision(u) \/ RecordPayment(u)
  BY <1>1, <1>4 DEF RecordDecision, RecordPayment, setStatus, WorkflowTypeOK, RequestKnows, Carried,
    Decided
<1>5. \/ status' = status
      \/ \E e \in Docs : FailedHandler(e) \/ IngestCreate(e)
      \/ \E u \in Users : RecordDecision(u) \/ RecordPayment(u)
  BY QueueFrame, RequestFrame, IngestFrame DEF Next, vars, workflowVars, HookFails,
    FailedHandlerLost, QueueBoard, RetryFailed, Enqueue, IngestEnqueue, ErpUsers, DirectInErp
<1> QED
  BY <1>1, <1>2, <1>3, <1>4, <1>5

\* Whatever the others do between two calls of the worker, what the attempt has established
\* before its next call stands.
LEMMA WorkerKnowsStep ==
  ASSUME Inv, [Next]_vars
  PROVE  WorkerKnows'
<1> USE DEF Inv, TypeOK, IInv
<1> SUFFICES ASSUME NEW e \in Docs, worker'.doc = e
             PROVE  Established(e)'
  BY DEF WorkerKnows
<1>1. CASE ~Worker /\ ~WorkerFails /\ ~Crash
  <2>1. /\ worker' = worker
        /\ extraction' = extraction /\ erpInvoiceId' = erpInvoiceId /\ raisedBy' = raisedBy
        /\ status'[e] = status[e] \/ status'[e] \notin {"NEEDS_REVIEW", "DUPLICATE"}
    BY <1>1, OthersStep DEF Decided
  <2>2. Number(e)' = Number(e) /\ Route(e)' = Route(e) /\ verify(Read(e), Orders)' = verify(Read(e), Orders)
    BY <2>1 DEF Number, Route, Read, verify
  <2>3. Backed("APPROVED", e) => Backed("APPROVED", e)'
    BY FinalStep DEF Decided
  <2>4. Established(e)
    BY <2>1 DEF WorkerKnows
  <2> QED
    BY <2>1, <2>2, <2>3, <2>4 DEF NotRaised, Established
<1>2. CASE WorkerFails
  <2>1. worker'.pc \in {"failed", "reset", "reject"}
    BY <1>2, WorkerFaultFrame DEF Throw, CatchWriteLost, Goto, WorkerTypeOK
  <2> QED
    BY <2>1 DEF Established
<1>3. CASE Crash
  BY <1>3, ReadingsAssumption DEF Crash, Idle
<1>4. CASE Worker
  <2>. PICK d \in Docs : WorkerStep(d)
    BY <1>4 DEF Worker
  <2>g. ASSUME NEW pc, worker.doc = d, Goto(pc)
        PROVE  worker'.pc = pc /\ e = d
    BY <2>g DEF Goto, WorkerTypeOK
  <2>q. ASSUME worker'.pc \in {"idle", "start", "extract", "failed", "reset", "reject", "audit"}
        PROVE  Established(e)'
    BY <2>q DEF Established
  <2>1. CASE TakeJob(d) \/ SkipAttempt(d) \/ FinishAttempt(d) \/ RejectAttempt(d)
    BY <2>1, <2>q DEF TakeJob, SkipAttempt, FinishAttempt, RejectAttempt, Idle
  <2>2. CASE StartAttempt(d) \/ ReadInvoiceThrows(d) \/ FlagForReview(d) \/ CreateConflict(d)
             \/ RouteRefused(d) \/ Settle(d) \/ CatchFailed(d) \/ CatchReset(d)
    BY <2>2, <2>g, <2>q DEF StartAttempt, ReadInvoiceThrows, FlagForReview, CreateConflict,
      RouteRefused, Settle, CatchFailed, CatchReset, At
  <2>3. CASE MarkExtracting(d)
    BY <2>3, <2>g DEF MarkExtracting, At, setStatus, WorkflowTypeOK, Established
  <2>4. CASE ReadInvoice(d)
    <3>1. worker'.pc = "verify" /\ e = d /\ worker.doc = d /\ worker.pc = "read"
      BY <2>4, <2>g DEF ReadInvoice, At
    <3>2. extraction'[d] # None
      BY <2>4, ReadingsAssumption DEF ReadInvoice, WorkflowTypeOK
    <3>3. NotRaised(d)'
      BY <2>4, ReadingsAssumption DEF ReadInvoice, NotRaised, RaisedFromReading, erpVars
    <3> QED
      BY <2>4, <3>1, <3>2, <3>3 DEF ReadInvoice, Established, WorkerKnows
  <2>5. CASE VerifyClean(d)
    <3>1. worker'.pc = "create" /\ e = d /\ worker.doc = d /\ worker.pc = "verify"
      BY <2>5, <2>g DEF VerifyClean, At
    <3>2. verify(Read(d), Orders)
      BY <2>5, <3>1, VerifiedFacts
         DEF VerifyClean, Read, listOpenPOs, WorkflowTypeOK, WorkerKnows, Established
    <3>3. UNCHANGED <<status, extraction, raisedBy>>
      BY <2>5 DEF VerifyClean, workflowVars, erpVars
    <3>4. verify(Read(d), Orders)'
      BY <3>2, <3>3 DEF verify, Read
    <3> QED
      BY <3>1, <3>3, <3>4 DEF Established, WorkerKnows, NotRaised
  <2>6. CASE CreateInvoice(d)
    <3>1. worker'.pc = "match" /\ e = d /\ worker.doc = d /\ worker.pc = "create"
      BY <2>6, <2>g DEF CreateInvoice, At
    <3>2. UNCHANGED <<status, extraction, erpInvoiceId>>
      BY <2>6 DEF CreateInvoice, workflowVars
    <3>3. Number(d) \in Invoices /\ Number(d)' = Number(d)
      BY <3>1, <3>2, VerifiedFacts DEF Number, Read, WorkflowTypeOK, WorkerKnows, Established
    <3>4. raisedBy'[Number(d)] = d
      BY <2>6, <3>3 DEF CreateInvoice, createInvoice, ErpTypeOK
    <3>5. erpInvoiceId[d] = None
      BY <3>1 DEF LinkedToOwn, WorkerKnows, Established, NotRaised, WorkflowTypeOK
    <3> QED
      BY <3>1, <3>2, <3>3, <3>4, <3>5 DEF Established, WorkerKnows
  <2>7. CASE MarkMatched(d)
    <3>1. worker'.pc = "route" /\ e = d /\ worker.doc = d /\ worker.pc = "match"
      BY <2>7, <2>g DEF MarkMatched, At
    <3>2. Number(d)' = Number(d) /\ extraction' = extraction
      BY <2>7 DEF MarkMatched, Number, Read
    <3>3. erpInvoiceId'[d] = Number(d)
      BY <2>7 DEF MarkMatched, WorkflowTypeOK
    <3> QED
      BY <3>1, <3>2, <3>3 DEF Established, WorkerKnows
  <2>8. CASE RouteToErp(d)
    <3>1. /\ e = d /\ worker.doc = d /\ worker.pc = "route"
          /\ worker'.pc = IF Route(d) = "AUTO_APPROVE" THEN "settle" ELSE "task"
      BY <2>8, <2>g DEF RouteToErp, At
    <3>2. UNCHANGED <<extraction, erpInvoiceId>> /\ Number(d)' = Number(d) /\ Route(d)' = Route(d)
      BY <2>8 DEF RouteToErp, workflowVars, Number, Route, Read
    <3>3. /\ Number(d) \in Invoices
          /\ erpInvoiceId[d] = Number(d)
          /\ extraction[d] # None
      BY <3>1 DEF WorkerKnows, Established
    <3>4. Route(d) = "AUTO_APPROVE" => Backed("APPROVED", d)'
      BY <2>8, <3>2, <3>3, ReadingsAssumption DEF RouteToErp, Decide, Backed, ErpTypeOK, Invoice
    <3> QED
      BY <3>1, <3>2, <3>3, <3>4 DEF Established
  <2>9. CASE CreateTask(d)
    <3>1. /\ e = d /\ worker.doc = d /\ worker.pc = "task" /\ worker'.pc = "settle"
      BY <2>9, <2>g DEF CreateTask, At
    <3>2. UNCHANGED <<extraction, erpInvoiceId>> /\ Number(d)' = Number(d) /\ Route(d)' = Route(d)
      BY <2>9 DEF CreateTask, Number, Route, Read
    <3> QED
      BY <3>1, <3>2 DEF Established, WorkerKnows
  <2> QED
    BY <2>1, <2>2, <2>3, <2>4, <2>5, <2>6, <2>7, <2>8, <2>9 DEF WorkerStep
<1> QED
  BY <1>1, <1>2, <1>3, <1>4

\* The same for every request in flight: a late writer still carries a backed answer.
LEMMA RequestKnowsStep ==
  ASSUME Inv, [Next]_vars
  PROVE  RequestKnows'
<1> USE DEF Inv, TypeOK, IInv
<1> SUFFICES ASSUME NEW u \in Users, req'[u].pc # "idle"
             PROVE  Carried(u)'
  BY DEF RequestKnows
\* What a request carries stands while the request does.
<1>k. ASSUME req'[u] = req[u] PROVE Carried(u)'
  <2>1. Carried(u)
    BY <1>k DEF RequestKnows
  <2>2. PICK d \in Docs : req[u].doc = d /\ erpInvoiceId[d] \in Invoices
    BY <2>1 DEF Carried
  <2>3. erpInvoiceId[d] # None
    BY <2>2, ReadingsAssumption
  <2>4. erpInvoiceId'[d] = erpInvoiceId[d]
    BY <2>3, FinalStep
  <2>5. Route(d)' = Route(d)
    <3>1. extraction[d] # None
      BY <2>2, <2>3, ReadingsAssumption DEF LinkedToOwn, RaisedFromReading
    <3> QED
      BY <3>1, FinalStep DEF Route, Read
  <2>6. task[d].status # "NONE" => task'[d].status # "NONE"
    BY FinalStep
  <2>7. \A s \in Decided : Backed(s, d) => Backed(s, d)'
    BY FinalStep
  <2> QED
    BY <1>k, <2>1, <2>2, <2>4, <2>5, <2>6, <2>7 DEF Carried, Outranks, Decided
<1>1. CASE People
  <2>. PICK v \in Users : RequestArrives(v) \/ RequestStep(v) \/ RequestFails(v)
    BY <1>1 DEF People
  <2>1. CASE u # v
    <3>1. req'[u] = req[u]
      BY <2>1 DEF RequestArrives, RequestStep, RequestFails, ReadTask, ReadForPayment,
        DecideInErp, DecisionRefused, ReadActual, RecordTask, RecordDecision, PayInErp,
        PaymentRefused, RecordPayment, Stay, Respond, ApprovalsTypeOK
    <3> QED
      BY <3>1, <1>k
  <2>2. CASE u = v
    <3> USE <2>2
    <3>r. ~Respond(u)
      BY DEF Respond, NoRequest, ApprovalsTypeOK
    <3>c. ASSUME req[u].pc # "idle" PROVE Carried(u)
      BY <3>c DEF RequestKnows
    <3>1. ASSUME NEW d \in Docs, ReadTask(u, d) PROVE Carried(u)'
      <4>1. /\ req'[u].pc = "decide" /\ req'[u].doc = d
            /\ req'[u].invoice = erpInvoiceId[d]
            /\ req'[u].outcome \in {"APPROVED", "REJECTED"}
        BY <3>1 DEF ReadTask, ApprovalsTypeOK
      <4>2. UNCHANGED <<erpInvoiceId, extraction, task>> /\ Route(d)' = Route(d)
        BY <3>1 DEF ReadTask, workflowVars, Route, Read
      <4>3. /\ erpInvoiceId[d] \in Invoices
            /\ task[d].status # "NONE"
            /\ Outranks(u) \/ Role[u] = Route(d)
        BY <3>1 DEF ReadTask, WorkflowTypeOK, LinkedToOwn
      <4> QED
        BY <4>1, <4>2, <4>3 DEF Carried, Outranks
    <3>2. ASSUME NEW d \in Docs, ReadForPayment(u, d) PROVE Carried(u)'
      <4>1. req'[u] = [pc |-> "pay", doc |-> d, invoice |-> erpInvoiceId[d], outcome |-> None]
        BY <3>2 DEF ReadForPayment, ApprovalsTypeOK
      <4>2. erpInvoiceId[d] \in Invoices /\ erpInvoiceId' = erpInvoiceId
        BY <3>2 DEF ReadForPayment, WorkflowTypeOK, workflowVars
      <4> QED
        BY <4>1, <4>2 DEF Carried
    <3>3. CASE DecideInErp(u)
      <4>1. /\ req'[u].pc = "task" /\ req'[u].doc = req[u].doc
            /\ req'[u].invoice = req[u].invoice /\ req'[u].outcome = req[u].outcome
            /\ req[u].pc = "decide"
        BY <3>3 DEF DecideInErp, Stay, ApprovalsTypeOK, Request
      <4>2. erpInvoiceId' = erpInvoiceId /\ task' = task
        BY <3>3 DEF DecideInErp, workflowVars
      <4>3. invoice'[req[u].invoice].status = req[u].outcome
        BY <3>3, <3>c, <4>1 DEF DecideInErp, Decide, Carried, ErpTypeOK, Invoice
      <4> QED
        BY <3>c, <4>1, <4>2, <4>3, ReadingsAssumption DEF Carried, Backed, Decided
    <3>4. CASE DecisionRefused(u)
      <4>1. /\ req'[u].pc = "refused" /\ req'[u].doc = req[u].doc
            /\ req'[u].invoice = req[u].invoice /\ req[u].pc = "decide"
        BY <3>4 DEF DecisionRefused, Stay, ApprovalsTypeOK, Request
      <4>2. erpInvoiceId' = erpInvoiceId /\ task' = task
        BY <3>4 DEF DecisionRefused, workflowVars
      <4> QED
        BY <3>c, <4>1, <4>2 DEF Carried
    <3>5. CASE ReadActual(u)
      <4>1. /\ req'[u].pc = "task" /\ req'[u].doc = req[u].doc
            /\ req'[u].invoice = req[u].invoice /\ req[u].pc = "refused"
            /\ req'[u].outcome = invoice[req[u].invoice].status
            /\ invoice[req[u].invoice].status \in Decided
        BY <3>5, <3>r DEF ReadActual, ApprovalsTypeOK, Request
      <4>2. UNCHANGED <<erpInvoiceId, task, invoice>>
        BY <3>5 DEF ReadActual, workflowVars, erpVars
      <4> QED
        BY <3>c, <4>1, <4>2, ReadingsAssumption DEF Carried, Backed, Decided
    <3>6. CASE RecordTask(u)
      <4>1. /\ req'[u].pc = "doc" /\ req'[u].doc = req[u].doc
            /\ req'[u].invoice = req[u].invoice /\ req'[u].outcome = req[u].outcome
            /\ req[u].pc = "task"
        BY <3>6 DEF RecordTask, Stay, ApprovalsTypeOK, Request
      <4>2. erpInvoiceId' = erpInvoiceId /\ invoice' = invoice
        BY <3>6 DEF RecordTask, erpVars
      <4>3. task'[req[u].doc].status # "NONE"
        BY <3>c, <4>1, FinalStep DEF Carried
      <4> QED
        BY <3>c, <4>1, <4>2, <4>3 DEF Carried, Backed
    <3>7. CASE PayInErp(u)
      <4>1. /\ req'[u].pc = "paid" /\ req'[u].doc = req[u].doc
            /\ req'[u].invoice = req[u].invoice /\ req[u].pc = "pay"
        BY <3>7 DEF PayInErp, Stay, ApprovalsTypeOK, Request
      <4>2. erpInvoiceId' = erpInvoiceId
        BY <3>7 DEF PayInErp, workflowVars
      <4>3. invoice'[req[u].invoice].status = "PAID"
        BY <3>7, <3>c, <4>1 DEF PayInErp, createPayment, Carried, ErpTypeOK, Invoice
      <4> QED
        BY <3>c, <4>1, <4>2, <4>3, ReadingsAssumption DEF Carried, Backed
    <3>8. CASE RecordDecision(u) \/ PaymentRefused(u) \/ RecordPayment(u) \/ RequestFails(u)
      BY <3>8, <3>r DEF RecordDecision, PaymentRefused, RecordPayment, RequestFails
    <3> QED
      BY <3>1, <3>2, <3>3, <3>4, <3>5, <3>6, <3>7, <3>8 DEF RequestArrives, RequestStep
  <2> QED
    BY <2>1, <2>2
<1>2. CASE Crash
  BY <1>2 DEF Crash, NoRequest
<1>3. CASE \E d \in Docs : Timers(d) \/ Enqueue(d)
  BY <1>k, <1>3 DEF Timers, Enqueue
<1>4. CASE Worker \/ WorkerFails \/ HookFails \/ QueueBoard \/ FrontDoor \/ ErpUsers \/ UNCHANGED vars
  BY <1>k, <1>4 DEF Worker, WorkerFails, HookFails, QueueBoard, FrontDoor, ErpUsers, vars
<1> QED
  BY <1>1, <1>2, <1>3, <1>4 DEF Next

\* No step writes a status or a task outcome that the ERP does not back.
LEMMA StatusStep ==
  ASSUME Inv, [Next]_vars
  PROVE  StatusTellsTheErpTruth'
<1> USE DEF Inv, TypeOK, IInv
<1> SUFFICES ASSUME NEW d \in Docs
             PROVE  /\ status'[d] \in Decided => Backed(status[d], d)'
                    /\ task'[d].status \in Decided => Backed(task[d].status, d)'
  BY DEF StatusTellsTheErpTruth, Decided
<1>b. \A s \in Decided : Backed(s, d) => Backed(s, d)'
  BY FinalStep
<1>s. CASE status'[d] = status[d] \/ status'[d] \notin Decided
           \/ (status'[d] \in Decided /\ Backed(status'[d], d))
  <2>1. status'[d] \in Decided => Backed(status[d], d)'
    BY <1>b, <1>s DEF StatusTellsTheErpTruth, Backed
  <2>2. CASE task'[d].status = task[d].status
    BY <2>1, <2>2, <1>b DEF StatusTellsTheErpTruth, Backed
  <2>3. CASE \E e \in Docs : CreateTask(e)
    <3>1. task'[d].status = task[d].status \/ task'[d].status = "PENDING"
      BY <2>3 DEF CreateTask, WorkflowTypeOK
    <3> QED
      BY <2>1, <2>2, <3>1 DEF Decided
  <2>4. CASE \E u \in Users : RecordTask(u)
    <3>. PICK u \in Users : RecordTask(u)
      BY <2>4
    <3>1. CASE req[u].doc # d
      BY <2>2, <3>1 DEF RecordTask, WorkflowTypeOK
    <3>2. CASE req[u].doc = d
      <4>1. /\ task'[d].status = IF req[u].outcome = "REJECTED" THEN "REJECTED" ELSE "APPROVED"
            /\ req[u].outcome \in Decided
            /\ Backed(req[u].outcome, d)
        BY <3>2 DEF RecordTask, RequestKnows, Carried, WorkflowTypeOK, Task
      <4>2. Backed(task'[d].status, d)
        BY <4>1 DEF Backed, Decided
      <4> QED
        BY <2>1, <4>1, <4>2, <1>b DEF Decided, Backed
    <3> QED
      BY <3>1, <3>2
  <2> QED
    BY <2>2, <2>3, <2>4, RowsStep
<1>1. CASE ~Worker /\ ~WorkerFails /\ ~Crash
  BY <1>1, <1>s, OthersStep DEF Decided
<1>2. CASE WorkerFails \/ Crash
  BY <1>2, <1>s, WorkerFaultFrame DEF Crash, workflowVars
<1>3. CASE Worker
  <2>. PICK e \in Docs : WorkerStep(e)
    BY <1>3 DEF Worker
  <2>1. CASE Settle(e)
    BY <2>1, <1>s DEF Settle, At, setStatus, WorkflowTypeOK, WorkerKnows, Established, Decided
  <2>2. CASE MarkExtracting(e) \/ FlagForReview(e) \/ CreateConflict(e) \/ MarkMatched(e)
             \/ CatchFailed(e) \/ CatchReset(e)
    BY <2>2, <1>s DEF MarkExtracting, FlagForReview, CreateConflict, MarkMatched,
      CatchFailed, CatchReset, setStatus, WorkflowTypeOK, Decided
  <2> QED
    BY <2>1, <2>2, <1>s, WorkerFrame
<1> QED
  BY <1>1, <1>2, <1>3

\* No step stops a document for which an invoice was raised, or bills a stopped one.
LEMMA StoppedStep ==
  ASSUME Inv, [Next]_vars
  PROVE  StoppedMeansNoInvoice'
<1> USE DEF Inv, TypeOK, IInv
<1> SUFFICES ASSUME NEW d \in Docs, status'[d] \in {"NEEDS_REVIEW", "DUPLICATE"}
             PROVE  NotRaised(d)'
  BY DEF StoppedMeansNoInvoice, NotRaised
<1>n. ASSUME NotRaised(d), raisedBy' = raisedBy PROVE NotRaised(d)'
  BY <1>n DEF NotRaised
<1>o. status[d] \in {"NEEDS_REVIEW", "DUPLICATE"} => NotRaised(d)
  BY DEF StoppedMeansNoInvoice, NotRaised
<1>1. CASE ~Worker /\ ~WorkerFails /\ ~Crash
  BY <1>1, <1>n, <1>o, OthersStep DEF Decided
<1>2. CASE WorkerFails \/ Crash
  BY <1>2, <1>n, <1>o, WorkerFaultFrame DEF Crash, workflowVars, erpVars
<1>3. CASE Worker
  <2>. PICK e \in Docs : WorkerStep(e)
    BY <1>3 DEF Worker
  <2>1. CASE CreateInvoice(e)
    <3>1. status[d] = status'[d] /\ e # d
      BY <2>1 DEF CreateInvoice, At, WorkerKnows, Established, workflowVars
    <3>2. \A n \in Invoices : raisedBy'[n] = raisedBy[n] \/ raisedBy'[n] = e
      BY <2>1 DEF CreateInvoice, createInvoice, ErpTypeOK
    <3> QED
      BY <3>1, <3>2, <1>o DEF NotRaised
  <2>2. CASE raisedBy' = raisedBy
    <3>1. CASE status'[d] = status[d]
      BY <2>2, <3>1, <1>n, <1>o
    <3>2. CASE FlagForReview(e) \/ CreateConflict(e)
      <4>1. e = d \/ status'[d] = status[d]
        BY <3>2 DEF FlagForReview, CreateConflict, setStatus, WorkflowTypeOK
      <4>2. e = d => NotRaised(d)
        BY <3>2 DEF FlagForReview, CreateConflict, At, WorkerKnows, Established
      <4> QED
        BY <4>1, <4>2, <3>1, <2>2, <1>n
    <3>3. CASE MarkExtracting(e) \/ MarkMatched(e) \/ Settle(e) \/ CatchFailed(e)
               \/ CatchReset(e)
      BY <3>1, <3>3 DEF MarkExtracting, MarkMatched, Settle, CatchFailed, CatchReset,
        setStatus, WorkflowTypeOK
    <3> QED
      BY <3>1, <3>2, <3>3, WorkerFrame
  <2> QED
    BY <2>1, <2>2, WorkerFrame
<1> QED
  BY <1>1, <1>2, <1>3

-----------------------------------------------------------------------------
(* The invariant, and the theorems it gives *)

\* The invariant holds initially.
LEMMA InvInit == Init => Inv
<1> SUFFICES ASSUME Init PROVE IInv
  BY TypeInit DEF Inv
<1> USE DEF Init, WorkflowInit, ErpInit, WorkerInit, ApprovalsInit, Idle, NoRequest,
  NoInvoice, NoTask, IInv
<1>1. WorkerHolds /\ RaisedFromReading /\ LinkedToOwn
  BY DEF WorkerHolds, RaisedFromReading, InvoiceExists, LinkedToOwn
<1>2. WorkerKnows /\ RequestKnows
  BY ReadingsAssumption DEF WorkerKnows, RequestKnows
<1>3. StatusTellsTheErpTruth /\ StoppedMeansNoInvoice
  BY DEF StatusTellsTheErpTruth, StoppedMeansNoInvoice, Decided
<1> QED
  BY <1>1, <1>2, <1>3

\* The invariant is inductive: the lemmas above, one per conjunct.
LEMMA InvStep == Inv /\ [Next]_vars => Inv'
BY TypeStep, WorkerTypeStep, RaisedStep, LinkStep, WorkerKnowsStep, RequestKnowsStep,
   StatusStep, StoppedStep DEF Inv, IInv

\* The invariant holds in every state the server can reach.
LEMMA Invariance == Spec => []Inv
BY InvInit, InvStep, PTL DEF Spec

\* Every row, job, request and ERP record keeps its type: no status outside
\* the enums of schema.prisma is ever stored, whatever fails or interleaves.
THEOREM TypeCorrect == Spec => []TypeOK
<1>1. Inv => TypeOK
  BY DEF Inv
<1> QED
  BY <1>1, Invariance, PTL

\* What the worker and every request under way know at each of their awaits is
\* still so when they act on it (processDocument.ts, app.ts decideApproval and
\* pay): the invariant the other theorems rest on.
THEOREM KnowledgeHolds == Spec => []IInv
<1>1. Inv => IInv
  BY DEF Inv
<1> QED
  BY <1>1, Invariance, PTL

\* The product database never claims a decision or a payment that the ERP
\* does not have (app.ts decideApproval and pay, processDocument.ts routing).
THEOREM StatusTruthful == Spec => []StatusTellsTheErpTruth
<1>1. Inv => StatusTellsTheErpTruth
  BY DEF Inv, IInv
<1> QED
  BY <1>1, Invariance, PTL

\* However often the queue runs a document, at most one invoice is raised for
\* it (processDocument.ts and its unique Extraction row).
THEOREM BilledOnce == Spec => []OneInvoicePerDocument
<1>1. Inv => OneInvoicePerDocument
  BY DEF Inv, IInv, RaisedFromReading, OneInvoicePerDocument
<1> QED
  BY <1>1, Invariance, PTL

\* A document flagged for review or stopped as a duplicate moved no money
\* (processDocument.ts:66 and :85).
THEOREM StoppedMovesNoMoney == Spec => []StoppedMeansNoInvoice
<1>1. Inv => StoppedMeansNoInvoice
  BY DEF Inv, IInv
<1> QED
  BY <1>1, Invariance, PTL

\* Readings, links and decided tasks are written once (schema.prisma's unique
\* columns, and the ERP-first order of app.ts decideApproval).
THEOREM WrittenOnce == Spec => RecordsAreFinal
<1>1. ASSUME Inv, [Next]_vars, NEW d \in Docs
      PROVE  /\ extraction[d] # None => extraction'[d] = extraction[d]
             /\ erpInvoiceId[d] # None => erpInvoiceId'[d] = erpInvoiceId[d]
             /\ task[d].status \in {"APPROVED", "REJECTED"} => task'[d] = task[d]
  <2> USE <1>1 DEF Inv, TypeOK, IInv
  <2>1. ASSUME task[d].status \in {"APPROVED", "REJECTED"} PROVE task'[d] = task[d]
    <3>1. CASE \E e \in Docs : CreateTask(e)
      BY <2>1, <3>1 DEF CreateTask, WorkflowTypeOK
    <3>2. CASE \E u \in Users : RecordTask(u)
      <4>. PICK u \in Users : RecordTask(u)
        BY <3>2
      <4>1. CASE req[u].doc = d
        <5>1. /\ Backed(task[d].status, d)
              /\ Backed(req[u].outcome, d) /\ req[u].outcome \in Decided
          BY <2>1, <4>1 DEF StatusTellsTheErpTruth, RecordTask, RequestKnows, Carried, Decided
        <5>2. task[d].status = IF req[u].outcome = "REJECTED" THEN "REJECTED" ELSE "APPROVED"
          BY <2>1, <5>1 DEF Backed, Decided
        <5> QED
          BY <4>1, <5>2 DEF RecordTask, WorkflowTypeOK, Task
      <4> QED
        BY <4>1 DEF RecordTask, WorkflowTypeOK
    <3> QED
      BY <3>1, <3>2, RowsStep
  <2> QED
    BY <2>1, FinalStep
<1>2. Inv /\ [Next]_vars => [\A d \in Docs :
        /\ extraction[d] # None => extraction'[d] = extraction[d]
        /\ erpInvoiceId[d] # None => erpInvoiceId'[d] = erpInvoiceId[d]
        /\ task[d].status \in {"APPROVED", "REJECTED"} => task'[d] = task[d]]_vars
  BY <1>1
<1> QED
  BY <1>2, Invariance, PTL DEF Spec, RecordsAreFinal
=============================================================================
