----------------------------- MODULE Approvals -----------------------------
(***************************************************************************)
(* The handlers by which people decide and pay invoices (server/src/app.ts *)
(* decideApproval and POST /api/documents/:id/pay).  Each user has one     *)
(* request in flight at a time; req[u].pc names the awaited call it is     *)
(* about to make, and what the handler read before earlier awaits it keeps *)
(* in req[u].  Handlers of different users interleave freely with one      *)
(* another, with the worker and with people working in the ERP.            *)
(*                                                                         *)
(* A request fails when one of its calls does (RequestFails): nothing is   *)
(* undone and nothing retries it.  The audit event at the end of a handler *)
(* and the response carry no state, so they have no step.                  *)
(***************************************************************************)
EXTENDS Erp

CONSTANTS
  Users,  \* people logged in to the product
  Role    \* the role each of them has

VARIABLE req  \* [pc, doc, invoice, outcome]: the request each user waits for

Roles == {"EMPLOYEE", "AP_CLERK", "FINANCE_HEAD", "CFO", "ADMIN"}
RequestPc == {"idle", "decide", "refused", "task", "doc", "pay", "paid"}
Request == [pc : RequestPc, doc : Docs \cup {None},
            invoice : Invoices \cup {None}, outcome : Decided \cup {None}]
NoRequest == [pc |-> "idle", doc |-> None, invoice |-> None, outcome |-> None]

ASSUME UsersAssumption == Role \in [Users -> Roles]

ApprovalsTypeOK == req \in [Users -> Request]

ApprovalsInit == req = [u \in Users |-> NoRequest]

Outranks(u) == Role[u] \in {"CFO", "ADMIN"}
MayPay == {"FINANCE_HEAD", "CFO", "ADMIN"}

Stay(u, pc) == req' = [req EXCEPT ![u].pc = pc]
Respond(u) == req' = [req EXCEPT ![u] = NoRequest]

\* Mutant of ReadTask: any approver role will do, not the one required.
ReadTaskAnyApprover(u, d) ==
  /\ req[u].pc = "idle"
  /\ task[d].status = "PENDING"
  /\ erpInvoiceId[d] # None
  /\ Outranks(u) \/ Role[u] \in ApproverRole
  /\ \E decision \in {"APPROVED", "REJECTED"} :
       req' = [req EXCEPT ![u] = [pc |-> "decide", doc |-> d,
                                  invoice |-> erpInvoiceId[d],
                                  outcome |-> decision]]
  /\ UNCHANGED <<workflowVars, faults, erpVars>>

\* The pending task with its document is read, the role rule is applied.
ReadTask(u, d) ==
  /\ req[u].pc = "idle"
  /\ task[d].status = "PENDING"
  /\ erpInvoiceId[d] # None
  /\ Outranks(u) \/ Role[u] = task[d].requiredRole
  /\ \E decision \in {"APPROVED", "REJECTED"} :
       req' = [req EXCEPT ![u] = [pc |-> "decide", doc |-> d,
                                  invoice |-> erpInvoiceId[d],
                                  outcome |-> decision]]
  /\ UNCHANGED <<workflowVars, faults, erpVars>>

\* The ERP first ...
DecideInErp(u) ==
  /\ req[u].pc = "decide"
  /\ Decide(req[u].invoice, req[u].outcome, Role[u])
  /\ Stay(u, "task")
  /\ UNCHANGED <<workflowVars, faults>>

\* Mutant of DecisionRefused: a refusal counts as done already.
DecisionRefusedIgnored(u) ==
  /\ req[u].pc = "decide"
  /\ ~Accepts(req[u].invoice)
  /\ Stay(u, "task")
  /\ UNCHANGED <<workflowVars, faults, erpVars>>

\* ... which answers 400 to a transition it does not allow.
DecisionRefused(u) ==
  /\ req[u].pc = "decide"
  /\ ~Accepts(req[u].invoice)
  /\ Stay(u, "refused")
  /\ UNCHANGED <<workflowVars, faults, erpVars>>

\* Mutant of ReadActual: the handler records what the user wanted.
ReadActualKeepsWish(u) ==
  /\ req[u].pc = "refused"
  /\ IF invoice[req[u].invoice].status \in Decided
       THEN Stay(u, "task")
       ELSE Respond(u)
  /\ UNCHANGED <<workflowVars, faults, erpVars>>

\* getInvoice: the outcome to record is what the ERP says, or none.
ReadActual(u) ==
  /\ req[u].pc = "refused"
  /\ LET actual == invoice[req[u].invoice].status
     IN  IF actual \in Decided
           THEN req' = [req EXCEPT ![u].pc = "task", ![u].outcome = actual]
           ELSE Respond(u)
  /\ UNCHANGED <<workflowVars, faults, erpVars>>

\* Mutant of RecordTask: the ERP's status is copied into the task as it is.
RecordTaskVerbatim(u) ==
  /\ req[u].pc = "task"
  /\ task' = [task EXCEPT ![req[u].doc].status = req[u].outcome]
  /\ Stay(u, "doc")
  /\ UNCHANGED <<status, erpInvoiceId, extraction, faults, erpVars>>

\* ... then the workflow records: the task, and the document after it.
RecordTask(u) ==
  /\ req[u].pc = "task"
  /\ task' = [task EXCEPT ![req[u].doc].status =
       IF req[u].outcome = "REJECTED" THEN "REJECTED" ELSE "APPROVED"]
  /\ Stay(u, "doc")
  /\ UNCHANGED <<status, erpInvoiceId, extraction, faults, erpVars>>

RecordDecision(u) ==
  /\ req[u].pc = "doc"
  /\ setStatus(req[u].doc, req[u].outcome)
  /\ Respond(u)
  /\ UNCHANGED <<erpInvoiceId, extraction, task, faults, erpVars>>

ReadForPayment(u, d) ==
  /\ req[u].pc = "idle"
  /\ Role[u] \in MayPay
  /\ status[d] = "APPROVED"
  /\ erpInvoiceId[d] # None /\ extraction[d] # None
  /\ extraction[d].amount # 0
  /\ req' = [req EXCEPT ![u] = [pc |-> "pay", doc |-> d,
                                invoice |-> erpInvoiceId[d], outcome |-> None]]
  /\ UNCHANGED <<workflowVars, faults, erpVars>>

PayInErp(u) ==
  /\ req[u].pc = "pay"
  /\ createPayment(req[u].invoice, extraction[req[u].doc].amount)
  /\ Stay(u, "paid")
  /\ UNCHANGED <<workflowVars, faults>>

PaymentRefused(u) ==
  /\ req[u].pc = "pay"
  /\ invoice[req[u].invoice].status # "APPROVED"
  /\ Respond(u)
  /\ UNCHANGED <<workflowVars, faults, erpVars>>

RecordPayment(u) ==
  /\ req[u].pc = "paid"
  /\ setStatus(req[u].doc, "PAID")
  /\ Respond(u)
  /\ UNCHANGED <<erpInvoiceId, extraction, task, faults, erpVars>>

RequestFails(u) ==
  /\ req[u].pc # "idle"
  /\ Fault
  /\ Respond(u)
  /\ UNCHANGED <<workflowVars, erpVars>>

RequestArrives(u) == \E d \in Docs : ReadTask(u, d) \/ ReadForPayment(u, d)

RequestStep(u) ==
  \/ DecideInErp(u) \/ DecisionRefused(u) \/ ReadActual(u) \/ RecordTask(u)
  \/ RecordDecision(u) \/ PayInErp(u) \/ PaymentRefused(u) \/ RecordPayment(u)
=============================================================================
