---------------------------- MODULE MoneyProofs ----------------------------
(***************************************************************************)
(* Proofs about money in Verity, for every value of its constants: orders  *)
(* are billed once, payments match them, and the server implements the     *)
(* promise of Payables.                                                    *)
(***************************************************************************)
EXTENDS VerityProofs

Live(n) == InvoiceExists(n) /\ invoice[n].status # "REJECTED"

\* An invoice bills a whole order, as it was read out of its document.
Faithful == \A n \in Invoices : InvoiceExists(n) =>
  /\ invoice[n].order \in Orders
  /\ invoice[n].amount = OrderAmount[invoice[n].order]
  /\ invoice[n].vendor = OrderVendor[invoice[n].order]
  /\ raisedBy[n] \in Docs /\ Read(raisedBy[n]).amount = invoice[n].amount

\* An order that is billed is not open, and one that is paid is closed.
OrdersTaken == \A n \in Invoices :
  /\ Live(n) => orderStatus[invoice[n].order] # "OPEN"
  /\ invoice[n].status = "PAID" =>
       /\ invoice[n].paid = OrderAmount[invoice[n].order]
       /\ orderStatus[invoice[n].order] = "CLOSED"

\* Nobody has decided what is undecided, or does not exist.
NobodyYet == \A n \in Invoices :
  invoice[n].status \notin Decided => decidedBy[n] = None

Unpaid == \A n \in Invoices : invoice[n].status # "PAID" => invoice[n].paid = 0

\* The order the worker is about to bill is still as verify found it.
StillOpen == \A d \in Docs :
  At("create", d) => orderStatus[Read(d).poNumber] = "OPEN"

MoneyInv ==
  Faithful /\ OrdersTaken /\ NobodyYet /\ Unpaid /\ StillOpen /\ OrderBilledOnce

-----------------------------------------------------------------------------
(* How the ERP moves *)

\* A decision in the ERP, by whoever has the authority for the order.
Resolves(n, s, by) ==
  /\ Decide(n, s, by)
  /\ by \in MayDecide(OrderAmount[invoice[n].order])

\* What an invoice that a document is linked to tells of its reading.
LEMMA LinkFacts ==
  ASSUME Inv, Faithful, NEW d \in Docs, NEW n \in Invoices, raisedBy[n] = d
  PROVE  /\ extraction[d] \in Readings
         /\ Read(d).amount \in Int
         /\ Read(d).amount = invoice[n].amount
         /\ Read(d).amount = OrderAmount[invoice[n].order]
<1>1. InvoiceExists(n) /\ extraction[d] \in Readings
  BY ReadingsAssumption DEF Inv, IInv, TypeOK, WorkflowTypeOK, RaisedFromReading
<1> QED
  BY <1>1, ReadingsAssumption DEF Faithful, Read

\* The rule decides only what is below its threshold.
LEMMA RuleMay ==
  ASSUME NEW amount \in Int, route(amount) = "AUTO_APPROVE"
  PROVE  "RULE" \in MayDecide(amount)
BY RouteFacts DEF MayDecide, Authority, AUTO_APPROVE_BELOW

\* An approver decides what was routed to the role, a senior one anything.
LEMMA ApproverMay ==
  ASSUME NEW amount \in Int, NEW role,
         role \in {"CFO", "ADMIN"} \/ role = route(amount),
         route(amount) # "AUTO_APPROVE"
  PROVE  role \in MayDecide(amount)
<1>1. CASE role \in {"CFO", "ADMIN"}
  BY <1>1 DEF MayDecide, Authority
<1>2. CASE role = "FINANCE_HEAD" /\ route(amount) = "FINANCE_HEAD"
  <2>1. ~(amount < 50000) /\ ~(amount > 500000)
    BY <1>2, RouteFacts DEF AUTO_APPROVE_BELOW, CFO_ABOVE
  <2> QED
    BY <1>2, <2>1 DEF MayDecide, Authority
<1> QED
  BY <1>1, <1>2, RouteFacts

\* Every step leaves the ERP alone, or bills, decides, submits or pays one
\* invoice.
LEMMA ErpMoves ==
  ASSUME Inv, Faithful, [Next]_vars
  PROVE  \/ UNCHANGED erpVars
         \/ \E d \in Docs : CreateInvoice(d)
         \/ \E n \in Invoices : AwaitApproval(n)
         \/ \E n \in Invoices, s \in {"APPROVED", "REJECTED"} : \E by : Resolves(n, s, by)
         \/ \E n \in Invoices : createPayment(n, invoice[n].amount)
<1> USE DEF Inv, TypeOK, IInv
<1>0. CASE UNCHANGED vars
  BY <1>0 DEF vars, erpVars
<1>1. CASE Worker
  <2>. PICK d \in Docs : WorkerStep(d)
    BY <1>1 DEF Worker
  <2>1. CASE RouteToErp(d)
    <3>1. /\ Number(d) \in Invoices /\ raisedBy[Number(d)] = d
          /\ worker.pc = "route"
      BY <2>1, ReadingsAssumption DEF RouteToErp, At, WorkerKnows, Established, LinkedToOwn
    <3>2. CASE Decide(Number(d), "APPROVED", "RULE") /\ Route(d) = "AUTO_APPROVE"
      BY <3>1, <3>2, LinkFacts, RuleMay DEF Resolves, Route
    <3> QED
      BY <2>1, <3>1, <3>2 DEF RouteToErp
  <2> QED
    BY <2>1, WorkerFrame
<1>2. CASE People
  <2>. PICK u \in Users : UNCHANGED erpVars \/ DecideInErp(u) \/ PayInErp(u)
    BY <1>2, RequestFrame
  <2>1. ASSUME req[u].pc # "idle"
        PROVE  /\ req[u].doc \in Docs /\ req[u].invoice \in Invoices
               /\ raisedBy[req[u].invoice] = req[u].doc
    BY <2>1, ReadingsAssumption DEF RequestKnows, Carried, LinkedToOwn
  <2>2. CASE DecideInErp(u)
    <3>1. /\ req[u].outcome \in {"APPROVED", "REJECTED"}
          /\ Role[u] \in {"CFO", "ADMIN"} \/ Role[u] = Route(req[u].doc)
          /\ Route(req[u].doc) # "AUTO_APPROVE"
      BY <2>1, <2>2 DEF DecideInErp, RequestKnows, Carried, LinkedToOwn, Outranks
    <3>2. Role[u] \in MayDecide(OrderAmount[invoice[req[u].invoice].order])
      BY <2>1, <2>2, <3>1, LinkFacts, ApproverMay DEF DecideInErp, Route
    <3> QED
      BY <2>1, <2>2, <3>1, <3>2 DEF DecideInErp, Resolves
  <2>3. CASE PayInErp(u)
    BY <2>1, <2>3, LinkFacts DEF PayInErp, Read
  <2> QED
    BY <2>2, <2>3
<1>3. CASE ErpUsers
  <2>. PICK n \in Invoices :
         \/ \E s \in DirectDecisions \cap {"APPROVED", "REJECTED"} : Decide(n, s, "ERP")
         \/ createPayment(n, invoice[n].amount)
    BY <1>3 DEF ErpUsers, DirectInErp
  <2> QED
    BY DEF Resolves, MayDecide, Authority
<1>4. CASE WorkerFails \/ FrontDoor \/ \E d \in Docs : Timers(d)
  BY <1>4, WorkerFaultFrame, IngestFrame, QueueFrame DEF erpVars
<1>5. CASE HookFails \/ QueueBoard \/ Crash \/ \E d \in Docs : Enqueue(d)
  BY <1>5 DEF HookFails, QueueBoard, Crash, Enqueue
<1> QED
  BY <1>0, <1>1, <1>2, <1>3, <1>4, <1>5 DEF Next

-----------------------------------------------------------------------------
(* The invariant about money *)

\* A reading that an invoice was raised from stays as it is.
LEMMA ReadStays ==
  ASSUME Inv, [Next]_vars, NEW d \in Docs, extraction[d] # None
  PROVE  Read(d)' = Read(d)
BY FinalStep DEF Read

\* Billing an open order, for the whole of it.
LEMMA BillStep ==
  ASSUME Inv, MoneyInv, [Next]_vars, NEW d \in Docs, CreateInvoice(d)
  PROVE  Faithful' /\ OrdersTaken' /\ NobodyYet' /\ Unpaid' /\ OrderBilledOnce'
<1> USE DEF Inv, TypeOK, IInv, MoneyInv
<1> DEFINE n == Number(d)
           o == Read(d).poNumber
<1>1. /\ At("create", d) /\ extraction[d] \in Readings /\ verify(Read(d), Orders)
      /\ extraction' = extraction
  BY ReadingsAssumption DEF CreateInvoice, At, WorkerKnows, Established, WorkflowTypeOK,
    workflowVars
<1>2. /\ n \in Invoices /\ o \in Orders /\ Read(d).amount = OrderAmount[o]
      /\ VerifiedVendor(Read(d)) = OrderVendor[o]
  BY <1>1, VerifiedFacts DEF Number, Read
<1>3. /\ ~InvoiceExists(n)
      /\ invoice' = [invoice EXCEPT ![n] =
           [status |-> "RECEIVED", order |-> o, vendor |-> OrderVendor[o],
            amount |-> OrderAmount[o], paid |-> 0]]
      /\ orderStatus' = [orderStatus EXCEPT ![o] = "MATCHED"]
      /\ raisedBy' = [raisedBy EXCEPT ![n] = d]
      /\ decidedBy' = decidedBy
  BY <1>2 DEF CreateInvoice, createInvoice
<1>4. orderStatus[o] = "OPEN"
  BY <1>1 DEF StillOpen
<1>5. \A m \in Invoices : Live(m) => invoice[m].order # o
  BY <1>4 DEF OrdersTaken
<1>6. \A m \in Invoices \ {n} :
        invoice'[m] = invoice[m] /\ raisedBy'[m] = raisedBy[m]
  BY <1>3 DEF ErpTypeOK
<1>7. /\ invoice'[n].status = "RECEIVED" /\ invoice'[n].order = o
      /\ invoice'[n].vendor = OrderVendor[o] /\ invoice'[n].amount = OrderAmount[o]
      /\ invoice'[n].paid = 0 /\ raisedBy'[n] = d /\ orderStatus'[o] = "MATCHED"
  BY <1>2, <1>3 DEF ErpTypeOK
<1>r. \A e \in Docs : Read(e)' = Read(e)
  BY <1>1 DEF Read
<1> HIDE DEF n, o
<1>8. Faithful'
  BY <1>2, <1>6, <1>7, <1>r DEF Faithful, InvoiceExists
<1>9. OrdersTaken'
  <2>1. \A p \in Orders \ {o} : orderStatus'[p] = orderStatus[p]
    BY <1>2, <1>3 DEF ErpTypeOK
  <2>2. ASSUME NEW m \in Invoices \ {n}, InvoiceExists(m) PROVE invoice[m].order \in Orders
    BY <2>2 DEF Faithful
  <2>3. ASSUME NEW m \in Invoices \ {n}
        PROVE  /\ Live(m)' => orderStatus'[invoice'[m].order] # "OPEN"
               /\ invoice'[m].status = "PAID" =>
                    /\ invoice'[m].paid = OrderAmount[invoice'[m].order]
                    /\ orderStatus'[invoice'[m].order] = "CLOSED"
    <3>1. CASE Live(m)
      <4>1. invoice[m].order \in Orders \ {o}
        BY <1>5, <2>2, <3>1 DEF Live
      <4> QED
        BY <1>6, <2>1, <3>1, <4>1 DEF OrdersTaken, Live, InvoiceExists
    <3> QED
      BY <1>6, <3>1 DEF Live, InvoiceExists
  <2> QED
    BY <1>7, <2>3 DEF OrdersTaken, Live, InvoiceExists
<1>10. NobodyYet' /\ Unpaid'
  BY <1>2, <1>3, <1>6, <1>7 DEF NobodyYet, Unpaid, Decided, InvoiceExists
<1>11. OrderBilledOnce'
  BY <1>5, <1>6, <1>7 DEF OrderBilledOnce, Live, InvoiceExists
<1> QED
  BY <1>8, <1>9, <1>10, <1>11

\* A decision; a rejection may free the order, which nobody else bills.
LEMMA ResolveStep ==
  ASSUME Inv, MoneyInv, [Next]_vars, NEW n \in Invoices, NEW s \in {"APPROVED", "REJECTED"},
         NEW by, Resolves(n, s, by), \A e \in Docs : extraction[e] # None => Read(e)' = Read(e)
  PROVE  Faithful' /\ OrdersTaken' /\ NobodyYet' /\ Unpaid' /\ OrderBilledOnce'
<1> USE DEF Inv, TypeOK, IInv, MoneyInv
<1>1. /\ invoice[n].status \in Undecided /\ UNCHANGED raisedBy
      /\ invoice'[n] = [invoice[n] EXCEPT !.status = s]
      /\ \A m \in Invoices \ {n} : invoice'[m] = invoice[m] /\ decidedBy'[m] = decidedBy[m]
      /\ \/ orderStatus' = orderStatus
         \/ s = "REJECTED" /\ orderStatus' = [orderStatus EXCEPT ![invoice[n].order] = "OPEN"]
  BY DEF Resolves, Decide, Accepts, ErpTypeOK
<1>2. \A m \in Invoices : /\ invoice'[m].order = invoice[m].order
                          /\ invoice'[m].amount = invoice[m].amount
                          /\ invoice'[m].vendor = invoice[m].vendor
                          /\ invoice'[m].paid = invoice[m].paid
                          /\ InvoiceExists(m)' = InvoiceExists(m)
                          /\ Live(m)' => Live(m)
                          /\ m # n => invoice'[m].status = invoice[m].status
                          /\ m = n => invoice'[m].status = s
  BY <1>1 DEF ErpTypeOK, Invoice, InvoiceExists, Live, Undecided
<1>3. Faithful'
  <2>1. ASSUME NEW m \in Invoices, InvoiceExists(m) PROVE Read(raisedBy[m])' = Read(raisedBy[m])
    BY <1>1, <2>1 DEF Faithful, RaisedFromReading
  <2> QED
    BY <1>1, <1>2, <2>1 DEF Faithful, Read
<1>4. OrdersTaken'
  <2>1. ASSUME NEW m \in Invoices, Live(m)' PROVE orderStatus'[invoice[m].order] = orderStatus[invoice[m].order]
    <3>1. m # n => invoice[m].order # invoice[n].order
      BY <1>1, <1>2, <2>1 DEF OrderBilledOnce, Live, InvoiceExists, Undecided
    <3>2. invoice[m].order \in Orders /\ invoice[n].order \in Orders
      BY <1>1, <1>2, <2>1 DEF Faithful, Live, InvoiceExists, Undecided
    <3> QED
      BY <1>1, <1>2, <2>1, <3>1, <3>2 DEF ErpTypeOK, Live
  <2>2. ASSUME NEW m \in Invoices, invoice'[m].status = "PAID"
        PROVE  Live(m)' /\ invoice[m].status = "PAID"
    BY <1>2, <2>2 DEF Live, InvoiceExists
  <2> QED
    BY <1>2, <2>1, <2>2 DEF OrdersTaken
<1>5. NobodyYet' /\ Unpaid'
  BY <1>1, <1>2 DEF NobodyYet, Unpaid, Decided, Undecided
<1>6. OrderBilledOnce'
  BY <1>2 DEF OrderBilledOnce, Live, InvoiceExists
<1> QED
  BY <1>3, <1>4, <1>5, <1>6

\* A payment, and an undecided invoice sent to its approver.
LEMMA PayStep ==
  ASSUME Inv, MoneyInv, [Next]_vars, NEW n \in Invoices,
         createPayment(n, invoice[n].amount) \/ AwaitApproval(n),
         \A e \in Docs : extraction[e] # None => Read(e)' = Read(e)
  PROVE  Faithful' /\ OrdersTaken' /\ NobodyYet' /\ Unpaid' /\ OrderBilledOnce'
<1> USE DEF Inv, TypeOK, IInv, MoneyInv
<1>1. /\ UNCHANGED <<raisedBy, decidedBy>>
      /\ \A m \in Invoices \ {n} : invoice'[m] = invoice[m]
      /\ \/ /\ invoice[n].status = "APPROVED"
            /\ invoice'[n] = [invoice[n] EXCEPT !.status = "PAID", !.paid = invoice[n].amount]
            /\ orderStatus' = [orderStatus EXCEPT ![invoice[n].order] = "CLOSED"]
         \/ /\ invoice[n].status \in Undecided
            /\ invoice'[n] = [invoice[n] EXCEPT !.status = "PENDING_APPROVAL"]
            /\ orderStatus' = orderStatus
  BY DEF createPayment, AwaitApproval, Accepts, ErpTypeOK
<1>2. \A m \in Invoices : /\ invoice'[m].order = invoice[m].order
                          /\ invoice'[m].amount = invoice[m].amount
                          /\ invoice'[m].vendor = invoice[m].vendor
                          /\ InvoiceExists(m)' <=> InvoiceExists(m)
                          /\ Live(m)' <=> Live(m)
  <2>1. \A m \in Invoices \ {n} : Live(m)' <=> Live(m)
    BY <1>1 DEF InvoiceExists, Live
  <2>2. /\ invoice'[n].status \notin {"ABSENT", "REJECTED"}
        /\ invoice[n].status \notin {"ABSENT", "REJECTED"}
        /\ invoice'[n].order = invoice[n].order /\ invoice'[n].amount = invoice[n].amount
        /\ invoice'[n].vendor = invoice[n].vendor
    BY <1>1 DEF ErpTypeOK, Invoice, Undecided
  <2> QED
    BY <1>1, <2>1, <2>2 DEF InvoiceExists, Live
<1>3. Faithful'
  <2>1. ASSUME NEW m \in Invoices, InvoiceExists(m) PROVE Read(raisedBy[m])' = Read(raisedBy[m])
    BY <1>1, <2>1 DEF Faithful, RaisedFromReading
  <2> QED
    BY <1>1, <1>2, <2>1 DEF Faithful, Read
<1>4. OrdersTaken'
  <2>1. /\ InvoiceExists(n) /\ invoice[n].order \in Orders
        /\ invoice[n].amount = OrderAmount[invoice[n].order]
    BY <1>1 DEF Faithful, InvoiceExists, Undecided
  <2>2. ASSUME NEW o \in Orders, orderStatus[o] # "OPEN" PROVE orderStatus'[o] # "OPEN"
    BY <1>1, <2>2 DEF ErpTypeOK
  <2>3. ASSUME NEW o \in Orders, orderStatus[o] = "CLOSED" PROVE orderStatus'[o] = "CLOSED"
    BY <1>1, <2>1, <2>3 DEF ErpTypeOK
  <2>4. ASSUME NEW m \in Invoices, Live(m)' PROVE orderStatus'[invoice'[m].order] # "OPEN"
    BY <1>2, <2>2, <2>4 DEF OrdersTaken, Faithful, Live
  <2>5. ASSUME NEW m \in Invoices \ {n}, invoice'[m].status = "PAID"
        PROVE  /\ invoice'[m].paid = OrderAmount[invoice'[m].order]
               /\ orderStatus'[invoice'[m].order] = "CLOSED"
    BY <1>1, <2>3, <2>5 DEF OrdersTaken, Faithful, InvoiceExists
  <2>6. ASSUME invoice'[n].status = "PAID"
        PROVE  /\ invoice'[n].paid = OrderAmount[invoice'[n].order]
               /\ orderStatus'[invoice'[n].order] = "CLOSED"
    BY <1>1, <2>1, <2>6 DEF ErpTypeOK, Invoice
  <2> QED
    BY <2>4, <2>5, <2>6 DEF OrdersTaken
<1>5. NobodyYet' /\ Unpaid'
  <2>1. /\ invoice'[n].status \notin Decided => decidedBy[n] = None
        /\ invoice'[n].status # "PAID" => invoice'[n].paid = 0
    BY <1>1 DEF NobodyYet, Unpaid, Decided, Undecided, ErpTypeOK, Invoice
  <2> QED
    BY <1>1, <2>1 DEF NobodyYet, Unpaid
<1>6. OrderBilledOnce'
  BY <1>2 DEF OrderBilledOnce, Live, InvoiceExists
<1> QED
  BY <1>3, <1>4, <1>5, <1>6

\* The worker comes to the creation of an invoice by a clean verdict only.
LEMMA CreateFrame ==
  ASSUME Inv, [Next]_vars, NEW d \in Docs, At("create", d)'
  PROVE  (At("create", d) /\ worker' = worker) \/ VerifyClean(d)
<1> USE DEF Inv, TypeOK
<1>1. CASE Worker
  <2>. PICK e \in Docs : WorkerStep(e)
    BY <1>1 DEF Worker
  <2>1. CASE VerifyClean(e)
    BY <2>1 DEF VerifyClean, At, Goto, WorkerTypeOK
  <2>2. CASE ~VerifyClean(e)
    BY <2>2 DEF WorkerStep, TakeJob, StartAttempt, SkipAttempt, MarkExtracting, ReadInvoice,
      ReadInvoiceThrows, FlagForReview, CreateInvoice, CreateConflict, MarkMatched,
      RouteToErp, RouteRefused, CreateTask, Settle, FinishAttempt, CatchFailed, CatchReset,
      RejectAttempt, At, Goto, Idle, WorkerTypeOK
  <2> QED
    BY <2>1, <2>2
<1>2. CASE WorkerFails
  BY <1>2, WorkerFaultFrame DEF Throw, CatchWriteLost, At, Goto, WorkerTypeOK
<1>3. CASE Crash
  BY <1>3 DEF Crash, Idle, At
<1>4. CASE ~Worker /\ ~WorkerFails /\ ~Crash
  BY <1>4, OthersStep DEF At
<1> QED
  BY <1>1, <1>2, <1>3, <1>4

\* Nobody takes the order away between verify and the creation.
LEMMA OpenStep ==
  ASSUME Inv, MoneyInv, [Next]_vars
  PROVE  StillOpen'
<1> USE DEF Inv, TypeOK, IInv, MoneyInv
<1> SUFFICES ASSUME NEW d \in Docs, At("create", d)'
             PROVE  orderStatus'[Read(d)'.poNumber] = "OPEN"
  BY DEF StillOpen
<1>1. CASE VerifyClean(d)
  <2>1. Read(d)' = Read(d) /\ orderStatus' = orderStatus
    BY <1>1 DEF VerifyClean, Read, workflowVars, erpVars
  <2> QED
    BY <1>1, <2>1 DEF VerifyClean, verify, listOpenPOs
<1>2. CASE At("create", d) /\ worker' = worker
  <2>1. Read(d)' = Read(d) /\ Read(d).poNumber \in Orders
    <3>1. extraction[d] \in Readings /\ verify(Read(d), Orders)
      BY <1>2, ReadingsAssumption DEF WorkerKnows, Established, At, WorkflowTypeOK
    <3> QED
      BY <3>1, ReadStays, ReadingsAssumption DEF verify
  <2>2. orderStatus[Read(d).poNumber] = "OPEN"
    BY <1>2 DEF StillOpen
  <2>3. ~\E e \in Docs : CreateInvoice(e)
    BY <1>2 DEF CreateInvoice, At, Goto, WorkerTypeOK
  <2>4. ASSUME NEW n \in Invoices, createPayment(n, invoice[n].amount)
        PROVE  orderStatus'[Read(d).poNumber] = "OPEN"
    <3>1. invoice[n].order # Read(d).poNumber
      BY <2>2, <2>4 DEF createPayment, OrdersTaken, Live, InvoiceExists
    <3> QED
      BY <2>1, <2>2, <2>4, <3>1 DEF createPayment, ErpTypeOK
  <2>5. ASSUME NEW n \in Invoices, NEW s, NEW by, Resolves(n, s, by)
        PROVE  orderStatus'[Read(d).poNumber] = "OPEN"
    BY <2>1, <2>2, <2>5 DEF Resolves, Decide, ErpTypeOK
  <2>6. orderStatus'[Read(d).poNumber] = "OPEN"
    BY <2>2, <2>3, <2>4, <2>5, ErpMoves DEF erpVars, AwaitApproval
  <2> QED
    BY <2>1, <2>6
<1> QED
  BY <1>1, <1>2, CreateFrame

LEMMA MoneyInit == Init => MoneyInv
BY DEF Init, ErpInit, WorkerInit, Idle, NoInvoice, MoneyInv, Faithful, OrdersTaken, NobodyYet,
  Unpaid, StillOpen, OrderBilledOnce, Live, InvoiceExists, Decided, At

LEMMA MoneyStep == Inv /\ MoneyInv /\ [Next]_vars => MoneyInv'
<1> SUFFICES ASSUME Inv, MoneyInv, [Next]_vars PROVE MoneyInv'
  OBVIOUS
<1>r. \A e \in Docs : extraction[e] # None => Read(e)' = Read(e)
  BY ReadStays
<1>1. Faithful' /\ OrdersTaken' /\ NobodyYet' /\ Unpaid' /\ OrderBilledOnce'
  <2>1. CASE UNCHANGED erpVars
    <3>1. Faithful'
      <4>1. ASSUME NEW n \in Invoices, InvoiceExists(n)
            PROVE  Read(raisedBy[n])' = Read(raisedBy[n])
        BY <1>r, <2>1, <4>1 DEF Inv, IInv, MoneyInv, Faithful, RaisedFromReading, erpVars
      <4> QED
        BY <2>1, <4>1 DEF MoneyInv, Faithful, InvoiceExists, erpVars, Read
    <3> QED
      BY <2>1, <3>1 DEF MoneyInv, OrdersTaken, NobodyYet, Unpaid, OrderBilledOnce, Live,
        InvoiceExists, erpVars
  <2>2. CASE \E d \in Docs : CreateInvoice(d)
    BY <2>2, BillStep
  <2>3. CASE \E n \in Invoices, s \in {"APPROVED", "REJECTED"} : \E by : Resolves(n, s, by)
    BY <1>r, <2>3, ResolveStep
  <2>4. CASE \E n \in Invoices : createPayment(n, invoice[n].amount) \/ AwaitApproval(n)
    BY <1>r, <2>4, PayStep
  <2> QED
    BY <2>1, <2>2, <2>3, <2>4, ErpMoves DEF MoneyInv
<1> QED
  BY <1>1, OpenStep DEF MoneyInv

\* The invariant about money holds in every behaviour.
LEMMA MoneyInvariance == Spec => [](Inv /\ MoneyInv)
BY MoneyInit, MoneyStep, InvInit, InvStep, PTL DEF Spec

-----------------------------------------------------------------------------
(* Theorems *)

\* A purchase order is billed by one live invoice at most, although verify
\* reads the open orders two calls before it bills one (processDocument.ts).
THEOREM OrdersBilledOnce == Spec => []OrderBilledOnce
<1>1. MoneyInv => OrderBilledOnce
  BY DEF MoneyInv
<1> QED
  BY <1>1, MoneyInvariance, PTL

\* Money leaves only for a real order, its vendor and its amount (verify.ts
\* rules 3 to 5, app.ts pay).
THEOREM PaymentsMatch == Spec => []PaymentMatchesOrder
<1>1. MoneyInv => PaymentMatchesOrder
  BY DEF MoneyInv, Faithful, OrdersTaken, PaymentMatchesOrder, InvoiceExists
<1> QED
  BY <1>1, MoneyInvariance, PTL

-----------------------------------------------------------------------------
(* The promise of Payables *)

\* What the ledger says of an invoice.
Entry(n) ==
  [state |-> LedgerState[invoice[n].status], order |-> invoice[n].order,
   by |-> decidedBy[n], paid |-> invoice[n].paid]

Entries ==
  [state : {"none", "raised", "approved", "rejected", "paid"}, order : Orders \cup {None},
   by : Authority \cup {None}, paid : Int]

\* An entry that differs from another in two fields.
LEMMA EntryUpdates ==
  ASSUME NEW s \in Entries, NEW t \in Entries
  PROVE  /\ t.by = s.by /\ t.paid = s.paid =>
              t = [s EXCEPT !.state = t.state, !.order = t.order]
         /\ t.order = s.order /\ t.paid = s.paid =>
              t = [s EXCEPT !.state = t.state, !.by = t.by]
         /\ t.order = s.order /\ t.by = s.by =>
              t = [s EXCEPT !.state = t.state, !.paid = t.paid]
BY DEF Entries

\* What the ledger says of the invoices is such an entry.
LEMMA EntryFacts ==
  ASSUME ErpTypeOK
  PROVE  /\ \A n \in Invoices : Ledger[n] = Entry(n) /\ Entry(n) \in Entries
         /\ Promise!Empty \in Entries
         /\ Promise!Empty.by = None /\ Promise!Empty.paid = 0
<1>1. ASSUME NEW n \in Invoices PROVE Entry(n) \in Entries
  <2>1. invoice[n].status \in {"ABSENT", "RECEIVED", "PENDING_APPROVAL", "APPROVED", "REJECTED", "PAID"}
    BY DEF ErpTypeOK, Invoice, InvoiceStatus, Undecided, Decided
  <2>2. LedgerState[invoice[n].status] \in {"none", "raised", "approved", "rejected", "paid"}
    BY <2>1 DEF LedgerState
  <2> QED
    BY <2>2 DEF Entry, Entries, ErpTypeOK, Invoice
<1> QED
  BY <1>1 DEF Ledger, Entry, Entries, Promise!Empty

\* The ledger of an ERP without invoices.
LEMMA PromiseInit == Init => Promise!PInit
BY DEF Init, ErpInit, NoInvoice, Ledger, LedgerState, Promise!PInit, Promise!Empty

\* Billing an order raises a payable.
LEMMA RaiseStep ==
  ASSUME Inv, MoneyInv, NEW d \in Docs, CreateInvoice(d)
  PROVE  Promise!PNext
<1> USE DEF Inv, TypeOK, IInv, MoneyInv
<1>1. PICK n \in Invoices, o \in Orders : n = Number(d) /\ o = Read(d).poNumber
  <2>1. extraction[d] \in Readings /\ verify(Read(d), Orders)
    BY ReadingsAssumption DEF CreateInvoice, At, WorkerKnows, Established, WorkflowTypeOK
  <2> QED
    BY <2>1, VerifiedFacts DEF Number, Read
<1>2. /\ invoice[n].status = "ABSENT" /\ decidedBy[n] = None
      /\ invoice'[n].status = "RECEIVED" /\ invoice'[n].order = o /\ invoice'[n].paid = 0
      /\ \A m \in Invoices \ {n} : invoice'[m] = invoice[m]
      /\ decidedBy' = decidedBy
  BY <1>1 DEF CreateInvoice, createInvoice, InvoiceExists, ErpTypeOK, NobodyYet, Decided
<1>3. \A m \in Invoices : Live(m) => invoice[m].order # o
  BY <1>1 DEF CreateInvoice, StillOpen, OrdersTaken
<1>4. Ledger[n].state = "none"
  BY <1>1, <1>2 DEF Ledger, LedgerState
<1>5. \A m \in Invoices : Promise!Live(m) => Ledger[m].order # o
  <2>1. ASSUME NEW m \in Invoices, Promise!Live(m) PROVE Live(m)
    BY <2>1 DEF Promise!Live, Ledger, LedgerState, Live, InvoiceExists
  <2> QED
    BY <1>3, <2>1 DEF Ledger
<1>6. Ledger' = [Ledger EXCEPT ![n] = [Promise!Empty EXCEPT !.state = "raised", !.order = o]]
  <2>1. Ledger'[n] = [Promise!Empty EXCEPT !.state = "raised", !.order = o]
    <3>1. Ledger'[n] = Entry(n)'
      BY <1>1 DEF Ledger, Entry
    <3>2. Entry(n)' = [state |-> "raised", order |-> o, by |-> None, paid |-> 0]
      BY <1>2 DEF Entry, LedgerState
    <3>3. Entry(n)' \in Entries
      BY <3>2 DEF Entries
    <3>4. Entry(n)' = [Promise!Empty EXCEPT !.state = "raised", !.order = o]
      <4>1. /\ Entry(n)'.state = "raised" /\ Entry(n)'.order = o
            /\ Entry(n)'.by = None /\ Entry(n)'.paid = 0
        BY <3>2
      <4> QED
        BY <3>3, <4>1, EntryFacts, EntryUpdates
    <3> QED
      BY <3>1, <3>4
  <2>2. \A m \in Invoices \ {n} : Ledger'[m] = Ledger[m]
    BY <1>2 DEF Ledger
  <2> QED
    BY <1>1, <2>1, <2>2 DEF Ledger
<1>7. Promise!Raise(n, o)
  BY <1>4, <1>5, <1>6 DEF Promise!Raise
<1> QED
  BY <1>1, <1>7 DEF Promise!PNext

\* A decision resolves a payable, with the authority for its order.
LEMMA VerdictStep ==
  ASSUME Inv, MoneyInv, NEW n \in Invoices, NEW s \in {"APPROVED", "REJECTED"}, NEW by,
         Resolves(n, s, by)
  PROVE  Promise!PNext
<1> USE DEF Inv, TypeOK, MoneyInv
<1> DEFINE verdict == IF s = "APPROVED" THEN "approved" ELSE "rejected"
<1>1. /\ invoice[n].status \in Undecided
      /\ invoice'[n] = [invoice[n] EXCEPT !.status = s]
      /\ decidedBy'[n] = by
      /\ \A m \in Invoices \ {n} : invoice'[m] = invoice[m] /\ decidedBy'[m] = decidedBy[m]
  BY DEF Resolves, Decide, Accepts, ErpTypeOK
<1>2. Ledger[n].state = "raised"
  BY <1>1 DEF Ledger, LedgerState, Undecided
<1>3. Ledger[n].order = invoice[n].order /\ invoice[n].order \in Orders
  BY <1>1 DEF Ledger, Faithful, InvoiceExists, Undecided
<1>4. Ledger' = [Ledger EXCEPT ![n].state = verdict, ![n].by = by]
  <2>1. Ledger'[n] = [Ledger[n] EXCEPT !.state = verdict, !.by = by]
    <3>1. Ledger[n] = Entry(n) /\ Ledger'[n] = Entry(n)'
      BY DEF Ledger, Entry
    <3>2. Entry(n)' = [state |-> verdict, order |-> invoice[n].order, by |-> by,
                       paid |-> invoice[n].paid]
      BY <1>1 DEF Entry, LedgerState, ErpTypeOK, Invoice
    <3>3. Entry(n)' \in Entries /\ Entry(n) \in Entries
      BY <3>2, EntryFacts DEF Entries, Resolves, MayDecide, ErpTypeOK, Invoice
    <3>4. Entry(n).order = invoice[n].order /\ Entry(n).paid = invoice[n].paid
      BY DEF Entry
    <3>5. Entry(n)' = [Entry(n) EXCEPT !.state = verdict, !.by = by]
      <4>1. PICK old \in Entries, new \in Entries : old = Entry(n) /\ new = Entry(n)'
        BY <3>3
      <4>2. new.state = verdict /\ new.by = by /\ new.order = old.order /\ new.paid = old.paid
        BY <3>2, <3>4, <4>1
      <4>3. new = [old EXCEPT !.state = new.state, !.by = new.by]
        BY <4>2, EntryUpdates
      <4> QED
        BY <4>1, <4>2, <4>3
    <3> QED
      BY <3>1, <3>5
  <2>2. \A m \in Invoices \ {n} : Ledger'[m] = Ledger[m]
    BY <1>1 DEF Ledger
  <2> QED
    BY <2>1, <2>2 DEF Ledger
<1>5. Promise!Resolve(n, verdict)
  BY <1>2, <1>3, <1>4 DEF Promise!Resolve, Resolves
<1> QED
  BY <1>5 DEF Promise!PNext

\* A payment pays a payable; sending it to its approver changes nothing.
LEMMA SettleStep ==
  ASSUME Inv, MoneyInv, NEW n \in Invoices
  PROVE  /\ createPayment(n, invoice[n].amount) => Promise!PNext
         /\ AwaitApproval(n) => Ledger' = Ledger
<1> USE DEF Inv, TypeOK, MoneyInv
<1>1. ASSUME createPayment(n, invoice[n].amount) PROVE Promise!PNext
  <2>1. /\ invoice[n].status = "APPROVED" /\ decidedBy' = decidedBy
        /\ invoice'[n] = [invoice[n] EXCEPT !.status = "PAID", !.paid = invoice[n].amount]
        /\ \A m \in Invoices \ {n} : invoice'[m] = invoice[m]
        /\ invoice[n].order \in Orders /\ invoice[n].amount = OrderAmount[invoice[n].order]
    BY <1>1 DEF createPayment, ErpTypeOK, Faithful, InvoiceExists
  <2>2. Ledger[n].state = "approved" /\ Ledger[n].order = invoice[n].order
    BY <2>1 DEF Ledger, LedgerState
  <2>3. Ledger'[n] = [Ledger[n] EXCEPT !.state = "paid", !.paid = OrderAmount[invoice[n].order]]
    <3>1. Ledger[n] = Entry(n) /\ Ledger'[n] = Entry(n)'
      BY DEF Ledger, Entry
    <3>2. Entry(n)' = [state |-> "paid", order |-> invoice[n].order, by |-> decidedBy[n],
                       paid |-> OrderAmount[invoice[n].order]]
      BY <2>1 DEF Entry, LedgerState, ErpTypeOK, Invoice
    <3>3. Entry(n)' \in Entries /\ Entry(n) \in Entries
      BY <2>1, <3>2, EntryFacts, OrdersAssumption DEF Entries, ErpTypeOK, Invoice
    <3>4. Entry(n).order = invoice[n].order /\ Entry(n).by = decidedBy[n]
      BY DEF Entry
    <3>5. Entry(n)' = [Entry(n) EXCEPT !.state = "paid", !.paid = OrderAmount[invoice[n].order]]
      <4>1. PICK old \in Entries, new \in Entries : old = Entry(n) /\ new = Entry(n)'
        BY <3>3
      <4>2. /\ new.state = "paid" /\ new.paid = OrderAmount[invoice[n].order]
            /\ new.order = old.order /\ new.by = old.by
        BY <3>2, <3>4, <4>1
      <4>3. new = [old EXCEPT !.state = new.state, !.paid = new.paid]
        BY <4>2, EntryUpdates
      <4> QED
        BY <4>1, <4>2, <4>3
    <3> QED
      BY <3>1, <3>5
  <2>4. \A m \in Invoices \ {n} : Ledger'[m] = Ledger[m]
    BY <2>1 DEF Ledger
  <2>5. Ledger' = [Ledger EXCEPT ![n].state = "paid",
                                 ![n].paid = OrderAmount[Ledger[n].order]]
    BY <2>2, <2>3, <2>4 DEF Ledger
  <2>6. Promise!Pay(n)
    BY <2>2, <2>5 DEF Promise!Pay
  <2> QED
    BY <2>6 DEF Promise!PNext
<1>2. ASSUME AwaitApproval(n) PROVE Ledger' = Ledger
  <2>1. /\ invoice[n].status \in Undecided /\ decidedBy' = decidedBy
        /\ invoice'[n] = [invoice[n] EXCEPT !.status = "PENDING_APPROVAL"]
        /\ \A m \in Invoices \ {n} : invoice'[m] = invoice[m]
    BY <1>2 DEF AwaitApproval, Accepts, ErpTypeOK
  <2>2. \A m \in Invoices : Ledger'[m] = Ledger[m]
    BY <2>1 DEF Ledger, LedgerState, Undecided, ErpTypeOK, Invoice
  <2> QED
    BY <2>2 DEF Ledger
<1> QED
  BY <1>1, <1>2

\* One bill per order, decided by somebody with the authority for its amount,
\* paid once for that amount: the server implements Payables.
THEOREM PromiseKept == Spec => KeepsThePromise
<1>1. Inv /\ MoneyInv /\ [Next]_vars => [Promise!PNext]_Ledger
  <2> SUFFICES ASSUME Inv, MoneyInv, [Next]_vars PROVE Promise!PNext \/ Ledger' = Ledger
    OBVIOUS
  <2>1. CASE UNCHANGED erpVars
    BY <2>1 DEF erpVars, Ledger
  <2> QED
    BY <2>1, RaiseStep, VerdictStep, SettleStep, ErpMoves DEF MoneyInv
<1> QED
  BY <1>1, PromiseInit, MoneyInvariance, PTL DEF Spec, KeepsThePromise, Promise!PSpec
=============================================================================
