-------------------------------- MODULE Erp --------------------------------
(***************************************************************************)
(* The ERP, the system of record, behind the REST contract of              *)
(* server/src/erp.  It is a program of its own, outside this repository:   *)
(* what it accepts and refuses is read off how the code uses it.           *)
(*                                                                         *)
(*  - createInvoice answers 409 when the invoice number is taken, else it  *)
(*    stores a RECEIVED invoice and the order becomes MATCHED.  It is not  *)
(*    assumed to check that the order is still OPEN: verify has to.        *)
(*  - setInvoiceStatus answers 400 once an invoice has been decided.  A    *)
(*    rejected invoice may or may not free its order again.                *)
(*  - createPayment needs an APPROVED invoice, and closes the order.       *)
(*  - People also decide and pay invoices directly in the ERP's own UI.    *)
(*                                                                         *)
(* raisedBy and decidedBy are history variables: the document an invoice   *)
(* was created for, and by whose authority it was approved or rejected.    *)
(***************************************************************************)
EXTENDS Workflow

CONSTANT DirectDecisions  \* what people do in the ERP's own UI

VARIABLES
  invoice,      \* the AP invoices, by invoice number
  orderStatus,  \* the purchase orders' status
  raisedBy,     \* history: the document each invoice was created for
  decidedBy     \* history: the authority each decision was taken with

erpVars == <<invoice, orderStatus, raisedBy, decidedBy>>

Undecided == {"RECEIVED", "PENDING_APPROVAL"}
Decided == {"APPROVED", "REJECTED", "PAID"}
InvoiceStatus == {"ABSENT"} \cup Undecided \cup Decided
Authority == {"RULE", "FINANCE_HEAD", "CFO", "ADMIN", "ERP"}

ASSUME DirectAssumption == DirectDecisions \subseteq Decided

Invoice == [status : InvoiceStatus, order : Orders \cup {None},
            vendor : VendorIds \cup {None}, amount : Int, paid : Int]
NoInvoice == [status |-> "ABSENT", order |-> None, vendor |-> None,
              amount |-> 0, paid |-> 0]

ErpTypeOK ==
  /\ invoice \in [Invoices -> Invoice]
  /\ orderStatus \in [Orders -> {"OPEN", "MATCHED", "CLOSED"}]
  /\ raisedBy \in [Invoices -> Docs \cup {None}]
  /\ decidedBy \in [Invoices -> Authority \cup {None}]

ErpInit ==
  /\ invoice = [n \in Invoices |-> NoInvoice]
  /\ orderStatus = [o \in Orders |-> "OPEN"]
  /\ raisedBy = [n \in Invoices |-> None]
  /\ decidedBy = [n \in Invoices |-> None]

listOpenPOs == {o \in Orders : orderStatus[o] = "OPEN"}

InvoiceExists(n) == invoice[n].status # "ABSENT"

createInvoice(n, order, vendor, amount, d) ==
  /\ ~InvoiceExists(n)
  /\ invoice' = [invoice EXCEPT ![n] =
       [status |-> "RECEIVED", order |-> order, vendor |-> vendor,
        amount |-> amount, paid |-> 0]]
  /\ orderStatus' = [orderStatus EXCEPT ![order] = "MATCHED"]
  /\ raisedBy' = [raisedBy EXCEPT ![n] = d]
  /\ UNCHANGED decidedBy

Accepts(n) == invoice[n].status \in Undecided

\* A decision taken with the authority `by`.
Decide(n, s, by) ==
  /\ Accepts(n)
  /\ invoice' = [invoice EXCEPT ![n].status = s]
  /\ decidedBy' = [decidedBy EXCEPT ![n] = by]
  /\ \/ UNCHANGED orderStatus
     \/ /\ s = "REJECTED"
        /\ orderStatus' = [orderStatus EXCEPT ![invoice[n].order] = "OPEN"]
  /\ UNCHANGED raisedBy

AwaitApproval(n) ==
  /\ Accepts(n)
  /\ invoice' = [invoice EXCEPT ![n].status = "PENDING_APPROVAL"]
  /\ UNCHANGED <<orderStatus, raisedBy, decidedBy>>

createPayment(n, amount) ==
  /\ invoice[n].status = "APPROVED"
  /\ invoice' = [invoice EXCEPT ![n].status = "PAID", ![n].paid = amount]
  /\ orderStatus' = [orderStatus EXCEPT ![invoice[n].order] = "CLOSED"]
  /\ UNCHANGED <<raisedBy, decidedBy>>

\* Somebody works in the ERP's own UI.
DirectInErp ==
  /\ \E n \in Invoices :
       \/ \E s \in DirectDecisions \cap {"APPROVED", "REJECTED"} : Decide(n, s, "ERP")
       \/ /\ "PAID" \in DirectDecisions
          /\ createPayment(n, invoice[n].amount)
  /\ UNCHANGED <<workflowVars, faults>>
=============================================================================
