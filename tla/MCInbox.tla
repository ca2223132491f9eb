------------------------------ MODULE MCInbox ------------------------------
(***************************************************************************)
(* A small instance of Inbox for TLC: a bill for the CFO, an inbox and the *)
(* page of the bill in one browser, and a FINANCE_HEAD and the CFO who use *)
(* it in turn.                                                             *)
(***************************************************************************)
EXTENDS Inbox

CONSTANTS d1, fh, cfo, a, b

Bill == [vendorName |-> <<"acer">>, invoiceNo |-> "INV-1", poNumber |-> "PO-L",
         amount |-> 500001, dueDate |-> "VALID"]
TheReadings == {Bill}
TheVendors == <<[id |-> "acer", name |-> <<"acer">>]>>
TheOrders == {"PO-L"}
TheOrderVendor == [o \in TheOrders |-> "acer"]
TheOrderAmount == [o \in TheOrders |-> Bill.amount]
TheInvoices == {"INV-1"}
TheRead == [d \in Docs |-> Bill]
TheWaiting == [d \in Docs |-> Bill.invoiceNo]

ThePersonRole == [p \in People |-> IF p = fh THEN "FINANCE_HEAD" ELSE "CFO"]
TheOwner == [u \in Users |-> IF u = a THEN fh ELSE cfo]
TheRole == [u \in Users |-> ThePersonRole[TheOwner[u]]]
ThePages == [t \in {"page"} |-> d1]
TheBounds == [t \in {"inbox", "page"} |-> IF t = "inbox" THEN 2 ELSE 1]
=============================================================================
