------------------------------ MODULE MCVerity ------------------------------
(***************************************************************************)
(* Small instances of Verity for TLC: three vendors, two of them namesakes,*)
(* orders on either side of both thresholds (one below the auto-approve    *)
(* threshold, three for the FINANCE_HEAD, of 50,000 and of 500,000, and    *)
(* one for the CFO) and the readings that tell the rules apart.            *)
(***************************************************************************)
EXTENDS Claims, Invariants

CONSTANTS d1, d2, fh, cfo, clerk

TheVendors == <<[id |-> "acer", name |-> <<"acer", "india">>],
                [id |-> "dell", name |-> <<"dell">>],
                [id |-> "twin", name |-> <<"dell">>]>>
AllOrders == {"PO-S", "PO-E", "PO-M", "PO-L", "PO-T"}
TheOrderVendor == [o \in Orders |->
  CASE o = "PO-M" -> "dell" [] o = "PO-T" -> "twin" [] OTHER -> "acer"]
TheOrderAmount == [o \in Orders |->
  CASE o = "PO-S" -> 49999 [] o = "PO-E" -> 50000
    [] o \in {"PO-M", "PO-T"} -> 500000 [] o = "PO-L" -> 500001]
TheInvoices == {"INV-1", "INV-2"}

Reading(name, number, order, amount) ==
  [vendorName |-> name, invoiceNo |-> number, poNumber |-> order,
   amount |-> amount, dueDate |-> "VALID"]

Low == Reading(<<"acer">>, "INV-1", "PO-S", 49999)
Edge == Reading(<<"acer">>, "INV-2", "PO-E", 50000)
Mid == Reading(<<"dell">>, "INV-1", "PO-M", 500000)
MidAgain == Reading(<<"dell">>, "INV-2", "PO-M", 500000)
High == Reading(<<"acer">>, "INV-2", "PO-L", 500001)
WrongVendor == Reading(<<"dell">>, "INV-2", "PO-S", 49999)
WrongAmount == Reading(<<"dell">>, "INV-1", "PO-M", 50000)
Twin == Reading(<<"dell">>, "INV-2", "PO-T", 500000)
BadDate == [Low EXCEPT !.dueDate = "INVALID"]

EveryKind == {Low, Edge, High, WrongVendor, WrongAmount, Twin, BadDate}
TwoBills == {Low, Mid, MidAgain}

TheRoles == [u \in Users |->
  CASE u = fh -> "FINANCE_HEAD" [] u = cfo -> "CFO" [] OTHER -> "AP_CLERK"]

Everything == {"APPROVED", "REJECTED", "PAID"}
Nothing == {}
=============================================================================
