------------------------------- MODULE Rules -------------------------------
(***************************************************************************)
(* The deterministic rules of the pipeline (server/src/rules): which ERP   *)
(* vendor a printed name means, whether an extracted invoice is clean, and *)
(* who has to approve it.  No state: the module holds the master data the  *)
(* rules read from the ERP (vendors and purchase orders) and the operators.*)
(*                                                                         *)
(* A vendor name is a sequence of words, lower-cased and trimmed, so that  *)
(* "contains" keeps its meaning and spelling does not matter.  An amount   *)
(* of 0 stands for a missing amount as well: the code treats both alike.   *)
(***************************************************************************)
EXTENDS Integers, Sequences

CONSTANTS
  None,         \* a missing field, an empty column
  Orders,       \* the purchase orders raised in the ERP
  OrderVendor,  \* the vendor each order was placed with
  OrderAmount,  \* the amount each order was placed for
  VendorList    \* what listVendors answers, in the ERP's order: [id, name]

VendorIds == {VendorList[i].id : i \in DOMAIN VendorList}

ASSUME OrdersAssumption ==
  /\ OrderVendor \in [Orders -> VendorIds]
  /\ OrderAmount \in [Orders -> Nat \ {0}]
  /\ None \notin Orders

AUTO_APPROVE_BELOW == 50000
CFO_ABOVE == 500000

\* Who must approve an invoice of this amount; "AUTO_APPROVE" is nobody.
route(amount) ==
  CASE amount < AUTO_APPROVE_BELOW -> "AUTO_APPROVE"
    [] amount > CFO_ABOVE          -> "CFO"
    [] OTHER                       -> "FINANCE_HEAD"

\* name.includes(wanted), on sequences of words
Includes(name, wanted) ==
  \E i \in 0 .. Len(name) - Len(wanted) :
    SubSeq(name, i + 1, i + Len(wanted)) = wanted

(***************************************************************************)
(* The vendors a printed name may mean: {} is "none", one vendor is        *)
(* "found", several are "ambiguous".  Exact names win, and the first of    *)
(* several exact ones is taken.                                            *)
(***************************************************************************)
matchVendor(vendors, wanted) ==
  LET exact   == SelectSeq(vendors, LAMBDA v : v.name = wanted)
      partial == SelectSeq(vendors, LAMBDA v : \/ Includes(v.name, wanted)
                                               \/ Includes(wanted, v.name))
  IN  IF exact # <<>> THEN {Head(exact).id}
                      ELSE {partial[i].id : i \in DOMAIN partial}

\* Mutant of verify: rule 3 looks the order up whatever its status.
verifyAnyOrder(x, open) ==
  /\ x.vendorName # None /\ x.invoiceNo # None /\ x.amount # 0
  /\ x.poNumber \in DOMAIN OrderVendor
  /\ matchVendor(VendorList, x.vendorName) = {OrderVendor[x.poNumber]}
  /\ x.amount = OrderAmount[x.poNumber]

\* Mutant of verify: rule 5 is missing.
verifyAnyAmount(x, open) ==
  /\ x.vendorName # None /\ x.invoiceNo # None /\ x.amount # 0
  /\ x.poNumber \in open
  /\ matchVendor(VendorList, x.vendorName) = {OrderVendor[x.poNumber]}

\* verify answers ok for the reading x while exactly `open` orders are OPEN.
verify(x, open) ==
  /\ x.vendorName # None /\ x.invoiceNo # None /\ x.amount # 0
  /\ x.poNumber \in open
  /\ matchVendor(VendorList, x.vendorName) = {OrderVendor[x.poNumber]}
  /\ x.amount = OrderAmount[x.poNumber]

\* The vendor in the verdict of a clean reading.
VerifiedVendor(x) == CHOOSE v \in matchVendor(VendorList, x.vendorName) : TRUE
=============================================================================
