------------------------------ MODULE Payables ------------------------------
(***************************************************************************)
(* What the product promises about money, whatever the queue, the retries, *)
(* the AI, the approvers and the crashes do in between (README: "verify,   *)
(* match to the PO, route, approve, pay").  A payable is raised once, for  *)
(* the whole of an order that no other live payable bills; somebody with   *)
(* the authority for its amount approves or rejects it; it is paid once,   *)
(* after approval, for the amount of the order.                            *)
(***************************************************************************)
EXTENDS Integers

CONSTANTS
  Numbers,         \* invoice numbers
  Orders,          \* purchase orders
  OrderAmount,     \* what each order is worth
  OrderAuthority,  \* who may decide a bill for each order
  None

VARIABLE ledger  \* [state, order, by, paid] of each payable

Empty == [state |-> "none", order |-> None, by |-> None, paid |-> 0]

Live(n) == ledger[n].state \in {"raised", "approved", "paid"}

PInit == ledger = [n \in Numbers |-> Empty]

Raise(n, o) ==
  /\ ledger[n].state = "none"
  /\ \A m \in Numbers : Live(m) => ledger[m].order # o
  /\ ledger' = [ledger EXCEPT ![n] = [Empty EXCEPT !.state = "raised", !.order = o]]

Resolve(n, verdict) ==
  /\ ledger[n].state = "raised"
  /\ \E by \in OrderAuthority[ledger[n].order] :
       ledger' = [ledger EXCEPT ![n].state = verdict, ![n].by = by]

Pay(n) ==
  /\ ledger[n].state = "approved"
  /\ ledger' = [ledger EXCEPT ![n].state = "paid",
                              ![n].paid = OrderAmount[ledger[n].order]]

PNext == \E n \in Numbers :
  \/ \E o \in Orders : Raise(n, o)
  \/ \E verdict \in {"approved", "rejected"} : Resolve(n, verdict)
  \/ Pay(n)

PSpec == PInit /\ [][PNext]_ledger
=============================================================================
