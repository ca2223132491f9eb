----------------------------- MODULE Invariants -----------------------------
(***************************************************************************)
(* The inductive invariants of Verity: what every handler has established  *)
(* before each of its calls, in terms of the rows and the ERP (IInv), and  *)
(* who goes on with a document (JobsInv).  A run checks them, VerityProofs *)
(* proves the first and ClaimsProofs the second.                           *)
(***************************************************************************)
EXTENDS Verity, FiniteSets

\* The worker holds a document exactly while it is not idle.
WorkerHolds == worker.pc = "idle" <=> worker.doc = None

\* An invoice exists exactly if it was raised for a document, and carries the
\* number that was read out of that document.
RaisedFromReading == \A n \in Invoices :
  /\ InvoiceExists(n) <=> raisedBy[n] # None
  /\ raisedBy[n] # None => /\ extraction[raisedBy[n]] # None
                           /\ Number(raisedBy[n]) = n

\* A linked invoice is the one raised for the document; a task hangs on it and
\* asks for the approver that the reading's amount calls for.
LinkedToOwn == \A d \in Docs :
  /\ erpInvoiceId[d] # None => raisedBy[erpInvoiceId[d]] = d
  /\ task[d].status # "NONE" => /\ erpInvoiceId[d] # None
                                /\ Route(d) # "AUTO_APPROVE"
                                /\ task[d].requiredRole = Route(d)

NotRaised(d) == \A n \in Invoices : raisedBy[n] # d

\* What the attempt on the document d has established before its next call.
Established(d) ==
  /\ worker.pc \in {"read", "verify", "create", "match"} =>
       status[d] \notin {"NEEDS_REVIEW", "DUPLICATE"}
  /\ worker.pc \in {"verify", "create", "match", "route", "task", "settle"} =>
       extraction[d] # None
  /\ worker.pc \in {"verify", "create"} => NotRaised(d)
  /\ worker.pc = "create" => verify(Read(d), Orders)
  /\ worker.pc = "match" => /\ Number(d) \in Invoices
                            /\ raisedBy[Number(d)] = d
                            /\ erpInvoiceId[d] = None
  /\ worker.pc \in {"route", "task", "settle"} =>
       /\ Number(d) \in Invoices
       /\ erpInvoiceId[d] = Number(d)
  /\ worker.pc = "task" => Route(d) # "AUTO_APPROVE"
  /\ worker.pc = "settle" /\ Route(d) = "AUTO_APPROVE" => Backed("APPROVED", d)

WorkerKnows == \A d \in Docs : worker.doc = d => Established(d)

\* What the request of the user u in flight has established before its next call.
Carried(u) ==
  /\ req[u].doc \in Docs
  /\ req[u].invoice \in Invoices
  /\ erpInvoiceId[req[u].doc] = req[u].invoice
  /\ req[u].pc \in {"decide", "refused", "task", "doc"} =>
       task[req[u].doc].status # "NONE"
  /\ req[u].pc = "decide" => /\ req[u].outcome \in {"APPROVED", "REJECTED"}
                             /\ Outranks(u) \/ Role[u] = Route(req[u].doc)
  /\ req[u].pc \in {"task", "doc"} => /\ req[u].outcome \in Decided
                                      /\ Backed(req[u].outcome, req[u].doc)
  /\ req[u].pc = "paid" => Backed("PAID", req[u].doc)

RequestKnows == \A u \in Users : req[u].pc # "idle" => Carried(u)

\* The invariant that every step of Verity preserves.
IInv ==
  /\ WorkerHolds
  /\ RaisedFromReading
  /\ LinkedToOwn
  /\ WorkerKnows
  /\ RequestKnows
  /\ StatusTellsTheErpTruth
  /\ StoppedMeansNoInvoice
-----------------------------------------------------------------------------
(* Jobs and the documents they are for *)

Finished == Settled \ {"FAILED"}

\* The worker's job is the active one, a job whose last failure has yet to be
\* handled has used up its attempts, and before there is a job there is nothing
\* but the row.
JobsFit == \A d \in Docs :
  /\ worker.doc = d => job[d].state = "active"
  /\ d \in failedHook => job[d].state = "failed" /\ job[d].attemptsMade = Attempts
  /\ d \in ingesting => job[d].state = "none"
  /\ status[d] = "ABSENT" => job[d].state = "none" /\ d \notin ingesting
  /\ job[d].state = "none" => status[d] \in {"ABSENT", "QUEUED"} /\ erpInvoiceId[d] = None

\* Before a document is left to people there is a task for them.
TaskComesFirst == \A d \in Docs :
  \/ status[d] = "PENDING_APPROVAL"
  \/ At("settle", d) /\ Route(d) # "AUTO_APPROVE"
  => task[d].status # "NONE"

\* Only a crash leaves a job active that nobody works on, and another one a job
\* that has stalled before.
NoJobAbandoned == \A d \in Docs :
  /\ job[d].stalled => crashes >= 1
  /\ job[d].state = "active" /\ worker.doc # d =>
       crashes >= IF job[d].stalled THEN 2 ELSE 1

\* A person may act on the document, is about to, or has.
WithPeople(d) ==
  \/ status[d] \in Finished
  \/ task[d].status # "NONE"
  \/ \E u \in Users : req[u].doc = d /\ req[u].pc \in {"pay", "paid"}

\* The pipeline has nothing left to do that could fail: whatever attempt is
\* made on the document ends without another word, or only settles it.
PastFailing(d) ==
  /\ status[d] \in Finished \cup {"MATCHED"}
  /\ d \notin failedHook
  /\ worker.doc = d => worker.pc \in {"start", "settle", "audit"}

\* Nothing is taken back from people.
PeopleUndisturbed(d) ==
  /\ WithPeople(d) => PastFailing(d)
  /\ worker.doc = d /\ worker.pc \in {"route", "task", "settle"} =>
       status[d] \in Finished \cup {"MATCHED"}

\* A document whose pipeline is under way has a worker, one that is queued has
\* somebody to go on with it, one that is FAILED has no attempt left or is to be
\* queued again, and one whose job is done, or about to be, is settled.
SomebodyGoesOn(d) ==
  /\ status[d] \in {"EXTRACTING", "MATCHED"} =>
       /\ worker.doc = d
       /\ worker.pc \in {"read", "verify", "create", "match", "route", "task", "settle", "failed"}
  /\ status[d] = "QUEUED" =>
       \/ d \in ingesting \cup failedHook
       \/ job[d].state \in {"waiting", "active", "delayed"}
  /\ status[d] = "FAILED" => job[d].attemptsMade = Attempts \/ At("reset", d)
  /\ job[d].state = "completed" => status[d] \in Settled
  /\ worker.doc = d /\ worker.pc = "audit" => status[d] \in Settled

\* A failing call disturbs the one document it was made for, if any.
FailuresIsolated == \E disturbed \in SUBSET Docs :
  /\ IsFiniteSet(disturbed) /\ Cardinality(disturbed) <= faults
  /\ \A d \in Docs \ disturbed :
       /\ crashes <= 1 => PeopleUndisturbed(d)
       /\ crashes = 0 => SomebodyGoesOn(d)

\* What the claims of Claims rest on; inductive relative to IInv.
JobsInv == JobsFit /\ TaskComesFirst /\ NoJobAbandoned /\ FailuresIsolated
=============================================================================
