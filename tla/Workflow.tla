------------------------------ MODULE Workflow ------------------------------
(***************************************************************************)
(* The product database (server/prisma/schema.prisma): the rows that the   *)
(* queue worker, the HTTP handlers and the ingest code all read and write. *)
(* Each prisma call is one statement, so one operator here is one atomic   *)
(* update; nothing in the server opens a transaction around several.       *)
(*                                                                         *)
(* A document is identified with its file content (the sha256 is unique    *)
(* per organisation).  One organisation is modelled: every query filters   *)
(* by organizationId.                                                      *)
(***************************************************************************)
EXTENDS Rules

CONSTANTS
  Docs,       \* the distinct invoice files
  Invoices,   \* invoice numbers
  Readings,   \* what the AI may read out of a file
  MaxFaults   \* how many awaited calls may fail

VARIABLES
  status,        \* IngestedDocument.status, "ABSENT" while there is no row
  erpInvoiceId,  \* IngestedDocument.erpInvoiceId
  extraction,    \* the Extraction row of a document
  task,          \* the ApprovalTask row of a document
  faults         \* how many awaited calls have failed so far

workflowVars == <<status, erpInvoiceId, extraction, task>>

\* RECEIVED is never written: a row is created QUEUED.
DocStatus == {"ABSENT", "QUEUED", "EXTRACTING", "NEEDS_REVIEW", "MATCHED",
              "PENDING_APPROVAL", "APPROVED", "REJECTED", "PAID",
              "DUPLICATE", "FAILED"}
ApproverRole == {"FINANCE_HEAD", "CFO"}
ApprovalStatus == {"NONE", "PENDING", "APPROVED", "REJECTED"}

ASSUME ReadingsAssumption ==
  /\ \A x \in Readings : x.amount \in Int /\ x.invoiceNo \in Invoices \cup {None}
  /\ None \notin Readings
  /\ None \notin Invoices
  /\ None \notin Docs
  /\ MaxFaults \in Nat

\* Who decided, and when, is left to Inbox.
Task == [status : ApprovalStatus, requiredRole : ApproverRole \cup {None}]
NoTask == [status |-> "NONE", requiredRole |-> None]

WorkflowTypeOK ==
  /\ status \in [Docs -> DocStatus]
  /\ erpInvoiceId \in [Docs -> Invoices \cup {None}]
  /\ extraction \in [Docs -> Readings \cup {None}]
  /\ task \in [Docs -> Task]
  /\ faults \in 0 .. MaxFaults

WorkflowInit ==
  /\ status = [d \in Docs |-> "ABSENT"]
  /\ erpInvoiceId = [d \in Docs |-> None]
  /\ extraction = [d \in Docs |-> None]
  /\ task = [d \in Docs |-> NoTask]
  /\ faults = 0

\* One awaited call fails: the database, the ERP, the storage, the AI engine
\* or Valkey answers with an error or not at all.
Fault ==
  /\ faults < MaxFaults
  /\ faults' = faults + 1

setStatus(d, s) == status' = [status EXCEPT ![d] = s]
=============================================================================
