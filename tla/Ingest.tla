------------------------------- MODULE Ingest -------------------------------
(***************************************************************************)
(* The front door (server/src/ingest/ingestFile.ts): the document row is   *)
(* written first, then an audit event, then the job.  The calls before the *)
(* row (PDF checks, hash, duplicate lookup, object store) change nothing   *)
(* the rest of the system reads; a file that is ingested again finds its   *)
(* row and changes nothing either.                                         *)
(***************************************************************************)
EXTENDS JobQueue

VARIABLE ingesting  \* documents whose row is written and whose job is not

IngestTypeOK == ingesting \subseteq Docs

IngestInit == ingesting = {}

\* Mutant of IngestCreate: a file whose document has FAILED is taken once more.
IngestCreateAgain(d) ==
  /\ status[d] \in {"ABSENT", "FAILED"}
  /\ setStatus(d, "QUEUED")
  /\ ingesting' = ingesting \cup {d}
  /\ UNCHANGED <<erpInvoiceId, extraction, task, queueVars, faults>>

IngestCreate(d) ==
  /\ status[d] = "ABSENT"
  /\ setStatus(d, "QUEUED")
  /\ ingesting' = ingesting \cup {d}
  /\ UNCHANGED <<erpInvoiceId, extraction, task, queueVars, faults>>

IngestEnqueue(d) ==
  /\ d \in ingesting
  /\ ingesting' = ingesting \ {d}
  /\ enqueueDocument(d)
  /\ UNCHANGED <<workflowVars, faults>>

\* The audit event or queue.add fails: the caller gets a 500, the row stays.
IngestFails(d) ==
  /\ d \in ingesting
  /\ ingesting' = ingesting \ {d}
  /\ Fault
  /\ UNCHANGED <<workflowVars, queueVars>>
=============================================================================
