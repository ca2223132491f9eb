------------------------------- MODULE Claims -------------------------------
(***************************************************************************)
(* What the repository's comments, schema and status help say of the       *)
(* server: claims that the code does not keep, each refuted by a run of    *)
(* its own, claims that it keeps whatever fails, and claims that it keeps  *)
(* as long as no call fails, or but for the document whose call failed.    *)
(* A claim about the state a document is left in is stated for its rest,   *)
(* never for a moment inside a handler.                                    *)
(***************************************************************************)
EXTENDS Verity, FiniteSets

\* Nobody is working on the document.
AtRest(d) ==
  /\ worker.doc # d
  /\ \A u \in Users : req[u].doc # d
  /\ d \notin failedHook \cup ingesting

-----------------------------------------------------------------------------
(* Claims the code does not keep *)

\* schema.prisma:160 "FAILED // unexpected error after retries", queue.ts:10
\* and processDocument.ts:92 "real failure -> let the queue retry": a document
\* is given up only after as many failures as there are attempts.
FailedOnlyAfterRetries == \A d \in Docs :
  AtRest(d) /\ status[d] = "FAILED" => faults >= Attempts

\* queue.ts:8-9 "A queued job survives a server restart": a job that is done
\* has taken its document through the pipeline.
CompletedMeansSettled == \A d \in Docs :
  AtRest(d) /\ job[d].state = "completed" => status[d] \in Settled

\* page.tsx:26 PENDING_APPROVAL is "Waiting for a person to approve it":
\* there is a task a person can still decide.
PendingMeansUndecided == \A d \in Docs :
  AtRest(d) /\ status[d] = "PENDING_APPROVAL" => task[d].status = "PENDING"

-----------------------------------------------------------------------------
(* Claims the code keeps whatever fails *)

\* What is left of page.tsx:26: a document that waits for a person to approve it
\* has a task, which asks for the approver its amount calls for.
PendingMeansTask == \A d \in Docs :
  status[d] = "PENDING_APPROVAL" =>
    task[d].status # "NONE" /\ task[d].requiredRole = Route(d)

\* What is left of queue.ts:57 "this is the final word": once the queue and its
\* handler are done with a document, however they ended, its status changes
\* only to a decision or a payment that the ERP has.
OnlyPeopleAfterwards == [][\A d \in Docs :
  /\ status[d] # "ABSENT"
  /\ job[d].state \in {"none", "completed", "failed"} /\ d \notin failedHook
  => \/ status'[d] = status[d]
     \/ status'[d] \in Decided /\ Backed(status'[d], d)]_vars

-----------------------------------------------------------------------------
(* Claims the code keeps as long as no call fails *)

\* schema.prisma:151 "QUEUED // job placed on the queue".
QueuedMeansJob == \A d \in Docs :
  AtRest(d) /\ status[d] = "QUEUED" => job[d].state \in {"waiting", "active", "delayed"}

\* queue.ts:57-59 "don't leave it looking QUEUED forever ... this is the final
\* word": a job that has failed for good leaves its document FAILED.
FailedIsTheFinalWord == \A d \in Docs :
  AtRest(d) /\ job[d].state = "failed" => status[d] # "QUEUED"

\* What is left of schema.prisma:160 "FAILED // unexpected error after retries":
\* a reading that cannot be stored, or a decision in the ERP's UI, may fail an
\* attempt although no call does; the document is given up after the last one.
FailedMeansNoAttemptLeft == \A d \in Docs :
  AtRest(d) /\ status[d] = "FAILED" => job[d].attemptsMade = Attempts

\* Without a failing call and without a crash no document is stuck or given up
\* early: whatever the AI reads, whoever decides, here or in the ERP, and whenever.
NothingStuckWithoutFailures ==
  faults = 0 /\ crashes = 0 =>
    /\ CompletedMeansSettled /\ QueuedMeansJob
    /\ FailedIsTheFinalWord /\ FailedMeansNoAttemptLeft

\* Nobody will go on with the document, although it is in no state to be left in.
Stuck(d) ==
  /\ AtRest(d)
  /\ \/ job[d].state = "completed" /\ status[d] \notin Settled
     \/ status[d] = "QUEUED" /\ job[d].state \notin {"waiting", "active", "delayed"}
     \/ status[d] = "FAILED" /\ job[d].attemptsMade # Attempts

\* The errors that processDocument.ts:124-134 and queue.ts:60-65 swallow, and a
\* failed upload, cost the document they hit and no other: as many documents get
\* stuck as calls have failed, at most.
FailuresStickToOneDocument ==
  crashes = 0 => Cardinality({d \in Docs : Stuck(d)}) <= faults

\* People have been asked about the document, and its status hides it.
Hidden(d) ==
  /\ task[d].status # "NONE"
  /\ status[d] \notin {"MATCHED", "PENDING_APPROVAL"} \cup Decided

\* The catch block (processDocument.ts:124-134) and the handler of a failed job
\* (queue.ts:60-65) write FAILED and QUEUED without a look at the document, over
\* a task or a decision as well: for as many documents as calls have failed, at
\* most, unless the process dies twice and the queue gives up a stalled job.
FailuresHideOneDecision ==
  crashes <= 1 => Cardinality({d \in Docs : Hidden(d)}) <= faults

\* processDocument.ts:24 "if a retry lands after we already finished, skip":
\* while no call has failed, a document the pipeline has finished is not
\* processed again, also when the process dies before the job is completed.
\* A second death may cost the job, and the handler then writes FAILED.
FinishedStaysFinished == [][faults' = 0 /\ crashes' <= 1 =>
  \A d \in Docs : status[d] \in Settled \ {"FAILED"} =>
                 status'[d] \in Settled \ {"FAILED"}]_vars
=============================================================================
