------------------------------ MODULE JobQueue ------------------------------
(***************************************************************************)
(* The job queue (server/src/pipeline/queue.ts): BullMQ on Valkey.  A job  *)
(* waits, is active in the worker, waits out a backoff (delayed), and ends *)
(* completed or failed.  Jobs live in Valkey and survive a crash of the    *)
(* server; the "failed" event is delivered inside the server process and   *)
(* does not.                                                               *)
(*                                                                         *)
(* BullMQ is a library: of its behaviour the model has what queue.ts sets  *)
(* or counts on.  A job left active by a dead process is "stalled": it is  *)
(* put back once without counting an attempt, and the second time it is    *)
(* failed (the library's maxStalledCount of 1, which queue.ts leaves);     *)
(* whether that counts as an attempt depends on the library's version.     *)
(***************************************************************************)
EXTENDS Workflow

VARIABLES
  job,        \* the one job of each document
  failedHook  \* failed jobs whose "failed" event has yet to be handled

queueVars == <<job, failedHook>>

Attempts == 3

JobState == {"none", "waiting", "active", "delayed", "completed", "failed"}
\* A job that is retried by hand may make more attempts than are counted here.
Job == [state : JobState, attemptsMade : 0 .. Attempts, stalled : BOOLEAN]
NoJob == [state |-> "none", attemptsMade |-> 0, stalled |-> FALSE]

QueueTypeOK ==
  /\ job \in [Docs -> Job]
  /\ failedHook \subseteq Docs

QueueInit ==
  /\ job = [d \in Docs |-> NoJob]
  /\ failedHook = {}

enqueueDocument(d) ==
  /\ job' = [job EXCEPT ![d] = [NoJob EXCEPT !.state = "waiting"]]
  /\ UNCHANGED failedHook

Activate(d) ==
  /\ job[d].state = "waiting"
  /\ job' = [job EXCEPT ![d].state = "active"]
  /\ UNCHANGED failedHook

Complete(d) ==
  /\ job' = [job EXCEPT ![d].state = "completed"]
  /\ UNCHANGED failedHook

\* Mutant of FailAttempt: the "failed" handler compares with > and never acts.
FailAttemptUnheard(d) ==
  LET made == job[d].attemptsMade + 1
      last == made >= Attempts
  IN  /\ job' = [job EXCEPT ![d].attemptsMade = IF last THEN Attempts ELSE made,
                            ![d].state = IF last THEN "failed" ELSE "delayed"]
      /\ UNCHANGED failedHook

\* The processor threw: another attempt after a backoff, or the job fails.
FailAttempt(d) ==
  LET made == job[d].attemptsMade + 1
      last == made >= Attempts
  IN  /\ job' = [job EXCEPT ![d].attemptsMade = IF last THEN Attempts ELSE made,
                            ![d].state = IF last THEN "failed" ELSE "delayed"]
      /\ failedHook' = IF last THEN failedHook \cup {d} ELSE failedHook

BackoffEnds(d) ==
  /\ job[d].state = "delayed"
  /\ job' = [job EXCEPT ![d].state = "waiting"]
  /\ UNCHANGED <<failedHook, workflowVars, faults>>

\* The lock of an active job expired because no process renews it.
JobStalls(d) ==
  /\ job[d].state = "active" /\ ~job[d].stalled
  /\ job' = [job EXCEPT ![d].state = "waiting", ![d].stalled = TRUE]
  /\ UNCHANGED <<failedHook, workflowVars, faults>>

\* The second time the job fails, and its "failed" event is heard as any other.
JobStallsAgain(d) ==
  /\ job[d].state = "active" /\ job[d].stalled
  /\ \E made \in 0 .. Attempts :
       /\ made \in {job[d].attemptsMade, job[d].attemptsMade + 1}
       /\ job' = [job EXCEPT ![d].state = "failed", ![d].attemptsMade = made]
       /\ failedHook' = IF made = Attempts THEN failedHook \cup {d} ELSE failedHook
  /\ UNCHANGED <<workflowVars, faults>>

\* The retry button of the queue dashboard.  The handler of the failure writes
\* its one row at once: nobody sees the failed job and presses the button before.
RetryFailed(d) ==
  /\ job[d].state = "failed" /\ d \notin failedHook
  /\ job' = [job EXCEPT ![d].state = "waiting"]
  /\ UNCHANGED <<failedHook, workflowVars, faults>>

(***************************************************************************)
(* The "failed" handler.  queue.ts acts only when attemptsMade has reached *)
(* the limit, which is when failedHook holds the document; its update may  *)
(* be lost, and the error is swallowed.                                    *)
(***************************************************************************)
FailedHandler(d) ==
  /\ d \in failedHook
  /\ failedHook' = failedHook \ {d}
  /\ setStatus(d, "FAILED")
  /\ UNCHANGED <<job, erpInvoiceId, extraction, task, faults>>

FailedHandlerLost(d) ==
  /\ d \in failedHook
  /\ failedHook' = failedHook \ {d}
  /\ Fault
  /\ UNCHANGED <<job, workflowVars>>
=============================================================================
