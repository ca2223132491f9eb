---------------------------- MODULE ClaimsProofs ----------------------------
(***************************************************************************)
(* Proofs of the claims that the server keeps: no document is stuck unless *)
(* something has failed, a failure costs one document at most, what is     *)
(* finished stays finished, and people have the last word.  For any        *)
(* documents, readings, people and, where the claim allows them, crashes.  *)
(***************************************************************************)
EXTENDS VerityProofs, Claims, FiniteSetTheorems

-----------------------------------------------------------------------------
(* Failures and crashes *)

\* The call that fails was made for the document d: by the worker, by the
\* handler of its failed job, or by its upload.
FailsOn(d) ==
  Throw(d) \/ CatchWriteLost(d) \/ FailedHandlerLost(d) \/ IngestFails(d)

\* A call that fails is counted, and was made for one document at most.
LEMMA OneFailure ==
  ASSUME Inv, [Next]_vars
  PROVE  /\ faults \in Nat
         /\ \/ faults' = faults /\ \A d \in Docs : ~FailsOn(d)
            \/ /\ faults' = faults + 1
               /\ \E e \in Docs : \A d \in Docs \ {e} : ~FailsOn(d)
            \/ faults' = faults + 1 /\ \A d \in Docs : ~FailsOn(d)
<1> USE DEF Inv, TypeOK
<1>1. faults \in Nat
  BY ReadingsAssumption DEF WorkflowTypeOK
<1>2. faults' = faults \/ (Fault /\ (WorkerFails \/ HookFails \/ People \/ FrontDoor))
  BY WorkerFrame, WorkerFaultFrame, QueueFrame, RequestFrame, IngestFrame DEF Next, vars, Worker,
    HookFails, FailedHandlerLost, QueueBoard, RetryFailed, RequestFails, Enqueue, IngestEnqueue,
    ErpUsers, DirectInErp, Crash
<1>3. CASE faults' = faults
  BY <1>1, <1>3 DEF FailsOn, Throw, CatchWriteLost, FailedHandlerLost, IngestFails, Fault
<1>4. ASSUME Fault, WorkerFails
      PROVE  \E e \in Docs : \A d \in Docs \ {e} : ~FailsOn(d)
  <2>1. PICK e \in Docs : Throw(e) \/ CatchWriteLost(e)
    BY <1>4, WorkerFaultFrame
  <2>2. worker.doc = e /\ failedHook' = failedHook /\ ingesting' = ingesting
    BY <1>4, <2>1, WorkerFaultFrame DEF Throw, CatchWriteLost, At, queueVars
  <2> QED
    BY <2>2 DEF FailsOn, Throw, CatchWriteLost, At, FailedHandlerLost, IngestFails
<1>5. ASSUME Fault, HookFails
      PROVE  \E e \in Docs : \A d \in Docs \ {e} : ~FailsOn(d)
  <2>1. PICK e \in Docs : FailedHandlerLost(e)
    BY <1>5 DEF HookFails
  <2>2. worker' = worker /\ failedHook' = failedHook \ {e} /\ ingesting' = ingesting
    BY <1>5, <2>1 DEF HookFails, FailedHandlerLost
  <2> QED
    BY <2>2, ReadingsAssumption DEF FailsOn, Throw, CatchWriteLost, At, Goto, FailedHandlerLost,
      IngestFails, InTry, WorkerTypeOK
<1>6. ASSUME Fault, FrontDoor
      PROVE  \E e \in Docs : \A d \in Docs \ {e} : ~FailsOn(d)
  <2>1. /\ worker' = worker /\ failedHook' = failedHook
        /\ \E e \in Docs : ingesting' \in {ingesting \cup {e}, ingesting \ {e}}
    BY <1>6 DEF FrontDoor, IngestCreate, IngestFails, queueVars
  <2> QED
    BY <2>1, ReadingsAssumption DEF FailsOn, Throw, CatchWriteLost, At, Goto, FailedHandlerLost,
      IngestFails, InTry, WorkerTypeOK
<1>7. ASSUME Fault, People
      PROVE  \A d \in Docs : ~FailsOn(d)
  <2>1. worker' = worker /\ failedHook' = failedHook /\ ingesting' = ingesting
    BY <1>7, RequestFrame DEF queueVars
  <2> QED
    BY <2>1, ReadingsAssumption DEF FailsOn, Throw, CatchWriteLost, At, Goto, FailedHandlerLost,
      IngestFails, InTry, WorkerTypeOK
<1> QED
  BY <1>1, <1>2, <1>3, <1>4, <1>5, <1>6, <1>7 DEF Fault

\* A step after which no call has failed yet comes before any failure.
LEMMA NoFault ==
  ASSUME Inv, [Next]_vars, faults' = 0
  PROVE  faults = 0
BY OneFailure

\* A crash is counted, and nothing else is.
LEMMA CrashCounted ==
  ASSUME Inv, [Next]_vars
  PROVE  /\ crashes \in Nat
         /\ crashes' = crashes \/ (Crash /\ crashes' = crashes + 1)
BY CrashesAssumption DEF Inv, TypeOK, Crash, Next, vars, Worker, WorkerFails, Timers, HookFails,
  QueueBoard, People, FrontDoor, Enqueue, ErpUsers

\* A step after which there has been no crash yet is none.
LEMMA NoCrash ==
  ASSUME Inv, [Next]_vars, crashes' = 0
  PROVE  /\ crashes = 0
         /\ ~Crash
BY CrashCounted, CrashesAssumption DEF Crash

-----------------------------------------------------------------------------
(* Who writes a document's status, its job and the worker *)

\* The steps of the worker that write the status.
WorkerWrites(d) ==
  \/ MarkExtracting(d) \/ FlagForReview(d) \/ CreateConflict(d) \/ MarkMatched(d)
  \/ Settle(d) \/ CatchFailed(d) \/ CatchReset(d)

\* A status is written by the worker that holds the document, the handler of its
\* failed job, its upload, or a request about it.
LEMMA StatusWriters ==
  ASSUME Inv, [Next]_vars, NEW d \in Docs
  PROVE  \/ status'[d] = status[d]
         \/ WorkerWrites(d) /\ Worker
         \/ FailedHandler(d) \/ IngestCreate(d)
         \/ \E u \in Users : req[u].doc = d /\ (RecordDecision(u) \/ RecordPayment(u))
<1> USE DEF Inv, TypeOK, WorkflowTypeOK, setStatus
<1>1. CASE Worker
  <2>. PICK e \in Docs : WorkerStep(e)
    BY <1>1 DEF Worker
  <2>1. status' = status \/ WorkerWrites(e)
    BY WorkerFrame DEF WorkerWrites
  <2>2. CASE WorkerWrites(e) /\ e # d
    BY <2>2 DEF WorkerWrites, MarkExtracting, FlagForReview, CreateConflict, MarkMatched,
      Settle, CatchFailed, CatchReset
  <2> QED
    BY <1>1, <2>1, <2>2
<1>2. CASE \E e \in Docs : FailedHandler(e) \/ IngestCreate(e)
  BY <1>2 DEF FailedHandler, IngestCreate
<1>3. CASE \E u \in Users : RecordDecision(u) \/ RecordPayment(u)
  BY <1>3 DEF RecordDecision, RecordPayment
<1>4. \/ status' = status \/ Worker
      \/ \E e \in Docs : FailedHandler(e) \/ IngestCreate(e)
      \/ \E u \in Users : RecordDecision(u) \/ RecordPayment(u)
  BY WorkerFaultFrame, QueueFrame, RequestFrame, IngestFrame DEF Next, vars, workflowVars,
    HookFails, FailedHandlerLost, QueueBoard, RetryFailed, Enqueue, IngestEnqueue, ErpUsers,
    DirectInErp, Crash
<1> QED
  BY <1>1, <1>2, <1>3, <1>4

\* Hence, while a document has a row, its status changes by a step of the worker
\* that holds it, to FAILED when its job has failed, or by a person's act.
LEMMA StatusMoves ==
  ASSUME Inv, [Next]_vars, NEW d \in Docs
  PROVE  \/ status'[d] = status[d]
         \/ WorkerWrites(d) /\ Worker
         \/ d \in failedHook /\ status'[d] = "FAILED" /\ FailedHandler(d)
         \/ status[d] = "ABSENT" /\ status'[d] = "QUEUED" /\ IngestCreate(d)
         \/ status'[d] \in Decided /\ WithPeople(d)
<1> USE DEF Inv, TypeOK, WorkflowTypeOK, setStatus
<1>1. ASSUME NEW u \in Users, req[u].doc = d, RecordDecision(u)
      PROVE  status'[d] \in Decided /\ WithPeople(d)
  BY <1>1 DEF RecordDecision, IInv, RequestKnows, Carried, WithPeople
<1>2. ASSUME NEW u \in Users, req[u].doc = d, RecordPayment(u)
      PROVE  status'[d] \in Decided /\ WithPeople(d)
  BY <1>2 DEF RecordPayment, WithPeople, Decided
<1>3. FailedHandler(d) => d \in failedHook /\ status'[d] = "FAILED"
  BY DEF FailedHandler
<1>4. IngestCreate(d) => status[d] = "ABSENT" /\ status'[d] = "QUEUED"
  BY DEF IngestCreate
<1> QED
  BY <1>1, <1>2, <1>3, <1>4, StatusWriters

\* A job is written by the worker that takes it or lets go of it, by the queue's
\* timers, by the queue dashboard and by the upload.
LEMMA JobWriters ==
  ASSUME Inv, [Next]_vars, NEW d \in Docs
  PROVE  \/ job'[d] = job[d]
         \/ TakeJob(d) \/ SkipAttempt(d) \/ FinishAttempt(d) \/ RejectAttempt(d)
         \/ /\ UNCHANGED worker
            /\ \/ BackoffEnds(d) \/ RetryFailed(d) \/ IngestEnqueue(d)
               \/ (JobStalls(d) \/ JobStallsAgain(d)) /\ worker.doc # d
<1> USE DEF Inv, TypeOK, QueueTypeOK
<1>1. CASE Worker
  <2>. PICK e \in Docs : WorkerStep(e)
    BY <1>1 DEF Worker
  <2>1. \/ job' = job
        \/ TakeJob(e) \/ SkipAttempt(e) \/ FinishAttempt(e) \/ RejectAttempt(e)
    BY WorkerFrame DEF queueVars
  <2>2. job'[d] = job[d] \/ e = d
    BY <2>1 DEF TakeJob, SkipAttempt, FinishAttempt, RejectAttempt, Activate, Complete,
      FailAttempt
  <2> QED
    BY <2>1, <2>2
<1>2. CASE \E e \in Docs : Timers(e)
  <2>. PICK e \in Docs : Timers(e)
    BY <1>2
  <2>1. CASE BackoffEnds(e)
    BY <2>1 DEF Timers, BackoffEnds
  <2>2. CASE (JobStalls(e) \/ JobStallsAgain(e)) /\ worker.doc # e
    BY <2>2 DEF Timers, JobStalls, JobStallsAgain
  <2>3. CASE FailedHandler(e)
    BY <2>3 DEF FailedHandler
  <2> QED
    BY <2>1, <2>2, <2>3 DEF Timers
<1>3. CASE QueueBoard
  BY <1>3 DEF QueueBoard, RetryFailed
<1>4. CASE \E e \in Docs : Enqueue(e)
  BY <1>4 DEF Enqueue, IngestEnqueue, enqueueDocument
<1>5. CASE WorkerFails \/ HookFails \/ People \/ FrontDoor \/ ErpUsers \/ Crash \/ UNCHANGED vars
  BY <1>5, WorkerFaultFrame, RequestFrame, IngestFrame DEF HookFails, FailedHandlerLost,
    ErpUsers, Crash, vars, queueVars
<1> QED
  BY <1>1, <1>2, <1>3, <1>4, <1>5 DEF Next

\* A job that has failed, in the worker or because it stalled again, waits for its
\* handler; the handler, a failure of it and a crash are the ways out.
LEMMA HookWriters ==
  ASSUME Inv, [Next]_vars, NEW d \in Docs
  PROVE  /\ d \in failedHook' =>
              \/ d \in failedHook
              \/ /\ RejectAttempt(d) \/ (JobStallsAgain(d) /\ worker.doc # d)
                 /\ job'[d].state = "failed" /\ job'[d].attemptsMade = Attempts
         /\ d \in failedHook =>
              d \in failedHook' \/ FailedHandler(d) \/ FailsOn(d) \/ Crash
<1> USE DEF Inv, TypeOK, QueueTypeOK
<1>1. CASE Worker
  <2>. PICK e \in Docs : WorkerStep(e)
    BY <1>1 DEF Worker
  <2>1. \/ failedHook' = failedHook
        \/ RejectAttempt(e)
    BY WorkerFrame DEF queueVars, TakeJob, SkipAttempt, FinishAttempt, Activate, Complete
  <2>2. CASE RejectAttempt(e)
    <3> DEFINE last == job[e].attemptsMade + 1 >= Attempts
    <3>1. /\ failedHook' = IF last THEN failedHook \cup {e} ELSE failedHook
          /\ last => job'[e].state = "failed" /\ job'[e].attemptsMade = Attempts
      BY <2>2 DEF RejectAttempt, FailAttempt, Job
    <3> QED
      BY <2>2, <3>1
  <2> QED
    BY <2>1, <2>2
<1>2. CASE \E e \in Docs : Timers(e)
  <2>. PICK e \in Docs : Timers(e)
    BY <1>2
  <2>1. CASE JobStallsAgain(e) /\ worker.doc # e
    <3>1. PICK made \in 0 .. Attempts :
            /\ job' = [job EXCEPT ![e].state = "failed", ![e].attemptsMade = made]
            /\ failedHook' = IF made = Attempts THEN failedHook \cup {e} ELSE failedHook
      BY <2>1 DEF JobStallsAgain
    <3>2. job'[e].state = "failed" /\ job'[e].attemptsMade = made
      BY <3>1 DEF Job
    <3> QED
      BY <2>1, <3>1, <3>2
  <2> QED
    BY <2>1 DEF Timers, BackoffEnds, JobStalls, FailedHandler
<1>3. CASE HookFails \/ Crash
  BY <1>3 DEF HookFails, FailedHandlerLost, FailsOn, Crash
<1>4. CASE WorkerFails \/ QueueBoard \/ People \/ FrontDoor \/ (\E e \in Docs : Enqueue(e))
           \/ ErpUsers \/ UNCHANGED vars
  BY <1>4, WorkerFaultFrame, RequestFrame, IngestFrame DEF QueueBoard, RetryFailed, Enqueue,
    IngestEnqueue, enqueueDocument, ErpUsers, vars, queueVars
<1> QED
  BY <1>1, <1>2, <1>3, <1>4 DEF Next

\* A document is being uploaded from the moment it gets a row until it gets a
\* job, unless a call fails or the process dies.
LEMMA UploadWriters ==
  ASSUME Inv, [Next]_vars, NEW d \in Docs
  PROVE  /\ d \in ingesting' => d \in ingesting \/ (IngestCreate(d) /\ UNCHANGED queueVars)
         /\ d \in ingesting =>
              d \in ingesting' \/ IngestEnqueue(d) \/ FailsOn(d) \/ Crash
<1>1. CASE FrontDoor
  BY <1>1 DEF FrontDoor, IngestCreate, IngestFails, FailsOn
<1>2. CASE \E e \in Docs : Enqueue(e)
  BY <1>2 DEF Enqueue, IngestEnqueue
<1>3. CASE ~FrontDoor /\ ~\E e \in Docs : Enqueue(e)
  BY <1>3 DEF Next, vars, Worker, WorkerFails, Timers, HookFails, QueueBoard, People, ErpUsers,
    Crash
<1> QED
  BY <1>1, <1>2, <1>3

\* The worker moves by its own steps: it takes a document, goes on with the one
\* it holds, or lets go of it; but for failing calls and crashes.
LEMMA WorkerMoves ==
  ASSUME Inv, [Next]_vars, NEW d \in Docs
  PROVE  /\ worker.doc = d => \/ worker' = worker
                              \/ WorkerStep(d) /\ Worker
                              \/ (Throw(d) \/ CatchWriteLost(d)) /\ worker'.doc = d
                              \/ Crash
         /\ worker.doc # d /\ worker'.doc = d => TakeJob(d)
<1> USE DEF Inv, TypeOK, WorkerTypeOK, At, Goto
<1>1. CASE Worker
  <2>. PICK e \in Docs : WorkerStep(e)
    BY <1>1 DEF Worker
  <2>1. worker.doc = d => e = d
    BY ReadingsAssumption DEF WorkerStep, TakeJob, StartAttempt, SkipAttempt, MarkExtracting, ReadInvoice,
      ReadInvoiceThrows, FlagForReview, VerifyClean, CreateInvoice, CreateConflict,
      MarkMatched, RouteToErp, RouteRefused, CreateTask, Settle, FinishAttempt,
      CatchFailed, CatchReset, RejectAttempt, IInv, WorkerHolds
  <2>2. \/ TakeJob(e) /\ worker'.doc = e
        \/ worker'.doc \in {worker.doc, None}
    BY DEF WorkerStep, TakeJob, StartAttempt, SkipAttempt, MarkExtracting, ReadInvoice,
      ReadInvoiceThrows, FlagForReview, VerifyClean, CreateInvoice, CreateConflict,
      MarkMatched, RouteToErp, RouteRefused, CreateTask, Settle, FinishAttempt,
      CatchFailed, CatchReset, RejectAttempt, Idle
  <2> QED
    BY <1>1, <2>1, <2>2, ReadingsAssumption
<1>2. CASE WorkerFails
  BY <1>2, WorkerFaultFrame DEF Throw, CatchWriteLost, At
<1>3. CASE Crash
  BY <1>3, ReadingsAssumption DEF Crash, Idle
<1>4. CASE ~Worker /\ ~WorkerFails /\ ~Crash
  BY <1>4 DEF Next, vars, Timers, HookFails, QueueBoard, People, FrontDoor, Enqueue,
    ErpUsers
<1> QED
  BY <1>1, <1>2, <1>3, <1>4

-----------------------------------------------------------------------------
(* The invariant of the jobs, one conjunct at a time *)

\* A worker that takes a job makes it active, one that lets go of it does not
\* leave it active.
LEMMA JobStates ==
  ASSUME Inv, [Next]_vars, NEW d \in Docs
  PROVE  /\ TakeJob(d) => /\ job[d].state = "waiting" /\ job'[d].state = "active"
                          /\ worker'.doc = d /\ worker'.pc = "start"
         /\ SkipAttempt(d) \/ FinishAttempt(d) => job'[d].state = "completed"
         /\ RejectAttempt(d) => job'[d].state \in {"failed", "delayed"}
         /\ SkipAttempt(d) \/ FinishAttempt(d) \/ RejectAttempt(d) =>
              worker.doc = d /\ worker' = Idle
         /\ BackoffEnds(d) => job[d].state = "delayed" /\ job'[d].state = "waiting"
         /\ RetryFailed(d) => /\ job[d].state = "failed" /\ d \notin failedHook
                              /\ job'[d].state = "waiting"
         /\ JobStalls(d) => /\ job[d].state = "active" /\ ~job[d].stalled
                            /\ job'[d].state = "waiting"
         /\ JobStallsAgain(d) => /\ job[d].state = "active" /\ job[d].stalled
                                 /\ job'[d].state = "failed"
         /\ IngestEnqueue(d) => d \in ingesting /\ d \notin ingesting' /\ job'[d].state = "waiting"
<1> USE DEF Inv, TypeOK, QueueTypeOK, Job
<1>1. RejectAttempt(d) => job'[d].state \in {"failed", "delayed"}
  <2> DEFINE last == job[d].attemptsMade + 1 >= Attempts
  <2>1. RejectAttempt(d) => job'[d].state = IF last THEN "failed" ELSE "delayed"
    BY DEF RejectAttempt, FailAttempt
  <2> QED
    BY <2>1
<1> QED
  BY <1>1 DEF TakeJob, Activate, SkipAttempt, FinishAttempt, Complete, RejectAttempt, At,
    BackoffEnds, RetryFailed, JobStalls, JobStallsAgain, IngestEnqueue, enqueueDocument, NoJob

\* Attempts that are used up stay so, also when a job is retried by hand.
LEMMA AttemptsStayUsedUp ==
  ASSUME Inv, [Next]_vars, NEW d \in Docs, job[d].attemptsMade = Attempts
  PROVE  job'[d].attemptsMade = Attempts \/ IngestEnqueue(d)
<1> USE DEF Inv, TypeOK, QueueTypeOK, Job
<1>1. CASE RejectAttempt(d)
  <2>1. job[d].attemptsMade + 1 >= Attempts
    BY DEF Attempts
  <2> QED
    BY <1>1, <2>1 DEF RejectAttempt, FailAttempt
<1>2. CASE TakeJob(d) \/ SkipAttempt(d) \/ FinishAttempt(d)
  BY <1>2 DEF TakeJob, Activate, SkipAttempt, FinishAttempt, Complete
<1>3. CASE BackoffEnds(d) \/ RetryFailed(d) \/ JobStalls(d)
  BY <1>3 DEF BackoffEnds, RetryFailed, JobStalls
<1>4. CASE JobStallsAgain(d)
  <2>1. PICK made \in 0 .. Attempts :
          /\ made \in {job[d].attemptsMade, job[d].attemptsMade + 1}
          /\ job' = [job EXCEPT ![d].state = "failed", ![d].attemptsMade = made]
    BY <1>4 DEF JobStallsAgain
  <2>2. made = Attempts
    BY <2>1 DEF Attempts
  <2> QED
    BY <2>1, <2>2
<1> QED
  BY <1>1, <1>2, <1>3, <1>4, JobWriters

\* A step leaves a document either its worker, or nobody, or takes it.
LEMMA JobsFitStep ==
  ASSUME Inv, JobsInv, [Next]_vars
  PROVE  JobsFit'
<1> USE DEF Inv, TypeOK, JobsInv
<1> SUFFICES ASSUME NEW d \in Docs
             PROVE  /\ worker'.doc = d => job'[d].state = "active"
                    /\ d \in failedHook' =>
                         job'[d].state = "failed" /\ job'[d].attemptsMade = Attempts
                    /\ d \in ingesting' => job'[d].state = "none"
                    /\ status'[d] = "ABSENT" => job'[d].state = "none" /\ d \notin ingesting'
                    /\ job'[d].state = "none" =>
                         status'[d] \in {"ABSENT", "QUEUED"} /\ erpInvoiceId'[d] = None
  BY DEF JobsFit
<1>f. /\ worker.doc = d => job[d].state = "active"
      /\ d \in failedHook => job[d].state = "failed" /\ job[d].attemptsMade = Attempts
      /\ d \in ingesting => job[d].state = "none"
      /\ status[d] = "ABSENT" => job[d].state = "none" /\ d \notin ingesting
      /\ job[d].state = "none" => status[d] \in {"ABSENT", "QUEUED"} /\ erpInvoiceId[d] = None
  BY DEF JobsFit
<1>1. worker'.doc = d => job'[d].state = "active"
  BY <1>f, JobWriters, JobStates, WorkerMoves, ReadingsAssumption DEF Idle
<1>2. ASSUME d \in failedHook'
      PROVE  job'[d].state = "failed" /\ job'[d].attemptsMade = Attempts
  <2>1. CASE d \in failedHook
    <3>1. job'[d].state = "failed"
      BY <1>f, <1>2, <2>1, JobWriters, JobStates
    <3>2. ~IngestEnqueue(d)
      BY <1>f, <2>1, JobStates
    <3> QED
      BY <1>f, <2>1, <3>1, <3>2, AttemptsStayUsedUp
  <2> QED
    BY <1>2, <2>1, HookWriters
<1>3. d \in ingesting' => job'[d].state = "none"
  <2>1. CASE IngestCreate(d) /\ UNCHANGED queueVars
    BY <1>f, <2>1 DEF IngestCreate, queueVars
  <2>2. CASE d \in ingesting
    BY <1>f, <2>2, JobWriters, JobStates
  <2> QED
    BY <2>1, <2>2, UploadWriters
<1>4. ASSUME status'[d] = "ABSENT"
      PROVE  job'[d].state = "none" /\ d \notin ingesting'
  <2>1. status[d] = "ABSENT"
    BY <1>4, StatusMoves DEF Decided, WorkerWrites, MarkExtracting, FlagForReview,
      CreateConflict, MarkMatched, Settle, CatchFailed, CatchReset, setStatus, WorkflowTypeOK
  <2>2. ~IngestCreate(d)
    BY <1>4, <2>1 DEF IngestCreate, setStatus, WorkflowTypeOK
  <2> QED
    BY <1>f, <2>1, <2>2, JobWriters, JobStates, UploadWriters
<1>5. ASSUME job'[d].state = "none"
      PROVE  status'[d] \in {"ABSENT", "QUEUED"} /\ erpInvoiceId'[d] = None
  <2>1. job[d].state = "none"
    BY <1>5, JobWriters, JobStates
  <2>2. /\ status[d] \in {"ABSENT", "QUEUED"} /\ erpInvoiceId[d] = None
        /\ worker.doc # d /\ d \notin failedHook
    BY <1>f, <2>1
  <2>3. ~WithPeople(d)
    BY <2>2, ReadingsAssumption DEF WithPeople, Finished, Settled, IInv, LinkedToOwn,
      RequestKnows, Carried
  <2>4. ~WorkerWrites(d)
    BY <2>2 DEF WorkerWrites, MarkExtracting, FlagForReview, CreateConflict, MarkMatched, Settle,
      CatchFailed, CatchReset, At
  <2>5. erpInvoiceId'[d] = None
    BY <2>2, RowsStep DEF MarkMatched, At, WorkflowTypeOK
  <2> QED
    BY <2>2, <2>3, <2>4, <2>5, StatusMoves
<1> QED
  BY <1>1, <1>2, <1>3, <1>4, <1>5

\* The task is made before the status says that people are to decide, and
\* neither is taken back.
LEMMA TaskComesFirstStep ==
  ASSUME Inv, JobsInv, [Next]_vars
  PROVE  TaskComesFirst'
<1> USE DEF Inv, TypeOK, WorkflowTypeOK, JobsInv
<1> SUFFICES ASSUME NEW d \in Docs,
                    \/ status'[d] = "PENDING_APPROVAL"
                    \/ At("settle", d)' /\ Route(d)' # "AUTO_APPROVE"
             PROVE  task'[d].status # "NONE"
  BY DEF TaskComesFirst
<1>1. \/ status[d] = "PENDING_APPROVAL"
      \/ At("settle", d) /\ Route(d) # "AUTO_APPROVE"
      => task'[d].status # "NONE"
  BY FinalStep DEF TaskComesFirst
<1>2. CreateTask(d) => task'[d].status # "NONE"
  BY DEF CreateTask, Task
<1>3. CASE status'[d] = "PENDING_APPROVAL"
  <2>1. status[d] = "PENDING_APPROVAL" \/ Settle(d)
    BY <1>3, StatusMoves DEF WorkerWrites, MarkExtracting, FlagForReview, CreateConflict,
      MarkMatched, CatchFailed, CatchReset, setStatus, Decided
  <2>2. Settle(d) => Route(d) # "AUTO_APPROVE"
    BY <1>3 DEF Settle, setStatus
  <2> QED
    BY <1>1, <2>1, <2>2 DEF Settle
<1>4. CASE At("settle", d)' /\ Route(d)' # "AUTO_APPROVE"
  <2>1. worker.doc = d
    BY <1>4, WorkerMoves, JobStates DEF At
  <2>2. CASE worker' = worker
    <3>1. At("settle", d)
      BY <1>4, <2>2 DEF At
    <3>2. extraction[d] # None
      BY <3>1 DEF At, IInv, WorkerKnows, Established
    <3>3. Route(d)' = Route(d)
      BY <3>2, FinalStep DEF Route, Read
    <3> QED
      BY <1>1, <1>4, <3>1, <3>3
  <2>3. CASE WorkerStep(d)
    <3>1. (RouteToErp(d) /\ Route(d) = "AUTO_APPROVE") \/ CreateTask(d)
      BY <1>4, <2>1, <2>3, ReadingsAssumption DEF WorkerStep, TakeJob, StartAttempt, SkipAttempt,
        MarkExtracting, ReadInvoice, ReadInvoiceThrows, FlagForReview, VerifyClean, CreateInvoice,
        CreateConflict, MarkMatched, RouteToErp, RouteRefused, Settle, FinishAttempt, CatchFailed,
        CatchReset, RejectAttempt, At, Goto, Idle, WorkerTypeOK
    <3>2. RouteToErp(d) => Route(d)' = Route(d)
      BY DEF RouteToErp, workflowVars, Route, Read
    <3> QED
      BY <1>2, <1>4, <3>1, <3>2
  <2>4. CASE Throw(d) \/ CatchWriteLost(d)
    <3>1. worker'.pc # "settle"
      BY <2>1, <2>4 DEF Throw, CatchWriteLost, At, Goto, WorkerTypeOK
    <3> QED
      BY <1>4, <3>1 DEF At
  <2> QED
    BY <1>4, <2>1, <2>2, <2>3, <2>4, WorkerMoves, ReadingsAssumption DEF Crash, Idle, At
<1> QED
  BY <1>3, <1>4

\* An active job keeps its worker until it is active no more, but for crashes.
LEMMA NoJobAbandonedStep ==
  ASSUME Inv, JobsInv, [Next]_vars
  PROVE  NoJobAbandoned'
<1> USE DEF Inv, TypeOK
<1> DEFINE Least(d) == IF job[d].stalled THEN 2 ELSE 1
<1> SUFFICES ASSUME NEW d \in Docs
             PROVE  /\ job'[d].stalled => crashes' >= 1
                    /\ job'[d].state = "active" /\ worker'.doc # d => crashes' >= Least(d)'
  BY DEF NoJobAbandoned
<1>f. /\ job[d].stalled => crashes >= 1
      /\ job[d].state = "active" /\ worker.doc # d => crashes >= Least(d)
  BY DEF JobsInv, NoJobAbandoned
<1>c. crashes \in Nat /\ crashes' \in Nat /\ crashes' >= crashes
  BY CrashCounted
<1>1. ASSUME job'[d].stalled PROVE crashes' >= 1
  <2>1. job[d].stalled \/ (JobStalls(d) /\ worker.doc # d)
    <3> USE DEF QueueTypeOK, Job
    <3>1. ASSUME TakeJob(d) \/ SkipAttempt(d) \/ FinishAttempt(d) PROVE job[d].stalled
      BY <1>1, <3>1 DEF TakeJob, Activate, SkipAttempt, FinishAttempt, Complete
    <3>2. ASSUME RejectAttempt(d) PROVE job[d].stalled
      BY <1>1, <3>2 DEF RejectAttempt, FailAttempt
    <3>3. ASSUME BackoffEnds(d) \/ RetryFailed(d) \/ JobStallsAgain(d) PROVE job[d].stalled
      BY <1>1, <3>3 DEF BackoffEnds, RetryFailed, JobStallsAgain
    <3>4. ~IngestEnqueue(d)
      BY <1>1 DEF IngestEnqueue, enqueueDocument, NoJob
    <3> QED
      BY <1>1, <3>1, <3>2, <3>3, <3>4, JobWriters
  <2> QED
    BY <1>f, <1>c, <2>1, JobStates
<1>2. ASSUME job'[d].state = "active", worker'.doc # d PROVE crashes' >= Least(d)'
  <2>1. job'[d] = job[d] /\ job[d].state = "active"
    BY <1>2, JobWriters, JobStates
  <2>2. CASE worker.doc # d
    BY <1>f, <1>c, <2>1, <2>2
  <2>3. CASE worker.doc = d
    <3>1. WorkerStep(d) =>
            worker'.doc = d \/ SkipAttempt(d) \/ FinishAttempt(d) \/ RejectAttempt(d)
      BY <2>3 DEF WorkerTypeOK, WorkerStep, TakeJob, StartAttempt, MarkExtracting,
        ReadInvoice, ReadInvoiceThrows, FlagForReview, VerifyClean, CreateInvoice, CreateConflict,
        MarkMatched, RouteToErp, RouteRefused, CreateTask, Settle, CatchFailed, CatchReset, At,
        Goto
    <3>2. ~(SkipAttempt(d) \/ FinishAttempt(d) \/ RejectAttempt(d))
      BY <1>2, JobStates
    <3>3. crashes' = crashes + 1
      BY <1>2, <2>3, <3>1, <3>2, WorkerMoves, CrashCounted DEF Crash
    <3> QED
      BY <1>f, <1>c, <2>1, <3>3
  <2> QED
    BY <2>2, <2>3
<1> QED
  BY <1>1, <1>2

\* A job stalls only after a crash, and again only after another.
LEMMA StallsNeedCrashes ==
  ASSUME Inv, JobsInv, NEW d \in Docs, worker.doc # d
  PROVE  /\ JobStalls(d) => crashes >= 1
         /\ JobStallsAgain(d) => crashes >= 2
BY DEF JobsInv, NoJobAbandoned, JobStalls, JobStallsAgain

\* Once a document is past failing it stays so, unless a call for it fails or the
\* process has died twice: the guard
\* at the start of an attempt turns a repeated job away, and everybody else
\* who writes its status writes a decision or a payment.
LEMMA PastFailingStep ==
  ASSUME Inv, JobsInv, [Next]_vars, crashes' <= 1,
         NEW d \in Docs, ~FailsOn(d), PastFailing(d)
  PROVE  PastFailing(d)'
<1> USE DEF Inv, TypeOK, WorkflowTypeOK, WorkerTypeOK
<1>f. /\ status[d] \in Finished \cup {"MATCHED"}
      /\ d \notin failedHook
      /\ worker.doc = d => worker.pc \in {"start", "settle", "audit"}
  BY DEF PastFailing
<1>1. ASSUME WorkerStep(d), worker.doc = d
      PROVE  /\ worker'.doc = d => worker'.pc \in {"start", "settle", "audit"}
             /\ status'[d] = status[d] \/ Settle(d)
             /\ ~RejectAttempt(d)
  BY <1>1, <1>f, ReadingsAssumption DEF WorkerStep, TakeJob, StartAttempt, SkipAttempt,
    MarkExtracting, ReadInvoice, ReadInvoiceThrows, FlagForReview, VerifyClean, CreateInvoice,
    CreateConflict, MarkMatched, RouteToErp, RouteRefused, CreateTask, Settle, FinishAttempt,
    CatchFailed, CatchReset, RejectAttempt, At, Goto, Idle, workflowVars, Finished, Settled, IInv,
    WorkerHolds
<1>2. status'[d] \in Finished \cup {"MATCHED"}
  <2>1. ASSUME WorkerWrites(d) PROVE Settle(d)
    BY <2>1, <1>f DEF WorkerWrites, MarkExtracting, FlagForReview, CreateConflict, MarkMatched,
      CatchFailed, CatchReset, At
  <2>2. Settle(d) => status'[d] \in Finished
    BY DEF Settle, setStatus, Finished, Settled
  <2>3. Decided \subseteq Finished
    BY DEF Decided, Finished, Settled
  <2> QED
    BY <1>f, <2>1, <2>2, <2>3, StatusMoves DEF Finished, Settled
<1>3. d \notin failedHook'
  <2>1. ~(JobStallsAgain(d) /\ worker.doc # d)
    BY StallsNeedCrashes, CrashCounted
  <2> QED
    BY <1>f, <2>1, HookWriters DEF RejectAttempt, At
<1>4. worker'.doc = d => worker'.pc \in {"start", "settle", "audit"}
  <2>1. CASE worker.doc = d
    BY <1>1, <1>f, <2>1, WorkerMoves, ReadingsAssumption DEF Crash, Idle, FailsOn
  <2>2. CASE worker.doc # d
    BY <2>2, WorkerMoves, JobStates
  <2> QED
    BY <2>1, <2>2
<1> QED
  BY <1>2, <1>3, <1>4 DEF PastFailing

\* People get at a document only through a request of their own on one they had
\* before, or through the worker when it can no longer fail.
LEMMA WithPeopleStep ==
  ASSUME Inv, JobsInv, [Next]_vars, NEW d \in Docs, PeopleUndisturbed(d), WithPeople(d)'
  PROVE  WithPeople(d) \/ PastFailing(d)'
<1> USE DEF Inv, TypeOK, WorkflowTypeOK
\* The worker's three ways of handing a document over to people.
<1>w. ASSUME FlagForReview(d) \/ CreateConflict(d) \/ Settle(d) \/ CreateTask(d)
      PROVE  PastFailing(d)'
  <2>1. worker.doc = d /\ job[d].state = "active"
    BY <1>w DEF FlagForReview, CreateConflict, Settle, CreateTask, At, JobsInv, JobsFit
  <2>2. d \notin failedHook'
    BY <1>w, <2>1, HookWriters DEF FlagForReview, CreateConflict, Settle, CreateTask, At,
      RejectAttempt, JobsInv, JobsFit
  <2>3. worker'.doc = d => worker'.pc \in {"start", "settle", "audit"}
    BY <1>w DEF FlagForReview, CreateConflict, Settle, CreateTask, Goto, WorkerTypeOK
  <2>4. CASE CreateTask(d)
    <3>1. status[d] \in Finished \cup {"MATCHED"}
      BY <2>4 DEF CreateTask, At, PeopleUndisturbed
    <3> QED
      BY <2>2, <2>3, <2>4, <3>1 DEF CreateTask, PastFailing
  <2>5. CASE ~CreateTask(d)
    BY <1>w, <2>2, <2>3, <2>5 DEF FlagForReview, CreateConflict, Settle, setStatus, PastFailing,
      Finished, Settled
  <2> QED
    BY <2>4, <2>5
<1>1. CASE status'[d] \in Finished
  <2>1. ASSUME WorkerWrites(d)
        PROVE  FlagForReview(d) \/ CreateConflict(d) \/ Settle(d)
    BY <1>1, <2>1 DEF WorkerWrites, MarkExtracting, MarkMatched, CatchFailed, CatchReset,
      setStatus, Finished, Settled
  <2> QED
    BY <1>1, <1>w, <2>1, StatusMoves DEF WithPeople, Finished, Settled
<1>2. CASE task'[d].status # "NONE"
  <2>1. CASE task' = task
    BY <1>2, <2>1 DEF WithPeople
  <2>2. CASE \E e \in Docs : CreateTask(e)
    <3>1. PICK e \in Docs : CreateTask(e)
      BY <2>2
    <3>2. e # d => task'[d] = task[d]
      BY <3>1 DEF CreateTask
    <3> QED
      BY <1>2, <1>w, <3>1, <3>2 DEF WithPeople
  <2>3. CASE \E u \in Users : RecordTask(u)
    <3>1. PICK u \in Users : RecordTask(u)
      BY <2>3
    <3>2. req[u].doc \in Docs /\ task[req[u].doc].status # "NONE"
      BY <3>1 DEF RecordTask, IInv, RequestKnows, Carried
    <3>3. req[u].doc # d => task'[d] = task[d]
      BY <3>1, <3>2 DEF RecordTask
    <3> QED
      BY <1>2, <3>2, <3>3 DEF WithPeople
  <2> QED
    BY <2>1, <2>2, <2>3, RowsStep
<1>3. ASSUME NEW u \in Users, req'[u].doc = d, req'[u].pc \in {"pay", "paid"}
      PROVE  WithPeople(d)
  <2>1. CASE req'[u] = req[u]
    BY <1>3, <2>1 DEF WithPeople
  <2>2. CASE People
    <3>1. PICK v \in Users : RequestArrives(v) \/ RequestStep(v) \/ RequestFails(v)
      BY <2>2 DEF People
    <3> USE DEF ApprovalsTypeOK, Request, Stay, Respond, NoRequest
    <3>2. CASE v # u
      BY <2>1, <3>1, <3>2 DEF RequestArrives, ReadTask, ReadForPayment, RequestStep, DecideInErp,
        DecisionRefused, ReadActual, RecordTask, RecordDecision, PayInErp, PaymentRefused,
        RecordPayment, RequestFails
    <3>3. CASE v = u /\ RequestArrives(u)
      BY <1>3, <3>3 DEF RequestArrives, ReadTask, ReadForPayment, WithPeople, Finished, Settled
    <3>4. CASE v = u /\ RequestStep(u)
      BY <1>3, <3>4 DEF RequestStep, DecideInErp, DecisionRefused, ReadActual, RecordTask,
        RecordDecision, PayInErp, PaymentRefused, RecordPayment, WithPeople
    <3>5. CASE v = u /\ RequestFails(u)
      BY <1>3, <3>5 DEF RequestFails
    <3> QED
      BY <3>1, <3>2, <3>3, <3>4, <3>5
  <2>3. CASE Crash
    BY <1>3, <2>3 DEF Crash, NoRequest
  <2> QED
    BY <2>1, <2>2, <2>3, WorkerFaultFrame, QueueFrame, IngestFrame DEF Next, vars, Worker,
      HookFails, QueueBoard, Enqueue, ErpUsers
<1> QED
  BY <1>1, <1>2, <1>3 DEF WithPeople

\* Unless a call for it fails, the worker routes a document only when it has
\* marked it MATCHED, or people have decided meanwhile, and takes nothing back.
LEMMA PeopleUndisturbedStep ==
  ASSUME Inv, JobsInv, [Next]_vars, crashes' <= 1,
         NEW d \in Docs, ~FailsOn(d), PeopleUndisturbed(d)
  PROVE  PeopleUndisturbed(d)'
<1> USE DEF Inv, TypeOK, WorkflowTypeOK, WorkerTypeOK
<1> DEFINE Routing == {"route", "task", "settle"}
<1> SUFFICES /\ WithPeople(d)' => PastFailing(d)'
             /\ worker'.doc = d /\ worker'.pc \in Routing =>
                  status'[d] \in Finished \cup {"MATCHED"}
  BY DEF PeopleUndisturbed
<1>1. WithPeople(d)' => PastFailing(d)'
  BY WithPeopleStep, PastFailingStep DEF PeopleUndisturbed
<1>2. ASSUME worker'.doc = d, worker'.pc \in Routing
      PROVE  status'[d] \in Finished \cup {"MATCHED"}
  <2>1. worker.doc = d
    BY <1>2, WorkerMoves, JobStates
  <2>2. CASE worker' = worker
    <3>1. status[d] \in Finished \cup {"MATCHED"} /\ d \notin failedHook
      BY <1>2, <2>1, <2>2 DEF JobsInv, PeopleUndisturbed, JobsFit
    <3>2. ~WorkerWrites(d)
      BY <2>2, ReadingsAssumption DEF WorkerWrites, MarkExtracting, FlagForReview, CreateConflict,
        MarkMatched, Settle, CatchFailed, CatchReset, At, Goto
    <3> QED
      BY <3>1, <3>2, StatusMoves DEF Finished, Settled, Decided
  <2>3. CASE WorkerStep(d)
    <3>1. MarkMatched(d) \/ RouteToErp(d) \/ CreateTask(d)
      BY <1>2, <2>1, <2>3, ReadingsAssumption DEF WorkerStep, TakeJob, StartAttempt, SkipAttempt,
        MarkExtracting, ReadInvoice, ReadInvoiceThrows, FlagForReview, VerifyClean, CreateInvoice,
        CreateConflict, RouteRefused, Settle, FinishAttempt, CatchFailed, CatchReset,
        RejectAttempt, At, Goto, Idle
    <3>2. RouteToErp(d) \/ CreateTask(d) => status[d] \in Finished \cup {"MATCHED"}
      BY DEF RouteToErp, CreateTask, At, PeopleUndisturbed
    <3> QED
      BY <3>1, <3>2 DEF MarkMatched, RouteToErp, CreateTask, setStatus, workflowVars
  <2> QED
    BY <1>2, <2>1, <2>2, <2>3, WorkerMoves, ReadingsAssumption DEF Crash, Idle, FailsOn
<1> QED
  BY <1>1, <1>2

\* Without a crash, and unless a call for it fails, the work on a document is
\* handed from the upload to the queue, to the worker, to the handler of its
\* failed job or to people, and never dropped.
LEMMA SomebodyGoesOnStep ==
  ASSUME Inv, JobsInv, [Next]_vars, NEW d \in Docs, ~FailsOn(d), crashes' = 0,
         SomebodyGoesOn(d)
  PROVE  SomebodyGoesOn(d)'
<1> USE DEF Inv, TypeOK, WorkflowTypeOK, WorkerTypeOK
<1> DEFINE Underway == {"read", "verify", "create", "match", "route", "task", "settle", "failed"}
           Live == {"waiting", "active", "delayed"}
<1> SUFFICES /\ status'[d] \in {"EXTRACTING", "MATCHED"} =>
                  worker'.doc = d /\ worker'.pc \in Underway
             /\ status'[d] = "QUEUED" =>
                  d \in ingesting' \cup failedHook' \/ job'[d].state \in Live
             /\ status'[d] = "FAILED" =>
                  job'[d].attemptsMade = Attempts \/ At("reset", d)'
             /\ job'[d].state = "completed" => status'[d] \in Settled
             /\ worker'.doc = d /\ worker'.pc = "audit" => status'[d] \in Settled
  BY DEF SomebodyGoesOn
<1>q. crashes = 0 /\ ~Crash
  BY NoCrash
<1>f. /\ status[d] \in {"EXTRACTING", "MATCHED"} => worker.doc = d /\ worker.pc \in Underway
      /\ status[d] = "QUEUED" => d \in ingesting \cup failedHook \/ job[d].state \in Live
      /\ status[d] = "FAILED" => job[d].attemptsMade = Attempts \/ At("reset", d)
      /\ job[d].state = "completed" => status[d] \in Settled
      /\ worker.doc = d /\ worker.pc = "audit" => status[d] \in Settled
  BY DEF SomebodyGoesOn
<1>j. /\ worker.doc = d => job[d].state = "active"
      /\ d \in failedHook => job[d].state = "failed" /\ job[d].attemptsMade = Attempts
      /\ d \in ingesting => job[d].state = "none"
      /\ status[d] = "ABSENT" => job[d].state = "none" /\ d \notin ingesting
      /\ job[d].state = "none" => status[d] \in {"ABSENT", "QUEUED"}
      /\ job[d].state = "active" => worker.doc = d
  BY <1>q DEF JobsInv, JobsFit, NoJobAbandoned
<1>m. worker' = worker \/ (worker.doc = d /\ WorkerStep(d)) \/ worker.doc # d
  BY <1>q, WorkerMoves DEF FailsOn
\* Whoever writes the status of a document that has a row and that the worker is
\* not about to write, settles it.
<1>o. ASSUME ~WorkerWrites(d), status[d] # "ABSENT"
      PROVE  status'[d] = status[d] \/ status'[d] \in Settled
  BY <1>o, StatusMoves DEF Settled, Decided
<1>h. ASSUME worker' = worker PROVE ~WorkerWrites(d)
  BY <1>h, ReadingsAssumption DEF WorkerWrites, MarkExtracting, FlagForReview, CreateConflict,
    MarkMatched, Settle, CatchFailed, CatchReset, At, Goto
<1>n. ASSUME worker.doc # d PROVE ~WorkerWrites(d)
  BY <1>n DEF WorkerWrites, MarkExtracting, FlagForReview, CreateConflict, MarkMatched, Settle,
    CatchFailed, CatchReset, At
<1>1. ASSUME status'[d] \in {"EXTRACTING", "MATCHED"}
      PROVE  worker'.doc = d /\ worker'.pc \in Underway
  <2>1. CASE WorkerWrites(d)
    BY <1>1, <2>1 DEF WorkerWrites, MarkExtracting, FlagForReview, CreateConflict, MarkMatched,
      Settle, CatchFailed, CatchReset, setStatus, At, Goto
  <2>2. CASE ~WorkerWrites(d)
    <3>1. status[d] = status'[d] /\ worker.doc = d /\ worker.pc \in Underway
      BY <1>1, <1>f, <2>2, StatusMoves DEF Decided
    <3>2. CASE WorkerStep(d)
      BY <1>1, <2>2, <3>1, <3>2, ReadingsAssumption DEF WorkerStep, TakeJob, StartAttempt,
        SkipAttempt, ReadInvoice, ReadInvoiceThrows, VerifyClean, CreateInvoice, RouteToErp,
        RouteRefused, CreateTask, FinishAttempt, RejectAttempt, At, Goto, WorkerWrites
    <3> QED
      BY <1>m, <3>1, <3>2
  <2> QED
    BY <2>1, <2>2
<1>2. ASSUME status'[d] = "QUEUED"
      PROVE  d \in ingesting' \cup failedHook' \/ job'[d].state \in Live
  <2>1. CASE IngestCreate(d)
    BY <2>1 DEF IngestCreate
  <2>2. CASE WorkerWrites(d)
    <3>1. CatchReset(d)
      BY <1>2, <2>2 DEF WorkerWrites, MarkExtracting, FlagForReview, CreateConflict, MarkMatched,
        Settle, CatchFailed, setStatus
    <3> QED
      BY <1>j, <3>1 DEF CatchReset, At, queueVars
  <2>3. CASE ~WorkerWrites(d) /\ ~IngestCreate(d)
    <3>1. status[d] = "QUEUED"
      BY <1>2, <2>3, StatusMoves DEF Decided
    <3>2. CASE d \in ingesting
      BY <1>q, <3>2, UploadWriters, JobStates
    <3>3. CASE d \in failedHook
      <4>1. ~FailedHandler(d)
        BY <1>2 DEF FailedHandler, setStatus
      <4> QED
        BY <1>q, <3>3, <4>1, HookWriters
    <3>4. CASE job[d].state \in Live
      <4>1. ~SkipAttempt(d)
        BY <3>1 DEF SkipAttempt
      <4>2. ~FinishAttempt(d)
        BY <1>f, <3>1 DEF FinishAttempt, At, Settled
      <4>3. RejectAttempt(d) => d \in failedHook' \/ job'[d].state = "delayed"
        <5> DEFINE last == job[d].attemptsMade + 1 >= Attempts
        <5>1. RejectAttempt(d) =>
                /\ job'[d].state = IF last THEN "failed" ELSE "delayed"
                /\ failedHook' = IF last THEN failedHook \cup {d} ELSE failedHook
          BY DEF RejectAttempt, FailAttempt, QueueTypeOK, Job
        <5> QED
          BY <5>1
      <4>4. ~((JobStalls(d) \/ JobStallsAgain(d)) /\ worker.doc # d)
        BY <1>j, JobStates
      <4> QED
        BY <3>4, <4>1, <4>2, <4>3, <4>4, JobWriters, JobStates
    <3> QED
      BY <1>f, <3>1, <3>2, <3>3, <3>4
  <2> QED
    BY <2>1, <2>2, <2>3
<1>3. ASSUME job'[d].state = "completed"
      PROVE  status'[d] \in Settled
  <2>1. CASE job'[d] = job[d]
    <3>1. status[d] \in Settled /\ status[d] # "ABSENT" /\ worker.doc # d
      BY <1>3, <1>f, <1>j, <2>1
    <3> QED
      BY <1>n, <1>o, <3>1
  <2>2. CASE SkipAttempt(d)
    <3>1. status[d] \notin {"QUEUED", "EXTRACTING", "MATCHED", "ABSENT"}
      BY <1>f, <1>j, <2>2 DEF SkipAttempt, At
    <3> QED
      BY <2>2, <3>1 DEF SkipAttempt, workflowVars, Settled, DocStatus
  <2>3. CASE FinishAttempt(d)
    BY <1>f, <2>3 DEF FinishAttempt, At, workflowVars
  <2> QED
    BY <1>3, <2>1, <2>2, <2>3, JobWriters, JobStates
<1>4. ASSUME worker'.doc = d, worker'.pc = "audit"
      PROVE  status'[d] \in Settled
  <2>1. worker.doc = d
    BY <1>4, WorkerMoves, JobStates
  <2>2. CASE worker' = worker
    BY <1>4, <1>f, <1>j, <1>h, <1>o, <2>1, <2>2
  <2>3. CASE WorkerStep(d)
    <3>1. FlagForReview(d) \/ CreateConflict(d) \/ Settle(d)
      BY <1>4, <2>1, <2>3, ReadingsAssumption DEF WorkerStep, TakeJob, StartAttempt, SkipAttempt,
        MarkExtracting, ReadInvoice, ReadInvoiceThrows, VerifyClean, CreateInvoice, MarkMatched,
        RouteToErp, RouteRefused, CreateTask, FinishAttempt, CatchFailed, CatchReset,
        RejectAttempt, At, Goto, Idle
    <3> QED
      BY <3>1 DEF FlagForReview, CreateConflict, Settle, setStatus, Settled
  <2> QED
    BY <1>m, <2>1, <2>2, <2>3
<1>5. ASSUME status'[d] = "FAILED"
      PROVE  job'[d].attemptsMade = Attempts \/ At("reset", d)'
  <2>1. CASE WorkerWrites(d)
    BY <1>5, <2>1 DEF WorkerWrites, MarkExtracting, FlagForReview, CreateConflict, MarkMatched,
      Settle, CatchFailed, CatchReset, setStatus, At, Goto
  <2>2. CASE d \in failedHook \/ (status[d] = "FAILED" /\ ~At("reset", d))
    <3>1. job[d].attemptsMade = Attempts
      BY <1>f, <1>j, <2>2
    <3>2. ~IngestEnqueue(d)
      BY <1>j, <2>2, JobStates
    <3> QED
      BY <3>1, <3>2, AttemptsStayUsedUp
  <2>3. CASE At("reset", d) /\ ~WorkerWrites(d)
    <3>1. ~WorkerStep(d)
      BY <2>3, ReadingsAssumption DEF WorkerStep, TakeJob, StartAttempt, SkipAttempt,
        MarkExtracting, ReadInvoice, ReadInvoiceThrows, FlagForReview, VerifyClean, CreateInvoice,
        CreateConflict, MarkMatched, RouteToErp, RouteRefused, CreateTask, Settle, FinishAttempt,
        CatchFailed, RejectAttempt, At, WorkerWrites
    <3> QED
      BY <1>m, <2>3, <3>1 DEF At
  <2> QED
    BY <1>5, <2>1, <2>2, <2>3, StatusMoves DEF Decided
<1> QED
  BY <1>1, <1>2, <1>3, <1>4, <1>5

\* What FailuresIsolated says of the documents that no failing call has disturbed.
Spared(d) ==
  /\ crashes <= 1 => PeopleUndisturbed(d)
  /\ crashes = 0 => SomebodyGoesOn(d)

\* A failing call adds its document to those that have been disturbed.
LEMMA FailuresIsolatedStep ==
  ASSUME Inv, JobsInv, [Next]_vars
  PROVE  FailuresIsolated'
<1>1. PICK disturbed \in SUBSET Docs :
        /\ IsFiniteSet(disturbed) /\ Cardinality(disturbed) <= faults
        /\ \A d \in Docs \ disturbed :
             Spared(d)
  BY DEF JobsInv, FailuresIsolated, Spared
<1>2. ASSUME NEW d \in Docs \ disturbed, ~FailsOn(d)
      PROVE  Spared(d)'
  <2>1. crashes' <= 1 => crashes <= 1
    BY CrashCounted
  <2>2. crashes' <= 1 => PeopleUndisturbed(d)'
    BY <1>1, <1>2, <2>1, PeopleUndisturbedStep DEF Spared
  <2>3. crashes' = 0 => SomebodyGoesOn(d)'
    BY <1>1, <1>2, SomebodyGoesOnStep, NoCrash DEF Spared
  <2> QED
    BY <2>2, <2>3 DEF Spared
<1>3. Cardinality(disturbed) \in Nat /\ faults \in Nat
  BY <1>1, FS_CardinalityType, OneFailure
<1>4. CASE faults' \in {faults, faults + 1} /\ \A d \in Docs : ~FailsOn(d)
  <2>1. Cardinality(disturbed) <= faults'
    BY <1>1, <1>3, <1>4
  <2> QED
    BY <1>1, <1>2, <1>4, <2>1 DEF FailuresIsolated, Spared
<1>5. ASSUME NEW e \in Docs, faults' = faults + 1, \A d \in Docs \ {e} : ~FailsOn(d)
      PROVE  FailuresIsolated'
  <2>1. /\ IsFiniteSet(disturbed \cup {e})
        /\ Cardinality(disturbed \cup {e}) \in {Cardinality(disturbed), Cardinality(disturbed) + 1}
    BY <1>1, FS_AddElement
  <2>2. Cardinality(disturbed \cup {e}) <= faults'
    BY <1>1, <1>3, <1>5, <2>1
  <2>3. disturbed \cup {e} \in SUBSET Docs
    OBVIOUS
  <2>4. \A d \in Docs \ (disturbed \cup {e}) :
          Spared(d)'
    BY <1>2, <1>5
  <2> QED
    BY <2>1, <2>2, <2>3, <2>4 DEF FailuresIsolated, Spared
<1> QED
  BY <1>4, <1>5, OneFailure

\* As long as no call has failed no document has been disturbed.
LEMMA NoneDisturbed ==
  ASSUME Inv, JobsInv, faults = 0, NEW d \in Docs
  PROVE  Spared(d)
<1>1. PICK disturbed \in SUBSET Docs :
        /\ IsFiniteSet(disturbed) /\ Cardinality(disturbed) <= faults
        /\ \A e \in Docs \ disturbed :
             Spared(e)
  BY DEF JobsInv, FailuresIsolated, Spared
<1>2. Cardinality(disturbed) = 0
  BY <1>1, FS_CardinalityType
<1>3. disturbed = {}
  BY <1>1, <1>2, FS_EmptySet
<1> QED
  BY <1>1, <1>3

-----------------------------------------------------------------------------
(* The theorems *)

\* At the beginning there are no rows and no jobs.
LEMMA JobsInit == Init => JobsInv
<1> SUFFICES ASSUME Init PROVE JobsInv
  OBVIOUS
<1> USE ReadingsAssumption DEF Init, WorkflowInit, QueueInit, WorkerInit, ApprovalsInit,
      IngestInit, Idle, NoRequest, NoTask, NoJob
<1>1. JobsFit /\ TaskComesFirst /\ NoJobAbandoned
  BY DEF JobsFit, TaskComesFirst, At, NoJobAbandoned
<1>2. \A d \in Docs : PeopleUndisturbed(d) /\ SomebodyGoesOn(d)
  BY DEF PeopleUndisturbed, SomebodyGoesOn, WithPeople, Finished, Settled
<1>3. {} \in SUBSET Docs /\ IsFiniteSet({}) /\ Cardinality({}) <= faults
  BY FS_EmptySet
<1>4. FailuresIsolated
  BY <1>2, <1>3 DEF FailuresIsolated
<1> QED
  BY <1>1, <1>4 DEF JobsInv

\* Every step preserves what is known of the jobs.
LEMMA JobsStep ==
  ASSUME Inv, JobsInv, [Next]_vars
  PROVE  JobsInv'
BY JobsFitStep, TaskComesFirstStep, NoJobAbandonedStep, FailuresIsolatedStep DEF JobsInv

\* For any documents, people, failures and crashes: the worker's job is the
\* active one and the other way round but for crashes, and but for one document
\* per failing call nobody takes a document back from people or drops it
\* (queue.ts, index.ts, processDocument.ts).
THEOREM JobsKnown == Spec => []JobsInv
<1>1. Inv /\ JobsInv /\ [Next]_vars => JobsInv'
  BY JobsStep
<1> QED
  BY <1>1, Invariance, JobsInit, PTL DEF Spec

\* Without a failing call and without a crash no document is stuck at rest:
\* neither QUEUED without a job (schema.prisma:151), nor completed without
\* being settled (queue.ts:8-9), nor failed for good but QUEUED (queue.ts:57),
\* nor FAILED with attempts left (schema.prisma:160).
THEOREM NothingStuck == Spec => []NothingStuckWithoutFailures
<1>1. Inv /\ JobsInv => NothingStuckWithoutFailures
  BY NoneDisturbed DEF NothingStuckWithoutFailures, CompletedMeansSettled, QueuedMeansJob,
    FailedIsTheFinalWord, FailedMeansNoAttemptLeft, AtRest, At, Spared, SomebodyGoesOn
<1> QED
  BY <1>1, Invariance, JobsKnown, PTL

\* While no call has failed, no step takes a document the pipeline has finished
\* out of its finished states, although the process dies and jobs are repeated
\* (processDocument.ts:24).
THEOREM FinishedStand == Spec => FinishedStaysFinished
<1>1. ASSUME Inv, JobsInv, [Next]_vars, faults' = 0, crashes' <= 1,
             NEW d \in Docs, status[d] \in Finished
      PROVE  status'[d] \in Finished
  <2>1. PastFailing(d)
    BY <1>1, NoFault, NoneDisturbed, CrashCounted DEF Spared, PeopleUndisturbed, WithPeople
  <2>2. ~WorkerWrites(d) \/ Settle(d)
    BY <2>1 DEF PastFailing, WorkerWrites, MarkExtracting, FlagForReview, CreateConflict,
      MarkMatched, Settle, CatchFailed, CatchReset, At
  <2>3. Settle(d) => status'[d] \in Finished
    BY <1>1 DEF Inv, TypeOK, WorkflowTypeOK, Settle, setStatus, Finished, Settled
  <2> QED
    BY <1>1, <2>1, <2>2, <2>3, StatusMoves DEF PastFailing, Finished, Settled, Decided
<1>2. Inv /\ JobsInv /\ [Next]_vars =>
        [faults' = 0 /\ crashes' <= 1 => \A d \in Docs : status[d] \in Settled \ {"FAILED"} =>
                                       status'[d] \in Settled \ {"FAILED"}]_vars
  BY <1>1 DEF Finished
<1> QED
  BY <1>2, Invariance, JobsKnown, PTL DEF Spec, FinishedStaysFinished

\* Without a crash a failing call leaves one document stuck at most, whichever
\* call it is and however the documents' pipelines, uploads and people overlap.
THEOREM FailuresStick == Spec => []FailuresStickToOneDocument
<1>1. ASSUME Inv, JobsInv, crashes = 0
      PROVE  Cardinality({d \in Docs : Stuck(d)}) <= faults
  <2>1. PICK disturbed \in SUBSET Docs :
          /\ IsFiniteSet(disturbed) /\ Cardinality(disturbed) <= faults
          /\ \A d \in Docs \ disturbed : SomebodyGoesOn(d)
    BY <1>1 DEF JobsInv, FailuresIsolated
  <2>2. \A d \in Docs : Stuck(d) => ~SomebodyGoesOn(d)
    BY DEF Stuck, AtRest, SomebodyGoesOn, At
  <2>3. {d \in Docs : Stuck(d)} \subseteq disturbed
    BY <2>1, <2>2
  <2> DEFINE stuck == {d \in Docs : Stuck(d)}
  <2>4. Cardinality(stuck) \in Nat /\ Cardinality(stuck) <= Cardinality(disturbed)
    BY <2>1, <2>3, FS_Subset, FS_CardinalityType
  <2>5. Cardinality(disturbed) \in Nat /\ faults \in Nat
    BY <1>1, <2>1, FS_CardinalityType, ReadingsAssumption DEF Inv, TypeOK, WorkflowTypeOK
  <2> QED
    BY <2>1, <2>4, <2>5
<1>2. Inv /\ JobsInv => FailuresStickToOneDocument
  BY <1>1 DEF FailuresStickToOneDocument
<1> QED
  BY <1>2, Invariance, JobsKnown, PTL

\* A document that people were asked about is FAILED, queued again or being read
\* again only by a failure of a call for it, or after a second crash.
LEMMA HiddenDisturbed ==
  ASSUME Inv, NEW d \in Docs, PeopleUndisturbed(d)
  PROVE  ~Hidden(d)
<1> SUFFICES ASSUME task[d].status # "NONE"
             PROVE  status[d] \in {"MATCHED", "PENDING_APPROVAL"} \cup Decided
  BY DEF Hidden
<1>1. status[d] \in Finished \cup {"MATCHED"}
  BY DEF PeopleUndisturbed, WithPeople, PastFailing
<1>2. erpInvoiceId[d] # None /\ raisedBy[erpInvoiceId[d]] = d
  BY DEF Inv, IInv, LinkedToOwn
<1>3. erpInvoiceId[d] \in Invoices
  BY <1>2 DEF Inv, TypeOK, WorkflowTypeOK
<1>4. status[d] \notin {"NEEDS_REVIEW", "DUPLICATE"}
  BY <1>2, <1>3 DEF Inv, IInv, StoppedMeansNoInvoice
<1> QED
  BY <1>1, <1>4 DEF Finished, Settled, Decided

\* FailuresHideOneDecision: a failing call makes one document look as if nobody
\* had been asked about it, at most, whichever call it is and whoever decides
\* meanwhile (processDocument.ts:124-134, queue.ts:60-65).
THEOREM FailuresHide == Spec => []FailuresHideOneDecision
<1>1. ASSUME Inv, JobsInv, crashes <= 1
      PROVE  Cardinality({d \in Docs : Hidden(d)}) <= faults
  <2>1. PICK disturbed \in SUBSET Docs :
          /\ IsFiniteSet(disturbed) /\ Cardinality(disturbed) <= faults
          /\ \A d \in Docs \ disturbed : PeopleUndisturbed(d)
    BY <1>1 DEF JobsInv, FailuresIsolated
  <2> DEFINE hidden == {d \in Docs : Hidden(d)}
  <2>2. hidden \subseteq disturbed
    BY <1>1, <2>1, HiddenDisturbed
  <2>3. Cardinality(hidden) \in Nat /\ Cardinality(hidden) <= Cardinality(disturbed)
    BY <2>1, <2>2, FS_Subset, FS_CardinalityType
  <2>4. Cardinality(disturbed) \in Nat /\ faults \in Nat
    BY <1>1, <2>1, FS_CardinalityType, ReadingsAssumption DEF Inv, TypeOK, WorkflowTypeOK
  <2> QED
    BY <2>1, <2>3, <2>4
<1>2. Inv /\ JobsInv => FailuresHideOneDecision
  BY <1>1 DEF FailuresHideOneDecision
<1> QED
  BY <1>2, Invariance, JobsKnown, PTL

\* Whatever fails or crashes: a document that waits for approval has a task for
\* the approver its amount calls for (page.tsx:26, processDocument.ts routing).
THEOREM PendingHasTask == Spec => []PendingMeansTask
<1>1. Inv /\ JobsInv => PendingMeansTask
  BY DEF Inv, IInv, LinkedToOwn, JobsInv, TaskComesFirst, PendingMeansTask
<1> QED
  BY <1>1, Invariance, JobsKnown, PTL

\* Whatever fails or crashes: once the queue and its handler are done with a
\* document, only what the ERP has done still changes its status (queue.ts:57).
THEOREM PeopleHaveTheLastWord == Spec => OnlyPeopleAfterwards
<1>1. ASSUME Inv, JobsInv, [Next]_vars, NEW d \in Docs, status[d] # "ABSENT",
             job[d].state \in {"none", "completed", "failed"}, d \notin failedHook
      PROVE  \/ status'[d] = status[d]
             \/ status'[d] \in Decided /\ Backed(status'[d], d)
  <2>1. worker.doc # d
    BY <1>1 DEF JobsInv, JobsFit
  <2>2. ~WorkerWrites(d)
    BY <2>1 DEF WorkerWrites, MarkExtracting, FlagForReview, CreateConflict, MarkMatched, Settle,
      CatchFailed, CatchReset, At
  <2>3. status'[d] = status[d] \/ status'[d] \in Decided
    BY <1>1, <2>2, StatusMoves
  <2>4. CASE ~Worker /\ ~WorkerFails /\ ~Crash
    BY <1>1, <2>3, <2>4, OthersStep DEF Decided
  <2>5. CASE Worker
    <3>1. PICK e \in Docs : WorkerStep(e)
      BY <2>5 DEF Worker
    <3>2. CASE status' = status
      BY <3>2
    <3>3. CASE WorkerWrites(e)
      <4>1. e # d
        BY <2>1, <3>3 DEF WorkerWrites, MarkExtracting, FlagForReview, CreateConflict, MarkMatched,
          Settle, CatchFailed, CatchReset, At
      <4>2. status'[d] = status[d]
        BY <1>1, <3>3, <4>1 DEF WorkerWrites, MarkExtracting, FlagForReview, CreateConflict,
          MarkMatched, Settle, CatchFailed, CatchReset, setStatus, Inv, TypeOK, WorkflowTypeOK
      <4> QED
        BY <4>2
    <3> QED
      BY <3>1, <3>2, <3>3, WorkerFrame DEF WorkerWrites
  <2>6. CASE WorkerFails \/ Crash
    BY <2>6, WorkerFaultFrame DEF Crash, workflowVars
  <2> QED
    BY <2>4, <2>5, <2>6
<1>2. Inv /\ JobsInv /\ [Next]_vars => [\A d \in Docs :
        /\ status[d] # "ABSENT"
        /\ job[d].state \in {"none", "completed", "failed"} /\ d \notin failedHook
        => \/ status'[d] = status[d]
           \/ status'[d] \in Decided /\ Backed(status'[d], d)]_vars
  BY <1>1
<1> QED
  BY <1>2, Invariance, JobsKnown, PTL DEF Spec, OnlyPeopleAfterwards
=============================================================================
