------------------------------- MODULE Intake -------------------------------
(***************************************************************************)
(* Every way into the system, and the life of the process they run in:     *)
(* ingestFile (server/src/ingest/ingestFile.ts) as the upload route and    *)
(* the Gmail poller call it, the poller itself (gmailPoller.ts), and the   *)
(* boot, graceful shutdown and death of the process (index.ts).            *)
(*                                                                         *)
(* A call of ingestFile is up[c]: c is a user with an upload in flight, or *)
(* the poller.  up[c].pc names the awaited call it is about to make.  The  *)
(* calls of several users and of the poller interleave.  The audit event   *)
(* is part of the call after it.  A file is its content; the object store  *)
(* gives every upload a key of its own, so only the content matters.       *)
(*                                                                         *)
(* Mails are named by their IMAP UIDs, which grow.                         *)
(***************************************************************************)
EXTENDS Integers, FiniteSets

CONSTANTS
  Files,       \* file contents
  NotPdf,      \* those that fail the content check
  Users,       \* people who upload
  Gmail,       \* the poller, as a caller of ingestFile
  None,
  Mails,       \* the UIDs of the mails that may arrive
  Attached,    \* the PDF attachments of each mail
  Poison,      \* mails whose download or parsing throws
  MaxFaults,   \* how many awaited calls may fail
  MaxCrashes,  \* how often the process may die or be forced to exit
  MaxStops     \* how often the platform asks the process to stop

VARIABLES
  rows,       \* files with an IngestedDocument row
  stored,     \* files whose bytes are in the object store
  jobs,       \* how many jobs were placed for each file
  up,         \* [pc, file]: the call of ingestFile each caller is in
  inbox,      \* the mails in the three-day window
  arrived,    \* the mails that ever arrived
  processed,  \* processedUids
  poller,     \* [pc, todo, mail, left]: the poll in progress
  phase,      \* where the process is in its life
  budget      \* [faults, crashes, stops] used up so far

Callers == Users \cup {Gmail}

ASSUME IntakeAssumption ==
  /\ NotPdf \subseteq Files
  /\ Gmail \notin Users
  /\ None \notin Files
  /\ Mails \subseteq Nat
  /\ Attached \in [Mails -> SUBSET Files]
  /\ Poison \subseteq Mails

Steps == {"idle", "lookup", "store", "create", "enqueue"}
NoCall == [pc |-> "idle", file |-> None]
NoPoll == [pc |-> "idle", todo |-> {}, mail |-> None, left |-> {}]

IntakeTypeOK ==
  /\ rows \subseteq Files
  /\ stored \subseteq Files
  /\ jobs \in [Files -> Nat]
  /\ up \in [Callers -> [pc : Steps, file : Files \cup {None}]]
  /\ inbox \subseteq arrived /\ arrived \subseteq Mails
  /\ processed \subseteq Mails
  /\ poller \in [pc : {"idle", "mail", "pdf"}, todo : SUBSET Mails,
                 mail : Mails \cup {None}, left : SUBSET Files]
  /\ phase \in {"up", "worker", "queue", "http", "down"}
  /\ budget \in [faults : Nat, crashes : Nat, stops : Nat]

Init ==
  /\ rows = {} /\ stored = {}
  /\ jobs = [f \in Files |-> 0]
  /\ up = [c \in Callers |-> NoCall]
  /\ inbox = {} /\ arrived = {} /\ processed = {}
  /\ poller = NoPoll
  /\ phase = "up"
  /\ budget = [faults |-> 0, crashes |-> 0, stops |-> 0]

records == <<rows, stored, jobs>>
mail == <<inbox, arrived>>
vars == <<records, up, mail, processed, poller, phase, budget>>

Alive == phase # "down"
Listening == phase \in {"up", "worker", "queue"}  \* the HTTP server accepts
QueueOpen == phase \in {"up", "worker"}           \* queue.add works

Fault ==
  /\ budget.faults < MaxFaults
  /\ budget' = [budget EXCEPT !.faults = @ + 1]

-----------------------------------------------------------------------------
(* ingestFile *)

\* The content check comes first; a file that fails it is answered at once.
Begin(c, f) == up' = [up EXCEPT ![c] =
  IF f \in NotPdf THEN NoCall ELSE [pc |-> "lookup", file |-> f]]
Advance(c, pc) == up' = [up EXCEPT ![c].pc = pc]

\* The caller gets an answer or an error: the poller treats all alike, and
\* what a user makes of them is theirs.
Answer(c) == up' = [up EXCEPT ![c] = NoCall]

\* Mutant of Lookup: the row is recorded before the original is stored.
LookupSkipsStore(c) ==
  /\ up[c].pc = "lookup"
  /\ IF up[c].file \in rows THEN Answer(c) ELSE Advance(c, "create")
  /\ UNCHANGED <<records, budget>>

Lookup(c) ==
  /\ up[c].pc = "lookup"
  /\ IF up[c].file \in rows THEN Answer(c) ELSE Advance(c, "store")
  /\ UNCHANGED <<records, budget>>

Store(c) ==
  /\ up[c].pc = "store"
  /\ stored' = stored \cup {up[c].file}
  /\ Advance(c, "create")
  /\ UNCHANGED <<rows, jobs, budget>>

\* Mutant of Create: the schema has no unique key on the hash.
CreateAgain(c) ==
  /\ up[c].pc = "create"
  /\ rows' = rows \cup {up[c].file}
  /\ Advance(c, "enqueue")
  /\ UNCHANGED <<stored, jobs, budget>>

\* The unique key on (organization, hash) decides between two callers that
\* both found no row; the loser's error is an unexpected one.
Create(c) ==
  /\ up[c].pc = "create"
  /\ IF up[c].file \in rows
       THEN Answer(c) /\ UNCHANGED rows
       ELSE rows' = rows \cup {up[c].file} /\ Advance(c, "enqueue")
  /\ UNCHANGED <<stored, jobs, budget>>

\* queue.add, which fails once the queue is being closed.
Enqueue(c) ==
  /\ up[c].pc = "enqueue"
  /\ IF QueueOpen
       THEN /\ jobs' = [jobs EXCEPT ![up[c].file] = @ + 1]
            /\ Answer(c)
       ELSE UNCHANGED jobs /\ Answer(c)
  /\ UNCHANGED <<rows, stored, budget>>

CallFails(c) ==
  /\ up[c].pc # "idle"
  /\ Answer(c)
  /\ Fault
  /\ UNCHANGED records

IngestStep(c) ==
  /\ Alive
  /\ Lookup(c) \/ Store(c) \/ Create(c) \/ Enqueue(c)
  /\ UNCHANGED <<mail, processed, poller, phase>>

\* Mutant of IngestFails: the "try" is around all attachments of the mail.
IngestFailsForMail(c) ==
  /\ Alive
  /\ CallFails(c)
  /\ poller' = IF c = Gmail THEN [poller EXCEPT !.left = {}] ELSE poller
  /\ UNCHANGED <<mail, processed, phase>>

IngestFails(c) ==
  /\ Alive
  /\ CallFails(c)
  /\ UNCHANGED <<mail, processed, poller, phase>>

Upload(u, f) ==
  /\ Listening
  /\ up[u].pc = "idle"
  /\ Begin(u, f)
  /\ UNCHANGED <<records, mail, processed, poller, phase, budget>>

-----------------------------------------------------------------------------
(* The Gmail poller *)

\* Somebody sends a mail; a mail leaves the window or is deleted.
MailArrives(m) ==
  /\ m \in Mails \ arrived
  /\ arrived' = arrived \cup {m} /\ inbox' = inbox \cup {m}
  /\ UNCHANGED <<records, up, processed, poller, phase, budget>>

MailLeaves(m) ==
  /\ m \in inbox
  /\ inbox' = inbox \ {m}
  /\ UNCHANGED <<arrived, records, up, processed, poller, phase, budget>>

First(todo) == CHOOSE m \in todo : \A n \in todo : m <= n

StartPoll ==
  /\ poller.pc = "idle"
  /\ inbox \ processed # {}
  /\ poller' = [NoPoll EXCEPT !.pc = "mail", !.todo = inbox \ processed]
  /\ UNCHANGED <<up, processed, budget>>

EndPoll ==
  /\ poller.pc = "mail"
  /\ poller.todo = {}
  /\ poller' = NoPoll
  /\ UNCHANGED <<up, processed, budget>>

\* fetchOne and simpleParser.  A mail that is gone is passed over.
FetchMail ==
  /\ poller.pc = "mail" /\ poller.todo # {}
  /\ LET m == First(poller.todo) IN
       \/ /\ m \in inbox \ Poison
          /\ poller' = [poller EXCEPT !.pc = "pdf", !.mail = m, !.left = Attached[m]]
       \/ /\ m \notin inbox
          /\ poller' = [poller EXCEPT !.todo = @ \ {m}]
  /\ UNCHANGED <<up, processed, budget>>

\* A throw ends the poll: what is still to do is found again by the next one.
FetchThrows ==
  /\ poller.pc = "mail" /\ poller.todo # {}
  /\ \/ First(poller.todo) \in inbox \cap Poison /\ UNCHANGED budget
     \/ Fault
  /\ poller' = NoPoll
  /\ UNCHANGED <<up, processed>>

\* The next attachment goes through the front door; whatever ingestFile
\* answers or throws, the loop goes on with the next one.
IngestAttachment ==
  /\ poller.pc = "pdf"
  /\ up[Gmail].pc = "idle"
  /\ \E f \in poller.left :
       /\ Begin(Gmail, f)
       /\ poller' = [poller EXCEPT !.left = @ \ {f}]
  /\ UNCHANGED <<processed, budget>>

\* Mutant of FinishMail: it does not wait for the other attachments.
FinishMailEarly ==
  /\ poller.pc = "pdf"
  /\ up[Gmail].pc = "idle"
  /\ processed' = processed \cup {poller.mail}
  /\ poller' = [poller EXCEPT !.pc = "mail", !.todo = @ \ {poller.mail}, !.mail = None]
  /\ UNCHANGED <<up, budget>>

FinishMail ==
  /\ poller.pc = "pdf" /\ poller.left = {}
  /\ up[Gmail].pc = "idle"
  /\ processed' = processed \cup {poller.mail}
  /\ poller' = [poller EXCEPT !.pc = "mail", !.todo = @ \ {poller.mail}, !.mail = None]
  /\ UNCHANGED <<up, budget>>

PollerStep ==
  /\ Alive
  /\ \/ StartPoll \/ EndPoll \/ FetchMail \/ FetchThrows
     \/ IngestAttachment \/ FinishMail
  /\ UNCHANGED <<records, mail, phase>>

-----------------------------------------------------------------------------
(* The process *)

\* What lives in memory goes; the stores stay.
Forget ==
  /\ up' = [c \in Callers |-> NoCall]
  /\ processed' = {}
  /\ poller' = NoPoll
  /\ phase' = "down"

\* The shutdown: the worker first, then the queue, then the HTTP server, which
\* waits for the requests in flight (the poller is not waited for).
Sigterm ==
  /\ phase = "up"
  /\ budget.stops < MaxStops
  /\ phase' = "worker"
  /\ budget' = [budget EXCEPT !.stops = @ + 1]
  /\ UNCHANGED <<records, up, mail, processed, poller>>

CloseNext ==
  /\ \/ phase = "worker" /\ phase' = "queue"
     \/ phase = "queue" /\ phase' = "http"
  /\ UNCHANGED <<records, up, mail, processed, poller, budget>>

CleanExit ==
  /\ phase = "http"
  /\ \A u \in Users : up[u].pc = "idle"
  /\ Forget
  /\ UNCHANGED <<records, mail, budget>>

\* A crash, a kill, or the deadline of the shutdown.
Crash ==
  /\ Alive
  /\ budget.crashes < MaxCrashes
  /\ Forget
  /\ budget' = [budget EXCEPT !.crashes = @ + 1]
  /\ UNCHANGED <<records, mail>>

Boot ==
  /\ phase = "down"
  /\ phase' = "up"
  /\ UNCHANGED <<records, up, mail, processed, poller, budget>>

Next ==
  \/ \E c \in Callers : IngestStep(c) \/ IngestFails(c)
  \/ \E u \in Users, f \in Files : Upload(u, f)
  \/ \E m \in Mails : MailArrives(m) \/ MailLeaves(m)
  \/ PollerStep
  \/ Sigterm \/ CloseNext \/ CleanExit \/ Crash \/ Boot

(***************************************************************************)
(* The event loop runs every call to its end and the poller's timer fires; *)
(* a shutdown that was asked for proceeds, and the platform restarts the   *)
(* process.  Uploads, mails, failures and stops are owed by nobody.        *)
(***************************************************************************)
Fairness ==
  /\ \A c \in Callers : WF_vars(IngestStep(c))
  /\ WF_vars(PollerStep)
  /\ WF_vars(CloseNext) /\ WF_vars(CleanExit) /\ WF_vars(Boot)

Spec == Init /\ [][Next]_vars /\ Fairness

-----------------------------------------------------------------------------
(* Properties *)

\* Where each file stands; a second job would show as "twice".
Standing(f) ==
  CASE f \notin rows /\ jobs[f] = 0 -> "out"
    [] f \in rows /\ jobs[f] = 0    -> "recorded"
    [] f \in rows /\ jobs[f] = 1    -> "queued"
    [] OTHER                        -> "twice"

Admitted == [f \in Files |-> Standing(f)]

Door == INSTANCE Admission WITH kept <- stored, admitted <- Admitted

\* The front door keeps the promise of Admission whatever the users, the
\* poller, failures, shutdowns and restarts do: the original is stored before
\* the row that names it, two callers with the same bytes make one row, and a
\* row gets one job at most.
KeepsOneDoor == Door!ASpec

\* What every caller of ingestFile has established before its next call: the
\* inductive invariant behind KeepsOneDoor.  Of several callers with the same
\* bytes only the one whose row it is may place a job.
CallersKnow ==
  /\ \A c \in Callers :
       /\ up[c].pc = "idle" <=> up[c].file = None
       /\ up[c].pc = "create" => up[c].file \in stored
       /\ up[c].pc = "enqueue" => up[c].file \in rows /\ jobs[up[c].file] = 0
  /\ \A b, c \in Callers :
       /\ up[b].pc = "enqueue" /\ up[c].pc = "enqueue"
       /\ up[b].file = up[c].file
       => b = c

IntakeInv ==
  /\ IntakeTypeOK
  /\ rows \subseteq stored
  /\ \A f \in Files : jobs[f] <= 1 /\ (jobs[f] = 1 => f \in rows)
  /\ poller.pc = "pdf" => poller.mail \in Mails
  /\ CallersKnow

\* Every attachment of a mail in the window is recorded in the end, across
\* restarts, which forget the UIDs (gmailPoller.ts:19-23), and when somebody
\* uploads the same file meanwhile.  A mail that cannot be parsed holds up the
\* ones behind it, and a failing call may cost a file (see below).
EveryMailRecorded == \A m \in Mails :
  m \in inbox ~>
    \/ m \notin inbox
    \/ Attached[m] \ NotPdf \subseteq rows
    \/ \E p \in Poison : p \in inbox /\ p <= m
    \/ budget.faults > 0

-----------------------------------------------------------------------------
(* What the repository says and the code does not keep *)

\* gmailPoller.ts:118-119 "Remember this UID only AFTER successful processing -
\* if anything above threw, the next poll retries this email": the attachments
\* of a remembered mail are recorded.
RememberedMeansRecorded == \A m \in processed : Attached[m] \ NotPdf \subseteq rows

\* index.ts:60-63 "finish the job in hand, take no new work, finish in-flight
\* HTTP, exit clean": after clean exits alone every recorded file has its job.
CleanExitLosesNothing ==
  phase = "down" /\ budget.crashes = 0 /\ budget.faults = 0 =>
    \A f \in rows : jobs[f] > 0

\* gmailPoller.ts:22-23 "every already-ingested PDF is dropped by the hash
\* check. Correct by design": a recorded file is on its way once nobody is
\* handing it in any more.
RecordedMeansQueued == \A f \in rows :
  (\A c \in Callers : up[c].file # f) => jobs[f] > 0

\* As long as no call has failed and the process has neither died nor been
\* asked to stop, the code does keep them, whoever overlaps with whom.
NothingLostWithoutFailures ==
  budget = [faults |-> 0, crashes |-> 0, stops |-> 0] =>
    RememberedMeansRecorded /\ RecordedMeansQueued

\* A recorded file has its job, or the caller whose row it is is about to
\* place it.
HandedOn(f) ==
  jobs[f] > 0 \/ \E c \in Callers : up[c].pc = "enqueue" /\ up[c].file = f

\* The poller has not let go of the file: it is yet to be handed in, or in hand.
Handling(f) ==
  f \in poller.left \/ (up[Gmail].pc # "idle" /\ up[Gmail].file = f)

\* The inductive invariant behind NothingLostWithoutFailures: until something
\* fails nothing is dropped between one hand and the next.
NothingDropped ==
  budget = [faults |-> 0, crashes |-> 0, stops |-> 0] =>
    /\ phase = "up"
    /\ \A f \in rows : HandedOn(f)
    /\ RememberedMeansRecorded
    /\ poller.pc = "pdf" =>
         \A f \in Attached[poller.mail] \ NotPdf : f \in rows \/ Handling(f)

Remembered(f) == \E m \in processed : f \in Attached[m]

\* gmailPoller.ts:109-112 "A bad attachment (fake PDF, oversized) must not wedge
\* the poller: log it, skip it": a failing call costs one attachment at most.
\* The others of its mail are recorded, and crashes and shutdowns cost none.
EachFailureCostsOneFile ==
  Cardinality({f \in Files \ NotPdf : f \notin rows /\ Remembered(f)}) <= budget.faults
=============================================================================
