---------------------------- MODULE IntakeProofs ----------------------------
(***************************************************************************)
(* The front door keeps the promise of Admission for any users, files,     *)
(* mails, failures and restarts.  The invariant IntakeInv is inductive,    *)
(* and under it every step of Intake is a step of Admission or leaves the  *)
(* files as they are.  Until something fails nothing is lost, and a        *)
(* failing call costs one file at most.                                    *)
(***************************************************************************)
EXTENDS Intake, FiniteSetTheorems, TLAPS

\* The initial state satisfies the invariant.
LEMMA IntakeInvInit == Init => IntakeInv
BY IntakeAssumption DEF Init, IntakeInv, IntakeTypeOK, CallersKnow, NoCall, NoPoll, Steps,
  Callers

\* The calls of ingestFile, one await at a time.
LEMMA IngestStepInv ==
  ASSUME IntakeInv, NEW c \in Callers, IngestStep(c) \/ IngestFails(c)
  PROVE  IntakeInv'
<1> USE IntakeAssumption DEF IntakeInv, IntakeTypeOK, CallersKnow, IngestStep, IngestFails,
      mail, Steps
<1>1. CASE Lookup(c) /\ IngestStep(c)
  BY <1>1 DEF Lookup, Answer, Advance, NoCall, records
<1>2. CASE Store(c) /\ IngestStep(c)
  BY <1>2 DEF Store, Advance
<1>3. CASE Create(c) /\ IngestStep(c)
  <2>1. CASE up[c].file \in rows
    BY <1>3, <2>1 DEF Create, Answer, NoCall
  <2>2. CASE up[c].file \notin rows
    <3>1. up[c].file \in Files /\ up[c].file \in stored /\ jobs[up[c].file] = 0
      BY <1>3, <2>2 DEF Create
    <3>2. /\ rows' = rows \cup {up[c].file}
          /\ up' = [up EXCEPT ![c].pc = "enqueue"]
          /\ UNCHANGED <<stored, jobs, budget, inbox, arrived, processed, poller, phase>>
      BY <1>3, <2>2 DEF Create, Advance
    <3>3. \A b \in Callers : up[b].pc = "enqueue" => up[b].file \in rows
      OBVIOUS
    <3> QED
      BY <2>2, <3>1, <3>2, <3>3
  <2> QED
    BY <2>1, <2>2
<1>4. CASE Enqueue(c) /\ IngestStep(c)
  BY <1>4 DEF Enqueue, Answer, NoCall
<1>5. CASE CallFails(c) /\ IngestFails(c)
  BY <1>5 DEF CallFails, Answer, Fault, NoCall, records
<1> QED
  BY <1>1, <1>2, <1>3, <1>4, <1>5

\* A new call starts before its lookup, or is answered at once.
LEMMA BeginInv ==
  ASSUME IntakeInv, NEW c \in Callers, NEW f \in Files, up[c].pc = "idle", Begin(c, f),
         UNCHANGED <<records, inbox, arrived, processed, phase, budget>>
  PROVE  /\ up' \in [Callers -> [pc : Steps, file : Files \cup {None}]]
         /\ CallersKnow'
BY IntakeAssumption DEF IntakeInv, IntakeTypeOK, CallersKnow, Begin, NoCall, Steps, records

\* The poller hands its attachments in one after the other.
LEMMA PollerInv ==
  ASSUME IntakeInv, PollerStep
  PROVE  IntakeInv'
<1> USE IntakeAssumption DEF IntakeInv, IntakeTypeOK, PollerStep, mail
<1>1. CASE StartPoll \/ EndPoll
  <2>1. poller' \in [pc : {"idle", "mail", "pdf"}, todo : SUBSET Mails,
                     mail : Mails \cup {None}, left : SUBSET Files]
        /\ poller'.pc # "pdf"
    <3>1. inbox \subseteq Mails
      OBVIOUS
    <3>2. CASE StartPoll
      BY <3>1, <3>2 DEF StartPoll, NoPoll
    <3>3. CASE EndPoll
      BY <3>3 DEF EndPoll, NoPoll
    <3> QED
      BY <1>1, <3>2, <3>3
  <2>2. UNCHANGED <<records, inbox, arrived, up, processed, phase, budget>>
    BY <1>1 DEF StartPoll, EndPoll
  <2> QED
    BY <2>1, <2>2 DEF CallersKnow, records
<1>2. CASE FetchMail
  <2> DEFINE m == First(poller.todo)
  <2>1. CASE m \in inbox \ Poison /\ poller' = [poller EXCEPT !.pc = "pdf", !.mail = m, !.left = Attached[m]]
    <3> HIDE DEF m
    <3> QED
      BY <1>2, <2>1 DEF FetchMail, CallersKnow, records
  <2>2. CASE poller' = [poller EXCEPT !.todo = @ \ {m}]
    <3> HIDE DEF m
    <3> QED
      BY <1>2, <2>2 DEF FetchMail, CallersKnow, records
  <2> QED
    BY <1>2, <2>1, <2>2 DEF FetchMail
<1>3. CASE FetchThrows
  BY <1>3 DEF FetchThrows, Fault, NoPoll, CallersKnow, records
<1>4. CASE IngestAttachment
  <2>1. PICK f \in poller.left : /\ Begin(Gmail, f)
                                 /\ poller' = [poller EXCEPT !.left = @ \ {f}]
    BY <1>4 DEF IngestAttachment
  <2>2. f \in Files /\ Gmail \in Callers
    BY <2>1 DEF Callers
  <2>3. up[Gmail].pc = "idle" /\ UNCHANGED <<records, inbox, arrived, processed, phase, budget>>
    BY <1>4 DEF IngestAttachment
  <2>4. up' \in [Callers -> [pc : Steps, file : Files \cup {None}]] /\ CallersKnow'
    BY <2>1, <2>2, <2>3, BeginInv
  <2> QED
    BY <2>1, <2>3, <2>4 DEF records
<1>5. CASE FinishMail
  BY <1>5 DEF FinishMail, CallersKnow, records
<1> QED
  BY <1>1, <1>2, <1>3, <1>4, <1>5

\* Mails, shutdown, crash and boot touch no record.
LEMMA LifeInv ==
  ASSUME IntakeInv,
         \/ \E m \in Mails : MailArrives(m) \/ MailLeaves(m)
         \/ Sigterm \/ CloseNext \/ CleanExit \/ Crash \/ Boot
  PROVE  IntakeInv'
<1> USE IntakeAssumption DEF IntakeInv, IntakeTypeOK, records, mail
<1>1. CASE \E m \in Mails : MailArrives(m) \/ MailLeaves(m)
  BY <1>1 DEF MailArrives, MailLeaves, CallersKnow
<1>2. CASE Sigterm \/ CloseNext \/ Boot
  BY <1>2 DEF Sigterm, CloseNext, Boot, CallersKnow
<1>3. CASE CleanExit \/ Crash
  BY <1>3 DEF CleanExit, Crash, Forget, NoCall, NoPoll, CallersKnow, Steps
<1> QED
  BY <1>1, <1>2, <1>3

\* IntakeInv is inductive.
LEMMA IntakeInvStep == IntakeInv /\ [Next]_vars => IntakeInv'
<1> SUFFICES ASSUME IntakeInv, [Next]_vars PROVE IntakeInv'
  OBVIOUS
<1>1. CASE \E c \in Callers : IngestStep(c) \/ IngestFails(c)
  BY <1>1, IngestStepInv
<1>2. CASE \E u \in Users, f \in Files : Upload(u, f)
  <2>1. PICK u \in Users, f \in Files : Upload(u, f)
    BY <1>2
  <2>2. u \in Callers
    BY DEF Callers
  <2>3. /\ up' \in [Callers -> [pc : Steps, file : Files \cup {None}]] /\ CallersKnow'
        /\ UNCHANGED <<records, inbox, arrived, processed, poller, phase, budget>>
    BY <2>1, <2>2, BeginInv DEF Upload, mail
  <2> QED
    BY <2>3 DEF IntakeInv, IntakeTypeOK, records
<1>3. CASE PollerStep
  BY <1>3, PollerInv
<1>4. CASE \/ \E m \in Mails : MailArrives(m) \/ MailLeaves(m)
           \/ Sigterm \/ CloseNext \/ CleanExit \/ Crash \/ Boot
  BY <1>4, LifeInv
<1>5. CASE UNCHANGED vars
  BY <1>5 DEF vars, records, mail, IntakeInv, IntakeTypeOK, CallersKnow
<1> QED
  BY <1>1, <1>2, <1>3, <1>4, <1>5 DEF Next

\* In every reachable state: the original of every recorded file is stored, no
\* file has two jobs, and of several callers with the same bytes at most one is
\* about to place the job (ingestFile.ts:47-74).
THEOREM FrontDoorKnows == Spec => []IntakeInv
BY IntakeInvInit, IntakeInvStep, PTL DEF Spec

-----------------------------------------------------------------------------
(* What is kept as long as nothing fails *)

Untouched == budget = [faults |-> 0, crashes |-> 0, stops |-> 0]

\* A step after which nothing has failed yet is no failure, shutdown or crash.
LEMMA UntouchedStep ==
  ASSUME IntakeInv, [Next]_vars, Untouched'
  PROVE  Untouched /\ ~Fault /\ ~Sigterm /\ ~Crash
<1> USE DEF IntakeInv, IntakeTypeOK, Untouched
<1>1. /\ budget.faults \in Nat /\ budget.crashes \in Nat /\ budget.stops \in Nat
      /\ budget'.faults = 0 /\ budget'.crashes = 0 /\ budget'.stops = 0
  OBVIOUS
<1>2. ~Fault
  BY <1>1 DEF Fault
<1>3. ~Sigterm /\ ~Crash
  BY <1>1 DEF Sigterm, Crash
<1>4. budget' = budget
  BY <1>2, <1>3 DEF Next, vars, IngestStep, Lookup, Store, Create, Enqueue, IngestFails,
    CallFails, Upload, MailArrives, MailLeaves, PollerStep, StartPoll, EndPoll, FetchMail,
    FetchThrows, IngestAttachment, FinishMail, CloseNext, CleanExit, Boot
<1> QED
  BY <1>2, <1>3, <1>4

\* A call of ingestFile loses neither its row nor its file.
LEMMA IngestDropsNothing ==
  ASSUME IntakeInv, NothingDropped, NEW c \in Callers, IngestStep(c), Untouched, Untouched'
  PROVE  NothingDropped'
<1> USE IntakeAssumption DEF IntakeInv, IntakeTypeOK, CallersKnow, Untouched
<1>n. /\ phase = "up" /\ phase' = phase /\ poller' = poller /\ processed' = processed
      /\ \A f \in rows : HandedOn(f)
      /\ RememberedMeansRecorded
      /\ poller.pc = "pdf" =>
           \A f \in Attached[poller.mail] \ NotPdf : f \in rows \/ Handling(f)
  BY DEF NothingDropped, IngestStep
<1>1. rows \subseteq rows'
  BY DEF IngestStep, Lookup, Store, Create, Enqueue, records
<1>2. ASSUME NEW f \in rows' PROVE HandedOn(f)'
  <2>1. CASE Lookup(c) \/ Store(c)
    BY <1>2, <1>n, <2>1 DEF Lookup, Store, Answer, Advance, records, HandedOn
  <2>2. CASE Create(c)
    <3>1. CASE up[c].file \in rows
      BY <1>2, <1>n, <2>2, <3>1 DEF Create, Answer, HandedOn
    <3>2. CASE up[c].file \notin rows
      BY <1>2, <1>n, <2>2, <3>2 DEF Create, Advance, HandedOn
    <3> QED
      BY <3>1, <3>2
  <2>3. CASE Enqueue(c)
    <3>1. /\ jobs' = [jobs EXCEPT ![up[c].file] = @ + 1]
          /\ up' = [up EXCEPT ![c] = NoCall]
          /\ rows' = rows
      BY <1>n, <2>3 DEF Enqueue, QueueOpen, Answer
    <3>2. CASE f = up[c].file
      BY <1>2, <3>1, <3>2 DEF HandedOn
    <3>3. CASE f # up[c].file
      BY <1>2, <1>n, <3>1, <3>3 DEF HandedOn
    <3> QED
      BY <3>2, <3>3
  <2> QED
    BY <2>1, <2>2, <2>3 DEF IngestStep
<1>3. ASSUME poller.pc = "pdf", NEW f \in Attached[poller.mail] \ NotPdf
      PROVE  f \in rows' \/ Handling(f)'
  <2>1. CASE f \in rows \/ f \in poller.left
    BY <1>1, <1>n, <2>1 DEF Handling
  <2>2. CASE up[Gmail].pc # "idle" /\ up[Gmail].file = f /\ c # Gmail
    <3>1. up'[Gmail] = up[Gmail]
      BY <2>2 DEF IngestStep, Lookup, Store, Create, Enqueue, Answer, Advance, Callers
    <3> QED
      BY <2>2, <3>1 DEF Handling
  <2>3. CASE up[Gmail].pc # "idle" /\ up[Gmail].file = f /\ c = Gmail
    <3>1. CASE Lookup(c) \/ Store(c)
      BY <2>3, <3>1 DEF Lookup, Store, Answer, Advance, records, Handling
    <3>2. CASE Create(c)
      BY <2>3, <3>2 DEF Create
    <3>3. CASE Enqueue(c)
      BY <2>3, <3>3 DEF Enqueue
    <3> QED
      BY <3>1, <3>2, <3>3 DEF IngestStep
  <2> QED
    BY <1>3, <1>n, <2>1, <2>2, <2>3 DEF Handling
<1>4. RememberedMeansRecorded'
  BY <1>1, <1>n DEF RememberedMeansRecorded
<1> QED
  BY <1>n, <1>2, <1>3, <1>4 DEF NothingDropped

\* The poller remembers a mail only when it has handed in all that it carries.
LEMMA PollerDropsNothing ==
  ASSUME IntakeInv, NothingDropped, PollerStep, Untouched, Untouched'
  PROVE  NothingDropped'
<1> USE IntakeAssumption DEF IntakeInv, IntakeTypeOK, CallersKnow, Untouched
<1>n. /\ phase = "up" /\ phase' = phase /\ UNCHANGED records
      /\ \A f \in rows : HandedOn(f)
      /\ RememberedMeansRecorded
      /\ poller.pc = "pdf" =>
           \A f \in Attached[poller.mail] \ NotPdf : f \in rows \/ Handling(f)
  BY DEF NothingDropped, PollerStep
<1>1. CASE StartPoll \/ EndPoll \/ FetchThrows
  <2>1. poller'.pc # "pdf" /\ up' = up /\ processed' = processed
    <3>1. CASE StartPoll
      BY <3>1 DEF StartPoll, NoPoll
    <3>2. CASE EndPoll
      BY <3>2 DEF EndPoll, NoPoll
    <3>3. CASE FetchThrows
      BY <3>3 DEF FetchThrows, NoPoll
    <3> QED
      BY <1>1, <3>1, <3>2, <3>3
  <2> QED
    BY <1>n, <2>1 DEF NothingDropped, records, HandedOn, RememberedMeansRecorded
<1>2. CASE FetchMail
  <2> DEFINE m == First(poller.todo)
  <2>1. up' = up /\ processed' = processed
    BY <1>2 DEF FetchMail
  <2>2. ASSUME poller'.pc = "pdf", NEW f \in Attached[poller'.mail] \ NotPdf
        PROVE  Handling(f)'
    BY <1>2, <2>2 DEF FetchMail, Handling
  <2> QED
    BY <1>n, <2>1, <2>2 DEF NothingDropped, records, HandedOn, RememberedMeansRecorded
<1>3. CASE IngestAttachment
  <2>1. PICK g \in poller.left : /\ Begin(Gmail, g)
                                 /\ poller' = [poller EXCEPT !.left = @ \ {g}]
    BY <1>3 DEF IngestAttachment
  <2>2. up[Gmail].pc = "idle" /\ processed' = processed /\ poller.pc = "pdf" /\ Gmail \in Callers
    BY <1>3 DEF IngestAttachment, Callers
  <2>3. \A f \in rows : HandedOn(f)'
    BY <1>n, <2>1, <2>2 DEF HandedOn, Begin, records, NoCall
  <2>4. ASSUME NEW f \in Attached[poller.mail] \ NotPdf
        PROVE  f \in rows \/ Handling(f)'
    <3>1. CASE f = g
      BY <2>1, <2>2, <2>4, <3>1 DEF Begin, Handling
    <3>2. CASE f # g
      BY <1>n, <2>1, <2>2, <2>4, <3>2 DEF Handling
    <3> QED
      BY <3>1, <3>2
  <2> QED
    BY <1>n, <2>1, <2>2, <2>3, <2>4 DEF NothingDropped, records, RememberedMeansRecorded
<1>4. CASE FinishMail
  <2>1. \A f \in Attached[poller.mail] \ NotPdf : f \in rows
    BY <1>n, <1>4 DEF FinishMail, Handling
  <2>2. /\ processed' = processed \cup {poller.mail}
        /\ poller'.pc = "mail" /\ up' = up
    BY <1>4 DEF FinishMail
  <2> QED
    BY <1>n, <2>1, <2>2 DEF NothingDropped, records, HandedOn, RememberedMeansRecorded
<1> QED
  BY <1>1, <1>2, <1>3, <1>4 DEF PollerStep

\* NothingDropped is inductive relative to IntakeInv.
LEMMA NothingDroppedStep ==
  ASSUME IntakeInv, NothingDropped, [Next]_vars
  PROVE  NothingDropped'
<1> SUFFICES ASSUME Untouched' PROVE NothingDropped'
  BY DEF NothingDropped, Untouched
<1>0. Untouched /\ ~Fault /\ ~Sigterm /\ ~Crash
  BY UntouchedStep
<1>u. /\ phase = "up"
      /\ \A f \in rows : HandedOn(f)
      /\ RememberedMeansRecorded
      /\ poller.pc = "pdf" =>
           \A f \in Attached[poller.mail] \ NotPdf : f \in rows \/ Handling(f)
  BY <1>0 DEF NothingDropped, Untouched
<1>1. CASE \E c \in Callers : IngestStep(c)
  BY <1>0, <1>1, IngestDropsNothing
<1>2. CASE PollerStep
  BY <1>0, <1>2, PollerDropsNothing
<1>3. CASE \E u \in Users, f \in Files : Upload(u, f)
  <2>1. PICK u \in Users, f \in Files : Upload(u, f)
    BY <1>3
  <2>2. /\ u # Gmail /\ u \in Callers /\ Gmail \in Callers
        /\ up[u].pc = "idle" /\ UNCHANGED <<rows, jobs, processed, poller, phase>>
        /\ \A c \in Callers \ {u} : up'[c] = up[c]
    BY <2>1, IntakeAssumption DEF Upload, Begin, records, Callers, IntakeInv, IntakeTypeOK
  <2>3. \A g \in rows : HandedOn(g)'
    BY <1>u, <2>2 DEF HandedOn
  <2> QED
    BY <1>u, <2>2, <2>3 DEF NothingDropped, RememberedMeansRecorded, Handling
<1>4. CASE \/ \E m \in Mails : MailArrives(m) \/ MailLeaves(m)
           \/ UNCHANGED vars
  BY <1>u, <1>4 DEF MailArrives, MailLeaves, vars, records, NothingDropped, HandedOn,
    RememberedMeansRecorded, Handling
<1>5. ~CloseNext /\ ~CleanExit /\ ~Boot /\ ~\E c \in Callers : IngestFails(c)
  BY <1>0, <1>u DEF CloseNext, CleanExit, Boot, IngestFails, CallFails
<1> QED
  BY <1>0, <1>1, <1>2, <1>3, <1>4, <1>5 DEF Next

\* For any users, mails and files: until a call fails or the process stops, a
\* file is with the poller, in a call, recorded or queued, from the mail it came
\* with to its job (gmailPoller.ts, ingestFile.ts).
THEOREM NothingSlips == Spec => []NothingDropped
<1>1. Init => NothingDropped
  BY DEF Init, NothingDropped, NoPoll, RememberedMeansRecorded
<1>2. IntakeInv /\ NothingDropped /\ [Next]_vars => NothingDropped'
  BY NothingDroppedStep
<1> QED
  BY <1>1, <1>2, FrontDoorKnows, PTL DEF Spec

\* For any users, mails and files: until a call fails or the process stops, the
\* attachments of a remembered mail are recorded (gmailPoller.ts:118-119) and a
\* recorded file is queued once nobody is handing it in (gmailPoller.ts:22-23).
THEOREM NothingLost == Spec => []NothingLostWithoutFailures
<1>1. NothingDropped => NothingLostWithoutFailures
  BY DEF NothingDropped, NothingLostWithoutFailures, RecordedMeansQueued, HandedOn,
    RememberedMeansRecorded
<1> QED
  BY <1>1, NothingSlips, PTL

-----------------------------------------------------------------------------
(* What a failure costs *)

\* The files that the poller has let go of without a row: those of remembered
\* mails, and those of the mail it is at.
Dropped == {f \in Files \ NotPdf :
  /\ f \notin rows
  /\ \/ Remembered(f)
     \/ poller.pc = "pdf" /\ f \in Attached[poller.mail] /\ ~Handling(f)}

DroppedCounted == IsFiniteSet(Dropped) /\ Cardinality(Dropped) <= budget.faults

\* No caller of ingestFile but the poller changes what the poller has in hand.
LEMMA HandlingKept ==
  ASSUME NEW f, up'[Gmail] = up[Gmail], poller' = poller
  PROVE  Handling(f)' = Handling(f)
BY DEF Handling

\* A call of ingestFile that does not fail records its file or goes on.
LEMMA IngestDropsNoFile ==
  ASSUME IntakeInv, NEW c \in Callers, IngestStep(c), NEW f \in Dropped'
  PROVE  f \in Dropped
<1> USE DEF IntakeInv, IntakeTypeOK, CallersKnow
<1>1. /\ f \in Files \ NotPdf /\ f \notin rows' /\ f \notin rows
      /\ poller' = poller /\ processed' = processed
  BY DEF Dropped, IngestStep, Lookup, Store, Create, Enqueue, records
<1>2. CASE Remembered(f)
  BY <1>1, <1>2 DEF Dropped
<1>3. CASE ~Remembered(f)
  <2>1. poller.pc = "pdf" /\ f \in Attached[poller.mail] /\ ~Handling(f)'
    BY <1>1, <1>3 DEF Dropped, Remembered
  <2>2. CASE c # Gmail
    <3>1. up'[Gmail] = up[Gmail]
      BY <2>2 DEF IngestStep, Lookup, Store, Create, Enqueue, Answer, Advance, Callers
    <3> QED
      BY <1>1, <2>1, <3>1, HandlingKept DEF Dropped
  <2>3. CASE c = Gmail
    <3> SUFFICES ASSUME up[Gmail].pc # "idle", up[Gmail].file = f PROVE FALSE
      BY <1>1, <2>1 DEF Dropped, Handling
    <3>1. CASE Lookup(c) \/ Store(c)
      BY <1>1, <2>1, <2>3, <3>1 DEF Lookup, Store, Answer, Advance, records, Handling
    <3>2. CASE Create(c)
      BY <1>1, <2>3, <3>2 DEF Create
    <3>3. CASE Enqueue(c)
      BY <1>1, <2>3, <3>3 DEF Enqueue
    <3> QED
      BY <3>1, <3>2, <3>3 DEF IngestStep
  <2> QED
    BY <2>2, <2>3
<1> QED
  BY <1>2, <1>3

\* The poller lets go of a mail when it has handed in every attachment.
LEMMA PollerDropsNoFile ==
  ASSUME IntakeInv, PollerStep, NEW f \in Dropped'
  PROVE  f \in Dropped
<1> USE IntakeAssumption DEF IntakeInv, IntakeTypeOK, CallersKnow
<1>1. f \in Files \ NotPdf /\ f \notin rows /\ rows' = rows
  BY DEF Dropped, PollerStep, records
<1>2. CASE StartPoll \/ EndPoll \/ FetchThrows
  <2>1. CASE StartPoll
    BY <1>1, <2>1 DEF StartPoll, NoPoll, Dropped, Remembered
  <2>2. CASE EndPoll
    BY <1>1, <2>2 DEF EndPoll, NoPoll, Dropped, Remembered
  <2>3. CASE FetchThrows
    BY <1>1, <2>3 DEF FetchThrows, NoPoll, Dropped, Remembered
  <2> QED
    BY <1>2, <2>1, <2>2, <2>3
<1>3. CASE FetchMail
  <2>1. poller'.pc = "pdf" => \A g \in Attached[poller'.mail] : Handling(g)'
    BY <1>3 DEF FetchMail, Handling
  <2>2. Remembered(f)'
    BY <2>1 DEF Dropped
  <2> QED
    BY <1>1, <1>3, <2>2 DEF FetchMail, Dropped, Remembered
<1>4. CASE IngestAttachment
  <2>1. PICK g \in poller.left : /\ Begin(Gmail, g)
                                 /\ poller' = [poller EXCEPT !.left = @ \ {g}]
    BY <1>4 DEF IngestAttachment
  <2>2. up[Gmail].pc = "idle" /\ processed' = processed /\ poller.pc = "pdf" /\ Gmail \in Callers
    BY <1>4 DEF IngestAttachment, Callers
  <2>3. Handling(f) => Handling(f)'
    <3>1. CASE f = g
      BY <1>1, <2>1, <2>2, <3>1 DEF Begin, Handling
    <3>2. CASE f # g
      BY <2>1, <2>2, <3>2 DEF Handling
    <3> QED
      BY <3>1, <3>2
  <2> QED
    BY <1>1, <2>1, <2>2, <2>3 DEF Dropped, Remembered
<1>5. CASE FinishMail
  <2>1. /\ poller.pc = "pdf" /\ ~Handling(f)
        /\ poller'.pc = "mail" /\ processed' = processed \cup {poller.mail}
    BY <1>5 DEF FinishMail, Handling
  <2> QED
    BY <1>1, <2>1 DEF Dropped, Remembered
<1> QED
  BY <1>2, <1>3, <1>4, <1>5 DEF PollerStep

\* A step drops nothing, or it is the failure of one call of the poller, and
\* drops the file that the call was for.
LEMMA DroppedByFailure ==
  ASSUME IntakeInv, [Next]_vars
  PROVE  \/ Dropped' \subseteq Dropped /\ budget'.faults >= budget.faults
         \/ /\ Dropped' \subseteq Dropped \cup {up[Gmail].file}
            /\ budget'.faults = budget.faults + 1
<1> USE IntakeAssumption DEF IntakeInv, IntakeTypeOK
<1>1. CASE \E c \in Callers : IngestStep(c)
  <2>1. budget' = budget
    BY <1>1 DEF IngestStep, Lookup, Store, Create, Enqueue
  <2> QED
    BY <1>1, <2>1, IngestDropsNoFile
<1>2. CASE PollerStep
  <2>1. budget'.faults >= budget.faults
    BY <1>2 DEF PollerStep, StartPoll, EndPoll, FetchMail, FetchThrows, IngestAttachment,
      FinishMail, Fault
  <2> QED
    BY <1>2, <2>1, PollerDropsNoFile
<1>3. CASE \E c \in Callers : IngestFails(c)
  <2>1. PICK c \in Callers : IngestFails(c)
    BY <1>3
  <2>2. /\ budget'.faults = budget.faults + 1
        /\ UNCHANGED <<rows, processed, poller>>
        /\ up' = [up EXCEPT ![c] = NoCall]
    BY <2>1 DEF IngestFails, CallFails, Fault, Answer, records
  <2>3. \A f : Handling(f) => Handling(f)' \/ f = up[Gmail].file
    BY <2>2 DEF Handling, Callers
  <2> QED
    BY <2>2, <2>3 DEF Dropped, Remembered
<1>4. CASE \E u \in Users, f \in Files : Upload(u, f)
  <2>1. PICK u \in Users, f \in Files : Upload(u, f)
    BY <1>4
  <2>2. up'[Gmail] = up[Gmail] /\ UNCHANGED <<rows, processed, poller, budget>>
    BY <2>1 DEF Upload, Begin, records, Callers
  <2> QED
    BY <2>2, HandlingKept DEF Dropped, Remembered
<1>5. CASE \/ \E m \in Mails : MailArrives(m) \/ MailLeaves(m)
           \/ Sigterm \/ CloseNext \/ Boot \/ UNCHANGED vars
  <2>1. UNCHANGED <<rows, up, processed, poller>> /\ budget'.faults = budget.faults
    BY <1>5 DEF MailArrives, MailLeaves, Sigterm, CloseNext, Boot, vars, records
  <2> QED
    BY <2>1, HandlingKept DEF Dropped, Remembered
<1>6. CASE CleanExit \/ Crash
  <2>1. /\ processed' = {} /\ poller'.pc = "idle"
        /\ budget'.faults = budget.faults
    BY <1>6 DEF CleanExit, Crash, Forget, NoPoll
  <2> QED
    BY <2>1 DEF Dropped, Remembered
<1> QED
  BY <1>1, <1>2, <1>3, <1>4, <1>5, <1>6 DEF Next

\* So the files dropped are counted by the failures.
LEMMA DroppedCountedStep ==
  ASSUME IntakeInv, IntakeInv', DroppedCounted, [Next]_vars
  PROVE  DroppedCounted'
<1>1. budget.faults \in Nat /\ budget'.faults \in Nat
  BY DEF IntakeInv, IntakeTypeOK
<1>2. IsFiniteSet(Dropped) /\ Cardinality(Dropped) \in Nat /\ Cardinality(Dropped) <= budget.faults
  BY FS_CardinalityType DEF DroppedCounted
<1>3. CASE Dropped' \subseteq Dropped /\ budget'.faults >= budget.faults
  <2>1. /\ IsFiniteSet(Dropped') /\ Cardinality(Dropped') \in Nat
        /\ Cardinality(Dropped') <= Cardinality(Dropped)
    BY <1>2, <1>3, FS_Subset, FS_CardinalityType
  <2> QED
    BY <1>1, <1>2, <1>3, <2>1 DEF DroppedCounted
<1>4. CASE /\ Dropped' \subseteq Dropped \cup {up[Gmail].file}
           /\ budget'.faults = budget.faults + 1
  <2> DEFINE more == Dropped \cup {up[Gmail].file}
  <2>1. /\ IsFiniteSet(more) /\ Cardinality(more) \in Nat
        /\ Cardinality(more) <= Cardinality(Dropped) + 1
    <3>1. /\ IsFiniteSet(more)
          /\ \/ Cardinality(more) = Cardinality(Dropped)
             \/ Cardinality(more) = Cardinality(Dropped) + 1
      BY <1>2, FS_AddElement
    <3> HIDE DEF more
    <3> QED
      BY <1>2, <3>1
  <2>2. /\ IsFiniteSet(Dropped') /\ Cardinality(Dropped') \in Nat
        /\ Cardinality(Dropped') <= Cardinality(more)
    BY <1>4, <2>1, FS_Subset, FS_CardinalityType
  <2> HIDE DEF more
  <2> QED
    BY <1>1, <1>2, <1>4, <2>1, <2>2 DEF DroppedCounted
<1> QED
  BY <1>3, <1>4, DroppedByFailure

\* For any mails, users, crashes and shutdowns: as many files of remembered
\* mails are missing as calls have failed, at most (gmailPoller.ts:96-120).
THEOREM FailuresCost == Spec => []EachFailureCostsOneFile
<1>1. Init => DroppedCounted
  <2> SUFFICES ASSUME Init PROVE DroppedCounted
    OBVIOUS
  <2>1. Dropped = {} /\ budget.faults = 0
    BY DEF Init, Dropped, Remembered, NoPoll
  <2> QED
    BY <2>1, FS_EmptySet DEF DroppedCounted
<1>2. IntakeInv /\ IntakeInv' /\ DroppedCounted /\ [Next]_vars => DroppedCounted'
  BY DroppedCountedStep
<1>3. IntakeInv /\ DroppedCounted => EachFailureCostsOneFile
  <2> SUFFICES ASSUME IntakeInv, DroppedCounted PROVE EachFailureCostsOneFile
    OBVIOUS
  <2> DEFINE missing == {f \in Files \ NotPdf : f \notin rows /\ Remembered(f)}
  <2>1. missing \subseteq Dropped
    BY DEF Dropped
  <2>2. Cardinality(missing) \in Nat /\ Cardinality(missing) <= Cardinality(Dropped)
    BY <2>1, FS_Subset, FS_CardinalityType DEF DroppedCounted
  <2>3. Cardinality(Dropped) \in Nat /\ budget.faults \in Nat
    BY FS_CardinalityType DEF DroppedCounted, IntakeInv, IntakeTypeOK
  <2> QED
    BY <2>2, <2>3 DEF DroppedCounted, EachFailureCostsOneFile
<1> QED
  BY <1>1, <1>2, <1>3, FrontDoorKnows, PTL DEF Spec

-----------------------------------------------------------------------------
(* The refinement *)

\* Whatever leaves rows, originals and jobs alone is no step of Admission.
LEMMA DoorStutters ==
  ASSUME UNCHANGED records
  PROVE  UNCHANGED <<stored, Admitted>>
BY DEF records, Admitted, Standing

\* storage.putObject keeps the original (ingestFile.ts:55-58).
LEMMA DoorStore ==
  ASSUME IntakeInv, NEW c \in Callers, Store(c)
  PROVE  \E f \in Files : Door!Keep(f)
<1>1. up[c].file \in Files
  BY DEF IntakeInv, IntakeTypeOK, CallersKnow, Store
<1>2. Admitted' = Admitted
  BY DEF Store, Admitted, Standing
<1> QED
  BY <1>1, <1>2 DEF Store, Door!Keep

\* The row is written once, for a file whose original is kept.
LEMMA DoorCreate ==
  ASSUME IntakeInv, NEW c \in Callers, Create(c)
  PROVE  UNCHANGED records \/ \E f \in Files : Door!Record(f)
<1> DEFINE f == up[c].file
<1>1. f \in Files /\ f \in stored
  BY DEF IntakeInv, IntakeTypeOK, CallersKnow, Create
<1>2. CASE f \in rows
  BY <1>2 DEF Create, records
<1>3. CASE f \notin rows
  <2>1. rows' = rows \cup {f} /\ stored' = stored /\ jobs' = jobs
    BY <1>3 DEF Create
  <2>2. jobs[f] = 0
    BY <1>1, <1>3 DEF IntakeInv, IntakeTypeOK
  <2>3. Admitted[f] = "out"
    BY <1>1, <1>3, <2>2 DEF Admitted, Standing
  <2>4. \A g \in Files : Standing(g)' = IF g = f THEN "recorded" ELSE Standing(g)
    BY <1>1, <2>1, <2>2 DEF Standing
  <2>5. Admitted' = [Admitted EXCEPT ![f] = "recorded"]
    BY <1>1, <2>4 DEF Admitted
  <2> QED
    BY <1>1, <2>1, <2>3, <2>5 DEF Door!Record
<1> QED
  BY <1>2, <1>3

\* queue.add is reached for a row without a job, or it fails.
LEMMA DoorEnqueue ==
  ASSUME IntakeInv, NEW c \in Callers, Enqueue(c)
  PROVE  UNCHANGED records \/ \E f \in Files : Door!PlaceJob(f)
<1> DEFINE f == up[c].file
<1>1. f \in Files /\ f \in rows /\ jobs[f] = 0
  BY DEF IntakeInv, IntakeTypeOK, CallersKnow, Enqueue
<1>2. CASE ~QueueOpen
  BY <1>2 DEF Enqueue, records
<1>3. CASE QueueOpen
  <2>1. rows' = rows /\ stored' = stored /\ jobs' = [jobs EXCEPT ![f] = @ + 1]
    BY <1>3 DEF Enqueue
  <2>2. jobs'[f] = 1 /\ \A g \in Files \ {f} : jobs'[g] = jobs[g]
    BY <1>1, <2>1 DEF IntakeInv, IntakeTypeOK
  <2>3. Admitted[f] = "recorded"
    BY <1>1 DEF Admitted, Standing
  <2>4. \A g \in Files : Standing(g)' = IF g = f THEN "queued" ELSE Standing(g)
    BY <1>1, <2>1, <2>2 DEF Standing
  <2>5. Admitted' = [Admitted EXCEPT ![f] = "queued"]
    BY <1>1, <2>4 DEF Admitted
  <2> QED
    BY <1>1, <2>1, <2>3, <2>5 DEF Door!PlaceJob
<1> QED
  BY <1>2, <1>3

\* Every step of Intake is a step of Admission or a stutter.
LEMMA DoorStep ==
  ASSUME IntakeInv, [Next]_vars
  PROVE  [Door!ANext]_<<stored, Admitted>>
<1>1. ASSUME NEW c \in Callers, Lookup(c) \/ CallFails(c)
      PROVE  UNCHANGED records
  BY <1>1 DEF Lookup, CallFails
<1>2. ASSUME NEW c \in Callers, IngestStep(c) \/ IngestFails(c)
      PROVE  UNCHANGED records \/ Door!ANext
  BY <1>1, <1>2, DoorStore, DoorCreate, DoorEnqueue DEF IngestStep, IngestFails, Door!ANext
<1>3. ASSUME \/ \E u \in Users, f \in Files : Upload(u, f)
             \/ \E m \in Mails : MailArrives(m) \/ MailLeaves(m)
             \/ PollerStep \/ Sigterm \/ CloseNext \/ CleanExit \/ Crash \/ Boot
             \/ UNCHANGED vars
      PROVE  UNCHANGED records
  BY <1>3 DEF Upload, MailArrives, MailLeaves, PollerStep, Sigterm, CloseNext, CleanExit,
    Crash, Boot, vars
<1>4. UNCHANGED records \/ Door!ANext
  BY <1>2, <1>3 DEF Next
<1> QED
  BY <1>4, DoorStutters

\* The front door of ingestFile implements Admission: every source goes through
\* one door, which keeps the original, records a file once and queues it once.
THEOREM OneDoor == Spec => KeepsOneDoor
<1>1. Init => Door!AInit
  BY DEF Init, Door!AInit, Admitted, Standing
<1>2. IntakeInv /\ [Next]_vars => [Door!ANext]_<<stored, Admitted>>
  BY DoorStep
<1> QED
  BY <1>1, <1>2, FrontDoorKnows, PTL DEF Spec, KeepsOneDoor, Door!ASpec
=============================================================================
