---------------------------- MODULE InboxProofs ----------------------------
(***************************************************************************)
(* Proofs about Inbox, for any people, tabs, calls, documents and bounds:  *)
(* a name on a task is the name of who decided it, and the buttons of the  *)
(* inbox are honest.                                                       *)
(***************************************************************************)
EXTENDS Inbox, TLAPS

\* The two columns that say what a document was verified as never change.
Frozen == extraction = Read /\ erpInvoiceId = Waiting

\* A decision in the ERP taken with the authority `by`; it stands for good.
Stands(n, by) == invoice[n].status \in Decided /\ decidedBy[n] = by

\* What the handler of a call knows while it runs.
CallsKnow == \A u \in Users : req[u].pc # "idle" =>
  /\ click[u].answer = "waiting"
  /\ req[u].doc \in Docs
  /\ req[u].invoice = Waiting[req[u].doc]
  /\ req[u].pc = "decide" => Role[u] \in Authority \cup {None}
  /\ req[u].pc \in {"decide", "refused"} => req[u].outcome \in {"APPROVED", "REJECTED"}
  /\ req[u].pc \in {"task", "doc"} => req[u].outcome \in Decided

\* A call that will put its user's name on the task took the decision itself.
DecidersKnow == \A u \in Users :
  req[u].pc = "task" /\ ~click[u].synced => Stands(req[u].invoice, Role[u])

NamesStand == \A d \in Docs :
  recordedBy[d] \in People => Stands(Waiting[d], PersonRole[recordedBy[d]])

\* Only an open tab waits for a call.
CallersOpen == \A u \in Users : click[u].tab # None => tab[click[u].tab].open

\* The part of ButtonsAreHonest beside the types.
Honest == \A u \in Users :
  click[u].tab \in Inboxes /\ click[u].answer = "forbidden" =>
    tab[click[u].tab].user # Owner[u]

InboxInv ==
  InboxTypeOK /\ Frozen /\ CallsKnow /\ DecidersKnow /\ NamesStand /\ CallersOpen /\ Honest

-----------------------------------------------------------------------------
(* What the steps change *)

\* Steps of the browser that reach no handler.
BrowserStep ==
  \/ \E t \in Tabs : SignOut(t) \/ Open(t) \/ Poll(t)
  \/ \E t \in Tabs, p \in People : SignIn(t, p)
  \/ \E t \in Tabs, x \in PollAnswers : Receive(t, x) \/ PollFails(t, x)
  \/ \E u \in Users, t \in Tabs, d \in Docs : ClickRefused(u, t, d)
  \/ \E u \in Users : AnswerArrives(u)
  \/ Expire

\* Every step is one of the browser, a click that is taken up, a step of a
\* handler or one of the ERP's users.
LEMMA NextSteps ==
  ASSUME Next
  PROVE  \/ BrowserStep
         \/ \E u \in Users, t \in Tabs, d \in Docs : Click(u, t, d)
         \/ \E u \in Users : Serve(u) \/ ServeFails(u)
         \/ ErpUsers
BY DEF Next, BrowserStep

\* A step of the browser leaves the server alone.
LEMMA BrowserFrame ==
  ASSUME BrowserStep
  PROVE  /\ UNCHANGED <<workflowVars, erpVars, req, recordedBy>>
         /\ faults' = faults \/ Fault
<1>1. CASE \E t \in Tabs, x \in PollAnswers : PollFails(t, x)
  BY <1>1 DEF PollFails
<1>2. CASE \E u \in Users, t \in Tabs, d \in Docs : ClickRefused(u, t, d)
  BY <1>2 DEF ClickRefused, Pressed, serverVars
<1>3. CASE \E t \in Tabs, x \in PollAnswers : Receive(t, x)
  BY <1>3 DEF Receive, serverVars
<1>4. CASE \E u \in Users : AnswerArrives(u)
  BY <1>4 DEF AnswerArrives, serverVars
<1>5. CASE \E t \in Tabs : SignOut(t) \/ Open(t) \/ Poll(t)
  BY <1>5 DEF SignOut, Open, Poll, serverVars
<1>6. CASE (\E t \in Tabs, p \in People : SignIn(t, p)) \/ Expire
  BY <1>6 DEF SignIn, Expire, serverVars
<1> QED
  BY <1>1, <1>2, <1>3, <1>4, <1>5, <1>6 DEF BrowserStep

\* A click that is taken up only starts a handler.
LEMMA ClickFrame ==
  ASSUME NEW u \in Users, NEW t \in Tabs, NEW d \in Docs, Click(u, t, d)
  PROVE  UNCHANGED <<workflowVars, faults, erpVars, recordedBy, session, poll>>
BY DEF Click, Pressed, ReadTask, ReadForPayment

\* A step of a handler: which of its steps writes which record.
LEMMA ServeFrame ==
  ASSUME NEW u \in Users, Serve(u) \/ ServeFails(u)
  PROVE  /\ UNCHANGED <<erpInvoiceId, extraction, session, tab, poll>>
         /\ faults' = faults \/ Fault
         /\ task' = task \/ RecordTask(u)
         /\ status' = status \/ RecordDecision(u) \/ RecordPayment(u)
         /\ UNCHANGED erpVars \/ DecideInErp(u) \/ PayInErp(u)
BY DEF Serve, ServeFails, Served, RequestStep, RequestFails, DecideInErp, DecisionRefused,
  ReadActual, RecordTask, RecordDecision, PayInErp, PaymentRefused, RecordPayment,
  workflowVars, erpVars, Decide, createPayment

\* A decision of the ERP about one invoice leaves those that stand.
LEMMA DecideStands ==
  ASSUME ErpTypeOK, NEW n \in Invoices, NEW by, Stands(n, by),
         NEW m, NEW s, NEW other, Decide(m, s, other)
  PROVE  Stands(n, by)'
BY DEF Stands, Decide, Accepts, Decided, Undecided, ErpTypeOK, Invoice

\* So does a payment.
LEMMA PaymentStands ==
  ASSUME ErpTypeOK, NEW n \in Invoices, NEW by, Stands(n, by),
         NEW m, NEW amount, createPayment(m, amount)
  PROVE  Stands(n, by)'
BY DEF Stands, createPayment, Decided, ErpTypeOK, Invoice

\* Whatever happens, a decision that was taken stands.
LEMMA StandsStay ==
  ASSUME InboxTypeOK, Next, NEW n \in Invoices, NEW by, Stands(n, by)
  PROVE  Stands(n, by)'
<1>1. ErpTypeOK
  BY DEF InboxTypeOK
<1>2. CASE UNCHANGED erpVars
  BY <1>2 DEF Stands, erpVars
<1>3. CASE \E u \in Users : Serve(u) \/ ServeFails(u)
  <2>1. PICK u \in Users : UNCHANGED erpVars \/ DecideInErp(u) \/ PayInErp(u)
    BY <1>3, ServeFrame
  <2> QED
    BY <1>1, <1>2, <2>1, DecideStands, PaymentStands DEF DecideInErp, PayInErp
<1>4. CASE ErpUsers
  BY <1>1, <1>4, DecideStands, PaymentStands DEF ErpUsers, DirectInErp
<1> QED
  BY <1>2, <1>3, <1>4, NextSteps, BrowserFrame, ClickFrame

-----------------------------------------------------------------------------
(* Types *)

\* A decision of the ERP keeps its types.
LEMMA DecideTypes ==
  ASSUME ErpTypeOK, NEW n \in Invoices, NEW s \in Decided,
         NEW by \in Authority \cup {None}, Decide(n, s, by)
  PROVE  ErpTypeOK'
<1>1. invoice' \in [Invoices -> Invoice]
  BY DEF Decide, ErpTypeOK, Invoice, InvoiceStatus, Decided
<1>2. orderStatus' \in [Orders -> {"OPEN", "MATCHED", "CLOSED"}]
  BY DEF Decide, ErpTypeOK
<1>3. raisedBy' = raisedBy /\ decidedBy' \in [Invoices -> Authority \cup {None}]
  BY DEF Decide, ErpTypeOK
<1> QED
  BY <1>1, <1>2, <1>3 DEF ErpTypeOK

\* So does a payment.
LEMMA PaymentTypes ==
  ASSUME ErpTypeOK, NEW n \in Invoices, NEW a \in Int, createPayment(n, a)
  PROVE  ErpTypeOK'
<1> DEFINE paid == [invoice[n] EXCEPT !.status = "PAID", !.paid = a]
<1>1. paid \in Invoice
  BY DEF ErpTypeOK, Invoice, InvoiceStatus, Decided
<1>2. invoice' = [invoice EXCEPT ![n] = paid]
  BY DEF createPayment
<1>3. invoice' \in [Invoices -> Invoice]
  <2> HIDE DEF paid
  <2> QED
    BY <1>1, <1>2 DEF ErpTypeOK
<1>4. orderStatus' \in [Orders -> {"OPEN", "MATCHED", "CLOSED"}]
  BY DEF createPayment, ErpTypeOK
<1> QED
  BY <1>3, <1>4 DEF createPayment, ErpTypeOK

\* The types of the rows and of the ERP's records are kept.
LEMMA ServerTypeStep ==
  ASSUME InboxTypeOK, Frozen, CallsKnow, Next
  PROVE  (WorkflowTypeOK /\ ErpTypeOK)'
<1> USE DEF InboxTypeOK
<1>1. CASE UNCHANGED <<workflowVars, erpVars>> /\ (faults' = faults \/ Fault)
  BY <1>1, ReadingsAssumption DEF workflowVars, erpVars, WorkflowTypeOK, ErpTypeOK, Fault
<1>2. ASSUME NEW u \in Users, Serve(u) \/ ServeFails(u)
      PROVE  (WorkflowTypeOK /\ ErpTypeOK)'
  <2>1. WorkflowTypeOK'
    <3>1. faults' \in 0 .. MaxFaults
      BY <1>2, ServeFrame, ReadingsAssumption DEF Fault, WorkflowTypeOK
    <3>2. task' \in [Docs -> Task]
      <4>1. CASE task' = task
        BY <4>1 DEF WorkflowTypeOK
      <4>2. CASE RecordTask(u)
        <5>1. PICK s \in {"APPROVED", "REJECTED"} : task' = [task EXCEPT ![req[u].doc].status = s]
          BY <4>2 DEF RecordTask
        <5>2. req[u].doc \in Docs
          BY <4>2 DEF RecordTask, CallsKnow
        <5>3. [task[req[u].doc] EXCEPT !.status = s] \in Task
          BY <5>2 DEF WorkflowTypeOK, Task, ApprovalStatus
        <5> QED
          BY <5>1, <5>3 DEF WorkflowTypeOK
      <4> QED
        BY <1>2, <4>1, <4>2, ServeFrame
    <3>3. status' \in [Docs -> DocStatus]
      <4>1. CASE status' = status
        BY <4>1 DEF WorkflowTypeOK
      <4>2. CASE RecordDecision(u)
        BY <4>2 DEF RecordDecision, setStatus, CallsKnow, Decided, WorkflowTypeOK, DocStatus
      <4>3. CASE RecordPayment(u)
        BY <4>3 DEF RecordPayment, setStatus, WorkflowTypeOK, DocStatus
      <4> QED
        BY <1>2, <4>1, <4>2, <4>3, ServeFrame
    <3> QED
      BY <1>2, <3>1, <3>2, <3>3, ServeFrame DEF WorkflowTypeOK
  <2>2. ErpTypeOK'
    <3>1. CASE UNCHANGED erpVars
      BY <3>1 DEF erpVars, ErpTypeOK
    <3>2. CASE DecideInErp(u)
      <4>1. /\ req[u].invoice \in Invoices /\ req[u].outcome \in Decided
            /\ Role[u] \in Authority \cup {None}
        BY <3>2, PeopleAssumption DEF DecideInErp, CallsKnow, Decided
      <4> QED
        BY <3>2, <4>1, DecideTypes DEF DecideInErp
    <3>3. CASE PayInErp(u)
      <4>1. req[u].invoice \in Invoices /\ extraction[req[u].doc].amount \in Int
        BY <3>3, ReadingsAssumption, PeopleAssumption DEF PayInErp, CallsKnow, Frozen
      <4> QED
        BY <3>3, <4>1, PaymentTypes DEF PayInErp
    <3> QED
      BY <1>2, <3>1, <3>2, <3>3, ServeFrame
  <2> QED
    BY <2>1, <2>2
<1>3. CASE ErpUsers
  <2>1. WorkflowTypeOK'
    BY <1>3 DEF ErpUsers, DirectInErp, workflowVars, WorkflowTypeOK
  <2>2. ErpTypeOK'
    <3>1. PICK n \in Invoices :
            \/ \E s \in DirectDecisions \cap {"APPROVED", "REJECTED"} : Decide(n, s, "ERP")
            \/ createPayment(n, invoice[n].amount)
      BY <1>3 DEF ErpUsers, DirectInErp
    <3>2. invoice[n].amount \in Int
      BY DEF ErpTypeOK, Invoice
    <3> QED
      BY <3>1, <3>2, DecideTypes, PaymentTypes DEF Decided, Authority
  <2> QED
    BY <2>1, <2>2
<1> QED
  BY <1>1, <1>2, <1>3, NextSteps, BrowserFrame, ClickFrame
\* The types of the calls and of the browser's state are kept.
LEMMA BrowserTypeStep ==
  ASSUME InboxTypeOK, Frozen, CallsKnow, Next
  PROVE  InboxTypeOK'
<1> USE DEF InboxTypeOK
<1>0. (WorkflowTypeOK /\ ErpTypeOK)'
  BY ServerTypeStep
<1>t. /\ {None} \cup Tabs = Tabs \cup {None}
      /\ NoClick \in [tab : Tabs \cup {None}, synced : BOOLEAN, answer : Answers]
      /\ \A t \in Tabs, p \in People \cup {None} :
           Mounted(t, p) \in [open : BOOLEAN, user : People \cup {None},
                              shown : SUBSET Docs, busy : Docs \cup {None}]
  BY DEF NoClick, Mounted, AtLogin, Answers
<1>l. ASSUME NEW t \in Tabs, Logout(t), UNCHANGED <<req, recordedBy>>
      PROVE  InboxTypeOK'
  <2>1. session' \in [who : People \cup {None}, valid : BOOLEAN]
    BY <1>l DEF Logout, NoOne
  <2>2. tab' \in [Tabs -> [open : BOOLEAN, user : People \cup {None},
                           shown : SUBSET Docs, busy : Docs \cup {None}]]
    BY <1>l DEF Logout, AtLogin
  <2>3. click' \in [Users -> [tab : Tabs \cup {None}, synced : BOOLEAN, answer : Answers]]
    BY <1>l DEF Logout, NoClick, Answers
  <2>4. DOMAIN poll' = Tabs
    BY <1>l DEF Logout
  <2> QED
    BY <1>0, <1>l, <2>1, <2>2, <2>3, <2>4 DEF ApprovalsTypeOK
<1>1. ASSUME NEW t \in Tabs, SignOut(t)
      PROVE  InboxTypeOK'
  BY <1>1, <1>l DEF SignOut, serverVars
<1>2. ASSUME NEW t \in Tabs, NEW x \in PollAnswers, Receive(t, x)
      PROVE  InboxTypeOK'
  <2>1. CASE x = Expired
    BY <1>2, <2>1, <1>l DEF Receive, serverVars
  <2>2. CASE x # Expired
    <3>1. x \subseteq Docs
      BY <2>2 DEF PollAnswers
    <3>2. tab' \in [Tabs -> [open : BOOLEAN, user : People \cup {None},
                             shown : SUBSET Docs, busy : Docs \cup {None}]]
      BY <1>2, <2>2, <3>1 DEF Receive
    <3> QED
      BY <1>0, <1>2, <2>2, <3>2 DEF Receive, Taken, serverVars, ApprovalsTypeOK
  <2> QED
    BY <2>1, <2>2
<1>3. ASSUME NEW t \in Tabs, NEW x \in PollAnswers, PollFails(t, x)
      PROVE  InboxTypeOK'
  <2>1. AfterError(t) \subseteq Docs
    BY DEF AfterError
  <2>2. tab' \in [Tabs -> [open : BOOLEAN, user : People \cup {None},
                           shown : SUBSET Docs, busy : Docs \cup {None}]]
    BY <1>3, <2>1 DEF PollFails
  <2> QED
    BY <1>0, <1>3, <2>2 DEF PollFails, Taken, ApprovalsTypeOK
<1>4. ASSUME NEW t \in Tabs, Open(t) \/ \E p \in People : SignIn(t, p)
      PROVE  InboxTypeOK'
  <2>1. PICK user \in People \cup {None} : tab' = [tab EXCEPT ![t] = Mounted(t, user)]
    BY <1>4 DEF Open, SignIn
  <2>2. tab' \in [Tabs -> [open : BOOLEAN, user : People \cup {None},
                           shown : SUBSET Docs, busy : Docs \cup {None}]]
    BY <1>t, <2>1
  <2>3. session' \in [who : People \cup {None}, valid : BOOLEAN]
    <3>1. CASE Open(t)
      BY <3>1 DEF Open
    <3>2. CASE \E p \in People : SignIn(t, p)
      BY <3>2 DEF SignIn
    <3> QED
      BY <1>4, <3>1, <3>2
  <2> QED
    BY <1>0, <1>4, <2>2, <2>3 DEF Open, SignIn, serverVars, ApprovalsTypeOK
<1>5. CASE Expire \/ ErpUsers \/ \E t \in Tabs : Poll(t)
  <2>1. session' \in [who : People \cup {None}, valid : BOOLEAN]
    BY <1>5 DEF Expire, ErpUsers, Poll, browserVars
  <2>2. DOMAIN poll' = Tabs
    BY <1>5 DEF Expire, ErpUsers, Poll, browserVars
  <2> QED
    BY <1>0, <1>5, <2>1, <2>2 DEF Expire, ErpUsers, Poll, browserVars, serverVars, ApprovalsTypeOK
<1>6. ASSUME NEW u \in Users, NEW t \in Tabs, NEW d \in Docs, Click(u, t, d) \/ ClickRefused(u, t, d)
      PROVE  InboxTypeOK'
  <2>1. tab' \in [Tabs -> [open : BOOLEAN, user : People \cup {None},
                           shown : SUBSET Docs, busy : Docs \cup {None}]]
    <3>1. tab' = [tab EXCEPT ![t].busy = d]
      BY <1>6 DEF Click, ClickRefused, Pressed
    <3> QED
      BY <3>1
  <2>2. click' \in [Users -> [tab : Tabs \cup {None}, synced : BOOLEAN, answer : Answers]]
    <3>1. PICK answer \in Answers : Answered(u, t, answer)
      BY <1>6 DEF Click, ClickRefused, Refusal, Answers
    <3> QED
      BY <3>1 DEF Answered
  <2>3. req' \in [Users -> Request]
    <3>1. CASE ClickRefused(u, t, d)
      BY <3>1 DEF ClickRefused, serverVars, ApprovalsTypeOK
    <3>2. CASE ReadTask(u, d)
      BY <3>2, PeopleAssumption DEF ReadTask, Frozen, ApprovalsTypeOK, Request, RequestPc, Decided
    <3>3. CASE ReadForPayment(u, d)
      BY <3>3, PeopleAssumption DEF ReadForPayment, Frozen, ApprovalsTypeOK, Request, RequestPc
    <3> QED
      BY <1>6, <3>1, <3>2, <3>3 DEF Click
  <2>4. UNCHANGED <<session, poll, recordedBy>>
    BY <1>6 DEF Click, ClickRefused, Pressed
  <2> QED
    BY <1>0, <2>1, <2>2, <2>3, <2>4 DEF ApprovalsTypeOK
<1>7. ASSUME NEW u \in Users, Serve(u) \/ ServeFails(u)
      PROVE  InboxTypeOK'
  <2>1. req' \in [Users -> Request]
    <3>1. \/ \E pc \in RequestPc : Stay(u, pc)
          \/ Respond(u)
          \/ \E s \in Decided : req' = [req EXCEPT ![u].pc = "task", ![u].outcome = s]
      BY <1>7 DEF Serve, ServeFails, RequestStep, RequestFails, DecideInErp, DecisionRefused,
        ReadActual, RecordTask, RecordDecision, PayInErp, PaymentRefused, RecordPayment, RequestPc
    <3>2. req[u] \in Request
      BY DEF ApprovalsTypeOK
    <3>3. ASSUME NEW pc \in RequestPc, Stay(u, pc)
          PROVE  req' \in [Users -> Request]
      <4>1. [req[u] EXCEPT !.pc = pc] \in Request
        BY <3>2 DEF Request
      <4> QED
        BY <3>3, <4>1 DEF Stay, ApprovalsTypeOK
    <3>4. CASE Respond(u)
      BY <3>4 DEF Respond, NoRequest, ApprovalsTypeOK, Request, RequestPc
    <3>5. ASSUME NEW s \in Decided, req' = [req EXCEPT ![u].pc = "task", ![u].outcome = s]
          PROVE  req' \in [Users -> Request]
      <4>1. [req[u] EXCEPT !.pc = "task", !.outcome = s] \in Request
        BY <3>2 DEF Request, RequestPc
      <4> QED
        BY <3>5, <4>1 DEF ApprovalsTypeOK
    <3> QED
      BY <3>1, <3>3, <3>4, <3>5
  <2>2. PICK answer \in Answers : Served(u, answer)
    BY <1>7 DEF Serve, ServeFails, Answers
  <2>3. click' \in [Users -> [tab : Tabs \cup {None}, synced : BOOLEAN, answer : Answers]]
    BY <2>2, <1>t DEF Served
  <2>4. recordedBy' \in [Docs -> People \cup {None, Directly}]
    <3>1. PICK name \in People \cup {Directly} : name = DecidedBy(u)
      BY PeopleAssumption DEF DecidedBy
    <3>2. recordedBy' = recordedBy \/ recordedBy' = [recordedBy EXCEPT ![req[u].doc] = name]
      BY <1>7, <3>1 DEF Serve, ServeFails
    <3>3. recordedBy \in [Docs -> People \cup {None, Directly}]
      OBVIOUS
    <3> HIDE DEF InboxTypeOK
    <3> QED
      BY <3>2, <3>3
  <2> QED
    BY <1>0, <1>7, <2>1, <2>3, <2>4, ServeFrame DEF ApprovalsTypeOK
<1>8. ASSUME NEW u \in Users, AnswerArrives(u)
      PROVE  InboxTypeOK'
  <2> DEFINE t == click[u].tab
  <2>1. t \in Tabs
    BY <1>8 DEF AnswerArrives
  <2>2. CASE click[u].answer = "expired"
    BY <1>8, <2>1, <2>2, <1>l DEF AnswerArrives, serverVars
  <2>3. CASE click[u].answer # "expired"
    <3>1. AfterError(t) \subseteq Docs
      BY <2>1 DEF AfterError
    <3>2. tab' \in [Tabs -> [open : BOOLEAN, user : People \cup {None},
                             shown : SUBSET Docs, busy : Docs \cup {None}]]
      <4>1. PICK x \in SUBSET Docs :
              tab' = [tab EXCEPT ![t] = [tab[t] EXCEPT !.shown = x, !.busy = None]]
        BY <1>8, <2>1, <2>3, <3>1 DEF AnswerArrives
      <4>2. [tab[t] EXCEPT !.shown = x, !.busy = None] \in
              [open : BOOLEAN, user : People \cup {None}, shown : SUBSET Docs,
               busy : Docs \cup {None}]
        <5>1. tab[t] \in [open : BOOLEAN, user : People \cup {None}, shown : SUBSET Docs,
                          busy : Docs \cup {None}]
          BY <2>1
        <5> HIDE DEF InboxTypeOK, t
        <5> QED
          BY <5>1
      <4> QED
        BY <4>1, <4>2
    <3>3. click' \in [Users -> [tab : Tabs \cup {None}, synced : BOOLEAN, answer : Answers]]
      BY <1>8, <2>3, <1>t DEF AnswerArrives
    <3> QED
      BY <1>0, <1>8, <2>3, <3>2, <3>3 DEF AnswerArrives, serverVars, ApprovalsTypeOK
  <2> QED
    BY <2>2, <2>3
<1> QED
  BY <1>1, <1>2, <1>3, <1>4, <1>5, <1>6, <1>7, <1>8 DEF Next
-----------------------------------------------------------------------------
(* What the handlers and the tabs know *)

\* A tab that leaves for the login page keeps its calls going (api.ts logout).
LEMMA LogoutKeeps ==
  ASSUME InboxTypeOK, CallsKnow, CallersOpen, Honest,
         NEW t \in Tabs, Logout(t), UNCHANGED req
  PROVE  /\ \A u \in Users : req[u].pc # "idle" =>
              click'[u].answer = click[u].answer /\ click'[u].synced = click[u].synced
         /\ CallersOpen' /\ Honest'
<1>1. ASSUME NEW u \in Users
      PROVE  \/ click'[u] = click[u] /\ click[u].tab # t
             \/ /\ click[u].answer = "waiting"
                /\ click'[u] = [click[u] EXCEPT !.tab = None]
             \/ click'[u] = NoClick /\ click[u].answer # "waiting"
  BY DEF Logout, InboxTypeOK
<1>r. \A u \in Users : click[u] \in [tab : Tabs \cup {None}, synced : BOOLEAN, answer : Answers]
  BY DEF InboxTypeOK
<1>2. ASSUME NEW u \in Users, req[u].pc # "idle"
      PROVE  click'[u].answer = click[u].answer /\ click'[u].synced = click[u].synced
  <2>1. click[u].answer = "waiting"
    BY <1>2 DEF CallsKnow
  <2> QED
    BY <1>1, <1>r, <2>1
<1>3. \A s \in Tabs : s # t => tab'[s] = tab[s]
  BY DEF Logout, InboxTypeOK
<1>4. None \notin Tabs
  BY PeopleAssumption DEF Tabs
<1>5. ASSUME NEW u \in Users, click'[u].tab # None
      PROVE  click'[u] = click[u] /\ click[u].tab \in Tabs \ {t}
  <2>1. CASE click'[u] = [click[u] EXCEPT !.tab = None]
    BY <1>r, <1>5, <2>1
  <2>2. CASE click'[u] = NoClick
    BY <1>5, <2>2 DEF NoClick
  <2>3. CASE click'[u] = click[u] /\ click[u].tab # t
    BY <1>r, <1>5, <2>3
  <2> QED
    BY <1>1, <2>1, <2>2, <2>3
<1>6. CallersOpen'
  BY <1>3, <1>5 DEF CallersOpen
<1>7. Honest'
  BY <1>3, <1>4, <1>5 DEF Honest, Tabs
<1> QED
  BY <1>2, <1>6, <1>7

\* A step that keeps the answers under way, the requests and the ERP keeps what
\* the handlers know.
LEMMA KnowStays ==
  ASSUME InboxTypeOK, Frozen, CallsKnow, DecidersKnow, UNCHANGED <<req, erpVars>>,
         \A u \in Users : req[u].pc # "idle" =>
           click'[u].answer = click[u].answer /\ click'[u].synced = click[u].synced
  PROVE  CallsKnow' /\ DecidersKnow'
BY DEF CallsKnow, DecidersKnow, Stands, erpVars

\* The steps of the browser.
LEMMA BrowserKnowsStep ==
  ASSUME InboxInv, BrowserStep
  PROVE  CallsKnow' /\ DecidersKnow' /\ CallersOpen' /\ Honest'
<1> USE DEF InboxInv
<1>0. UNCHANGED <<req, erpVars>>
  BY BrowserFrame
<1>n. None \notin Tabs
  BY PeopleAssumption DEF Tabs
<1>l. ASSUME NEW t \in Tabs, Logout(t)
      PROVE  CallsKnow' /\ DecidersKnow' /\ CallersOpen' /\ Honest'
  BY <1>0, <1>l, LogoutKeeps, KnowStays
<1>c. ASSUME UNCHANGED click,
             \A t \in Tabs : tab[t].open => tab'[t].open /\ tab'[t].user = tab[t].user
      PROVE  CallsKnow' /\ DecidersKnow' /\ CallersOpen' /\ Honest'
  <2>1. CallsKnow' /\ DecidersKnow'
    BY <1>0, <1>c, KnowStays
  <2>2. CallersOpen' /\ Honest'
    BY <1>c, <1>n DEF CallersOpen, Honest, InboxTypeOK, Tabs
  <2> QED
    BY <2>1, <2>2
<1>1. CASE \E t \in Tabs : SignOut(t)
  BY <1>1, <1>l DEF SignOut
<1>2. ASSUME NEW t \in Tabs, Open(t) \/ Poll(t) \/ \E p \in People : SignIn(t, p)
      PROVE  CallsKnow' /\ DecidersKnow' /\ CallersOpen' /\ Honest'
  BY <1>2, <1>c DEF Open, Poll, SignIn, InboxTypeOK
<1>3. ASSUME NEW t \in Tabs, NEW x \in PollAnswers, Receive(t, x)
      PROVE  CallsKnow' /\ DecidersKnow' /\ CallersOpen' /\ Honest'
  <2>1. CASE x = Expired
    BY <1>3, <2>1, <1>l DEF Receive
  <2>2. CASE x # Expired
    BY <1>3, <2>2, <1>c DEF Receive, InboxTypeOK
  <2> QED
    BY <2>1, <2>2
<1>4. ASSUME NEW t \in Tabs, NEW x \in PollAnswers, PollFails(t, x)
      PROVE  CallsKnow' /\ DecidersKnow' /\ CallersOpen' /\ Honest'
  BY <1>4, <1>c DEF PollFails, InboxTypeOK
<1>5. ASSUME NEW u \in Users, NEW t \in Tabs, NEW d \in Docs, ClickRefused(u, t, d)
      PROVE  CallsKnow' /\ DecidersKnow' /\ CallersOpen' /\ Honest'
  <2>1. /\ req[u].pc = "idle" /\ tab[t].open
        /\ \A s \in Tabs : tab'[s].open = tab[s].open /\ tab'[s].user = tab[s].user
        /\ \A v \in Users \ {u} : click'[v] = click[v]
        /\ click'[u] = [tab |-> t, synced |-> FALSE, answer |-> Refusal(u, t, d)]
    BY <1>5 DEF ClickRefused, Pressed, Answered, InboxTypeOK
  <2>2. CallsKnow' /\ DecidersKnow'
    <3>1. \A v \in Users : req[v].pc # "idle" =>
            click'[v].answer = click[v].answer /\ click'[v].synced = click[v].synced
      BY <2>1
    <3> QED
      BY <1>0, <3>1, KnowStays
  <2>3. CallersOpen'
    BY <2>1, <1>n DEF CallersOpen, InboxTypeOK
  <2>4. t \in Inboxes /\ Refusal(u, t, d) = "forbidden" => tab'[t].user # Owner[u]
    <3>1. SUFFICES ASSUME t \in Inboxes, Refusal(u, t, d) = "forbidden", tab[t].user = Owner[u]
                   PROVE  FALSE
      BY <2>1
    <3>2. PersonRole[Owner[u]] \in {"CFO", "ADMIN", task[d].requiredRole}
      BY <1>5, <3>1 DEF ClickRefused, Pressed, Offers, canDecide
    <3>3. Permitted(u, t, d)
      BY <3>1, <3>2, PeopleAssumption DEF Permitted, Outranks
    <3> QED
      BY <3>1, <3>3 DEF Refusal
  <2>5. Honest'
    BY <2>1, <2>4 DEF Honest, Tabs
  <2> QED
    BY <2>2, <2>3, <2>5
<1>6. ASSUME NEW u \in Users, AnswerArrives(u)
      PROVE  CallsKnow' /\ DecidersKnow' /\ CallersOpen' /\ Honest'
  <2> DEFINE t == click[u].tab
  <2>1. t \in Tabs /\ click[u].answer \notin {"none", "waiting"}
    BY <1>6 DEF AnswerArrives, InboxTypeOK
  <2>2. CASE click[u].answer = "expired"
    BY <1>6, <2>1, <2>2, <1>l DEF AnswerArrives
  <2>3. CASE click[u].answer # "expired"
    <3>1. /\ \A s \in Tabs : tab'[s].open = tab[s].open /\ tab'[s].user = tab[s].user
          /\ \A v \in Users \ {u} : click'[v] = click[v]
          /\ click'[u] = NoClick
      BY <1>6, <2>3 DEF AnswerArrives, InboxTypeOK
    <3>2. \A v \in Users : req[v].pc # "idle" =>
            click'[v].answer = click[v].answer /\ click'[v].synced = click[v].synced
      BY <2>1, <3>1 DEF CallsKnow
    <3>3. CallsKnow' /\ DecidersKnow'
      BY <1>0, <3>2, KnowStays
    <3>4. CallersOpen' /\ Honest'
      BY <3>1, <1>n DEF CallersOpen, Honest, NoClick, InboxTypeOK, Tabs
    <3> QED
      BY <3>3, <3>4
  <2> QED
    BY <2>2, <2>3
<1>7. CASE Expire
  BY <1>7, <1>c DEF Expire
<1> QED
  BY <1>1, <1>2, <1>3, <1>4, <1>5, <1>6, <1>7 DEF BrowserStep
\* A click that the handler takes up.
LEMMA ClickKnowsStep ==
  ASSUME InboxInv, NEW u \in Users, NEW t \in Tabs, NEW d \in Docs, Click(u, t, d)
  PROVE  CallsKnow' /\ DecidersKnow' /\ CallersOpen' /\ Honest'
<1> USE DEF InboxInv
<1>n. None \notin Tabs
  BY PeopleAssumption DEF Tabs
<1>1. /\ req[u].pc = "idle" /\ tab[t].open
      /\ \A s \in Tabs : tab'[s].open = tab[s].open /\ tab'[s].user = tab[s].user
      /\ \A v \in Users \ {u} : click'[v] = click[v] /\ req'[v] = req[v]
      /\ click'[u] = [tab |-> t, synced |-> FALSE, answer |-> "waiting"]
      /\ UNCHANGED erpVars
  BY DEF Click, Pressed, Answered, ReadTask, ReadForPayment, ApprovalsTypeOK, InboxTypeOK
<1>2. /\ req'[u].doc = d /\ req'[u].invoice = Waiting[d]
      /\ \/ /\ req'[u].pc = "decide" /\ req'[u].outcome \in {"APPROVED", "REJECTED"}
            /\ Role[u] \in {"CFO", "ADMIN", task[d].requiredRole}
         \/ req'[u].pc = "pay"
  <2>1. CASE ReadTask(u, d)
    BY <2>1 DEF ReadTask, Outranks, Frozen, ApprovalsTypeOK, InboxTypeOK
  <2>2. CASE ReadForPayment(u, d)
    BY <2>2 DEF ReadForPayment, Frozen, ApprovalsTypeOK, InboxTypeOK
  <2> QED
    BY <2>1, <2>2 DEF Click
<1>3. req'[u].pc = "decide" => Role[u] \in Authority \cup {None}
  BY <1>2 DEF InboxTypeOK, WorkflowTypeOK, Task, ApproverRole, Authority
<1>4. CallsKnow'
  BY <1>1, <1>2, <1>3 DEF CallsKnow
<1>5. DecidersKnow'
  BY <1>1, <1>2 DEF DecidersKnow, Stands, erpVars
<1>6. CallersOpen' /\ Honest'
  BY <1>1, <1>n DEF CallersOpen, Honest, InboxTypeOK, Tabs
<1> QED
  BY <1>4, <1>5, <1>6

\* A step of a handler.
LEMMA ServeKnowsStep ==
  ASSUME InboxInv, Next, NEW u \in Users, Serve(u) \/ ServeFails(u)
  PROVE  CallsKnow' /\ DecidersKnow' /\ NamesStand' /\ CallersOpen' /\ Honest'
<1> USE DEF InboxInv
<1>n. None \notin Tabs
  BY PeopleAssumption DEF Tabs
<1>1. /\ UNCHANGED tab
      /\ \A v \in Users \ {u} : click'[v] = click[v] /\ req'[v] = req[v]
      /\ req[u].pc # "idle"
  BY DEF Serve, ServeFails, Served, RequestStep, RequestFails, DecideInErp, DecisionRefused,
    ReadActual, RecordTask, RecordDecision, PayInErp, PaymentRefused, RecordPayment, Stay,
    Respond, ApprovalsTypeOK, InboxTypeOK
<1>2. \/ req'[u].pc = "idle"
      \/ req'[u].doc = req[u].doc /\ req'[u].invoice = req[u].invoice
  BY DEF Serve, ServeFails, RequestStep, RequestFails, DecideInErp, DecisionRefused,
    ReadActual, RecordTask, RecordDecision, PayInErp, PaymentRefused, RecordPayment, Stay,
    Respond, NoRequest, ApprovalsTypeOK, InboxTypeOK, Request
<1>s. \A n \in Invoices : \A by : Stands(n, by) => Stands(n, by)'
  BY StandsStay
<1>w. \A v \in Users : req[v].pc # "idle" =>
        req[v].doc \in Docs /\ req[v].invoice = Waiting[req[v].doc] /\ req[v].invoice \in Invoices
  BY PeopleAssumption DEF CallsKnow
<1>3. ASSUME NEW v \in Users \ {u}, req'[v].pc = "task", ~click'[v].synced
      PROVE  Stands(req[v].invoice, Role[v])'
  <2>1. req'[v] = req[v] /\ click'[v] = click[v]
    BY <1>1
  <2>2. PICK n \in Invoices : n = req[v].invoice
    BY <1>3, <1>w, <2>1
  <2>3. Stands(n, Role[v])
    BY <1>3, <2>1, <2>2 DEF DecidersKnow
  <2>4. Stands(n, Role[v])'
    BY <1>s, <2>3
  <2> QED
    BY <2>1, <2>2, <2>4 DEF Stands
<1>4. ASSUME req'[u].pc = "idle"
      PROVE  CallsKnow' /\ DecidersKnow' /\ CallersOpen' /\ Honest'
  <2>1. click'[u].answer # "forbidden" /\ click'[u].tab \in {click[u].tab, None}
    BY <1>4 DEF Serve, ServeFails, Served, NoClick, InboxTypeOK
  <2>2. CallsKnow' /\ CallersOpen' /\ Honest'
    BY <1>1, <1>4, <1>n, <2>1 DEF CallsKnow, CallersOpen, Honest, InboxTypeOK, Tabs
  <2>3. DecidersKnow'
    BY <1>3, <1>4 DEF DecidersKnow
  <2> QED
    BY <2>2, <2>3
<1>5. ASSUME req'[u].pc # "idle"
      PROVE  CallsKnow' /\ DecidersKnow' /\ CallersOpen' /\ Honest'
  <2>1. /\ click'[u].answer = click[u].answer /\ click'[u].tab = click[u].tab
        /\ click'[u].synced = (click[u].synced \/ req[u].pc = "refused")
    <3>1. PICK answer : Served(u, answer)
      BY DEF Serve, ServeFails
    <3>2. click' = [click EXCEPT
            ![u] = [click[u] EXCEPT !.synced = click[u].synced \/ req[u].pc = "refused"]]
      BY <1>5, <3>1 DEF Served
    <3> QED
      BY <3>2 DEF InboxTypeOK
  <2>2. \/ DecideInErp(u) \/ PayInErp(u)
        \/ req[u].pc = "decide" /\ req'[u].pc = "refused" /\ req'[u].outcome = req[u].outcome
        \/ req[u].pc = "refused" /\ req'[u].pc = "task" /\ req'[u].outcome \in Decided
        \/ req[u].pc = "task" /\ req'[u].pc = "doc" /\ req'[u].outcome = req[u].outcome
    BY <1>5 DEF Serve, ServeFails, RequestStep, RequestFails, DecisionRefused, ReadActual,
      RecordTask, RecordDecision, PaymentRefused, RecordPayment, Stay, Respond, NoRequest,
      ApprovalsTypeOK, InboxTypeOK, Request
  <2>3. /\ DecideInErp(u) => /\ req[u].pc = "decide" /\ req'[u].pc = "task"
                             /\ req'[u].outcome = req[u].outcome
        /\ PayInErp(u) => req'[u].pc = "paid"
    BY DEF DecideInErp, PayInErp, Stay, ApprovalsTypeOK, InboxTypeOK, Request
  <2>4. CallsKnow'
    <3>1. /\ req'[u].doc = req[u].doc /\ req'[u].invoice = req[u].invoice
          /\ req'[u].pc # "decide" /\ click'[u].answer = "waiting"
          /\ req'[u].pc = "refused" => req'[u].outcome \in {"APPROVED", "REJECTED"}
          /\ req'[u].pc \in {"task", "doc"} => req'[u].outcome \in Decided
      BY <1>1, <1>2, <1>5, <2>1, <2>2, <2>3 DEF CallsKnow, Decided
    <3> QED
      BY <1>1, <3>1 DEF CallsKnow
  <2>5. DecidersKnow'
    <3>1. ASSUME req'[u].pc = "task", ~click'[u].synced
          PROVE  Stands(req[u].invoice, Role[u])'
      <4>1. DecideInErp(u) /\ req'[u].invoice = req[u].invoice /\ req[u].invoice \in Invoices
        BY <1>1, <1>2, <1>5, <1>w, <2>1, <2>2, <2>3, <3>1
      <4>2. req[u].outcome \in Decided
        BY <4>1 DEF DecideInErp, CallsKnow, Decided
      <4> QED
        BY <4>1, <4>2 DEF DecideInErp, Decide, Stands, ErpTypeOK, Invoice, InboxTypeOK
    <3> QED
      BY <1>3, <3>1 DEF DecidersKnow
  <2>6. CallersOpen' /\ Honest'
    BY <1>1, <1>n, <2>1 DEF CallersOpen, Honest, InboxTypeOK, Tabs
  <2> QED
    BY <2>4, <2>5, <2>6
<1>6. NamesStand'
  <2>1. ASSUME NEW d \in Docs, recordedBy'[d] \in People
        PROVE  Stands(Waiting[d], PersonRole[recordedBy[d]])'
    <3>1. CASE recordedBy'[d] = recordedBy[d]
      <4>1. Stands(Waiting[d], PersonRole[recordedBy[d]])
        BY <2>1, <3>1 DEF NamesStand
      <4>2. PICK by : by = PersonRole[recordedBy[d]]
        OBVIOUS
      <4>3. Stands(Waiting[d], by)'
        BY <1>s, <4>1, <4>2, PeopleAssumption
      <4> QED
        BY <3>1, <4>2, <4>3 DEF Stands
    <3>2. CASE recordedBy'[d] # recordedBy[d]
      <4>1. req[u].pc = "task" /\ d = req[u].doc /\ recordedBy'[d] = DecidedBy(u)
        BY <2>1, <3>2 DEF Serve, ServeFails, InboxTypeOK
      <4>2. ~click[u].synced /\ recordedBy'[d] = Owner[u]
        BY <2>1, <4>1, PeopleAssumption DEF DecidedBy
      <4>3. Stands(Waiting[d], Role[u])
        BY <1>w, <4>1, <4>2 DEF DecidersKnow
      <4>4. Stands(Waiting[d], Role[u])'
        BY <1>s, <4>3, PeopleAssumption
      <4> QED
        BY <4>2, <4>4, PeopleAssumption DEF Stands
    <3> QED
      BY <3>1, <3>2
  <2> QED
    BY <2>1 DEF NamesStand
<1> QED
  BY <1>4, <1>5, <1>6

\* The names stay good while no handler takes a step.
LEMMA NamesStay ==
  ASSUME InboxInv, Next, UNCHANGED recordedBy
  PROVE  NamesStand'
<1>1. ASSUME NEW d \in Docs, recordedBy[d] \in People
      PROVE  Stands(Waiting[d], PersonRole[recordedBy[d]])'
  <2>1. PICK by : by = PersonRole[recordedBy[d]]
    OBVIOUS
  <2>2. Stands(Waiting[d], by)
    BY <1>1, <2>1 DEF InboxInv, NamesStand
  <2>3. Stands(Waiting[d], by)'
    BY <2>2, StandsStay, PeopleAssumption DEF InboxInv
  <2> QED
    BY <2>1, <2>3 DEF Stands
<1> QED
  BY <1>1 DEF NamesStand

\* Somebody works in the ERP's own UI.
LEMMA ErpKnowsStep ==
  ASSUME InboxInv, Next, ErpUsers
  PROVE  CallsKnow' /\ DecidersKnow' /\ CallersOpen' /\ Honest'
<1> USE DEF InboxInv
<1>1. UNCHANGED <<req, click, tab>>
  BY DEF ErpUsers, browserVars
<1>2. CallsKnow' /\ CallersOpen' /\ Honest'
  BY <1>1 DEF CallsKnow, CallersOpen, Honest
<1>3. ASSUME NEW u \in Users, req[u].pc = "task", ~click[u].synced
      PROVE  Stands(req[u].invoice, Role[u])'
  <2>1. PICK n \in Invoices : n = req[u].invoice
    BY <1>3, PeopleAssumption DEF CallsKnow
  <2>2. Stands(n, Role[u])'
    BY <1>3, <2>1, StandsStay DEF DecidersKnow
  <2> QED
    BY <1>1, <2>1, <2>2 DEF Stands
<1>4. DecidersKnow'
  BY <1>1, <1>3 DEF DecidersKnow
<1> QED
  BY <1>2, <1>4

-----------------------------------------------------------------------------
(* The invariant *)

\* The documents wait for their approvers, and nobody has called.
LEMMA InboxInit == Init => InboxInv
<1> SUFFICES ASSUME Init PROVE InboxInv
  OBVIOUS
<1>1. WorkflowTypeOK
  <2>1. \A d \in Docs : route(Read[d].amount) \in ApproverRole
    BY PeopleAssumption, ReadingsAssumption DEF route, AUTO_APPROVE_BELOW, CFO_ABOVE, ApproverRole
  <2> QED
    BY <2>1, PeopleAssumption, ReadingsAssumption
    DEF Init, WorkflowTypeOK, Task, DocStatus, ApprovalStatus
<1>2. ErpTypeOK
  <2>1. \A n \in Invoices : Billed(n) =>
          /\ DocOf(n) \in Docs
          /\ Read[DocOf(n)].poNumber \in Orders /\ Read[DocOf(n)].amount \in Int
    BY PeopleAssumption, ReadingsAssumption DEF Billed, DocOf
  <2>2. invoice \in [Invoices -> Invoice]
    BY <2>1, OrdersAssumption DEF Init, Invoice, NoInvoice, InvoiceStatus, Undecided
  <2> QED
    BY <2>1, <2>2 DEF Init, ErpTypeOK
<1>3. ApprovalsTypeOK /\ \A u \in Users : req[u].pc = "idle"
  BY DEF Init, ApprovalsInit, ApprovalsTypeOK, NoRequest, Request, RequestPc
<1>4. /\ click = [u \in Users |-> NoClick]
      /\ recordedBy = [d \in Docs |-> None]
      /\ DOMAIN poll = Tabs
      /\ erpInvoiceId = Waiting /\ extraction = Read
  BY DEF Init
<1>5. /\ session \in [who : People \cup {None}, valid : BOOLEAN]
      /\ tab \in [Tabs -> [open : BOOLEAN, user : People \cup {None},
                           shown : SUBSET Docs, busy : Docs \cup {None}]]
  <2>1. PICK p \in People : session = [who |-> p, valid |-> TRUE]
                           /\ tab = [t \in Tabs |-> Mounted(t, p)]
    BY DEF Init
  <2>2. \A t \in Tabs : Mounted(t, p) \in [open : BOOLEAN, user : People \cup {None},
                                           shown : SUBSET Docs, busy : Docs \cup {None}]
    BY DEF Mounted, AtLogin
  <2> QED
    BY <2>1, <2>2
<1>6. InboxTypeOK
  BY <1>1, <1>2, <1>3, <1>4, <1>5 DEF InboxTypeOK, NoClick, Answers
<1>7. CallsKnow /\ DecidersKnow /\ NamesStand /\ CallersOpen /\ Honest
  BY <1>3, <1>4, PeopleAssumption
  DEF CallsKnow, DecidersKnow, NamesStand, CallersOpen, Honest, NoClick
<1> QED
  BY <1>4, <1>6, <1>7 DEF InboxInv, Frozen

LEMMA InboxStep == InboxInv /\ [Next]_vars => InboxInv'
<1> SUFFICES ASSUME InboxInv, [Next]_vars PROVE InboxInv'
  OBVIOUS
<1>1. CASE UNCHANGED vars
  BY <1>1 DEF InboxInv, InboxTypeOK, WorkflowTypeOK, ErpTypeOK, ApprovalsTypeOK, Frozen,
    CallsKnow, DecidersKnow, NamesStand, Stands, CallersOpen, Honest, vars, serverVars,
    browserVars, workflowVars, erpVars
<1>2. CASE Next
  <2>1. InboxTypeOK'
    BY <1>2, BrowserTypeStep DEF InboxInv
  <2>2. Frozen'
    <3>1. UNCHANGED <<erpInvoiceId, extraction>>
      BY <1>2, NextSteps, BrowserFrame, ClickFrame, ServeFrame
      DEF ErpUsers, DirectInErp, workflowVars
    <3> QED
      BY <3>1 DEF InboxInv, Frozen
  <2>3. CASE BrowserStep
    BY <1>2, <2>3, BrowserFrame, BrowserKnowsStep, NamesStay, <2>1, <2>2 DEF InboxInv
  <2>4. CASE \E u \in Users, t \in Tabs, d \in Docs : Click(u, t, d)
    BY <1>2, <2>4, ClickFrame, ClickKnowsStep, NamesStay, <2>1, <2>2 DEF InboxInv
  <2>5. CASE \E u \in Users : Serve(u) \/ ServeFails(u)
    BY <1>2, <2>5, ServeKnowsStep, <2>1, <2>2 DEF InboxInv
  <2>6. CASE ErpUsers
    BY <1>2, <2>6, ErpKnowsStep, NamesStay, <2>1, <2>2 DEF InboxInv, ErpUsers
  <2> QED
    BY <1>2, <2>3, <2>4, <2>5, <2>6, NextSteps
<1> QED
  BY <1>1, <1>2

\* The invariant of the inbox holds in every behaviour.
LEMMA InboxInvariance == Spec => []InboxInv
BY InboxInit, InboxStep, PTL DEF Spec

-----------------------------------------------------------------------------
(* Theorems *)

\* A task that bears a person's name was decided in the ERP by that person's
\* authority (app.ts:231 and decideApproval), whatever overtakes what.
THEOREM RecordedTruly == Spec => []NamedPersonDecided
<1>1. InboxInv => NamedPersonDecided
  BY DEF InboxInv, NamesStand, Stands, Frozen, NamedPersonDecided
<1> QED
  BY <1>1, InboxInvariance, PTL

\* The buttons of the inbox mirror the server's rule for the user they were
\* drawn for (approvals/page.tsx canDecide, app.ts decideApproval).
THEOREM HonestInbox == Spec => []ButtonsAreHonest
<1>1. InboxInv => ButtonsAreHonest
  BY DEF InboxInv, Honest, ButtonsAreHonest
<1> QED
  BY <1>1, InboxInvariance, PTL
=============================================================================
