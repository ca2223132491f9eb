------------------------------- MODULE Inbox -------------------------------
(***************************************************************************)
(* The browser of the people who decide and pay: the approvals inbox and   *)
(* the document page (web/app), the session they share (web/lib/api.ts and *)
(* localStorage), and the handlers of Approvals that serve them.           *)
(*                                                                         *)
(* Both pages poll every three seconds, offer an action on the documents   *)
(* that call for one, and refresh after it; the refresh is one more poll.  *)
(* A call and the server's first look at it are one step: what happens     *)
(* while a request is on its way may as well happen before it is sent.     *)
(* Answers take as long as they like and arrive in any order.              *)
(*                                                                         *)
(* Each member of Users is one call a person may have under way.  The      *)
(* documents start out verified and waiting for their approver, the tabs   *)
(* opened by one person.                                                   *)
(***************************************************************************)
EXTENDS Approvals, Bags

CONSTANTS
  People,
  PersonRole,
  Owner,     \* whose call each member of Users is
  Inboxes,   \* tabs with the approvals inbox
  PageOf,    \* tabs with a document page: [tab -> document]
  Waiting,   \* the invoice each document was verified as: [Docs -> Invoices]
  Read,      \* what was read out of it: [Docs -> Readings]
  MaxPolls,  \* bound: polls of each tab in flight at once
  MaxLogins  \* bound: how often somebody logs in

VARIABLES
  session,     \* localStorage: [who, valid], shared by all tabs
  tab,         \* [open, user, shown, busy] of each tab
  poll,        \* the answers that polls in flight will bring each tab
  click,       \* [tab, synced, answer] of each call
  recordedBy,  \* ApprovalTask.decidedBy
  logins       \* how often somebody has logged in

serverVars == <<workflowVars, faults, erpVars, req>>
browserVars == <<session, tab, poll, click>>
vars == <<serverVars, browserVars, recordedBy, logins>>

Tabs == Inboxes \cup DOMAIN PageOf
Expired == {"expired"}
Directly == "decided directly in the ERP"
NoOne == [who |-> None, valid |-> FALSE]
AtLogin == [open |-> FALSE, user |-> None, shown |-> {}, busy |-> None]
Mounted(t, p) == [AtLogin EXCEPT !.open = TRUE, !.user = IF t \in Inboxes THEN p ELSE None]
NoClick == [tab |-> None, synced |-> FALSE, answer |-> "none"]
Answers == {"none", "waiting", "ok", "failed", "forbidden", "expired"}

ASSUME PeopleAssumption ==
  /\ None \notin People /\ Directly \notin People /\ None \notin Inboxes \cup DOMAIN PageOf
  /\ PersonRole \in [People -> Roles]
  /\ Owner \in [Users -> People]
  /\ \A u \in Users : Role[u] = PersonRole[Owner[u]]
  /\ PageOf \in [DOMAIN PageOf -> Docs]
  /\ Waiting \in [Docs -> Invoices] /\ Read \in [Docs -> Readings]
  /\ \A d, e \in Docs : Waiting[d] = Waiting[e] => d = e
  /\ \A d \in Docs : Read[d].poNumber \in Orders /\ Read[d].amount >= AUTO_APPROVE_BELOW
  /\ MaxPolls \in [Tabs -> Nat \ {0}] /\ MaxLogins \in Nat

InboxTypeOK ==
  /\ WorkflowTypeOK /\ ErpTypeOK /\ ApprovalsTypeOK
  /\ session \in [who : People \cup {None}, valid : BOOLEAN]
  /\ tab \in [Tabs -> [open : BOOLEAN, user : People \cup {None},
                       shown : SUBSET Docs, busy : Docs \cup {None}]]
  /\ DOMAIN poll = Tabs
  /\ click \in [Users -> [tab : Tabs \cup {None}, synced : BOOLEAN, answer : Answers]]
  /\ recordedBy \in [Docs -> People \cup {None, Directly}]

Billed(n) == \E d \in Docs : Waiting[d] = n
DocOf(n) == CHOOSE d \in Docs : Waiting[d] = n

Init ==
  /\ status = [d \in Docs |-> "PENDING_APPROVAL"]
  /\ erpInvoiceId = Waiting
  /\ extraction = Read
  /\ task = [d \in Docs |->
       [status |-> "PENDING", requiredRole |-> route(Read[d].amount)]]
  /\ faults = 0
  /\ invoice = [n \in Invoices |-> IF ~Billed(n) THEN NoInvoice ELSE
       [status |-> "PENDING_APPROVAL", order |-> Read[DocOf(n)].poNumber,
        vendor |-> OrderVendor[Read[DocOf(n)].poNumber],
        amount |-> Read[DocOf(n)].amount, paid |-> 0]]
  /\ orderStatus = [o \in Orders |->
       IF \E d \in Docs : Read[d].poNumber = o THEN "MATCHED" ELSE "OPEN"]
  /\ raisedBy = [n \in Invoices |-> IF Billed(n) THEN DocOf(n) ELSE None]
  /\ decidedBy = [n \in Invoices |-> None]
  /\ ApprovalsInit
  /\ \E p \in People :
       /\ session = [who |-> p, valid |-> TRUE]
       /\ tab = [t \in Tabs |-> Mounted(t, p)]
  /\ poll = [t \in Tabs |-> EmptyBag]
  /\ click = [u \in Users |-> NoClick]
  /\ recordedBy = [d \in Docs |-> None]
  /\ logins = 0

-----------------------------------------------------------------------------
(* The session *)

\* requireAuth takes the token that api sent.
Authorized == session.who # None /\ session.valid

\* logout: the session goes, and the tab with whatever it waits for.
Logout(t) ==
  /\ session' = NoOne
  /\ tab' = [tab EXCEPT ![t] = AtLogin]
  /\ poll' = [poll EXCEPT ![t] = EmptyBag]
  /\ click' = [u \in Users |->
       IF click[u].tab # t THEN click[u]
       ELSE IF click[u].answer = "waiting" THEN [click[u] EXCEPT !.tab = None]
       ELSE NoClick]

SignOut(t) ==
  /\ tab[t].open
  /\ Logout(t)
  /\ UNCHANGED <<serverVars, recordedBy, logins>>

\* A login in one tab is the session of every tab; the page that is opened
\* after it remembers its user.
SignIn(t, p) ==
  /\ ~tab[t].open
  /\ logins < MaxLogins
  /\ logins' = logins + 1
  /\ session' = [who |-> p, valid |-> TRUE]
  /\ tab' = [tab EXCEPT ![t] = Mounted(t, p)]
  /\ UNCHANGED <<serverVars, poll, click, recordedBy>>

\* A page opened with the session of another tab.
Open(t) ==
  /\ ~tab[t].open
  /\ session.who # None
  /\ tab' = [tab EXCEPT ![t] = Mounted(t, session.who)]
  /\ UNCHANGED <<serverVars, session, poll, click, recordedBy, logins>>

\* The twelve hours of the token are over.
Expire ==
  /\ session.valid
  /\ session' = [session EXCEPT !.valid = FALSE]
  /\ UNCHANGED <<serverVars, tab, poll, click, recordedBy, logins>>

-----------------------------------------------------------------------------
(* Polling *)

\* The documents a page shows an action for: the pending tasks of the inbox,
\* or the one document of a page while it is APPROVED.
Shows(t) ==
  IF t \in Inboxes THEN {d \in Docs : task[d].status = "PENDING"}
                   ELSE {d \in {PageOf[t]} : status[d] = "APPROVED"}

Poll(t) ==
  /\ tab[t].open
  /\ BagCardinality(poll[t]) < MaxPolls[t]
  /\ poll' = [poll EXCEPT ![t] = @ (+) SetToBag({IF Authorized THEN Shows(t) ELSE Expired})]
  /\ UNCHANGED <<serverVars, session, tab, click, recordedBy, logins>>

\* A message goes on top of the inbox, and in place of a document until the
\* next answer.
AfterError(t) == IF t \in Inboxes THEN tab[t].shown ELSE {}

\* One of the answers arrives.
Taken(t, x) ==
  /\ BagIn(x, poll[t])
  /\ poll' = [poll EXCEPT ![t] = @ (-) SetToBag({x})]

\* Mutant of Receive: what the page shows already is kept.
ReceiveOnce(t, x) ==
  /\ IF x = Expired THEN BagIn(x, poll[t]) /\ Logout(t) ELSE
       /\ Taken(t, x)
       /\ tab' = [tab EXCEPT ![t].shown = IF @ # {} THEN @ ELSE x]
       /\ UNCHANGED <<session, click>>
  /\ UNCHANGED <<serverVars, recordedBy, logins>>

\* Mutant of Receive: a 401 is an error like any other.
ReceiveStays(t, x) ==
  /\ Taken(t, x)
  /\ tab' = [tab EXCEPT ![t].shown = IF x = Expired THEN AfterError(t) ELSE x]
  /\ UNCHANGED <<serverVars, session, click, recordedBy, logins>>

\* refresh takes whatever answer arrives; a 401 leaves for the login page.
Receive(t, x) ==
  /\ IF x = Expired THEN BagIn(x, poll[t]) /\ Logout(t) ELSE
       /\ Taken(t, x)
       /\ tab' = [tab EXCEPT ![t].shown = x]
       /\ UNCHANGED <<session, click>>
  /\ UNCHANGED <<serverVars, recordedBy, logins>>

PollFails(t, x) ==
  /\ Taken(t, x)
  /\ Fault
  /\ tab' = [tab EXCEPT ![t].shown = AfterError(t)]
  /\ UNCHANGED <<workflowVars, erpVars, req, session, click, recordedBy, logins>>

-----------------------------------------------------------------------------
(* Deciding and paying *)

\* Mutant of canDecide: any approver's role will do.
canDecideAny(p, d) == PersonRole[p] \in {"CFO", "ADMIN"} \cup ApproverRole

\* The inbox mirrors the role rule of the server for the user it remembers.
canDecide(p, d) == PersonRole[p] \in {"CFO", "ADMIN", task[d].requiredRole}

\* The buttons that can be pressed: busyId is the document acted on last.
Offers(t) ==
  {d \in tab[t].shown \ {tab[t].busy} : t \in Inboxes => canDecide(tab[t].user, d)}

Permitted(u, t, d) ==
  IF t \in Inboxes THEN Outranks(u) \/ Role[u] = task[d].requiredRole
                   ELSE Role[u] \in MayPay

Pressed(u, t, d) ==
  /\ tab[t].open /\ d \in Offers(t)
  /\ session.who \in {Owner[u], None}
  /\ req[u].pc = "idle" /\ click[u] = NoClick
  /\ tab' = [tab EXCEPT ![t].busy = d]
  /\ UNCHANGED <<session, poll, recordedBy, logins>>

Answered(u, t, answer) ==
  click' = [click EXCEPT ![u] = [tab |-> t, synced |-> FALSE, answer |-> answer]]

\* decide or onPay: the handler takes the call up.
Click(u, t, d) ==
  /\ Pressed(u, t, d)
  /\ Authorized
  /\ IF t \in Inboxes THEN ReadTask(u, d) ELSE ReadForPayment(u, d)
  /\ Answered(u, t, "waiting")

\* It is turned away: by requireAuth, since the document is no longer as the
\* page shows it, or by the rule about roles, which comes first for payments.
Refusal(u, t, d) ==
  IF ~Authorized THEN "expired"
  ELSE IF ~Permitted(u, t, d) /\ (t \in Inboxes => d \in Shows(t)) THEN "forbidden"
  ELSE "failed"

ClickRefused(u, t, d) ==
  /\ Pressed(u, t, d)
  /\ ~(Authorized /\ d \in Shows(t) /\ Permitted(u, t, d))
  /\ Answered(u, t, Refusal(u, t, d))
  /\ UNCHANGED serverVars

\* Mutant of DecidedBy: the logged-in user, whoever decided.
DecidedByCaller(u) == Owner[u]

\* The name that goes on the task.
DecidedBy(u) == IF click[u].synced THEN Directly ELSE Owner[u]

\* One step of the handler, and the answer after the last one.
Served(u, answer) ==
  /\ click' = [click EXCEPT ![u] =
       IF req'[u].pc # "idle"
         THEN [click[u] EXCEPT !.synced = click[u].synced \/ req[u].pc = "refused"]
       ELSE IF click[u].tab = None THEN NoClick
       ELSE [click[u] EXCEPT !.answer = answer]]
  /\ UNCHANGED <<session, tab, poll, logins>>

Serve(u) ==
  /\ RequestStep(u)
  /\ recordedBy' = IF req[u].pc # "task" THEN recordedBy
                   ELSE [recordedBy EXCEPT ![req[u].doc] = DecidedBy(u)]
  /\ Served(u, IF req[u].pc \in {"doc", "paid"} /\ ~click[u].synced THEN "ok" ELSE "failed")

ServeFails(u) ==
  /\ RequestFails(u)
  /\ Served(u, "failed")
  /\ UNCHANGED recordedBy

\* Mutant of AnswerArrives: no "finally".
AnswerArrivesUnlessFailed(u) ==
  LET t == click[u].tab IN
  /\ t # None /\ click[u].answer \notin {"none", "waiting"}
  /\ IF click[u].answer = "expired" THEN Logout(t) ELSE
       /\ tab' = [tab EXCEPT
            ![t].shown = IF click[u].answer = "ok" THEN @ ELSE AfterError(t),
            ![t].busy = IF click[u].answer = "ok" THEN None ELSE @]
       /\ click' = [click EXCEPT ![u] = NoClick]
       /\ UNCHANGED <<session, poll>>
  /\ UNCHANGED <<serverVars, recordedBy, logins>>

\* The page shows what went wrong, and finally no button is busy.
AnswerArrives(u) ==
  LET t == click[u].tab IN
  /\ t # None /\ click[u].answer \notin {"none", "waiting"}
  /\ IF click[u].answer = "expired" THEN Logout(t) ELSE
       /\ tab' = [tab EXCEPT
            ![t].shown = IF click[u].answer = "ok" THEN @ ELSE AfterError(t),
            ![t].busy = None]
       /\ click' = [click EXCEPT ![u] = NoClick]
       /\ UNCHANGED <<session, poll>>
  /\ UNCHANGED <<serverVars, recordedBy, logins>>

ErpUsers ==
  /\ DirectInErp
  /\ UNCHANGED <<req, browserVars, recordedBy, logins>>

PollAnswers == {Expired} \cup SUBSET Docs

Next ==
  \/ \E t \in Tabs : SignOut(t) \/ Open(t) \/ Poll(t)
  \/ \E t \in Tabs, p \in People : SignIn(t, p)
  \/ \E t \in Tabs : \E x \in PollAnswers : Receive(t, x) \/ PollFails(t, x)
  \/ \E u \in Users, t \in Tabs, d \in Docs : Click(u, t, d) \/ ClickRefused(u, t, d)
  \/ \E u \in Users : Serve(u) \/ ServeFails(u) \/ AnswerArrives(u)
  \/ Expire \/ ErpUsers

(***************************************************************************)
(* Timers fire, handlers go on and answers arrive.  Nobody has to log in,  *)
(* to press a button or to work in the ERP, and nothing has to fail.       *)
(***************************************************************************)
Fairness ==
  /\ \A t \in Tabs : WF_vars(Poll(t)) /\ WF_vars(\E x \in PollAnswers : Receive(t, x))
  /\ \A u \in Users : WF_vars(Serve(u)) /\ WF_vars(AnswerArrives(u))

Spec == Init /\ [][Next]_vars /\ Fairness

-----------------------------------------------------------------------------
(* Properties *)

\* "The audit log records the REAL logged-in person" (app.ts:231): a task that
\* bears a person's name was decided in the ERP by the authority of that very
\* person, however many people and tabs decide it at once.
NamedPersonDecided == \A d \in Docs :
  recordedBy[d] \in People => decidedBy[erpInvoiceId[d]] = PersonRole[recordedBy[d]]

\* "Mirror of the server's rule ... makes the UI honest about what will be
\* allowed" (approvals/page.tsx:21-22): the server forbids a decision the inbox
\* offered only if somebody else has logged in since the page was opened.
ButtonsAreHonest ==
  /\ InboxTypeOK
  /\ \A u \in Users :
       click[u].tab \in Inboxes /\ click[u].answer = "forbidden" =>
         tab[click[u].tab].user # Owner[u]

\* However answers overtake each other, polls and actions fail and sessions
\* change, every open page stops offering what calls for no action any more,
\* and comes back to showing all that does.
PagesCatchUp ==
  /\ <>[](\A t \in Tabs : tab[t].shown \subseteq Shows(t))
  /\ \A t \in Tabs : []<>(tab[t].open => tab[t].shown = Shows(t))

\* Every action ends for the person who took it: its button comes back (the
\* "finally" of decide and onPay), also when the handler fails half-way.
ActionsEnd == \A t \in Tabs : tab[t].busy # None ~> tab[t].busy = None

\* "Token missing/expired -> back to the login page" (api.ts:86): an expired
\* session does not stay, on whatever page it expires.
ExpiredSessionsEnd == (session.who # None /\ ~session.valid) ~> (session.who = None \/ session.valid)
=============================================================================
