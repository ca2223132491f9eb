-------------------------- MODULE DashboardProofs --------------------------
(***************************************************************************)
(* Proofs about Dashboard, for any number of documents, searches, uploads  *)
(* and requests in flight, and however often anything happens.             *)
(***************************************************************************)
EXTENDS Dashboard, TLAPS

\* What a request may be.
LEMMA RequestFacts ==
  /\ Idle \in Request
  /\ \A t \in Texts : Sent(t) \in Request
  /\ \A rows \in Lists : Answered(rows) \in Request
BY DEF Request

\* The rows that a search finds are rows of the server.
LEMMA ListingFacts ==
  ASSUME server \in Lists, NEW text \in Texts
  PROVE  Listing(text) \in Lists
<1> DEFINE E == {d \in DOMAIN server : Finds(text, d)}
<1>1. PICK D \in SUBSET Docs : server \in [D -> Row]
  BY DEF Lists
<1>2. E \in SUBSET Docs /\ \A d \in E : server[d] \in Row
  BY <1>1
<1>3. Listing(text) \in [E -> Row]
  BY <1>2 DEF Listing
<1> QED
  BY <1>2, <1>3 DEF Lists

\* A row that is written leaves the server a list of rows.
LEMMA PutFacts ==
  ASSUME server \in Lists, NEW d \in Docs, NEW row \in Row, Put(d, row)
  PROVE  server' \in Lists
<1>1. PICK D \in SUBSET Docs : server \in [D -> Row]
  BY DEF Lists
<1>2. server' \in [D \cup {d} -> Row]
  BY <1>1 DEF Put
<1> QED
  BY <1>2 DEF Lists

\* The documents change as their rows allow, whatever the page is doing.
LEMMA ServerStep ==
  ASSUME DashboardTypeOK, NEW d \in Docs,
         Arrive(d) \/ ReadOut(d) \/ \E s \in Statuses : SetStatus(d, s)
  PROVE  DashboardTypeOK' /\ server' # server
<1>1. \A e \in DOMAIN server : server[e] \in Row
  BY DEF DashboardTypeOK, Lists
<1>2. UNCHANGED pageVars
  BY DEF Arrive, ReadOut, SetStatus
<1>3. PICK row \in Row : Put(d, row) /\ (d \in DOMAIN server => row # server[d])
  <2>1. CASE Arrive(d)
    BY <2>1, DashboardAssumption DEF Arrive, Row
  <2>2. CASE ReadOut(d)
    <3>1. PICK old \in Row : old = server[d] /\ ~old.read
      BY <1>1, <2>2 DEF ReadOut
    <3>2. [old EXCEPT !.read = TRUE] \in Row /\ [old EXCEPT !.read = TRUE].read
      BY <3>1 DEF Row
    <3> QED
      BY <2>2, <3>1, <3>2 DEF ReadOut
  <2>3. CASE \E s \in Statuses : SetStatus(d, s)
    <3>1. PICK s \in Statuses : SetStatus(d, s)
      BY <2>3
    <3>2. PICK old \in Row : old = server[d] /\ old.status # s
      BY <1>1, <3>1 DEF SetStatus
    <3>3. [old EXCEPT !.status = s] \in Row /\ [old EXCEPT !.status = s].status = s
      BY <3>2 DEF Row
    <3> QED
      BY <3>1, <3>2, <3>3 DEF SetStatus
  <2> QED
    BY <2>1, <2>2, <2>3
<1>4. server' \in Lists
  BY <1>3, PutFacts DEF DashboardTypeOK
<1>5. server'[d] = row /\ d \in DOMAIN server'
  BY <1>3 DEF Put
<1> QED
  BY <1>2, <1>3, <1>4, <1>5 DEF DashboardTypeOK, pageVars

\* The page's own steps, and the answers.
LEMMA PageStep ==
  ASSUME DashboardTypeOK,
         \/ \E t \in Texts : Type(t)
         \/ Debounce \/ Poll
         \/ \E u \in Uploads : StartUpload(u) \/ EndUpload(u)
         \/ \E r \in Requests : Answer(r) \/ Receive(r) \/ RequestFails(r)
  PROVE  DashboardTypeOK'
<1>1. CASE \E t \in Texts : Type(t)
  BY <1>1 DEF DashboardTypeOK, Type
<1>2. CASE Debounce \/ Poll
  BY <1>2, RequestFacts DEF DashboardTypeOK, Debounce, Poll, Refresh
<1>3. ASSUME NEW u \in Uploads, StartUpload(u) PROVE DashboardTypeOK'
  BY <1>3 DEF DashboardTypeOK, StartUpload
<1>4. ASSUME NEW u \in Uploads, EndUpload(u) PROVE DashboardTypeOK'
  <2>1. upload[u] \in Texts /\ upload' \in [Uploads -> Texts \cup {Loading}]
    BY <1>4 DEF DashboardTypeOK, EndUpload
  <2>2. request' \in [Requests -> Request]
    BY <1>4, <2>1, RequestFacts DEF DashboardTypeOK, EndUpload, Refresh
  <2> QED
    BY <1>4, <2>1, <2>2 DEF DashboardTypeOK, EndUpload
<1>5. ASSUME NEW r \in Requests, Answer(r) PROVE DashboardTypeOK'
  <2>1. PICK t \in Texts : request[r] = Sent(t)
    BY <1>5 DEF DashboardTypeOK, Request, Answer, Idle, Answered
  <2>2. request[r].text = t
    BY <2>1 DEF Sent
  <2>3. Answered(Listing(t)) \in Request
    BY ListingFacts, RequestFacts DEF DashboardTypeOK
  <2> QED
    BY <1>5, <2>2, <2>3 DEF DashboardTypeOK, Answer
<1>6. ASSUME NEW r \in Requests, Receive(r) PROVE DashboardTypeOK'
  <2>1. PICK rows \in Lists : request[r] = Answered(rows)
    BY <1>6 DEF DashboardTypeOK, Request, Receive, Idle, Sent
  <2>2. request[r].rows = rows
    BY <2>1 DEF Answered
  <2> QED
    BY <1>6, <2>2, RequestFacts DEF DashboardTypeOK, Receive
<1>7. ASSUME NEW r \in Requests, RequestFails(r) PROVE DashboardTypeOK'
  BY <1>7, RequestFacts DEF DashboardTypeOK, RequestFails
<1> QED
  BY <1>1, <1>2, <1>3, <1>4, <1>5, <1>6, <1>7


\* Requests hold rows of documents that are there, or a search; the page too.
THEOREM PageTyped == Spec => []DashboardTypeOK
<1>1. Init => DashboardTypeOK
  BY RequestFacts, DashboardAssumption DEF Init, DashboardTypeOK
<1>2. DashboardTypeOK /\ [Next]_vars => DashboardTypeOK'
  <2> SUFFICES ASSUME DashboardTypeOK, [Next]_vars PROVE DashboardTypeOK'
    OBVIOUS
  <2>1. CASE UNCHANGED vars
    BY <2>1 DEF vars, DashboardTypeOK
  <2>2. CASE \E d \in Docs : Arrive(d) \/ ReadOut(d) \/ \E s \in Statuses : SetStatus(d, s)
    BY <2>2, ServerStep
  <2> QED
    BY <2>1, <2>2, PageStep DEF Next
<1> QED
  BY <1>1, <1>2, PTL DEF Spec

\* A refresh of a render whose query is in the box keeps the page in step.
LEMMA RefreshInStep ==
  ASSUME DashboardTypeOK, InStep, NEW text, text = search, Refresh(text)
  PROVE  \A r \in Requests : request'[r] \in {Idle, Sent(search), Answered(Listing(search))}
BY DEF DashboardTypeOK, InStep, Refresh

\* OnlyNewsUnsettles: a page that shows what the server has for the search in
\* the box goes on doing so until a document or the search changes.
THEOREM StaysInStep == Spec => OnlyNewsUnsettles
<1>1. DashboardTypeOK /\ [Next]_vars
        => [InStep /\ UNCHANGED <<server, search>> => InStep']_vars
  <2> SUFFICES ASSUME DashboardTypeOK, Next, InStep, UNCHANGED <<server, search>>
               PROVE  InStep'
    OBVIOUS
  <2> DEFINE Fitting(x) == x \in {Idle, Sent(search), Answered(Listing(search))}
  <2>1. Listing(search)' = Listing(search)
    BY DEF Listing, Finds
  <2>2. ASSUME NEW d \in Docs, Arrive(d) \/ ReadOut(d) \/ \E s \in Statuses : SetStatus(d, s)
        PROVE  FALSE
    BY <2>2, ServerStep
  <2>3. ASSUME NEW t \in Texts, Type(t) PROVE FALSE
    BY <2>3 DEF Type
  <2>4. CASE Debounce
    BY <2>4 DEF Debounce, InStep
  <2>5. ASSUME Poll PROVE InStep'
    BY <2>1, <2>5, RefreshInStep DEF Poll, InStep
  <2>6. ASSUME NEW u \in Uploads, StartUpload(u) PROVE InStep'
    BY <2>1, <2>6 DEF StartUpload, InStep, DashboardTypeOK
  <2>7. ASSUME NEW u \in Uploads, EndUpload(u) PROVE InStep'
    <3>1. upload[u] = search
      BY <2>7 DEF EndUpload, InStep
    <3>2. \A r \in Requests : Fitting(request'[r])
      BY <2>7, <3>1, RefreshInStep DEF EndUpload, InStep
    <3> QED
      BY <2>1, <2>7, <3>2 DEF EndUpload, InStep, DashboardTypeOK
  <2>8. ASSUME NEW r \in Requests, Answer(r) PROVE InStep'
    <3>1. request[r] = Sent(search)
      BY <2>8 DEF Answer, InStep, Idle, Answered
    <3>2. request[r].text = search
      BY <3>1 DEF Sent
    <3>3. request' = [request EXCEPT ![r] = Answered(Listing(search))]
      BY <2>8, <3>2 DEF Answer
    <3> QED
      BY <2>1, <2>8, <3>3 DEF Answer, InStep, DashboardTypeOK
  <2>9. ASSUME NEW r \in Requests, Receive(r) PROVE InStep'
    <3>1. request[r] = Answered(Listing(search))
      BY <2>9 DEF Receive, InStep, Idle, Sent
    <3>2. request[r].rows = Listing(search)
      BY <3>1 DEF Answered
    <3> QED
      BY <2>1, <2>9, <3>2 DEF Receive, InStep, DashboardTypeOK
  <2>10. ASSUME NEW r \in Requests, RequestFails(r) PROVE InStep'
    BY <2>1, <2>10 DEF RequestFails, InStep, DashboardTypeOK
  <2> QED
    BY <2>2, <2>3, <2>4, <2>5, <2>6, <2>7, <2>8, <2>9, <2>10 DEF Next
<1> QED
  BY <1>1, PageTyped, PTL DEF Spec, OnlyNewsUnsettles
=============================================================================
