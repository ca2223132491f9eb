----------------------------- MODULE Dashboard -----------------------------
(***************************************************************************)
(* The documents page (web/app/page.tsx) against a server whose documents  *)
(* arrive and change: the debounced search, the poll every three seconds,  *)
(* the refresh after an upload, and responses that arrive in any order.    *)
(*                                                                         *)
(* The filter chips select among the rows of docs and change no state that *)
(* is modelled.  A 401 leaves the page (web/lib/api.ts) and ends the model.*)
(***************************************************************************)
CONSTANTS
  Docs,
  Statuses,     \* those of Workflow, or the few of them that a run needs
  Texts,        \* what people search for
  Blank,        \* the empty search
  NameHas,      \* [Texts -> SUBSET Docs]: where the text is in the file's name
  ReadingHas,   \* [Texts -> SUBSET Docs]: where it is in what the AI reads
  Requests,     \* bound: requests of the page in flight at once
  Uploads,      \* bound: uploads under way at once
  Loading       \* docs before the first answer

ASSUME DashboardAssumption ==
  /\ "QUEUED" \in Statuses
  /\ Blank \in Texts /\ Loading \notin Texts
  /\ NameHas \in [Texts -> SUBSET Docs]
  /\ ReadingHas \in [Texts -> SUBSET Docs]

VARIABLES
  server,    \* the documents' rows, for each document that has one
  search,    \* what the user has typed
  q,         \* the debounced copy
  docs,      \* the rows on the page
  error,     \* whether the page says that a request failed
  request,   \* [pc, text, rows] of each request in flight
  upload     \* the search at the time each upload began, or Loading

vars == <<server, search, q, docs, error, request, upload>>

\* A document's row, and whether it has an Extraction.
Row == [status : Statuses, read : BOOLEAN]
Lists == UNION {[D -> Row] : D \in SUBSET Docs}

\* The "where" of the query.  The empty search has none.
Finds(text, d) ==
  \/ text = Blank
  \/ d \in NameHas[text]
  \/ d \in ReadingHas[text] /\ server[d].read

\* GET /api/documents?q=
Listing(text) == [d \in {d \in DOMAIN server : Finds(text, d)} |-> server[d]]

Nothing == [d \in {} |-> {}]
Idle == [pc |-> "idle", text |-> Blank, rows |-> Nothing]
Sent(text) == [pc |-> "sent", text |-> text, rows |-> Nothing]
\* An answer does not say which search it is to.
Answered(rows) == [pc |-> "answered", text |-> Blank, rows |-> rows]

Request == {Idle} \cup {Sent(t) : t \in Texts} \cup {Answered(rows) : rows \in Lists}

DashboardTypeOK ==
  /\ server \in Lists
  /\ search \in Texts /\ q \in Texts
  /\ docs \in Lists \cup {Loading}
  /\ error \in BOOLEAN
  /\ request \in [Requests -> Request]
  /\ upload \in [Uploads -> Texts \cup {Loading}]

\* The page is opened on a server in any state, and asks at once.
Init ==
  /\ server \in Lists
  /\ search = Blank /\ q = Blank
  /\ docs = Loading /\ error = FALSE
  /\ \E r \in Requests : request = [s \in Requests |-> IF s = r THEN Sent(Blank) ELSE Idle]
  /\ upload = [u \in Uploads |-> Loading]

pageVars == <<search, q, docs, error, request, upload>>

Put(d, row) == server' = [e \in DOMAIN server \cup {d} |-> IF e = d THEN row ELSE server[e]]

\* Mutant of Arrive: the row is created without a status, and gets the default
\* of the schema.
ArriveByDefault(d) ==
  /\ d \notin DOMAIN server
  /\ Put(d, [status |-> "RECEIVED", read |-> FALSE])
  /\ UNCHANGED pageVars

\* A file is ingested, from a mail or from an upload of this page or another.
Arrive(d) ==
  /\ d \notin DOMAIN server
  /\ Put(d, [status |-> "QUEUED", read |-> FALSE])
  /\ UNCHANGED pageVars

\* The pipeline stores what the AI has read.
ReadOut(d) ==
  /\ d \in DOMAIN server /\ ~server[d].read
  /\ Put(d, [server[d] EXCEPT !.read = TRUE])
  /\ UNCHANGED pageVars

\* The pipeline, the queue or a person changes the status, also back.
SetStatus(d, s) ==
  /\ d \in DOMAIN server /\ server[d].status # s
  /\ Put(d, [server[d] EXCEPT !.status = s])
  /\ UNCHANGED pageVars

Type(t) ==
  /\ t # search
  /\ search' = t
  /\ UNCHANGED <<server, q, docs, error, request, upload>>

\* refresh, of the render whose query is text
Refresh(text) == \E r \in Requests :
  /\ request[r] = Idle
  /\ request' = [request EXCEPT ![r] = Sent(text)]

\* The typing has paused: q changes, and with it the page refreshes and
\* starts a timer of its own in place of the old one.
Debounce ==
  /\ q # search
  /\ q' = search
  /\ Refresh(search)
  /\ UNCHANGED <<server, search, docs, error, upload>>

\* Mutant of Poll: the timer keeps the refresh of the first render.
PollFirstRender ==
  /\ Refresh(Blank)
  /\ UNCHANGED <<server, search, q, docs, error, upload>>

Poll ==
  /\ Refresh(q)
  /\ UNCHANGED <<server, search, q, docs, error, upload>>

\* Mutant of StartUpload: ingest is memoised and keeps the first refresh.
StartUploadMemoised(u) ==
  /\ upload[u] = Loading
  /\ upload' = [upload EXCEPT ![u] = Blank]
  /\ UNCHANGED <<server, search, q, docs, error, request>>

\* An upload keeps the refresh of the render in which it began.  A file can be
\* dropped on the page while another is being uploaded.
StartUpload(u) ==
  /\ upload[u] = Loading
  /\ upload' = [upload EXCEPT ![u] = q]
  /\ UNCHANGED <<server, search, q, docs, error, request>>

\* Taken or refused; the document, if one came of it, is on the server already.
EndUpload(u) ==
  /\ upload[u] # Loading
  /\ upload' = [upload EXCEPT ![u] = Loading]
  /\ Refresh(upload[u]) \/ UNCHANGED request
  /\ UNCHANGED <<server, search, q, docs, error>>

\* The server reads the database.
Answer(r) ==
  /\ request[r].pc = "sent"
  /\ request' = [request EXCEPT ![r] = Answered(Listing(request[r].text))]
  /\ UNCHANGED <<server, search, q, docs, error, upload>>

\* The page takes whatever answer arrives.
Receive(r) ==
  /\ request[r].pc = "answered"
  /\ docs' = request[r].rows
  /\ error' = FALSE
  /\ request' = [request EXCEPT ![r] = Idle]
  /\ UNCHANGED <<server, search, q, upload>>

\* The page says so and keeps the rows it has.
RequestFails(r) ==
  /\ request[r] # Idle
  /\ error' = TRUE
  /\ request' = [request EXCEPT ![r] = Idle]
  /\ UNCHANGED <<server, search, q, docs, upload>>

Next ==
  \/ \E d \in Docs : Arrive(d) \/ ReadOut(d) \/ \E s \in Statuses : SetStatus(d, s)
  \/ \E t \in Texts : Type(t)
  \/ Debounce \/ Poll
  \/ \E u \in Uploads : StartUpload(u) \/ EndUpload(u)
  \/ \E r \in Requests : Answer(r) \/ Receive(r) \/ RequestFails(r)

(***************************************************************************)
(* The timers of the page fire, and the server answers.  Nobody has to     *)
(* type, to upload or to change a document, and nothing has to fail.       *)
(* Strong fairness of Debounce only makes up for the bound on Requests: in *)
(* the browser no poll can take the place of another request.              *)
(***************************************************************************)
Fairness ==
  /\ SF_vars(Debounce) /\ WF_vars(Poll)
  /\ \A r \in Requests : WF_vars(Answer(r)) /\ WF_vars(Receive(r))

Spec == Init /\ [][Next]_vars /\ Fairness

-----------------------------------------------------------------------------
(* Properties *)

\* What the page shows, and whatever is on its way to it, is what the server has
\* for the search in the box.
InStep ==
  /\ q = search
  /\ docs = Listing(search)
  /\ \A r \in Requests : request[r] \in {Idle, Sent(search), Answered(Listing(search))}
  /\ \A u \in Uploads : upload[u] \in {Loading, search}

\* page.tsx:71-84, 107: a page that is in step with the server stays so until a
\* document or the search changes, whatever it polls, uploads or is refused:
\* none of the closures that call refresh holds a search other than the one in
\* the box.
OnlyNewsUnsettles == [][InStep /\ UNCHANGED <<server, search>> => InStep']_vars

\* "so the 3s poll always polls with the current search" (page.tsx:78-79): once
\* the user and the server are still and requests no longer fail, the page comes
\* to show what the server has for the search in the box, without an error, and
\* goes on so: no late answer to an older search and no refresh of an older
\* render stays.
ListCatchesUp ==
  <>[][UNCHANGED <<server, search>> /\ ~\E r \in Requests : RequestFails(r)]_vars
    => <>[](docs = Listing(search) /\ ~error)
=============================================================================
