------------------------------- MODULE Memory -------------------------------
(***************************************************************************)
(* What the server process only remembers: the waits after failed logins   *)
(* (Login) and the ERP's configuration (ErpConfig).  They share the clock, *)
(* and a restart of the process, which clears both.                        *)
(***************************************************************************)
EXTENDS Login, ErpConfig

vars == <<failures, login, swept, cache, call>>

Init == LoginInit /\ ErpConfigInit

Tick == LoginElapse /\ ErpConfigElapse

\* The process exits and starts anew: requests under way are lost too.
Restart ==
  /\ failures' = NoFailures
  /\ login' = [r \in Requests |-> NoAccount]
  /\ swept' = 0
  /\ cache' = NoEntry
  /\ call' = [c \in Callers |-> NoCall]

Next ==
  \/ LoginNext /\ UNCHANGED erpConfigVars
  \/ ErpConfigNext /\ UNCHANGED loginVars
  \/ Tick
  \/ Restart

\* Time goes on, the timer of the sweep fires, queries end one way or another.
Fairness ==
  /\ WF_vars(Tick)
  /\ WF_vars(Sweep /\ UNCHANGED erpConfigVars)
  /\ \A c \in Callers : WF_vars((Answer(c) \/ Keep(c)) /\ UNCHANGED loginVars)

Spec == Init /\ [][Next]_vars /\ Fairness

-----------------------------------------------------------------------------
(* Properties *)

\* "Deliberately a growing delay, NOT a hard lockout" (rateLimit.ts:15-17): no
\* number of failures, overlapping ones included, makes anybody wait longer
\* than the cap from now.
WaitsAreBounded == LoginTypeOK /\ \A a \in DOMAIN failures : failures[a].left <= MaxDelay

\* A wait that was imposed stands until it is over: neither the sweep nor a
\* failure of another request that passed the gate before shortens it; only a
\* login that succeeds does, and a restart of the process.
WaitsStand == [][
  \A a \in Accounts : Blocked(a) =>
    \/ \E r \in Requests : login[r] = a /\ RightPassword(r)
    \/ Restart
    \/ a \in DOMAIN failures' /\ (Tick \/ failures'[a].left >= failures[a].left)
  ]_vars

\* "accounts that never come back don't grow the map forever" (rateLimit.ts:48):
\* an account nobody logs in to any more leaves the map, one that never had to
\* wait included.
QuietAccountsAreForgotten == \A a \in Accounts :
  <>[](\A r \in Requests : login[r] # a) => <>[](a \notin DOMAIN failures)

\* "a 60s cache" (erpClient.ts:31): a call goes to the ERP that the row names,
\* or named within the life of an entry and the time of a query, also when a
\* slow query overwrites the entry of a faster one.
NeverLongStale ==
  /\ ErpConfigTypeOK
  /\ cache.replaced < Outdated
  /\ \A c \in Callers : call[c].replaced <= MaxRead
=============================================================================
