------------------------------- MODULE Login -------------------------------
(***************************************************************************)
(* The login route (server/src/app.ts) and the waiting times it imposes on *)
(* an account after failed logins (server/src/security/rateLimit.ts).      *)
(*                                                                         *)
(* A request passes the gate, awaits the user's row, and only then notes   *)
(* success or failure: requests for one account overlap.  Times are kept   *)
(* relative to now, so that time may go on for ever.  The limit per        *)
(* address is left out: it only turns requests away before they start.     *)
(***************************************************************************)
EXTENDS Integers

CONSTANTS
  Accounts,
  Requests,    \* how many logins may overlap
  FreeFails,   \* LOGIN_BACKOFF_FREE_FAILS
  Base,        \* LOGIN_BACKOFF_BASE_SECONDS
  MaxDelay,    \* LOGIN_BACKOFF_MAX_SECONDS
  Hour,        \* the period of the sweep, and the age it sweeps at
  MaxCount,    \* bound: failures are counted up to here
  NoAccount

ASSUME LoginAssumption ==
  /\ NoAccount \notin Accounts
  /\ FreeFails \in Nat /\ MaxDelay \in Nat /\ Hour \in Nat /\ MaxCount \in Nat

VARIABLES
  failures,    \* the map: account -> [count, left]; left: time until nextAllowedAt
  login,       \* the account each request is waiting for, or NoAccount
  swept        \* time since the sweep ran last

loginVars == <<failures, login, swept>>

\* A wait that ended more than an hour ago, or never was imposed.
LongAgo == -(Hour + 1)

LoginTypeOK ==
  /\ DOMAIN failures \subseteq Accounts
  /\ \A a \in DOMAIN failures :
       failures[a] \in [count : 1 .. MaxCount, left : LongAgo .. MaxDelay]
  /\ login \in [Requests -> Accounts \cup {NoAccount}]
  /\ swept \in 0 .. Hour

NoFailures == [a \in {} |-> 0]

LoginInit ==
  /\ failures = NoFailures
  /\ login = [r \in Requests |-> NoAccount]
  /\ swept = 0

\* loginGate
Blocked(a) == a \in DOMAIN failures /\ failures[a].left > 0

Failures(a) == IF a \in DOMAIN failures THEN failures[a] ELSE [count |-> 0, left |-> LongAgo]
Without(as) == [a \in DOMAIN failures \ as |-> failures[a]]
Smaller(m, n) == IF m <= n THEN m ELSE n

\* Mutant of Delay: no cap.
DelayUncapped(extra) == Base * 2^(extra - 1)

Delay(extra) == Smaller(MaxDelay, Base * 2^(extra - 1))

\* Counting stops where the delay has reached its cap: no count beyond differs.
\* That powers of two are numbers and grow is said for the sake of the proofs.
ASSUME DelayAssumption ==
  /\ MaxCount > FreeFails /\ Base * 2^(MaxCount - FreeFails - 1) >= MaxDelay
  /\ \A e \in 1 .. MaxCount : Base * 2^(e - 1) \in Nat
  /\ \A e, f \in 1 .. MaxCount : e <= f => Base * 2^(e - 1) <= Base * 2^(f - 1)

noteLoginFailure(a) ==
  LET count == Smaller(Failures(a).count + 1, MaxCount)
      left == IF count > FreeFails THEN Delay(count - FreeFails) ELSE Failures(a).left
  IN failures' = [b \in DOMAIN failures \cup {a} |->
                    IF b = a THEN [count |-> count, left |-> left] ELSE failures[b]]

noteLoginSuccess(a) == failures' = Without({a})

\* A request past the gate; one that is blocked is answered at once.
Ask(r, a) ==
  /\ login[r] = NoAccount
  /\ ~Blocked(a)
  /\ login' = [login EXCEPT ![r] = a]
  /\ UNCHANGED <<failures, swept>>

Leave(r) == login[r] # NoAccount /\ login' = [login EXCEPT ![r] = NoAccount]

WrongPassword(r) == Leave(r) /\ noteLoginFailure(login[r]) /\ UNCHANGED swept

RightPassword(r) == Leave(r) /\ noteLoginSuccess(login[r]) /\ UNCHANGED swept

\* The database call throws: neither success nor failure is noted.
LookupFails(r) == Leave(r) /\ UNCHANGED <<failures, swept>>

\* Mutants of Sweep: it empties the map; it forgets only waits, not mere counts.
SweepAll ==
  /\ swept >= Hour
  /\ swept' = 0
  /\ failures' = NoFailures
  /\ UNCHANGED login
SweepWaits ==
  /\ swept >= Hour
  /\ swept' = 0
  /\ failures' = Without({a \in DOMAIN failures :
                            failures[a].left < -Hour /\ failures[a].count > FreeFails})
  /\ UNCHANGED login

\* The hourly sweep; its timer may be late.
Sweep ==
  /\ swept >= Hour
  /\ swept' = 0
  /\ failures' = Without({a \in DOMAIN failures : failures[a].left < -Hour})
  /\ UNCHANGED login

\* A unit of time goes by.
LoginElapse ==
  /\ failures' = [a \in DOMAIN failures |->
                    [failures[a] EXCEPT !.left = IF @ > LongAgo THEN @ - 1 ELSE @]]
  /\ swept' = Smaller(swept + 1, Hour)
  /\ UNCHANGED login

LoginNext ==
  \/ \E r \in Requests, a \in Accounts : Ask(r, a)
  \/ \E r \in Requests : WrongPassword(r) \/ RightPassword(r) \/ LookupFails(r)
  \/ Sweep
=============================================================================
