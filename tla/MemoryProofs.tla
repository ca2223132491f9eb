---------------------------- MODULE MemoryProofs ----------------------------
(***************************************************************************)
(* Proofs about Memory, for any accounts, requests, callers and periods:   *)
(* waits are bounded and stand, and no call uses an ERP's configuration    *)
(* that was replaced long ago.                                             *)
(***************************************************************************)
EXTENDS Memory, TLAPS

\* A wait is no longer than the last failure made it: who waits has failed too
\* often, and the next failure imposes as long a wait at least.
WaitsAreEarned == \A a \in DOMAIN failures :
  failures[a].left > 0 =>
    /\ failures[a].count > FreeFails
    /\ failures[a].left <= Delay(failures[a].count - FreeFails)

LoginInv == LoginTypeOK /\ WaitsAreEarned

\* What a query brings was replaced while it was under way at the earliest, and
\* what the cache holds at most such a query before the entry was made.
ErpConfigInv ==
  /\ ErpConfigTypeOK
  /\ cache.age < Ttl => cache.replaced <= cache.age + MaxRead
  /\ cache.age = Ttl => cache.replaced = Current
  /\ \A c \in Callers : call[c].replaced <= call[c].age

-----------------------------------------------------------------------------
(* Waits *)

\* What is known of the delays.
LEMMA DelayFacts ==
  /\ \A e \in 1 .. MaxCount : Delay(e) \in 0 .. MaxDelay
  /\ \A e, f \in 1 .. MaxCount : e <= f => Delay(e) <= Delay(f)
<1> USE DelayAssumption, LoginAssumption
<1>1. ASSUME NEW e \in 1 .. MaxCount PROVE Delay(e) \in 0 .. MaxDelay
  <2>1. PICK power \in Nat : power = Base * 2^(e - 1)
    OBVIOUS
  <2> QED
    BY <2>1 DEF Delay, Smaller
<1>2. ASSUME NEW e \in 1 .. MaxCount, NEW f \in 1 .. MaxCount, e <= f
      PROVE  Delay(e) <= Delay(f)
  <2>1. PICK low \in Nat, high \in Nat :
          /\ low = Base * 2^(e - 1) /\ high = Base * 2^(f - 1) /\ low <= high
    BY <1>2
  <2> QED
    BY <2>1 DEF Delay, Smaller
<1> QED
  BY <1>1, <1>2

\* A failure counts, and imposes a wait that is earned and no shorter than the
\* one it replaces.
LEMMA FailureStep ==
  ASSUME LoginInv, NEW a \in Accounts, noteLoginFailure(a)
  PROVE  /\ DOMAIN failures' = DOMAIN failures \cup {a}
         /\ \A b \in DOMAIN failures \ {a} : failures'[b] = failures[b]
         /\ failures'[a] \in [count : 1 .. MaxCount, left : LongAgo .. MaxDelay]
         /\ failures'[a].left > 0 =>
              /\ failures'[a].count > FreeFails
              /\ failures'[a].left <= Delay(failures'[a].count - FreeFails)
         /\ Blocked(a) => failures'[a].left >= failures[a].left
<1> USE LoginAssumption, DelayAssumption DEF LoginInv, LoginTypeOK
<1> DEFINE count == Smaller(Failures(a).count + 1, MaxCount)
           left == IF count > FreeFails THEN Delay(count - FreeFails) ELSE Failures(a).left
<1>1. failures' = [b \in DOMAIN failures \cup {a} |->
                     IF b = a THEN [count |-> count, left |-> left] ELSE failures[b]]
  BY DEF noteLoginFailure
<1>2. PICK old \in [count : 0 .. MaxCount, left : LongAgo .. MaxDelay] :
        /\ old = Failures(a)
        /\ old.left > 0 => /\ a \in DOMAIN failures /\ old.count > FreeFails
                           /\ old.left <= Delay(old.count - FreeFails)
        /\ a \in DOMAIN failures => old = failures[a]
  <2>1. CASE a \in DOMAIN failures
    <3>1. Failures(a) = failures[a]
      BY <2>1 DEF Failures
    <3>2. failures[a] \in [count : 0 .. MaxCount, left : LongAgo .. MaxDelay]
      BY <2>1
    <3> QED
      BY <2>1, <3>1, <3>2 DEF WaitsAreEarned
  <2>2. CASE a \notin DOMAIN failures
    <3>1. Failures(a) = [count |-> 0, left |-> LongAgo] /\ ~(LongAgo > 0)
      BY <2>2 DEF Failures, LongAgo
    <3>2. Failures(a) \in [count : 0 .. MaxCount, left : LongAgo .. MaxDelay]
      BY <3>1 DEF LongAgo
    <3> QED
      BY <2>2, <3>1, <3>2
  <2> QED
    BY <2>1, <2>2
<1>3. PICK new \in 1 .. MaxCount :
        /\ new = count
        /\ new >= old.count
        /\ \/ new = old.count + 1
           \/ new = MaxCount
  BY <1>2 DEF Smaller
<1>4. new > FreeFails => new - FreeFails \in 1 .. MaxCount
  OBVIOUS
<1>5. left \in LongAgo .. MaxDelay
  BY <1>2, <1>3, <1>4, DelayFacts DEF LongAgo
<1>6. left > 0 => new > FreeFails /\ left <= Delay(new - FreeFails)
  BY <1>2, <1>3, <1>4, DelayFacts
<1>7. Blocked(a) => left >= old.left
  <2> SUFFICES ASSUME Blocked(a) PROVE left >= old.left
    OBVIOUS
  <2>1. old.left > 0 /\ old.count > FreeFails /\ old.left <= Delay(old.count - FreeFails)
    BY <1>2 DEF Blocked
  <2>2. new > FreeFails /\ old.count - FreeFails \in 1 .. MaxCount
    BY <1>3, <2>1
  <2>3. Delay(old.count - FreeFails) <= Delay(new - FreeFails)
    BY <1>3, <1>4, <2>2, DelayFacts
  <2>4. left = Delay(new - FreeFails)
    BY <1>3, <2>2
  <2> QED
    BY <1>4, <2>1, <2>2, <2>3, <2>4, DelayFacts DEF LongAgo
<1>8. failures'[a] = [count |-> new, left |-> left]
  BY <1>1, <1>3
<1> HIDE DEF count, left
<1> QED
  BY <1>1, <1>2, <1>5, <1>6, <1>7, <1>8 DEF Blocked

\* Forgetting accounts takes nothing from the others.
LEMMA ForgetStep ==
  ASSUME LoginInv, NEW as, failures' = Without(as), UNCHANGED <<swept>>,
         login' \in [Requests -> Accounts \cup {NoAccount}]
  PROVE  LoginInv'
BY DEF LoginInv, LoginTypeOK, WaitsAreEarned, Without, Delay, Smaller

\* Time takes from every wait alike.
LEMMA LoginElapseStep ==
  ASSUME LoginInv, LoginElapse
  PROVE  /\ LoginInv'
         /\ DOMAIN failures' = DOMAIN failures
<1> USE LoginAssumption DEF LoginInv, LoginTypeOK
<1>1. /\ DOMAIN failures' = DOMAIN failures /\ login' = login
      /\ \A a \in DOMAIN failures :
           /\ failures'[a].count = failures[a].count
           /\ failures'[a].left = IF failures[a].left > LongAgo THEN failures[a].left - 1
                                  ELSE failures[a].left
           /\ failures'[a] \in [count : 1 .. MaxCount, left : LongAgo .. MaxDelay]
  BY DEF LoginElapse, LongAgo
<1>2. swept' \in 0 .. Hour
  BY DEF LoginElapse, Smaller
<1>3. WaitsAreEarned'
  <2> SUFFICES ASSUME NEW a \in DOMAIN failures', failures'[a].left > 0
               PROVE  /\ failures'[a].count > FreeFails
                      /\ failures'[a].left <= Delay(failures'[a].count - FreeFails)
    BY DEF WaitsAreEarned, Delay, Smaller
  <2>1. PICK rest \in LongAgo .. MaxDelay, made \in 1 .. MaxCount :
          rest = failures[a].left /\ made = failures[a].count
    BY <1>1
  <2>2. rest > 0 /\ failures'[a].left <= rest /\ failures'[a].left \in Int
    BY <1>1, <2>1 DEF LongAgo
  <2>3. made > FreeFails /\ rest <= Delay(made - FreeFails)
    BY <1>1, <2>1, <2>2 DEF WaitsAreEarned
  <2>4. Delay(made - FreeFails) \in Int
    BY <2>3, DelayFacts
  <2> QED
    BY <1>1, <2>1, <2>2, <2>3, <2>4
<1> QED
  BY <1>1, <1>2, <1>3

\* No step of a login or of the sweep disturbs what is known of the waits.
LEMMA LoginStep == LoginInv /\ LoginNext => LoginInv'
<1> SUFFICES ASSUME LoginInv, LoginNext PROVE LoginInv'
  OBVIOUS
<1> USE LoginAssumption DEF LoginInv, LoginTypeOK
<1>1. ASSUME NEW r \in Requests, NEW a \in Accounts, Ask(r, a) PROVE LoginInv'
  BY <1>1 DEF Ask, WaitsAreEarned, Delay, Smaller
<1>2. ASSUME NEW r \in Requests, WrongPassword(r) PROVE LoginInv'
  <2>1. PICK a \in Accounts : noteLoginFailure(a)
    BY <1>2 DEF WrongPassword, Leave
  <2>2. swept' = swept /\ login' \in [Requests -> Accounts \cup {NoAccount}]
    BY <1>2 DEF WrongPassword, Leave
  <2>3. /\ DOMAIN failures' = DOMAIN failures \cup {a}
        /\ \A b \in DOMAIN failures \ {a} : failures'[b] = failures[b]
        /\ failures'[a] \in [count : 1 .. MaxCount, left : LongAgo .. MaxDelay]
        /\ failures'[a].left > 0 =>
             /\ failures'[a].count > FreeFails
             /\ failures'[a].left <= Delay(failures'[a].count - FreeFails)
    BY <2>1, FailureStep
  <2>4. WaitsAreEarned'
    BY <2>3 DEF WaitsAreEarned
  <2> QED
    BY <2>2, <2>3, <2>4
<1>3. ASSUME NEW r \in Requests, RightPassword(r) PROVE LoginInv'
  BY <1>3, ForgetStep DEF RightPassword, Leave, noteLoginSuccess
<1>4. ASSUME NEW r \in Requests, LookupFails(r) PROVE LoginInv'
  BY <1>4 DEF LookupFails, Leave, WaitsAreEarned, Delay, Smaller
<1>5. ASSUME Sweep PROVE LoginInv'
  <2>1. PICK as : failures' = Without(as)
    BY <1>5 DEF Sweep
  <2>2. \A a \in DOMAIN failures' : a \in DOMAIN failures /\ failures'[a] = failures[a]
    BY <2>1 DEF Without
  <2> QED
    BY <1>5, <2>2 DEF Sweep, WaitsAreEarned, Delay, Smaller
<1> QED
  BY <1>1, <1>2, <1>3, <1>4, <1>5 DEF LoginNext

-----------------------------------------------------------------------------
(* The ERP's configuration *)

\* An entry is kept only while it is used.
LEMMA EntryFacts ==
  ASSUME NEW age \in 0 .. Ttl, NEW replaced \in Replaced
  PROVE  /\ Entry(age, replaced) \in [age : 0 .. Ttl, replaced : Replaced]
         /\ Entry(age, replaced).age = age
         /\ age < Ttl => Entry(age, replaced).replaced = replaced
         /\ age = Ttl => Entry(age, replaced).replaced = Current
BY ErpConfigAssumption DEF Entry, NoEntry, Replaced, Current, Outdated

\* Replacing a configuration, and time going by.
LEMMA ReplacedFacts ==
  ASSUME NEW replaced \in Replaced
  PROVE  /\ Superseded(replaced) \in Replaced /\ Later(replaced) \in Replaced
         /\ replaced \in Int
         /\ Superseded(replaced) = 0 \/ Superseded(replaced) = replaced
         /\ Later(replaced) <= replaced + 1
BY ErpConfigAssumption DEF Replaced, Current, Outdated, Superseded, Later

\* What is known of the configurations is never disturbed by the client or by
\* whoever changes the row.
LEMMA ErpConfigStep == ErpConfigInv /\ ErpConfigNext => ErpConfigInv'
<1> SUFFICES ASSUME ErpConfigInv, ErpConfigNext PROVE ErpConfigInv'
  OBVIOUS
<1> USE ErpConfigAssumption DEF ErpConfigInv, ErpConfigTypeOK
<1>1. ASSUME Reconfigure PROVE ErpConfigInv'
  <2>1. cache' = Entry(cache.age, Superseded(cache.replaced))
    BY <1>1 DEF Reconfigure
  <2>2. /\ cache'.age = cache.age /\ cache' \in [age : 0 .. Ttl, replaced : Replaced]
        /\ cache.age < Ttl => cache'.replaced = Superseded(cache.replaced)
        /\ cache.age = Ttl => cache'.replaced = Current
    BY <2>1, EntryFacts, ReplacedFacts
  <2>3. ASSUME NEW c \in Callers
        PROVE  /\ call'[c] \in [pc : {"idle", "query", "answered"}, age : 0 .. MaxRead,
                                replaced : Replaced]
               /\ call'[c].replaced <= call'[c].age
    BY <1>1, ReplacedFacts DEF Reconfigure
  <2>4. call' \in [Callers -> [pc : {"idle", "query", "answered"}, age : 0 .. MaxRead,
                               replaced : Replaced]]
    BY <1>1, <2>3 DEF Reconfigure
  <2> QED
    BY <2>2, <2>3, <2>4, ReplacedFacts
<1>2. ASSUME NEW c \in Callers, Resolve(c) \/ Answer(c) PROVE ErpConfigInv'
  BY <1>2 DEF Resolve, Answer
<1>3. ASSUME NEW c \in Callers, Keep(c) PROVE ErpConfigInv'
  <2>1. call' = [call EXCEPT ![c] = NoCall] /\ cache' = Entry(0, call[c].replaced)
    BY <1>3 DEF Keep
  <2>2. NoCall \in [pc : {"idle", "query", "answered"}, age : 0 .. MaxRead,
                     replaced : Replaced]
        /\ NoCall.replaced <= NoCall.age
    BY DEF NoCall, Current, Replaced, Outdated
  <2>3. /\ cache'.age = 0 /\ cache' \in [age : 0 .. Ttl, replaced : Replaced]
        /\ 0 < Ttl => cache'.replaced = call[c].replaced
        /\ 0 = Ttl => cache'.replaced = Current
    BY <2>1, EntryFacts
  <2>4. PICK age \in 0 .. MaxRead, replaced \in Replaced :
          /\ age = call[c].age /\ replaced = call[c].replaced /\ replaced <= age
    BY <1>3 DEF Keep
  <2>5. replaced <= 0 + MaxRead
    BY <2>4, ReplacedFacts
  <2>6. call[c].replaced <= 0 + MaxRead
    BY <2>4, <2>5
  <2> QED
    BY <2>1, <2>2, <2>3, <2>6
<1>4. ASSUME NEW c \in Callers, ResolveFails(c) PROVE ErpConfigInv'
  BY <1>4 DEF ResolveFails, NoCall, Current, Replaced, Outdated
<1> QED
  BY <1>1, <1>2, <1>3, <1>4 DEF ErpConfigNext, Operation

\* What a query under way becomes.
Calls == [pc : {"idle", "query", "answered"}, age : 0 .. MaxRead, replaced : Replaced]

\* Neither is it by time.
LEMMA ErpConfigElapseStep == ErpConfigInv /\ ErpConfigElapse => ErpConfigInv'
<1> SUFFICES ASSUME ErpConfigInv, ErpConfigElapse PROVE ErpConfigInv'
  OBVIOUS
<1> USE ErpConfigAssumption DEF ErpConfigInv, ErpConfigTypeOK
<1>0. PICK old \in 0 .. Ttl : old = cache.age
  OBVIOUS
<1>1. PICK age \in 0 .. Ttl : /\ age = IF cache.age < Ttl THEN cache.age + 1 ELSE Ttl
                              /\ cache' = Entry(age, Later(cache.replaced))
  <2>1. (IF old < Ttl THEN old + 1 ELSE Ttl) \in 0 .. Ttl
    OBVIOUS
  <2> QED
    BY <1>0, <2>1 DEF ErpConfigElapse
<1>2. /\ cache'.age = age /\ cache' \in [age : 0 .. Ttl, replaced : Replaced]
      /\ age < Ttl => cache'.replaced = Later(cache.replaced)
      /\ age = Ttl => cache'.replaced = Current
  BY <1>1, EntryFacts, ReplacedFacts
<1>3. age < Ttl => cache'.replaced <= age + MaxRead
  <2>1. PICK gone \in Replaced : gone = cache.replaced
    OBVIOUS
  <2>2. Later(gone) <= gone + 1 /\ gone \in Int /\ Later(gone) \in Int
    BY ReplacedFacts DEF Replaced, Current, Outdated
  <2>3. ASSUME age < Ttl PROVE cache'.replaced <= age + MaxRead
    <3>1. old < Ttl /\ age = old + 1
      BY <1>0, <1>1, <2>3
    <3>2. gone <= old + MaxRead
      BY <1>0, <2>1, <3>1
    <3>3. cache'.replaced = Later(gone)
      BY <1>2, <2>1, <2>3
    <3>4. Later(gone) <= age + MaxRead
      BY <2>2, <3>1, <3>2
    <3> QED
      BY <3>3, <3>4
  <2> QED
    BY <2>3
<1>4. ASSUME NEW c \in Callers
      PROVE  /\ call'[c] \in [pc : {"idle", "query", "answered"}, age : 0 .. MaxRead,
                              replaced : Replaced]
             /\ call'[c].replaced <= call'[c].age
  <2>1. PICK taken \in 0 .. MaxRead, replaced \in Replaced :
          /\ taken = call[c].age /\ replaced = call[c].replaced /\ replaced <= taken
    OBVIOUS
  <2>2. CASE call[c].pc = "idle"
    BY <2>2 DEF ErpConfigElapse
  <2>3. CASE call[c].pc # "idle"
    <3>0. call[c].age < MaxRead
      BY <2>3 DEF ErpConfigElapse
    <3>1. taken < MaxRead /\ taken + 1 \in 0 .. MaxRead
      BY <2>1, <3>0
    <3>2. Later(replaced) \in Replaced /\ Later(replaced) <= taken + 1
      BY <2>1, ReplacedFacts
    <3>4. PICK a \in 0 .. MaxRead, b \in Replaced : a = taken + 1 /\ b = Later(replaced)
      BY <3>1, <3>2
    <3>5. PICK k \in Calls : k = call[c]
      BY DEF Calls
    <3>6. call'[c] = [k EXCEPT !.age = a, !.replaced = b]
      BY <2>1, <2>3, <3>4, <3>5 DEF ErpConfigElapse
    <3>7. call'[c] \in Calls /\ call'[c].age = a /\ call'[c].replaced = b
      BY <3>6 DEF Calls
    <3> QED
      BY <3>2, <3>4, <3>7 DEF Calls
  <2> QED
    BY <2>2, <2>3
<1>5. call' \in [Callers -> [pc : {"idle", "query", "answered"}, age : 0 .. MaxRead,
                             replaced : Replaced]]
  BY <1>4 DEF ErpConfigElapse
<1> QED
  BY <1>2, <1>3, <1>4, <1>5

-----------------------------------------------------------------------------
(* Theorems *)

MemoryInv == LoginInv /\ ErpConfigInv

\* A process that has just started remembers nothing.
LEMMA Fresh ==
  ASSUME failures = NoFailures, login = [r \in Requests |-> NoAccount], swept = 0,
         cache = NoEntry, call = [c \in Callers |-> NoCall]
  PROVE  MemoryInv
BY LoginAssumption, ErpConfigAssumption DEF MemoryInv, LoginInv, LoginTypeOK, WaitsAreEarned,
  NoFailures, ErpConfigInv, ErpConfigTypeOK, NoEntry, NoCall, Replaced, Current, Outdated

\* The invariant holds at any time.
LEMMA MemoryInvariance == Spec => []MemoryInv
<1>1. Init => MemoryInv
  BY Fresh DEF Init, LoginInit, ErpConfigInit
<1>2. MemoryInv /\ [Next]_vars => MemoryInv'
  <2> SUFFICES ASSUME MemoryInv, [Next]_vars PROVE MemoryInv'
    OBVIOUS
  <2>1. ASSUME UNCHANGED loginVars PROVE LoginInv'
    BY <2>1 DEF MemoryInv, LoginInv, LoginTypeOK, WaitsAreEarned, loginVars
  <2>2. ASSUME UNCHANGED erpConfigVars PROVE ErpConfigInv'
    BY <2>2 DEF MemoryInv, ErpConfigInv, ErpConfigTypeOK, erpConfigVars
  <2>3. CASE UNCHANGED vars
    BY <2>1, <2>2, <2>3 DEF vars, loginVars, erpConfigVars, MemoryInv
  <2>4. CASE Restart
    <3>1. MemoryInv'
      BY <2>4, LoginAssumption, ErpConfigAssumption DEF Restart, MemoryInv, LoginInv,
         LoginTypeOK, WaitsAreEarned, NoFailures, ErpConfigInv, ErpConfigTypeOK, NoEntry,
         NoCall, Replaced, Current, Outdated
    <3> QED
      BY <3>1
  <2>5. CASE Tick
    BY <2>5, LoginElapseStep, ErpConfigElapseStep DEF Tick, MemoryInv
  <2>6. CASE LoginNext /\ UNCHANGED erpConfigVars
    BY <2>2, <2>6, LoginStep DEF MemoryInv
  <2>7. CASE ErpConfigNext /\ UNCHANGED loginVars
    BY <2>1, <2>7, ErpConfigStep DEF MemoryInv
  <2> QED
    BY <2>3, <2>4, <2>5, <2>6, <2>7 DEF Next
<1> QED
  BY <1>1, <1>2, PTL DEF Spec

\* Nobody waits longer than the cap (rateLimit.ts:15-17), however many logins
\* fail, overlapping ones included.
THEOREM WaitsBounded == Spec => []WaitsAreBounded
<1>1. MemoryInv => WaitsAreBounded
  BY DEF MemoryInv, LoginInv, LoginTypeOK, WaitsAreBounded
<1> QED
  BY <1>1, MemoryInvariance, PTL

\* No overlapping failure and no sweep ends a wait early (rateLimit.ts:48-74).
THEOREM WaitsStandFirm == Spec => WaitsStand
<1>1. MemoryInv /\ [Next]_vars => [\A a \in Accounts : Blocked(a) =>
        \/ \E r \in Requests : login[r] = a /\ RightPassword(r)
        \/ Restart
        \/ a \in DOMAIN failures' /\ (Tick \/ failures'[a].left >= failures[a].left)]_vars
  <2> SUFFICES ASSUME MemoryInv, Next, NEW a \in Accounts, Blocked(a),
                      ~(\E r \in Requests : login[r] = a /\ RightPassword(r)), ~Restart
               PROVE  a \in DOMAIN failures' /\ (Tick \/ failures'[a].left >= failures[a].left)
    OBVIOUS
  <2> USE DEF MemoryInv
  <2>1. a \in DOMAIN failures /\ failures[a].left > 0 /\ failures[a].left \in Int
    BY DEF Blocked, LoginInv, LoginTypeOK
  <2>2. CASE failures' = failures
    BY <2>1, <2>2
  <2>3. CASE Tick
    BY <2>1, <2>3, LoginElapseStep DEF Tick
  <2>4. ASSUME NEW r \in Requests, WrongPassword(r)
        PROVE  a \in DOMAIN failures' /\ failures'[a].left >= failures[a].left
    <3>1. PICK b \in Accounts : noteLoginFailure(b)
      BY <2>4 DEF WrongPassword, Leave, LoginInv, LoginTypeOK
    <3>2. a \in DOMAIN failures' /\ (a # b => failures'[a] = failures[a])
          /\ (a = b => failures'[a].left >= failures[a].left)
      BY <2>1, <3>1, FailureStep
    <3> QED
      BY <2>1, <3>2
  <2>5. ASSUME NEW r \in Requests, RightPassword(r)
        PROVE  a \in DOMAIN failures' /\ failures'[a].left >= failures[a].left
    BY <2>1, <2>5 DEF RightPassword, noteLoginSuccess, Without
  <2>6. ASSUME Sweep PROVE a \in DOMAIN failures' /\ failures'[a].left >= failures[a].left
    BY <2>1, <2>6, LoginAssumption DEF Sweep, Without
  <2>7. ASSUME LoginNext, failures' # failures
        PROVE  \/ \E r \in Requests : WrongPassword(r) \/ RightPassword(r)
               \/ Sweep
    BY <2>7 DEF LoginNext, Ask, LookupFails
  <2> QED
    BY <2>2, <2>3, <2>4, <2>5, <2>6, <2>7 DEF Next, loginVars
<1> QED
  BY <1>1, MemoryInvariance, PTL DEF Spec, WaitsStand

\* No call goes to an ERP that was replaced long ago (erpClient.ts:31-58), also
\* when a slow query overwrites what a faster one has read since.
THEOREM NoLongStaleCalls == Spec => []NeverLongStale
<1>1. ErpConfigInv => NeverLongStale
  <2> SUFFICES ASSUME ErpConfigInv PROVE NeverLongStale
    OBVIOUS
  <2>1. cache.replaced < Outdated
    BY ErpConfigAssumption DEF ErpConfigInv, ErpConfigTypeOK, Outdated, Replaced, Current
  <2>2. \A c \in Callers : call[c].replaced <= MaxRead
    BY ErpConfigAssumption DEF ErpConfigInv, ErpConfigTypeOK, Outdated, Replaced, Current
  <2> QED
    BY <2>1, <2>2 DEF ErpConfigInv, NeverLongStale
<1> QED
  BY <1>1, MemoryInvariance, PTL DEF MemoryInv
=============================================================================
