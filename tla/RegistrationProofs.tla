------------------------- MODULE RegistrationProofs -------------------------
(***************************************************************************)
(* Proofs about Registration, for any requests, emails and names.          *)
(***************************************************************************)
EXTENDS Registration, TLAPS

\* Before anything is asked the invariant holds.
LEMMA RegistrationInit == Init => RegistrationInv
  BY RegistrationAssumption DEF Init, RegistrationInv, RegistrationTypeOK, AnswersAreTrue,
     EmptyOrganizationsAreReported

\* A request that is answered with an error leaves everything else as it was.
LEMMA ErrorStep ==
  ASSUME RegistrationInv, NEW r \in Requests, reg[r].pc # "done", Say(r, "error"),
         UNCHANGED <<orgs, users>>, faults' \in 0 .. MaxFaults
  PROVE  RegistrationInv'
<1> USE DEF RegistrationInv, RegistrationTypeOK
<1>1. /\ reg' = [reg EXCEPT ![r].pc = "done"]
      /\ answer' = [answer EXCEPT ![r] = "error"]
  BY DEF Say
<1>2. \A q \in Requests \ {r} : reg'[q] = reg[q] /\ answer'[q] = answer[q]
  BY <1>1
<1>3. reg'[r].pc = "done" /\ answer'[r] = "error" /\ reg'[r].name = reg[r].name
  BY <1>1
<1>4. RegistrationTypeOK'
  BY <1>1
<1>5. AnswersAreTrue'
  BY <1>2, <1>3 DEF AnswersAreTrue
<1>6. EmptyOrganizationsAreReported'
  BY <1>2, <1>3 DEF EmptyOrganizationsAreReported
<1> QED
  BY <1>2, <1>3, <1>4, <1>5, <1>6

\* So does the death of the process, for all the requests under way.
LEMMA DeathStep ==
  ASSUME RegistrationInv, ProcessDies
  PROVE  RegistrationInv'
<1> USE DEF RegistrationInv, RegistrationTypeOK
<1> DEFINE UnderWay(r) == reg[r].pc \in {"org", "newOrg", "insert"}
<1>1. /\ reg' = [r \in Requests |->
                  IF UnderWay(r) THEN [reg[r] EXCEPT !.pc = "done"] ELSE reg[r]]
      /\ answer' = [r \in Requests |-> IF UnderWay(r) THEN "lost" ELSE answer[r]]
      /\ UNCHANGED <<orgs, users, faults>>
  BY DEF ProcessDies
<1>2. \A r \in Requests :
        IF UnderWay(r) THEN /\ reg'[r].pc = "done" /\ answer'[r] = "lost"
                            /\ reg'[r].email = reg[r].email /\ reg'[r].name = reg[r].name
                       ELSE reg'[r] = reg[r] /\ answer'[r] = answer[r]
  BY <1>1
<1>3. RegistrationTypeOK'
  BY <1>1
<1>4. AnswersAreTrue'
  BY <1>1, <1>2 DEF AnswersAreTrue
<1>5. EmptyOrganizationsAreReported'
  BY <1>1, <1>2 DEF EmptyOrganizationsAreReported
<1> QED
  BY <1>1, <1>2, <1>3, <1>4, <1>5

\* Every database call keeps it.
LEMMA RegistrationStep == RegistrationInv /\ [Next]_vars => RegistrationInv'
<1> SUFFICES ASSUME RegistrationInv, [Next]_vars PROVE RegistrationInv'
  OBVIOUS
<1> USE RegistrationAssumption DEF RegistrationInv, RegistrationTypeOK, AnswersAreTrue,
  EmptyOrganizationsAreReported, Go, Say
<1>1. CASE UNCHANGED vars
  BY <1>1 DEF vars
<1>2. ASSUME NEW r \in Requests, FindUser(r) PROVE RegistrationInv'
  <2>1. CASE users[reg[r].email] # NoOne
    <3>1. /\ reg[r].pc = "user" /\ reg' = [reg EXCEPT ![r].pc = "done"]
          /\ answer' = [answer EXCEPT ![r] = "conflict"] /\ UNCHANGED <<orgs, users, faults>>
      BY <1>2, <2>1 DEF FindUser
    <3>2. /\ \A q \in Requests \ {r} : reg'[q] = reg[q] /\ answer'[q] = answer[q]
          /\ reg'[r].pc = "done" /\ reg'[r].email = reg[r].email /\ answer'[r] = "conflict"
      BY <3>1
    <3>3. answer[r] = "none"
      BY <3>1
    <3>4. RegistrationTypeOK' /\ AnswersAreTrue'
      BY <2>1, <3>1, <3>2
    <3>5. EmptyOrganizationsAreReported'
      BY <3>1, <3>2, <3>3
    <3> QED
      BY <3>1, <3>2, <3>4, <3>5
  <2>2. CASE users[reg[r].email] = NoOne
    <3>1. reg[r].pc = "user" /\ reg' = [reg EXCEPT ![r].pc = "org"]
      BY <1>2, <2>2 DEF FindUser
    <3>2. UNCHANGED <<orgs, users, answer, faults>>
      BY <1>2, <2>2 DEF FindUser
    <3> QED
      BY <3>1, <3>2
  <2> QED
    BY <2>1, <2>2
<1>3. ASSUME NEW r \in Requests, FindOrg(r) PROVE RegistrationInv'
  BY <1>3 DEF FindOrg
<1>4. ASSUME NEW r \in Requests, CreateOrg(r) PROVE RegistrationInv'
  <2>1. CASE reg[r].name \in orgs
    BY <1>4, <2>1, ErrorStep DEF CreateOrg
  <2>2. CASE reg[r].name \notin orgs
    <3>1. /\ reg[r].pc = "newOrg" /\ reg' = [reg EXCEPT ![r].pc = "insert"]
          /\ orgs' = orgs \cup {reg[r].name} /\ UNCHANGED <<users, answer, faults>>
      BY <1>4, <2>2 DEF CreateOrg
    <3>2. EmptyOrganizationsAreReported'
      <4>1. ASSUME NEW name \in orgs', name # reg[r].name
            PROVE  \/ \E e \in Emails : users[e] = name
                   \/ \E q \in Requests :
                        /\ reg[q].name = name
                        /\ reg[q].pc = "insert" \/ answer[q] \in {"error", "lost"}
        BY <3>1, <4>1
      <4>2. reg'[r].name = reg[r].name /\ reg'[r].pc = "insert"
        BY <3>1
      <4>3. \A q \in Requests \ {r} : reg'[q] = reg[q]
        BY <3>1
      <4> QED
        BY <3>1, <4>1, <4>2, <4>3
    <3>3. RegistrationTypeOK' /\ AnswersAreTrue'
      BY <3>1
    <3>4. \A q \in Requests : /\ reg'[q].pc = "insert" => reg'[q].name \in orgs'
                              /\ reg'[q].pc = "done" <=> answer'[q] # "none"
      BY <3>1
    <3> QED
      BY <3>2, <3>3, <3>4
  <2> QED
    BY <2>1, <2>2
<1>5. ASSUME NEW r \in Requests, InsertUser(r) PROVE RegistrationInv'
  <2>1. CASE users[reg[r].email] # NoOne
    BY <1>5, <2>1, ErrorStep DEF InsertUser
  <2>2. CASE users[reg[r].email] = NoOne
    <3>1. /\ reg[r].pc = "insert" /\ reg' = [reg EXCEPT ![r].pc = "done"]
          /\ answer' = [answer EXCEPT ![r] = "created"] /\ UNCHANGED <<orgs, faults>>
          /\ users' = [users EXCEPT ![reg[r].email] = reg[r].name]
      BY <1>5, <2>2 DEF InsertUser
    <3>2. EmptyOrganizationsAreReported'
      <4>1. users'[reg[r].email] = reg[r].name
        BY <3>1
      <4>2. \A name \in orgs, e \in Emails : users[e] = name => users'[e] = name
        BY <2>2, <3>1
      <4>3. \A q \in Requests \ {r} : reg'[q] = reg[q] /\ answer'[q] = answer[q]
        BY <3>1
      <4>4. answer[r] \notin {"error", "lost"}
        BY <3>1
      <4> QED
        BY <3>1, <4>1, <4>2, <4>3, <4>4
    <3>3. RegistrationTypeOK'
      BY <2>2, <3>1
    <3>5. AnswersAreTrue'
      <4>1. \A e \in Emails : users[e] # NoOne => users'[e] = users[e]
        BY <2>2, <3>1
      <4>2. \A q \in Requests \ {r} : reg'[q] = reg[q] /\ answer'[q] = answer[q]
        BY <3>1
      <4>3. /\ reg'[r].email = reg[r].email /\ reg'[r].name = reg[r].name
            /\ users'[reg[r].email] = reg[r].name /\ reg[r].name \in orgs'
        BY <3>1
      <4>4. \A q \in Requests : answer[q] = "created" => reg[q].email # reg[r].email
        BY <2>2, RegistrationAssumption
      <4> QED
        BY <3>1, <4>1, <4>2, <4>3, <4>4
    <3>4. \A q \in Requests : /\ reg'[q].pc = "insert" => reg'[q].name \in orgs'
                              /\ reg'[q].pc = "done" <=> answer'[q] # "none"
      BY <3>1
    <3> QED
      BY <3>2, <3>3, <3>4, <3>5
  <2> QED
    BY <2>1, <2>2
<1>6. ASSUME NEW r \in Requests, CallFails(r) PROVE RegistrationInv'
  BY <1>6 DEF CallFails
<1>7. CASE ProcessDies
  BY <1>7, DeathStep
<1> QED
  BY <1>1, <1>2, <1>3, <1>4, <1>5, <1>6, <1>7 DEF Next

\* What is known of every request, for every value of the constants: the
\* inductive invariant of the registration route.
THEOREM RegistrationsKnow == Spec => []RegistrationInv
  BY RegistrationInit, RegistrationStep, PTL DEF Spec

\* The answers of the registration route stay true, whatever the requests that
\* overlap with it do: the unique keys decide what the lookups cannot.
THEOREM AnswersStayTrue == Spec => []AnswersAreTrue
<1>1. RegistrationInv => AnswersAreTrue
  BY DEF RegistrationInv
<1> QED
  BY RegistrationsKnow, <1>1, PTL

\* No organization is left without a user in silence.
THEOREM NoSilentOrphans == Spec => []EmptyOrganizationsAreReported
<1>1. RegistrationInv => EmptyOrganizationsAreReported
  BY DEF RegistrationInv
<1> QED
  BY RegistrationsKnow, <1>1, PTL
=============================================================================
