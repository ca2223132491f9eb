---------------------------- MODULE Registration ----------------------------
(***************************************************************************)
(* POST /api/auth/register (server/src/app.ts): people who register at the *)
(* same time, for new and existing organizations.  reg[r].pc names the     *)
(* awaited database call that request r is about to make.                  *)
(*                                                                         *)
(* No row is ever deleted, so the name of an organization stands for the   *)
(* row it is unique to.                                                    *)
(***************************************************************************)
EXTENDS Naturals

CONSTANTS
  Requests,
  Emails,
  Names,      \* names of organizations, trimmed
  NoOne,
  MaxFaults   \* how many database calls may fail

ASSUME RegistrationAssumption == NoOne \notin Names /\ MaxFaults \in Nat

VARIABLES
  orgs,     \* names of the organizations that have a row
  users,    \* the organization of the user with each email
  reg,      \* [pc, email, name] of each request
  answer,   \* what each request was answered
  faults

vars == <<orgs, users, reg, answer, faults>>

RegistrationTypeOK ==
  /\ orgs \subseteq Names
  /\ users \in [Emails -> Names \cup {NoOne}]
  /\ reg \in [Requests -> [pc : {"user", "org", "newOrg", "insert", "done"},
                           email : Emails, name : Names]]
  /\ answer \in [Requests -> {"none", "created", "conflict", "error", "lost"}]
  /\ faults \in 0 .. MaxFaults

\* Each request fills in the form as it likes.
Init ==
  /\ orgs = {}
  /\ users = [e \in Emails |-> NoOne]
  /\ reg \in [Requests -> [pc : {"user"}, email : Emails, name : Names]]
  /\ answer = [r \in Requests |-> "none"]
  /\ faults = 0

Go(r, pc) == reg' = [reg EXCEPT ![r].pc = pc] /\ UNCHANGED answer
Say(r, a) == reg' = [reg EXCEPT ![r].pc = "done"] /\ answer' = [answer EXCEPT ![r] = a]

FindUser(r) ==
  /\ reg[r].pc = "user"
  /\ IF users[reg[r].email] # NoOne THEN Say(r, "conflict") ELSE Go(r, "org")
  /\ UNCHANGED <<orgs, users, faults>>

FindOrg(r) ==
  /\ reg[r].pc = "org"
  /\ Go(r, IF reg[r].name \in orgs THEN "insert" ELSE "newOrg")
  /\ UNCHANGED <<orgs, users, faults>>

\* The unique name refuses the second of two creates.
CreateOrg(r) ==
  /\ reg[r].pc = "newOrg"
  /\ IF reg[r].name \in orgs
       THEN Say(r, "error") /\ UNCHANGED orgs
       ELSE orgs' = orgs \cup {reg[r].name} /\ Go(r, "insert")
  /\ UNCHANGED <<users, faults>>

\* Mutant of InsertUser: the email has been looked up already, so the row is
\* written without minding an account made since.
InsertUserUpsert(r) ==
  /\ reg[r].pc = "insert"
  /\ users' = [users EXCEPT ![reg[r].email] = reg[r].name]
  /\ Say(r, "created")
  /\ UNCHANGED <<orgs, faults>>

InsertUser(r) ==
  /\ reg[r].pc = "insert"
  /\ IF users[reg[r].email] # NoOne
       THEN Say(r, "error") /\ UNCHANGED users
       ELSE users' = [users EXCEPT ![reg[r].email] = reg[r].name] /\ Say(r, "created")
  /\ UNCHANGED <<orgs, faults>>

CallFails(r) ==
  /\ reg[r].pc # "done"
  /\ faults < MaxFaults
  /\ faults' = faults + 1
  /\ Say(r, "error")
  /\ UNCHANGED <<orgs, users>>

\* The process dies between two calls, and the connections of the requests under
\* way break.  A request that has made no call yet is as good as a later one.
ProcessDies ==
  LET underWay == {r \in Requests : reg[r].pc \in {"org", "newOrg", "insert"}}
  IN  /\ underWay # {}
      /\ reg' = [r \in Requests |->
                  IF r \in underWay THEN [reg[r] EXCEPT !.pc = "done"] ELSE reg[r]]
      /\ answer' = [r \in Requests |-> IF r \in underWay THEN "lost" ELSE answer[r]]
      /\ UNCHANGED <<orgs, users, faults>>

Next ==
  \/ \E r \in Requests :
       FindUser(r) \/ FindOrg(r) \/ CreateOrg(r) \/ InsertUser(r) \/ CallFails(r)
  \/ ProcessDies

Spec == Init /\ [][Next]_vars

-----------------------------------------------------------------------------
(* Properties *)

\* An answer stays true whatever the other requests do: who was told that an
\* account was created has it, in the organization that was named, which has a
\* row, and shares it with nobody; who was told of a conflict met an account.
AnswersAreTrue ==
  /\ \A r \in Requests :
       /\ answer[r] = "created" =>
            users[reg[r].email] = reg[r].name /\ reg[r].name \in orgs
       /\ answer[r] = "conflict" => users[reg[r].email] # NoOne
  /\ \A r, s \in Requests :
       answer[r] = "created" /\ answer[s] = "created" /\ reg[r].email = reg[s].email
         => r = s

\* An organization without a user is never left in silence: a request that found
\* or made it is still about to write one, was answered with an error, or saw its
\* connection break (app.ts:69-77 makes the two rows in separate calls).
EmptyOrganizationsAreReported == \A name \in orgs :
  \/ \E e \in Emails : users[e] = name
  \/ \E r \in Requests :
       reg[r].name = name /\ (reg[r].pc = "insert" \/ answer[r] \in {"error", "lost"})

\* The inductive invariant behind them: an organization that a request has found
\* or made is still there when it writes the user.
RegistrationInv ==
  /\ RegistrationTypeOK
  /\ \A r \in Requests :
       /\ reg[r].pc = "insert" => reg[r].name \in orgs
       /\ reg[r].pc = "done" <=> answer[r] # "none"
  /\ AnswersAreTrue
  /\ EmptyOrganizationsAreReported
=============================================================================
