----------------------------- MODULE ErpConfig -----------------------------
(***************************************************************************)
(* How a call finds the organization's ERP (server/src/erp/erpClient.ts):  *)
(* resolve reads the organization's row and keeps what it read for a time. *)
(* The worker and the handlers call it concurrently; the row is changed    *)
(* outside the server.  One organization: the cache is keyed by it.        *)
(*                                                                         *)
(* Of a configuration it only matters whether it still is the one in the   *)
(* row, and if not, how long ago it was replaced.                          *)
(***************************************************************************)
EXTENDS Integers

CONSTANTS
  Callers,
  Ttl,         \* how long an entry of the cache is used
  MaxRead      \* assumption: how long a query of the row takes at most

ASSUME ErpConfigAssumption == Ttl \in Nat /\ MaxRead \in Nat

VARIABLES
  cache,       \* [age, replaced]; age Ttl: no entry, or one past its time
  call         \* [pc, age, replaced]: where each caller is in resolve

erpConfigVars == <<cache, call>>

\* Time since the configuration was replaced; Current while it is in the row.
\* Beyond Outdated, later is no different.
Current == -1
Outdated == Ttl + MaxRead
Replaced == Current .. Outdated

ErpConfigTypeOK ==
  /\ cache \in [age : 0 .. Ttl, replaced : Replaced]
  /\ call \in [Callers -> [pc : {"idle", "query", "answered"}, age : 0 .. MaxRead,
                           replaced : Replaced]]

NoCall == [pc |-> "idle", age |-> 0, replaced |-> Current]
NoEntry == [age |-> Ttl, replaced |-> Current]

ErpConfigInit == cache = NoEntry /\ call = [c \in Callers |-> NoCall]

Later(replaced) ==
  IF replaced = Current \/ replaced = Outdated THEN replaced ELSE replaced + 1
Superseded(replaced) == IF replaced = Current THEN 0 ELSE replaced

\* An entry past its time is like none.
Entry(age, replaced) == IF age = Ttl THEN NoEntry ELSE [age |-> age, replaced |-> replaced]

\* Somebody changes the row.
Reconfigure ==
  /\ cache' = Entry(cache.age, Superseded(cache.replaced))
  /\ call' = [c \in Callers |->
                IF call[c].pc = "answered"
                  THEN [call[c] EXCEPT !.replaced = Superseded(@)] ELSE call[c]]

\* Mutant of Resolve: a hit starts the entry's time anew.
ResolveRenewing(c) ==
  /\ call[c].pc = "idle"
  /\ IF cache.age < Ttl
       THEN cache' = [cache EXCEPT !.age = 0] /\ UNCHANGED call
       ELSE call' = [call EXCEPT ![c].pc = "query"] /\ UNCHANGED cache

\* A young entry is used at once, otherwise the row is queried.
Resolve(c) ==
  /\ call[c].pc = "idle"
  /\ cache.age >= Ttl
  /\ call' = [call EXCEPT ![c].pc = "query"]
  /\ UNCHANGED cache

\* The database answers with the row as it is now.
Answer(c) ==
  /\ call[c].pc = "query"
  /\ call' = [call EXCEPT ![c].pc = "answered"]
  /\ UNCHANGED cache

\* The answer arrives and is kept, whatever others have kept meanwhile.
Keep(c) ==
  /\ call[c].pc = "answered"
  /\ cache' = Entry(0, call[c].replaced)
  /\ call' = [call EXCEPT ![c] = NoCall]

\* The query fails, or there is no such organization or adapter.
ResolveFails(c) ==
  /\ call[c].pc # "idle"
  /\ call' = [call EXCEPT ![c] = NoCall]
  /\ UNCHANGED cache

\* Each operation of the client resolves the configuration before anything else.
Operation(c) == Resolve(c) \/ Answer(c) \/ Keep(c) \/ ResolveFails(c)

\* A unit of time goes by; a query is not under way for longer than MaxRead.
ErpConfigElapse ==
  /\ \A c \in Callers : call[c].pc # "idle" => call[c].age < MaxRead
  /\ cache' = Entry(IF cache.age < Ttl THEN cache.age + 1 ELSE Ttl, Later(cache.replaced))
  /\ call' = [c \in Callers |->
                IF call[c].pc = "idle" THEN call[c]
                ELSE [call[c] EXCEPT !.age = @ + 1, !.replaced = Later(@)]]

ErpConfigNext == Reconfigure \/ \E c \in Callers : Operation(c)
=============================================================================
