----------------------------- MODULE DemoLedger -----------------------------
(***************************************************************************)
(* The shared demo ledger of apps/api/src/demo/demo-service.ts: the seed   *)
(* script, POST /demo/reset, and the operations of the other routes of     *)
(* demo/routes.ts.  A hosted start runs the seed before the API listens,   *)
(* and serves none of the routes; where they are served, in development,   *)
(* seed scripts run by hand, before, after or beside any request.          *)
(*                                                                         *)
(* A task is one run of the seed script or a client of the API; an action  *)
(* is the code between two awaits, so tasks interleave at every call of    *)
(* the database.  Reads in a row that only find what they look for are one *)
(* action: nothing but a reset takes a row away, and the write that        *)
(* follows meets it.  A seed script may crash anywhere, and the server     *)
(* with the requests it serves.                                            *)
(***************************************************************************)
EXTENDS Integers

CONSTANTS
  Seeders,   \* seed scripts, one per container, or run by hand
  Resets,    \* POST /demo/reset requests, all to one server process
  Operators, \* clients of the other routes
  Addresses, \* what they call accounts
  None,
  MaxEvents, \* bound on operations, visits and crashes together
  MaxId      \* bound on the ids handed out

Tasks == Seeders \cup Resets \cup Operators

SeedAddresses == <<"system:funding", "wallet:alice", "wallet:bob">>

ASSUME NoneIsNoTask == None \notin Tasks
ASSUME TasksOfOneKind == Seeders \cap Resets = {} /\ (Seeders \cup Resets) \cap Operators = {}
ASSUME AddressType == Addresses \subseteq STRING
ASSUME BoundsAreNat == MaxEvents \in Nat /\ MaxId \in Nat

VARIABLES
  db,            \* the rows of the admin key's tenant, 0 for no tenant, that some step reads:
                 \* postings but the opening one, uploads and runs are left out
  nextId,        \* ids of tenants and ledgers
  resetPromise,  \* the reset the server is performing
  task,          \* what each task has read so far
  events         \* how many operations, visits and crashes there have been

vars == <<db, nextId, resetPromise, task, events>>

Empty  == [tenant |-> 0, sandboxes |-> FALSE, asset |-> FALSE, ledgers |-> {}, first |-> 0, accounts |-> {},
           opening |-> {}, holds |-> {}, rule |-> FALSE]
Idle   == [pc |-> "idle", tenant |-> 0, ledger |-> 0, names |-> {}, op |-> None, hold |-> None]

Init ==
  /\ db = Empty /\ nextId = 1 /\ events = 0
  /\ resetPromise = None
  /\ task = [t \in Tasks |-> Idle]

Ended   == {"served", "failed"}
Ready   == db.tenant # 0 /\ db.ledgers # {}   \* context() does not throw DemoNotReadyError
First   == db.first                           \* ledgers.list with limit 1
Names(l) == {a.name : a \in {b \in db.accounts : b.ledger = l}}

\* A row may be inserted as long as the rows it refers to are there.
TenantExists(t) == db.tenant = task[t].tenant
LedgerExists(t) == task[t].ledger \in db.ledgers

\* A task that has ended keeps nothing of what it read.
Goto(t, pc) == task' = [task EXCEPT ![t] = IF pc \in Ended THEN [Idle EXCEPT !.pc = pc] ELSE [@ EXCEPT !.pc = pc]]
Fail(t)     == Goto(t, "failed") /\ UNCHANGED <<db, nextId>>
Rest        == UNCHANGED <<resetPromise, events>>
Happens     == events < MaxEvents /\ events' = events + 1

-----------------------------------------------------------------------------
(* seed() and performReset().                                              *)

\* A hosted API listens after its host's seed script (start:hosted).
Listening == \A t \in Seeders : task[t].pc = "served"

\* seed: what the ledger holds is served as soon as it is there.
StartSeed(t) ==
  /\ t \in Seeders /\ task[t].pc = "idle"
  /\ task' = [task EXCEPT ![t] = IF Ready THEN [Idle EXCEPT !.pc = "readAccounts", !.ledger = First]
                                       ELSE [Idle EXCEPT !.pc = "bootstrap"]]
  /\ UNCHANGED <<db, nextId>> /\ Rest

\* Wrong on purpose, for a mutant: every reset runs on its own.
StartResetAlone(t) ==
  /\ t \in Resets /\ task[t].pc = "idle"
  /\ IF resetPromise \in Resets \cup {None} THEN resetPromise' = t /\ Goto(t, "truncate")
                            ELSE UNCHANGED resetPromise /\ Goto(t, "waiting")
  /\ UNCHANGED <<db, nextId, events>>

\* reset: a request that finds a reset running waits for its outcome.
StartReset(t) ==
  /\ t \in Resets /\ task[t].pc = "idle"
  /\ IF resetPromise = None THEN resetPromise' = t /\ Goto(t, "truncate")
                            ELSE UNCHANGED resetPromise /\ Goto(t, "waiting")
  /\ UNCHANGED <<db, nextId, events>>

Truncate(t) ==
  /\ task[t].pc = "truncate"
  /\ db' = Empty
  /\ Goto(t, "bootstrap")
  /\ UNCHANGED nextId /\ Rest

-----------------------------------------------------------------------------
(* performSeed(), one call of the database at a time.                      *)

\* The bootstrap makes the first tenant of the database and no other.
Bootstrap(t) ==
  /\ task[t].pc = "bootstrap"
  /\ \/ /\ db.tenant # 0
        /\ task' = [task EXCEPT ![t].tenant = db.tenant, ![t].pc = "listAssets"]
        /\ UNCHANGED <<db, nextId>>
     \/ /\ db.tenant = 0 /\ ~db.sandboxes
        /\ nextId <= MaxId /\ nextId' = nextId + 1
        /\ db' = [db EXCEPT !.tenant = nextId]
        /\ task' = [task EXCEPT ![t].tenant = nextId, ![t].pc = "listAssets"]
     \/ db.tenant = 0 /\ db.sandboxes /\ Fail(t)
  /\ Rest

ListAssets(t) ==
  /\ task[t].pc = "listAssets"
  /\ Goto(t, IF TenantExists(t) /\ db.asset THEN "listLedgers" ELSE "createAsset")
  /\ UNCHANGED <<db, nextId>> /\ Rest

\* The code of an asset is unique in a tenant.
CreateAsset(t) ==
  /\ task[t].pc = "createAsset"
  /\ IF TenantExists(t) /\ ~db.asset
       THEN db' = [db EXCEPT !.asset = TRUE] /\ Goto(t, "listLedgers") /\ UNCHANGED nextId
       ELSE Fail(t)
  /\ Rest

ListLedgers(t) ==
  /\ task[t].pc = "listLedgers"
  /\ task' = IF TenantExists(t) /\ db.ledgers # {}
               THEN [task EXCEPT ![t].pc = "listAccounts", ![t].ledger = First]
               ELSE [task EXCEPT ![t].pc = "createLedger"]
  /\ UNCHANGED <<db, nextId>> /\ Rest

\* The name of a ledger is not unique.  Of two that are created at one time either may be
\* listed first.
CreateLedger(t) ==
  /\ task[t].pc = "createLedger"
  /\ IF TenantExists(t)
       THEN /\ nextId <= MaxId /\ nextId' = nextId + 1
            /\ \E first \in {nextId} \cup (db.ledgers \cap {db.first}) :
                 db' = [db EXCEPT !.ledgers = @ \cup {nextId}, !.first = first]
            /\ task' = [task EXCEPT ![t].pc = "listAccounts", ![t].ledger = nextId]
       ELSE Fail(t)
  /\ Rest

ListAccounts(t) ==
  /\ task[t].pc = "listAccounts"
  /\ task' = [task EXCEPT ![t].pc = "createAccount1", ![t].names = Names(task[t].ledger)]
  /\ UNCHANGED <<db, nextId>> /\ Rest

\* The account of the i-th seed address, unless it was listed.
CreateSeedAccount(t, i) ==
  LET next == <<"createAccount2", "createAccount3", "listTransactions">>[i]
  IN  /\ task[t].pc = <<"createAccount1", "createAccount2", "createAccount3">>[i]
      /\ \/ /\ SeedAddresses[i] \in task[t].names
            /\ Goto(t, next) /\ UNCHANGED <<db, nextId>>
         \/ /\ SeedAddresses[i] \notin task[t].names /\ LedgerExists(t)
            /\ db' = [db EXCEPT !.accounts = @ \cup {[ledger |-> task[t].ledger, name |-> SeedAddresses[i]]}]
            /\ Goto(t, next) /\ UNCHANGED nextId
         \/ SeedAddresses[i] \notin task[t].names /\ ~LedgerExists(t) /\ Fail(t)
      /\ Rest

\* The opening posting may lie beyond the first 100 transactions.
ListTransactions(t) ==
  /\ task[t].pc = "listTransactions"
  /\ \/ Goto(t, "lookup")
     \/ task[t].ledger \in db.opening /\ Goto(t, "getState")
  /\ UNCHANGED <<db, nextId>> /\ Rest

\* fund: context() and the two accounts by address.
LookUp(t) ==
  /\ task[t].pc = "lookup"
  /\ IF Ready /\ {"system:funding", "wallet:alice"} \subseteq Names(First)
       THEN task' = [task EXCEPT ![t].pc = "post", ![t].ledger = First] /\ UNCHANGED <<db, nextId>>
       ELSE Fail(t)
  /\ Rest

\* The opening posting's reference is the same for every seed, and unique in a tenant: a
\* repetition changes nothing, and the same reference in another ledger is refused.
PostOpening(t) ==
  /\ task[t].pc = "post"
  /\ \/ /\ LedgerExists(t) /\ db.opening = {}
        /\ db' = [db EXCEPT !.opening = {task[t].ledger}]
        /\ Goto(t, "getState") /\ UNCHANGED nextId
     \/ LedgerExists(t) /\ task[t].ledger \in db.opening /\ Goto(t, "getState") /\ UNCHANGED <<db, nextId>>
     \/ (~LedgerExists(t) \/ (db.opening # {} /\ task[t].ledger \notin db.opening)) /\ Fail(t)
  /\ Rest

\* getState: the context, then the accounts, then the transactions, holds and totals, whatever
\* became of the ledger meanwhile.
GetState(t) ==
  /\ task[t].pc = "getState"
  /\ task' = [task EXCEPT ![t] = [Idle EXCEPT !.ledger = IF Ready THEN First ELSE 0,
                                                     !.pc = IF Ready THEN "readAccounts" ELSE "failed"]]
  /\ UNCHANGED <<db, nextId>> /\ Rest

ReadAccounts(t) ==
  /\ task[t].pc = "readAccounts"
  /\ task' = [task EXCEPT ![t].pc = "readTransactions", ![t].names = Names(task[t].ledger)]
  /\ UNCHANGED <<db, nextId>> /\ Rest

ReadTransactions(t) ==
  /\ task[t].pc = "readTransactions"
  /\ Goto(t, "served") \/ (~LedgerExists(t) /\ Goto(t, "failed"))
  /\ UNCHANGED <<db, nextId>> /\ Rest

\* The reset is over: the requests that waited for it get what it got.
SettleReset ==
  /\ resetPromise # None /\ task[resetPromise].pc \in Ended
  /\ resetPromise' = None
  /\ task' = [t \in Tasks |-> IF task[t].pc = "waiting" THEN [task[t] EXCEPT !.pc = task[resetPromise].pc]
                                                        ELSE task[t]]
  /\ UNCHANGED <<db, nextId, events>>

-----------------------------------------------------------------------------
(* The other operations.                                                   *)

Transfers  == {"fund", "transfer", "createHold"}
Operations == Transfers \cup {"getState", "getAccountDetails", "createAccount", "commit", "void", "reconcile"}

\* The accounts that the address a names in an operation.
Needs(op, a) == IF op = "fund" THEN {"system:funding", a} ELSE {"wallet:alice", a}

\* A request refused for its input has done nothing.  The context is the first the database
\* is asked for, and the demo is not ready without it.
StartOperation(t, op) ==
  /\ t \in Operators /\ task[t].pc \in {"idle"} \cup Ended
  /\ Happens
  /\ task' = [task EXCEPT ![t] =
                IF ~Ready THEN [Idle EXCEPT !.pc = "failed"]
                ELSE [Idle EXCEPT !.tenant = db.tenant, !.ledger = First, !.op = op,
                                  !.pc = IF op = "getState" THEN "readAccounts"
                                         ELSE IF op = "reconcile" THEN "ingest" ELSE "find"]]
  /\ UNCHANGED <<db, nextId, resetPromise>>

Write(t, written) ==
  IF LedgerExists(t) THEN db' = written /\ Goto(t, "getState") /\ UNCHANGED nextId ELSE Fail(t)

\* createAccount asks for an address that is free.
FindFree(t, a) ==
  /\ task[t].pc = "find" /\ task[t].op = "createAccount"
  /\ task' = [task EXCEPT ![t] = IF a \in Names(task[t].ledger) THEN [Idle EXCEPT !.pc = "failed"]
                                ELSE [@ EXCEPT !.pc = "create", !.names = {a}]]
  /\ UNCHANGED <<db, nextId>> /\ Rest

\* Wrong on purpose, for a mutant: no foreign key on the ledger.
CreateAccountAnyway(t) ==
  /\ task[t].pc = "create"
  /\ db' = [db EXCEPT !.accounts = @ \cup {[ledger |-> task[t].ledger, name |-> a] : a \in task[t].names}]
  /\ Goto(t, "getState") /\ UNCHANGED nextId
  /\ Rest

CreateAccount(t) ==
  /\ task[t].pc = "create"
  /\ Write(t, [db EXCEPT !.accounts = @ \cup {[ledger |-> task[t].ledger, name |-> a] : a \in task[t].names}])
  /\ Rest

\* fund, transfer and createHold ask for the accounts they move money between.
FindAccounts(t, a) ==
  /\ task[t].pc = "find" /\ task[t].op \in Transfers
  /\ Goto(t, IF Needs(task[t].op, a) \subseteq Names(task[t].ledger) THEN "move" ELSE "failed")
  /\ UNCHANGED <<db, nextId>> /\ Rest

\* The reference is new: of two the same requests both are posted.  Insufficient funds are
\* the ledger's to refuse.
Move(t) ==
  /\ task[t].pc = "move"
  /\ \/ Write(t, IF task[t].op = "createHold"
                   THEN [db EXCEPT !.holds = @ \cup {[ledger |-> task[t].ledger, id |-> <<t, events>>, state |-> "HELD"]}]
                   ELSE db)
     \/ task[t].op # "fund" /\ Fail(t)
  /\ Rest

\* resolveHold asks for a hold of the ledger, and leaves it to the ledger in which state.
FindHold(t) ==
  /\ task[t].pc = "find" /\ task[t].op \in {"commit", "void"}
  /\ \/ \E h \in db.holds : /\ h.ledger = task[t].ledger
                           /\ task' = [task EXCEPT ![t].pc = "settle", ![t].hold = h.id]
     \/ Goto(t, "failed")
  /\ UNCHANGED <<db, nextId>> /\ Rest

\* A hold is settled once: the same again changes nothing, the other is refused.
Settle(t) ==
  LET state   == IF task[t].op = "commit" THEN "APPLIED" ELSE "VOIDED"
      Open(h) == h.id = task[t].hold /\ h.state \in {"HELD", state}
  IN  /\ task[t].pc = "settle"
      /\ \/ \E h \in db.holds :
               /\ Open(h)
               /\ Write(t, [db EXCEPT !.holds = (@ \ {h}) \cup {[h EXCEPT !.state = state]}])
         \/ (\A h \in db.holds : ~Open(h)) /\ Fail(t)
      /\ Rest

\* getAccountDetails: three reads of one account.
Describe(t, a) ==
  /\ task[t].pc = "find" /\ task[t].op = "getAccountDetails"
  /\ Goto(t, IF a \in Names(task[t].ledger) THEN "served" ELSE "failed")
  /\ UNCHANGED <<db, nextId>> /\ Rest

\* reconcile: the statement is uploaded, the rule looked for, and created where there is none.
Ingest(t) ==
  /\ task[t].pc = "ingest"
  /\ Goto(t, IF ~TenantExists(t) THEN "failed" ELSE "listRules")
  /\ UNCHANGED <<db, nextId>> /\ Rest

ListRules(t) ==
  /\ task[t].pc = "listRules"
  /\ Goto(t, IF TenantExists(t) /\ db.rule THEN "reconcile" ELSE "createRule")
  /\ UNCHANGED <<db, nextId>> /\ Rest

\* The name of a rule is unique in a tenant.
CreateRule(t) ==
  /\ task[t].pc = "createRule"
  /\ IF TenantExists(t) /\ ~db.rule
       THEN db' = [db EXCEPT !.rule = TRUE] /\ Goto(t, "reconcile") /\ UNCHANGED nextId
       ELSE Fail(t)
  /\ Rest

Reconcile(t) ==
  /\ task[t].pc = "reconcile"
  /\ IF LedgerExists(t)
       THEN Goto(t, "served") /\ UNCHANGED <<db, nextId>>
       ELSE Fail(t)
  /\ Rest

-----------------------------------------------------------------------------
(* Sandboxes and crashes.                                                  *)

\* A visitor opens a sandbox, which is a tenant of its own.
Visit ==
  /\ ~db.sandboxes /\ Happens
  /\ db' = [db EXCEPT !.sandboxes = TRUE]
  /\ UNCHANGED <<nextId, resetPromise, task>>

\* A seed script dies, and its container runs it again from the start.
CrashSeeder(t) ==
  /\ t \in Seeders /\ task[t].pc \notin {"idle", "served"}
  /\ Happens
  /\ task' = [task EXCEPT ![t] = Idle]
  /\ UNCHANGED <<db, nextId, resetPromise>>

\* The server dies with its requests.  The seed scripts that have ended may run again, as its
\* container's does.
CrashServer ==
  /\ Happens
  /\ task' = [t \in Tasks |-> IF t \in Seeders THEN IF task[t].pc \in Ended THEN Idle ELSE task[t]
                              ELSE IF task[t].pc \in {"idle"} \cup Ended THEN task[t]
                              ELSE [task[t] EXCEPT !.pc = "failed"]]
  /\ resetPromise' = None
  /\ UNCHANGED <<db, nextId>>

-----------------------------------------------------------------------------
PerformSeed(t) ==
  \/ Bootstrap(t) \/ ListAssets(t) \/ CreateAsset(t) \/ ListLedgers(t) \/ CreateLedger(t)
  \/ ListAccounts(t) \/ \E i \in 1..3 : CreateSeedAccount(t, i)
  \/ ListTransactions(t) \/ LookUp(t) \/ PostOpening(t)

Operate(t) ==
  \/ \E op \in Operations : StartOperation(t, op)
  \/ \E a \in Addresses : FindFree(t, a) \/ FindAccounts(t, a) \/ Describe(t, a)
  \/ CreateAccount(t) \/ FindHold(t) \/ Settle(t) \/ Move(t) \/ Ingest(t) \/ ListRules(t) \/ CreateRule(t) \/ Reconcile(t)

Next ==
  \/ \E t \in Tasks : \/ StartSeed(t) \/ StartReset(t) \/ Truncate(t) \/ PerformSeed(t)
                      \/ GetState(t) \/ ReadAccounts(t) \/ ReadTransactions(t)
                      \/ Operate(t) \/ CrashSeeder(t)
  \/ SettleReset \/ Visit \/ CrashServer

Spec == Init /\ [][Next]_vars

-----------------------------------------------------------------------------
(* Properties.                                                             *)

TypeOK ==
  /\ nextId \in 1..(MaxId + 1) /\ events \in 0..MaxEvents
  /\ resetPromise \in Resets \cup {None}
  /\ db.tenant \in 0..MaxId /\ db.ledgers \subseteq 1..MaxId /\ (db.ledgers # {} => First \in db.ledgers)
  /\ db.opening \subseteq db.ledgers
  /\ \A a \in db.accounts : a.ledger \in db.ledgers
  /\ \A h \in db.holds : h.ledger \in db.ledgers /\ h.state \in {"HELD", "APPLIED", "VOIDED"}
  /\ \A t \in Tasks : task[t].tenant \in 0..MaxId /\ task[t].ledger \in 0..MaxId

\* The ledger the demo shows has its three accounts and Alice's opening money.
Seeded ==
  /\ Ready
  /\ {SeedAddresses[i] : i \in 1..3} \subseteq Names(First)
  /\ First \in db.opening

OneLedger == \A l, m \in db.ledgers : l = m

\* A reset that answers with a state answers with the seeded one, for the request that
\* performed it: overlapping requests share one reset and do not truncate each other's, and
\* whatever operators and seed scripts do to a ledger being seeded takes nothing of it away.
\* The exception is a seed script that makes a second ledger of the same name beside it: the
\* reset may then answer with that one, half seeded.
ResetServesSeeded ==
  [][\A t \in Resets : task[t].pc = "readTransactions" /\ task'[t].pc = "served" /\ OneLedger =>
       /\ {SeedAddresses[i] : i \in 1..3} \subseteq task[t].names
       /\ Seeded /\ task[t].ledger = First]_vars

\* docs/HOSTED_DEMO.md: the container "runs the idempotent demo seed before it accepts
\* traffic", and the seed creates the ledger, its accounts and the opening balance: where
\* nobody resets, an API that listens serves the seeded ledger.
ListensSeeded == Seeders # {} /\ Listening => Seeded
=============================================================================
