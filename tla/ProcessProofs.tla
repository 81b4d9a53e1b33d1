---------------------------- MODULE ProcessProofs ----------------------------
(***************************************************************************)
(* What the processes of the demo promise: a reset that overlaps with      *)
(* other resets, with seed scripts and with operations serves the ledger   *)
(* it seeded, and a server that ends takes its database from no request a  *)
(* client waits for.  The two parts share no state; the names of           *)
(* Shutdown's specification are its own, so that both can be extended      *)
(* here.                                                                   *)
(***************************************************************************)
EXTENDS DemoLedger, Shutdown, TLAPS

(***************************************************************************)
(* The shared demo ledger: the inductive invariant.                        *)
(***************************************************************************)
EmptySteps   == {"bootstrap", "listAssets", "createAsset", "listLedgers", "createLedger"}
AccountSteps == {"createAccount1", "createAccount2", "createAccount3"}
OpeningSteps == {"listTransactions", "lookup", "post"}
SeedSteps    == EmptySteps \cup {"listAccounts"} \cup AccountSteps \cup OpeningSteps
Reading      == {"getState", "readAccounts", "readTransactions"}
Resting      == {"idle", "served", "failed"}
OperatorSteps == {"find", "move", "settle", "create", "ingest", "listRules", "createRule", "reconcile"}

StepsOf(t) ==
  Reading \cup Resting \cup
  (IF t \in Operators THEN OperatorSteps
   ELSE IF t \in Resets THEN SeedSteps \cup {"truncate", "waiting"} ELSE SeedSteps)

Steps   == Reading \cup Resting \cup OperatorSteps \cup SeedSteps \cup {"truncate", "waiting"}
HoldIds == Tasks \X Nat
Seeds   == {SeedAddresses[i] : i \in 1..3}
Known   == Addresses \cup Seeds
Row     == [pc : Steps, tenant : 0..MaxId, ledger : 0..MaxId, names : SUBSET Known,
            op : Operations \cup {None}, hold : HoldIds \cup {None}]
Account == [ledger : 1..MaxId, name : Known]
Hold    == [ledger : 1..MaxId, id : HoldIds, state : {"HELD", "APPLIED", "VOIDED"}]
Database == [tenant : 0..MaxId, sandboxes : BOOLEAN, asset : BOOLEAN, ledgers : SUBSET (1..MaxId),
             first : 0..MaxId, accounts : SUBSET Account, opening : SUBSET (1..MaxId),
             holds : SUBSET Hold, rule : BOOLEAN]

Typed ==
  /\ db \in Database /\ nextId \in 1..(MaxId + 1) /\ resetPromise \in Resets \cup {None}
  /\ task \in [Tasks -> Row] /\ events \in 0..MaxEvents

\* Foreign keys.
Referred ==
  /\ \A a \in db.accounts : a.ledger \in db.ledgers
  /\ db.opening \subseteq db.ledgers
  /\ \A h \in db.holds : h.ledger \in db.ledgers
  /\ db.ledgers # {} => First \in db.ledgers /\ db.tenant # 0

\* A task seeds the tenant it has found or made.
Tenanted == {"listAssets", "createAsset", "listLedgers", "createLedger"}
Staffed  == \A t \in Tasks : /\ task[t].pc \in StepsOf(t)
                             /\ task[t].pc \in Tenanted => task[t].tenant # 0

\* A reset that runs is the one reset.
Performing(t) == task[t].pc \in SeedSteps \cup Reading \cup {"truncate"}
Exclusive     == \A t \in Resets : Performing(t) => resetPromise = t

\* What a reset has built so far, whatever operators and seed scripts do meanwhile: its ledger
\* is there, and as long as no other is, it has what the reset has put in it.
Has(t, n) == {SeedAddresses[i] : i \in 1..n} \subseteq Names(task[t].ledger)
Furnished == db.ledgers # {} /\ \A l : db.ledgers = {l} => Seeds \subseteq Names(l)
Opened    == \A l : db.ledgers = {l} => l \in db.opening

Stage(t) ==
  /\ task[t].pc \in (SeedSteps \ EmptySteps) \cup {"readAccounts", "readTransactions"} => task[t].ledger \in db.ledgers
  /\ task[t].pc \in AccountSteps => task[t].names \subseteq Names(task[t].ledger)
  /\ task[t].pc = "createAccount2" => Has(t, 1)
  /\ task[t].pc = "createAccount3" => Has(t, 2)
  /\ task[t].pc \in OpeningSteps \cup Reading => Furnished
  /\ task[t].pc \in Reading => Opened
  /\ task[t].pc = "readTransactions" => \A l : db.ledgers = {l} => Seeds \subseteq task[t].names
Staged == \A t \in Resets : Stage(t)

DemoInv == Typed /\ Referred /\ Staffed /\ Exclusive /\ Staged

-----------------------------------------------------------------------------
(* What the helpers of the model do.                                       *)

LEMMA IdleType == Idle \in Row /\ \A pc \in Steps : [Idle EXCEPT !.pc = pc] \in Row
BY BoundsAreNat DEF Idle, Row, Steps, Resting

Only(t) == \A s \in Tasks : s # t => task'[s] = task[s]

LEMMA Goes ==
  ASSUME Typed, NEW t \in Tasks, NEW pc \in Steps, Goto(t, pc)
  PROVE  /\ task' \in [Tasks -> Row] /\ Only(t)
         /\ task'[t].pc = pc
         /\ pc \notin Ended => /\ task'[t].tenant = task[t].tenant /\ task'[t].ledger = task[t].ledger
                               /\ task'[t].names = task[t].names
<1>1. task \in [Tasks -> Row] /\ task[t] \in Row
  BY DEF Typed
<1>2. [task[t] EXCEPT !.pc = pc] \in Row
  BY <1>1 DEF Row
<1>3. [Idle EXCEPT !.pc = pc] \in Row /\ [Idle EXCEPT !.pc = pc].pc = pc
  BY IdleType DEF Idle
<1>4. CASE pc \in Ended
  <2>1. task' = [task EXCEPT ![t] = [Idle EXCEPT !.pc = pc]]
    BY <1>4 DEF Goto
  <2> QED BY <1>1, <1>3, <1>4, <2>1 DEF Only
<1>5. CASE pc \notin Ended
  <2>1. task' = [task EXCEPT ![t] = [task[t] EXCEPT !.pc = pc]]
    BY <1>1, <1>5 DEF Goto
  <2>2. task'[t] = [task[t] EXCEPT !.pc = pc]
    BY <1>1, <2>1
  <2> QED BY <1>1, <1>2, <2>1, <2>2 DEF Only, Row
<1> QED BY <1>4, <1>5

\* What every step but a truncation does to the rows.
Grows == db.ledgers \subseteq db'.ledgers /\ db.opening \subseteq db'.opening /\ db.accounts \subseteq db'.accounts

LEMMA NamesGrow == Grows => \A l : Names(l) \subseteq Names(l)'
BY DEF Grows, Names

LEMMA FurnishedGrows ==
  ASSUME Grows, Furnished
  PROVE  /\ Furnished' /\ \A l : db'.ledgers = {l} => db.ledgers = {l}
         /\ Opened => Opened'
<1>1. \A l : db'.ledgers = {l} => db.ledgers = {l}
  BY DEF Grows, Furnished
<1>2. db'.ledgers # {}
  BY DEF Grows, Furnished
<1>3. \A l : db'.ledgers = {l} => Seeds \subseteq Names(l)'
  BY <1>1, NamesGrow DEF Furnished
<1>4. Opened => Opened'
  BY <1>1 DEF Opened, Grows
<1>5. Furnished'
  BY <1>2, <1>3 DEF Furnished
<1> QED BY <1>1, <1>4, <1>5

LEMMA StageGrows ==
  ASSUME NEW t, Stage(t), Grows, task'[t] = task[t]
  PROVE  Stage(t)'
<1>1. Names(task[t].ledger) \subseteq Names(task[t].ledger)'
  BY DEF Grows, Names
<1>2. \A n : Has(t, n) => Has(t, n)'
  BY <1>1 DEF Has
<1>3. task[t].ledger \in db.ledgers => task'[t].ledger \in db'.ledgers
  BY DEF Grows
<1>4. task[t].pc \in AccountSteps => task'[t].names \subseteq Names(task[t].ledger)'
  BY <1>1 DEF Stage
<1>5. task[t].pc \in OpeningSteps \cup Reading => Furnished'
  BY FurnishedGrows DEF Stage
<1>6. task[t].pc \in Reading => Opened'
  BY FurnishedGrows DEF Stage
<1>7. task[t].pc = "readTransactions" => \A l : db'.ledgers = {l} => Seeds \subseteq task'[t].names
  BY FurnishedGrows DEF Stage, Reading
<1> QED BY <1>2, <1>3, <1>4, <1>5, <1>6, <1>7 DEF Stage

-----------------------------------------------------------------------------
(* A step of one task.                                                     *)

\* Where the task goes.
Allowed(t) ==
  /\ task'[t].pc \in StepsOf(t)
  /\ task'[t].pc \in Tenanted => task'[t].tenant # 0
  /\ t \in Resets /\ Performing(t)' => Performing(t)
  /\ t \in Resets => Stage(t)'

LEMMA TaskHappens ==
  ASSUME DemoInv, NEW t \in Tasks,
         task' \in [Tasks -> Row], Only(t), Allowed(t), UNCHANGED resetPromise, events' \in 0..MaxEvents,
         db' \in Database, nextId' \in 1..(MaxId + 1), Referred',
         Grows \/ (t \in Resets /\ Performing(t))
  PROVE  DemoInv'
<1>1. Typed'
  BY DEF DemoInv, Typed
<1>2. Staffed'
  BY DEF DemoInv, Staffed, Only, Allowed, StepsOf
<1>3. Exclusive'
  BY DEF DemoInv, Exclusive, Only, Allowed, Performing, Tasks
<1>4. ASSUME NEW s \in Resets PROVE Stage(s)'
  <2>1. CASE s = t
    BY <2>1 DEF Allowed
  <2>2. CASE s # t
    <3>1. task'[s] = task[s]
      BY <2>2 DEF Only, Tasks
    <3>2. CASE Grows
      BY <3>1, <3>2, StageGrows DEF DemoInv, Staged
    <3>3. CASE t \in Resets /\ Performing(t)
      <4>1. ~Performing(s)
        BY <2>2, <3>3 DEF DemoInv, Exclusive
      <4>2. task'[s].pc \notin SeedSteps \cup Reading
        BY <3>1, <4>1 DEF Performing
      <4> QED BY <4>2 DEF Stage, SeedSteps, AccountSteps, OpeningSteps, Reading
    <3> QED BY <3>2, <3>3
  <2> QED BY <2>1, <2>2
<1> QED BY <1>1, <1>2, <1>3, <1>4 DEF DemoInv, Staged

LEMMA TaskStep ==
  ASSUME DemoInv, NEW t \in Tasks,
         task' \in [Tasks -> Row], Only(t), Allowed(t), Rest,
         db' \in Database, nextId' \in 1..(MaxId + 1), Referred',
         Grows \/ (t \in Resets /\ Performing(t))
  PROVE  DemoInv'
<1>1. UNCHANGED resetPromise /\ events' \in 0..MaxEvents
  BY DEF DemoInv, Typed, Rest
<1> QED BY <1>1, TaskHappens

LEMMA ReadStep ==
  ASSUME DemoInv, NEW t \in Tasks,
         task' \in [Tasks -> Row], Only(t), Allowed(t), Rest, UNCHANGED <<db, nextId>>
  PROVE  DemoInv'
<1>1. db' \in Database /\ nextId' \in 1..(MaxId + 1)
  BY DEF DemoInv, Typed
<1>2. Referred' /\ Grows
  BY DEF DemoInv, Referred, Grows, First
<1> QED BY <1>1, <1>2, TaskStep

-----------------------------------------------------------------------------
(* Where tasks may go.                                                     *)

LEMMA SeedTask ==
  ASSUME DemoInv, NEW t \in Tasks, task[t].pc \in SeedSteps
  PROVE  /\ t \notin Operators /\ task[t] \in Row
         /\ SeedSteps \cup Reading \cup Resting \subseteq StepsOf(t)
         /\ t \in Resets => Stage(t) /\ Performing(t)
<1>1. t \notin Operators
  BY DEF DemoInv, Staffed, StepsOf, Reading, Resting, OperatorSteps, SeedSteps, EmptySteps,
         AccountSteps, OpeningSteps
<1> QED BY <1>1 DEF DemoInv, Typed, Staged, StepsOf, Performing

LEMMA SeedAllowed ==
  ASSUME DemoInv, NEW t \in Tasks, task[t].pc \in SeedSteps,
         task'[t].pc \in SeedSteps \cup Reading \cup Resting, t \in Resets => Stage(t)',
         task'[t].pc \in Tenanted => task'[t].tenant # 0
  PROVE  Allowed(t)
BY SeedTask DEF Allowed

LEMMA OperatorTask ==
  ASSUME DemoInv, NEW t \in Tasks, task[t].pc \in OperatorSteps
  PROVE  t \in Operators /\ t \notin Resets /\ t \notin Seeders /\ task[t] \in Row
<1>1. t \in Operators
  BY DEF DemoInv, Staffed, StepsOf, Reading, Resting, OperatorSteps, SeedSteps, EmptySteps,
         AccountSteps, OpeningSteps
<1> QED BY <1>1, TasksOfOneKind DEF DemoInv, Typed

LEMMA OperatorAllowed ==
  ASSUME DemoInv, NEW t \in Tasks, task[t].pc \in OperatorSteps,
         task'[t].pc \in OperatorSteps \cup Reading \cup Resting
  PROVE  Allowed(t)
<1>1. task'[t].pc \notin Tenanted
  BY DEF OperatorSteps, Reading, Resting, Tenanted
<1> QED BY <1>1, OperatorTask DEF Allowed, StepsOf

LEMMA ReaderAllowed ==
  ASSUME DemoInv, NEW t \in Tasks, task[t].pc \in Reading,
         task'[t].pc \in Reading \cup Resting, t \in Resets => Stage(t)'
  PROVE  Allowed(t)
<1>1. Performing(t) /\ task'[t].pc \notin Tenanted
  BY DEF Reading, Performing, Resting, Tenanted
<1> QED BY <1>1 DEF Allowed, StepsOf

\* Where nothing is promised yet, or any more.
LEMMA NoStage ==
  ASSUME NEW t, task'[t].pc \in Resting \cup {"waiting", "truncate"} \cup EmptySteps
  PROVE  Stage(t)'
BY DEF Stage, Resting, SeedSteps, EmptySteps, AccountSteps, OpeningSteps, Reading

LEMMA RestingIsNotPerforming ==
  ASSUME NEW t
  PROVE  /\ task[t].pc \in Resting \cup {"waiting"} => ~Performing(t)
         /\ task'[t].pc \in Resting \cup {"waiting"} => ~Performing(t)'
BY DEF Performing, Resting, SeedSteps, EmptySteps, AccountSteps, OpeningSteps, Reading

\* A task that fails.
LEMMA FailStep ==
  ASSUME DemoInv, NEW t \in Tasks, Fail(t), Rest
  PROVE  DemoInv'
<1>1. Typed
  BY DEF DemoInv
<1>2. task' \in [Tasks -> Row] /\ Only(t) /\ task'[t].pc = "failed" /\ UNCHANGED <<db, nextId>>
  <2>1. "failed" \in Steps
    BY DEF Steps, Resting
  <2> QED BY <1>1, <2>1, Goes DEF Fail
<1>3. task'[t].pc \in Resting /\ task'[t].pc \in StepsOf(t) /\ task'[t].pc \notin Tenanted
  BY <1>2 DEF StepsOf, Resting, Tenanted
<1>4. ~Performing(t)' /\ Stage(t)'
  BY <1>3, NoStage, RestingIsNotPerforming
<1>5. Allowed(t)
  BY <1>3, <1>4 DEF Allowed
<1> QED BY <1>2, <1>5, ReadStep

-----------------------------------------------------------------------------
(* Seeding.                                                                *)

LEMMA FirstIsLedger ==
  ASSUME Typed, Referred
  PROVE  /\ First \in 0..MaxId
         /\ db.ledgers # {} => First \in db.ledgers /\ db.tenant # 0
BY DEF Typed, Referred, Database, First

LEMMA StartSeedKeeps ==
  ASSUME DemoInv, NEW t \in Tasks, StartSeed(t)
  PROVE  DemoInv'
<1>1. Typed /\ Referred /\ t \in Seeders /\ t \notin Resets /\ t \notin Operators
      /\ task[t].pc = "idle" /\ UNCHANGED <<db, nextId>> /\ Rest /\ task \in [Tasks -> Row]
  BY TasksOfOneKind DEF DemoInv, Typed, StartSeed
<1>2. PICK row \in Row : /\ task' = [task EXCEPT ![t] = row]
                         /\ row.pc \in {"readAccounts", "bootstrap"}
  <2>1. CASE Ready
    <3>1. [Idle EXCEPT !.pc = "readAccounts", !.ledger = First] \in Row
      BY <1>1, <2>1, FirstIsLedger, IdleType DEF Row, Idle, Steps, Reading
    <3> QED BY <2>1, <3>1 DEF StartSeed, Idle
  <2>2. CASE ~Ready
    <3>1. [Idle EXCEPT !.pc = "bootstrap"] \in Row
      BY IdleType DEF Steps, SeedSteps, EmptySteps
    <3> QED BY <2>2, <3>1 DEF StartSeed, Idle
  <2> QED BY <2>1, <2>2
<1>3. task' \in [Tasks -> Row] /\ Only(t) /\ task'[t].pc \in {"readAccounts", "bootstrap"}
  BY <1>1, <1>2 DEF Only
<1>4. Allowed(t)
  BY <1>1, <1>3 DEF Allowed, StepsOf, Reading, SeedSteps, EmptySteps, Tenanted
<1> QED BY <1>1, <1>3, <1>4, ReadStep

LEMMA BootstrapKeeps ==
  ASSUME DemoInv, NEW t \in Tasks, Bootstrap(t)
  PROVE  DemoInv'
<1>1. /\ Typed /\ Referred /\ task \in [Tasks -> Row] /\ db \in Database
      /\ task[t].pc = "bootstrap" /\ Rest /\ task[t] \in Row /\ task[t].pc \in SeedSteps
  BY DEF DemoInv, Typed, Bootstrap, SeedSteps, EmptySteps
<1>2. ASSUME NEW id \in 0..MaxId, id # 0,
             task' = [task EXCEPT ![t].tenant = id, ![t].pc = "listAssets"]
      PROVE  task' \in [Tasks -> Row] /\ Only(t) /\ Allowed(t)
  <2>1. /\ task' = [task EXCEPT ![t] = [task[t] EXCEPT !.tenant = id, !.pc = "listAssets"]]
        /\ [task[t] EXCEPT !.tenant = id, !.pc = "listAssets"] \in Row
    BY <1>1, <1>2 DEF Row, Steps, SeedSteps, EmptySteps
  <2>2. task' \in [Tasks -> Row] /\ Only(t) /\ task'[t].pc = "listAssets" /\ task'[t].tenant = id
    BY <1>1, <2>1 DEF Only, Row
  <2>3. task'[t].pc \in EmptySteps /\ task'[t].pc \in SeedSteps
    BY <2>2 DEF SeedSteps, EmptySteps
  <2>4. Allowed(t)
    BY <1>1, <1>2, <2>2, <2>3, NoStage, SeedAllowed
  <2> QED BY <2>2, <2>4
<1>3. CASE db.tenant # 0 /\ UNCHANGED <<db, nextId>> /\
           task' = [task EXCEPT ![t].tenant = db.tenant, ![t].pc = "listAssets"]
  <2>1. db.tenant \in 0..MaxId
    BY <1>1 DEF Database
  <2> QED BY <1>1, <1>2, <1>3, <2>1, ReadStep
<1>4. CASE /\ nextId <= MaxId /\ nextId' = nextId + 1
           /\ db' = [db EXCEPT !.tenant = nextId]
           /\ task' = [task EXCEPT ![t].tenant = nextId, ![t].pc = "listAssets"]
  <2>1. nextId \in 0..MaxId /\ nextId # 0 /\ nextId' \in 1..(MaxId + 1)
    BY <1>1, <1>4, BoundsAreNat DEF Typed
  <2>2. /\ db' \in Database /\ db'.tenant = nextId /\ db'.ledgers = db.ledgers /\ db'.opening = db.opening
        /\ db'.accounts = db.accounts /\ db'.holds = db.holds /\ db'.first = db.first
    BY <1>1, <1>4, <2>1 DEF Database
  <2>3. Referred' /\ Grows
    BY <1>1, <2>1, <2>2 DEF Referred, Grows, First
  <2>4. task' \in [Tasks -> Row] /\ Only(t) /\ Allowed(t)
    BY <1>2, <1>4, <2>1
  <2> QED BY <1>1, <2>1, <2>2, <2>3, <2>4, TaskStep
<1>5. CASE Fail(t)
  BY <1>1, <1>5, FailStep
<1> QED BY <1>3, <1>4, <1>5 DEF Bootstrap

\* A seed step that goes on with what it has read.
LEMMA GoesOn ==
  ASSUME DemoInv, NEW t \in Tasks, NEW pc \in SeedSteps \cup Reading, Goto(t, pc)
  PROVE  /\ task' \in [Tasks -> Row] /\ Only(t) /\ task'[t].pc = pc
         /\ task'[t].ledger = task[t].ledger /\ task'[t].names = task[t].names
         /\ task'[t].tenant = task[t].tenant
<1>1. pc \in Steps /\ Typed /\ pc \notin Ended
  BY DEF Steps, DemoInv, Ended, SeedSteps, EmptySteps, AccountSteps, OpeningSteps, Reading
<1> QED BY <1>1, Goes

LEMMA SeedGoesOn ==
  ASSUME DemoInv, NEW t \in Tasks, task[t].pc \in SeedSteps,
         NEW pc \in SeedSteps \cup Reading, Goto(t, pc), t \in Resets => Stage(t)',
         pc \in Tenanted => task[t].tenant # 0
  PROVE  task' \in [Tasks -> Row] /\ Only(t) /\ Allowed(t)
<1>1. /\ task' \in [Tasks -> Row] /\ Only(t) /\ task'[t].pc = pc /\ task'[t].tenant = task[t].tenant
  BY GoesOn
<1>2. task'[t].pc \in SeedSteps \cup Reading \cup Resting
  BY <1>1
<1> QED BY <1>1, <1>2, SeedAllowed

LEMMA AssetKeeps ==
  ASSUME DemoInv, NEW t \in Tasks, ListAssets(t) \/ CreateAsset(t)
  PROVE  DemoInv'
<1>1. /\ task[t].pc \in {"listAssets", "createAsset"} /\ Rest /\ db \in Database /\ Referred
      /\ task[t].pc \in SeedSteps /\ task[t].tenant # 0
  BY DEF DemoInv, Typed, Staffed, ListAssets, CreateAsset, SeedSteps, EmptySteps, Tenanted
<1>2. CASE Fail(t)
  BY <1>1, <1>2, FailStep
<1>3. ASSUME NEW pc \in {"listLedgers", "createAsset"}, Goto(t, pc)
      PROVE  task' \in [Tasks -> Row] /\ Only(t) /\ Allowed(t)
  <2>1. pc \in SeedSteps /\ pc \in EmptySteps
    BY DEF SeedSteps, EmptySteps
  <2>2. task'[t].pc = pc
    BY <1>3, <2>1, GoesOn
  <2>3. Stage(t)'
    BY <2>1, <2>2, NoStage
  <2> QED BY <1>1, <1>3, <2>1, <2>3, SeedGoesOn
<1>4. CASE ListAssets(t)
  <2>1. UNCHANGED <<db, nextId>> /\ \E pc \in {"listLedgers", "createAsset"} : Goto(t, pc)
    BY <1>4 DEF ListAssets
  <2> QED BY <1>1, <1>3, <2>1, ReadStep
<1>5. CASE db' = [db EXCEPT !.asset = TRUE] /\ Goto(t, "listLedgers") /\ UNCHANGED nextId
  <2>1. /\ db' \in Database /\ db'.tenant = db.tenant /\ db'.ledgers = db.ledgers /\ db'.opening = db.opening
        /\ db'.accounts = db.accounts /\ db'.holds = db.holds /\ db'.first = db.first /\ nextId' \in 1..(MaxId + 1)
    BY <1>1, <1>5 DEF Database, DemoInv, Typed
  <2>2. Grows /\ Referred'
    BY <1>1, <2>1 DEF Grows, Referred, First
  <2>3. task' \in [Tasks -> Row] /\ Only(t) /\ Allowed(t)
    BY <1>3, <1>5
  <2> QED BY <1>1, <2>1, <2>2, <2>3, TaskStep
<1> QED BY <1>2, <1>4, <1>5 DEF CreateAsset

\* A task that takes a ledger of the database as its own.
LEMMA TakesLedger ==
  ASSUME DemoInv, NEW t \in Tasks, task[t].pc \in SeedSteps, NEW l \in db'.ledgers, l \in 0..MaxId,
         task' = [task EXCEPT ![t].pc = "listAccounts", ![t].ledger = l]
  PROVE  task' \in [Tasks -> Row] /\ Only(t) /\ Allowed(t)
<1>1. task \in [Tasks -> Row] /\ task[t] \in Row
  BY DEF DemoInv, Typed
<1>2. task' = [task EXCEPT ![t] = [task[t] EXCEPT !.pc = "listAccounts", !.ledger = l]]
      /\ [task[t] EXCEPT !.pc = "listAccounts", !.ledger = l] \in Row
  BY <1>1 DEF Row, Steps, SeedSteps
<1>3. task' \in [Tasks -> Row] /\ Only(t) /\ task'[t].pc = "listAccounts" /\ task'[t].ledger = l
  BY <1>1, <1>2 DEF Only, Row
<1>4. Stage(t)'
  BY <1>3 DEF Stage, SeedSteps, EmptySteps, AccountSteps, OpeningSteps, Reading
<1>5. Allowed(t)
  BY <1>3, <1>4, SeedAllowed DEF SeedSteps, Tenanted
<1> QED BY <1>3, <1>5

LEMMA ListLedgersKeeps ==
  ASSUME DemoInv, NEW t \in Tasks, ListLedgers(t)
  PROVE  DemoInv'
<1>1. /\ task[t].pc = "listLedgers" /\ Rest /\ UNCHANGED <<db, nextId>> /\ Typed /\ Referred
      /\ task[t].pc \in SeedSteps /\ task \in [Tasks -> Row] /\ task[t] \in Row /\ task[t].tenant # 0
  BY DEF DemoInv, Typed, Staffed, ListLedgers, SeedSteps, EmptySteps, Tenanted
<1>2. CASE TenantExists(t) /\ db.ledgers # {}
  <2>1. task' = [task EXCEPT ![t].pc = "listAccounts", ![t].ledger = First] /\ First \in 0..MaxId
        /\ First \in db'.ledgers
    BY <1>1, <1>2, FirstIsLedger DEF ListLedgers
  <2> QED BY <1>1, <2>1, TakesLedger, ReadStep
<1>3. CASE ~(TenantExists(t) /\ db.ledgers # {})
  <2>1. task' = [task EXCEPT ![t] = [task[t] EXCEPT !.pc = "createLedger"]]
        /\ [task[t] EXCEPT !.pc = "createLedger"] \in Row
    BY <1>1, <1>3 DEF ListLedgers, Row, Steps, SeedSteps, EmptySteps
  <2>2. task' \in [Tasks -> Row] /\ Only(t) /\ task'[t].pc = "createLedger" /\ task'[t].tenant = task[t].tenant
    BY <1>1, <2>1 DEF Only, Row
  <2>3. task'[t].pc \in EmptySteps /\ task'[t].pc \in SeedSteps
    BY <2>2 DEF SeedSteps, EmptySteps
  <2>4. Allowed(t)
    BY <1>1, <2>2, <2>3, NoStage, SeedAllowed
  <2> QED BY <1>1, <2>2, <2>4, ReadStep
<1> QED BY <1>2, <1>3

LEMMA CreateLedgerKeeps ==
  ASSUME DemoInv, NEW t \in Tasks, CreateLedger(t)
  PROVE  DemoInv'
<1>1. /\ task[t].pc = "createLedger" /\ Rest /\ Typed /\ Referred
      /\ task[t].pc \in SeedSteps /\ db \in Database /\ task[t].tenant # 0
  BY DEF DemoInv, Typed, Staffed, CreateLedger, SeedSteps, EmptySteps, Tenanted
<1>2. CASE Fail(t)
  BY <1>1, <1>2, FailStep
<1>3. ASSUME TenantExists(t), nextId <= MaxId, nextId' = nextId + 1,
             NEW first \in {nextId} \cup (db.ledgers \cap {db.first}),
             db' = [db EXCEPT !.ledgers = db.ledgers \cup {nextId}, !.first = first],
             task' = [task EXCEPT ![t].pc = "listAccounts", ![t].ledger = nextId]
      PROVE  DemoInv'
  <2>1. nextId \in 1..MaxId /\ nextId \in 0..MaxId /\ nextId' \in 1..(MaxId + 1) /\ db.tenant # 0
    BY <1>1, <1>3, BoundsAreNat DEF Typed, TenantExists
  <2>2. first \in 0..MaxId /\ first \in db.ledgers \cup {nextId}
    BY <1>1, <2>1 DEF Database
  <2>3. /\ db' \in Database /\ db'.tenant = db.tenant /\ db'.ledgers = db.ledgers \cup {nextId}
        /\ db'.opening = db.opening /\ db'.accounts = db.accounts /\ db'.holds = db.holds
        /\ db'.first = first
    BY <1>1, <1>3, <2>1, <2>2 DEF Database
  <2>4. Referred' /\ Grows
    BY <1>1, <2>1, <2>2, <2>3 DEF Referred, Grows, First
  <2>5. task' \in [Tasks -> Row] /\ Only(t) /\ Allowed(t)
    BY <1>1, <1>3, <2>1, <2>3, TakesLedger
  <2> QED BY <1>1, <2>1, <2>3, <2>4, <2>5, TaskStep
<1> QED BY <1>2, <1>3 DEF CreateLedger

\* The next stage of a reset that stays with its ledger.
LEMMA SameLedger ==
  ASSUME DemoInv, NEW t \in Resets, task[t].pc \in SeedSteps \ EmptySteps, Grows,
         task'[t].pc \in AccountSteps \cup OpeningSteps, task'[t].ledger = task[t].ledger,
         task'[t].pc \in AccountSteps => task'[t].names \subseteq Names(task[t].ledger)',
         task'[t].pc = "createAccount2" => {SeedAddresses[i] : i \in 1..1} \subseteq Names(task[t].ledger)',
         task'[t].pc = "createAccount3" => {SeedAddresses[i] : i \in 1..2} \subseteq Names(task[t].ledger)',
         task'[t].pc \in OpeningSteps   => Furnished'
  PROVE  Stage(t)'
<1>1. task'[t].ledger \in db'.ledgers
  BY DEF DemoInv, Staged, Stage, Grows
<1>2. task'[t].pc \notin Reading
  BY DEF AccountSteps, OpeningSteps, Reading
<1>3. /\ task'[t].pc = "createAccount2" => Has(t, 1)'
      /\ task'[t].pc = "createAccount3" => Has(t, 2)'
  BY DEF Has
<1> QED BY <1>1, <1>2, <1>3 DEF Stage, Reading

LEMMA ListAccountsKeeps ==
  ASSUME DemoInv, NEW t \in Tasks, ListAccounts(t)
  PROVE  DemoInv'
<1>1. /\ task[t].pc = "listAccounts" /\ Rest /\ Typed /\ UNCHANGED <<db, nextId>>
      /\ task[t].pc \in SeedSteps \ EmptySteps /\ task \in [Tasks -> Row] /\ task[t] \in Row
  BY DEF DemoInv, Typed, ListAccounts, SeedSteps, EmptySteps
<1>2. Names(task[t].ledger) \subseteq Known
  BY <1>1 DEF Typed, Database, Account, Names
<1>3. task' = [task EXCEPT ![t] = [task[t] EXCEPT !.pc = "createAccount1", !.names = Names(task[t].ledger)]]
      /\ [task[t] EXCEPT !.pc = "createAccount1", !.names = Names(task[t].ledger)] \in Row
  BY <1>1, <1>2 DEF ListAccounts, Row, Steps, SeedSteps, AccountSteps
<1>4. /\ task' \in [Tasks -> Row] /\ Only(t) /\ task'[t].pc = "createAccount1"
      /\ task'[t].ledger = task[t].ledger /\ task'[t].names = Names(task[t].ledger)
  BY <1>1, <1>3 DEF Only, Row
<1>5. Grows
  BY <1>1 DEF Grows
<1>6. t \in Resets => Stage(t)'
  <2>1. task'[t].pc \in AccountSteps /\ task'[t].pc \notin OpeningSteps
    BY <1>4 DEF AccountSteps, OpeningSteps
  <2>2. task'[t].pc # "createAccount2" /\ task'[t].pc # "createAccount3"
    BY <1>4
  <2>3. task'[t].names \subseteq Names(task[t].ledger)'
    BY <1>1, <1>4 DEF Names
  <2> QED BY <1>1, <1>4, <1>5, <2>1, <2>2, <2>3, SameLedger
<1>7. Allowed(t)
  BY <1>1, <1>4, <1>6, SeedAllowed DEF SeedSteps, AccountSteps, Tenanted
<1> QED BY <1>1, <1>4, <1>7, ReadStep

LEMMA FirstNames ==
  /\ {SeedAddresses[i] : i \in 1..1} = {SeedAddresses[1]}
  /\ {SeedAddresses[i] : i \in 1..2} = {SeedAddresses[1], SeedAddresses[2]}
  /\ Seeds = {SeedAddresses[1], SeedAddresses[2], SeedAddresses[3]}
<1>1. 1..1 = {1} /\ 1..2 = {1, 2} /\ 1..3 = {1, 2, 3}
  OBVIOUS
<1>2. {SeedAddresses[i] : i \in 1..1} = {SeedAddresses[1]}
  BY <1>1
<1>3. {SeedAddresses[i] : i \in 1..2} = {SeedAddresses[1], SeedAddresses[2]}
  BY <1>1
<1>4. Seeds = {SeedAddresses[1], SeedAddresses[2], SeedAddresses[3]}
  BY <1>1 DEF Seeds
<1> QED BY <1>2, <1>3, <1>4

LEMMA SeedAccountKeeps ==
  ASSUME DemoInv, NEW t \in Tasks, NEW i \in 1..3, CreateSeedAccount(t, i)
  PROVE  DemoInv'
<1> DEFINE pc   == <<"createAccount1", "createAccount2", "createAccount3">>[i]
           next == <<"createAccount2", "createAccount3", "listTransactions">>[i]
           row  == [ledger |-> task[t].ledger, name |-> SeedAddresses[i]]
<1>1. \/ i = 1 /\ pc = "createAccount1" /\ next = "createAccount2"
      \/ i = 2 /\ pc = "createAccount2" /\ next = "createAccount3"
      \/ i = 3 /\ pc = "createAccount3" /\ next = "listTransactions"
  OBVIOUS
<1>2. /\ task[t].pc = pc /\ Rest
      /\ \/ SeedAddresses[i] \in task[t].names /\ Goto(t, next) /\ UNCHANGED <<db, nextId>>
         \/ /\ LedgerExists(t) /\ db' = [db EXCEPT !.accounts = db.accounts \cup {row}]
            /\ Goto(t, next) /\ UNCHANGED nextId
         \/ Fail(t)
  BY DEF CreateSeedAccount
<1> HIDE DEF pc, next, row
<1>3. /\ Typed /\ Referred /\ db \in Database /\ task[t] \in Row
      /\ task[t].pc \in AccountSteps /\ task[t].pc \in SeedSteps \ EmptySteps
      /\ next \in AccountSteps \cup {"listTransactions"} /\ next \in SeedSteps /\ next \in AccountSteps \cup OpeningSteps
      /\ next \in OpeningSteps => next = "listTransactions"
      /\ next \notin Tenanted
  BY <1>1, <1>2 DEF DemoInv, Typed, SeedSteps, EmptySteps, AccountSteps, OpeningSteps, Tenanted
<1>4. CASE Fail(t)
  BY <1>2, <1>4, FailStep
<1>5. ASSUME Goto(t, next), Grows, db'.ledgers = db.ledgers,
             t \in Resets => SeedAddresses[i] \in Names(task[t].ledger)'
      PROVE  task' \in [Tasks -> Row] /\ Only(t) /\ Allowed(t)
  <2>1. task'[t].pc = next /\ task'[t].ledger = task[t].ledger /\ task'[t].names = task[t].names
    BY <1>3, <1>5, GoesOn
  <2>2. Names(task[t].ledger) \subseteq Names(task[t].ledger)'
    BY <1>5, <2>1 DEF Names, Grows
  <2>3. ASSUME t \in Resets PROVE Stage(t)'
    <3>1. /\ task[t].names \subseteq Names(task[t].ledger)
          /\ task[t].pc = "createAccount2" => {SeedAddresses[j] : j \in 1..1} \subseteq Names(task[t].ledger)
          /\ task[t].pc = "createAccount3" => {SeedAddresses[j] : j \in 1..2} \subseteq Names(task[t].ledger)
          /\ task[t].ledger \in db.ledgers
      BY <1>3, <2>3 DEF DemoInv, Staged, Stage, Has
    <3>2. /\ next = "createAccount2" => {SeedAddresses[j] : j \in 1..1} \subseteq Names(task[t].ledger)'
          /\ next = "createAccount3" => {SeedAddresses[j] : j \in 1..2} \subseteq Names(task[t].ledger)'
          /\ next = "listTransactions" => Seeds \subseteq Names(task[t].ledger)'
      BY <1>1, <1>2, <1>5, <2>2, <2>3, <3>1, FirstNames
    <3>3. task'[t].names \subseteq Names(task[t].ledger)'
      BY <2>1, <2>2, <3>1
    <3>4. next = "listTransactions" => Furnished'
      <4> SUFFICES ASSUME next = "listTransactions" PROVE Furnished'
        OBVIOUS
      <4>1. db'.ledgers # {} /\ \A l : db'.ledgers = {l} => l = task[t].ledger
        BY <1>5, <3>1
      <4>2. \A l : db'.ledgers = {l} => Seeds \subseteq Names(l)'
        <5> TAKE l
        <5> HAVE db'.ledgers = {l}
        <5>1. l = task[t].ledger
          BY <4>1
        <5>2. Names(l)' = Names(task[t].ledger)'
          BY <2>1, <5>1 DEF Names
        <5> QED BY <3>2, <5>2
      <4> QED BY <4>1, <4>2 DEF Furnished
    <3> QED BY <1>3, <1>5, <2>1, <2>3, <3>2, <3>3, <3>4, SameLedger
  <2> QED BY <1>3, <1>5, <2>3, SeedGoesOn
<1>6. CASE SeedAddresses[i] \in task[t].names /\ Goto(t, next) /\ UNCHANGED <<db, nextId>>
  <2>1. Grows
    BY <1>6 DEF Grows
  <2>2. task'[t].ledger = task[t].ledger
    BY <1>3, <1>6, GoesOn
  <2>3. t \in Resets => SeedAddresses[i] \in Names(task[t].ledger)'
    <3>1. t \in Resets => task[t].names \subseteq Names(task[t].ledger)
      BY <1>3 DEF DemoInv, Staged, Stage
    <3>2. Names(task[t].ledger) = Names(task[t].ledger)'
      BY <1>6, <2>2 DEF Names
    <3> QED BY <1>6, <3>1, <3>2
  <2> QED BY <1>2, <1>5, <1>6, <2>1, <2>3, ReadStep
<1>7. CASE /\ LedgerExists(t) /\ db' = [db EXCEPT !.accounts = db.accounts \cup {row}]
           /\ Goto(t, next) /\ UNCHANGED nextId
  <2>1. task[t].ledger \in db.ledgers /\ task[t].ledger \in 1..MaxId
    BY <1>3, <1>7 DEF LedgerExists, Database
  <2>2. row \in Account /\ row.ledger = task[t].ledger /\ row.name = SeedAddresses[i]
    BY <2>1 DEF row, Account, Known, Seeds
  <2>3. /\ db' \in Database /\ db'.tenant = db.tenant /\ db'.ledgers = db.ledgers /\ db'.opening = db.opening
        /\ db'.accounts = db.accounts \cup {row} /\ db'.holds = db.holds /\ db'.first = db.first
        /\ nextId' \in 1..(MaxId + 1)
    BY <1>3, <1>7, <2>2 DEF Database, Typed
  <2>4. Grows /\ Referred'
    BY <1>3, <2>1, <2>2, <2>3 DEF Grows, Referred, First
  <2>5. task'[t].ledger = task[t].ledger
    BY <1>3, <1>7, GoesOn
  <2>6. SeedAddresses[i] \in Names(task[t].ledger)'
    BY <2>2, <2>3, <2>5 DEF Names
  <2>7. task' \in [Tasks -> Row] /\ Only(t) /\ Allowed(t)
    BY <1>5, <1>7, <2>3, <2>4, <2>6
  <2> QED BY <1>2, <2>3, <2>4, <2>7, TaskStep
<1> QED BY <1>2, <1>4, <1>6, <1>7

\* A reset past its accounts keeps a ledger that has them.
LEMMA FurnishedStep ==
  ASSUME DemoInv, NEW t \in Resets, task[t].pc \in OpeningSteps, Grows
  PROVE  /\ Furnished /\ Furnished' /\ task[t].ledger \in db.ledgers /\ task[t].ledger \in db'.ledgers
         /\ \A l : db'.ledgers = {l} => db.ledgers = {l}
<1>1. Furnished /\ task[t].ledger \in db.ledgers
  BY DEF DemoInv, Staged, Stage, SeedSteps, EmptySteps, OpeningSteps
<1> QED BY <1>1, FurnishedGrows DEF Grows

\* It has the opening posting when it reads the state.
LEMMA ReadingStage ==
  ASSUME NEW t \in Resets, Furnished', Opened', task'[t].pc \in Reading,
         task'[t].pc # "getState" => task'[t].ledger \in db'.ledgers,
         task'[t].pc = "readTransactions" => \A l : db'.ledgers = {l} => Seeds \subseteq task'[t].names
  PROVE  Stage(t)'
<1>1. task'[t].pc \notin SeedSteps
  BY DEF SeedSteps, EmptySteps, AccountSteps, OpeningSteps, Reading
<1>2. task'[t].pc \notin AccountSteps \cup {"createAccount2", "createAccount3"}
  BY <1>1 DEF SeedSteps, AccountSteps
<1>3. task'[t].pc \in {"readAccounts", "readTransactions"} => task'[t].pc # "getState"
  OBVIOUS
<1> QED BY <1>1, <1>2, <1>3 DEF Stage

LEMMA ListTransactionsKeeps ==
  ASSUME DemoInv, NEW t \in Tasks, ListTransactions(t)
  PROVE  DemoInv'
<1>1. /\ task[t].pc = "listTransactions" /\ Rest /\ UNCHANGED <<db, nextId>>
      /\ task[t].pc \in OpeningSteps /\ task[t].pc \in SeedSteps \ EmptySteps
  BY DEF ListTransactions, SeedSteps, EmptySteps, OpeningSteps
<1>2. Grows
  BY <1>1 DEF Grows
<1>3. CASE Goto(t, "lookup")
  <2>1. "lookup" \in OpeningSteps /\ "lookup" \in SeedSteps /\ "lookup" \notin AccountSteps /\ "lookup" \notin Tenanted
    BY DEF SeedSteps, EmptySteps, AccountSteps, OpeningSteps, Tenanted
  <2>2. task'[t].pc = "lookup" /\ task'[t].ledger = task[t].ledger
    BY <1>3, <2>1, GoesOn
  <2>3. t \in Resets => Stage(t)'
    BY <1>1, <1>2, <2>1, <2>2, FurnishedStep, SameLedger
  <2> QED BY <1>1, <1>3, <2>1, <2>3, SeedGoesOn, ReadStep
<1>4. CASE task[t].ledger \in db.opening /\ Goto(t, "getState")
  <2>1. "getState" \in Reading /\ "getState" \notin Tenanted
    BY DEF Reading, Tenanted
  <2>2. task'[t].pc = "getState"
    BY <1>4, <2>1, GoesOn
  <2>3. ASSUME t \in Resets PROVE Stage(t)'
    <3>1. Furnished' /\ task[t].ledger \in db.ledgers
      BY <1>1, <1>2, <2>3, FurnishedStep
    <3>2. Opened'
      BY <1>1, <1>4, <3>1 DEF Opened
    <3> QED BY <2>1, <2>2, <2>3, <3>1, <3>2, ReadingStage
  <2> QED BY <1>1, <1>4, <2>1, <2>3, SeedGoesOn, ReadStep
<1> QED BY <1>3, <1>4 DEF ListTransactions

LEMMA LookUpKeeps ==
  ASSUME DemoInv, NEW t \in Tasks, LookUp(t)
  PROVE  DemoInv'
<1>1. /\ task[t].pc = "lookup" /\ Rest /\ Typed /\ Referred
      /\ task[t].pc \in OpeningSteps /\ task[t].pc \in SeedSteps
      /\ task \in [Tasks -> Row] /\ task[t] \in Row
  BY DEF DemoInv, Typed, LookUp, SeedSteps, EmptySteps, OpeningSteps
<1>2. CASE Fail(t)
  BY <1>1, <1>2, FailStep
<1>3. CASE Ready /\ task' = [task EXCEPT ![t].pc = "post", ![t].ledger = First] /\ UNCHANGED <<db, nextId>>
  <2>1. First \in 0..MaxId /\ First \in db.ledgers
    BY <1>1, <1>3, FirstIsLedger DEF Ready
  <2>2. "post" \in OpeningSteps /\ "post" \in SeedSteps /\ "post" \notin AccountSteps /\ "post" \in Steps
        /\ "post" \notin Reading /\ "post" \notin Tenanted
    BY DEF SeedSteps, EmptySteps, AccountSteps, OpeningSteps, Steps, Reading, Tenanted
  <2>3. task' = [task EXCEPT ![t] = [task[t] EXCEPT !.pc = "post", !.ledger = First]]
        /\ [task[t] EXCEPT !.pc = "post", !.ledger = First] \in Row
    BY <1>1, <1>3, <2>1, <2>2 DEF Row
  <2>4. task' \in [Tasks -> Row] /\ Only(t) /\ task'[t].pc = "post" /\ task'[t].ledger = First
    BY <1>1, <2>3 DEF Only, Row
  <2>5. ASSUME t \in Resets PROVE Stage(t)'
    <3>1. Grows /\ db'.ledgers = db.ledgers
      BY <1>3 DEF Grows
    <3>2. Furnished'
      BY <1>1, <2>5, <3>1, FurnishedStep
    <3>3. task'[t].ledger \in db'.ledgers
      BY <2>1, <2>4, <3>1
    <3> QED BY <2>2, <2>4, <3>2, <3>3 DEF Stage
  <2>6. Allowed(t)
    BY <1>1, <2>2, <2>4, <2>5, SeedAllowed
  <2> QED BY <1>1, <1>3, <2>4, <2>6, ReadStep
<1> QED BY <1>2, <1>3 DEF LookUp

LEMMA PostOpeningKeeps ==
  ASSUME DemoInv, NEW t \in Tasks, PostOpening(t)
  PROVE  DemoInv'
<1>1. /\ task[t].pc = "post" /\ Rest /\ Typed /\ Referred /\ db \in Database
      /\ task[t].pc \in OpeningSteps /\ task[t].pc \in SeedSteps /\ task[t] \in Row
  BY DEF DemoInv, Typed, PostOpening, SeedSteps, EmptySteps, OpeningSteps
<1>2. "getState" \in Reading /\ "getState" \in SeedSteps \cup Reading /\ "getState" \notin Tenanted
  BY DEF Reading, Tenanted
<1>3. CASE Fail(t)
  BY <1>1, <1>3, FailStep
<1>4. ASSUME Goto(t, "getState"), Grows, task[t].ledger \in db'.opening
      PROVE  task' \in [Tasks -> Row] /\ Only(t) /\ Allowed(t)
  <2>1. task'[t].pc = "getState"
    BY <1>2, <1>4, GoesOn
  <2>2. ASSUME t \in Resets PROVE Stage(t)'
    <3>1. Furnished' /\ task[t].ledger \in db'.ledgers
      BY <1>1, <1>4, <2>2, FurnishedStep
    <3>2. Opened'
      BY <1>4, <3>1 DEF Opened
    <3> QED BY <1>2, <2>1, <2>2, <3>1, <3>2, ReadingStage
  <2> QED BY <1>1, <1>2, <1>4, <2>2, SeedGoesOn
<1>5. CASE task[t].ledger \in db.opening /\ Goto(t, "getState") /\ UNCHANGED <<db, nextId>>
  <2>1. Grows /\ task[t].ledger \in db'.opening
    BY <1>5 DEF Grows
  <2> QED BY <1>1, <1>4, <1>5, <2>1, ReadStep
<1>6. CASE /\ LedgerExists(t) /\ db.opening = {}
           /\ db' = [db EXCEPT !.opening = {task[t].ledger}]
           /\ Goto(t, "getState") /\ UNCHANGED nextId
  <2>1. task[t].ledger \in db.ledgers /\ task[t].ledger \in 1..MaxId
    BY <1>1, <1>6 DEF LedgerExists, Database
  <2>2. /\ db' \in Database /\ db'.tenant = db.tenant /\ db'.ledgers = db.ledgers /\ db'.first = db.first
        /\ db'.accounts = db.accounts /\ db'.holds = db.holds /\ db'.opening = {task[t].ledger}
        /\ nextId' \in 1..(MaxId + 1)
    BY <1>1, <1>6, <2>1 DEF Database, Typed
  <2>3. Referred' /\ Grows
    BY <1>1, <1>6, <2>1, <2>2 DEF Referred, Grows, First
  <2> QED BY <1>1, <1>4, <1>6, <2>2, <2>3, TaskStep
<1> QED BY <1>3, <1>5, <1>6 DEF PostOpening

-----------------------------------------------------------------------------
(* Reading the state.                                                      *)

LEMMA ReadingFacts ==
  ASSUME DemoInv, NEW t \in Resets, task[t].pc \in Reading, UNCHANGED db
  PROVE  /\ Furnished /\ Opened /\ Furnished' /\ Opened'
         /\ task[t].pc # "getState" => task[t].ledger \in db.ledgers
<1>1. Furnished /\ Opened
  BY DEF DemoInv, Staged, Stage
<1>2. task[t].pc # "getState" => task[t].ledger \in db.ledgers
  BY DEF DemoInv, Staged, Stage, Reading
<1> QED BY <1>1, <1>2, FurnishedGrows DEF Grows

LEMMA GetStateKeeps ==
  ASSUME DemoInv, NEW t \in Tasks, GetState(t)
  PROVE  DemoInv'
<1>1. /\ task[t].pc = "getState" /\ task[t].pc \in Reading /\ Rest /\ UNCHANGED <<db, nextId>>
      /\ Typed /\ Referred /\ task \in [Tasks -> Row]
  BY DEF DemoInv, Typed, GetState, Reading
<1>2. CASE Ready
  <2>1. [Idle EXCEPT !.ledger = First, !.pc = "readAccounts"] \in Row /\ First \in db.ledgers
    BY <1>1, <1>2, FirstIsLedger, IdleType DEF Row, Idle, Steps, Reading, Ready
  <2>2. /\ task' \in [Tasks -> Row] /\ Only(t) /\ task'[t].pc = "readAccounts" /\ task'[t].ledger = First
    BY <1>1, <1>2, <2>1 DEF GetState, Only, Idle
  <2>3. "readAccounts" \in Reading
    BY DEF Reading
  <2>4. t \in Resets => Stage(t)'
    BY <1>1, <2>1, <2>2, <2>3, ReadingFacts, ReadingStage
  <2>5. Allowed(t)
    BY <1>1, <2>2, <2>3, <2>4, ReaderAllowed
  <2> QED BY <1>1, <2>2, <2>5, ReadStep
<1>3. CASE ~Ready
  <2>1. [Idle EXCEPT !.ledger = 0, !.pc = "failed"] \in Row
    BY BoundsAreNat, IdleType DEF Row, Idle, Steps, Resting
  <2>2. task' \in [Tasks -> Row] /\ Only(t) /\ task'[t].pc = "failed"
    BY <1>1, <1>3, <2>1 DEF GetState, Only, Idle
  <2>3. task'[t].pc \in Resting
    BY <2>2 DEF Resting
  <2>4. Allowed(t)
    BY <1>1, <2>2, <2>3, NoStage, ReaderAllowed
  <2> QED BY <1>1, <2>2, <2>4, ReadStep
<1> QED BY <1>2, <1>3

LEMMA ReadAccountsKeeps ==
  ASSUME DemoInv, NEW t \in Tasks, ReadAccounts(t)
  PROVE  DemoInv'
<1>1. /\ task[t].pc = "readAccounts" /\ task[t].pc \in Reading /\ Rest /\ UNCHANGED <<db, nextId>>
      /\ Typed /\ task \in [Tasks -> Row] /\ task[t] \in Row
  BY DEF DemoInv, Typed, ReadAccounts, Reading
<1>2. Names(task[t].ledger) \subseteq Known
  BY <1>1 DEF Typed, Database, Account, Names
<1>3. "readTransactions" \in Reading /\ "readTransactions" \in Steps
  BY DEF Reading, Steps
<1>4. task' = [task EXCEPT ![t] = [task[t] EXCEPT !.pc = "readTransactions", !.names = Names(task[t].ledger)]]
      /\ [task[t] EXCEPT !.pc = "readTransactions", !.names = Names(task[t].ledger)] \in Row
  BY <1>1, <1>2, <1>3 DEF ReadAccounts, Row
<1>5. /\ task' \in [Tasks -> Row] /\ Only(t) /\ task'[t].pc = "readTransactions"
      /\ task'[t].ledger = task[t].ledger /\ task'[t].names = Names(task[t].ledger)
  BY <1>1, <1>4 DEF Only, Row
<1>6. ASSUME t \in Resets PROVE Stage(t)'
  <2>1. task[t].ledger \in db.ledgers /\ Furnished /\ Furnished' /\ Opened'
    BY <1>1, <1>6, ReadingFacts
  <2>2. \A l : db'.ledgers = {l} => Seeds \subseteq task'[t].names
    <3> TAKE l
    <3> HAVE db'.ledgers = {l}
    <3>1. l = task[t].ledger /\ db.ledgers = {l}
      BY <1>1, <2>1
    <3> QED BY <1>5, <2>1, <3>1 DEF Furnished
  <2> QED BY <1>1, <1>3, <1>5, <1>6, <2>1, <2>2, ReadingStage
<1>7. Allowed(t)
  BY <1>1, <1>3, <1>5, <1>6, ReaderAllowed
<1> QED BY <1>1, <1>5, <1>7, ReadStep

LEMMA ReadTransactionsKeeps ==
  ASSUME DemoInv, NEW t \in Tasks, ReadTransactions(t)
  PROVE  DemoInv'
<1>1. /\ task[t].pc = "readTransactions" /\ task[t].pc \in Reading /\ Rest /\ UNCHANGED <<db, nextId>> /\ Typed
  BY DEF DemoInv, ReadTransactions, Reading
<1>2. PICK pc \in {"served", "failed"} : Goto(t, pc)
  BY DEF ReadTransactions
<1>3. pc \in Steps /\ pc \in Resting
  BY DEF Steps, Resting
<1>4. task' \in [Tasks -> Row] /\ Only(t) /\ task'[t].pc = pc
  BY <1>1, <1>2, <1>3, Goes
<1>5. Allowed(t)
  BY <1>1, <1>3, <1>4, NoStage, ReaderAllowed
<1> QED BY <1>1, <1>4, <1>5, ReadStep

-----------------------------------------------------------------------------
(* Resets.                                                                 *)

LEMMA StartResetKeeps ==
  ASSUME DemoInv, NEW t \in Tasks, StartReset(t)
  PROVE  DemoInv'
<1>1. /\ Typed /\ Referred /\ Staffed /\ Exclusive /\ Staged
      /\ t \in Resets /\ t \notin Operators /\ t \notin Seeders /\ task[t].pc = "idle"
      /\ UNCHANGED <<db, nextId, events>>
  BY TasksOfOneKind DEF DemoInv, StartReset
<1>2. PICK pc \in {"truncate", "waiting"} : Goto(t, pc) /\ resetPromise' \in Resets \cup {None}
                                          /\ (pc = "waiting" => UNCHANGED resetPromise)
                                          /\ (pc = "truncate" => resetPromise = None /\ resetPromise' = t)
  BY <1>1 DEF StartReset, Typed
<1>3. task' \in [Tasks -> Row] /\ Only(t) /\ task'[t].pc = pc
  <2>1. pc \in Steps
    BY DEF Steps
  <2> QED BY <1>1, <1>2, <2>1, Goes
<1>4. Typed'
  BY <1>1, <1>2, <1>3 DEF Typed
<1>5. Referred'
  BY <1>1 DEF Referred, First
<1>6. Staffed'
  BY <1>1, <1>3 DEF Staffed, StepsOf, Only, Tenanted
<1>7. Exclusive'
  <2> SUFFICES ASSUME NEW s \in Resets, Performing(s)' PROVE resetPromise' = s
    BY DEF Exclusive
  <2>1. CASE s = t
    <3>1. pc = "truncate"
      BY <1>2, <1>3, <2>1 DEF Performing, SeedSteps, EmptySteps, AccountSteps, OpeningSteps, Reading
    <3> QED BY <1>2, <2>1, <3>1
  <2>2. CASE s # t
    <3>1. Performing(s)
      BY <1>3, <2>2 DEF Performing, Only, Tasks
    <3>2. resetPromise = s /\ s # None
      BY <1>1, <3>1, NoneIsNoTask DEF Exclusive, Tasks
    <3> QED BY <1>2, <3>2
  <2> QED BY <2>1, <2>2
<1>8. ASSUME NEW s \in Resets PROVE Stage(s)'
  <2>1. CASE s = t
    BY <1>3, <2>1, NoStage
  <2>2. CASE s # t
    BY <1>1, <1>3, <2>2, StageGrows DEF Staged, Only, Tasks, Grows
  <2> QED BY <2>1, <2>2
<1> QED BY <1>4, <1>5, <1>6, <1>7, <1>8 DEF DemoInv, Staged

LEMMA TruncateKeeps ==
  ASSUME DemoInv, NEW t \in Tasks, Truncate(t)
  PROVE  DemoInv'
<1>1. /\ Typed /\ task[t].pc = "truncate" /\ Goto(t, "bootstrap")
      /\ db' = Empty /\ UNCHANGED nextId /\ Rest /\ db \in Database
  BY DEF DemoInv, Typed, Truncate
<1>2. t \notin Operators /\ t \in Resets
  <2>1. t \notin Operators
    BY <1>1 DEF DemoInv, Staffed, StepsOf, Reading, Resting, OperatorSteps
  <2>2. t \in Resets
    BY <1>1, <2>1 DEF DemoInv, Staffed, StepsOf, Reading, Resting, SeedSteps, EmptySteps, AccountSteps, OpeningSteps
  <2> QED BY <2>1, <2>2
<1>3. task' \in [Tasks -> Row] /\ Only(t) /\ task'[t].pc = "bootstrap"
  <2>1. "bootstrap" \in Steps
    BY DEF Steps, SeedSteps, EmptySteps
  <2> QED BY <1>1, <2>1, Goes
<1>4. /\ db' \in Database /\ db'.ledgers = {} /\ db'.opening = {} /\ db'.accounts = {} /\ db'.holds = {}
  BY <1>1, BoundsAreNat DEF Empty, Database
<1>5. Referred' /\ nextId' \in 1..(MaxId + 1)
  BY <1>1, <1>4 DEF Referred, Typed
<1>6. Performing(t)
  BY <1>1 DEF Performing
<1>7. task'[t].pc \in EmptySteps /\ task'[t].pc \in SeedSteps /\ task'[t].pc \notin Tenanted
  BY <1>3 DEF EmptySteps, SeedSteps, Tenanted
<1>8. Allowed(t)
  BY <1>2, <1>6, <1>7, NoStage DEF Allowed, StepsOf
<1> QED BY <1>1, <1>2, <1>3, <1>4, <1>5, <1>6, <1>8, TaskStep

\* Steps that end tasks, or make them begin again, and touch no row.
LEMMA TasksEnd ==
  ASSUME DemoInv, UNCHANGED <<db, nextId>>,
         events' \in 0..MaxEvents, resetPromise' \in Resets \cup {None},
         task' \in [Tasks -> Row],
         \A t \in Tasks : task'[t] = task[t] \/ task'[t].pc \in Resting,
         \A t \in Resets : ~Performing(t)'
  PROVE  DemoInv'
<1>1. Typed /\ Referred /\ Staffed
  BY DEF DemoInv
<1>2. Typed'
  BY <1>1 DEF Typed
<1>3. Referred'
  BY <1>1 DEF Referred, First
<1>4. Staffed'
  BY <1>1 DEF Staffed, StepsOf, Resting, Tenanted
<1>5. Exclusive'
  BY DEF Exclusive
<1>6. Staged'
  <2> SUFFICES ASSUME NEW t \in Resets PROVE Stage(t)'
    BY DEF Staged
  <2>1. task'[t].pc \notin SeedSteps \cup Reading
    BY DEF Performing
  <2> QED BY <2>1 DEF Stage, SeedSteps, EmptySteps, AccountSteps, OpeningSteps, Reading
<1> QED BY <1>2, <1>3, <1>4, <1>5, <1>6 DEF DemoInv

LEMMA SettleResetKeeps ==
  ASSUME DemoInv, SettleReset
  PROVE  DemoInv'
<1>1. /\ Typed /\ Exclusive /\ task \in [Tasks -> Row] /\ resetPromise \in Resets /\ resetPromise \in Tasks
      /\ task[resetPromise].pc \in Ended /\ resetPromise' = None /\ UNCHANGED <<db, nextId, events>>
  BY DEF DemoInv, SettleReset, Typed, Tasks
<1>2. task' = [t \in Tasks |-> IF task[t].pc = "waiting" THEN [task[t] EXCEPT !.pc = task[resetPromise].pc]
                                                        ELSE task[t]]
  BY DEF SettleReset
<1>3. ASSUME NEW t \in Tasks
      PROVE  /\ task'[t] \in Row
             /\ task'[t] = task[t] \/ task'[t].pc \in Resting
             /\ Performing(t)' => Performing(t)
  <2>1. task[t] \in Row
    BY <1>1
  <2>2. CASE task[t].pc = "waiting"
    <3>1. task'[t] = [task[t] EXCEPT !.pc = task[resetPromise].pc]
      BY <1>2, <2>2
    <3>2. task[resetPromise].pc \in Resting /\ task[resetPromise].pc \in Steps
      BY <1>1 DEF Ended, Resting, Row, Steps
    <3>3. task'[t] \in Row /\ task'[t].pc \in Resting
      BY <2>1, <3>1, <3>2 DEF Row
    <3> QED BY <3>3, RestingIsNotPerforming
  <2>3. CASE task[t].pc # "waiting"
    <3>1. task'[t] = task[t]
      BY <1>2, <2>3
    <3> QED BY <2>1, <3>1 DEF Performing
  <2> QED BY <2>2, <2>3
<1>4. task' \in [Tasks -> Row]
  BY <1>2, <1>3
<1>5. \A t \in Resets : ~Performing(t)'
  <2> SUFFICES ASSUME NEW t \in Resets, Performing(t)' PROVE FALSE
    OBVIOUS
  <2>1. Performing(t)
    BY <1>3 DEF Tasks
  <2>2. resetPromise = t
    BY <1>1, <2>1 DEF Exclusive
  <2> QED BY <1>1, <2>1, <2>2, RestingIsNotPerforming DEF Ended, Resting
<1>6. events' \in 0..MaxEvents /\ resetPromise' \in Resets \cup {None}
  BY <1>1 DEF Typed
<1> QED BY <1>1, <1>3, <1>4, <1>5, <1>6, TasksEnd

-----------------------------------------------------------------------------
(* Crashes and visitors.                                                   *)

LEMMA HappensType ==
  ASSUME Typed, Happens
  PROVE  events' \in 0..MaxEvents
BY BoundsAreNat DEF Typed, Happens

LEMMA CrashSeederKeeps ==
  ASSUME DemoInv, NEW t \in Tasks, CrashSeeder(t)
  PROVE  DemoInv'
<1>1. /\ Typed /\ Referred /\ task \in [Tasks -> Row] /\ t \in Seeders /\ t \notin Resets
      /\ task' = [task EXCEPT ![t] = Idle]
      /\ UNCHANGED <<db, nextId, resetPromise>> /\ events' \in 0..MaxEvents
  BY HappensType, TasksOfOneKind DEF DemoInv, CrashSeeder, Typed
<1>2. Idle \in Row /\ Idle.pc = "idle"
  BY IdleType DEF Idle
<1>3. task' \in [Tasks -> Row] /\ Only(t) /\ task'[t].pc = "idle"
  BY <1>1, <1>2 DEF Only
<1>4. Allowed(t)
  BY <1>1, <1>3 DEF Allowed, StepsOf, Resting, Tenanted
<1>5. db' \in Database /\ nextId' \in 1..(MaxId + 1) /\ Referred' /\ Grows
  BY <1>1 DEF Typed, Referred, Grows, First
<1> QED BY <1>1, <1>3, <1>4, <1>5, TaskHappens

LEMMA CrashServerKeeps ==
  ASSUME DemoInv, CrashServer
  PROVE  DemoInv'
<1>1. /\ Typed /\ task \in [Tasks -> Row]
      /\ UNCHANGED <<db, nextId>> /\ resetPromise' \in Resets \cup {None}
      /\ events' \in 0..MaxEvents
  BY HappensType DEF DemoInv, CrashServer, Typed
<1>2. task' = [t \in Tasks |-> IF t \in Seeders THEN IF task[t].pc \in Ended THEN Idle ELSE task[t]
                              ELSE IF task[t].pc \in {"idle"} \cup Ended THEN task[t]
                              ELSE [task[t] EXCEPT !.pc = "failed"]]
  BY DEF CrashServer
<1>3. Idle \in Row /\ Idle.pc \in Resting /\ "failed" \in Steps
  BY IdleType DEF Idle, Resting, Steps
<1>4. ASSUME NEW t \in Tasks
      PROVE  /\ task'[t] \in Row /\ (task'[t] = task[t] \/ task'[t].pc \in Resting)
             /\ t \notin Seeders => task'[t].pc \in Resting
  <2>1. task[t] \in Row
    BY <1>1
  <2>2. CASE t \in Seeders
    <3>1. task'[t] \in {Idle, task[t]}
      BY <1>2, <2>2
    <3> QED BY <1>3, <2>1, <2>2, <3>1
  <2>3. CASE t \notin Seeders /\ task[t].pc \in {"idle"} \cup Ended
    BY <1>2, <2>1, <2>3 DEF Ended, Resting
  <2>4. CASE t \notin Seeders /\ task[t].pc \notin {"idle"} \cup Ended
    <3>1. task'[t] = [task[t] EXCEPT !.pc = "failed"]
      BY <1>2, <2>4
    <3> QED BY <1>3, <2>1, <3>1 DEF Row, Resting
  <2> QED BY <2>2, <2>3, <2>4
<1>5. task' \in [Tasks -> Row]
  BY <1>2, <1>4
<1>6. \A t \in Resets : ~Performing(t)'
  BY <1>4, TasksOfOneKind, RestingIsNotPerforming DEF Tasks
<1> QED BY <1>1, <1>4, <1>5, <1>6, TasksEnd

LEMMA VisitKeeps ==
  ASSUME DemoInv, Visit
  PROVE  DemoInv'
<1>1. /\ Typed /\ Referred /\ Staffed /\ Exclusive /\ Staged
      /\ db \in Database /\ db' = [db EXCEPT !.sandboxes = TRUE] /\ UNCHANGED <<nextId, resetPromise, task>>
      /\ events' \in 0..MaxEvents
  BY HappensType DEF DemoInv, Visit, Typed
<1>2. /\ db' \in Database /\ db'.tenant = db.tenant /\ db'.ledgers = db.ledgers /\ db'.opening = db.opening
      /\ db'.accounts = db.accounts /\ db'.holds = db.holds /\ db'.first = db.first
  BY <1>1 DEF Database
<1>3. Typed' /\ Referred'
  BY <1>1, <1>2 DEF Typed, Referred, First
<1>4. Staffed' /\ Exclusive'
  BY <1>1 DEF Staffed, Exclusive, Performing
<1>5. Staged'
  BY <1>1, <1>2, StageGrows DEF Staged, Grows
<1> QED BY <1>3, <1>4, <1>5 DEF DemoInv

-----------------------------------------------------------------------------
(* The other operations.                                                   *)

LEMMA StartOperationKeeps ==
  ASSUME DemoInv, NEW t \in Tasks, NEW op \in Operations, StartOperation(t, op)
  PROVE  DemoInv'
<1>1. /\ Typed /\ Referred /\ task \in [Tasks -> Row] /\ db \in Database
      /\ t \in Operators /\ t \notin Resets /\ t \notin Seeders
      /\ UNCHANGED <<db, nextId, resetPromise>> /\ events' \in 0..MaxEvents
  BY TasksOfOneKind, HappensType DEF DemoInv, StartOperation, Typed
<1>2. PICK row \in Row : task' = [task EXCEPT ![t] = row] /\ row.pc \in {"failed", "readAccounts", "ingest", "find"}
  <2>1. CASE ~Ready
    <3>1. [Idle EXCEPT !.pc = "failed"] \in Row
      BY IdleType DEF Steps, Resting
    <3> QED BY <2>1, <3>1 DEF StartOperation, Idle
  <2>2. CASE Ready
    <3> DEFINE pc == IF op = "getState" THEN "readAccounts" ELSE IF op = "reconcile" THEN "ingest" ELSE "find"
               row == [Idle EXCEPT !.tenant = db.tenant, !.ledger = First, !.op = op, !.pc = pc]
    <3>1. pc \in {"readAccounts", "ingest", "find"} /\ pc \in Steps
      BY DEF Steps, Reading, OperatorSteps
    <3>2. task' = [task EXCEPT ![t] = row]
      BY <2>2 DEF StartOperation
    <3> HIDE DEF pc
    <3>3. First \in 0..MaxId /\ db.tenant \in 0..MaxId
      BY <1>1, <2>2, FirstIsLedger DEF Database
    <3>4. row \in Row /\ row.pc = pc
      BY <3>1, <3>3, IdleType DEF Row, Idle
    <3> QED BY <3>1, <3>2, <3>4
  <2> QED BY <2>1, <2>2
<1>3. task' \in [Tasks -> Row] /\ Only(t) /\ task'[t].pc \in Reading \cup Resting \cup OperatorSteps
      /\ task'[t].pc \notin Tenanted
  BY <1>1, <1>2 DEF Only, Reading, Resting, OperatorSteps, Tenanted
<1>4. Allowed(t)
  BY <1>1, <1>3 DEF Allowed, StepsOf
<1>5. db' \in Database /\ nextId' \in 1..(MaxId + 1) /\ Referred' /\ Grows
  BY <1>1 DEF Typed, Referred, Grows, First
<1> QED BY <1>1, <1>3, <1>4, <1>5, TaskHappens

LEMMA OperatorReads ==
  ASSUME DemoInv, NEW t \in Tasks, task[t].pc \in OperatorSteps, Rest, UNCHANGED <<db, nextId>>,
         task' \in [Tasks -> Row], Only(t),
         task'[t].pc \in OperatorSteps \cup Reading \cup Resting
  PROVE  DemoInv'
BY OperatorAllowed, ReadStep

LEMMA OperatorGoes ==
  ASSUME DemoInv, NEW t \in Tasks, task[t].pc \in OperatorSteps, Rest, UNCHANGED <<db, nextId>>,
         NEW pc \in OperatorSteps \cup Reading \cup Resting, Goto(t, pc)
  PROVE  DemoInv'
<1>1. pc \in Steps /\ Typed
  BY DEF Steps, DemoInv
<1>2. task' \in [Tasks -> Row] /\ Only(t) /\ task'[t].pc = pc
  BY <1>1, Goes
<1> QED BY <1>2, OperatorReads

\* A write of an operation, which then reads the state.
LEMMA OperatorWrites ==
  ASSUME DemoInv, NEW t \in Tasks, task[t].pc \in OperatorSteps, Rest, UNCHANGED nextId,
         NEW pc \in {"getState", "reconcile"}, Goto(t, pc),
         db' \in Database, Grows, Referred'
  PROVE  DemoInv'
<1>1. pc \in Steps /\ pc \in OperatorSteps \cup Reading \cup Resting /\ Typed /\ nextId' \in 1..(MaxId + 1)
  BY DEF Steps, DemoInv, Typed, OperatorSteps, Reading, Resting
<1>2. task' \in [Tasks -> Row] /\ Only(t) /\ task'[t].pc = pc
  BY <1>1, Goes
<1>3. Allowed(t)
  BY <1>1, <1>2, OperatorAllowed
<1> QED BY <1>1, <1>2, <1>3, TaskStep

LEMMA FindKeeps ==
  ASSUME DemoInv, NEW t \in Tasks,
         \/ \E a \in Addresses : FindFree(t, a) \/ FindAccounts(t, a) \/ Describe(t, a)
         \/ FindHold(t)
  PROVE  DemoInv'
<1>1. /\ task[t].pc = "find" /\ task[t].pc \in OperatorSteps /\ Rest
      /\ UNCHANGED <<db, nextId>> /\ Typed /\ task \in [Tasks -> Row] /\ task[t] \in Row /\ db \in Database
  BY DEF DemoInv, Typed, FindFree, FindAccounts, Describe, FindHold, OperatorSteps
<1>2. {"create", "move", "settle"} \subseteq OperatorSteps /\ {"create", "move", "settle"} \subseteq Steps
      /\ {"failed", "served"} \subseteq Resting
  BY DEF OperatorSteps, Resting, Steps
<1>3. ASSUME NEW a \in Addresses, FindFree(t, a) PROVE DemoInv'
  <2>1. CASE a \in Names(task[t].ledger)
    <3>1. task' = [task EXCEPT ![t] = [Idle EXCEPT !.pc = "failed"]] /\ [Idle EXCEPT !.pc = "failed"] \in Row
      BY <1>3, <2>1, IdleType DEF FindFree, Steps, Resting
    <3>2. task' \in [Tasks -> Row] /\ Only(t) /\ task'[t].pc = "failed"
      BY <1>1, <3>1 DEF Only, Idle
    <3> QED BY <1>1, <1>2, <3>2, OperatorReads
  <2>2. CASE a \notin Names(task[t].ledger)
    <3>1. task' = [task EXCEPT ![t] = [task[t] EXCEPT !.pc = "create", !.names = {a}]]
          /\ [task[t] EXCEPT !.pc = "create", !.names = {a}] \in Row
      BY <1>1, <1>2, <1>3, <2>2 DEF FindFree, Row, Known
    <3>2. task' \in [Tasks -> Row] /\ Only(t) /\ task'[t].pc = "create"
      BY <1>1, <3>1 DEF Only, Row
    <3> QED BY <1>1, <1>2, <3>2, OperatorReads
  <2> QED BY <2>1, <2>2
<1>4. ASSUME NEW a \in Addresses, FindAccounts(t, a) \/ Describe(t, a) PROVE DemoInv'
  <2>1. PICK pc \in {"move", "failed", "served"} : Goto(t, pc)
    BY <1>4 DEF FindAccounts, Describe
  <2> QED BY <1>1, <1>2, <2>1, OperatorGoes
<1>5. CASE FindHold(t)
  <2>1. CASE Goto(t, "failed")
    BY <1>1, <1>2, <2>1, OperatorGoes
  <2>2. ASSUME NEW h \in db.holds, task' = [task EXCEPT ![t].pc = "settle", ![t].hold = h.id] PROVE DemoInv'
    <3>1. h.id \in HoldIds
      BY <1>1, <2>2 DEF Database, Hold
    <3>2. task' = [task EXCEPT ![t] = [task[t] EXCEPT !.pc = "settle", !.hold = h.id]]
          /\ [task[t] EXCEPT !.pc = "settle", !.hold = h.id] \in Row
      BY <1>1, <1>2, <2>2, <3>1 DEF Row
    <3>3. task' \in [Tasks -> Row] /\ Only(t) /\ task'[t].pc = "settle"
      BY <1>1, <3>2 DEF Only, Row
    <3> QED BY <1>1, <1>2, <3>3, OperatorReads
  <2> QED BY <1>5, <2>1, <2>2 DEF FindHold
<1> QED BY <1>3, <1>4, <1>5

LEMMA CreateAccountKeeps ==
  ASSUME DemoInv, NEW t \in Tasks, CreateAccount(t)
  PROVE  DemoInv'
<1>1. /\ task[t].pc = "create" /\ task[t].pc \in OperatorSteps /\ Rest /\ Referred /\ db \in Database
      /\ task[t] \in Row
  BY DEF DemoInv, Typed, CreateAccount, OperatorSteps
<1> DEFINE rows == {[ledger |-> task[t].ledger, name |-> a] : a \in task[t].names}
<1>2. CASE LedgerExists(t)
  <2>1. db' = [db EXCEPT !.accounts = db.accounts \cup rows] /\ Goto(t, "getState") /\ UNCHANGED nextId
    BY <1>2 DEF CreateAccount, Write
  <2>2. task[t].ledger \in db.ledgers /\ task[t].ledger \in 1..MaxId /\ task[t].names \subseteq Known
    BY <1>1, <1>2 DEF LedgerExists, Database, Row
  <2>3. rows \subseteq Account /\ \A row \in rows : row.ledger = task[t].ledger
    BY <2>2 DEF Account
  <2> HIDE DEF rows
  <2>4. /\ db' \in Database /\ db'.tenant = db.tenant /\ db'.ledgers = db.ledgers /\ db'.opening = db.opening
        /\ db'.accounts = db.accounts \cup rows /\ db'.holds = db.holds /\ db'.first = db.first
    BY <1>1, <2>1, <2>3 DEF Database
  <2>5. Grows /\ Referred'
    BY <1>1, <2>2, <2>3, <2>4 DEF Grows, Referred, First
  <2> QED BY <1>1, <2>1, <2>4, <2>5, OperatorWrites
<1>3. CASE ~LedgerExists(t)
  BY <1>1, <1>3, FailStep DEF CreateAccount, Write
<1> QED BY <1>2, <1>3

LEMMA MoveKeeps ==
  ASSUME DemoInv, NEW t \in Tasks, Move(t)
  PROVE  DemoInv'
<1>1. /\ task[t].pc = "move" /\ task[t].pc \in OperatorSteps /\ Rest /\ Referred
      /\ db \in Database /\ events \in Nat
  BY BoundsAreNat DEF DemoInv, Typed, Database, Move, OperatorSteps
<1> DEFINE row == [ledger |-> task[t].ledger, id |-> <<t, events>>, state |-> "HELD"]
<1>2. CASE Fail(t)
  BY <1>1, <1>2, FailStep
<1>3. CASE /\ LedgerExists(t) /\ Goto(t, "getState") /\ UNCHANGED nextId
           /\ db' = [db EXCEPT !.holds = db.holds \cup {row}]
  <2>1. task[t].ledger \in db.ledgers /\ task[t].ledger \in 1..MaxId
    BY <1>1, <1>3 DEF LedgerExists, Database
  <2>2. row \in Hold /\ row.ledger = task[t].ledger
    BY <1>1, <2>1 DEF Hold, HoldIds
  <2> HIDE DEF row
  <2>3. /\ db' \in Database /\ db'.tenant = db.tenant /\ db'.ledgers = db.ledgers /\ db'.opening = db.opening
        /\ db'.accounts = db.accounts /\ db'.holds = db.holds \cup {row} /\ db'.first = db.first
    BY <1>1, <1>3, <2>2 DEF Database
  <2>4. Grows /\ Referred'
    BY <1>1, <2>1, <2>2, <2>3 DEF Grows, Referred, First
  <2> QED BY <1>1, <1>3, <2>3, <2>4, OperatorWrites
<1>4. CASE Goto(t, "getState") /\ UNCHANGED <<db, nextId>>
  <2>1. "getState" \in Reading
    BY DEF Reading
  <2> QED BY <1>1, <1>4, <2>1, OperatorGoes
<1> QED BY <1>2, <1>3, <1>4 DEF Move, Write

LEMMA SettleKeeps ==
  ASSUME DemoInv, NEW t \in Tasks, Settle(t)
  PROVE  DemoInv'
<1>1. /\ task[t].pc = "settle" /\ task[t].pc \in OperatorSteps /\ Rest /\ Referred /\ db \in Database
  BY DEF DemoInv, Typed, Database, Settle, OperatorSteps
<1>2. CASE Fail(t)
  BY <1>1, <1>2, FailStep
<1>3. ASSUME NEW h \in db.holds, NEW state \in {"APPLIED", "VOIDED"},
             Goto(t, "getState"), UNCHANGED nextId,
             db' = [db EXCEPT !.holds = (db.holds \ {h}) \cup {[h EXCEPT !.state = state]}]
      PROVE  DemoInv'
  <2> DEFINE row == [h EXCEPT !.state = state]
  <2>1. h \in Hold /\ row \in Hold /\ row.ledger = h.ledger
    BY <1>1 DEF Database, Hold
  <2> HIDE DEF row
  <2>2. /\ db' \in Database /\ db'.tenant = db.tenant /\ db'.ledgers = db.ledgers /\ db'.opening = db.opening
        /\ db'.accounts = db.accounts /\ db'.holds = (db.holds \ {h}) \cup {row} /\ db'.first = db.first
    <3>1. db' = [db EXCEPT !.holds = (db.holds \ {h}) \cup {row}]
      BY <1>3 DEF row
    <3>2. (db.holds \ {h}) \cup {row} \in SUBSET Hold
      BY <1>1, <2>1 DEF Database
    <3> QED BY <1>1, <3>1, <3>2 DEF Database
  <2>3. Grows /\ Referred'
    BY <1>1, <2>1, <2>2 DEF Grows, Referred, First
  <2> QED BY <1>1, <1>3, <2>2, <2>3, OperatorWrites
<1> DEFINE state == IF task[t].op = "commit" THEN "APPLIED" ELSE "VOIDED"
<1>4. \/ Fail(t)
      \/ \E h \in db.holds : Write(t, [db EXCEPT !.holds = (db.holds \ {h}) \cup {[h EXCEPT !.state = state]}])
  BY DEF Settle
<1>5. state \in {"APPLIED", "VOIDED"}
  OBVIOUS
<1> HIDE DEF state
<1>6. \/ Fail(t)
      \/ \E h \in db.holds : /\ Goto(t, "getState") /\ UNCHANGED nextId
                             /\ db' = [db EXCEPT !.holds = (db.holds \ {h}) \cup {[h EXCEPT !.state = state]}]
  BY <1>4 DEF Write
<1> QED BY <1>2, <1>3, <1>5, <1>6

LEMMA ReconcileKeeps ==
  ASSUME DemoInv, NEW t \in Tasks, Ingest(t) \/ ListRules(t) \/ CreateRule(t) \/ Reconcile(t)
  PROVE  DemoInv'
<1>1. task[t].pc \in OperatorSteps /\ Rest /\ Referred /\ db \in Database
  BY DEF DemoInv, Typed, Database, Ingest, ListRules, CreateRule, Reconcile, OperatorSteps
<1>2. CASE Fail(t)
  BY <1>1, <1>2, FailStep
<1>3. CASE \E pc \in {"failed", "listRules", "reconcile", "createRule", "served"} :
             Goto(t, pc) /\ UNCHANGED <<db, nextId>>
  <2>1. PICK pc \in {"failed", "listRules", "reconcile", "createRule", "served"} :
          Goto(t, pc) /\ UNCHANGED <<db, nextId>>
    BY <1>3
  <2>2. pc \in OperatorSteps \cup Reading \cup Resting
    BY DEF OperatorSteps, Resting
  <2> QED BY <1>1, <2>1, <2>2, OperatorGoes
<1>4. CASE UNCHANGED nextId /\ db' = [db EXCEPT !.rule = TRUE] /\ Goto(t, "reconcile")
  <2>1. /\ db' \in Database /\ db'.tenant = db.tenant /\ db'.ledgers = db.ledgers /\ db'.opening = db.opening
        /\ db'.accounts = db.accounts /\ db'.holds = db.holds /\ db'.first = db.first
    BY <1>1, <1>4 DEF Database
  <2>2. Grows /\ Referred'
    BY <1>1, <2>1 DEF Grows, Referred, First
  <2> QED BY <1>1, <1>4, <2>1, <2>2, OperatorWrites
<1>5. CASE Ingest(t) \/ ListRules(t)
  BY <1>3, <1>5 DEF Ingest, ListRules
<1> QED BY <1>2, <1>3, <1>4, <1>5 DEF CreateRule, Reconcile

-----------------------------------------------------------------------------
(* The theorems.                                                           *)

LEMMA DemoInit == Init => DemoInv
<1> SUFFICES ASSUME Init PROVE DemoInv
  OBVIOUS
<1>1. /\ db = Empty /\ nextId = 1 /\ events = 0 /\ resetPromise = None
      /\ task = [t \in Tasks |-> Idle]
  BY DEF Init
<1>2. db \in Database /\ db.ledgers = {} /\ db.accounts = {} /\ db.opening = {} /\ db.holds = {}
  BY <1>1, BoundsAreNat DEF Empty, Database
<1>3. Typed
  BY <1>1, <1>2, BoundsAreNat, IdleType DEF Typed
<1>4. Referred
  BY <1>2 DEF Referred
<1>5. \A t \in Tasks : task[t].pc = "idle"
  BY <1>1 DEF Idle
<1>6. Staffed
  BY <1>5 DEF Staffed, StepsOf, Resting, Tenanted
<1>7. \A t \in Resets : ~Performing(t)
  BY <1>5, RestingIsNotPerforming DEF Resting, Tasks
<1>8. Exclusive /\ Staged
  <2>1. \A t \in Resets : task[t].pc = "idle"
    BY <1>5 DEF Tasks
  <2>2. \A t \in Resets : Stage(t)
    BY <2>1 DEF Stage, SeedSteps, EmptySteps, AccountSteps, OpeningSteps, Reading
  <2> QED BY <1>7, <2>2 DEF Exclusive, Staged
<1> QED BY <1>3, <1>4, <1>6, <1>8 DEF DemoInv

LEMMA DemoNext == DemoInv /\ [Next]_vars => DemoInv'
<1> SUFFICES ASSUME DemoInv, [Next]_vars PROVE DemoInv'
  OBVIOUS
<1>1. CASE UNCHANGED vars
  <2>1. UNCHANGED <<db, nextId, resetPromise, task, events>>
    BY <1>1 DEF vars
  <2>2. Typed' /\ Referred'
    BY <2>1 DEF DemoInv, Typed, Referred, First
  <2>3. Staffed' /\ Exclusive'
    BY <2>1 DEF DemoInv, Staffed, Exclusive, Performing
  <2>4. Staged'
    BY <2>1, StageGrows DEF DemoInv, Staged, Grows
  <2> QED BY <2>2, <2>3, <2>4 DEF DemoInv
<1>2. ASSUME NEW t \in Tasks, StartSeed(t) \/ StartReset(t) \/ Truncate(t) \/ PerformSeed(t)
      PROVE  DemoInv'
  BY <1>2, StartSeedKeeps, StartResetKeeps, TruncateKeeps, BootstrapKeeps, AssetKeeps, ListLedgersKeeps,
     CreateLedgerKeeps, ListAccountsKeeps, SeedAccountKeeps, ListTransactionsKeeps, LookUpKeeps,
     PostOpeningKeeps DEF PerformSeed
<1>3. ASSUME NEW t \in Tasks, GetState(t) \/ ReadAccounts(t) \/ ReadTransactions(t) \/ CrashSeeder(t)
      PROVE  DemoInv'
  BY <1>3, GetStateKeeps, ReadAccountsKeeps, ReadTransactionsKeeps, CrashSeederKeeps
<1>4. ASSUME NEW t \in Tasks, Operate(t)
      PROVE  DemoInv'
  BY <1>4, StartOperationKeeps, FindKeeps, CreateAccountKeeps, MoveKeeps, SettleKeeps, ReconcileKeeps DEF Operate
<1> QED BY <1>1, <1>2, <1>3, <1>4, SettleResetKeeps, VisitKeeps, CrashServerKeeps DEF Next

LEMMA DemoInvHolds == Spec => []DemoInv
BY DemoInit, DemoNext, PTL DEF Spec

\* Every row refers to a ledger that is there.
THEOREM DemoTypes == Spec => []TypeOK
<1>1. DemoInv => TypeOK
  <2> SUFFICES ASSUME DemoInv PROVE TypeOK
    OBVIOUS
  <2>1. /\ Typed /\ Referred /\ db \in Database /\ \A t \in Tasks : task[t] \in Row
    BY DEF DemoInv, Typed
  <2>2. \A t \in Tasks : task[t].tenant \in 0..MaxId /\ task[t].ledger \in 0..MaxId
    BY <2>1 DEF Row
  <2>3. /\ \A a \in db.accounts : a.ledger \in db.ledgers
        /\ \A h \in db.holds : h.ledger \in db.ledgers /\ h.state \in {"HELD", "APPLIED", "VOIDED"}
    BY <2>1 DEF Referred, Database, Account, Hold
  <2> QED BY <2>1, <2>2, <2>3 DEF TypeOK, Typed, Referred, Database
<1> QED BY <1>1, DemoInvHolds, PTL

\* A reset that answers with a state answers with the seeded one, unless a seed script has made a
\* second ledger beside it.
THEOREM ResetsServeSeeded == Spec => ResetServesSeeded
<1> DEFINE A == \A t \in Resets : task[t].pc = "readTransactions" /\ task'[t].pc = "served" /\ OneLedger =>
                  /\ {SeedAddresses[i] : i \in 1..3} \subseteq task[t].names
                  /\ Seeded /\ task[t].ledger = First
<1>1. DemoInv => A
  <2> SUFFICES ASSUME DemoInv, NEW t \in Resets, task[t].pc = "readTransactions", OneLedger
               PROVE  /\ {SeedAddresses[i] : i \in 1..3} \subseteq task[t].names
                      /\ Seeded /\ task[t].ledger = First
    OBVIOUS
  <2>1. Stage(t) /\ task[t].pc \in Reading
    BY DEF DemoInv, Staged, Reading
  <2>2. Furnished /\ Opened /\ task[t].ledger \in db.ledgers
    BY <2>1 DEF Stage
  <2>3. First \in db.ledgers /\ db.tenant # 0
    BY <2>2 DEF DemoInv, Referred
  <2>4. db.ledgers = {First} /\ task[t].ledger = First
    BY <2>2, <2>3 DEF OneLedger
  <2>5. Seeds \subseteq task[t].names /\ Seeds \subseteq Names(First) /\ First \in db.opening
    BY <2>1, <2>2, <2>4 DEF Stage, Furnished, Opened
  <2>6. Ready
    BY <2>3 DEF Ready
  <2> QED BY <2>4, <2>5, <2>6 DEF Seeded, Seeds
<1>2. DemoInv /\ [Next]_vars => [A]_vars
  BY <1>1
<1> HIDE DEF A
<1>3. Spec => [][A]_vars
  BY <1>2, DemoInvHolds, PTL DEF Spec
<1> QED BY <1>3 DEF A, ResetServesSeeded

-----------------------------------------------------------------------------
(***************************************************************************)
(* The end of a process.                                                   *)
(***************************************************************************)
USE TimeoutsType, UnsetIsNoValue

Pcs == {"none", "handling", "querying", "answered", "cut"}
Rows == [pc : Pcs, connected : BOOLEAN]

LEMMA InitType == ShutdownInit => ShutdownTypeOK
BY DEF ShutdownInit, ShutdownTypeOK, NoRequest

LEMMA RequestType ==
  ASSUME ShutdownTypeOK, ShutdownNext
  PROVE  request' \in [Requests -> Rows]
<1> request \in [Requests -> Rows]
  BY DEF ShutdownTypeOK, Rows, Pcs
<1>1. ASSUME NEW r \in Requests, Accept(r) PROVE request' \in [Requests -> Rows]
  BY <1>1 DEF Accept, Rows, Pcs
<1>2. ASSUME NEW r \in Requests, NEW from \in Pcs, NEW to \in Pcs, Handler(r, from, to)
      PROVE  request' \in [Requests -> Rows]
  BY <1>2 DEF Handler, Rows
<1>3. ASSUME NEW r \in Requests, ClientGoes(r) PROVE request' \in [Requests -> Rows]
  BY <1>3 DEF ClientGoes, Rows
<1>4. CASE PoolTimesOut
  BY <1>4 DEF PoolTimesOut, Rows, Pcs
<1>5. ASSUME NEW r \in Requests, Query(r) \/ QueryRefused(r) \/ QueryEnds(r) \/ Answer(r)
      PROVE  request' \in [Requests -> Rows]
  BY <1>2, <1>5 DEF Query, QueryRefused, QueryEnds, Answer, Pcs
<1>6. CASE UNCHANGED request
  BY <1>6
<1> QED
  BY <1>1, <1>3, <1>4, <1>5, <1>6
     DEF ShutdownNext, Signal, SignalAgain, ListenSucceeds, ListenFails, ExitUnstarted, Drained,
         ShutdownThrows, PoolEnds, ExitDrained, HardStop, Tick, Exit

LEMMA TimerType ==
  ASSUME ShutdownTypeOK, ShutdownNext
  PROVE  /\ hardStop' \in {Unset} \cup 0..ShutdownTimeout
         /\ poolStop' \in {Unset} \cup 0..PoolTimeout
<1>1. CASE Tick
  BY <1>1 DEF Tick, CountDown, ShutdownTypeOK
<1>2. CASE \E s \in Signals : Signal(s)
  BY <1>2 DEF Signal, ShutdownTypeOK
<1>3. CASE ListenFails \/ Drained \/ PoolEnds \/ PoolTimesOut
  BY <1>3 DEF ListenFails, Drained, EndPool, PoolEnds, PoolTimesOut, ShutdownTypeOK
<1>4. CASE UNCHANGED <<hardStop, poolStop>>
  BY <1>4 DEF ShutdownTypeOK
<1> QED
  BY <1>1, <1>2, <1>3, <1>4
     DEF ShutdownNext, Accept, Query, QueryRefused, QueryEnds, Answer, Handler, ClientGoes, SignalAgain,
         ListenSucceeds, ExitUnstarted, ShutdownThrows, ExitDrained, HardStop, Exit

LEMMA StepType == ShutdownTypeOK /\ [ShutdownNext]_ShutdownVars => ShutdownTypeOK'
<1> SUFFICES ASSUME ShutdownTypeOK, [ShutdownNext]_ShutdownVars PROVE ShutdownTypeOK'
  OBVIOUS
<1>1. CASE UNCHANGED ShutdownVars
  BY <1>1 DEF ShutdownVars, ShutdownTypeOK
<1>2. CASE ShutdownNext
  <2>1. request' \in [Requests -> Rows]
    BY <1>2, RequestType
  <2>2. /\ handlers' \subseteq Signals
        /\ listening' \in {"pending", "ok", "failed"} /\ shutdown' \in {"none", "closing", "ending"}
        /\ pool' \in {"open", "ending", "ended"} /\ exit' \in {Unset, "0", "1", "signal"}
    BY <1>2 DEF ShutdownTypeOK, ShutdownNext, Accept, Query, QueryRefused, QueryEnds, Answer, Handler, ClientGoes,
                Signal, SignalAgain, ListenSucceeds, ListenFails, ExitUnstarted, Drained, EndPool,
                ShutdownThrows, PoolEnds, PoolTimesOut, ExitDrained, HardStop, Tick, Exit
  <2> QED BY <1>2, <2>1, <2>2, TimerType DEF ShutdownTypeOK, Rows, Pcs
<1> QED BY <1>1, <1>2

\* Every variable keeps its type.
THEOREM ShutdownTypeCorrect == ShutdownSpec => []ShutdownTypeOK
BY InitType, StepType, PTL DEF ShutdownSpec

-----------------------------------------------------------------------------
(* The inductive invariant.                                                *)

LEMMA InitInv == ShutdownInit => ShutdownInv
BY DEF ShutdownInit, ShutdownInv, PoolEndsLast, EndingIsDrained, ListensToServe, EndedIsIdle, ExitIsEarned,
       CutOnlyWhenAbandoned, NoRequest

\* The steps that only the requests take.
LEMMA AcceptInv ==
  ASSUME ShutdownTypeOK, ShutdownInv, NEW r \in Requests, Accept(r)
  PROVE  ShutdownInv'
BY DEF Accept, ShutdownTypeOK, ShutdownInv, PoolEndsLast, EndingIsDrained, ListensToServe, EndedIsIdle,
       ExitIsEarned, CutOnlyWhenAbandoned, Awaited, Serving

LEMMA HandlerInv ==
  ASSUME ShutdownTypeOK, ShutdownInv, NEW r \in Requests,
         Query(r) \/ QueryRefused(r) \/ QueryEnds(r) \/ Answer(r)
  PROVE  ShutdownInv'
<1>1. PICK from \in {"handling", "querying"}, to \in Pcs :
        /\ Handler(r, from, to)
        /\ to = "querying" => pool = "open"
        /\ to = "cut" => from = "handling" /\ pool # "open"
        /\ to # "none"
  BY DEF Query, QueryRefused, QueryEnds, Answer, Pcs
<1>2. request' = [request EXCEPT ![r].pc = to] /\ request[r].pc = from
  BY <1>1 DEF Handler
<1>3. UNCHANGED <<listening, shutdown, pool, exit>> /\ exit = Unset
  BY <1>1 DEF Handler
<1>4. Serving(r) /\ listening = "ok"
  BY <1>2 DEF Serving, ShutdownInv, ListensToServe, NoRequest
<1>5. \A k \in Requests : request'[k].connected = request[k].connected /\ (Awaited(k)' => Awaited(k))
  BY <1>2, <1>4 DEF ShutdownTypeOK, Awaited, Serving
<1>6. EndingIsDrained'
  BY <1>3, <1>5 DEF ShutdownInv, EndingIsDrained
<1>7. CutOnlyWhenAbandoned'
  <2>1. to = "cut" => ~request[r].connected
    BY <1>1, <1>4 DEF ShutdownInv, PoolEndsLast, EndingIsDrained, Awaited
  <2> QED BY <1>2, <1>5, <2>1 DEF ShutdownInv, CutOnlyWhenAbandoned, ShutdownTypeOK
<1>8. EndedIsIdle'
  BY <1>1, <1>2, <1>3 DEF ShutdownInv, EndedIsIdle, ShutdownTypeOK
<1> QED
  BY <1>3, <1>4, <1>6, <1>7, <1>8 DEF ShutdownInv, PoolEndsLast, ListensToServe, ExitIsEarned

LEMMA ClientGoesInv ==
  ASSUME ShutdownTypeOK, ShutdownInv, NEW r \in Requests, ClientGoes(r)
  PROVE  ShutdownInv'
<1>1. listening = "ok"
  BY DEF ClientGoes, ShutdownInv, ListensToServe, Awaited, NoRequest
<1> QED
  BY <1>1 DEF ClientGoes, ShutdownTypeOK, ShutdownInv, PoolEndsLast, EndingIsDrained, ListensToServe,
              EndedIsIdle, ExitIsEarned, CutOnlyWhenAbandoned, Awaited, Serving

LEMMA PoolTimesOutInv ==
  ASSUME ShutdownTypeOK, ShutdownInv, PoolTimesOut
  PROVE  ShutdownInv'
<1>1. \A r \in Requests : request[r].pc = "querying" => ~request[r].connected
  BY DEF PoolTimesOut, ShutdownInv, PoolEndsLast, EndingIsDrained, ListensToServe, NoRequest,
         Awaited, Serving
<1>2. \A r \in Requests : /\ request'[r].connected = request[r].connected
                          /\ request'[r].pc # "querying"
                          /\ request'[r].pc = "cut" => request[r].pc \in {"cut", "querying"}
                          /\ Awaited(r)' => Awaited(r)
                          /\ request[r] = NoRequest => request'[r] = NoRequest
  <2> TAKE r \in Requests
  <2>1. request[r] \in Rows
    BY DEF ShutdownTypeOK, Rows, Pcs
  <2>2. CASE request[r].pc = "querying"
    <3>1. request'[r] = [request[r] EXCEPT !.pc = "cut"]
      BY <2>2 DEF PoolTimesOut
    <3>2. request'[r].pc = "cut" /\ request'[r].connected = request[r].connected
      BY <2>1, <3>1 DEF Rows
    <3> QED BY <2>2, <3>2 DEF Awaited, Serving, NoRequest
  <2>3. CASE request[r].pc # "querying"
    <3>1. request'[r] = request[r]
      BY <2>3 DEF PoolTimesOut
    <3> QED BY <2>3, <3>1 DEF Awaited, Serving
  <2> QED BY <2>2, <2>3
<1>3. CutOnlyWhenAbandoned'
  BY <1>1, <1>2 DEF ShutdownInv, CutOnlyWhenAbandoned
<1> QED
  BY <1>2, <1>3 DEF PoolTimesOut, ShutdownInv, PoolEndsLast, EndingIsDrained, ListensToServe,
                    EndedIsIdle, ExitIsEarned

\* The other steps leave the requests alone.
LEMMA LifeCycleInv ==
  ASSUME ShutdownTypeOK, ShutdownInv,
         \/ \E s \in Signals : Signal(s) \/ SignalAgain(s)
         \/ ListenSucceeds \/ ListenFails \/ ExitUnstarted
         \/ Drained \/ ShutdownThrows \/ PoolEnds \/ ExitDrained \/ HardStop \/ Tick
  PROVE  ShutdownInv'
<1>1. UNCHANGED request
  BY DEF Signal, SignalAgain, ListenSucceeds, ListenFails, ExitUnstarted, Drained, ShutdownThrows,
         PoolEnds, ExitDrained, HardStop, Tick, Exit
<1>2. CutOnlyWhenAbandoned'
  BY <1>1 DEF ShutdownInv, CutOnlyWhenAbandoned
<1>3. ListensToServe'
  BY <1>1 DEF ShutdownInv, ListensToServe, Signal, SignalAgain, ListenSucceeds, ListenFails,
              ExitUnstarted, Drained, ShutdownThrows, PoolEnds, ExitDrained, HardStop, Tick, Exit
<1>4. PoolEndsLast' /\ ExitIsEarned' /\ (shutdown' = "ending" => pool' # "open")
  BY DEF ShutdownTypeOK, ShutdownInv, PoolEndsLast, ExitIsEarned, EndingIsDrained, Signal, SignalAgain,
         ListenSucceeds, ListenFails, EndPool, ExitUnstarted, Drained, ShutdownThrows, PoolEnds,
         ExitDrained, HardStop, Tick, Exit
<1>5. EndingIsDrained'
  <2>1. shutdown' = "ending" => \A r \in Requests : ~Awaited(r)
    BY DEF ShutdownInv, EndingIsDrained, Signal, SignalAgain, ListenSucceeds, ListenFails,
           ExitUnstarted, Drained, ShutdownThrows, PoolEnds, ExitDrained, HardStop, Tick, Exit
  <2> QED BY <1>1, <1>4, <2>1 DEF EndingIsDrained, Awaited, Serving
<1>6. EndedIsIdle'
  BY <1>1 DEF ShutdownInv, EndedIsIdle, Signal, SignalAgain, ListenSucceeds, ListenFails, EndPool,
              ExitUnstarted, Drained, ShutdownThrows, PoolEnds, ExitDrained, HardStop, Tick, Exit
<1> QED BY <1>2, <1>3, <1>4, <1>5, <1>6 DEF ShutdownInv

LEMMA StepInv == ShutdownTypeOK /\ ShutdownInv /\ [ShutdownNext]_ShutdownVars => ShutdownInv'
<1> SUFFICES ASSUME ShutdownTypeOK, ShutdownInv, [ShutdownNext]_ShutdownVars PROVE ShutdownInv'
  OBVIOUS
<1>1. CASE UNCHANGED ShutdownVars
  BY <1>1 DEF ShutdownVars, ShutdownInv, PoolEndsLast, EndingIsDrained, ListensToServe, EndedIsIdle,
              ExitIsEarned, CutOnlyWhenAbandoned, Awaited, Serving
<1>2. CASE ShutdownNext
  BY <1>2, AcceptInv, HandlerInv, ClientGoesInv, PoolTimesOutInv, LifeCycleInv DEF ShutdownNext
<1> QED BY <1>1, <1>2

LEMMA InvHolds == ShutdownSpec => []ShutdownInv
BY InitType, StepType, InitInv, StepInv, PTL DEF ShutdownSpec

\* The end of the pool cuts off no request that a client waits for.
THEOREM ConnectedRequestsKeepThePool == ShutdownSpec => []CutOnlyWhenAbandoned
<1>1. ShutdownInv => CutOnlyWhenAbandoned
  BY DEF ShutdownInv
<1> QED BY <1>1, InvHolds, PTL

\* Exit code 0 is given to no process that left a client or a statement waiting.
THEOREM CleanExits == ShutdownSpec => []CleanExitIsDrained
<1>1. ShutdownInv => CleanExitIsDrained
  BY DEF ShutdownInv, ExitIsEarned, EndingIsDrained, EndedIsIdle, CleanExitIsDrained
<1> QED BY <1>1, InvHolds, PTL
=============================================================================
