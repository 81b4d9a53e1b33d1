-------------------------- MODULE WorkbenchProofs --------------------------
(* What the console shows belongs together, for any number of ledgers,       *)
(* accounts, requests, writes and refreshes.                                 *)
EXTENDS Workbench, TLAPS

-----------------------------------------------------------------------------
(* Types.                                                                  *)

Lists      == List \cup {None}
Selection  == Accounts \cup {None}
Balances   == [shown : Selection, asked : Selection]
Sent       == [version : 1..MaxRefreshes, ledger : Ledgers, tenant : Tenants, asked : 0..MaxWrites]
RefreshSet == [version : 1..MaxRefreshes, sent : SUBSET Sent]
RequestSet == [Requests -> [ledger : Ledgers \cup {None}, nth : 0..MaxWrites]]
WriteSet   == [pc : {"idle", "posting", "answered", "refreshing"}, request : Requests \cup {None},
               tenant : Tenants \cup {None}, before : Lists, nth : 0..MaxWrites, refresh : 0..MaxRefreshes]
BootSet    == [pc : {"idle", "creating", "listing"}, tenant : Tenants \cup {None}]
PanelSet   == [url : Accounts \cup {None}, where : Wheres, result : Page \cup {None, Invalid},
               continuation : Page \cup {None}]
LoadSet    == [pc : {"idle", "sent"}, target : Page \cup {None}, next : BOOLEAN, mounted : BOOLEAN]

\* TypeOK, with every record's fields.
TypeInv ==
  /\ written \in 0..MaxWrites /\ tenant \in Tenants /\ newest \in Tenants /\ ledger \in Ledgers
  /\ accounts \in Lists /\ selected \in Selection
  /\ balance \in Balances
  /\ refreshes \in RefreshSet
  /\ requests \in RequestSet /\ journal \subseteq Requests
  /\ write \in WriteSet /\ draft \in Requests \cup {None}
  /\ boot \in BootSet /\ (boot.pc = "listing" => boot.tenant \in Tenants) /\ area \in {"Accounts", "Reports"}
  /\ panel \in PanelSet /\ load \in LoadSet /\ (load.pc = "sent" => load.target \in Page)

LEMMA Tables ==
  /\ \A l \in Ledgers : TenantOf[l] \in Tenants /\ Primary[l] \in Accounts /\ LedgerOf[Primary[l]] = l
  /\ \A a \in Accounts : LedgerOf[a] \in Ledgers
  /\ \A t \in Tenants : FirstLedger[t] \in Ledgers
  /\ 1 \in Tenants /\ Typed \subseteq Accounts
  /\ NoFilter \in Wheres
  /\ MaxWrites \in Nat /\ MaxRefreshes \in Nat \ {0} /\ MaxPage \in Nat \ {0}
BY TenantsAreNumbered, AccountsType, FirstLedgerType, FiltersType, BoundsType DEF Tenants

LEMMA Nothings == NoWrite \in WriteSet /\ NoBoot \in BootSet /\ NoBoot.pc = "idle" /\ NoBalance \in Balances
BY Tables DEF NoWrite, WriteSet, Lists, NoBoot, BootSet, NoBalance, Balances, Selection

\* What the effects leave behind.
LEMMA BalanceEffectGives ==
  ASSUME selected' \in Selection, BalanceEffect
  PROVE  /\ balance' \in Balances /\ balance'.shown = None
         /\ balance'.asked # None =>
              balance'.asked = selected' /\ Readable(selected', accounts', ledger', tenant')
<1>1. CASE Readable(selected', accounts', ledger', tenant')
  BY <1>1 DEF BalanceEffect, Balances, Selection
<1>2. CASE ~Readable(selected', accounts', ledger', tenant')
  BY <1>2 DEF BalanceEffect, Balances, Selection
<1> QED BY <1>1, <1>2

LEMMA PathEffectGives ==
  ASSUME panel \in PanelSet, selected' \in Selection, PathEffect
  PROVE  panel' \in PanelSet /\ panel' \in {panel, Fresh(selected')}
BY Tables DEF PathEffect, Fresh, PanelSet, Selection

LEMMA RefreshGives ==
  ASSUME refreshes \in RefreshSet, written \in 0..MaxWrites, tenant \in Tenants,
         NEW l \in Ledgers, Refresh(l)
  PROVE  /\ refreshes' \in RefreshSet
         /\ refreshes'.version = refreshes.version + 1
         /\ refreshes'.sent = refreshes.sent \cup
              {[version |-> refreshes'.version, ledger |-> l, tenant |-> tenant, asked |-> written]}
<1>1. refreshes.version + 1 \in 1..MaxRefreshes
  BY BoundsType DEF Refresh, RefreshSet
<1>2. [version |-> refreshes.version + 1, ledger |-> l, tenant |-> tenant, asked |-> written] \in Sent
  BY <1>1 DEF Sent
<1> QED BY <1>1, <1>2 DEF Refresh, RefreshSet

\* An answer is a list of the refresh's own ledger, no older than the refresh, or is empty.
LEMMA AnswersType ==
  ASSUME written \in 0..MaxWrites, NEW r \in Sent
  PROVE  \A list \in Answers(r) :
           /\ list \in Lists
           /\ list # None => list.ledger = r.ledger /\ list.writes >= r.asked /\ list.writes <= written
<1>1. r.ledger \in Ledgers /\ r.asked \in 0..MaxWrites /\ MaxWrites \in Nat
  BY Tables DEF Sent
<1>2. CASE TenantOf[r.ledger] = r.tenant
  <2> SUFFICES ASSUME NEW v \in r.asked..written
               PROVE  [ledger |-> r.ledger, writes |-> v] \in List /\ v >= r.asked /\ v <= written
    BY <1>2 DEF Answers, Lists
  <2> QED BY <1>1 DEF List
<1>3. CASE TenantOf[r.ledger] # r.tenant
  BY <1>3 DEF Answers, Lists
<1> QED BY <1>2, <1>3

LEMMA InitTypes == Init => TypeInv
<1> SUFFICES ASSUME Init PROVE TypeInv
  OBVIOUS
<1>1. written \in 0..MaxWrites /\ 1 \in 1..MaxRefreshes /\ 0 \in 0..MaxWrites
  BY Tables DEF Init
<1>2. refreshes \in RefreshSet
  BY <1>1, Tables DEF Init, Sent, RefreshSet
<1>3. requests \in RequestSet /\ journal \subseteq Requests
  BY <1>1 DEF Init, NoRequest, RequestSet
<1>4. panel \in PanelSet /\ load \in LoadSet
  BY Tables DEF Init, Fresh, NoLoad, PanelSet, LoadSet
<1> QED BY <1>1, <1>2, <1>3, <1>4, Nothings, Tables DEF Init, TypeInv, Lists, Selection, NoLoad

LEMMA ActivateTypes ==
  ASSUME TypeInv, NEW l \in Ledgers, Activate(l)
  PROVE  /\ ledger' \in Ledgers /\ accounts' = None /\ selected' = None /\ changes' = None /\ draft' = None
         /\ UNCHANGED tenant
         /\ balance' \in Balances /\ panel' \in PanelSet /\ refreshes' \in RefreshSet
<1>1. selected' \in Selection
  BY DEF Activate, Selection
<1>2. balance' \in Balances /\ panel' \in PanelSet
  BY <1>1, BalanceEffectGives, PathEffectGives DEF TypeInv, Activate
<1>3. refreshes' \in RefreshSet
  BY RefreshGives DEF TypeInv, Activate
<1> QED BY <1>2, <1>3 DEF Activate

LEMMA RefreshTypes ==
  ASSUME TypeInv, NEW r \in refreshes.sent, RefreshAnswered(r) \/ RefreshFailed(r)
  PROVE  TypeInv'
<1>1. r \in Sent /\ refreshes' = [refreshes EXCEPT !.sent = @ \ {r}] /\ write' \in {write, NoWrite}
      /\ UNCHANGED <<written, tenant, newest, ledger, requests, journal, draft, boot, area, load>>
  BY DEF TypeInv, RefreshSet, RefreshAnswered, RefreshFailed
<1>2. refreshes' \in RefreshSet
  BY <1>1 DEF TypeInv, RefreshSet
<1>3. write' \in WriteSet
  BY <1>1, Nothings DEF TypeInv
<1>4. CASE UNCHANGED <<accounts, selected, balance, panel>>
  BY <1>1, <1>2, <1>3, <1>4 DEF TypeInv
<1>5. CASE RefreshAnswered(r) /\ r.version = refreshes.version
  <2>1. PICK list \in Answers(r) :
          /\ accounts' = list
          /\ selected' = IF list = None THEN None
                         ELSE IF selected # None /\ LedgerOf[selected] = list.ledger THEN selected
                         ELSE Primary[list.ledger]
          /\ BalanceEffect /\ PathEffect
    BY <1>5 DEF RefreshAnswered
  <2>2. list \in Lists
    BY <1>1, AnswersType DEF TypeInv
  <2>3. selected' \in Selection
    BY <2>1, <2>2, Tables DEF TypeInv, Lists, List, Selection
  <2>4. balance' \in Balances /\ panel' \in PanelSet
    BY <2>1, <2>3, BalanceEffectGives, PathEffectGives DEF TypeInv
  <2> QED BY <1>1, <1>2, <1>3, <2>1, <2>2, <2>3, <2>4 DEF TypeInv
<1> QED BY <1>4, <1>5 DEF RefreshAnswered, RefreshFailed

LEMMA WriteTypes ==
  ASSUME TypeInv,
         \/ \E r \in Requests : Choose(r) \/ Send(r) \/ Commit(r) \/ Resolve(r)
         \/ CommitElsewhere \/ Posted \/ PostFailed \/ EditFilter
  PROVE  TypeInv'
<1> USE DEF TypeInv
<1>1. ASSUME NEW r \in Requests, Choose(r) PROVE TypeInv'
  <2>1. requests' \in RequestSet
    BY <1>1 DEF Choose, RequestSet
  <2> QED BY <1>1, <2>1 DEF Choose
<1>2. ASSUME NEW r \in Requests, Send(r) PROVE TypeInv'
  <2>1. write' \in WriteSet
    BY <1>2, Nothings DEF Send, WriteSet
  <2> QED BY <1>2, <2>1 DEF Send
<1>3. ASSUME NEW r \in Requests, Commit(r) PROVE TypeInv'
  <2>1. written' \in 0..MaxWrites /\ written' = written + 1
    BY <1>3, Tables DEF Commit
  <2>2. write' \in WriteSet
    BY <1>3, <2>1 DEF Commit, WriteSet
  <2>3. requests' \in RequestSet
    BY <1>3, <2>1 DEF Commit, RequestSet
  <2> QED BY <1>3, <2>1, <2>2, <2>3 DEF Commit
<1>4. ASSUME NEW r \in Requests, Resolve(r) PROVE TypeInv'
  <2>1. write' \in WriteSet
    BY <1>4 DEF Resolve, WriteSet
  <2> QED BY <1>4, <2>1 DEF Resolve
<1>5. CASE CommitElsewhere
  <2>1. written' \in 0..MaxWrites
    BY <1>5, Tables DEF CommitElsewhere
  <2> QED BY <1>5, <2>1 DEF CommitElsewhere
<1>6. CASE Posted
  <2>1. refreshes' \in RefreshSet
    BY <1>6, RefreshGives DEF Posted
  <2>2. refreshes'.version \in 0..MaxRefreshes
    BY <2>1, Tables DEF RefreshSet
  <2>3. write' \in WriteSet
    BY <1>6, <2>2 DEF Posted, WriteSet
  <2> QED BY <1>6, <2>1, <2>3 DEF Posted
<1>7. CASE PostFailed
  BY <1>7, Nothings DEF PostFailed
<1>8. CASE EditFilter
  <2>1. refreshes' \in RefreshSet
    BY <1>8, RefreshGives DEF EditFilter
  <2> QED BY <1>8, <2>1 DEF EditFilter
<1> QED BY <1>1, <1>2, <1>3, <1>4, <1>5, <1>6, <1>7, <1>8

LEMMA BookTypes ==
  ASSUME TypeInv,
         \/ (\E a \in Accounts : SelectAccount(a)) \/ BalanceAnswered \/ BalanceFailed
         \/ (\E l \in Ledgers : SwitchLedger(l)) \/ (\E t \in Tenants : Renew(t) \/ SandboxCreated(t))
         \/ NewSandbox \/ LedgersListed \/ SandboxFailed
  PROVE  TypeInv'
<1> USE DEF TypeInv
<1>1. ASSUME NEW a \in Accounts, SelectAccount(a) PROVE TypeInv'
  <2>1. selected' \in Selection
    BY <1>1 DEF SelectAccount, Selection
  <2>2. balance' \in Balances /\ panel' \in PanelSet
    BY <1>1, <2>1, BalanceEffectGives, PathEffectGives DEF SelectAccount
  <2> QED BY <1>1, <2>1, <2>2 DEF SelectAccount
<1>2. CASE BalanceAnswered
  <2>1. balance' \in Balances
    BY <1>2 DEF BalanceAnswered, Balances, Selection
  <2> QED BY <1>2, <2>1 DEF BalanceAnswered
<1>3. CASE BalanceFailed
  <2>1. balance' \in Balances
    BY <1>3 DEF BalanceFailed, Balances, Selection
  <2> QED BY <1>3, <2>1 DEF BalanceFailed
<1>4. ASSUME NEW l \in Ledgers, SwitchLedger(l) PROVE TypeInv'
  BY <1>4, ActivateTypes DEF SwitchLedger, Lists, Selection
<1>5. ASSUME NEW t \in Tenants, Renew(t) PROVE TypeInv'
  <2>1. balance' \in Balances
    BY <1>5, BalanceEffectGives DEF Renew
  <2> QED BY <1>5, <2>1 DEF Renew
<1>6. ASSUME NEW t \in Tenants, SandboxCreated(t) PROVE TypeInv'
  <2>1. selected' \in Selection
    BY <1>6 DEF SandboxCreated, Selection
  <2>2. balance' \in Balances /\ panel' \in PanelSet
    BY <1>6, <2>1, BalanceEffectGives, PathEffectGives DEF SandboxCreated
  <2>3. boot' \in BootSet /\ boot'.tenant \in Tenants
    BY <1>6 DEF SandboxCreated, BootSet
  <2> QED BY <1>6, <2>1, <2>2, <2>3 DEF SandboxCreated, Lists
<1>7. CASE NewSandbox
  <2>1. balance' \in Balances
    BY <1>7 DEF NewSandbox, Balances, Selection
  <2>2. refreshes' \in RefreshSet
    BY <1>7, Tables DEF NewSandbox, RefreshSet
  <2>3. boot' \in BootSet /\ boot'.pc # "listing"
    BY <1>7 DEF NewSandbox, BootSet
  <2> QED BY <1>7, <2>1, <2>2, <2>3 DEF NewSandbox
<1>8. CASE LedgersListed
  <2>1. FirstLedger[boot.tenant] \in Ledgers
    BY <1>8, Tables DEF LedgersListed
  <2> QED BY <1>8, <2>1, ActivateTypes, Nothings DEF LedgersListed, Lists, Selection
<1>9. CASE SandboxFailed
  BY <1>9, Nothings DEF SandboxFailed
<1> QED BY <1>1, <1>2, <1>3, <1>4, <1>5, <1>6, <1>7, <1>8, <1>9

LEMMA PanelTypes ==
  ASSUME TypeInv,
         \/ SwitchArea \/ (\E a \in Typed : EditUrl(a)) \/ (\E w \in Wheres : EditWhere(w))
         \/ Load \/ NextPage \/ LoadAnswered \/ LoadFailed
  PROVE  TypeInv'
<1> USE DEF TypeInv
<1>1. CASE SwitchArea
  <2>1. Fresh(selected) \in PanelSet
    BY Tables DEF Fresh, PanelSet, Selection
  <2>2. load' \in LoadSet /\ load'.pc = load.pc /\ load'.target = load.target
    BY <1>1 DEF SwitchArea, LoadSet
  <2> QED BY <1>1, <2>1, <2>2 DEF SwitchArea
<1>2. ASSUME UNCHANGED <<written, tenant, newest, ledger, accounts, selected, balance, refreshes, requests, journal, write,
                         draft, boot, area>>,
             panel' \in PanelSet, load' \in LoadSet, load'.pc = "sent" => load'.target \in Page
      PROVE  TypeInv'
  BY <1>2
<1>3. ASSUME NEW a \in Typed, EditUrl(a) PROVE TypeInv'
  <2>1. panel' \in PanelSet
    BY <1>3, Tables DEF EditUrl, PanelSet
  <2> QED BY <1>2, <1>3, <2>1 DEF EditUrl, Untouched
<1>4. ASSUME NEW w \in Wheres, EditWhere(w) PROVE TypeInv'
  <2>1. panel' \in PanelSet
    BY <1>4 DEF EditWhere, PanelSet
  <2> QED BY <1>2, <1>4, <2>1 DEF EditWhere, Untouched
<1>5. NoLoad \in LoadSet /\ NoLoad.pc # "sent"
  BY DEF NoLoad, LoadSet
<1>6. CASE Load
  <2>1. panel' \in PanelSet
    BY <1>6 DEF Load, PanelSet
  <2>2. [url |-> panel.url, where |-> panel.where, page |-> 1] \in Page
    BY <1>6, Tables DEF Load, PanelSet, Page
  <2>3. load' \in LoadSet /\ (load'.pc = "sent" => load'.target \in Page)
    <3>1. CASE panel.where = Invalid
      BY <1>6, <3>1 DEF Load
    <3>2. CASE panel.where # Invalid
      <4>1. load' = [pc |-> "sent", next |-> FALSE, mounted |-> TRUE,
                     target |-> [url |-> panel.url, where |-> panel.where, page |-> 1]]
        BY <1>6, <3>2 DEF Load
      <4> QED BY <2>2, <4>1 DEF LoadSet
    <3> QED BY <3>1, <3>2
  <2> QED BY <1>2, <1>6, <2>1, <2>3 DEF Load, Untouched
<1>7. CASE NextPage
  <2>1. load' \in LoadSet /\ load'.target \in Page /\ UNCHANGED panel
    BY <1>7 DEF NextPage, LoadSet, PanelSet
  <2> QED BY <1>2, <1>7, <2>1 DEF NextPage, Untouched
<1>8. CASE LoadAnswered
  <2>1. CASE load.mounted
    <3>1. PICK continuation \in {None, [load.target EXCEPT !.page = @ + 1]} :
            /\ continuation = None \/ load.target.page < MaxPage
            /\ panel' = [panel EXCEPT !.result = load.target, !.continuation = continuation]
      BY <1>8, <2>1 DEF LoadAnswered
    <3>2. load.target \in Page
      BY <1>8 DEF LoadAnswered
    <3>3. CASE load.target.page < MaxPage
      <4>1. [load.target EXCEPT !.page = @ + 1] \in Page
        BY <3>2, <3>3, Tables DEF Page
      <4>2. continuation \in Page \cup {None}
        BY <3>1, <4>1
      <4>3. panel' \in PanelSet
        BY <3>1, <3>2, <4>2 DEF PanelSet
      <4> QED BY <1>2, <1>5, <1>8, <4>3 DEF LoadAnswered, Untouched, NoLoad
    <3>4. CASE continuation = None
      <4>1. panel' \in PanelSet
        BY <3>1, <3>2, <3>4 DEF PanelSet
      <4> QED BY <1>2, <1>5, <1>8, <4>1 DEF LoadAnswered, Untouched, NoLoad
    <3> QED BY <3>1, <3>3, <3>4
  <2>2. CASE ~load.mounted
    BY <1>2, <1>5, <1>8, <2>2 DEF LoadAnswered, Untouched
  <2> QED BY <2>1, <2>2
<1>9. CASE LoadFailed
  BY <1>2, <1>5, <1>9 DEF LoadFailed, Untouched
<1> QED BY <1>1, <1>3, <1>4, <1>6, <1>7, <1>8, <1>9

LEMMA TypesStay == TypeInv /\ [Next]_vars => TypeInv'
<1> SUFFICES ASSUME TypeInv, [Next]_vars PROVE TypeInv'
  OBVIOUS
<1>1. CASE UNCHANGED vars
  BY <1>1 DEF TypeInv, vars
<1>2. CASE Next
  BY Zenon, <1>2, RefreshTypes, WriteTypes, BookTypes, PanelTypes DEF Next
<1> QED BY <1>1, <1>2

\* Type correctness, for every instance.
THEOREM WorkbenchTypes == Spec => []TypeOK
<1>1. TypeInv => TypeOK
  BY DEF TypeInv, TypeOK, Lists, Selection, Balances, Sent, RefreshSet, RequestSet, WriteSet, BootSet, PanelSet, LoadSet
<1> QED BY <1>1, InitTypes, TypesStay, PTL DEF Spec

-----------------------------------------------------------------------------
(* Balances.                                                               *)

\* What is shown and what is asked for are of the selection, which is of the list; a request
\* that is not aborted is what BalanceIsCurrent needs to be inductive.
Current ==
  /\ selected # None => accounts # None /\ LedgerOf[selected] = accounts.ledger
  /\ balance.shown # None => balance.shown = selected /\ Readable(selected, accounts, ledger, tenant)
  /\ balance.asked # None => balance.asked = selected /\ Readable(selected, accounts, ledger, tenant)

LEMMA EffectKeepsCurrent ==
  ASSUME TypeInv', BalanceEffect,
         selected' # None => accounts' # None /\ LedgerOf[selected'] = accounts'.ledger
  PROVE  Current'
<1>1. selected' \in Selection
  BY DEF TypeInv
<1>2. /\ balance'.shown = None
      /\ balance'.asked # None =>
           balance'.asked = selected' /\ Readable(selected', accounts', ledger', tenant')
  BY <1>1, BalanceEffectGives
<1> QED BY <1>2 DEF Current

LEMMA RefreshKeepsCurrent ==
  ASSUME TypeInv, TypeInv', NEW r \in refreshes.sent, RefreshAnswered(r), r.version = refreshes.version
  PROVE  Current'
<1>1. PICK list \in Answers(r) :
        /\ accounts' = list
        /\ selected' = IF list = None THEN None
                       ELSE IF selected # None /\ LedgerOf[selected] = list.ledger THEN selected
                       ELSE Primary[list.ledger]
        /\ BalanceEffect
  BY DEF RefreshAnswered
<1>2. list \in Lists
  BY <1>1 DEF TypeInv
<1>3. selected' # None => accounts' # None /\ LedgerOf[selected'] = accounts'.ledger
  BY <1>1, <1>2, Tables DEF Lists, List
<1> QED BY <1>1, <1>3, EffectKeepsCurrent

LEMMA CurrentStays == TypeInv /\ TypeInv' /\ Current /\ [Next]_vars => Current'
<1> SUFFICES ASSUME TypeInv, TypeInv', Current, [Next]_vars PROVE Current'
  OBVIOUS
<1>1. ASSUME UNCHANGED <<tenant, ledger, accounts, selected, balance>> PROVE Current'
  BY <1>1 DEF Current, Readable
<1>2. ASSUME UNCHANGED <<tenant, ledger, accounts, selected>>,
             balance'.shown \in {None, balance.shown, balance.asked}, balance'.asked = None
      PROVE  Current'
  BY <1>2 DEF Current, Readable
<1>3. ASSUME NEW r \in refreshes.sent, RefreshAnswered(r) PROVE Current'
  <2>1. CASE r.version = refreshes.version
    BY <1>3, <2>1, RefreshKeepsCurrent
  <2>2. CASE r.version # refreshes.version
    BY <1>1, <1>3, <2>2 DEF RefreshAnswered
  <2> QED BY <2>1, <2>2
<1>4. ASSUME NEW a \in Accounts, SelectAccount(a) PROVE Current'
  BY <1>4, EffectKeepsCurrent DEF SelectAccount
<1>5. ASSUME NEW l \in Ledgers, SwitchLedger(l) PROVE Current'
  BY <1>5, EffectKeepsCurrent DEF SwitchLedger, Activate
<1>6. ASSUME NEW t \in Tenants, Renew(t) PROVE Current'
  BY <1>6, EffectKeepsCurrent DEF Renew, Current
<1>7. ASSUME NEW t \in Tenants, SandboxCreated(t) PROVE Current'
  BY <1>7, EffectKeepsCurrent DEF SandboxCreated
<1>8. CASE LedgersListed
  BY <1>8, EffectKeepsCurrent DEF LedgersListed, Activate
<1>9. CASE BalanceAnswered
  <2>1. balance'.shown = balance.asked /\ balance'.asked = None
    BY <1>9 DEF BalanceAnswered
  <2> QED BY <1>2, <1>9, <2>1 DEF BalanceAnswered
<1>10. CASE BalanceFailed \/ NewSandbox
  <2>1. balance' = [balance EXCEPT !.asked = None] /\ UNCHANGED <<tenant, ledger, accounts, selected>>
    BY <1>10 DEF BalanceFailed, NewSandbox
  <2>2. balance'.shown = balance.shown /\ balance'.asked = None
    BY <2>1 DEF TypeInv, Balances
  <2> QED BY <1>2, <2>1, <2>2
<1>11. \/ UNCHANGED <<tenant, ledger, accounts, selected, balance>>
       \/ (\E r \in refreshes.sent : RefreshAnswered(r))
       \/ (\E a \in Accounts : SelectAccount(a)) \/ (\E l \in Ledgers : SwitchLedger(l))
       \/ (\E t \in Tenants : Renew(t) \/ SandboxCreated(t)) \/ LedgersListed
       \/ BalanceAnswered \/ BalanceFailed \/ NewSandbox
  <2>1. ASSUME \/ UNCHANGED vars \/ (\E r \in refreshes.sent : RefreshFailed(r)) \/ EditFilter
               \/ (\E r \in Requests : Choose(r) \/ Send(r) \/ Commit(r) \/ Resolve(r))
               \/ CommitElsewhere \/ Posted \/ PostFailed \/ SandboxFailed
        PROVE  UNCHANGED <<tenant, ledger, accounts, selected, balance>>
    BY <2>1 DEF vars, RefreshFailed, EditFilter, Choose, Send, Commit, Resolve, CommitElsewhere, Posted, PostFailed,
       SandboxFailed
  <2>2. ASSUME \/ SwitchArea \/ (\E a \in Typed : EditUrl(a)) \/ (\E w \in Wheres : EditWhere(w))
               \/ Load \/ NextPage \/ LoadAnswered \/ LoadFailed
        PROVE  UNCHANGED <<tenant, ledger, accounts, selected, balance>>
    BY <2>2 DEF SwitchArea, EditUrl, EditWhere, Load, NextPage, LoadAnswered, LoadFailed, Untouched
  <2> QED BY Zenon, <2>1, <2>2 DEF Next
<1> QED BY <1>1, <1>3, <1>4, <1>5, <1>6, <1>7, <1>8, <1>9, <1>10, <1>11

\* A balance that is shown is of the selected account, of the active ledger and of the sandbox
\* the tab may read: for any number of accounts, ledgers and sandboxes, replaced or brought back.
THEOREM BalancesAreCurrent == Spec => []BalanceIsCurrent
<1>1. Init => Current
  BY DEF Init, NoBalance, Current
<1>2. Current => BalanceIsCurrent
  BY DEF Current, Readable, BalanceIsCurrent
<1> QED BY <1>1, <1>2, InitTypes, TypesStay, CurrentStays, PTL DEF Spec

-----------------------------------------------------------------------------
(* Drafts, writes and the changes they report.                             *)

\* The draft is of the active ledger, and so is the list.
OfLedger ==
  /\ draft # None => requests[draft].ledger = ledger
  /\ accounts # None => accounts.ledger = ledger /\ accounts.writes <= written

\* Only the newest refresh is of interest, and it is of the active ledger.
Refreshing ==
  \A r \in refreshes.sent : r.version <= refreshes.version /\ (r.version = refreshes.version => r.ledger = ledger)

\* The list a request started from was read before it was committed, and the refresh it waits
\* for was sent after both.
Writing ==
  write.pc # "idle" =>
    /\ boot.pc = "idle" /\ write.nth <= written
    /\ write.before # None =>
         /\ write.before.ledger = ledger /\ write.before.writes <= written
         /\ write.nth # 0 => write.before.writes < write.nth
    /\ write.pc = "refreshing" =>
         /\ write.refresh <= refreshes.version
         /\ \A r \in refreshes.sent :
              r.version = write.refresh =>
                r.asked >= write.nth /\ (write.before # None => r.asked >= write.before.writes)

Changed ==
  changes # None =>
    /\ changes.after # None => changes.after.ledger = ledger /\ changes.after.writes >= changes.nth
    /\ changes.before # None =>
         changes.before.ledger = ledger /\ (changes.nth = 0 \/ changes.before.writes < changes.nth)
    /\ changes.before # None /\ changes.after # None => changes.before.writes <= changes.after.writes

Framed == OfLedger /\ Refreshing /\ Writing /\ Changed

\* The numbers the steps compare.
LEMMA Numbers ==
  ASSUME TypeInv
  PROVE  /\ written \in Nat /\ refreshes.version \in Nat
         /\ write.nth \in Nat /\ write.refresh \in Nat
         /\ accounts # None => accounts.writes \in Nat
         /\ write.before # None => write.before.writes \in Nat
         /\ \A r \in refreshes.sent : r.version \in Nat /\ r.asked \in Nat
<1>1. \A list \in Lists : list # None => list.writes \in Nat
  BY Tables DEF Lists, List
<1>2. accounts \in Lists /\ write.before \in Lists /\ write.nth \in 0..MaxWrites /\ write.refresh \in 0..MaxRefreshes
  BY DEF TypeInv, WriteSet
<1>3. refreshes.version \in 1..MaxRefreshes /\ refreshes.sent \subseteq Sent
  BY DEF TypeInv, RefreshSet
<1> QED BY <1>1, <1>2, <1>3, Tables DEF TypeInv, Sent

LEMMA RefreshFrames ==
  ASSUME TypeInv, Framed, NEW r \in refreshes.sent, RefreshAnswered(r) \/ RefreshFailed(r)
  PROVE  Framed'
<1>1. /\ refreshes' = [refreshes EXCEPT !.sent = @ \ {r}] /\ write' \in {write, NoWrite}
      /\ UNCHANGED <<written, ledger, requests, draft, boot>>
  BY DEF RefreshAnswered, RefreshFailed
<1>2. refreshes'.version = refreshes.version /\ refreshes'.sent = refreshes.sent \ {r}
  BY <1>1 DEF TypeInv, RefreshSet
<1>3. Refreshing'
  BY <1>1, <1>2 DEF Framed, Refreshing
<1>4. Writing'
  BY <1>1, <1>2 DEF Framed, Writing, NoWrite
<1>5. CASE UNCHANGED <<accounts, changes>>
  BY <1>1, <1>3, <1>4, <1>5 DEF Framed, OfLedger, Changed
<1>6. CASE RefreshAnswered(r) /\ r.version = refreshes.version
  <2>1. PICK list \in Answers(r) :
          /\ accounts' = list
          /\ changes' = IF Awaited(r) THEN [before |-> write.before, after |-> list, nth |-> write.nth]
                                      ELSE changes
    BY <1>6 DEF RefreshAnswered
  <2>2. list \in Lists /\ (list # None => list.ledger = r.ledger /\ list.writes >= r.asked /\ list.writes <= written)
    BY AnswersType DEF TypeInv, RefreshSet
  <2>3. r.ledger = ledger
    BY <1>6 DEF Framed, Refreshing
  <2>4. OfLedger'
    BY <1>1, <2>1, <2>2, <2>3 DEF Framed, OfLedger
  <2>5. CASE Awaited(r)
    <3>1. changes'.before = write.before /\ changes'.after = list /\ changes'.nth = write.nth
      BY <2>1, <2>5
    <3>2. r.asked >= write.nth /\ (write.before # None => r.asked >= write.before.writes)
      BY <2>5 DEF Awaited, Framed, Writing
    <3>3. write.before # None =>
            write.before.ledger = ledger /\ (write.nth = 0 \/ write.before.writes < write.nth)
      BY <2>5 DEF Awaited, Framed, Writing
    <3>4. list # None => list.writes \in Nat
      BY <2>2, Tables DEF Lists, List
    <3>5. list # None => list.writes >= write.nth /\ (write.before # None => write.before.writes <= list.writes)
      BY <2>2, <3>2, <3>4, Numbers
    <3>6. Changed'
      BY <1>1, <2>2, <2>3, <3>1, <3>3, <3>5 DEF Changed
    <3> QED BY <1>3, <1>4, <2>4, <3>6 DEF Framed
  <2>6. CASE ~Awaited(r)
    <3>1. Changed'
      BY <1>1, <2>1, <2>6 DEF Framed, Changed
    <3> QED BY <1>3, <1>4, <2>4, <3>1 DEF Framed
  <2> QED BY <2>5, <2>6
<1> QED BY <1>5, <1>6 DEF RefreshAnswered, RefreshFailed

\* A refresh sent now, for the active ledger.
LEMMA RefreshSentFrames ==
  ASSUME TypeInv, Refreshing, Refresh(ledger), UNCHANGED ledger
  PROVE  Refreshing'
<1>1. /\ refreshes'.version = refreshes.version + 1
      /\ refreshes'.sent = refreshes.sent \cup
           {[version |-> refreshes'.version, ledger |-> ledger, tenant |-> tenant, asked |-> written]}
  BY RefreshGives DEF TypeInv
<1> QED BY <1>1, Numbers DEF Refreshing

LEMMA WriteFrames ==
  ASSUME TypeInv, Framed,
         \/ \E r \in Requests : Choose(r) \/ Send(r) \/ Commit(r) \/ Resolve(r)
         \/ CommitElsewhere \/ Posted \/ PostFailed \/ EditFilter
  PROVE  Framed'
<1>1. write \in WriteSet /\ requests \in RequestSet /\ draft \in Requests \cup {None}
  BY DEF TypeInv
<1>2. ASSUME NEW r \in Requests, Choose(r) PROVE Framed'
  <2>1. draft' = r /\ requests'[r].ledger = ledger /\ UNCHANGED <<written, ledger, accounts, refreshes, write, changes, boot>>
    BY <1>1, <1>2 DEF Choose, RequestSet
  <2>2. OfLedger'
    BY <2>1 DEF Framed, OfLedger
  <2> QED BY <2>1, <2>2 DEF Framed, Refreshing, Writing, Changed
<1>3. ASSUME NEW r \in Requests, Send(r) PROVE Framed'
  <2>1. write'.pc = "posting" /\ write'.before = accounts /\ write'.nth = 0 /\ boot.pc = "idle"
    BY <1>3 DEF Send, NoWrite, Busy
  <2>2. UNCHANGED <<written, ledger, accounts, refreshes, requests, changes, draft, boot>>
    BY <1>3 DEF Send
  <2>3. Writing'
    BY <2>1, <2>2, Numbers DEF Framed, OfLedger, Writing
  <2> QED BY <2>2, <2>3 DEF Framed, OfLedger, Refreshing, Changed
<1>4. ASSUME NEW r \in Requests, Commit(r) PROVE Framed'
  <2>1. /\ written' = written + 1 /\ write'.pc = "answered" /\ write'.nth = written + 1
        /\ write'.before = write.before /\ write.pc = "posting"
        /\ UNCHANGED <<ledger, accounts, refreshes, changes, draft, boot>>
    BY <1>1, <1>4 DEF Commit, Accepted, WriteSet
  <2>2. \A q \in Requests : requests'[q].ledger = requests[q].ledger
    BY <1>1, <1>4 DEF Commit, RequestSet
  <2>3. Writing'
    BY <2>1, Numbers DEF Framed, Writing
  <2>4. OfLedger'
    BY <1>1, <2>1, <2>2, Numbers DEF Framed, OfLedger
  <2> QED BY <2>1, <2>3, <2>4 DEF Framed, Refreshing, Changed
<1>5. ASSUME NEW r \in Requests, Resolve(r) PROVE Framed'
  <2>1. /\ write'.pc = "answered" /\ write'.nth = write.nth /\ write'.before = write.before /\ write.pc = "posting"
        /\ UNCHANGED <<written, ledger, accounts, refreshes, requests, changes, draft, boot>>
    BY <1>1, <1>5 DEF Resolve, Accepted, WriteSet
  <2> QED BY <2>1 DEF Framed, OfLedger, Refreshing, Writing, Changed
<1>6. CASE CommitElsewhere
  <2>1. written' = written + 1 /\ UNCHANGED <<ledger, accounts, refreshes, requests, write, changes, draft, boot>>
    BY <1>6 DEF CommitElsewhere
  <2>2. Writing'
    BY <2>1, Numbers DEF Framed, Writing
  <2>3. OfLedger'
    BY <2>1, Numbers DEF Framed, OfLedger
  <2> QED BY <2>1, <2>2, <2>3 DEF Framed, Refreshing, Changed
<1>7. CASE Posted
  <2>1. /\ refreshes'.version = refreshes.version + 1
        /\ refreshes'.sent = refreshes.sent \cup
             {[version |-> refreshes'.version, ledger |-> ledger, tenant |-> tenant, asked |-> written]}
    BY <1>7, RefreshGives DEF Posted, TypeInv
  <2>2. /\ write.pc = "answered" /\ write'.pc = "refreshing" /\ write'.refresh = refreshes'.version
        /\ write'.before = write.before /\ write'.nth = write.nth
        /\ UNCHANGED <<written, ledger, accounts, requests, changes, draft, boot>>
    BY <1>1, <1>7 DEF Posted, WriteSet
  <2>3. ASSUME NEW r \in refreshes'.sent, r.version = refreshes'.version
        PROVE  r.asked >= write.nth /\ (write.before # None => r.asked >= write.before.writes)
    <3>1. r \notin refreshes.sent
      BY <2>1, <2>3, Numbers DEF Framed, Refreshing
    <3>2. r.asked = written
      BY <2>1, <3>1
    <3> QED BY <2>2, <3>2, Numbers DEF Framed, Writing
  <2>4. Writing'
    BY <2>1, <2>2, <2>3, Numbers DEF Framed, Writing
  <2>5. Refreshing'
    BY <1>7, <2>2, RefreshSentFrames DEF Posted, Framed
  <2> QED BY <2>2, <2>4, <2>5 DEF Framed, OfLedger, Changed
<1>8. CASE PostFailed
  BY <1>8 DEF PostFailed, NoWrite, Framed, OfLedger, Refreshing, Writing, Changed
<1>9. CASE EditFilter
  <2>1. /\ refreshes'.version = refreshes.version + 1
        /\ refreshes'.sent = refreshes.sent \cup
             {[version |-> refreshes'.version, ledger |-> ledger, tenant |-> tenant, asked |-> written]}
        /\ UNCHANGED <<written, ledger, accounts, requests, write, changes, draft, boot>>
    BY <1>9, RefreshGives DEF EditFilter, TypeInv
  <2>2. ASSUME write.pc = "refreshing" PROVE write.refresh <= refreshes.version
    BY <2>2 DEF Framed, Writing
  <2>3. ASSUME write.pc = "refreshing", NEW r \in refreshes'.sent, r.version = write.refresh PROVE r \in refreshes.sent
    BY <2>1, <2>2, <2>3, Numbers
  <2>4. Writing'
    BY <2>1, <2>2, <2>3, Numbers DEF Framed, Writing
  <2>5. Refreshing'
    BY <1>9, <2>1, RefreshSentFrames DEF EditFilter, Framed
  <2> QED BY <2>1, <2>4, <2>5 DEF Framed, OfLedger, Changed
<1> QED BY <1>2, <1>3, <1>4, <1>5, <1>6, <1>7, <1>8, <1>9

\* Another ledger: no write is under way.
LEMMA ActivateFrames ==
  ASSUME TypeInv, Refreshing, NEW l \in Ledgers, Activate(l), UNCHANGED write, write.pc = "idle"
  PROVE  Framed'
<1>1. /\ ledger' = l /\ accounts' = None /\ changes' = None /\ draft' = None
      /\ refreshes'.version = refreshes.version + 1
      /\ refreshes'.sent = refreshes.sent \cup
           {[version |-> refreshes'.version, ledger |-> l, tenant |-> tenant, asked |-> written]}
  BY RefreshGives DEF Activate, TypeInv
<1>2. Refreshing'
  BY <1>1, Numbers DEF Refreshing
<1> QED BY <1>1, <1>2 DEF Framed, OfLedger, Writing, Changed

LEMMA BookFrames ==
  ASSUME TypeInv, Framed,
         \/ (\E l \in Ledgers : SwitchLedger(l)) \/ (\E t \in Tenants : SandboxCreated(t))
         \/ NewSandbox \/ LedgersListed \/ SandboxFailed \/ SwitchArea
  PROVE  Framed'
<1>1. ASSUME NEW l \in Ledgers, SwitchLedger(l) PROVE Framed'
  BY <1>1, ActivateFrames DEF SwitchLedger, Busy, Framed
<1>2. ASSUME NEW t \in Tenants, SandboxCreated(t) PROVE Framed'
  <2>1. write.pc = "idle"
    BY <1>2 DEF SandboxCreated, Framed, Writing
  <2> QED BY <1>2, <2>1 DEF SandboxCreated, Framed, OfLedger, Refreshing, Writing, Changed
<1>3. CASE NewSandbox
  <2>1. /\ write.pc = "idle" /\ refreshes'.version = refreshes.version + 1 /\ refreshes'.sent = refreshes.sent
        /\ UNCHANGED <<written, ledger, accounts, requests, write, changes, draft>>
    BY <1>3 DEF NewSandbox, Busy, TypeInv, RefreshSet
  <2>2. Refreshing'
    BY <2>1, Numbers DEF Framed, Refreshing
  <2> QED BY <2>1, <2>2 DEF Framed, OfLedger, Writing, Changed
<1>4. CASE LedgersListed
  <2>1. write.pc = "idle"
    BY <1>4 DEF LedgersListed, Framed, Writing
  <2>2. FirstLedger[boot.tenant] \in Ledgers
    BY <1>4, Tables DEF LedgersListed, TypeInv
  <2> QED BY <1>4, <2>1, <2>2, ActivateFrames DEF LedgersListed, Framed
<1>5. CASE SandboxFailed
  BY <1>5 DEF SandboxFailed, Framed, OfLedger, Refreshing, Writing, Changed
<1>6. CASE SwitchArea
  BY <1>6 DEF SwitchArea, Framed, OfLedger, Refreshing, Writing, Changed
<1> QED BY <1>1, <1>2, <1>3, <1>4, <1>5, <1>6

LEMMA FramedStays == TypeInv /\ Framed /\ [Next]_vars => Framed'
<1> SUFFICES ASSUME TypeInv, Framed, [Next]_vars PROVE Framed'
  OBVIOUS
<1>1. ASSUME UNCHANGED <<written, ledger, accounts, refreshes, requests, write, changes, draft, boot>> PROVE Framed'
  BY <1>1 DEF Framed, OfLedger, Refreshing, Writing, Changed
<1>2. ASSUME \/ (\E a \in Accounts : SelectAccount(a)) \/ BalanceAnswered \/ BalanceFailed
             \/ (\E t \in Tenants : Renew(t)) \/ UNCHANGED vars
      PROVE  UNCHANGED <<written, ledger, accounts, refreshes, requests, write, changes, draft, boot>>
  BY <1>2 DEF SelectAccount, BalanceAnswered, BalanceFailed, Renew, vars
<1>3. ASSUME \/ (\E a \in Typed : EditUrl(a)) \/ (\E w \in Wheres : EditWhere(w))
             \/ Load \/ NextPage \/ LoadAnswered \/ LoadFailed
      PROVE  UNCHANGED <<written, ledger, accounts, refreshes, requests, write, changes, draft, boot>>
  BY <1>3 DEF EditUrl, EditWhere, Load, NextPage, LoadAnswered, LoadFailed, Untouched
<1> QED BY Zenon, <1>1, <1>2, <1>3, RefreshFrames, WriteFrames, BookFrames DEF Next

\* The draft is of the active ledger, and "Balance changes" compares two lists of it with the
\* write it reports between them, or none when the request was a repeat: for any number of
\* ledgers, sandboxes, requests, writes and refreshes, answered in any order.
THEOREM ChangesAreOfTheWrite == Spec => []ChangesFrameTheWrite
<1>1. Init => Framed
  BY Tables DEF Init, NoWrite, Framed, OfLedger, Refreshing, Writing, Changed
<1>2. Framed => ChangesFrameTheWrite
  BY DEF Framed, OfLedger, Changed, ChangesFrameTheWrite
<1> QED BY <1>1, <1>2, InitTypes, TypesStay, FramedStays, PTL DEF Spec

-----------------------------------------------------------------------------
(* The read panel.                                                         *)

Following(page) == [page EXCEPT !.page = @ + 1]

\* NextPageContinues, which is inductive as it stands.
Continues ==
  panel.result \notin {None, Invalid} =>
    /\ panel.continuation # None => panel.continuation = Following(panel.result)
    /\ load.pc = "sent" /\ load.next /\ load.mounted => load.target = Following(panel.result)

LEMMA ContinuesStays == TypeInv /\ Continues /\ [Next]_vars => Continues'
<1> SUFFICES ASSUME TypeInv, Continues, [Next]_vars PROVE Continues'
  OBVIOUS
<1>1. panel \in PanelSet /\ load \in LoadSet
  BY DEF TypeInv
<1>2. ASSUME UNCHANGED <<panel, load>> PROVE Continues'
  BY <1>2 DEF Continues
<1>3. ASSUME panel'.result = None PROVE Continues'
  BY <1>3 DEF Continues
<1>4. ASSUME PathEffect, UNCHANGED load PROVE Continues'
  <2>1. UNCHANGED panel \/ panel'.result = None
    BY <1>4 DEF PathEffect, Fresh
  <2> QED BY <1>2, <1>3, <1>4, <2>1
<1>5. ASSUME \/ (\E r \in refreshes.sent : RefreshAnswered(r)) \/ (\E a \in Accounts : SelectAccount(a))
             \/ (\E l \in Ledgers : SwitchLedger(l)) \/ (\E t \in Tenants : SandboxCreated(t)) \/ LedgersListed
      PROVE  UNCHANGED load /\ (UNCHANGED panel \/ PathEffect)
  BY Zenon, <1>5 DEF RefreshAnswered, SelectAccount, SwitchLedger, SandboxCreated, LedgersListed, Activate
<1>6. ASSUME \/ UNCHANGED vars \/ (\E r \in refreshes.sent : RefreshFailed(r)) \/ EditFilter
             \/ (\E r \in Requests : Choose(r) \/ Send(r) \/ Commit(r) \/ Resolve(r))
             \/ CommitElsewhere \/ Posted \/ PostFailed
             \/ BalanceAnswered \/ BalanceFailed \/ (\E t \in Tenants : Renew(t)) \/ NewSandbox \/ SandboxFailed
      PROVE  UNCHANGED <<panel, load>>
  BY <1>6 DEF vars, RefreshFailed, EditFilter, Choose, Send, Commit, Resolve, CommitElsewhere, Posted, PostFailed, BalanceAnswered,
     BalanceFailed, Renew, NewSandbox, SandboxFailed
<1>7. CASE SwitchArea
  BY <1>3, <1>7 DEF SwitchArea, Fresh
<1>8. ASSUME (\E a \in Typed : EditUrl(a)) \/ (\E w \in Wheres : EditWhere(w)) PROVE Continues'
  <2>1. panel'.result = panel.result /\ panel'.continuation = None /\ UNCHANGED load
    BY <1>1, <1>8 DEF EditUrl, EditWhere, PanelSet
  <2> QED BY <2>1 DEF Continues
<1>9. CASE Load
  <2>1. CASE panel.where = Invalid
    <3>1. panel'.result = Invalid
      BY <1>1, <1>9, <2>1 DEF Load, PanelSet
    <3> QED BY <3>1 DEF Continues
  <2>2. CASE panel.where # Invalid
    <3>1. load'.next = FALSE /\ UNCHANGED panel
      BY <1>9, <2>2 DEF Load
    <3> QED BY <3>1 DEF Continues
  <2> QED BY <2>1, <2>2
<1>10. CASE NextPage
  <2>1. load'.target = panel.continuation /\ UNCHANGED panel /\ panel.continuation # None
    BY <1>10 DEF NextPage
  <2> QED BY <2>1 DEF Continues
<1>11. CASE LoadAnswered
  <2>1. load' = NoLoad /\ load'.pc = "idle"
    BY <1>11 DEF LoadAnswered, NoLoad
  <2>2. CASE load.mounted
    <3>1. PICK continuation \in {None, Following(load.target)} :
            panel' = [panel EXCEPT !.result = load.target, !.continuation = continuation]
      BY <1>11, <2>2 DEF LoadAnswered, Following
    <3>2. panel'.result = load.target /\ panel'.continuation = continuation
      BY <1>1, <3>1 DEF PanelSet
    <3> QED BY <2>1, <3>2 DEF Continues
  <2>3. CASE ~load.mounted
    BY <1>11, <2>1, <2>3 DEF LoadAnswered, Continues
  <2> QED BY <2>2, <2>3
<1>12. CASE LoadFailed
  BY <1>12 DEF LoadFailed, NoLoad, Continues
<1> QED BY Zenon, <1>2, <1>4, <1>5, <1>6, <1>7, <1>8, <1>9, <1>10, <1>11, <1>12 DEF Next

\* "Next page" continues what the panel shows, for any filters, paths and pages.
THEOREM NextPagesContinue == Spec => []NextPageContinues
<1>1. Init => Continues
  BY DEF Init, Fresh, Continues
<1>2. Continues => NextPageContinues
  BY DEF Continues, Following, NextPageContinues
<1> QED BY <1>1, <1>2, InitTypes, TypesStay, ContinuesStays, PTL DEF Spec

=============================================================================
