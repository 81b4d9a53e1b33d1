----------------------------- MODULE Workbench -----------------------------
(***************************************************************************)
(* The console's writes, balances and read panels, apps/web/src/App.tsx:   *)
(* execute with its refresh and "Balance changes from the last successful  *)
(* write", the balance of the selected account, a ReadPanel of the Reports *)
(* area, drafts, and what a new sandbox or a renewal does to them.         *)
(*                                                                         *)
(* The database is abstracted to the number of writes it has committed: a  *)
(* list of accounts carries some number between the one when it was asked  *)
(* for and the one when it came.  A write is a request with a reference;   *)
(* sent again it commits nothing more.  A request has the bearer of the    *)
(* moment it was sent.  An event handler, or the code between two awaits,  *)
(* is one action, with the effects React runs after.                       *)
(* The list of transactions and its filter are TransactionsPanel's.        *)
(***************************************************************************)
EXTENDS Naturals

CONSTANTS
  Ledgers, TenantOf,   \* the tenant of a ledger: 1 the browser's first, and each later one the next
  Accounts, LedgerOf,  \* the ledger of an account
  Typed,               \* the accounts whose path a user types into a panel
  Primary,             \* the account with the code DEMO_PRIMARY, of a ledger
  FirstLedger,         \* books[0] of a tenant
  Requests,            \* bodies of a POST, each with a reference of its own
  Wheres, NoFilter,    \* filters of a panel; the empty one
  Invalid,             \* a filter that is no JSON
  None,
  MaxWrites, MaxRefreshes, MaxPage

Tenants == {TenantOf[l] : l \in Ledgers}

ASSUME TenantsAreNumbered == TenantOf \in [Ledgers -> Nat \ {0}] /\ 1 \in Tenants
ASSUME AccountsType ==
  /\ Typed \subseteq Accounts /\ LedgerOf \in [Accounts -> Ledgers] /\ Primary \in [Ledgers -> Accounts]
  /\ \A l \in Ledgers : LedgerOf[Primary[l]] = l
ASSUME FirstLedgerType == \A t \in Tenants : FirstLedger[t] \in Ledgers /\ TenantOf[FirstLedger[t]] = t
ASSUME FiltersType == {NoFilter, Invalid} \subseteq Wheres
ASSUME NoneIsNothing == None \notin Ledgers \cup Accounts \cup Requests \cup Wheres
ASSUME BoundsType == MaxWrites \in Nat /\ MaxRefreshes \in Nat \ {0} /\ MaxPage \in Nat \ {0}

VARIABLES
  written,    \* writes committed
  tenant,     \* session.tenant_id, and the tenant of the bearer
  newest,     \* the browser's newest sandbox, of any of its tabs
  ledger,
  accounts,   \* the list of accounts: its ledger and how many writes it shows; None when empty
  selected,   \* selectedAccount
  balance,    \* the account whose balance is shown, and of the request for one that is not aborted
  refreshes,  \* refreshVersion and the refreshes in flight
  requests,   \* the ledger a body has the ids of, and which write committed it: 0 none yet
  journal,    \* records: the requests sent
  write,      \* execute of a POST
  changes,    \* beforeAfter
  draft,      \* the request in the editor
  boot,       \* bootstrap(true), and the sandbox it lists the ledgers of
  area,
  panel,      \* a ReadPanel whose path is the selected account's
  load        \* its request

vars == <<written, tenant, newest, ledger, accounts, selected, balance, refreshes, requests, journal, write, changes,
          draft, boot, area, panel, load>>

Busy == write.pc # "idle" \/ load.pc # "idle" \/ boot.pc # "idle"

NoBalance == [shown |-> None, asked |-> None]
NoWrite   == [pc |-> "idle", request |-> None, tenant |-> None, before |-> None, nth |-> 0, refresh |-> 0]
NoBoot    == [pc |-> "idle", tenant |-> None]
NoRequest == [ledger |-> None, nth |-> 0]
NoLoad    == [pc |-> "idle", target |-> None, next |-> FALSE, mounted |-> FALSE]
Fresh(path) == [url |-> path, where |-> NoFilter, result |-> None, continuation |-> None]

Init ==
  /\ written = 0
  /\ tenant = 1 /\ newest = 1 /\ ledger = FirstLedger[1]
  /\ accounts = None /\ selected = None /\ balance = NoBalance
  /\ refreshes = [version |-> 1, sent |-> {[version |-> 1, ledger |-> FirstLedger[1], tenant |-> 1, asked |-> 0]}]
  /\ requests = [r \in Requests |-> NoRequest] /\ journal = {}
  /\ write = NoWrite /\ changes = None /\ draft = None
  /\ boot = NoBoot /\ area = "Accounts"
  /\ panel = Fresh(None) /\ load = NoLoad

-----------------------------------------------------------------------------
(* Effects.                                                                *)

\* Some account of the list is the selected one, of the ledger and of the session's tenant.
Readable(account, list, l, t) ==
  list # None /\ account # None /\ list.ledger = l /\ t = TenantOf[l]

\* Wrong on purpose, for a mutant: an answer of the account selected before may come yet.
BalanceEffectKeepingRequest ==
  balance' = [shown |-> None,
              asked |-> IF balance.asked = None /\ Readable(selected', accounts', ledger', tenant')
                          THEN selected' ELSE balance.asked]

\* The effect on [selectedAccount, accounts, ledger, session.tenant_id]: the request before is
\* aborted, and the balance asked for anew.
BalanceEffect ==
  balance' = [shown |-> None,
              asked |-> IF Readable(selected', accounts', ledger', tenant') THEN selected' ELSE None]

\* The ReadPanel's effect on its path.
PathEffect == panel' = IF selected' = selected THEN panel ELSE Fresh(selected')

\* refresh() up to its await.
Refresh(l) ==
  /\ refreshes.version < MaxRefreshes
  /\ refreshes' = [version |-> refreshes.version + 1,
                   sent |-> refreshes.sent \cup
                              {[version |-> refreshes.version + 1, ledger |-> l, tenant |-> tenant, asked |-> written]}]

\* The effects of another ledger.
Activate(l) ==
  /\ ledger' = l
  /\ accounts' = None /\ selected' = None /\ changes' = None /\ draft' = None
  /\ UNCHANGED tenant
  /\ BalanceEffect /\ PathEffect
  /\ Refresh(l)

-----------------------------------------------------------------------------
(* Answers to refreshes, and the write that waits for one.                 *)

Awaited(r) == write.pc = "refreshing" /\ write.refresh = r.version

\* What a bearer reads of a ledger of its tenant, and of another one: no account.
Answers(r) ==
  IF TenantOf[r.ledger] = r.tenant THEN {[ledger |-> r.ledger, writes |-> v] : v \in r.asked..written} ELSE {None}

\* The newest answer becomes the list; an account that is not in it is not selected any more.
RefreshAnswered(r) ==
  /\ r \in refreshes.sent
  /\ refreshes' = [refreshes EXCEPT !.sent = @ \ {r}]
  /\ write' = IF Awaited(r) THEN NoWrite ELSE write
  /\ UNCHANGED <<written, tenant, newest, ledger, requests, journal, draft, boot, area, load>>
  /\ IF r.version = refreshes.version
       THEN \E list \in Answers(r) :
              /\ accounts' = list
              /\ selected' = IF list = None THEN None
                             ELSE IF selected # None /\ LedgerOf[selected] = list.ledger THEN selected
                             ELSE Primary[list.ledger]
              /\ BalanceEffect /\ PathEffect
              /\ changes' = IF Awaited(r) THEN [before |-> write.before, after |-> list, nth |-> write.nth]
                                          ELSE changes
       ELSE UNCHANGED <<accounts, selected, balance, panel, changes>>

RefreshFailed(r) ==
  /\ r \in refreshes.sent
  /\ refreshes' = [refreshes EXCEPT !.sent = @ \ {r}]
  /\ write' = IF Awaited(r) THEN NoWrite ELSE write
  /\ UNCHANGED <<written, tenant, newest, ledger, accounts, selected, balance, requests, journal, changes, draft, boot,
                 area, panel, load>>

\* The filter of the transactions, which may be edited while a request runs.
EditFilter ==
  /\ area = "Accounts"
  /\ Refresh(ledger)
  /\ UNCHANGED <<written, tenant, newest, ledger, accounts, selected, balance, requests, journal, write, changes, draft,
                 boot, area, panel, load>>

-----------------------------------------------------------------------------
(* Writes.                                                                 *)

\* choose: a draft has the ids of the ledger active now, and a new reference.
Choose(r) ==
  /\ ~Busy /\ area = "Accounts" /\ r \notin journal
  /\ requests' = [requests EXCEPT ![r].ledger = ledger]
  /\ draft' = r
  /\ UNCHANGED <<written, tenant, newest, ledger, accounts, selected, balance, refreshes, journal, write, changes, boot,
                 area, panel, load>>

\* submitDraft, "Repeat last write", or "Repeat exact request" of the journal, which outlives
\* its ledger and its sandbox.
Send(r) ==
  /\ ~Busy /\ (r = draft \/ r \in journal)
  /\ write' = [NoWrite EXCEPT !.pc = "posting", !.request = r, !.tenant = tenant, !.before = accounts]
  /\ journal' = journal \cup {r}
  /\ UNCHANGED <<written, tenant, newest, ledger, accounts, selected, balance, refreshes, requests, changes, draft, boot,
                 area, panel, load>>

Accepted(r) == write.pc = "posting" /\ write.request = r /\ TenantOf[requests[r].ledger] = write.tenant

Commit(r) ==
  /\ Accepted(r) /\ requests[r].nth = 0 /\ written < MaxWrites
  /\ written' = written + 1
  /\ requests' = [requests EXCEPT ![r].nth = written + 1]
  /\ write' = [write EXCEPT !.pc = "answered", !.nth = written + 1]
  /\ UNCHANGED <<tenant, newest, ledger, accounts, selected, balance, refreshes, journal, changes, draft, boot, area,
                 panel, load>>

\* The reference has been posted already: created: false.
Resolve(r) ==
  /\ Accepted(r) /\ requests[r].nth # 0
  /\ write' = [write EXCEPT !.pc = "answered"]
  /\ UNCHANGED <<written, tenant, newest, ledger, accounts, selected, balance, refreshes, requests, journal, changes,
                 draft, boot, area, panel, load>>

\* A write of another tab, or of a terminal.
CommitElsewhere ==
  /\ written < MaxWrites
  /\ written' = written + 1
  /\ UNCHANGED <<tenant, newest, ledger, accounts, selected, balance, refreshes, requests, journal, write, changes, draft,
                 boot, area, panel, load>>

\* Wrong on purpose, for a mutant: a refresh that is under way already is waited for.
PostedDuringRefresh ==
  /\ write.pc = "answered"
  /\ IF \E r \in refreshes.sent : r.version = refreshes.version
       THEN UNCHANGED refreshes ELSE Refresh(ledger)
  /\ write' = [write EXCEPT !.pc = "refreshing", !.refresh = refreshes'.version]
  /\ UNCHANGED <<written, tenant, newest, ledger, accounts, selected, balance, requests, journal, changes, draft, boot,
                 area, panel, load>>

Posted ==
  /\ write.pc = "answered"
  /\ Refresh(ledger)
  /\ write' = [write EXCEPT !.pc = "refreshing", !.refresh = refreshes'.version]
  /\ UNCHANGED <<written, tenant, newest, ledger, accounts, selected, balance, requests, journal, changes, draft, boot,
                 area, panel, load>>

\* Refused, or the answer was lost.
PostFailed ==
  /\ write.pc \in {"posting", "answered"}
  /\ write' = NoWrite
  /\ UNCHANGED <<written, tenant, newest, ledger, accounts, selected, balance, refreshes, requests, journal, changes,
                 draft, boot, area, panel, load>>

-----------------------------------------------------------------------------
(* Accounts, ledgers and sandboxes.                                        *)

SelectAccount(a) ==
  /\ accounts # None /\ LedgerOf[a] = accounts.ledger /\ a # selected
  /\ selected' = a
  /\ UNCHANGED <<written, tenant, newest, ledger, accounts, refreshes, requests, journal, write, changes, draft, boot,
                 area, load>>
  /\ BalanceEffect /\ PathEffect

BalanceAnswered ==
  /\ balance.asked # None
  /\ balance' = [shown |-> balance.asked, asked |-> None]
  /\ UNCHANGED <<written, tenant, newest, ledger, accounts, selected, refreshes, requests, journal, write, changes, draft,
                 boot, area, panel, load>>

BalanceFailed ==
  /\ balance.asked # None
  /\ balance' = [balance EXCEPT !.asked = None]
  /\ UNCHANGED <<written, tenant, newest, ledger, accounts, selected, refreshes, requests, journal, write, changes, draft,
                 boot, area, panel, load>>

SwitchLedger(l) ==
  /\ ~Busy /\ l # ledger /\ TenantOf[l] = TenantOf[ledger]
  /\ Activate(l)
  /\ UNCHANGED <<written, newest, requests, journal, write, boot, area, load>>

\* The renewal timer.  Another tab of the browser may have replaced the sandbox, and an answer
\* that is late brings back the one before.
Renew(t) ==
  /\ t # tenant
  /\ tenant' = t /\ newest' = IF t > newest THEN t ELSE newest
  /\ UNCHANGED <<written, ledger, accounts, selected, refreshes, requests, journal, write, changes, draft, boot, area,
                 panel, load>>
  /\ BalanceEffect

\* bootstrap(true): aborts the balance's request, and gives up the refreshes in flight.
NewSandbox ==
  /\ ~Busy /\ refreshes.version < MaxRefreshes
  /\ boot' = [pc |-> "creating", tenant |-> None]
  /\ balance' = [balance EXCEPT !.asked = None]
  /\ refreshes' = [refreshes EXCEPT !.version = @ + 1]
  /\ UNCHANGED <<written, tenant, newest, ledger, accounts, selected, requests, journal, write, changes, draft, area,
                 panel, load>>

SandboxCreated(t) ==
  /\ boot.pc = "creating" /\ t > newest
  /\ boot' = [pc |-> "listing", tenant |-> t]
  /\ tenant' = t /\ newest' = t
  /\ accounts' = None /\ selected' = None /\ changes' = None /\ draft' = None
  /\ UNCHANGED <<written, ledger, refreshes, requests, journal, write, area, load>>
  /\ BalanceEffect /\ PathEffect

\* The ledgers of the new sandbox, although a late renewal has brought back another one.
LedgersListed ==
  /\ boot.pc = "listing"
  /\ boot' = NoBoot
  /\ Activate(FirstLedger[boot.tenant])
  /\ UNCHANGED <<written, newest, requests, journal, write, area, load>>

\* The second request may fail alone: a new sandbox, the old ledger and no accounts.
SandboxFailed ==
  /\ boot.pc # "idle"
  /\ boot' = NoBoot
  /\ UNCHANGED <<written, tenant, newest, ledger, accounts, selected, balance, refreshes, requests, journal, write,
                 changes, draft, area, panel, load>>

-----------------------------------------------------------------------------
(* The read panel.                                                         *)

\* A panel is mounted while its area is open; the answer to one that is gone changes nothing.
SwitchArea ==
  /\ area' = IF area = "Accounts" THEN "Reports" ELSE "Accounts"
  /\ draft' = None
  /\ panel' = Fresh(selected)
  /\ load' = [load EXCEPT !.mounted = FALSE]
  /\ UNCHANGED <<written, tenant, newest, ledger, accounts, selected, balance, refreshes, requests, journal, write, changes,
                 boot>>

Untouched ==
  UNCHANGED <<written, tenant, newest, ledger, accounts, selected, balance, refreshes, requests, journal, write, changes,
              draft, boot, area>>

\* What the user types ends the continuation.
EditUrl(a) ==
  /\ area = "Reports" /\ a # panel.url
  /\ panel' = [panel EXCEPT !.url = a, !.continuation = None]
  /\ UNCHANGED load /\ Untouched

EditWhere(w) ==
  /\ area = "Reports" /\ w # panel.where
  /\ panel' = [panel EXCEPT !.where = w, !.continuation = None]
  /\ UNCHANGED load /\ Untouched

\* load(): the first page of what the panel asks for; a filter that is no JSON is an error.
Load ==
  /\ area = "Reports" /\ ~Busy /\ panel.url # None
  /\ IF panel.where = Invalid
       THEN panel' = [panel EXCEPT !.result = Invalid] /\ UNCHANGED load
       ELSE /\ load' = [pc |-> "sent", next |-> FALSE, mounted |-> TRUE,
                        target |-> [url |-> panel.url, where |-> panel.where, page |-> 1]]
            /\ UNCHANGED panel
  /\ Untouched

\* Wrong on purpose, for a mutant: the cursor is advanced when its page is asked for, too.
NextPageSkipping ==
  /\ area = "Reports" /\ ~Busy /\ panel.continuation # None
  /\ load' = [pc |-> "sent", next |-> TRUE, mounted |-> TRUE, target |-> [panel.continuation EXCEPT !.page = @ + 1]]
  /\ UNCHANGED panel /\ Untouched

\* load(true): the target is the continuation and nothing of what the panel shows now.
NextPage ==
  /\ area = "Reports" /\ ~Busy /\ panel.continuation # None
  /\ load' = [pc |-> "sent", next |-> TRUE, mounted |-> TRUE, target |-> panel.continuation]
  /\ UNCHANGED panel /\ Untouched

\* Wrong on purpose, for a mutant: the continuation is built from the inputs of the moment.
LoadAnsweredFromInputs ==
  /\ load.pc = "sent"
  /\ load' = NoLoad
  /\ IF load.mounted
       THEN \E continuation \in {None, [url |-> panel.url, where |-> panel.where, page |-> load.target.page + 1]} :
              /\ continuation = None \/ load.target.page < MaxPage
              /\ panel' = [panel EXCEPT !.result = load.target, !.continuation = continuation]
       ELSE UNCHANGED panel
  /\ Untouched

LoadAnswered ==
  /\ load.pc = "sent"
  /\ load' = NoLoad
  /\ IF load.mounted
       THEN \E continuation \in {None, [load.target EXCEPT !.page = @ + 1]} :
              /\ continuation = None \/ load.target.page < MaxPage
              /\ panel' = [panel EXCEPT !.result = load.target, !.continuation = continuation]
       ELSE UNCHANGED panel
  /\ Untouched

LoadFailed ==
  /\ load.pc = "sent"
  /\ load' = NoLoad
  /\ UNCHANGED panel /\ Untouched

Next ==
  \/ \E r \in refreshes.sent : RefreshAnswered(r) \/ RefreshFailed(r)
  \/ EditFilter
  \/ \E r \in Requests : Choose(r) \/ Send(r) \/ Commit(r) \/ Resolve(r)
  \/ CommitElsewhere \/ Posted \/ PostFailed
  \/ \E a \in Accounts : SelectAccount(a)
  \/ BalanceAnswered \/ BalanceFailed
  \/ \E l \in Ledgers : SwitchLedger(l)
  \/ \E t \in Tenants : Renew(t) \/ SandboxCreated(t)
  \/ NewSandbox \/ LedgersListed \/ SandboxFailed
  \/ SwitchArea
  \/ (\E a \in Typed : EditUrl(a)) \/ (\E w \in Wheres : EditWhere(w))
  \/ Load \/ NextPage \/ LoadAnswered \/ LoadFailed

Spec == Init /\ [][Next]_vars

-----------------------------------------------------------------------------
(* Properties.                                                             *)

List   == [ledger : Ledgers, writes : 0..MaxWrites]
Page   == [url : Accounts, where : Wheres, page : 1..MaxPage]

TypeOK ==
  /\ written \in 0..MaxWrites /\ tenant \in Tenants /\ newest \in Tenants /\ ledger \in Ledgers
  /\ accounts \in List \cup {None} /\ selected \in Accounts \cup {None}
  /\ balance \in [shown : Accounts \cup {None}, asked : Accounts \cup {None}]
  /\ refreshes.version \in 1..MaxRefreshes
  /\ refreshes.sent \subseteq [version : 1..MaxRefreshes, ledger : Ledgers, tenant : Tenants, asked : 0..MaxWrites]
  /\ requests \in [Requests -> [ledger : Ledgers \cup {None}, nth : 0..MaxWrites]] /\ journal \subseteq Requests
  /\ write.pc \in {"idle", "posting", "answered", "refreshing"} /\ write.request \in Requests \cup {None}
  /\ draft \in Requests \cup {None}
  /\ boot \in [pc : {"idle", "creating", "listing"}, tenant : Tenants \cup {None}] /\ area \in {"Accounts", "Reports"}
  /\ panel.url \in Accounts \cup {None} /\ panel.where \in Wheres
  /\ panel.result \in Page \cup {None, Invalid} /\ panel.continuation \in Page \cup {None}
  /\ load.target \in Page \cup {None}

\* A balance that is shown is of the selected account, which is listed, of the active ledger
\* and of the sandbox the tab may read, whatever was selected, refreshed, renewed or brought
\* back by a late renewal while it was asked for.
BalanceIsCurrent ==
  balance.shown # None =>
    /\ balance.shown = selected
    /\ accounts # None /\ accounts.ledger = ledger /\ LedgerOf[selected] = ledger
    /\ tenant = TenantOf[ledger]

\* What is drafted is of the active ledger, and "Balance changes" compares two lists of it,
\* the second no older than the first; between the two is the write it reports, unless that
\* was a repeat and committed nothing: although the request may be one of the journal, for
\* another ledger or another sandbox, others write too, refreshes started before the write and
\* by the filter are answered in any order, and a renewal changes the bearer between any two
\* steps.
ChangesFrameTheWrite ==
  /\ draft # None => requests[draft].ledger = ledger
  /\ changes # None =>
       LET before == changes.before
           after  == changes.after
       IN  /\ after # None => after.ledger = ledger /\ after.writes >= changes.nth
           /\ before # None => before.ledger = ledger /\ (changes.nth = 0 \/ before.writes < changes.nth)
           /\ before # None /\ after # None => before.writes <= after.writes

\* "Next page" continues what the panel shows, with its filter and boundaries, whatever was
\* typed, selected or left while an answer was under way.
NextPageContinues ==
  LET Following(page) == [page EXCEPT !.page = @ + 1]
      shown == panel.result \notin {None, Invalid}
  IN  shown => /\ panel.continuation # None => panel.continuation = Following(panel.result)
               /\ load.pc = "sent" /\ load.next /\ load.mounted => load.target = Following(panel.result)
=============================================================================
