-------------------------- MODULE TransactionsPanel --------------------------
(***************************************************************************)
(* The Transactions area of the console, apps/web/src/App.tsx: the list of *)
(* the active ledger, its exact-reference filter and "Load more", the      *)
(* transfer form, and the transaction whose entries are inspected.         *)
(*                                                                         *)
(* A page of transactions is abstracted to its scope, the ledger and the   *)
(* filter it was asked for.  An event handler or the code between two      *)
(* awaits is one action, with the effects React runs after it; answers     *)
(* arrive in any order, and any of them may be an error.                   *)
(***************************************************************************)
EXTENDS Naturals, Sequences

CONSTANTS
  Ledgers, Filters,
  NoFilter,    \* the empty filter
  Txs,         \* transactions
  LedgerOf,    \* the ledger of a transaction
  None,
  MaxVersion   \* bound on refreshes and on inspections

ASSUME FilterType == NoFilter \in Filters
ASSUME LedgerOfType == LedgerOf \in [Txs -> Ledgers]
ASSUME NoneIsNothing == None \notin Ledgers \cup Txs
ASSUME BoundIsNat == MaxVersion \in Nat

VARIABLES
  ledger, filter,  \* the active ledger, None before the first; txFilter
  busy,            \* a foreground request or a bootstrap runs
  booting,         \* a bootstrap runs: the page was loaded, or a new sandbox asked for
  pages,           \* transactions, as the scopes of the pages loaded
  cursor,          \* whether txCursor names a next page
  refreshes,       \* refreshVersion, the refreshes in flight, and whether the last failed
  more,            \* the "Load more" in flight
  transfer,        \* the transfer in flight; one at a time is followed
  inspected        \* selectedTx, txEntries, inspectionVersion, and the entries in flight

vars == <<ledger, filter, busy, booting, pages, cursor, refreshes, more, transfer, inspected>>

Scope   == [ledger : Ledgers, filter : Filters]
Current == [ledger |-> ledger, filter |-> filter]
NoMore  == [pc |-> "idle", scope |-> None]
NoTransfer == [pc |-> "idle", tx |-> None, version |-> 0]

Init ==
  /\ ledger = None /\ filter = NoFilter
  /\ busy = TRUE /\ booting = TRUE
  /\ pages = <<>> /\ cursor = FALSE
  /\ refreshes = [version |-> 0, sent |-> {}, failed |-> FALSE]
  /\ more = NoMore
  /\ transfer = NoTransfer
  /\ inspected = [tx |-> None, entries |-> None, version |-> 0, sent |-> {}]

-----------------------------------------------------------------------------
(* refresh                                                                 *)

\* refresh() asks for the first page of a scope; the newest version wins.
Refresh(scope) ==
  /\ refreshes.version < MaxVersion
  /\ refreshes' = [version |-> refreshes.version + 1, failed |-> FALSE,
                   sent |-> refreshes.sent \cup {[version |-> refreshes.version + 1, scope |-> scope]}]

\* The transfer that waits for this refresh is over, and the form is free again.
Settled(r) ==
  IF transfer.pc = "refreshing" /\ transfer.version = r.version
    THEN transfer' = [transfer EXCEPT !.pc = "fetching"] /\ busy' = FALSE
    ELSE UNCHANGED <<transfer, busy>>

\* Wrong on purpose, for a mutant: the version is not compared.
RefreshAnsweredLate(r) ==
  /\ r \in refreshes.sent
  /\ refreshes' = [refreshes EXCEPT !.sent = @ \ {r}]
  /\ IF r.version <= refreshes.version
       THEN pages' = <<r.scope>> /\ cursor' \in BOOLEAN
       ELSE UNCHANGED <<pages, cursor>>
  /\ Settled(r)
  /\ UNCHANGED <<ledger, filter, booting, more, inspected>>

RefreshAnswered(r) ==
  /\ r \in refreshes.sent
  /\ refreshes' = [refreshes EXCEPT !.sent = @ \ {r}]
  /\ IF r.version = refreshes.version
       THEN pages' = <<r.scope>> /\ cursor' \in BOOLEAN
       ELSE UNCHANGED <<pages, cursor>>
  /\ Settled(r)
  /\ UNCHANGED <<ledger, filter, booting, more, inspected>>

\* An error of the newest version is reported; the transfer that waited gives up then.
RefreshFailed(r) ==
  /\ r \in refreshes.sent
  /\ refreshes' = [refreshes EXCEPT !.sent = @ \ {r}, !.failed = @ \/ r.version = refreshes.version]
  /\ IF r.version = refreshes.version /\ transfer.pc = "refreshing" /\ transfer.version = r.version
       THEN transfer' = NoTransfer /\ busy' = FALSE
       ELSE Settled(r)
  /\ UNCHANGED <<ledger, filter, booting, pages, cursor, more, inspected>>

-----------------------------------------------------------------------------
(* The list.                                                               *)

\* Another ledger: its effects empty the list and the inspection, not the cursor.
Activate(l, f) ==
  /\ ledger' = l /\ filter' = f
  /\ pages' = <<>>
  /\ inspected' = [inspected EXCEPT !.tx = None, !.entries = None]
  /\ Refresh([ledger |-> l, filter |-> f])
  /\ UNCHANGED cursor

SwitchLedger(l) ==
  /\ ~busy /\ ledger # None /\ l # ledger
  /\ Activate(l, NoFilter)
  /\ UNCHANGED <<busy, booting, more, transfer>>

\* Wrong on purpose, for a mutant: asks before there is a ledger.
EditFilterEarly(f) ==
  /\ f # filter
  /\ filter' = f
  /\ Refresh([ledger |-> ledger, filter |-> f])
  /\ UNCHANGED <<ledger, busy, booting, pages, cursor, more, transfer, inspected>>

\* The filter may be edited at any time.
EditFilter(f) ==
  /\ f # filter
  /\ filter' = f
  /\ IF ledger = None THEN UNCHANGED refreshes ELSE Refresh([ledger |-> ledger, filter |-> f])
  /\ UNCHANGED <<ledger, busy, booting, pages, cursor, more, transfer, inspected>>

\* The next page is asked for with the ledger and the filter of the moment, which the
\* cursor need not come from.
LoadMore ==
  /\ ~busy /\ cursor
  /\ busy' = TRUE
  /\ more' = [pc |-> "sent", scope |-> Current]
  /\ UNCHANGED <<ledger, filter, booting, pages, cursor, refreshes, transfer, inspected>>

MoreAnswered ==
  /\ more.pc = "sent"
  /\ more' = NoMore /\ busy' = FALSE
  /\ pages' = Append(pages, more.scope)
  /\ cursor' \in BOOLEAN
  /\ Len(pages) < MaxVersion
  /\ UNCHANGED <<ledger, filter, booting, refreshes, transfer, inspected>>

MoreFailed ==
  /\ more.pc = "sent"
  /\ more' = NoMore /\ busy' = FALSE
  /\ UNCHANGED <<ledger, filter, booting, pages, cursor, refreshes, transfer, inspected>>

-----------------------------------------------------------------------------
(* Inspection, transfers and new sandboxes.                                *)

InspectTransaction(tx) ==
  /\ inspected.version < MaxVersion
  /\ LET v == inspected.version + 1
     IN  inspected' = [tx |-> tx, entries |-> None, version |-> v,
                       sent |-> inspected.sent \cup {[version |-> v, tx |-> tx]}]

SelectTransaction(tx) ==
  /\ \E i \in DOMAIN pages : pages[i].ledger = LedgerOf[tx]
  /\ InspectTransaction(tx)
  /\ UNCHANGED <<ledger, filter, busy, booting, pages, cursor, refreshes, more, transfer>>

\* Wrong on purpose, for a mutant: the version is not compared.
EntriesAnsweredLate(r) ==
  /\ r \in inspected.sent
  /\ inspected' = [inspected EXCEPT !.sent = @ \ {r},
                                    !.entries = r.tx]
  /\ UNCHANGED <<ledger, filter, busy, booting, pages, cursor, refreshes, more, transfer>>

EntriesAnswered(r) ==
  /\ r \in inspected.sent
  /\ inspected' = [inspected EXCEPT !.sent = @ \ {r},
                                    !.entries = IF r.version = inspected.version THEN r.tx ELSE @]
  /\ UNCHANGED <<ledger, filter, busy, booting, pages, cursor, refreshes, more, transfer>>

EntriesFailed(r) ==
  /\ r \in inspected.sent
  /\ inspected' = [inspected EXCEPT !.sent = @ \ {r}]
  /\ UNCHANGED <<ledger, filter, busy, booting, pages, cursor, refreshes, more, transfer>>

SendTransfer(tx) ==
  /\ ~busy /\ transfer.pc = "idle" /\ ledger = LedgerOf[tx]
  /\ busy' = TRUE
  /\ transfer' = [pc |-> "posting", tx |-> tx, version |-> 0]
  /\ UNCHANGED <<ledger, filter, booting, pages, cursor, refreshes, more, inspected>>

Posted ==
  /\ transfer.pc = "posting"
  /\ Refresh(Current)
  /\ transfer' = [transfer EXCEPT !.pc = "refreshing", !.version = refreshes'.version]
  /\ UNCHANGED <<ledger, filter, busy, booting, pages, cursor, more, inspected>>

PostFailed ==
  /\ transfer.pc = "posting"
  /\ transfer' = NoTransfer /\ busy' = FALSE
  /\ UNCHANGED <<ledger, filter, booting, pages, cursor, refreshes, more, inspected>>

\* The posted transaction is fetched in the background, then inspected.
Fetched ==
  /\ transfer.pc = "fetching"
  /\ InspectTransaction(transfer.tx)
  /\ transfer' = NoTransfer
  /\ UNCHANGED <<ledger, filter, busy, booting, pages, cursor, refreshes, more>>

FetchFailed ==
  /\ transfer.pc = "fetching"
  /\ transfer' = NoTransfer
  /\ UNCHANGED <<ledger, filter, busy, booting, pages, cursor, refreshes, more, inspected>>

\* New sandbox: refreshes still in flight are of the old one.
NewSandbox ==
  /\ ~busy /\ refreshes.version < MaxVersion
  /\ busy' = TRUE /\ booting' = TRUE
  /\ refreshes' = [refreshes EXCEPT !.version = @ + 1]
  /\ UNCHANGED <<ledger, filter, pages, cursor, more, transfer, inspected>>

SandboxAnswered(l) ==
  /\ booting /\ l # ledger
  /\ busy' = FALSE /\ booting' = FALSE
  /\ Activate(l, filter)
  /\ UNCHANGED <<more, transfer>>

\* The tab keeps its list, and the refreshes it gave up stay given up; the inspection is
\* gone if the sandbox came and only its ledgers could not be listed.
SandboxFailed ==
  /\ booting
  /\ busy' = FALSE /\ booting' = FALSE
  /\ refreshes' = [refreshes EXCEPT !.failed = TRUE]
  /\ inspected' \in {inspected, [inspected EXCEPT !.tx = None, !.entries = None]}
  /\ UNCHANGED <<ledger, filter, pages, cursor, more, transfer>>

Next ==
  \/ \E r \in refreshes.sent : RefreshAnswered(r) \/ RefreshFailed(r)
  \/ \E l \in Ledgers : SwitchLedger(l) \/ SandboxAnswered(l)
  \/ \E f \in Filters : EditFilter(f)
  \/ LoadMore \/ MoreAnswered \/ MoreFailed
  \/ \E tx \in Txs : SelectTransaction(tx) \/ SendTransfer(tx)
  \/ \E r \in inspected.sent : EntriesAnswered(r) \/ EntriesFailed(r)
  \/ Posted \/ PostFailed \/ Fetched \/ FetchFailed
  \/ NewSandbox \/ SandboxFailed

Spec == Init /\ [][Next]_vars

-----------------------------------------------------------------------------
(* Properties.                                                             *)

TypeOK ==
  /\ ledger \in Ledgers \cup {None} /\ filter \in Filters /\ {busy, booting} \subseteq BOOLEAN
  /\ pages \in Seq(Scope) /\ cursor \in BOOLEAN
  /\ refreshes.version \in 0..MaxVersion /\ refreshes.failed \in BOOLEAN
  /\ refreshes.sent \subseteq [version : 1..MaxVersion, scope : Scope]
  /\ more.pc \in {"idle", "sent"}
  /\ transfer.pc \in {"idle", "posting", "refreshing", "fetching"}
  /\ inspected.tx \in Txs \cup {None} /\ inspected.entries \in Txs \cup {None}
  /\ inspected.version \in 0..MaxVersion
  /\ inspected.sent \subseteq [version : 1..MaxVersion, tx : Txs]

\* Whatever order answers arrive in, every page of the list is of the active ledger: no
\* late answer brings back a ledger or a sandbox the tab has left.  Once no refresh is in
\* flight and the last did not fail, the list starts with the page of the ledger and the
\* filter the tab shows.
ListIsCurrent ==
  /\ \A i \in DOMAIN pages : pages[i].ledger = ledger
  /\ ledger # None /\ refreshes.sent = {} /\ ~refreshes.failed /\ ~booting =>
       pages # <<>> /\ pages[1] = Current

\* "How LuxLedger recorded it" shows the entries of the transaction it names.
EntriesAreOfSelected ==
  inspected.tx # None /\ inspected.entries # None => inspected.entries = inspected.tx
=============================================================================
