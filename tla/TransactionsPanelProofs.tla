------------------------ MODULE TransactionsPanelProofs ------------------------
(***************************************************************************)
(* What the Transactions area shows is of the ledger and the transaction   *)
(* it names, for any number of ledgers, filters, transactions and requests *)
(* in flight, in whatever order their answers arrive.                      *)
(***************************************************************************)
EXTENDS TransactionsPanel, TLAPS

-----------------------------------------------------------------------------
(* The inductive invariant.                                                *)

Refreshes == [version : 0..MaxVersion, failed : BOOLEAN, sent : SUBSET [version : 1..MaxVersion, scope : Scope]]
Inspected == [tx : Txs \cup {None}, entries : Txs \cup {None}, version : 0..MaxVersion,
              sent : SUBSET [version : 1..MaxVersion, tx : Txs]]
More      == [pc : {"idle", "sent"}, scope : Scope \cup {None}]
Transfer  == [pc : {"idle", "posting", "refreshing", "fetching"}, tx : Txs \cup {None}, version : 0..MaxVersion]

Typed ==
  /\ ledger \in Ledgers \cup {None} /\ filter \in Filters /\ busy \in BOOLEAN /\ booting \in BOOLEAN
  /\ pages \in Seq(Scope) /\ cursor \in BOOLEAN
  /\ refreshes \in Refreshes
  /\ more \in More /\ (more.pc = "sent" => more.scope \in Scope)
  /\ transfer \in Transfer /\ (transfer.pc # "idle" => transfer.tx \in Txs)
  /\ inspected \in Inspected

\* busy has one owner: a bootstrap, a "Load more", or a transfer until its refresh has ended.
\* It is why nothing that changes the ledger overlaps a "Load more".
Transferring == transfer.pc \in {"posting", "refreshing"}

Owned ==
  /\ booting \/ more.pc = "sent" \/ Transferring => busy
  /\ booting => more.pc = "idle" /\ ~Transferring
  /\ more.pc = "sent" => ~Transferring

\* Before there is a ledger nothing has been asked for.
Blank ==
  ledger = None =>
    /\ refreshes.sent = {} /\ pages = <<>> /\ cursor = FALSE
    /\ more.pc = "idle" /\ transfer.pc = "idle"

\* A newer refresh is in flight, or was given up, for every change of the scope: the newest
\* asks for what the tab shows.
Newest ==
  \A r \in refreshes.sent : /\ r.version <= refreshes.version
                            /\ r.version = refreshes.version => r.scope = Current

Pending == \E r \in refreshes.sent : r.version = refreshes.version

\* ListIsCurrent; older refreshes may still be in flight, since they change nothing.
Listed ==
  /\ \A i \in DOMAIN pages : pages[i].ledger = ledger
  /\ more.pc = "sent" => more.scope.ledger = ledger
  /\ ledger # None /\ ~Pending /\ ~refreshes.failed /\ ~booting =>
       pages # <<>> /\ pages[1] = Current

\* EntriesAreOfSelected, and what the newest inspection asks for.
Inspecting ==
  /\ inspected.tx # None /\ inspected.entries # None => inspected.entries = inspected.tx
  /\ \A r \in inspected.sent :
       /\ r.version <= inspected.version
       /\ r.version = inspected.version => inspected.tx \in {r.tx, None}

PanelInv == Typed /\ Owned /\ Blank /\ Newest /\ Listed /\ Inspecting

-----------------------------------------------------------------------------
(* What the parts of an action do.                                         *)

LEMMA NothingSent == NoTransfer \in Transfer /\ NoTransfer.pc = "idle"
BY BoundIsNat DEF NoTransfer, Transfer

LEMMA ScopeIsCurrent ==
  ASSUME Typed, ledger # None
  PROVE  Current \in Scope /\ Current.ledger = ledger
BY DEF Typed, Current, Scope

\* A refresh of a scope is the newest there is.
LEMMA RefreshIsNewest ==
  ASSUME Typed, Newest, NEW scope \in Scope, Refresh(scope)
  PROVE  /\ refreshes' \in Refreshes /\ refreshes'.failed = FALSE
         /\ refreshes'.version \in 0..MaxVersion
         /\ \A r \in refreshes'.sent : r.version <= refreshes'.version
         /\ \A r \in refreshes'.sent : r.version = refreshes'.version => r.scope = scope
         /\ \E r \in refreshes'.sent : r.version = refreshes'.version
<1> DEFINE v == refreshes.version + 1
           n == [version |-> v, scope |-> scope]
<1>1. /\ refreshes \in Refreshes /\ refreshes.version \in 0..MaxVersion
      /\ \A r \in refreshes.sent : r.version \in Nat /\ r.version <= refreshes.version
  BY BoundIsNat DEF Typed, Refreshes, Newest
<1>2. v \in 1..MaxVersion /\ v \in 0..MaxVersion /\ v > refreshes.version
  BY <1>1, BoundIsNat DEF Refresh
<1>3. refreshes' = [version |-> v, failed |-> FALSE, sent |-> refreshes.sent \cup {n}]
  BY DEF Refresh
<1>4. n \in [version : 1..MaxVersion, scope : Scope] /\ n.version = v /\ n.scope = scope
  BY <1>2
<1>5. refreshes' \in Refreshes
  BY <1>1, <1>2, <1>3, <1>4 DEF Refreshes
<1>6. refreshes'.version = v /\ refreshes'.sent = refreshes.sent \cup {n} /\ refreshes'.failed = FALSE
  BY <1>3
<1>7. \A r \in refreshes.sent : r.version < v
  BY <1>1, <1>2
<1>8. v <= v /\ \A r \in refreshes.sent : r.version <= v /\ r.version # v
  BY <1>1, <1>2, <1>7
<1> HIDE DEF v, n
<1>9. \A r \in refreshes'.sent : r = n \/ r \in refreshes.sent
  BY <1>6
<1>10. n \in refreshes'.sent
  BY <1>6
<1>11. refreshes'.version \in 0..MaxVersion
  BY <1>2, <1>6
<1>12. \A r \in refreshes'.sent : r.version <= refreshes'.version
  BY <1>4, <1>6, <1>8, <1>9
<1>13. \A r \in refreshes'.sent : r.version = refreshes'.version => r.scope = scope
  BY <1>4, <1>6, <1>8, <1>9
<1> QED BY <1>4, <1>5, <1>6, <1>10, <1>11, <1>12, <1>13

\* An inspection of a transaction is the newest there is.
LEMMA InspectionIsNewest ==
  ASSUME Typed, Inspecting, NEW tx \in Txs, InspectTransaction(tx)
  PROVE  inspected' \in Inspected /\ Inspecting'
<1> DEFINE v == inspected.version + 1
           n == [version |-> v, tx |-> tx]
<1>1. /\ inspected \in Inspected /\ inspected.version \in 0..MaxVersion
      /\ \A r \in inspected.sent : r.version \in Nat /\ r.version <= inspected.version
  BY BoundIsNat DEF Typed, Inspected, Inspecting
<1>2. v \in 1..MaxVersion /\ v \in 0..MaxVersion /\ v > inspected.version
  BY <1>1, BoundIsNat DEF InspectTransaction
<1>3. inspected' = [tx |-> tx, entries |-> None, version |-> v, sent |-> inspected.sent \cup {n}]
  BY DEF InspectTransaction
<1>4. n \in [version : 1..MaxVersion, tx : Txs] /\ n.version = v /\ n.tx = tx
  BY <1>2
<1>5. inspected' \in Inspected
  BY <1>1, <1>2, <1>3, <1>4 DEF Inspected
<1>6. inspected'.version = v /\ inspected'.sent = inspected.sent \cup {n} /\ inspected'.tx = tx /\ inspected'.entries = None
  BY <1>3
<1>7. \A r \in inspected.sent : r.version < v
  BY <1>1, <1>2
<1>8. v <= v /\ \A r \in inspected.sent : r.version <= v /\ r.version # v
  BY <1>1, <1>2, <1>7
<1> HIDE DEF v, n
<1>9. \A r \in inspected'.sent : r = n \/ r \in inspected.sent
  BY <1>6
<1>10. \A r \in inspected'.sent : r.version <= inspected'.version
  BY <1>4, <1>6, <1>8, <1>9
<1>11. \A r \in inspected'.sent : r.version = inspected'.version => inspected'.tx \in {r.tx, None}
  BY <1>4, <1>6, <1>8, <1>9
<1> QED BY <1>5, <1>6, <1>10, <1>11 DEF Inspecting

LEMMA InspectionEmptied ==
  ASSUME Typed, Inspecting, inspected' = [inspected EXCEPT !.tx = None, !.entries = None]
  PROVE  inspected' \in Inspected /\ Inspecting'
<1>1. inspected \in Inspected
  BY DEF Typed
<1>2. /\ inspected'.tx = None /\ inspected'.entries = None
      /\ inspected'.version = inspected.version /\ inspected'.sent = inspected.sent
  BY <1>1 DEF Inspected
<1>3. inspected' \in Inspected
  BY <1>1 DEF Inspected
<1> QED BY <1>2, <1>3 DEF Inspecting

-----------------------------------------------------------------------------
(* Each action keeps the invariant.                                        *)

LEMMA RefreshEnds ==
  ASSUME PanelInv, NEW r \in refreshes.sent, RefreshAnswered(r) \/ RefreshFailed(r)
  PROVE  PanelInv'
<1>1. /\ Typed /\ Owned /\ Blank /\ Newest /\ Listed /\ Inspecting
      /\ refreshes \in Refreshes /\ r \in [version : 1..MaxVersion, scope : Scope]
      /\ r.scope \in Scope /\ transfer \in Transfer
  BY DEF PanelInv, Typed, Refreshes
<1>2. ledger # None
  BY <1>1 DEF Blank
<1>3. UNCHANGED <<ledger, filter, booting, more, inspected>>
  BY DEF RefreshAnswered, RefreshFailed
<1>4. /\ refreshes' \in Refreshes
      /\ refreshes'.version = refreshes.version /\ refreshes'.sent = refreshes.sent \ {r}
      /\ refreshes'.failed = (refreshes.failed \/ (RefreshFailed(r) /\ r.version = refreshes.version))
         \/ refreshes'.failed = refreshes.failed
  <2>1. CASE RefreshAnswered(r)
    BY <1>1, <2>1 DEF RefreshAnswered, Refreshes
  <2>2. CASE RefreshFailed(r)
    BY <1>1, <2>2 DEF RefreshFailed, Refreshes
  <2> QED BY <2>1, <2>2
<1>5. \/ /\ Transferring /\ ~booting /\ more.pc = "idle" /\ busy' = FALSE
         /\ \/ transfer' = NoTransfer
            \/ transfer' = [transfer EXCEPT !.pc = "fetching"]
      \/ UNCHANGED <<transfer, busy>>
  <2>1. Settled(r) \/ (transfer.pc = "refreshing" /\ transfer' = NoTransfer /\ busy' = FALSE)
    BY DEF RefreshAnswered, RefreshFailed
  <2>2. transfer.pc = "refreshing" => ~booting /\ more.pc = "idle"
    BY <1>1 DEF Owned, Transferring, Typed, More
  <2> QED BY <2>1, <2>2 DEF Settled, Transferring
<1>6. transfer' \in Transfer /\ (transfer'.pc # "idle" => transfer'.tx \in Txs) /\ busy' \in BOOLEAN
  <2>1. CASE UNCHANGED <<transfer, busy>>
    BY <1>1, <2>1 DEF Typed
  <2>2. CASE busy' = FALSE /\ transfer' = NoTransfer
    BY <2>2, NothingSent
  <2>3. CASE Transferring /\ busy' = FALSE /\ transfer' = [transfer EXCEPT !.pc = "fetching"]
    BY <1>1, <2>3 DEF Transfer, Transferring, Typed
  <2> QED BY <1>5, <2>1, <2>2, <2>3
<1>7. Owned'
  <2>1. CASE UNCHANGED <<transfer, busy>>
    BY <1>1, <1>3, <2>1 DEF Owned, Transferring
  <2>2. CASE /\ ~booting /\ more.pc = "idle" /\ busy' = FALSE
             /\ transfer' = NoTransfer \/ transfer' = [transfer EXCEPT !.pc = "fetching"]
    <3>1. transfer'.pc \in {"idle", "fetching"}
      BY <1>1, <2>2 DEF NoTransfer, Transfer
    <3> QED BY <1>3, <2>2, <3>1 DEF Owned, Transferring
  <2> QED BY <1>5, <2>1, <2>2
<1>8. Blank'
  BY <1>2, <1>3 DEF Blank
<1>9. Newest'
  BY <1>1, <1>3, <1>4 DEF Newest, Current
<1>10. \/ UNCHANGED <<pages, cursor>>
       \/ /\ r.version = refreshes.version /\ r.scope = Current
          /\ pages' = <<r.scope>> /\ cursor' \in BOOLEAN
  BY <1>1 DEF RefreshAnswered, RefreshFailed, Newest
<1>11. pages' \in Seq(Scope) /\ cursor' \in BOOLEAN
  <2>1. pages \in Seq(Scope) /\ cursor \in BOOLEAN
    BY <1>1 DEF Typed
  <2>2. <<r.scope>> \in Seq(Scope)
    BY <1>1
  <2> QED BY <1>10, <2>1, <2>2
<1>12. Listed'
  <2>1. \A i \in DOMAIN pages' : pages'[i].ledger = ledger
    <3>1. CASE UNCHANGED pages
      BY <1>1, <3>1 DEF Listed
    <3>2. CASE r.scope = Current /\ pages' = <<r.scope>>
      BY <1>1, <1>2, <3>2, ScopeIsCurrent
    <3> QED BY <1>10, <3>1, <3>2
  <2>2. ASSUME ~Pending', ~refreshes'.failed, ~booting
        PROVE  pages' # <<>> /\ pages'[1] = Current
    <3>1. CASE r.version = refreshes.version /\ RefreshAnswered(r)
      <4>1. pages' = <<Current>>
        BY <1>1, <3>1 DEF RefreshAnswered, Newest
      <4> QED BY <4>1
    <3>2. CASE r.version = refreshes.version /\ RefreshFailed(r)
      <4>1. refreshes'.failed
        BY <1>1, <3>2 DEF RefreshFailed, Refreshes
      <4> QED BY <2>2, <4>1
    <3>3. CASE r.version # refreshes.version
      <4>1. ~Pending /\ UNCHANGED pages
        BY <1>4, <1>10, <2>2, <3>3 DEF Pending
      <4>2. ~refreshes.failed
        BY <1>1, <2>2, <3>3 DEF RefreshAnswered, RefreshFailed, Refreshes
      <4> QED BY <1>1, <1>2, <2>2, <4>1, <4>2 DEF Listed
    <3> QED BY <3>1, <3>2, <3>3
  <2>3. Current' = Current
    BY <1>3 DEF Current
  <2>4. more'.pc = "sent" => more'.scope.ledger = ledger
    BY <1>1, <1>3 DEF Listed
  <2> QED BY <1>3, <2>1, <2>2, <2>3, <2>4 DEF Listed
<1>13. Typed' /\ Inspecting'
  BY <1>1, <1>3, <1>4, <1>6, <1>11 DEF Typed, Inspecting
<1> QED BY <1>7, <1>8, <1>9, <1>12, <1>13 DEF PanelInv

\* Another ledger: nothing of the old one is left, and its own first page is on its way.
LEMMA ActivationKeeps ==
  ASSUME PanelInv, NEW l \in Ledgers, SwitchLedger(l) \/ SandboxAnswered(l)
  PROVE  PanelInv'
<1>1. Typed /\ Owned /\ Blank /\ Newest /\ Listed /\ Inspecting
  BY DEF PanelInv
<1>2. PICK f \in Filters : Activate(l, f)
  BY <1>1, FilterType DEF SwitchLedger, SandboxAnswered, Typed
<1>3. /\ [ledger |-> l, filter |-> f] \in Scope /\ Current' = [ledger |-> l, filter |-> f]
      /\ ledger' = l /\ filter' = f /\ pages' = <<>> /\ UNCHANGED <<cursor, more, transfer>>
      /\ l # None
  BY <1>2, NoneIsNothing DEF Activate, SwitchLedger, SandboxAnswered, Scope, Current
<1>4. /\ refreshes' \in Refreshes
      /\ \A r \in refreshes'.sent : /\ r.version <= refreshes'.version
                                    /\ r.version = refreshes'.version => r.scope = Current'
      /\ \E r \in refreshes'.sent : r.version = refreshes'.version
  <2>1. Refresh([ledger |-> l, filter |-> f])
    BY <1>2 DEF Activate
  <2> QED BY <1>1, <1>3, <2>1, RefreshIsNewest
<1>5. inspected' \in Inspected /\ Inspecting'
  BY <1>1, <1>2, InspectionEmptied DEF Activate
<1>6. more.pc = "idle" /\ ~Transferring
  BY <1>1 DEF SwitchLedger, SandboxAnswered, Owned, Typed, More
<1>7. busy' = FALSE /\ booting' = FALSE
  BY <1>1 DEF SwitchLedger, SandboxAnswered, Owned, Typed
<1>8. Owned'
  BY <1>3, <1>6, <1>7 DEF Owned, Transferring
<1>9. Newest' /\ Pending'
  BY <1>4 DEF Newest, Pending
<1>10. Listed'
  BY <1>3, <1>6, <1>9 DEF Listed
<1>11. Typed'
  <2>1. pages' \in Seq(Scope)
    BY <1>3
  <2> QED BY <1>1, <1>3, <1>4, <1>5, <1>7, <2>1 DEF Typed
<1>12. Blank'
  BY <1>3 DEF Blank
<1> QED BY <1>5, <1>8, <1>9, <1>10, <1>11, <1>12 DEF PanelInv

LEMMA EditFilterKeeps ==
  ASSUME PanelInv, NEW f \in Filters, EditFilter(f)
  PROVE  PanelInv'
<1>1. Typed /\ Owned /\ Blank /\ Newest /\ Listed /\ Inspecting
  BY DEF PanelInv
<1>2. filter' = f /\ UNCHANGED <<ledger, busy, booting, pages, cursor, more, transfer, inspected>>
  BY DEF EditFilter
<1>3. Owned' /\ Inspecting'
  BY <1>1, <1>2 DEF Owned, Transferring, Inspecting
<1>4. CASE ledger = None
  <2>1. UNCHANGED refreshes
    BY <1>4 DEF EditFilter
  <2>2. Typed' /\ Blank'
    BY <1>1, <1>2, <2>1 DEF Typed, Blank
  <2>3. Newest' /\ Listed'
    BY <1>1, <1>2, <1>4, <2>1 DEF Newest, Listed, Blank
  <2> QED BY <1>3, <2>2, <2>3 DEF PanelInv
<1>5. CASE ledger # None
  <2>1. Refresh([ledger |-> ledger, filter |-> f]) /\ [ledger |-> ledger, filter |-> f] \in Scope
        /\ Current' = [ledger |-> ledger, filter |-> f]
    BY <1>1, <1>2, <1>5 DEF EditFilter, Scope, Current, Typed
  <2>2. /\ refreshes' \in Refreshes
        /\ \A r \in refreshes'.sent : /\ r.version <= refreshes'.version
                                      /\ r.version = refreshes'.version => r.scope = Current'
        /\ \E r \in refreshes'.sent : r.version = refreshes'.version
    BY <1>1, <2>1, RefreshIsNewest
  <2>3. Newest' /\ Pending'
    BY <2>2 DEF Newest, Pending
  <2>4. Listed'
    BY <1>1, <1>2, <2>3 DEF Listed
  <2>5. Typed' /\ Blank'
    BY <1>1, <1>2, <1>5, <2>2 DEF Typed, Blank
  <2> QED BY <1>3, <2>3, <2>4, <2>5 DEF PanelInv
<1> QED BY <1>4, <1>5

\* The next page is of the ledger it was asked for, which is still the active one.
LEMMA PagingKeeps ==
  ASSUME PanelInv, LoadMore \/ MoreAnswered \/ MoreFailed
  PROVE  PanelInv'
<1>1. Typed /\ Owned /\ Blank /\ Newest /\ Listed /\ Inspecting
  BY DEF PanelInv
<1>2. UNCHANGED <<ledger, filter, booting, refreshes, transfer, inspected>>
  BY DEF LoadMore, MoreAnswered, MoreFailed
<1>3. Newest' /\ Inspecting' /\ Current' = Current /\ Pending' = Pending
  BY <1>1, <1>2 DEF Newest, Inspecting, Current, Pending
<1>4. ledger # None
  BY <1>1 DEF Blank, LoadMore, MoreAnswered, MoreFailed
<1>5. CASE LoadMore
  <2>1. busy = FALSE /\ busy' = TRUE /\ more' = [pc |-> "sent", scope |-> Current] /\ UNCHANGED <<pages, cursor>>
    BY <1>1, <1>5 DEF LoadMore, Typed
  <2>2. Typed'
    BY <1>1, <1>2, <1>4, <2>1, ScopeIsCurrent DEF Typed, More
  <2>3. Owned' /\ Blank'
    BY <1>1, <1>2, <1>4, <2>1 DEF Owned, Transferring, Blank
  <2>4. Listed'
    BY <1>1, <1>2, <1>3, <1>4, <2>1, ScopeIsCurrent DEF Listed
  <2> QED BY <1>3, <2>2, <2>3, <2>4 DEF PanelInv
<1>6. CASE MoreAnswered \/ MoreFailed
  <2>1. more.pc = "sent" /\ more' = NoMore /\ busy' = FALSE /\ more.scope \in Scope /\ more.scope.ledger = ledger
    BY <1>1, <1>6 DEF MoreAnswered, MoreFailed, Typed, Listed
  <2>2. cursor' \in BOOLEAN /\ pages \in Seq(Scope) /\ (UNCHANGED pages \/ pages' = Append(pages, more.scope))
    BY <1>1, <1>6 DEF MoreAnswered, MoreFailed, Typed
  <2>3. /\ pages' \in Seq(Scope)
        /\ \A i \in DOMAIN pages' : pages'[i] = more.scope \/ (i \in DOMAIN pages /\ pages'[i] = pages[i])
        /\ pages # <<>> => pages' # <<>> /\ pages'[1] = pages[1]
    <3>1. CASE UNCHANGED pages
      BY <2>2, <3>1
    <3>2. CASE pages' = Append(pages, more.scope)
      BY <2>1, <2>2, <3>2
    <3> QED BY <2>2, <3>1, <3>2
  <2>4. Typed'
    BY <1>1, <1>2, <2>1, <2>2, <2>3 DEF Typed, More, NoMore
  <2>5. Owned' /\ Blank'
    BY <1>1, <1>2, <1>4, <2>1 DEF Owned, Transferring, Blank, NoMore
  <2>6. Listed'
    <3>1. \A i \in DOMAIN pages' : pages'[i].ledger = ledger
      BY <1>1, <2>1, <2>3 DEF Listed
    <3>2. ~Pending /\ ~refreshes.failed /\ ~booting => pages' # <<>> /\ pages'[1] = Current
      BY <1>1, <1>4, <2>3 DEF Listed
    <3> QED BY <1>2, <1>3, <2>1, <3>1, <3>2 DEF Listed, NoMore
  <2> QED BY <1>3, <2>4, <2>5, <2>6 DEF PanelInv
<1> QED BY <1>5, <1>6

\* Steps that leave the list, its requests and busy alone.
LEMMA InspectionKeeps ==
  ASSUME PanelInv,
         \/ \E tx \in Txs : SelectTransaction(tx)
         \/ \E r \in inspected.sent : EntriesAnswered(r) \/ EntriesFailed(r)
         \/ Fetched \/ FetchFailed
  PROVE  PanelInv'
<1>1. Typed /\ Owned /\ Blank /\ Newest /\ Listed /\ Inspecting
  BY DEF PanelInv
<1>2. UNCHANGED <<ledger, filter, busy, booting, pages, cursor, refreshes, more>>
  BY DEF SelectTransaction, EntriesAnswered, EntriesFailed, Fetched, FetchFailed
<1>3. /\ transfer' \in Transfer /\ (transfer'.pc # "idle" => transfer'.tx \in Txs)
      /\ transfer' = transfer \/ (transfer.pc = "fetching" /\ transfer' = NoTransfer)
  <2>1. transfer' = transfer \/ (transfer.pc = "fetching" /\ transfer' = NoTransfer)
    BY DEF SelectTransaction, EntriesAnswered, EntriesFailed, Fetched, FetchFailed
  <2> QED BY <1>1, <2>1, NothingSent DEF Typed
<1>4. inspected' \in Inspected /\ Inspecting'
  <2>1. ASSUME NEW tx \in Txs, SelectTransaction(tx) PROVE inspected' \in Inspected /\ Inspecting'
    BY <1>1, <2>1, InspectionIsNewest DEF SelectTransaction
  <2>2. CASE Fetched
    BY <1>1, <2>2, InspectionIsNewest DEF Fetched, Typed
  <2>3. CASE FetchFailed
    BY <1>1, <2>3 DEF FetchFailed, Typed, Inspecting
  <2>4. ASSUME NEW r \in inspected.sent, EntriesAnswered(r) \/ EntriesFailed(r)
        PROVE  inspected' \in Inspected /\ Inspecting'
    <3>1. inspected \in Inspected /\ r \in [version : 1..MaxVersion, tx : Txs] /\ r.tx \in Txs
      BY <1>1 DEF Typed, Inspected
    <3>2. /\ inspected'.sent = inspected.sent \ {r} /\ inspected'.version = inspected.version
          /\ inspected'.tx = inspected.tx
          /\ \/ inspected'.entries = inspected.entries
             \/ r.version = inspected.version /\ inspected'.entries = r.tx
      BY <2>4, <3>1 DEF EntriesAnswered, EntriesFailed, Inspected
    <3>3. inspected' \in Inspected
      BY <2>4, <3>1 DEF EntriesAnswered, EntriesFailed, Inspected
    <3> QED BY <1>1, <3>2, <3>3 DEF Inspecting
  <2> QED BY <2>1, <2>2, <2>3, <2>4
<1>5. Owned' /\ Blank'
  BY <1>1, <1>2, <1>3 DEF Owned, Transferring, Blank, NoTransfer
<1>6. Newest' /\ Listed'
  BY <1>1, <1>2 DEF Newest, Listed, Current, Pending
<1>7. Typed'
  BY <1>1, <1>2, <1>3, <1>4 DEF Typed
<1> QED BY <1>4, <1>5, <1>6, <1>7 DEF PanelInv

LEMMA TransferKeeps ==
  ASSUME PanelInv, (\E tx \in Txs : SendTransfer(tx)) \/ Posted \/ PostFailed
  PROVE  PanelInv'
<1>1. /\ Typed /\ Owned /\ Blank /\ Newest /\ Listed /\ Inspecting
      /\ transfer \in Transfer /\ refreshes \in Refreshes
  BY DEF PanelInv, Typed
<1>2. UNCHANGED <<ledger, filter, booting, pages, cursor, more, inspected>> /\ Inspecting'
  BY <1>1 DEF SendTransfer, Posted, PostFailed, Inspecting
<1>3. ledger # None
  BY <1>1, LedgerOfType, NoneIsNothing DEF Blank, SendTransfer, Posted, PostFailed
<1>4. ASSUME NEW tx \in Txs, SendTransfer(tx) PROVE PanelInv'
  <2>1. /\ busy = FALSE /\ busy' = TRUE /\ UNCHANGED refreshes
        /\ transfer' = [pc |-> "posting", tx |-> tx, version |-> 0]
    BY <1>1, <1>4 DEF SendTransfer, Typed
  <2>2. Typed'
    BY <1>1, <1>2, <2>1, BoundIsNat DEF Typed, Transfer
  <2>3. Owned' /\ Blank'
    BY <1>1, <1>2, <1>3, <2>1 DEF Owned, Transferring, Blank
  <2>4. Newest' /\ Listed'
    BY <1>1, <1>2, <2>1 DEF Newest, Listed, Current, Pending
  <2> QED BY <1>2, <2>2, <2>3, <2>4 DEF PanelInv
<1>5. CASE Posted
  <2>1. /\ transfer.pc = "posting" /\ busy' = busy /\ Refresh(Current) /\ Current' = Current
        /\ transfer' = [transfer EXCEPT !.pc = "refreshing", !.version = refreshes'.version]
    BY <1>2, <1>5 DEF Posted, Current
  <2>2. /\ refreshes' \in Refreshes /\ refreshes'.version \in 0..MaxVersion
        /\ \A r \in refreshes'.sent : r.version <= refreshes'.version
        /\ \A r \in refreshes'.sent : r.version = refreshes'.version => r.scope = Current
        /\ \E r \in refreshes'.sent : r.version = refreshes'.version
    <3>1. Current \in Scope
      BY <1>1, <1>3, ScopeIsCurrent
    <3> QED BY <1>1, <2>1, <3>1, RefreshIsNewest
  <2>3. transfer' \in Transfer /\ transfer'.pc = "refreshing" /\ transfer'.tx = transfer.tx /\ transfer.tx \in Txs
    BY <1>1, <2>1, <2>2 DEF Transfer, Typed
  <2>4. Typed'
    BY <1>1, <1>2, <2>1, <2>2, <2>3 DEF Typed
  <2>5. Owned' /\ Blank'
    BY <1>1, <1>2, <1>3, <2>1, <2>3 DEF Owned, Transferring, Blank
  <2>6. Newest' /\ Pending'
    BY <2>1, <2>2 DEF Newest, Pending
  <2>7. Listed'
    BY <1>1, <1>2, <2>1, <2>6 DEF Listed
  <2> QED BY <1>2, <2>4, <2>5, <2>6, <2>7 DEF PanelInv
<1>6. CASE PostFailed
  <2>1. transfer.pc = "posting" /\ transfer' = NoTransfer /\ busy' = FALSE /\ UNCHANGED refreshes
    BY <1>6 DEF PostFailed
  <2>2. Typed'
    BY <1>1, <1>2, <2>1, NothingSent DEF Typed
  <2>3. Owned' /\ Blank'
    BY <1>1, <1>2, <1>3, <2>1 DEF Owned, Transferring, Blank, NoTransfer, Typed, More
  <2>4. Newest' /\ Listed'
    BY <1>1, <1>2, <2>1 DEF Newest, Listed, Current, Pending
  <2> QED BY <1>2, <2>2, <2>3, <2>4 DEF PanelInv
<1> QED BY <1>4, <1>5, <1>6

\* A new sandbox gives up the refreshes of the old one, for good.
LEMMA SandboxKeeps ==
  ASSUME PanelInv, NewSandbox \/ SandboxFailed
  PROVE  PanelInv'
<1>1. /\ Typed /\ Owned /\ Blank /\ Newest /\ Listed /\ Inspecting
      /\ refreshes \in Refreshes /\ refreshes.version \in 0..MaxVersion
      /\ \A r \in refreshes.sent : r.version \in Nat
  BY BoundIsNat DEF PanelInv, Typed, Refreshes
<1>2. UNCHANGED <<ledger, filter, pages, cursor, more, transfer>>
  BY DEF NewSandbox, SandboxFailed
<1>3. CASE NewSandbox
  <2>1. /\ busy = FALSE /\ busy' = TRUE /\ booting' = TRUE /\ UNCHANGED inspected
        /\ refreshes' = [refreshes EXCEPT !.version = @ + 1] /\ refreshes.version + 1 \in 0..MaxVersion
    BY <1>1, <1>3, BoundIsNat DEF NewSandbox, Typed
  <2>2. refreshes' \in Refreshes /\ refreshes'.version = refreshes.version + 1 /\ refreshes'.sent = refreshes.sent
    BY <1>1, <2>1 DEF Refreshes
  <2>3. Typed'
    BY <1>1, <1>2, <2>1, <2>2 DEF Typed
  <2>4. Owned' /\ Blank'
    BY <1>1, <1>2, <2>1, <2>2 DEF Owned, Transferring, Blank, Typed, More
  <2>5. Newest'
    BY <1>1, <2>2 DEF Newest
  <2>6. Listed' /\ Inspecting'
    BY <1>1, <1>2, <2>1 DEF Listed, Inspecting
  <2> QED BY <2>3, <2>4, <2>5, <2>6 DEF PanelInv
<1>4. CASE SandboxFailed
  <2>1. busy' = FALSE /\ booting' = FALSE /\ booting /\ more.pc = "idle" /\ ~Transferring
    BY <1>1, <1>4 DEF SandboxFailed, Owned
  <2>2. /\ refreshes' \in Refreshes /\ refreshes'.version = refreshes.version /\ refreshes'.sent = refreshes.sent
        /\ refreshes'.failed = TRUE
    BY <1>1, <1>4 DEF SandboxFailed, Refreshes
  <2>3. inspected' \in Inspected /\ Inspecting'
    <3>1. CASE inspected' = inspected
      BY <1>1, <3>1 DEF Typed, Inspecting
    <3>2. CASE inspected' = [inspected EXCEPT !.tx = None, !.entries = None]
      BY <1>1, <3>2, InspectionEmptied
    <3> QED BY <1>4, <3>1, <3>2 DEF SandboxFailed
  <2>4. Typed'
    BY <1>1, <1>2, <2>1, <2>2, <2>3 DEF Typed
  <2>5. Owned' /\ Blank'
    BY <1>1, <1>2, <2>1, <2>2 DEF Owned, Transferring, Blank
  <2>6. Newest' /\ Listed'
    BY <1>1, <1>2, <2>2 DEF Newest, Listed, Current
  <2> QED BY <2>3, <2>4, <2>5, <2>6 DEF PanelInv
<1> QED BY <1>3, <1>4

-----------------------------------------------------------------------------
(* The theorems.                                                           *)

LEMMA InitIsInv == Init => PanelInv
<1> SUFFICES ASSUME Init PROVE PanelInv
  OBVIOUS
<1>1. refreshes \in Refreshes /\ inspected \in Inspected /\ more \in More /\ transfer \in Transfer
  BY BoundIsNat DEF Init, Refreshes, Inspected, More, Transfer, NoMore, NoTransfer
<1>2. Typed
  <2>1. pages \in Seq(Scope)
    BY DEF Init
  <2>2. more.pc = "idle" /\ transfer.pc = "idle"
    BY DEF Init, NoMore, NoTransfer
  <2> QED BY <1>1, <2>1, <2>2, FilterType DEF Init, Typed
<1>3. Owned /\ Blank /\ Newest /\ Listed /\ Inspecting
  BY DEF Init, Owned, Transferring, Blank, Newest, Listed, Inspecting, NoMore, NoTransfer
<1> QED BY <1>2, <1>3 DEF PanelInv

LEMMA InvIsInductive == PanelInv /\ [Next]_vars => PanelInv'
<1> SUFFICES ASSUME PanelInv, [Next]_vars PROVE PanelInv'
  OBVIOUS
<1>1. CASE UNCHANGED vars
  BY <1>1 DEF vars, PanelInv, Typed, Owned, Transferring, Blank, Newest, Listed, Inspecting, Current, Pending
<1> QED BY <1>1, RefreshEnds, ActivationKeeps, EditFilterKeeps, PagingKeeps, InspectionKeeps, TransferKeeps,
           SandboxKeeps DEF Next

\* Type correctness, for every instance.
THEOREM PanelTypes == Spec => []TypeOK
<1>1. PanelInv => TypeOK
  BY DEF PanelInv, Typed, TypeOK, Refreshes, Inspected, More, Transfer
<1> QED BY <1>1, InitIsInv, InvIsInductive, PTL DEF Spec

\* Every page of the list is of the active ledger whatever order answers arrive in, and once the
\* refreshes are in the list starts with the page of the ledger and the filter the tab shows.
THEOREM ListStaysCurrent == Spec => []ListIsCurrent
<1>1. PanelInv => ListIsCurrent
  BY DEF PanelInv, Listed, Pending, ListIsCurrent
<1> QED BY <1>1, InitIsInv, InvIsInductive, PTL DEF Spec

\* The entries shown are those of the transaction that is named.
THEOREM EntriesStayOfSelected == Spec => []EntriesAreOfSelected
<1>1. PanelInv => EntriesAreOfSelected
  BY DEF PanelInv, Inspecting, EntriesAreOfSelected
<1> QED BY <1>1, InitIsInv, InvIsInductive, PTL DEF Spec

=============================================================================
