---------------------------- MODULE CreditGrants ----------------------------
(***************************************************************************)
(* The credit-grant ledger that PostgreSQL keeps for one tenant: the       *)
(* triggers, constraints and unique indexes of drizzle/*.sql in the form   *)
(* the last migration leaves them.  A grant is a lot of credit on a        *)
(* grant-enabled account; every entry on such an account is attributed to  *)
(* grants (credit_grant_entries), a hold reserves parts of grants          *)
(* (credit_grant_hold_allocations), and the latest row of                  *)
(* credit_grant_capacity_versions is each grant's running account.         *)
(*                                                                         *)
(* One action is one database transaction that commits: the rows an        *)
(* operation writes, the row triggers they fire and the deferred           *)
(* constraint triggers evaluated at COMMIT.  A trigger that raises rolls   *)
(* everything back, so its condition is a guard; a deferred one is a       *)
(* guard on the next state.  FOR UPDATE on the grant rows serialises the   *)
(* transactions that touch a grant, and that is also why they need not     *)
(* commit in the order in which they began, which is the order of their    *)
(* transaction_timestamp().  Which rows an operation writes is decided by  *)
(* the external adapter: here, any rows the triggers accept.               *)
(***************************************************************************)
EXTENDS Integers, Tally

CONSTANTS
  Accounts,   \* the accounts with grant_enabled
  Grants,     \* ids of credit_grants
  AccountOf,  \* the account_id of a grant
  AmountOf,   \* the amount a grant is issued with
  Holds,      \* ids of holds
  Txns,       \* ids of transactions; each posts at most one entry per account
  None,       \* SQL's NULL
  MaxAmount,  \* bound on the minor units of one row
  MaxTime     \* bound on the times that are told apart

ASSUME SetsAreFinite == IsFiniteSet(Accounts) /\ IsFiniteSet(Grants) /\ IsFiniteSet(Holds) /\ IsFiniteSet(Txns)
ASSUME AccountOfType == AccountOf \in [Grants -> Accounts]
ASSUME AmountOfType  == AmountOf \in [Grants -> 1..MaxAmount]
ASSUME NoneIsNoId    == None \notin Txns \cup Holds
ASSUME BoundsAreNat  == MaxAmount \in Nat /\ MaxTime \in Nat

VARIABLES
  began,      \* transaction_timestamp() of the database transaction committed last
  expires_at, \* credit_grants.expires_at
  issued_by,  \* credit_grants.transaction_id; None before the grant exists
  posting,    \* transactions, their entries on the accounts and the rows attributing them
  hold,       \* holds with their entries and allocations
  capacity,   \* the latest capacity version of each grant
  balance     \* accounts.balance_minor, credits counted positive

vars == <<began, expires_at, issued_by, posting, hold, capacity, balance>>

Time     == 0..MaxTime
NoExpiry == MaxTime + 1                      \* expires_at IS NULL: never due
Parts    == [Grants -> 0..MaxAmount]         \* an amount per grant

Kinds   == {"ISSUANCE", "REVERSAL", "CONSUMPTION", "COMPENSATION", "EXPIRATION", "REFUND"}
Credits == {"ISSUANCE", "COMPENSATION"}      \* the kinds of rows that attribute credits

PostingRow  == [kind : Kinds \cup {"NONE"}, hold : Holds \cup {None}, related : Txns \cup {None},
                entry : [Accounts -> Nat], part : [Grants -> Nat]]
HoldRow     == [state : {"NONE", "HELD", "APPLIED", "VOIDED"}, original : Nat, remaining : Nat,
                legs : [Accounts -> Nat], alloc : [Grants -> Nat]]
CapacityRow == [granted : Nat, reversed : Nat, consumed : Nat, compensated : Nat,
                expired : Nat, remaining : Nat, reserved : Nat]

Unposted == [kind |-> "NONE", hold |-> None, related |-> None,
             entry |-> [a \in Accounts |-> 0], part |-> [g \in Grants |-> 0]]
NoHold   == [state |-> "NONE", original |-> 0, remaining |-> 0,
             legs |-> [a \in Accounts |-> 0], alloc |-> [g \in Grants |-> 0]]
NoCapacity == [granted |-> 0, reversed |-> 0, consumed |-> 0, compensated |-> 0,
               expired |-> 0, remaining |-> 0, reserved |-> 0]

Init ==
  /\ began = 0
  /\ expires_at = [g \in Grants |-> NoExpiry]
  /\ issued_by = [g \in Grants |-> None]
  /\ posting = [t \in Txns |-> Unposted]
  /\ hold = [h \in Holds |-> NoHold]
  /\ capacity = [g \in Grants |-> NoCapacity]
  /\ balance = [a \in Accounts |-> 0]

-----------------------------------------------------------------------------
(* What the triggers compute.                                              *)

GrantsOf(a) == {g \in Grants : AccountOf[g] = a}

\* The amount of a grant-enabled account's entry that part attributes.
Attributed(part, a) == Tally([g \in GrantsOf(a) |-> part[g]])

\* Every entry on a grant-enabled account is attributed completely, so the rows
\* of a transaction give the entries they attribute.
Entries(part) == [a \in Accounts |-> Attributed(part, a)]

\* The rows of one grant.
Only(g, n) == [k \in Grants |-> IF k = g THEN n ELSE 0]

\* Rows that have to equal the entry they attribute: one on an account.
OneRowPerEntry(part) ==
  \A g, k \in Grants : part[g] > 0 /\ part[k] > 0 /\ AccountOf[g] = AccountOf[k] => g = k

Issued(g)     == issued_by[g] # None
Due(g, time)  == expires_at[g] <= time
Unreserved(g) == capacity[g].remaining - capacity[g].reserved

\* What grant g has paid through hold h so far.
HoldConsumed(h, g) ==
  Tally([t \in Txns |-> IF posting[t].kind = "CONSUMPTION" /\ posting[t].hold = h
                          THEN posting[t].part[g] ELSE 0])

\* What hold h has posted on account a so far.
Committed(h, a) ==
  Tally([t \in Txns |-> IF posting[t].hold = h THEN posting[t].entry[a] ELSE 0])

\* Wrong on purpose, for a mutant: a capture keeps its reservation.
AppendedKeepingReservation(c, kind, n, through_hold) ==
  LET of(K) == IF kind \in K THEN n ELSE 0
  IN  [granted     |-> c.granted + of({"ISSUANCE"}),
       reversed    |-> c.reversed + of({"REVERSAL", "REFUND"}),
       consumed    |-> c.consumed + of({"CONSUMPTION"}),
       compensated |-> c.compensated + of({"COMPENSATION"}),
       expired     |-> c.expired + of({"EXPIRATION"}),
       remaining   |-> c.remaining + of({"ISSUANCE", "COMPENSATION"})
                         - of({"REVERSAL", "REFUND", "CONSUMPTION", "EXPIRATION"}),
       reserved    |-> c.reserved]

\* Wrong on purpose, for a mutant: a refund is counted as an expiration.
AppendedRefundAsExpired(c, kind, n, through_hold) ==
  LET of(K) == IF kind \in K THEN n ELSE 0
  IN  [granted     |-> c.granted + of({"ISSUANCE"}),
       reversed    |-> c.reversed + of({"REVERSAL"}),
       consumed    |-> c.consumed + of({"CONSUMPTION"}),
       compensated |-> c.compensated + of({"COMPENSATION"}),
       expired     |-> c.expired + of({"EXPIRATION", "REFUND"}),
       remaining   |-> c.remaining + of({"ISSUANCE", "COMPENSATION"})
                         - of({"REVERSAL", "REFUND", "CONSUMPTION", "EXPIRATION"}),
       reserved    |-> c.reserved - (IF through_hold THEN of({"CONSUMPTION"}) ELSE 0)]

\* A new capacity version: c with the lineage row of this kind and amount.
Appended(c, kind, n, through_hold) ==
  LET of(K) == IF kind \in K THEN n ELSE 0
  IN  [granted     |-> c.granted + of({"ISSUANCE"}),
       reversed    |-> c.reversed + of({"REVERSAL", "REFUND"}),
       consumed    |-> c.consumed + of({"CONSUMPTION"}),
       compensated |-> c.compensated + of({"COMPENSATION"}),
       expired     |-> c.expired + of({"EXPIRATION"}),
       remaining   |-> c.remaining + of({"ISSUANCE", "COMPENSATION"})
                         - of({"REVERSAL", "REFUND", "CONSUMPTION", "EXPIRATION"}),
       reserved    |-> c.reserved - (IF through_hold THEN of({"CONSUMPTION"}) ELSE 0)]

\* A new capacity version: c with n more units reserved.
Reserving(c, n) ==
  [granted |-> c.granted, reversed |-> c.reversed, consumed |-> c.consumed,
   compensated |-> c.compensated, expired |-> c.expired, remaining |-> c.remaining,
   reserved |-> c.reserved + n]

\* The CHECK constraints of a capacity version.
VersionChecks(c) ==
  /\ {c.granted, c.reversed, c.consumed, c.compensated, c.expired, c.remaining, c.reserved} \subseteq Nat
  /\ c.remaining = c.granted + c.compensated - c.reversed - c.consumed - c.expired
  /\ c.reserved <= c.remaining

\* The lineage rows of one transaction, each appending a version of its grant;
\* a grant with no row keeps the version it has.
AppendRows(kind, part, through_hold) ==
  capacity' = [g \in Grants |-> Appended(capacity[g], kind, part[g], through_hold)]

ChecksPass == \A g \in Grants : VersionChecks(capacity[g])

\* Wrong on purpose, for a mutant: no unique index on the related transaction.
AnyNumberOfReversals(t) == t \in Txns

\* Only one transaction may reverse t (transactions_relation_uq).
NotReversed(t) == \A u \in Txns : posting[u].related # t

\* assert_grant_entry_attributed of a reversal: it posts to an account as much as
\* the related transaction posted to the other side of it.
Mirrors(kind, entry, related) ==
  related # None =>
    /\ NotReversed(related)
    /\ \A a \in Accounts : entry[a] > 0 =>
         /\ posting[related].entry[a] = entry[a]
         /\ posting[related].kind \in Credits <=> kind \notin Credits

\* A transaction begun at start is inserted with its entries and lineage rows.
Post(t, start, kind, h, related, part) ==
  LET entry == Entries(part)
  IN  /\ posting[t] = Unposted
      /\ \E g \in Grants : part[g] > 0
      /\ Mirrors(kind, entry, related)
      /\ posting' = [posting EXCEPT ![t] = [kind |-> kind, hold |-> h, related |-> related,
                                            entry |-> entry, part |-> part]]
      /\ AppendRows(kind, part, h # None)
      /\ ChecksPass'
      /\ balance' = [a \in Accounts |->
           IF kind \in Credits THEN balance[a] + entry[a] ELSE balance[a] - entry[a]]
      /\ began' = start

\* assert_grant_hold_consistent: a hold's amounts agree with what was posted through it.
HoldConsistent(h) ==
  LET r         == hold[h]
      initial   == Tally(r.legs)
      committed == Tally([a \in Accounts |-> Committed(h, a)])
  IN  /\ initial = r.original
      /\ committed <= initial
      /\ r.state = "HELD" => r.remaining = initial - committed
      /\ r.state = "APPLIED" => committed = initial
      /\ r.state = "VOIDED" => committed < initial
      /\ \A a \in Accounts : Committed(h, a) * initial = r.legs[a] * committed

\* Wrong on purpose, for a mutant: voiding clears the allocations.
MovedClearingAllocations(r, state, remaining) ==
  [state |-> state, original |-> r.original, remaining |-> remaining,
   legs |-> r.legs, alloc |-> IF state = "VOIDED" THEN NoHold.alloc ELSE r.alloc]

\* guard_hold_lifecycle: an update of a hold keeps everything but these two columns.
Moved(r, state, remaining) ==
  [state |-> state, original |-> r.original, remaining |-> remaining,
   legs |-> r.legs, alloc |-> r.alloc]

\* The hold that a transaction is posted through: an open one has so much less remaining, a
\* voided one keeps its row, and either has to agree with all its postings at COMMIT.
PostThrough(h, part) ==
  \/ h = None /\ UNCHANGED hold
  \/ /\ h # None
     /\ \/ LET left == hold[h].remaining - Tally(Entries(part))
           IN  /\ hold[h].state = "HELD" /\ left >= 0
               /\ hold' = [hold EXCEPT ![h] = Moved(@, IF left = 0 THEN "APPLIED" ELSE "HELD", left)]
        \/ hold[h].state = "VOIDED" /\ UNCHANGED hold
     /\ HoldConsistent(h)'

-----------------------------------------------------------------------------
(* Issuing, spending and closing grants.  The related transaction is the   *)
(* one a REVERSAL reverses, whatever the kind of the rows: most branches   *)
(* of validate_credit_grant_entry do not look at it.                       *)

\* The grant is inserted with its issuance transaction, entry and lineage row.
Issue(g, t, start, related, expiry) ==
  /\ ~Issued(g)
  /\ expiry > start
  /\ Post(t, start, "ISSUANCE", None, related, Only(g, AmountOf[g]))
  /\ issued_by' = [issued_by EXCEPT ![g] = t]
  /\ expires_at' = [expires_at EXCEPT ![g] = expiry]
  /\ UNCHANGED hold

\* Wrong on purpose, for a mutant: only the effective time is compared with the expiry.
SpendableBackdated(part, start) ==
  \E effective_at \in Time : \A g \in Grants : part[g] > 0 =>
    /\ Issued(g)
    /\ part[g] <= Unreserved(g)
    /\ expires_at[g] > effective_at

\* Rows that draw on unreserved credit which is not due, by the transaction's own date either.
Spendable(part, start) ==
  \E effective_at \in Time : \A g \in Grants : part[g] > 0 =>
    /\ Issued(g)
    /\ part[g] <= Unreserved(g)
    /\ expires_at[g] > effective_at /\ ~Due(g, start)

\* Wrong on purpose, for a mutant: spends what is reserved, and no constraint rejects it.
ConsumeReserved(t, start, related, part) ==
  /\ \A g \in Grants : part[g] > 0 =>
       Issued(g) /\ part[g] <= capacity[g].remaining /\ ~Due(g, start)
  /\ posting[t] = Unposted
  /\ \E g \in Grants : part[g] > 0
  /\ Mirrors("CONSUMPTION", Entries(part), related)
  /\ posting' = [posting EXCEPT ![t] = [kind |-> "CONSUMPTION", hold |-> None, related |-> related,
                                        entry |-> Entries(part), part |-> part]]
  /\ AppendRows("CONSUMPTION", part, FALSE)
  /\ balance' = [a \in Accounts |-> balance[a] - Entries(part)[a]]
  /\ began' = start
  /\ UNCHANGED <<expires_at, issued_by, hold>>

\* A debit of the accounts that no hold covers.
Consume(t, start, related, part) ==
  /\ Spendable(part, start)
  /\ Post(t, start, "CONSUMPTION", None, related, part)
  /\ UNCHANGED <<expires_at, issued_by, hold>>

\* Unspent credit goes back to the funding account, in a transaction of its own.
Refund(t, start, part) ==
  /\ OneRowPerEntry(part)
  /\ Spendable(part, start)
  /\ Post(t, start, "REFUND", None, None, part)
  /\ UNCHANGED <<expires_at, issued_by, hold>>

\* The unreserved capacity of due grants goes back to the funding account; the deferred
\* trigger rejects an expiration that leaves any of it behind.  The entry may be posted
\* through a hold, which the row then advances without using its allocations.
Expire(t, start, h, related, part) ==
  /\ OneRowPerEntry(part)
  /\ \E effective_at \in Time : \A g \in Grants : part[g] > 0 =>
       /\ Issued(g)
       /\ Due(g, start) /\ expires_at[g] <= effective_at
       /\ part[g] <= Unreserved(g)
  /\ Post(t, start, "EXPIRATION", h, related, part)
  /\ \A g \in Grants : part[g] > 0 => Unreserved(g)' = 0
  /\ PostThrough(h, part)
  /\ UNCHANGED <<expires_at, issued_by>>

\* The issuance of an untouched grant is reversed as a whole.
ReverseIssuance(g, t, start, h) ==
  LET c == capacity[g]
  IN  /\ Issued(g)
      /\ c.granted > 0 /\ c.remaining = c.granted
      /\ c.reserved = 0 /\ c.consumed = 0 /\ c.expired = 0
      /\ Post(t, start, "REVERSAL", h, issued_by[g], Only(g, c.granted))
      /\ PostThrough(h, Only(g, c.granted))
      /\ UNCHANGED <<expires_at, issued_by>>

-----------------------------------------------------------------------------
(* Holds.                                                                  *)

\* Wrong on purpose, for a mutant: reserves expired credit.
CreateHoldOnExpired(h, start, alloc) ==
  /\ hold[h].state = "NONE"
  /\ Tally(Entries(alloc)) > 0
  /\ \A g \in Grants : alloc[g] > 0 =>
       Issued(g) /\ alloc[g] <= Unreserved(g)
  /\ hold' = [hold EXCEPT ![h] = [state |-> "HELD", original |-> Tally(Entries(alloc)),
                                  remaining |-> Tally(Entries(alloc)), legs |-> Entries(alloc), alloc |-> alloc]]
  /\ capacity' = [g \in Grants |-> Reserving(capacity[g], alloc[g])]
  /\ began' = start
  /\ UNCHANGED <<expires_at, issued_by, posting, balance>>
  /\ ChecksPass'
  /\ HoldConsistent(h)'

\* The hold, its debit entries and their allocations are inserted together.
CreateHold(h, start, alloc) ==
  /\ hold[h].state = "NONE"
  /\ Tally(Entries(alloc)) > 0
  /\ \A g \in Grants : alloc[g] > 0 =>
       Issued(g) /\ ~Due(g, start) /\ alloc[g] <= Unreserved(g)
  /\ hold' = [hold EXCEPT ![h] = [state |-> "HELD", original |-> Tally(Entries(alloc)),
                                  remaining |-> Tally(Entries(alloc)), legs |-> Entries(alloc), alloc |-> alloc]]
  /\ capacity' = [g \in Grants |-> Reserving(capacity[g], alloc[g])]
  /\ began' = start
  /\ UNCHANGED <<expires_at, issued_by, posting, balance>>
  /\ ChecksPass'
  /\ HoldConsistent(h)'

\* Wrong on purpose, for a mutant: a capture may draw on what another hold reserved.
CommitHoldOfAnother(t, start, h, related, part) ==
  /\ hold[h].state = "HELD"
  /\ \A g \in Grants : part[g] > 0 =>
       /\ part[g] <= capacity[g].remaining
       /\ part[g] <= capacity[g].reserved
  /\ Post(t, start, "CONSUMPTION", h, related, part)
  /\ PostThrough(h, part)
  /\ UNCHANGED <<expires_at, issued_by>>

\* A capture of part or all of a hold; it draws on the hold's own allocations,
\* also when the grant has expired since.
CommitHold(t, start, h, related, part) ==
  /\ hold[h].state = "HELD"
  /\ \A g \in Grants : part[g] > 0 =>
       /\ part[g] <= capacity[g].remaining
       /\ HoldConsumed(h, g) + part[g] <= hold[h].alloc[g]
       /\ part[g] <= capacity[g].reserved
  /\ Post(t, start, "CONSUMPTION", h, related, part)
  /\ PostThrough(h, part)
  /\ UNCHANGED <<expires_at, issued_by>>

\* Wrong on purpose, for a mutant: releases what was captured too, and no constraint rejects it.
VoidWholeAllocation(h, start) ==
  /\ hold[h].state = "HELD"
  /\ \A g \in Grants : HoldConsumed(h, g) <= hold[h].alloc[g]
  /\ capacity' = [g \in Grants |->
       Reserving(capacity[g], 0 - hold[h].alloc[g])]
  /\ hold' = [hold EXCEPT ![h] = Moved(@, "VOIDED", 0)]
  /\ began' = start
  /\ UNCHANGED <<expires_at, issued_by, posting, balance>>
  /\ HoldConsistent(h)'

\* Voiding releases what the hold allocated and did not consume, grant by grant.
VoidHold(h, start) ==
  /\ hold[h].state = "HELD"
  /\ \A g \in Grants : HoldConsumed(h, g) <= hold[h].alloc[g]
  /\ capacity' = [g \in Grants |->
       Reserving(capacity[g], HoldConsumed(h, g) - hold[h].alloc[g])]
  /\ hold' = [hold EXCEPT ![h] = Moved(@, "VOIDED", 0)]
  /\ began' = start
  /\ UNCHANGED <<expires_at, issued_by, posting, balance>>
  /\ ChecksPass'
  /\ HoldConsistent(h)'

-----------------------------------------------------------------------------
(* Reversing a posting.                                                    *)

\* Transaction r reverses posting t, on all or some of its accounts, and gives the
\* grants back what t consumed there.  What it gives back to a grant that is due
\* leaves again in the same database transaction, with everything else the grant
\* has unreserved, through the expiration transaction sweep[g].
Reverse(t, r, start, part, sweep) ==
  LET swept       == DOMAIN sweep
      amount      == [g \in Grants |-> IF g \in swept THEN Unreserved(g) + part[g] ELSE 0]
      sweeping(u) == CHOOSE g \in swept : sweep[g] = u
      only(g)     == Only(g, amount[g])
  IN  /\ posting[r] = Unposted
      /\ \E g \in Grants : part[g] > 0
      /\ \A g \in Grants : part[g] > 0 =>
           posting[t].kind = "CONSUMPTION" /\ part[g] = posting[t].part[g]
      /\ Mirrors("COMPENSATION", Entries(part), t)
      /\ \A g \in swept : sweep[g] # r /\ posting[sweep[g]] = Unposted /\ Due(g, start) /\ amount[g] > 0
      /\ \A g, k \in swept : sweep[g] = sweep[k] => g = k
      /\ posting' = [u \in Txns |->
           IF u = r THEN [kind |-> "COMPENSATION", hold |-> None, related |-> t,
                          entry |-> Entries(part), part |-> part]
           ELSE IF \E g \in swept : sweep[g] = u
             THEN [kind |-> "EXPIRATION", hold |-> None, related |-> None,
                   entry |-> Entries(only(sweeping(u))), part |-> only(sweeping(u))]
             ELSE posting[u]]
      /\ capacity' = [g \in Grants |->
           Appended(Appended(capacity[g], "COMPENSATION", part[g], FALSE), "EXPIRATION", amount[g], FALSE)]
      /\ ChecksPass'
      /\ \A g \in Grants : g \in swept \/ (part[g] > 0 /\ Due(g, start)) => Unreserved(g)' = 0
      /\ balance' = [a \in Accounts |-> balance[a] + Attributed(part, a) - Attributed(amount, a)]
      /\ began' = start
      /\ UNCHANGED <<expires_at, issued_by, hold>>

\* Ids not yet used, what a new transaction may be related to, and rows that some grant could pay.
New     == {t \in Txns : posting[t] = Unposted}
Related == (Txns \ New) \cup {None}
Payable == {part \in Parts : \A g \in Grants : part[g] <= capacity[g].remaining}

Next ==
  \E start \in Time :
    \/ \E g \in Grants, t \in New, related \in Related, e \in 1..NoExpiry : Issue(g, t, start, related, e)
    \/ \E t \in New, related \in Related, part \in Payable : Consume(t, start, related, part)
    \/ \E t \in New, part \in Payable : Refund(t, start, part)
    \/ \E t \in New, h \in Holds \cup {None}, related \in Related, part \in Payable :
         Expire(t, start, h, related, part)
    \/ \E g \in Grants, t \in New, h \in Holds \cup {None} : ReverseIssuance(g, t, start, h)
    \/ \E h \in Holds, alloc \in Payable : CreateHold(h, start, alloc)
    \/ \E t \in New, h \in Holds, related \in Related, part \in Payable :
         CommitHold(t, start, h, related, part)
    \/ \E h \in Holds : VoidHold(h, start)
    \/ \E t \in Txns \ New, r \in New, part \in Parts :
         \E sweep \in [{g \in Grants : Due(g, start) /\ part[g] > 0} -> New] : Reverse(t, r, start, part, sweep)

Spec == Init /\ [][Next]_vars

-----------------------------------------------------------------------------
(* Properties.                                                             *)

\* Every variable keeps its type.
TypeOK ==
  /\ began \in Time
  /\ expires_at \in [Grants -> 1..NoExpiry]
  /\ issued_by \in [Grants -> Txns \cup {None}]
  /\ posting \in [Txns -> PostingRow]
  /\ hold \in [Holds -> HoldRow]
  /\ capacity \in [Grants -> CapacityRow]
  /\ balance \in [Accounts -> Int]

\* The lineage rows of grant g with a kind in K.
Rows(g, K) == Tally([t \in Txns |-> IF posting[t].kind \in K THEN posting[t].part[g] ELSE 0])

\* The running account of a grant (credit_grant_capacity_versions) is what summing
\* its immutable lineage rows (credit_grant_entries) gives, for every counter, and the
\* posted balance of an account is the credit its grants have left, although accounts,
\* lineage and capacity versions are written by different code.
CapacityMatchesLineage ==
  /\ \A g \in Grants :
       /\ capacity[g].granted = Rows(g, {"ISSUANCE"})
       /\ capacity[g].reversed = Rows(g, {"REVERSAL", "REFUND"})
       /\ capacity[g].consumed = Rows(g, {"CONSUMPTION"})
       /\ capacity[g].compensated = Rows(g, {"COMPENSATION"})
       /\ capacity[g].expired = Rows(g, {"EXPIRATION"})
  /\ \A a \in Accounts : balance[a] = Tally([g \in GrantsOf(a) |-> capacity[g].remaining])

\* What hold h allocated of grant g and has neither consumed nor released.
Outstanding(h, g) ==
  IF hold[h].state \in {"HELD", "APPLIED"} THEN hold[h].alloc[g] - HoldConsumed(h, g) ELSE 0

\* A grant's reservation is what the holds have allocated from it, not consumed and
\* not released by being voided: captures and voids release each allocated unit
\* exactly once, and nothing else releases any, also not the end of a hold as APPLIED.
ReservedMatchesHolds ==
  \A g \in Grants : capacity[g].reserved = Tally([h \in Holds |-> Outstanding(h, g)])

\* Only captures were posted through hold h.  The triggers of a hold count every posting
\* that names it, but only the rows of a capture use its allocations.
CapturesOnly(h) == \A t \in Txns : posting[t].hold = h => posting[t].kind = "CONSUMPTION"

\* An authorisation is a promise: whatever happens to the grants meanwhile (they
\* expire, are refunded, spent, their other postings reversed), an open hold can be
\* voided, and as long as only captures were posted through it, be captured in full,
\* without a trigger raising LL001 or LL002 or a CHECK constraint failing.
HoldAlwaysSettles ==
  \A h \in Holds : hold[h].state = "HELD" =>
    /\ \A g \in Grants : /\ Outstanding(h, g) >= 0
                         /\ Outstanding(h, g) <= capacity[g].reserved
                         /\ Outstanding(h, g) <= capacity[g].remaining
    /\ CapturesOnly(h) => \A a \in Accounts :
         hold[h].legs[a] - Committed(h, a) = Tally([g \in GrantsOf(a) |-> Outstanding(h, g)])

\* A hold that captures alone have brought to APPLIED consumed every allocation in
\* full, so it leaves no reservation behind although nothing is released then.
AppliedConsumesAllocations ==
  \A h \in Holds : hold[h].state = "APPLIED" /\ CapturesOnly(h) =>
    \A g \in Grants : HoldConsumed(h, g) = hold[h].alloc[g]

\* What makes the three properties above inductive: postings go through a hold that
\* exists and captures stay within its allocations, its entries are attributed completely,
\* and so are its captures, account by account although a capture posts to accounts and
\* consumes grants by different statements.
HoldInv ==
  /\ \A t \in Txns : posting[t].hold # None => hold[posting[t].hold].state # "NONE"
  /\ \A h \in Holds : hold[h].state # "NONE" =>
       Tally(hold[h].legs) > 0 /\ hold[h].legs = Entries(hold[h].alloc)
  /\ \A h \in Holds, g \in Grants : hold[h].state # "NONE" => HoldConsumed(h, g) <= hold[h].alloc[g]
  /\ \A h \in Holds : CapturesOnly(h) =>
       \A a \in Accounts : Committed(h, a) = Tally([g \in GrantsOf(a) |-> HoldConsumed(h, g)])
  /\ AppliedConsumesAllocations
  /\ ReservedMatchesHolds

\* A posting is reversed at most once, and a compensation gives every grant back
\* exactly what the posting took from it, account by account all or nothing, so the
\* same credit cannot be restored twice nor to another grant.  A grant whose issuance
\* was reversed is closed: it has no credit and never was, and is not, consumed,
\* refunded or expired.
ReversalRestoresExactly ==
  /\ \A r \in Txns : posting[r].kind = "COMPENSATION" =>
       LET t == posting[r].related
       IN  /\ posting[t].kind = "CONSUMPTION"
           /\ \A a \in Accounts : \/ \A g \in GrantsOf(a) : posting[r].part[g] = posting[t].part[g]
                                  \/ \A g \in GrantsOf(a) : posting[r].part[g] = 0
           /\ \A u \in Txns : posting[u].related = t => u = r
  /\ \A g \in Grants : Rows(g, {"REVERSAL"}) > 0 =>
       capacity[g] = [NoCapacity EXCEPT !.granted = Rows(g, {"REVERSAL"}),
                                        !.reversed = Rows(g, {"REVERSAL"})]

\* Expired credit does not circulate: a transaction that began when a grant was due
\* spends no more of it than it takes out of the reservation, and makes unreserved credit
\* appear only by voiding a hold, never by a reversal.  One that began before may still
\* commit after it and give credit back.
ExpiredCreditDoesNotCirculate ==
  [][\A g \in Grants : Due(g, began') =>
       /\ capacity[g].consumed' - capacity[g].consumed <= capacity[g].reserved
       /\ capacity[g].consumed' - capacity[g].consumed
            <= capacity[g].reserved - capacity[g].reserved' \/ capacity[g].consumed' = capacity[g].consumed
       /\ Unreserved(g)' > Unreserved(g) =>
            \E h \in Holds : hold[h].state = "HELD" /\ hold[h].state' = "VOIDED"
    ]_vars

\* The ledger implements CreditPots: every transaction moves the units of each
\* grant between free, held, spent and closed as the abstract rules allow.
Pots == INSTANCE CreditPots WITH
  free   <- [g \in Grants |-> Unreserved(g)],
  held   <- [g \in Grants |-> capacity[g].reserved],
  spent  <- [g \in Grants |-> capacity[g].consumed - capacity[g].compensated],
  closed <- [g \in Grants |-> capacity[g].reversed + capacity[g].expired],
  due    <- [g \in Grants |-> Due(g, began)]

ImplementsPots == Pots!Spec

\* History is immutable: postings, allocations and final holds never change, and an
\* open hold only shrinks.
HistoryIsImmutable ==
  [][/\ \A t \in Txns : posting[t] # Unposted => posting'[t] = posting[t]
     /\ \A h \in Holds :
          /\ hold[h].state \in {"APPLIED", "VOIDED"} =>
               /\ hold'[h] = hold[h]
               /\ \A g \in Grants : HoldConsumed(h, g)' = HoldConsumed(h, g)
          /\ hold[h].state = "HELD" =>
               /\ hold'[h].alloc = hold[h].alloc
               /\ hold'[h].remaining <= hold[h].remaining
    ]_vars
=============================================================================
