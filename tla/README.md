# Verification of the LuxLedger demo

TLA+ modules of this repository's own logic, TLC runs that check them on small instances, and
TLAPS proofs of what matters most for every value of the constants.  The ledger engine
(`@luxledger/core`) and its PostgreSQL adapter are external packages; what the repository itself
holds is the database schema with its triggers, the hosted sandbox and demo services, the HTTP
hooks in front of them, and the console.

## Inventory

| Component | State it keeps | Operations | Talks to | What is hard | What makes it correct |
|---|---|---|---|---|---|
| Credit-grant ledger, `drizzle/*.sql` | grants, lineage rows, capacity versions, holds with allocations, balances | issue, consume, refund, expire, reverse an issuance, reverse a posting, hold, capture, void; each validated by row triggers and by deferred triggers at commit | written by the external adapter | running accounts kept beside an immutable history; two places that release a reservation; expiry racing holds and reversals; transactions that commit in another order than they began in | the running account equals the history; reservations equal what open holds still have; an open hold can always be settled; expired credit does not come back; nothing is restored twice |
| Private sandboxes, `apps/api/src/demo/sandbox.ts` | `demo_sessions`, `api_keys`, the browser's cookie, the bearer in each tab | `POST` and `GET /demo/session`, the boundary hook of `/v1` | tabs of `App.tsx`, the limiter, JWTs | several tabs on one cookie; awaits between read, seed, revoke and reply; crash, failed statement, lost reply | a reachable sandbox is complete; keys are revoked for a cause and only their own browser's; no access after the boundary; no tab stuck |
| Rate limiter, `fixed-window-limiter.ts`, hook in `server.ts` | one bucket per scope and address | `consume` | every `POST /v1`, `POST /demo/session` | window edges, rounding of Retry-After, separation of clients | bounded bursts, earned refusals, exact Retry-After |
| Shared demo ledger, `demo-service.ts`, `seed-demo.ts`, `routes.ts` | the demo tenant's rows, `resetPromise` | seed, reset; accounts, funding, transfers, holds, reconciliation | PostgreSQL through the external services | every call is an await; reset truncates under other requests and seed scripts; a crash between two commits | a reset serves the seeded ledger |
| Console, transactions area, `App.tsx` | ledger, filter, list, cursor, versions of refresh and inspection, `busy` | refresh, load more, inspect, transfer, new sandbox | `/v1` | answers in any order, errors | the list is of the active ledger; the newest refresh wins; entries belong to the transaction shown |
| Access tokens, `auth/jwt.ts`, `auth/policy.ts` | signing keys per process | issue, verify, configure | every `/v1` call | rotation over several processes, clock skew | a token serves its lifetime; a dropped key is dead |
| Process life cycle, `index.ts` | signals, hard-stop timer, pool | listen, shut down | Fastify, the pool | the timer races the drain; clients that go; a second signal | no waited-for request loses the database; exit 0 means drained; the process ends |
| HTTP server, `server.ts`, `send-domain-error.ts` | what each request has learnt of its caller (`tenantId`, `apiKeyId`, `apiKeyRole`) | the `onRequest` hooks, the handlers, the error handler, the `onResponse` hook | every client, the limiter, the keys in the database, the metrics | requests overlap, keys are revoked between two hooks, each step may throw | a handler acts for its own caller; what the limit refuses does not reach the database |
| Metrics, `observability/metrics.ts` | three counters and a histogram by route and status | observe, count a failure, render | the `onResponse` hook, `GET /metrics` | failures at every stage are told apart by the status alone | failures are counted once; a scrape agrees with itself |
| Console, other areas, `App.tsx` | selected account and its balance, balance changes, draft, read panels | write, repeat, select, switch, load, next page, renew | `/v1`, `/demo/session` | a write waits for a refresh that others supersede; a repeat may be of another ledger; another tab's sandbox, or an older one, arrives in between; late answers | the balance is the selected account's; balance changes frame the write; next page goes on with what is shown |
| Console, helpers, `api.ts`, `ledger-display.ts`, `csv.ts` | none | amounts to and from text, signs, statement CSV | the forms and tables | scales, quoting, line ends | nothing is changed or dropped on the way |
| Scripts, deployment | none | migrate, build, start | - | - | not modelled (see below) |

The hazards each component is exposed to are listed in `PROJECT.json`, at the line where they bite.

## Modules

### Credit grants: `CreditGrants`, `CreditPots`, `Tally`

`CreditGrants` is the schema in the form the last migration leaves it.  One action is one database
transaction that commits.  A row trigger that raises is a guard; a deferred constraint trigger, and a
CHECK, is a conjunct on the next state, so an operation that would break it is not possible at all.
Making a database transaction atomic is justified by `FOR UPDATE` on the grant row in
`validate_credit_grant_entry` and `append_credit_grant_reservation_version`: two transactions that
touch the same grant are serial.  They are serial in the order in which they commit, and
`transaction_timestamp()` is the time at which a transaction began: one that waited for the lock
commits after one that began later.  So every action has a `start` of its own, any time at all, and
nothing orders the starts.

| Variable | Code |
|---|---|
| `posting[t]` | a row of `transactions` with its debit or credit on each grant-enabled account (`entry`) and the `credit_grant_entries` rows that attribute it to grants (`part`) |
| `hold[h]` | a row of `holds` with its `hold_entries` (`legs`) and `credit_grant_hold_allocations` (`alloc`) |
| `capacity[g]` | the latest row of `credit_grant_capacity_versions` |
| `issued_by[g]`, `expires_at[g]` | columns of `credit_grants` |
| `balance[a]` | `accounts.balance_minor`, counted so that credits are positive |
| `began` | `transaction_timestamp()` of the transaction that committed last; no step reads it |

Actions: `Issue`, `Consume`, `Refund`, `Expire`, `ReverseIssuance` and `Reverse` are the branches of
`validate_credit_grant_entry` (migration 0007) with `assert_grant_entry_attributed` (0002),
`assert_grant_compensation_complete` (0000) and `assert_expired_grant_capacity_removed` (0004);
`CreateHold`, `CommitHold` and `VoidHold` are the hold triggers of 0004.  The adapter is external:
an action writes *any* rows the triggers accept, not only those the adapter would choose.

Whether rows may be posted through a hold, or be related to another transaction, is what the
triggers say and no more.  Rows that close credit, `Expire` and `ReverseIssuance`, may name a hold:
the hold's amounts then count the posting (`PostThrough`, `HoldConsistent`), but its allocations and
the reservation stay as they are.  (The comment at 0004:447 says that reversals have no `hold_id`;
no trigger requires it.)  The deferred check of proportions (0004:485-503) keeps credits, `Issue`
and `Reverse`, from naming a hold, and `Refund` has a check of its own.  A `REVERSAL` relation is
looked at by `assert_grant_entry_attributed` for every kind of row (`Mirrors`), which compares per
account: a reversal may leave out accounts of the posting it reverses.  A `CORRECTION` relation is
read by no trigger and is like none.

Abstracted: the other side of each entry (funding and revenue accounts, which are taken to be
distinct from the grant-enabled ones), so a hold's `original_amount_minor` is the sum of its legs on
grant-enabled accounts; at most one entry per account and one kind of lineage row per transaction,
except that a reversal that gives credit to a due grant is joined in one commit by the expirations
that take it out again (`sweep`, transactions without hold and relation); a hold without a
grant-enabled leg, which no trigger here looks at; version numbers and older versions; tenants,
assets and references.  Not modelled: `reject_expiring_grant_enabled_funding`.

`Tally(f)` is SQL's `coalesce(sum(..), 0)`, defined as the cardinality of the set of minor units.
The community modules' `SumFunction` computes the same number (an ASSUME of `MCCreditGrants` checks
it) but is recursive, and the prover cannot reason about it.

`CreditPots` is the abstract promise: each grant's units are `free`, `held`, `spent` or `closed`, a
step moves units between pots, and which moves are allowed depends on whether the grant is due.
`CreditGrants` implements it under the refinement mapping at `Pots` (property `ImplementsPots`).

### Private sandboxes: `SandboxSessions`

`post[s]` is a `POST /demo/session` handler by the session it provisions, `get[t]` the GET of tab
`t`, `call` one `/v1` call, `session[s]` a row of `demo_sessions` joined with its `api_keys` row,
`cookie[b]` a browser's cookie, `tab[t]` the bearer in memory and whether a bootstrap runs.  An
action is the code between two awaits.  `Crash` ends every running handler; `SeedFails`,
`StatementFails`, `DeliverError`, `LoseReply` and `LoseGet` are the failures; `faults` bounds them.
`DeliverError` is `sandbox.ts:100-102`: listing the assets fails after the cookie header was set, so
a 500 carries the new cookie.  The bearer is checked in three steps, the signature and expiry, the
key's revocation, and the session boundary, as in the hooks of `server.ts` and `sandbox.ts`.
Abstracted: the seeding of a tenant is `SeedSteps` commits; the `ledgers` request that ends a
bootstrap is part of receiving the session; a tab has one GET and the system one `/v1` call in
flight; the limiter turns a bootstrap away when the session ids of the model are used up.
`StaleBearerRecovers` is what the code does with a tab whose bearer was revoked,
`StaleTabNeedsPageLoad` what `docs/CONSOLE.md:37` says of it, and the run `stale` shows that they
differ.

### Rate limiter: `FixedWindowLimiter`

`buckets` is the `Map`, `Consume` is `consume` as the hook of `server.ts` calls it, atomic because it
contains no await.  `admitted` and `refused` are history: the requests let through, and the last
refusal (refusals change no bucket, so nothing is lost by keeping one).  The clock does not run
backwards.  The limiter of `POST /demo/session` is the same class with one scope.

### Shared demo ledger: `DemoLedger`

Each seed script, reset and client of the other demo routes is a task whose program counter moves by
one call of the services at a time; reads in a row that only look something up are one action.  A
reset needs the demo routes, which exist only outside production (`index.ts:52,59`), so it is not
the container's `start:hosted` (production by `Dockerfile.api:14` and `compose.hosted.yml:28`) that
orders it after the seed: a seed script (`seed:demo:local`) may run beside resets and operations,
and starts whenever it likes.  `Listening` is `start:hosted` of `package.json`, a container that
serves after its seed script ended well, and only `ListensSeeded`, which is about that container,
uses it.  A seed script that lists the ledgers before a reset truncates them and creates one after
may leave two of the same name; a reset then answers with the first of them, whatever state it is
in, and `ResetServesSeeded` says so.  `CrashSeeder` and `CrashServer` are crashes with the restart
the compose file asks for (`restart: unless-stopped`).  From the external services it assumes the
unique indexes and foreign keys of the schema, that bootstrap creates the first tenant only, and
that a repeated reference of the same posting changes nothing; the postings that are not the opening
are not kept.

`StartOperation` is a handler of `routes.ts`; `FindFree` and `CreateAccount` are `createAccount`,
`FindAccounts` and `Move` are `fund`, `transfer` and `createHold`, `FindHold` and `Settle` are
`resolveHold`, `Ingest` to `Reconcile` are `reconcile`, `Describe` is `getAccountDetails`, and
`GetState`, `ReadAccounts` and `ReadTransactions` are the reads of `getState` that most operations
end with.  Amounts are left out: whether a wallet has the money is the ledger's to decide, so a
transfer may be refused.

### Console: `TransactionsPanel`

The handlers and effects of the transactions area with `refreshVersion`, `inspectionVersion` and
`busy`; a page is abstracted to the ledger and filter it was asked for.  Every request may be
answered late or with an error.

### Console: `Workbench` and `Conversions`

`Workbench` is the rest of the console that has state: `execute` with the refresh a write waits for
and the balance changes it shows, the balance of the selected account with its abort controller, the
draft of the operation workbench, a `ReadPanel` whose path is the selected account's, areas, and what
`bootstrap(true)` and the renewal timer do to all of it.  A handler includes the effects React runs
after it.  The database is the number of writes it has committed, and a list of accounts shows some
number of them between the one when it was asked for and the one when it came.  A balance is asked for
at a time of the browser's clock, which need not agree with the database's, so a balance has no number
of writes and nothing is said of how fresh it is.

A request body has a reference: sent again, from the editor, by "Repeat exact request" of the
journal or by "Repeat last write", it finds what it committed and commits nothing (`Resolve`;
`docs/INTEGRATION.md:27`).  The journal outlives the ledger and the sandbox, so that a repeat may be
of another ledger or be refused.  A request carries the bearer of the moment it was sent, and a
bearer of another tenant reads an empty list (`Answers`).  `Renew` puts any sandbox of the browser
into the tab, a newer one of another tab or, when its answer comes late, an older one.
`CommitElsewhere` is a write of another tab or of a terminal.  `EditFilter` starts refreshes that
the list of transactions asks for; the list itself is `TransactionsPanel`'s.

Abstracted: one account's panel stands for the panels of an area, and a user types paths of some
accounts only (`Typed`).  Left out: POSTs without a reference (rules, previews, ledgers) and with
them new ledgers in the selector, a POST that was given up by its tab and commits later, the 150
records the journal is capped at, repeats of a GET, and the ids that forms are filled with.

`Conversions` has the pure functions: `money` and `toMinor`, `toEntryDisplay` and
`entriesAreBalanced`, and the state machine of `parseStatementCsv`.  `MCWorkbench` checks them over
bounded inputs as named ASSUMEs: an amount shown and typed again is the same in every scale, digits
mean what they say and too many are refused, entries shown as balanced balance, a table written as
RFC 4180 writes it is read back whatever its fields and line ends are, no accepted text is read two
ways, and a record holds its own line's values.  A text is a sequence of characters, an amount its
sign, whole part, fraction and digits; the byte-order mark, the limit of 1 MB and the formats of
dates and integers are left out (`Valid` stands for them).

### HTTP server and metrics: `HttpServer`

`request[r]` is a request with what the hooks have found out, `limiter` what a window has left of
each scope, `active` the keys that are not revoked, `issued` the keys somebody has a token for,
`metrics` the registry and `scraped` the samples of the last scrape.  `Arrive` is the rate-limit
hook and the authentication hook up to its await, `Authenticate` the rest of that hook, then a
handler or Fastify's own answer, and `Responded` the `onResponse` hook.  A call has a `path`, as it
was sent, and a `label`, the route that the router finds for its decoded form: the hooks of
`server.ts:318-410` test the path, handlers, the error handler and the metrics go by the label, and
`Spelled` says which pairs there are.  `HandlerActsAsCaller` and `DatabaseIsShielded` speak of calls
by the path as sent, which is what the hooks test; of a call whose path is not under `/v1/` as it
was sent they say nothing.  `MetricsAreExact` holds of all.  Wherever the code or a library it calls
may throw, the thrown error goes through `StatusOf`, the error handler with `sendDomainError`.
Fastify's routing, body parsing and its answer to unknown routes are external, and so are the
handlers of `registerLedgerAdapter`, which may answer or throw anything of the kinds `HandlerErrors`
lists.  A client may leave before its response is sent: whether `onResponse` runs then is Fastify's,
so such a request may be counted or not.

### Access tokens: `TokenAuth`

Processes with a configuration and a clock each; `Verifies` is `verifyAccessToken`.  The operator
follows `docs/INTEGRATION.md:18`, and with several processes announces a new key before one signs
with it; `ClocksAgree` says what the permitted skew permits.

### Process life cycle: `Shutdown`

`shutdown` and `listening` are where the two asynchronous functions of `index.ts` are, `handlers` the
`process.once` handlers left, `hardStop` and `poolStop` countdowns of the two timers, `request[r]` a
handler of the server with whether its client still waits.  Fastify and postgres are external:
`server.close()` waits for connections, `sql.end` refuses new statements, waits for running ones and
kills them after its timeout.  A handler may take any number of statements and may hang.  A second
signal of the same kind finds no handler and kills the process (`SignalAgain`).  The comment of
`index.ts:81` says that close waits for in-flight requests; that is so for those whose client is
there, and `CutOnlyWhenAbandoned` states exactly that.  What a cut handler leaves behind is what a
crash leaves, which `SandboxSessions` and `DemoLedger` allow at every step.

## Runs

| Run | Instance | Shows |
|---|---|---|
| `lots` | 2 accounts with 2 grants (of 2 units and 1) and 1 grant (of 2), 2 holds, 4 transactions, an expiry | running accounts, reservations, reversals, settling of holds, expiry, history, refinement of `CreditPots` |
| `browsers` | 2 browsers with a tab each, 3 sessions, 1 fault | sandboxes under faults and replacement, access checks |
| `live` | 1 browser, 2 tabs, 2 sessions, 1 fault | liveness of tabs |
| `stale` | 1 browser, 2 tabs, 2 sessions, no faults | divergence from the documents (below) |
| `bursts` | 2 scopes (1 per 1 tick, 2 per 3 ticks), 2 addresses, 4 instants | bursts, refusals, Retry-After |
| `resets` | 1 seed script, 2 resets, 1 operation of any kind; operations, visits and crashes 2 together | what a reset serves |
| `restart` | 1 seed script, 1 crash | divergence (below) |
| `answers` | 2 ledgers, 2 filters, 2 transactions, 3 versions | late answers of the transactions area |
| `panels` | 3 ledgers of 2 sandboxes, 4 accounts, 2 filters, 1 request with its repeats, 2 writes, 3 refreshes, 2 pages | writes, repeats, balances and panels against late answers; the conversions |
| `requests` | 2 requests of 10 kinds, some not spelled as their route, 2 keys, 2 windows of 1 request per scope, 2 buckets | hooks, identities, limit, metrics |
| `rotation` | 2 processes at the permitted skew, 3 keys, 4 instants | tokens and rotation |
| `drain` | 2 requests, 2 signals, timeouts 3 and 2 | drain, exit codes, the end of the process |

Bounds.  `lots`: two holds make one hold's capture compete with another's reservation on the same
grant; four transactions are enough to issue, consume, reverse and sweep a grant, or to issue two
grants and post twice through a hold on both; the grant on the second account gives holds with legs
on two accounts, captures that must keep their proportion, and reversals of one account of a
posting; amount 2 is the least with a partial capture; one tick separates not due from due, and a
transaction may begin on either side of it whenever it commits.  Its `VIEW` leaves out `began`: no
step reads it, and the properties of steps read the new value only, which every step sets.
`browsers`: three sessions let one browser replace twice, or both replace once while the other
watches; lifetime 1 and TTL 2 put the bearer's end after the session's, as in the code, where the
boundary hook is needed.  `bursts`: the 3-tick window and a second of 2 ticks give every remainder
of Retry-After.  `resets`: the second reset waits for the first or comes after it, the seed script
runs beside either, and the operation or a crash meets them; four ids give two truncations two
ledgers each.  `panels`: two writes give a list before, between and after them, one of them from
elsewhere; one request is enough for a repeat of it, from another ledger and after a new sandbox;
three versions a refresh superseded before and after the one a write waits for; the second sandbox is
the one another tab opens.  Its `VIEW` leaves out what no step reads: superseded refreshes nobody
waits for, the ledger of a draft that was given up unsent, the answer to a panel that is gone.
`requests`: two requests are enough for one to be refused by the limit the other used up, to carry
another key, and to scrape while the other ends.  `answers`: three versions give a stale answer
before and after the current one.  `drain`: the hard-stop timer may fire before and after the
pool's, which starts when the drain ends.  Every bound is a named constant; where a bound stops a
behaviour (`MaxTime`, ids used up) the runs set `CHECK_DEADLOCK FALSE`.

Symmetry is used for ids that no property tells apart and only in runs without liveness.

Fairness.  `live` assumes weak fairness of each handler's next step (`Serve`), of each tab's replies
(`Receive`) and of the renewal timer (`Renew`): Node runs a ready continuation, a request is
answered or fails, and an interval fires.  Clicks, page loads, faults and time are not fair.  The
safety and action properties need no fairness; `drain` assumes that time passes, that due timers
fire and that `exit` follows the promise it waits for, and nothing of the requests.

Each property of a passing run is also shown to depend on the code: an operator with the comment
"Wrong on purpose, for a mutant" is a plausible bug, and putting it in place of the right one
violates the property.

## What the violations show

* `stale`: `docs/CONSOLE.md:37` says that a stale tab's revoked token requires a new page load.  Two
  tabs load; the first gets a sandbox, and the second, whose GET was answered before the cookie was
  set, replaces it: the `POST` presents the cookie and revokes the first tab's key.  The first tab's
  renewal timer (`App.tsx:107`) then asks with the new cookie and gets the bearer of the second
  sandbox, without a page load.  (The passing property `StaleBearerRecovers` is the other side of it.)
* `restart`: `docs/HOSTED_DEMO.md:42-44` says that the idempotent seed runs before traffic is
  accepted.  After a crash between creating the ledger and posting the opening balance the next seed
  stops at the ledger it finds (`demo-service.ts:238-247`), and the API serves an incomplete demo.

## Proofs

The proof modules extend the modules they are about; TLAPS checks every leaf.

* `CreditGrantsProofs` first proves the laws of `Tally` (one row changed, row-wise comparison,
  addition) from the laws of finite cardinalities, and then five invariants, each added to the ones
  before it:
  * `TypeInv` (`TypeCorrect`): `TypeOK` with the CHECK constraints of the capacity versions.
  * `LineageInv` (`CapacityIsLineage`): `CapacityMatchesLineage` with the clause that every entry is
    attributed completely.  Without it the balance of an account, which follows the entries, and the
    remainders of its grants, which follow the attributions, could drift apart.
  * `OriginInv` (`LedgerImplementsPots`): a grant has no credit before it is issued, and its
    issuance transaction created all of it.  The refinement of `CreditPots` goes step by step: an
    appended version, a change of a reservation and a reversal each map to moves between pots of the
    grants they touch (`AppendMoves`, `ReserveMoves`, `ReverseMoves`), while `due` of the pots is
    whether the grant was due when the step's transaction began, and may be false again for a later
    commit.  What a transaction that began when a grant was due may do to it (`DueIsCalm`) gives
    `ExpiredCreditStaysPut`.
  * `RestoreInv` (`ReversalsRestoreExactly`): a compensation gives back exactly what one consumption
    took on each account it is for, and the capacity row of a grant whose issuance was reversed is
    closed.  The triggers compare each part of a compensation with the same part of the consumption
    and its total on an account with the consumption's, so that no part on that account is missing
    (`ReversedPart`).
  * `HoldInv` (`HoldsInductive`), from which `ReservationsAgree`, `AppliedExactly` and
    `OpenHoldsSettle` follow.  It is needed because `HoldAlwaysSettles` is not inductive: that an
    open hold can be captured depends on the reservation of its grants being shared out exactly, on
    captures staying within their own hold's allocations, and on entries and allocations agreeing
    account by account although a capture writes them by different statements.  An expiration or the
    reversal of an issuance posted through a hold uses up the hold's amount and none of its
    allocations, so that they agree only for holds through which captures alone were posted
    (`CapturesOnly`); that reservations are what holds have outstanding, and that an open hold can
    be voided, needs no such condition.  A hold that such a posting brings to APPLIED keeps its
    reservation, and the two properties say so by the condition.  `HistoryStands` needs it too: what
    a hold has consumed changes only by a capture of it, which needs the hold open.
* `FixedWindowLimiterProofs`: `TypeCorrect`, `WindowsStayApart` and `BurstsAreBounded`.  A stretch
  as long as a window meets at most two windows, because windows of a client start a window's length
  apart, and a window numbers its admissions from 1 to `maxRequests`.  The request numbered 1 opened
  its window, so a stretch that meets a second window missed the first one's opening: less than
  twice `maxRequests` are let through.  `RefusalsAreEarned` adds `RefusalInv`: each number a bucket
  has counted was given to an admission of its window (`WindowIsAccounted`), which gives the
  requests behind a full bucket, and the bucket that refused a client stays what it was until the
  client is admitted again (`RefusalStands`), which is what `Retry-After`, rounded up to seconds
  (`RoundedUp`), was computed from.
* `TokenAuthProofs`: `DroppedKeysAreDead` and `TokensServeTheirLifetime` from `RotationInv`;
  `TokenAuthTypes`.
* `SandboxSessionsProofs`: `SandboxTypes`, `CookiesNameSeededSandboxes`, `KeysAreRevokedForCause`
  and `LateCallsAreNotServed` from `SandboxInv`.  A cookie is seeded because a row's progress
  follows its handler's (`Staged`) and a cookie, like the previous cookie a request presented, names
  a session that was delivered to that browser (`Presented`).  A key is revoked for cause because a
  handler replies only after its revocation committed (`Caused`).  For the boundary, `Checked` says
  what made a late call late and is still to be found: nothing prolongs a session or takes a
  revocation back, so the check that comes finds it.
* `ProcessProofs`, two components in one module, which is why the names of `Shutdown`'s specification
  are prefixed:
  * `DemoTypes` and the action property `ResetsServeSeeded` from `DemoInv`.  Of the resets at most
    one runs (`Exclusive`), but seed scripts may run beside it and fill the tables it truncated.  So
    at each of its steps what it has built so far is said of the ledger it works on and, from the
    moment it reads, of any ledger that is the only one (`Staged`): another task's ledger is there
    only beside the reset's own, and rows are only added until the next truncation, which is another
    reset's.
  * `ShutdownTypeCorrect`, `ConnectedRequestsKeepThePool` and `CleanExits` from `ShutdownInv`: the
    pool is ended only once the server is closed, or by a process that never served.
* `TransactionsPanelProofs`: `PanelTypes`, `ListStaysCurrent` and `EntriesStayOfSelected` from
  `PanelInv`.  `busy` has one owner (`Owned`), so that nothing changes the ledger under a "Load more",
  whose answer has no version; the newest refresh asks for the scope shown (`Newest`), since every
  change of the scope sends one or gives the older ones up; and the newest inspection is of the
  selected transaction (`Inspecting`).
* `HttpServerProofs`: `HandlersActForTheirCallers` and `HttpServerTypes` from `Controlled`, whose
  clause on an authenticating request, by the path it was sent to, is what `HandlerActsAsCaller`
  lacks: the key of a request that came with a revoked one is still revoked when its lookup ends.
  `TheLimitShieldsTheDatabase` from `Shielded`, which counts lookups against what the limiter has
  counted of the window.  `MetricsCountExactly` from `Registered`: each counter is the number of
  requests of its series that ended, a histogram has the same count and buckets that grow with their
  bounds (`Histogram`).  That failures are counted by the status alone rests on `Told`: an exchange
  has got a token if and only if its status is below 400, whichever hook, library or handler
  answered it.
* `WorkbenchProofs`: `BalancesAreCurrent` from `Current`, which says of the request that is not
  aborted what `BalanceIsCurrent` says of the balance, and that the selection is of the list;
  `ChangesAreOfTheWrite` from `Framed`: draft and list are of the active ledger (`OfLedger`), the
  newest refresh is too (`Refreshing`), and the refresh a request waits for was sent after what the
  request committed, and after the list it is compared with, so that its version tells it from those
  sent before (`Writing`).  `NextPageContinues` is inductive as it stands (`NextPagesContinue`);
  `WorkbenchTypes` is the type correctness they use.

Assumptions: the sets of the credit-grant module and the requests of `HttpServer` are finite,
amounts and policies are natural numbers, a task of the demo ledger is a seed script, a reset or an
operation and not two of them (`TasksOfOneKind`), and any two clocks agree up to the skew
(`ClocksAgree`).  They are ASSUMEs of the modules, and TLC evaluates them in the runs.

Every invariant and every safety property of steps that a passing run checks is proved, each for all
values of the constants its module's assumptions allow.  Only model-checked: liveness
(`BootstrapEnds`, `StaleBearerRecovers`, `ShutdownEnds`), which is beyond the prover; `Conversions`,
whose folds the prover cannot evaluate for every input; and the two runs that end in a violation.

## Not modelled

* The reset script of the command line (`reset-demo.ts`): a process of its own that shares nothing
  with the server's `resetPromise` and truncates under it.  No document promises what a reset means
  while a script runs, so there is no property to state.
* The order of statements and locks inside a database transaction of the credit grants.  The
  statements are chosen by `@luxledger/postgres-adapter`, an external package; the schema alone does
  not say in which order accounts and grants are locked.
* `reject_expiring_grant_enabled_funding`, version numbers and row-level security of the schema.
* Parsing of configuration and of a token's text, the redaction of the request journal, the
  scenario guide, the catalogue of example payloads, OpenAPI documents, presentation: formats and
  data without control.
* Migration, build and start scripts: sequential scripts around external tools.
* Memory: the limiter's buckets and the metrics' series are never evicted.
* Two check-then-create races (`createAccount`, the demo reconciliation rule) are in `DemoLedger`
  and listed as a hazard without a property, since nothing in the repository promises otherwise.

## Plan

1. The reset script in `DemoLedger`, once a document says what it may meet.
2. POSTs without a reference in `Workbench`, and the ledgers they add to the selector.
