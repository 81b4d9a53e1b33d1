------------------------- MODULE FixedWindowLimiter -------------------------
(***************************************************************************)
(* The limiter of apps/api/src/api/rate-limit/fixed-window-limiter.ts, as  *)
(* the onRequest hook of server.ts uses it: one bucket per scope and       *)
(* client address, in the memory of one process.  POST /demo/session uses  *)
(* a limiter of its own with a single scope (20 requests per 3600 s).      *)
(*                                                                         *)
(* consume runs to its end without an await, so it is one action.  The     *)
(* clock is taken not to run backwards.                                    *)
(***************************************************************************)
EXTENDS Integers, FiniteSets

CONSTANTS
  Scopes,       \* the keyPrefix of a target: auth_token, write
  Ips,
  MaxRequests,  \* policy.maxRequests of a scope
  WindowMs,     \* policy.windowSeconds * 1000 of a scope
  Second,       \* milliseconds in a second
  MaxTime       \* bound on the clock

ASSUME PolicyType == /\ MaxRequests \in [Scopes -> Nat \ {0}]
                     /\ WindowMs \in [Scopes -> Nat \ {0}]
ASSUME BoundsType == Second \in Nat \ {0} /\ MaxTime \in Nat

VARIABLES
  now,       \* Date.now()
  buckets,   \* the Map; a key never leaves it
  admitted,  \* history: every request let through
  refused    \* history: the last refusal, and its Retry-After; 0 before the first

vars == <<now, buckets, admitted, refused>>

Keys        == Scopes \X Ips
\* Wrong on purpose, for a mutant: the scopes share a bucket.
KeyOfIp(s, ip)  == <<CHOOSE x \in Scopes : TRUE, ip>>

Key(s, ip)  == <<s, ip>>
Undefined   == [known |-> FALSE, windowStartMs |-> 0, count |-> 0]

Init ==
  /\ now = 0
  /\ buckets = [k \in Keys |-> Undefined]
  /\ admitted = {}
  /\ refused \in [key : Keys, at : {0}, retryAfterSeconds : {0}]

WindowIsOver(s, ip) ==
  LET current == buckets[Key(s, ip)]
  IN  ~current.known \/ now >= current.windowStartMs + WindowMs[s]

ActiveBucket(s, ip) ==
  IF WindowIsOver(s, ip) THEN [known |-> TRUE, windowStartMs |-> now, count |-> 0]
                         ELSE buckets[Key(s, ip)]

\* Wrong on purpose, for a mutant: off by one.
IsOverfull(s, ip) == ActiveBucket(s, ip).count > MaxRequests[s]

IsFull(s, ip) == ActiveBucket(s, ip).count >= MaxRequests[s]

\* Wrong on purpose, for a mutant: what has passed of the window, negated, and no minimum.
RetryAfterElapsed(s, ip) ==
  LET left == ActiveBucket(s, ip).windowStartMs - WindowMs[s] - now
      ceil == (left + Second - 1) \div Second
  IN  ceil

RetryAfterSeconds(s, ip) ==
  LET left == ActiveBucket(s, ip).windowStartMs + WindowMs[s] - now
      ceil == (left + Second - 1) \div Second
  IN  IF ceil < 1 THEN 1 ELSE ceil

Admit(s, ip) ==
  LET active == ActiveBucket(s, ip)
  IN  /\ ~IsFull(s, ip)
      /\ buckets' = [buckets EXCEPT ![Key(s, ip)] =
                       [known |-> TRUE, windowStartMs |-> active.windowStartMs, count |-> active.count + 1]]
      /\ admitted' = admitted \cup {[scope |-> s, ip |-> ip, at |-> now,
                                     window |-> active.windowStartMs, nth |-> active.count + 1]}
      /\ UNCHANGED <<now, refused>>

Refuse(s, ip) ==
  /\ IsFull(s, ip)
  /\ refused' = [key |-> <<s, ip>>, at |-> now, retryAfterSeconds |-> RetryAfterSeconds(s, ip)]
  /\ UNCHANGED <<now, buckets, admitted>>

Consume(s, ip) == Admit(s, ip) \/ Refuse(s, ip)

Tick ==
  /\ now < MaxTime
  /\ now' = now + 1
  /\ UNCHANGED <<buckets, admitted, refused>>

Next == (\E s \in Scopes, ip \in Ips : Consume(s, ip)) \/ Tick

Spec == Init /\ [][Next]_vars

-----------------------------------------------------------------------------
(* Properties.                                                             *)

Admission == [scope : Scopes, ip : Ips, at : Nat, window : Nat, nth : Nat]

TypeOK ==
  /\ now \in Nat
  /\ buckets \in [Keys -> [known : BOOLEAN, windowStartMs : Nat, count : Nat]]
  /\ admitted \subseteq Admission
  /\ refused \in [key : Keys, at : Nat, retryAfterSeconds : Nat]

\* What was let through for s and ip in the window's length that starts at t.
AdmittedWithin(s, ip, t) ==
  {e \in admitted : e.scope = s /\ e.ip = ip /\ t <= e.at /\ e.at < t + WindowMs[s]}

\* The price of fixed windows: a burst across the edge of two of them, and always less
\* than two windows' worth in any stretch of time as long as a window, because a window is
\* opened by a request: the stretch misses that of the first, or all of the second.  (A
\* stretch that holds a request holds no more than the one that starts at its first request.)
BurstIsBounded ==
  \A e \in admitted :
    Cardinality(AdmittedWithin(e.scope, e.ip, e.at)) < 2 * MaxRequests[e.scope]

\* A client is turned away for its own requests only: within the last window's length it
\* was let through maxRequests times in this scope, whatever others sent and whatever it
\* sent to the other scope.  Retry-After is enough, and a second less is too soon: waiting
\* as long as it was told it is admitted, unless somebody at its address came first, and
\* coming back a whole second early it is refused.
RefusalIsEarned ==
  LET s      == refused.key[1]
      ip     == refused.key[2]
      told   == refused.retryAfterSeconds
      waited == now - refused.at
  IN  told > 0 =>
        /\ Cardinality(AdmittedWithin(s, ip, refused.at - WindowMs[s] + 1)) >= MaxRequests[s]
        /\ (\A e \in admitted : e.scope = s /\ e.ip = ip => e.at <= refused.at) =>
              /\ waited >= told * Second => ~IsFull(s, ip)
              /\ waited <= (told - 1) * Second => IsFull(s, ip)

-----------------------------------------------------------------------------
(* The inductive invariant behind BurstIsBounded.                          *)

\* Admissions lie in their window and are numbered within it, from the one that opened it.
InWindow(e) ==
  /\ e.window <= e.at /\ e.at < e.window + WindowMs[e.scope] /\ e.at <= now
  /\ e.nth \in 1..MaxRequests[e.scope]
  /\ e.nth = 1 => e.at = e.window

SameClient(e, f) == e.scope = f.scope /\ e.ip = f.ip

\* The number of an admission tells it from the others of its window, and two windows
\* of a client are a window's length apart.
Separated(e, f) ==
  SameClient(e, f) =>
    /\ e.window = f.window /\ e.nth = f.nth => e = f
    /\ \/ e.window = f.window
       \/ e.window + WindowMs[e.scope] <= f.window
       \/ f.window + WindowMs[e.scope] <= e.window

\* The bucket is the latest window, and count the last number given in it.
Latest(e) ==
  LET b == buckets[Key(e.scope, e.ip)]
  IN  /\ b.known
      /\ \/ e.window = b.windowStartMs /\ e.nth <= b.count
         \/ e.window + WindowMs[e.scope] <= b.windowStartMs

WindowsApart ==
  /\ \A k \in Keys : buckets[k].known => buckets[k].windowStartMs <= now /\ buckets[k].count > 0
  /\ \A e \in admitted : InWindow(e) /\ Latest(e)
  /\ \A e, f \in admitted : Separated(e, f)

-----------------------------------------------------------------------------
(* The inductive invariant behind RefusalIsEarned.                         *)

\* What the bucket has counted was let through: each number of its window was given.
WindowIsAccounted ==
  \A s \in Scopes, ip \in Ips :
    LET b == buckets[Key(s, ip)]
    IN  b.known => \A n \in 1..b.count : \E e \in admitted :
                     e.scope = s /\ e.ip = ip /\ e.window = b.windowStartMs /\ e.nth = n

\* Until its client is let through again, the refused bucket stays as full as it was, and
\* Retry-After is what was left of its window, in seconds rounded up.
RefusalStands ==
  LET s  == refused.key[1]
      ip == refused.key[2]
      b  == buckets[Key(s, ip)]
  IN  refused.retryAfterSeconds > 0 =>
        /\ refused.at <= now
        /\ Cardinality(AdmittedWithin(s, ip, refused.at - WindowMs[s] + 1)) >= MaxRequests[s]
        /\ (\A e \in admitted : e.scope = s /\ e.ip = ip => e.at <= refused.at) =>
              /\ b.known /\ b.count >= MaxRequests[s] /\ refused.at < b.windowStartMs + WindowMs[s]
              /\ refused.retryAfterSeconds
                   = (b.windowStartMs + WindowMs[s] - refused.at + Second - 1) \div Second

RefusalInv == IsFiniteSet(admitted) /\ WindowIsAccounted /\ RefusalStands
=============================================================================
