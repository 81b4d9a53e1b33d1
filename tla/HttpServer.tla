----------------------------- MODULE HttpServer -----------------------------
(***************************************************************************)
(* A request's way through apps/api/src/api/server.ts: the rate-limit      *)
(* hook, the authentication hook, the handler, the error handler, and the  *)
(* onResponse hook with the counters of observability/metrics.ts, which    *)
(* GET /metrics renders.  Requests overlap; the code between two awaits of *)
(* one is an action.                                                       *)
(*                                                                         *)
(* Calls are few examples of the routes there are: Fastify applies the     *)
(* hooks to all of them, and to calls that match no route.  The router     *)
(* matches the decoded path and the hooks test the path as it was sent, so *)
(* a call has both: its label, of the route, and its path.  An access      *)
(* token is abstracted to the API key it was issued for (TokenAuth models  *)
(* tokens), the limiter to what a window has left (FixedWindowLimiter).    *)
(***************************************************************************)
EXTENDS Integers, FiniteSets

CONSTANTS
  Requests,
  ApiKeys,
  Admins,        \* the API keys with the role ADMIN
  Calls,         \* what clients call: a member of AllCalls each
  MaxRequests,   \* rateLimit.authToken and rateLimit.write
  MaxWindow,     \* bound on the windows of the limiter
  Bounds,        \* REQUEST_DURATION_BUCKETS_SECONDS
  Durations,     \* how long a request may take
  Nobody,        \* no API key, no identity
  Forged         \* a bearer that does not verify, an API key that is unknown

TOKEN_ENDPOINT == "/v1/auth/token"
V1Labels == {TOKEN_ENDPOINT, "/v1/transactions", "/v1/ledgers/:id", "/v1/admin/api-keys", "/v1/none"}
Labels   == V1Labels \cup {"/ready", "/metrics", "/none"}
AllCalls == [method : {"GET", "POST"}, label : Labels, path : Labels]
Scopes   == {"auth_token", "write"}

\* label stands for resolveRouteLabel: the template of the route, the path where there is none.
HasRoute(call) ==
  \/ call.method = "GET" /\ call.label \in {"/ready", "/metrics", "/v1/ledgers/:id", "/v1/admin/api-keys"}
  \/ call.method = "POST" /\ call.label \in {TOKEN_ENDPOINT, "/v1/transactions", "/v1/admin/api-keys"}

\* A path is spelled as the route is, or with escapes: then it is like no route's, with /v1/ in
\* front or not.
Spelled(call) ==
  call.path = call.label \/ (HasRoute(call) /\ call.label \in V1Labels /\ call.path \in {"/v1/none", "/none"})

ASSUME KeysType == Admins \subseteq ApiKeys /\ Nobody \notin ApiKeys /\ Forged \notin ApiKeys /\ Nobody # Forged
ASSUME RequestsFinite == IsFiniteSet(Requests)
ASSUME CallsType == Calls \subseteq AllCalls /\ \A call \in Calls : Spelled(call)
ASSUME PolicyType == MaxRequests \in [Scopes -> Nat \ {0}] /\ MaxWindow \in Nat
ASSUME DurationsType == Bounds \subseteq Nat /\ Durations \subseteq Nat

VARIABLES
  active,    \* the API keys that are not revoked
  issued,    \* the API keys somebody has an access token for
  limiter,   \* the window, and what each scope has used of it
  request,   \* where each request is
  metrics,   \* the registry: ApiMetrics
  scraped    \* the document the last GET /metrics was given

vars == <<active, issued, limiter, request, metrics, scraped>>

Idle == [stage |-> "new", call |-> [method |-> "GET", label |-> "/none", path |-> "/none"], credential |-> Nobody,
         revoked |-> FALSE, identity |-> Nobody, window |-> 0, looked |-> FALSE, token |-> FALSE, status |-> 0]

Empty == [x \in {} |-> 0]

Init ==
  /\ active = ApiKeys
  /\ issued \in SUBSET ApiKeys      \* a token outlives the process that issued it
  /\ limiter = [window |-> 0, used |-> [s \in Scopes |-> 0]]
  /\ request = [r \in Requests |-> Idle]
  /\ metrics = [requestTotal |-> Empty, requestDuration |-> Empty, authFailures |-> Empty, tokenFailures |-> Empty]
  /\ scraped = {}

-----------------------------------------------------------------------------
(* What the hooks make of a path.                                          *)

InV1(call) == call.path \in V1Labels

\* resolveRateLimitTarget
Limited(call) == call.method = "POST" /\ InV1(call)
Scope(call)   == IF call.path = TOKEN_ENDPOINT THEN "auth_token" ELSE "write"

\* Credentials a client may send: an API key to the token endpoint, a bearer elsewhere; no
\* hook reads those of other paths.
Presentable(call) ==
  IF ~InV1(call) THEN {Nobody}
  ELSE {Nobody, Forged} \cup (IF call.path = TOKEN_ENDPOINT THEN ApiKeys ELSE issued)

-----------------------------------------------------------------------------
(* Errors.                                                                 *)

\* What a hook or a handler may throw.  A code of three digits is its number, another one 0;
\* a domain error's httpStatus is chosen by @luxledger/core.
RateLimitExceeded == [type |-> "rate limit", n |-> 0]
Unauthorized      == [type |-> "domain", n |-> 401]
Forbidden         == [type |-> "domain", n |-> 403]
NotJson           == [type |-> "coded", n |-> 0]       \* FST_ERR_CTP_INVALID_JSON_BODY
DatabaseErrors    == {[type |-> "coded", n |-> 0], [type |-> "other", n |-> 0]}
HandlerErrors     == [type : {"validation"}, n : {0}] \cup [type : {"domain"}, n : {401, 409}]
                       \cup [type : {"coded"}, n : {0, 200, 503}]

\* The error handler with sendDomainError.
StatusOf(e) ==
  CASE e.type = "rate limit"                      -> 429
    [] e.type = "validation"                      -> 400
    [] e.type = "domain"                          -> e.n
    [] e.type = "coded" /\ e.n \in 400..599       -> e.n
    [] OTHER                                      -> 500

Replied(q, status) == [q EXCEPT !.stage = "replied", !.status = status]
Threw(q, e)        == Replied(q, StatusOf(e))

-----------------------------------------------------------------------------
(* Hooks.                                                                  *)

\* The request once the hooks have run up to the first await.  No header is an error, and so
\* is a bearer that does not verify; an API key is looked up whatever it is.
Checked(q) ==
  IF ~InV1(q.call) THEN [q EXCEPT !.stage = "handling"]
  ELSE IF q.credential = Nobody \/ (q.credential = Forged /\ q.call.path # TOKEN_ENDPOINT)
    THEN Threw(q, Unauthorized)
  ELSE [q EXCEPT !.stage = "authenticating", !.looked = TRUE]

\* Wrong on purpose, for a mutant: the limiter is asked once the caller is known.
ArriveUnlimited(r, call, credential) ==
  /\ request[r].stage = "new"
  /\ credential \in Presentable(call)
  /\ LET q == [Idle EXCEPT !.call = call, !.credential = credential, !.window = limiter.window,
                           !.revoked = credential \notin active]
     IN  /\ request' = [request EXCEPT ![r] = Checked(q)]
         /\ UNCHANGED limiter
  /\ UNCHANGED <<active, issued, metrics, scraped>>

\* Wrong on purpose, for a mutant: off by one.
ArriveOverLimit(r, call, credential) ==
  /\ request[r].stage = "new"
  /\ credential \in Presentable(call)
  /\ LET q == [Idle EXCEPT !.call = call, !.credential = credential, !.window = limiter.window,
                           !.revoked = credential \notin active]
         s == Scope(call)
     IN  \/ /\ Limited(call) /\ limiter.used[s] > MaxRequests[s]
            /\ request' = [request EXCEPT ![r] = Threw(q, RateLimitExceeded)]
            /\ UNCHANGED limiter
         \/ /\ Limited(call) /\ limiter.used[s] <= MaxRequests[s]
            /\ request' = [request EXCEPT ![r] = Checked(q)]
            /\ limiter' = [limiter EXCEPT !.used[s] = @ + 1]
         \/ /\ ~Limited(call)
            /\ request' = [request EXCEPT ![r] = Checked(q)]
            /\ UNCHANGED limiter
  /\ UNCHANGED <<active, issued, metrics, scraped>>

Arrive(r, call, credential) ==
  /\ request[r].stage = "new"
  /\ credential \in Presentable(call)
  /\ LET q == [Idle EXCEPT !.call = call, !.credential = credential, !.window = limiter.window,
                           !.revoked = credential \notin active]
         s == Scope(call)
     IN  \/ /\ Limited(call) /\ limiter.used[s] >= MaxRequests[s]
            /\ request' = [request EXCEPT ![r] = Threw(q, RateLimitExceeded)]
            /\ UNCHANGED limiter
         \/ /\ Limited(call) /\ limiter.used[s] < MaxRequests[s]
            /\ request' = [request EXCEPT ![r] = Checked(q)]
            /\ limiter' = [limiter EXCEPT !.used[s] = @ + 1]
         \/ /\ ~Limited(call)
            /\ request' = [request EXCEPT ![r] = Checked(q)]
            /\ UNCHANGED limiter
  /\ UNCHANGED <<active, issued, metrics, scraped>>

\* The request's identity is its own credential's.
Identified(q) ==
  LET known == [q EXCEPT !.identity = q.credential]
  IN  IF q.call.path = "/v1/admin/api-keys" /\ q.credential \notin Admins
        THEN Threw(known, Forbidden) ELSE [known EXCEPT !.stage = "handling"]

\* Wrong on purpose, for a mutant: a verified bearer is taken at its word.
AuthenticateOnce(r) ==
  LET q == request[r]
  IN  /\ q.stage = "authenticating"
      /\ request' = [request EXCEPT ![r] =
                       IF q.credential \in active \/ q.call.path # TOKEN_ENDPOINT
                         THEN Identified(q) ELSE Threw(q, Unauthorized)]
      /\ UNCHANGED <<active, issued, limiter, metrics, scraped>>

\* authenticate of an API key, assertAccessTokenIsActive of a bearer.
Authenticate(r) ==
  LET q == request[r]
  IN  /\ q.stage = "authenticating"
      /\ request' = [request EXCEPT ![r] =
                       IF q.credential \in active THEN Identified(q) ELSE Threw(q, Unauthorized)]
      /\ UNCHANGED <<active, issued, limiter, metrics, scraped>>

AuthenticationFails(r) ==
  /\ request[r].stage = "authenticating"
  /\ \E e \in DatabaseErrors : request' = [request EXCEPT ![r] = Threw(@, e)]
  /\ UNCHANGED <<active, issued, limiter, metrics, scraped>>

-----------------------------------------------------------------------------
(* Handlers.                                                               *)

Handling(r, label) ==
  /\ request[r].stage = "handling" /\ request[r].call.label = label /\ HasRoute(request[r].call)

\* Fastify's own answer to a call without a route; the hooks have run.
NotFound(r) ==
  /\ request[r].stage = "handling" /\ ~HasRoute(request[r].call)
  /\ request' = [request EXCEPT ![r] = Replied(@, 404)]
  /\ UNCHANGED <<active, issued, limiter, metrics, scraped>>

\* A body that is no JSON, found before the handler runs.
BodyRejected(r) ==
  /\ request[r].stage = "handling" /\ request[r].call.method = "POST"
  /\ request' = [request EXCEPT ![r] = Threw(@, NotJson)]
  /\ UNCHANGED <<active, issued, limiter, metrics, scraped>>

Ready(r) ==
  /\ Handling(r, "/ready")
  /\ \E status \in {200, 503} : request' = [request EXCEPT ![r] = Replied(@, status)]
  /\ UNCHANGED <<active, issued, limiter, metrics, scraped>>

\* A token of no identity verifies for no key.
IssueToken(r) ==
  /\ Handling(r, TOKEN_ENDPOINT)
  /\ issued' = issued \cup ({request[r].identity} \cap ApiKeys)
  /\ request' = [request EXCEPT ![r] = [Replied(@, 200) EXCEPT !.token = TRUE]]
  /\ UNCHANGED <<active, limiter, metrics, scraped>>

\* A handler of registerLedgerAdapter.
Serve(r) ==
  /\ \E label \in V1Labels \ {TOKEN_ENDPOINT} : Handling(r, label)
  /\ \/ request' = [request EXCEPT ![r] = Replied(@, 200)]
     \/ \E e \in HandlerErrors : request' = [request EXCEPT ![r] = Threw(@, e)]
  /\ UNCHANGED <<active, issued, limiter, metrics, scraped>>

-----------------------------------------------------------------------------
(* Metrics.                                                                *)

\* upsertCounter
Upsert(store, key) ==
  [k \in DOMAIN store \cup {key} |->
     IF k # key THEN store[k] ELSE IF key \in DOMAIN store THEN store[key] + 1 ELSE 1]

\* The histogram's part of observeRequest.
Observe(histograms, key, duration) ==
  LET series == IF key \in DOMAIN histograms THEN histograms[key]
                ELSE [bucketCounts |-> [b \in Bounds |-> 0], count |-> 0, sum |-> 0]
      later  == [bucketCounts |-> [b \in Bounds |-> series.bucketCounts[b] + (IF duration <= b THEN 1 ELSE 0)],
                 count |-> series.count + 1, sum |-> series.sum + duration]
  IN  [k \in DOMAIN histograms \cup {key} |-> IF k = key THEN later ELSE histograms[k]]

\* Wrong on purpose, for a mutant: a client that is turned away at the limit is not counted.
RespondedBelow429(r, duration) ==
  LET q   == request[r]
      key == <<q.call.label, q.status>>
  IN  /\ q.stage = "replied"
      /\ request' = [request EXCEPT ![r].stage = "counted"]
      /\ metrics' = [requestTotal    |-> Upsert(metrics.requestTotal, key),
                     requestDuration |-> Observe(metrics.requestDuration, key, duration),
                     authFailures    |-> IF q.status \in {401, 403} /\ q.call.label \in V1Labels
                                           THEN Upsert(metrics.authFailures, key) ELSE metrics.authFailures,
                     tokenFailures   |-> IF q.status >= 400 /\ q.status # 429 /\ q.call.label = TOKEN_ENDPOINT
                                           THEN Upsert(metrics.tokenFailures, q.status) ELSE metrics.tokenFailures]
      /\ UNCHANGED <<active, issued, limiter, scraped>>

\* The onResponse hook.
Responded(r, duration) ==
  LET q   == request[r]
      key == <<q.call.label, q.status>>
  IN  /\ q.stage = "replied"
      /\ request' = [request EXCEPT ![r].stage = "counted"]
      /\ metrics' = [requestTotal    |-> Upsert(metrics.requestTotal, key),
                     requestDuration |-> Observe(metrics.requestDuration, key, duration),
                     authFailures    |-> IF q.status \in {401, 403} /\ q.call.label \in V1Labels
                                           THEN Upsert(metrics.authFailures, key) ELSE metrics.authFailures,
                     tokenFailures   |-> IF q.status >= 400 /\ q.call.label = TOKEN_ENDPOINT
                                           THEN Upsert(metrics.tokenFailures, q.status) ELSE metrics.tokenFailures]
      /\ UNCHANGED <<active, issued, limiter, scraped>>

Sample(name, labels, le, value) == [name |-> name, labels |-> labels, le |-> le, value |-> value]
Unbounded == -1     \* le="+Inf", and what has no le
NoRoute   == "none" \* the route of a series without that label

\* renderPrometheus
RenderPrometheus ==
  {Sample("requests", key, Unbounded, metrics.requestTotal[key]) : key \in DOMAIN metrics.requestTotal}
  \cup {Sample("bucket", x[1], x[2], metrics.requestDuration[x[1]].bucketCounts[x[2]])
          : x \in (DOMAIN metrics.requestDuration) \X Bounds}
  \cup (UNION {LET series == metrics.requestDuration[key]
               IN  {Sample("bucket", key, Unbounded, series.count), Sample("sum", key, Unbounded, series.sum),
                    Sample("count", key, Unbounded, series.count)} : key \in DOMAIN metrics.requestDuration})
  \cup {Sample("auth_failures", key, Unbounded, metrics.authFailures[key]) : key \in DOMAIN metrics.authFailures}
  \cup {Sample("token_failures", <<NoRoute, s>>, Unbounded, metrics.tokenFailures[s])
          : s \in DOMAIN metrics.tokenFailures}

Scrape(r) ==
  /\ Handling(r, "/metrics")
  /\ scraped' = RenderPrometheus
  /\ request' = [request EXCEPT ![r] = Replied(@, 200)]
  /\ UNCHANGED <<active, issued, limiter, metrics>>

-----------------------------------------------------------------------------
(* The rest of the world.                                                  *)

\* A reply its client did not wait for: whether the hook runs is Fastify's.
ClientLeaves(r) ==
  /\ request[r].stage = "replied"
  /\ request' = [request EXCEPT ![r].stage = "abandoned"]
  /\ UNCHANGED <<active, issued, limiter, metrics, scraped>>

\* POST /v1/admin/api-keys/:id/revoke, a replaced sandbox, an operator.
Revoke(k) ==
  /\ k \in active
  /\ active' = active \ {k}
  /\ UNCHANGED <<issued, limiter, request, metrics, scraped>>

NextWindow ==
  /\ limiter.window < MaxWindow
  /\ limiter' = [window |-> limiter.window + 1, used |-> [s \in Scopes |-> 0]]
  /\ UNCHANGED <<active, issued, request, metrics, scraped>>

Next ==
  \/ \E r \in Requests :
       \/ \E call \in Calls, credential \in ApiKeys \cup {Nobody, Forged} : Arrive(r, call, credential)
       \/ Authenticate(r) \/ AuthenticationFails(r)
       \/ NotFound(r) \/ BodyRejected(r) \/ Ready(r) \/ IssueToken(r) \/ Serve(r) \/ Scrape(r)
       \/ \E duration \in Durations : Responded(r, duration)
       \/ ClientLeaves(r)
  \/ \E k \in active : Revoke(k)
  \/ NextWindow

Spec == Init /\ [][Next]_vars

-----------------------------------------------------------------------------
(* Properties.                                                             *)

Stages    == {"new", "authenticating", "handling", "replied", "counted", "abandoned"}
Caller    == ApiKeys \cup {Nobody, Forged}
Request   == [stage : Stages, call : AllCalls, credential : Caller, revoked : BOOLEAN, identity : Caller,
              window : Nat, looked : BOOLEAN, token : BOOLEAN, status : Nat]

TypeOK ==
  /\ active \subseteq ApiKeys /\ issued \subseteq ApiKeys
  /\ limiter.window \in 0..MaxWindow
  /\ \A s \in Scopes : limiter.used[s] \in 0..MaxRequests[s]
  /\ request \in [Requests -> Request]
  /\ \A key \in DOMAIN metrics.requestTotal : metrics.requestTotal[key] \in Nat \ {0}
  /\ \A key \in DOMAIN metrics.authFailures : metrics.authFailures[key] \in Nat \ {0}
  /\ \A status \in DOMAIN metrics.tokenFailures : metrics.tokenFailures[status] \in Nat \ {0}
  /\ DOMAIN metrics.requestDuration = DOMAIN metrics.requestTotal

\* A call that is sent to a path of /v1 is handled for the caller whose credential it carried,
\* whatever the requests beside it carry; and not for a key that was revoked before the call
\* came, nor, on an admin path, for one that is no ADMIN.
HandlerActsAsCaller ==
  \A r \in Requests :
    LET q == request[r]
    IN  InV1(q.call) /\ (q.stage = "handling" \/ q.token) =>
          /\ q.identity = q.credential /\ q.identity \in ApiKeys
          /\ ~q.revoked
          /\ q.call.path = "/v1/admin/api-keys" => q.identity \in Admins

\* The limit is in front of the database: of the calls of a window no more cause a key to
\* be looked up than the limiter admits.
DatabaseIsShielded ==
  \A s \in Scopes, w \in 0..MaxWindow :
    Cardinality({r \in Requests : /\ request[r].looked /\ request[r].window = w
                                  /\ Limited(request[r].call) /\ Scope(request[r].call) = s}) <= MaxRequests[s]

Ended == {r \in Requests : request[r].stage = "counted"}

\* How often each series occurs: series is a function of the requests to count.
CountBy(series) ==
  [key \in {series[r] : r \in DOMAIN series} |-> Cardinality({r \in DOMAIN series : series[r] = key})]

Served    == [r \in Ended |-> <<request[r].call.label, request[r].status>>]
Exchanges == {r \in Ended : request[r].call.label = TOKEN_ENDPOINT}
Failures  == [r \in {x \in Exchanges : ~request[x].token} |-> request[r].status]

\* A document's totals, durations and buckets are of one moment.
Agrees(document) ==
  \A x, y \in document : x.labels = y.labels =>
    /\ x.name = "requests" /\ y.name = "count" => x.value = y.value
    /\ x.name = "requests" /\ y.name = "auth_failures" => x.value = y.value
    /\ x.name = "bucket" /\ y.name = "count" => x.value <= y.value
    /\ x.name = "bucket" /\ y.name = "bucket" /\ (x.le = Unbounded \/ (y.le # Unbounded /\ y.le <= x.le))
         => y.value <= x.value

\* What can go wrong with an exchange of an API key for a token (the limit, the credential,
\* the database, the method, the body) is counted as a token-issuance failure under its
\* status, once, and a token that was issued is not; a request is in exactly one series of
\* the totals, once.  A scrape is of one moment although requests end all the time: its
\* totals, durations and buckets agree with each other, and the authentication failures
\* with the totals.
MetricsAreExact ==
  /\ metrics.requestTotal = CountBy(Served)
  /\ metrics.tokenFailures = CountBy(Failures)
  /\ Agrees(scraped)
=============================================================================
