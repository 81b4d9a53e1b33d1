-------------------------- MODULE HttpServerProofs --------------------------
(* Handlers act for their own callers, the limit shields the database and    *)
(* the metrics count exactly, for any number of requests, keys, calls and    *)
(* windows.                                                                  *)
EXTENDS HttpServer, FiniteSetTheorems, TLAPS


-----------------------------------------------------------------------------
(* What holds of each request.                                             *)

\* What HandlerActsAsCaller says of a request whose handler runs or has issued a token.
Acts(q) ==
  /\ q.identity = q.credential /\ q.identity \in ApiKeys
  /\ ~q.revoked
  /\ q.call.path = "/v1/admin/api-keys" => q.identity \in Admins

\* A revoked key stays revoked, which is why the check of the hook settles what was true
\* when the request came.
Proper(q, live, now) ==
  /\ q \in Request
  /\ q.stage = "new" => ~q.looked
  /\ q.stage = "authenticating" => InV1(q.call) /\ ~q.token
  /\ q.revoked => q.credential \notin live
  /\ InV1(q.call) /\ (q.stage = "handling" \/ q.token) => Acts(q)
  /\ q.looked => q.window <= now

Controlled ==
  /\ active \subseteq ApiKeys /\ issued \subseteq ApiKeys
  /\ limiter \in [window : 0..MaxWindow, used : [Scopes -> Nat]]
  /\ \A s \in Scopes : limiter.used[s] <= MaxRequests[s]
  /\ request \in [Requests -> Request]
  /\ \A r \in Requests : Proper(request[r], active, limiter.window)

Errors == [type : {"rate limit", "validation", "domain", "coded", "other"}, n : Nat]

LEMMA StatusIsNat == \A e \in Errors : StatusOf(e) \in Nat
<1> SUFFICES ASSUME NEW e \in Errors PROVE StatusOf(e) \in Nat
  OBVIOUS
<1>1. e.n \in Nat
  BY DEF Errors
<1>2. CASE e.type = "rate limit"
  <2>1. StatusOf(e) = 429
    BY Zenon, <1>2 DEF StatusOf
  <2> QED BY <2>1
<1>3. CASE e.type = "validation"
  <2>1. StatusOf(e) = 400
    BY Zenon, <1>3 DEF StatusOf
  <2> QED BY <2>1
<1>4. CASE e.type = "domain"
  <2>1. StatusOf(e) = e.n
    BY Zenon, <1>4 DEF StatusOf
  <2> QED BY <1>1, <2>1
<1>5. CASE e.type = "coded" /\ e.n \in 400..599
  <2>1. StatusOf(e) = e.n
    BY Zenon, <1>5 DEF StatusOf
  <2> QED BY <1>1, <2>1
<1>6. CASE /\ e.type \notin {"rate limit", "validation", "domain"}
           /\ ~(e.type = "coded" /\ e.n \in 400..599)
  <2>1. StatusOf(e) = 500
    BY Zenon, <1>6 DEF StatusOf
  <2> QED BY <2>1
<1> QED BY <1>2, <1>3, <1>4, <1>5, <1>6

LEMMA ErrorsAreErrors ==
  /\ RateLimitExceeded \in Errors /\ Unauthorized \in Errors /\ Forbidden \in Errors /\ NotJson \in Errors
  /\ DatabaseErrors \subseteq Errors /\ HandlerErrors \subseteq Errors
<1>1. /\ RateLimitExceeded \in Errors /\ Unauthorized \in Errors /\ Forbidden \in Errors
      /\ NotJson \in Errors /\ DatabaseErrors \subseteq Errors
  BY DEF Errors, RateLimitExceeded, Unauthorized, Forbidden, NotJson, DatabaseErrors
<1>2. HandlerErrors \subseteq Errors
  <2> SUFFICES ASSUME NEW e \in HandlerErrors PROVE e \in Errors
    OBVIOUS
  <2>1. /\ e = [type |-> e.type, n |-> e.n]
        /\ e.type \in {"validation", "domain", "coded"}
        /\ e.n \in {0, 200, 401, 409, 503}
    BY DEF HandlerErrors
  <2>2. e.n \in Nat
    BY <2>1
  <2>3. e = [type |-> e.type, n |-> e.n] /\ e.type \in {"validation", "domain", "coded"}
    BY <2>1
  <2> QED BY <2>2, <2>3 DEF Errors
<1> QED BY <1>1, <1>2

\* A reply changes nothing of what a request has found out.
LEMMA ReplyIsProper ==
  ASSUME NEW q, NEW live, NEW now, Proper(q, live, now), NEW status \in Nat
  PROVE  Proper(Replied(q, status), live, now)
<1> DEFINE p == Replied(q, status)
<1>1. p \in Request
  BY DEF Proper, Replied, Request, Stages
<1>2. /\ p.stage = "replied" /\ p.call = q.call /\ p.credential = q.credential /\ p.revoked = q.revoked
      /\ p.identity = q.identity /\ p.window = q.window /\ p.looked = q.looked /\ p.token = q.token
  BY DEF Proper, Replied, Request
<1> QED BY <1>1, <1>2 DEF Proper, Acts

LEMMA ThrowIsProper ==
  ASSUME NEW q, NEW live, NEW now, Proper(q, live, now), NEW e \in Errors
  PROVE  Proper(Threw(q, e), live, now)
BY StatusIsNat, ReplyIsProper DEF Threw

\* Revocations and new windows disturb nothing.
LEMMA ProperPersists ==
  ASSUME NEW q, NEW live, NEW now \in Nat, Proper(q, live, now),
         NEW laterLive, laterLive \subseteq live, NEW laterNow \in Nat, now <= laterNow
  PROVE  Proper(q, laterLive, laterNow)
<1>1. q.window \in Nat
  BY DEF Proper, Request
<1>2. q.looked => q.window <= laterNow
  BY <1>1 DEF Proper
<1> QED BY <1>2 DEF Proper, Acts

\* What an action does to the limiter.
LimiterKept ==
  /\ limiter' \in [window : 0..MaxWindow, used : [Scopes -> Nat]]
  /\ limiter.window <= limiter'.window
  /\ \A s \in Scopes : limiter'.used[s] <= MaxRequests[s]

\* An action that moves one request to where Proper holds of it preserves the invariant.
LEMMA OneRequest ==
  ASSUME Controlled, NEW r \in Requests, NEW x, Proper(x, active, limiter.window),
         request' = [request EXCEPT ![r] = x],
         active' \subseteq active, issued' \subseteq ApiKeys, LimiterKept
  PROVE  Controlled'
<1>1. limiter.window \in Nat /\ limiter'.window \in Nat /\ limiter.window <= limiter'.window
  BY PolicyType DEF Controlled, LimiterKept
<1>2. request' \in [Requests -> Request]
  BY DEF Controlled, Proper
<1>3. ASSUME NEW p \in Requests PROVE Proper(request'[p], active', limiter'.window)
  <2>1. request'[p] = x \/ request'[p] = request[p]
    BY DEF Controlled
  <2>2. Proper(request'[p], active, limiter.window)
    BY <2>1 DEF Controlled
  <2> QED BY <1>1, <2>2, ProperPersists
<1>4. /\ active' \subseteq ApiKeys
      /\ limiter' \in [window : 0..MaxWindow, used : [Scopes -> Nat]]
      /\ \A s \in Scopes : limiter'.used[s] <= MaxRequests[s]
  BY DEF Controlled, LimiterKept
<1> QED BY <1>2, <1>3, <1>4 DEF Controlled

LEMMA LimiterStays ==
  ASSUME Controlled, UNCHANGED limiter
  PROVE  LimiterKept
BY PolicyType DEF Controlled, LimiterKept

-----------------------------------------------------------------------------
(* Each action keeps the invariant.                                        *)

\* The request the hooks are given.
Arriving(call, credential) ==
  [Idle EXCEPT !.call = call, !.credential = credential, !.window = limiter.window,
               !.revoked = credential \notin active]

LEMMA ArrivingIsProper ==
  ASSUME Controlled, NEW call \in Calls, NEW credential \in Caller
  PROVE  /\ Proper(Arriving(call, credential), active, limiter.window)
         /\ Arriving(call, credential).stage = "new" /\ ~Arriving(call, credential).token
         /\ Arriving(call, credential).window = limiter.window
         /\ Arriving(call, credential).call = call
<1> DEFINE q == Arriving(call, credential)
<1>1. call \in AllCalls /\ limiter.window \in Nat /\ Idle.call \in AllCalls
  BY CallsType, PolicyType DEF Controlled, Idle, AllCalls, Labels
<1>2. /\ q.stage = "new" /\ q.call = call /\ q.credential = credential /\ q.window = limiter.window
      /\ q.revoked = (credential \notin active) /\ q.looked = FALSE /\ q.token = FALSE
  BY DEF Arriving, Idle
<1>3. q \in Request
  BY <1>1 DEF Arriving, Idle, Request, Stages, Caller
<1> QED BY <1>2, <1>3 DEF Proper

LEMMA CheckedIsProper ==
  ASSUME NEW q, NEW live, NEW now \in Nat, Proper(q, live, now),
         q.stage = "new", ~q.token, q.window = now
  PROVE  Proper(Checked(q), live, now)
<1> DEFINE handled == [q EXCEPT !.stage = "handling"]
           looking == [q EXCEPT !.stage = "authenticating", !.looked = TRUE]
<1>1. Proper(Threw(q, Unauthorized), live, now)
  BY ErrorsAreErrors, ThrowIsProper
<1>2. ASSUME ~InV1(q.call) PROVE Proper(handled, live, now)
  <2>1. handled \in Request
    BY DEF Proper, Request, Stages
  <2>2. /\ handled.stage = "handling" /\ handled.call = q.call /\ handled.credential = q.credential
        /\ handled.revoked = q.revoked /\ handled.window = q.window /\ handled.looked = q.looked
    BY DEF Proper, Request
  <2> QED BY <1>2, <2>1, <2>2 DEF Proper
<1>3. ASSUME InV1(q.call) PROVE Proper(looking, live, now)
  <2>1. looking \in Request
    BY DEF Proper, Request, Stages
  <2>2. /\ looking.stage = "authenticating" /\ looking.call = q.call /\ looking.credential = q.credential
        /\ looking.revoked = q.revoked /\ looking.window = q.window /\ looking.token = q.token
    BY DEF Proper, Request
  <2> QED BY <1>3, <2>1, <2>2 DEF Proper
<1> QED BY <1>1, <1>2, <1>3 DEF Checked

LEMMA IdentifiedIsProper ==
  ASSUME NEW q, NEW live, NEW now, Proper(q, live, now), live \subseteq ApiKeys,
         q.stage = "authenticating", q.credential \in live
  PROVE  Proper(Identified(q), live, now)
<1> DEFINE known  == [q EXCEPT !.identity = q.credential]
           acting == [known EXCEPT !.stage = "handling"]
<1>1. known \in Request /\ acting \in Request
  BY DEF Proper, Request, Stages
<1>2. /\ known.stage = "authenticating" /\ known.call = q.call /\ known.credential = q.credential
      /\ known.revoked = q.revoked /\ known.window = q.window /\ known.looked = q.looked
      /\ known.token = q.token
  BY DEF Proper, Request
<1>3. /\ acting.stage = "handling" /\ acting.call = q.call /\ acting.credential = q.credential
      /\ acting.revoked = q.revoked /\ acting.window = q.window /\ acting.looked = q.looked
      /\ acting.token = q.token /\ acting.identity = q.credential
  BY DEF Proper, Request
<1>4. Proper(Threw(known, Forbidden), live, now)
  <2>1. Proper(known, live, now)
    BY <1>1, <1>2 DEF Proper
  <2> QED BY <2>1, ErrorsAreErrors, ThrowIsProper
<1>5. ASSUME ~(q.call.path = "/v1/admin/api-keys" /\ q.credential \notin Admins)
      PROVE  Proper(acting, live, now)
  <2>1. Acts(acting)
    BY <1>3, <1>5 DEF Acts, Proper
  <2> QED BY <1>1, <1>3, <2>1 DEF Proper
<1> QED BY <1>4, <1>5 DEF Identified

LEMMA ArriveKeeps ==
  ASSUME Controlled, NEW r \in Requests, NEW call \in Calls, NEW credential \in ApiKeys \cup {Nobody, Forged},
         Arrive(r, call, credential)
  PROVE  Controlled'
<1> DEFINE q == Arriving(call, credential)
           s == Scope(call)
<1>1. Proper(q, active, limiter.window) /\ limiter.window \in Nat
  BY ArrivingIsProper, PolicyType DEF Controlled, Caller
<1>2. Proper(Threw(q, RateLimitExceeded), active, limiter.window)
  BY <1>1, ErrorsAreErrors, ThrowIsProper
<1>3. Proper(Checked(q), active, limiter.window)
  BY <1>1, ArrivingIsProper, CheckedIsProper DEF Caller
<1>4. /\ active' = active /\ issued' \subseteq ApiKeys
      /\ \/ request' = [request EXCEPT ![r] = Threw(q, RateLimitExceeded)]
         \/ request' = [request EXCEPT ![r] = Checked(q)]
  BY DEF Arrive, Arriving, Controlled
<1>5. \/ UNCHANGED limiter
      \/ limiter.used[s] < MaxRequests[s] /\ limiter' = [limiter EXCEPT !.used[s] = @ + 1]
  BY DEF Arrive
<1>6. LimiterKept
  <2>1. CASE UNCHANGED limiter
    BY <2>1, LimiterStays
  <2>2. CASE limiter.used[s] < MaxRequests[s] /\ limiter' = [limiter EXCEPT !.used[s] = @ + 1]
    <3>1. s \in Scopes
      BY DEF Scope, Scopes
    <3>2. /\ limiter \in [window : 0..MaxWindow, used : [Scopes -> Nat]]
          /\ MaxRequests \in [Scopes -> Nat \ {0}] /\ MaxWindow \in Nat
          /\ \A x \in Scopes : limiter.used[x] <= MaxRequests[x]
      BY PolicyType DEF Controlled
    <3>3. limiter'.window = limiter.window /\ limiter'.used = [limiter.used EXCEPT ![s] = @ + 1]
      BY <2>2, <3>2
    <3>4. limiter' \in [window : 0..MaxWindow, used : [Scopes -> Nat]]
      BY <2>2, <3>1, <3>2
    <3>5. \A x \in Scopes : limiter'.used[x] <= MaxRequests[x]
      BY <2>2, <3>1, <3>2, <3>3
    <3> QED BY <3>2, <3>3, <3>4, <3>5 DEF LimiterKept
  <2> QED BY <1>5, <2>1, <2>2
<1> QED BY <1>2, <1>3, <1>4, <1>6, OneRequest

\* What a handler's action, a hook's or a client's does to its request.
LEMMA AuthenticateKeeps ==
  ASSUME Controlled, NEW r \in Requests, Authenticate(r) \/ AuthenticationFails(r)
  PROVE  Controlled'
<1>1. Proper(request[r], active, limiter.window) /\ active \subseteq ApiKeys /\ issued \subseteq ApiKeys
  BY DEF Controlled
<1>2. LimiterKept /\ UNCHANGED <<active, issued>>
  BY LimiterStays DEF Authenticate, AuthenticationFails
<1>3. \A e \in Errors : Proper(Threw(request[r], e), active, limiter.window)
  BY <1>1, ThrowIsProper
<1>4. CASE Authenticate(r)
  <2>1. CASE request[r].credential \in active
    <3>1. Proper(Identified(request[r]), active, limiter.window)
      BY <1>1, <1>4, <2>1, IdentifiedIsProper DEF Authenticate
    <3>2. request' = [request EXCEPT ![r] = Identified(request[r])]
      BY <1>4, <2>1 DEF Authenticate
    <3> QED BY <1>1, <1>2, <3>1, <3>2, OneRequest
  <2>2. CASE request[r].credential \notin active
    <3>1. request' = [request EXCEPT ![r] = Threw(request[r], Unauthorized)]
      BY <1>4, <2>2 DEF Authenticate
    <3> QED BY <1>1, <1>2, <1>3, <3>1, ErrorsAreErrors, OneRequest
  <2> QED BY <2>1, <2>2
<1>5. CASE AuthenticationFails(r)
  <2>1. PICK e \in DatabaseErrors : request' = [request EXCEPT ![r] = Threw(request[r], e)]
    BY <1>5 DEF AuthenticationFails
  <2> QED BY <1>1, <1>2, <1>3, <2>1, ErrorsAreErrors, OneRequest
<1> QED BY <1>4, <1>5

Answered(r) == NotFound(r) \/ BodyRejected(r) \/ Ready(r) \/ Serve(r) \/ Scrape(r)

LEMMA AnswerKeeps ==
  ASSUME Controlled, NEW r \in Requests, Answered(r)
  PROVE  Controlled'
<1>1. Proper(request[r], active, limiter.window) /\ active \subseteq ApiKeys /\ issued \subseteq ApiKeys
  BY DEF Controlled
<1>2. LimiterKept /\ UNCHANGED <<active, issued>>
  BY LimiterStays DEF Answered, NotFound, BodyRejected, Ready, Serve, Scrape
<1>3. \/ \E status \in Nat : request' = [request EXCEPT ![r] = Replied(request[r], status)]
      \/ \E e \in Errors : request' = [request EXCEPT ![r] = Threw(request[r], e)]
  <2>1. CASE NotFound(r)
    <3>1. request' = [request EXCEPT ![r] = Replied(request[r], 404)] /\ 404 \in Nat
      BY <2>1 DEF NotFound
    <3> QED BY Zenon, <3>1
  <2>2. CASE BodyRejected(r)
    BY <2>2, ErrorsAreErrors DEF BodyRejected
  <2>3. CASE Ready(r)
    <3>1. PICK status \in {200, 503} : request' = [request EXCEPT ![r] = Replied(request[r], status)]
      BY <2>3 DEF Ready
    <3>2. status \in Nat
      BY <3>1
    <3> QED BY Zenon, <3>1, <3>2
  <2>4. CASE Serve(r)
    BY <2>4, ErrorsAreErrors DEF Serve
  <2>5. CASE Scrape(r)
    BY <2>5 DEF Scrape
  <2> QED BY <2>1, <2>2, <2>3, <2>4, <2>5 DEF Answered
<1>4. CASE \E status \in Nat : request' = [request EXCEPT ![r] = Replied(request[r], status)]
  BY <1>1, <1>2, <1>4, ReplyIsProper, OneRequest
<1>5. CASE \E e \in Errors : request' = [request EXCEPT ![r] = Threw(request[r], e)]
  BY <1>1, <1>2, <1>5, ThrowIsProper, OneRequest
<1> QED BY <1>3, <1>4, <1>5

\* What a request is once its token is issued.
LEMMA TokenedIsProper ==
  ASSUME NEW q, NEW live, NEW now, Proper(q, live, now), q.stage = "replied", InV1(q.call) => Acts(q)
  PROVE  Proper([q EXCEPT !.token = TRUE], live, now)
<1> DEFINE p == [q EXCEPT !.token = TRUE]
<1>1. p \in Request
  BY DEF Proper, Request
<1>2. /\ p.stage = q.stage /\ p.call = q.call /\ p.credential = q.credential /\ p.revoked = q.revoked
      /\ p.identity = q.identity /\ p.window = q.window /\ p.looked = q.looked
  BY DEF Proper, Request
<1> HIDE DEF p
<1>3. InV1(p.call) => Acts(p)
  BY <1>2 DEF Acts
<1> QED BY <1>1, <1>2, <1>3 DEF Proper, p

LEMMA ReplyActs ==
  ASSUME NEW q \in Request, InV1(q.call) => Acts(q), NEW status \in Nat
  PROVE  /\ Replied(q, status).stage = "replied"
         /\ InV1(Replied(q, status).call) => Acts(Replied(q, status))
<1> DEFINE p == Replied(q, status)
<1>1. /\ p.stage = "replied" /\ p.call = q.call /\ p.credential = q.credential
      /\ p.revoked = q.revoked /\ p.identity = q.identity
  BY DEF Replied, Request
<1> HIDE DEF p
<1>2. InV1(p.call) => Acts(p)
  BY <1>1 DEF Acts
<1> QED BY <1>1, <1>2 DEF p

LEMMA IssueTokenKeeps ==
  ASSUME Controlled, NEW r \in Requests, IssueToken(r)
  PROVE  Controlled'
<1> DEFINE q       == request[r]
           replied == Replied(q, 200)
<1>1. Proper(q, active, limiter.window) /\ q.stage = "handling"
  BY DEF Controlled, IssueToken, Handling
<1>2. (InV1(q.call) => Acts(q)) /\ q \in Request
  BY <1>1 DEF Proper
<1>3. Proper(replied, active, limiter.window) /\ replied.stage = "replied" /\ (InV1(replied.call) => Acts(replied))
  BY <1>1, <1>2, ReplyIsProper, ReplyActs
<1>4. Proper([replied EXCEPT !.token = TRUE], active, limiter.window)
  BY Zenon, <1>3, TokenedIsProper
<1>5. LimiterKept /\ UNCHANGED active /\ request' = [request EXCEPT ![r] = [replied EXCEPT !.token = TRUE]]
  BY LimiterStays DEF IssueToken
<1>6. issued' \subseteq ApiKeys
  BY DEF Controlled, IssueToken
<1> QED BY <1>4, <1>5, <1>6, OneRequest

\* The onResponse hook has run, or never will.
LEMMA EndKeeps ==
  ASSUME Controlled, NEW r \in Requests,
         (\E duration \in Durations : Responded(r, duration)) \/ ClientLeaves(r)
  PROVE  Controlled'
<1>1. PICK stage \in {"counted", "abandoned"} :
        request' = [request EXCEPT ![r] = [request[r] EXCEPT !.stage = stage]]
  BY Zenon DEF Responded, ClientLeaves
<1> DEFINE q == request[r]
           p == [q EXCEPT !.stage = stage]
<1>2. Proper(q, active, limiter.window) /\ q \in Request /\ active \subseteq ApiKeys /\ issued \subseteq ApiKeys
  BY DEF Controlled, Proper
<1>3. /\ p \in Request /\ p.stage = stage /\ p.call = q.call /\ p.credential = q.credential
      /\ p.revoked = q.revoked /\ p.identity = q.identity /\ p.token = q.token
      /\ p.looked = q.looked /\ p.window = q.window
  BY <1>2 DEF Request, Stages
<1>4. Proper(p, active, limiter.window)
  BY <1>2, <1>3 DEF Proper, Acts
<1>5. LimiterKept /\ UNCHANGED <<active, issued>>
  BY LimiterStays DEF Responded, ClientLeaves
<1> QED BY <1>1, <1>2, <1>4, <1>5, OneRequest

\* Steps of no request.
LEMMA WorldKeeps ==
  ASSUME Controlled, (\E k \in active : Revoke(k)) \/ NextWindow \/ UNCHANGED vars
  PROVE  Controlled'
<1>1. request' = request /\ active' \subseteq active /\ issued' = issued
  BY DEF Revoke, NextWindow, vars
<1>2. LimiterKept
  <2>1. CASE UNCHANGED limiter
    BY <2>1, LimiterStays
  <2>2. CASE NextWindow
    BY <2>2, PolicyType DEF NextWindow, Controlled, LimiterKept
  <2> QED BY <2>1, <2>2 DEF Revoke, vars
<1>3. limiter.window \in Nat /\ limiter'.window \in Nat /\ limiter.window <= limiter'.window
  BY <1>2, PolicyType DEF Controlled, LimiterKept
<1>4. \A r \in Requests : Proper(request[r], active', limiter'.window)
  BY <1>1, <1>3, ProperPersists DEF Controlled
<1>5. /\ active' \subseteq ApiKeys /\ issued' \subseteq ApiKeys
      /\ limiter' \in [window : 0..MaxWindow, used : [Scopes -> Nat]]
      /\ \A s \in Scopes : limiter'.used[s] <= MaxRequests[s]
      /\ request' \in [Requests -> Request]
  BY <1>1, <1>2 DEF Controlled, LimiterKept
<1> QED BY <1>1, <1>4, <1>5 DEF Controlled

LEMMA InitIsControlled == Init => Controlled
<1> SUFFICES ASSUME Init PROVE Controlled
  OBVIOUS
<1>1. Idle \in Request
  BY DEF Idle, Request, Stages, AllCalls, Labels, Caller
<1>2. Idle.stage = "new" /\ Idle.looked = FALSE /\ Idle.revoked = FALSE /\ Idle.token = FALSE
  BY DEF Idle
<1>3. Proper(Idle, active, limiter.window)
  BY <1>1, <1>2 DEF Proper
<1>4. request \in [Requests -> Request] /\ \A r \in Requests : Proper(request[r], active, limiter.window)
  BY <1>1, <1>3 DEF Init
<1>5. /\ active \subseteq ApiKeys /\ issued \subseteq ApiKeys
      /\ limiter \in [window : 0..MaxWindow, used : [Scopes -> Nat]]
      /\ \A s \in Scopes : limiter.used[s] <= MaxRequests[s]
  BY PolicyType DEF Init
<1> QED BY <1>4, <1>5 DEF Controlled

LEMMA ControlledIsInductive == Controlled /\ [Next]_vars => Controlled'
<1> SUFFICES ASSUME Controlled, [Next]_vars PROVE Controlled'
  OBVIOUS
<1>1. ASSUME NEW r \in Requests, NEW call \in Calls, NEW credential \in ApiKeys \cup {Nobody, Forged},
             Arrive(r, call, credential)
      PROVE  Controlled'
  BY <1>1, ArriveKeeps
<1>2. ASSUME NEW r \in Requests, Authenticate(r) \/ AuthenticationFails(r) PROVE Controlled'
  BY <1>2, AuthenticateKeeps
<1>3. ASSUME NEW r \in Requests, Answered(r) PROVE Controlled'
  BY <1>3, AnswerKeeps
<1>4. ASSUME NEW r \in Requests, IssueToken(r) PROVE Controlled'
  BY <1>4, IssueTokenKeeps
<1>5. ASSUME NEW r \in Requests, (\E duration \in Durations : Responded(r, duration)) \/ ClientLeaves(r)
      PROVE  Controlled'
  BY <1>5, EndKeeps
<1>6. CASE (\E k \in active : Revoke(k)) \/ NextWindow \/ UNCHANGED vars
  BY <1>6, WorldKeeps
<1> QED BY Zenon, <1>1, <1>2, <1>3, <1>4, <1>5, <1>6 DEF Next, Answered

\* The handler of a call sent to a path of /v1 acts for the caller whose credential its own
\* request carried, and never for one who was revoked before it came or, on an admin path,
\* for one who is no ADMIN: however many requests overlap, whatever they carry and whenever
\* keys are revoked.
THEOREM HandlersActForTheirCallers == Spec => []HandlerActsAsCaller
<1>1. Controlled => HandlerActsAsCaller
  BY DEF Controlled, Proper, Acts, HandlerActsAsCaller
<1> QED BY <1>1, InitIsControlled, ControlledIsInductive, PTL DEF Spec

-----------------------------------------------------------------------------
(* Types.                                                                  *)

Positive(store) == \A key \in DOMAIN store : store[key] \in Nat \ {0}

\* What TypeOK says of the registry.
Tallied ==
  /\ Positive(metrics.requestTotal) /\ Positive(metrics.authFailures) /\ Positive(metrics.tokenFailures)
  /\ DOMAIN metrics.requestDuration = DOMAIN metrics.requestTotal

LEMMA UpsertCounts ==
  ASSUME NEW store, NEW key, Positive(store)
  PROVE  Positive(Upsert(store, key)) /\ DOMAIN Upsert(store, key) = DOMAIN store \cup {key}
BY DEF Positive, Upsert

LEMMA TalliedIsInductive == Tallied /\ [Next]_vars => Tallied'
<1> SUFFICES ASSUME Tallied, [Next]_vars PROVE Tallied'
  OBVIOUS
<1>1. CASE UNCHANGED metrics
  BY <1>1 DEF Tallied, Positive
<1>2. ASSUME NEW r \in Requests, NEW duration \in Durations, Responded(r, duration) PROVE Tallied'
  <2> DEFINE q   == request[r]
             key == <<q.call.label, q.status>>
  <2>1. /\ metrics'.requestTotal = Upsert(metrics.requestTotal, key)
        /\ metrics'.requestDuration = Observe(metrics.requestDuration, key, duration)
        /\ metrics'.authFailures \in {metrics.authFailures, Upsert(metrics.authFailures, key)}
        /\ metrics'.tokenFailures \in {metrics.tokenFailures, Upsert(metrics.tokenFailures, q.status)}
    BY <1>2 DEF Responded
  <2>2. DOMAIN Observe(metrics.requestDuration, key, duration) = DOMAIN metrics.requestDuration \cup {key}
    BY DEF Observe
  <2>3. /\ Positive(metrics'.requestTotal) /\ Positive(metrics'.authFailures) /\ Positive(metrics'.tokenFailures)
        /\ DOMAIN metrics'.requestTotal = DOMAIN metrics.requestTotal \cup {key}
    BY <2>1, UpsertCounts DEF Tallied
  <2> QED BY <2>1, <2>2, <2>3 DEF Tallied, Positive
<1>3. UNCHANGED metrics \/ \E r \in Requests, duration \in Durations : Responded(r, duration)
  BY DEF Next, vars, Arrive, Authenticate, AuthenticationFails, NotFound, BodyRejected, Ready, IssueToken,
         Serve, Scrape, ClientLeaves, Revoke, NextWindow
<1> QED BY <1>1, <1>2, <1>3

\* Type correctness, for every instance.
THEOREM HttpServerTypes == Spec => []TypeOK
<1>1. Init => Tallied
  BY DEF Init, Tallied, Positive, Empty
<1>2. ASSUME Controlled, Tallied PROVE TypeOK
  <2>1. limiter.window \in 0..MaxWindow /\ \A s \in Scopes : limiter.used[s] \in 0..MaxRequests[s]
    BY <1>2, PolicyType DEF Controlled
  <2> QED BY <1>2, <2>1 DEF Controlled, Tallied, Positive, TypeOK
<1> QED BY <1>1, <1>2, InitIsControlled, ControlledIsInductive, TalliedIsInductive, PTL DEF Spec

-----------------------------------------------------------------------------
(* The limit.                                                              *)

\* The calls of a window that caused a key to be looked up: DatabaseIsShielded counts them.
LookedUp(s, w) == {r \in Requests : /\ request[r].looked /\ request[r].window = w
                                    /\ Limited(request[r].call) /\ Scope(request[r].call) = s}

\* What the limiter has counted of a window, or had when the window ended.
Admitted(s, w) == IF w = limiter.window THEN limiter.used[s]
                  ELSE IF w < limiter.window THEN MaxRequests[s] ELSE 0

Shielded == \A s \in Scopes, w \in Nat : Cardinality(LookedUp(s, w)) <= Admitted(s, w)

LEMMA LookedUpIsFinite ==
  ASSUME NEW s, NEW w
  PROVE  /\ IsFiniteSet(LookedUp(s, w)) /\ Cardinality(LookedUp(s, w)) \in Nat
<1>1. LookedUp(s, w) \subseteq Requests
  BY DEF LookedUp
<1> QED BY <1>1, RequestsFinite, FS_Subset, FS_CardinalityType

\* Two states of a request the limit does not tell apart.
Same(p, q) == p.call = q.call /\ p.window = q.window /\ p.looked = q.looked

LEMMA ReplyLooksTheSame ==
  ASSUME NEW q \in Request
  PROVE  /\ \A status : Same(Replied(q, status), q)
         /\ \A e : Same(Threw(q, e), q)
BY DEF Same, Replied, Threw, Request

LEMMA IdentifiedLooksTheSame ==
  ASSUME NEW q \in Request
  PROVE  Same(Identified(q), q)
<1> DEFINE known  == [q EXCEPT !.identity = q.credential]
           acting == [known EXCEPT !.stage = "handling"]
<1>1. known.call = q.call /\ known.window = q.window /\ known.looked = q.looked
  BY DEF Request
<1>2. acting.call = q.call /\ acting.window = q.window /\ acting.looked = q.looked
  BY DEF Request
<1>3. \A status : LET p == Replied(known, status)
                  IN  p.call = q.call /\ p.window = q.window /\ p.looked = q.looked
  BY DEF Request, Replied
<1> QED BY <1>1, <1>2, <1>3 DEF Same, Identified, Threw

\* All actions but Arrive and NextWindow.
LEMMA LookupsStay ==
  ASSUME Controlled, [Next]_vars,
         ~(\E r \in Requests, call \in Calls, credential \in ApiKeys \cup {Nobody, Forged} : Arrive(r, call, credential)),
         ~NextWindow
  PROVE  UNCHANGED limiter /\ \A p \in Requests : Same(request'[p], request[p])
<1>1. request \in [Requests -> Request]
  BY DEF Controlled
<1>2. ASSUME UNCHANGED request PROVE \A p \in Requests : Same(request'[p], request[p])
  BY <1>2 DEF Same
<1>3. ASSUME NEW r \in Requests, NEW x, request' = [request EXCEPT ![r] = x], Same(x, request[r])
      PROVE  \A p \in Requests : Same(request'[p], request[p])
  BY <1>1, <1>3 DEF Same
<1>4. ASSUME NEW r \in Requests, Authenticate(r) \/ AuthenticationFails(r)
      PROVE  UNCHANGED limiter /\ \E x : request' = [request EXCEPT ![r] = x] /\ Same(x, request[r])
  <2>1. CASE Authenticate(r)
    <3>1. \/ request' = [request EXCEPT ![r] = Identified(request[r])]
          \/ request' = [request EXCEPT ![r] = Threw(request[r], Unauthorized)]
      BY <2>1 DEF Authenticate
    <3>2. UNCHANGED limiter
      BY <2>1 DEF Authenticate
    <3> QED BY <1>1, <3>1, <3>2, ReplyLooksTheSame, IdentifiedLooksTheSame
  <2>2. CASE AuthenticationFails(r)
    BY <1>1, <2>2, ReplyLooksTheSame DEF AuthenticationFails
  <2> QED BY <1>4, <2>1, <2>2
<1>5. ASSUME NEW r \in Requests, Answered(r)
      PROVE  UNCHANGED limiter /\ \E x : request' = [request EXCEPT ![r] = x] /\ Same(x, request[r])
  <2>1. UNCHANGED limiter
    BY <1>5 DEF Answered, NotFound, BodyRejected, Ready, Serve, Scrape
  <2>2. \/ \E status : request' = [request EXCEPT ![r] = Replied(request[r], status)]
        \/ \E e : request' = [request EXCEPT ![r] = Threw(request[r], e)]
    BY Zenon, <1>5 DEF Answered, NotFound, BodyRejected, Ready, Serve, Scrape
  <2> QED BY <1>1, <2>1, <2>2, ReplyLooksTheSame
<1>6. ASSUME NEW r \in Requests, IssueToken(r)
      PROVE  UNCHANGED limiter /\ \E x : request' = [request EXCEPT ![r] = x] /\ Same(x, request[r])
  <2> DEFINE x == [Replied(request[r], 200) EXCEPT !.token = TRUE]
  <2>1. UNCHANGED limiter /\ request' = [request EXCEPT ![r] = x]
    BY <1>6 DEF IssueToken
  <2>2. Same(x, request[r])
    BY <1>1 DEF Same, Replied, Request
  <2> QED BY <2>1, <2>2
<1>7. ASSUME NEW r \in Requests, (\E duration \in Durations : Responded(r, duration)) \/ ClientLeaves(r)
      PROVE  UNCHANGED limiter /\ \E x : request' = [request EXCEPT ![r] = x] /\ Same(x, request[r])
  <2>1. PICK stage \in {"counted", "abandoned"} :
          request' = [request EXCEPT ![r] = [request[r] EXCEPT !.stage = stage]]
    BY Zenon, <1>7 DEF Responded, ClientLeaves
  <2>2. Same([request[r] EXCEPT !.stage = stage], request[r])
    BY <1>1 DEF Same, Request
  <2>3. UNCHANGED limiter
    BY <1>7 DEF Responded, ClientLeaves
  <2> QED BY <2>1, <2>2, <2>3
<1>8. \/ (\E k \in active : Revoke(k)) \/ UNCHANGED vars
      \/ \E r \in Requests : \/ Authenticate(r) \/ AuthenticationFails(r) \/ Answered(r) \/ IssueToken(r)
                             \/ (\E duration \in Durations : Responded(r, duration)) \/ ClientLeaves(r)
  BY Zenon DEF Next, Answered
<1>9. CASE (\E k \in active : Revoke(k)) \/ UNCHANGED vars
  BY <1>2, <1>9 DEF Revoke, vars
<1> QED BY <1>3, <1>4, <1>5, <1>6, <1>7, <1>8, <1>9

\* A call that causes a lookup is one the limiter has just counted.
LEMMA ArriveIsCounted ==
  ASSUME Controlled, NEW r \in Requests, NEW call \in Calls, NEW credential \in ApiKeys \cup {Nobody, Forged},
         Arrive(r, call, credential), NEW s \in Scopes, NEW w \in Nat
  PROVE  \/ LookedUp(s, w)' \subseteq LookedUp(s, w) /\ limiter'.used[s] >= limiter.used[s]
         \/ /\ LookedUp(s, w)' \subseteq LookedUp(s, w) \cup {r} /\ w = limiter.window
            /\ limiter'.used[s] = limiter.used[s] + 1
<1> DEFINE q == Arriving(call, credential)
<1>1. q \in Request /\ q.call = call /\ q.window = limiter.window /\ ~q.looked
  BY ArrivingIsProper DEF Proper, Caller
<1>2. request \in [Requests -> Request] /\ limiter \in [window : 0..MaxWindow, used : [Scopes -> Nat]]
  BY DEF Controlled
<1>3. Same(Threw(q, RateLimitExceeded), q)
  BY <1>1, ReplyLooksTheSame
<1>4. Checked(q).call = call /\ Checked(q).window = limiter.window
  <2>1. Same(Threw(q, Unauthorized), q)
    BY <1>1, ReplyLooksTheSame
  <2>2. LET p == [q EXCEPT !.stage = "handling"] IN p.call = call /\ p.window = limiter.window
    BY <1>1 DEF Request
  <2>3. LET p == [q EXCEPT !.stage = "authenticating", !.looked = TRUE]
        IN  p.call = call /\ p.window = limiter.window
    BY <1>1 DEF Request
  <2> QED BY <1>1, <2>1, <2>2, <2>3 DEF Checked, Same
<1>5. ASSUME NEW x, request' = [request EXCEPT ![r] = x], ~x.looked
      PROVE  LookedUp(s, w)' \subseteq LookedUp(s, w)
  BY <1>2, <1>5 DEF LookedUp
<1>6. ASSUME request' = [request EXCEPT ![r] = Checked(q)]
      PROVE  /\ LookedUp(s, w)' \subseteq LookedUp(s, w) \cup {r}
             /\ ~(Limited(call) /\ Scope(call) = s /\ w = limiter.window)
                  => LookedUp(s, w)' \subseteq LookedUp(s, w)
  BY <1>2, <1>4, <1>6 DEF LookedUp
<1>7. CASE request' = [request EXCEPT ![r] = Threw(q, RateLimitExceeded)] /\ UNCHANGED limiter
  <2>1. LookedUp(s, w)' \subseteq LookedUp(s, w)
    BY <1>1, <1>3, <1>5, <1>7 DEF Same
  <2>2. limiter.used[s] \in Nat /\ UNCHANGED limiter
    BY <1>2, <1>7
  <2> QED BY <2>1, <2>2
<1>8. CASE /\ Limited(call) /\ request' = [request EXCEPT ![r] = Checked(q)]
           /\ limiter' = [limiter EXCEPT !.used[Scope(call)] = @ + 1]
  <2>1. limiter'.used = [limiter.used EXCEPT ![Scope(call)] = @ + 1]
    BY <1>2, <1>8
  <2>2. limiter'.used[s] = IF Scope(call) = s THEN limiter.used[s] + 1 ELSE limiter.used[s]
    BY <1>2, <2>1
  <2>3. limiter.used[s] \in Nat
    BY <1>2
  <2> QED BY <1>6, <1>8, <2>2, <2>3
<1>9. CASE ~Limited(call) /\ request' = [request EXCEPT ![r] = Checked(q)] /\ UNCHANGED limiter
  BY <1>2, <1>6, <1>9
<1> QED BY <1>7, <1>8, <1>9 DEF Arrive, Arriving

LEMMA ArriveShields ==
  ASSUME Controlled, Shielded,
         NEW r \in Requests, NEW call \in Calls, NEW credential \in ApiKeys \cup {Nobody, Forged},
         Arrive(r, call, credential)
  PROVE  Shielded'
<1> SUFFICES ASSUME NEW s \in Scopes, NEW w \in Nat
             PROVE  Cardinality(LookedUp(s, w)') <= Admitted(s, w)'
  BY DEF Shielded
<1>1. /\ limiter \in [window : 0..MaxWindow, used : [Scopes -> Nat]]
      /\ limiter.used[s] \in Nat /\ limiter.window \in Nat /\ MaxRequests[s] \in Nat
  BY PolicyType DEF Controlled
<1>2. limiter'.window = limiter.window /\ limiter'.used[s] \in Nat
  <2>1. Controlled'
    BY ArriveKeeps
  <2>2. limiter'.used[s] \in Nat
    BY <2>1 DEF Controlled
  <2>3. limiter'.window = limiter.window
    BY <1>1 DEF Arrive
  <2> QED BY <2>2, <2>3
<1>3. Cardinality(LookedUp(s, w)) <= Admitted(s, w) /\ Admitted(s, w) \in Nat
  BY <1>1 DEF Shielded, Admitted
<1>4. IsFiniteSet(LookedUp(s, w)) /\ Cardinality(LookedUp(s, w)) \in Nat
  BY LookedUpIsFinite
<1>5. CASE LookedUp(s, w)' \subseteq LookedUp(s, w) /\ limiter'.used[s] >= limiter.used[s]
  <2>1. Cardinality(LookedUp(s, w)') <= Cardinality(LookedUp(s, w)) /\ Cardinality(LookedUp(s, w)') \in Nat
    BY <1>4, <1>5, FS_Subset, FS_CardinalityType
  <2>2. Admitted(s, w) <= Admitted(s, w)' /\ Admitted(s, w)' \in Nat
    BY <1>1, <1>2, <1>5 DEF Admitted
  <2> QED BY <1>3, <1>4, <2>1, <2>2
<1>6. CASE /\ LookedUp(s, w)' \subseteq LookedUp(s, w) \cup {r} /\ w = limiter.window
           /\ limiter'.used[s] = limiter.used[s] + 1
  <2>1. /\ IsFiniteSet(LookedUp(s, w) \cup {r}) /\ Cardinality(LookedUp(s, w) \cup {r}) \in Nat
        /\ Cardinality(LookedUp(s, w) \cup {r}) <= Cardinality(LookedUp(s, w)) + 1
    <3>1. /\ IsFiniteSet(LookedUp(s, w) \cup {r})
          /\ Cardinality(LookedUp(s, w) \cup {r})
               = IF r \in LookedUp(s, w) THEN Cardinality(LookedUp(s, w)) ELSE Cardinality(LookedUp(s, w)) + 1
      BY Zenon, <1>4, FS_AddElement
    <3> QED BY <1>4, <3>1
  <2>2. Cardinality(LookedUp(s, w)') <= Cardinality(LookedUp(s, w) \cup {r}) /\ Cardinality(LookedUp(s, w)') \in Nat
    BY <1>6, <2>1, FS_Subset, FS_CardinalityType
  <2>3. Admitted(s, w)' = Admitted(s, w) + 1
    BY <1>2, <1>6 DEF Admitted
  <2> QED BY <1>3, <1>4, <2>1, <2>2, <2>3
<1> QED BY <1>5, <1>6, ArriveIsCounted

LEMMA NextWindowShields ==
  ASSUME Controlled, Shielded, NextWindow
  PROVE  Shielded'
<1> SUFFICES ASSUME NEW s \in Scopes, NEW w \in Nat
             PROVE  Cardinality(LookedUp(s, w)') <= Admitted(s, w)'
  BY DEF Shielded
<1>1. /\ limiter.window \in Nat /\ limiter.used[s] \in Nat /\ limiter.used[s] <= MaxRequests[s]
      /\ MaxRequests[s] \in Nat
  BY PolicyType DEF Controlled
<1>2. limiter'.window = limiter.window + 1 /\ limiter'.used[s] = 0 /\ UNCHANGED request
  BY DEF NextWindow
<1>3. LookedUp(s, w)' = LookedUp(s, w)
  BY <1>2 DEF LookedUp
<1>4. Admitted(s, w) <= Admitted(s, w)'
  BY <1>1, <1>2 DEF Admitted
<1>5. Cardinality(LookedUp(s, w)) \in Nat /\ Cardinality(LookedUp(s, w)) <= Admitted(s, w)
  BY LookedUpIsFinite DEF Shielded
<1>6. Admitted(s, w) \in Nat /\ Admitted(s, w)' \in Nat
  BY <1>1, <1>2 DEF Admitted
<1> QED BY <1>3, <1>4, <1>5, <1>6

LEMMA ShieldedIsInductive == Controlled /\ Shielded /\ [Next]_vars => Shielded'
<1> SUFFICES ASSUME Controlled, Shielded, [Next]_vars PROVE Shielded'
  OBVIOUS
<1>1. ASSUME NEW r \in Requests, NEW call \in Calls, NEW credential \in ApiKeys \cup {Nobody, Forged},
             Arrive(r, call, credential)
      PROVE  Shielded'
  BY <1>1, ArriveShields
<1>2. CASE NextWindow
  BY <1>2, NextWindowShields
<1>3. ASSUME UNCHANGED limiter, \A p \in Requests : Same(request'[p], request[p]) PROVE Shielded'
  BY <1>3 DEF Shielded, LookedUp, Admitted, Same
<1> QED BY <1>1, <1>2, <1>3, LookupsStay

\* Of the calls of a window no more cause a key to be looked up in the database than the
\* limiter admits: for any number of requests, limits and windows.
THEOREM TheLimitShieldsTheDatabase == Spec => []DatabaseIsShielded
<1>1. Init => Shielded
  <2> SUFFICES ASSUME Init, NEW s \in Scopes, NEW w \in Nat
               PROVE  Cardinality(LookedUp(s, w)) <= Admitted(s, w)
    BY DEF Shielded
  <2>1. LookedUp(s, w) = {}
    BY DEF Init, Idle, LookedUp
  <2>2. Admitted(s, w) \in Nat
    BY PolicyType DEF Init, Admitted
  <2> QED BY <2>1, <2>2, FS_EmptySet
<1>2. ASSUME Controlled, Shielded PROVE DatabaseIsShielded
  <2> SUFFICES ASSUME NEW s \in Scopes, NEW w \in 0..MaxWindow
               PROVE  Cardinality(LookedUp(s, w)) <= MaxRequests[s]
    BY DEF DatabaseIsShielded, LookedUp
  <2>1. /\ w \in Nat /\ limiter.window \in Nat /\ limiter.used[s] \in Nat
        /\ limiter.used[s] <= MaxRequests[s] /\ MaxRequests[s] \in Nat
    BY <1>2, PolicyType DEF Controlled
  <2>2. Admitted(s, w) <= MaxRequests[s] /\ Admitted(s, w) \in Nat
    BY <2>1 DEF Admitted
  <2> QED BY <1>2, <2>1, <2>2, LookedUpIsFinite DEF Shielded
<1> QED BY <1>1, <1>2, InitIsControlled, ControlledIsInductive, ShieldedIsInductive, PTL DEF Spec

-----------------------------------------------------------------------------
(* The metrics.                                                            *)

\* The counter of a series goes up by one when one more request falls into it.
LEMMA UpsertCountsOneMore ==
  ASSUME NEW f, IsFiniteSet(DOMAIN f), NEW r, r \notin DOMAIN f, NEW key,
         NEW g, g = [x \in DOMAIN f \cup {r} |-> IF x = r THEN key ELSE f[x]]
  PROVE  CountBy(g) = Upsert(CountBy(f), key)
<1> DEFINE Before(k) == {x \in DOMAIN f : f[x] = k}
           After(k)  == {x \in DOMAIN g : g[x] = k}
           Keys      == {f[x] : x \in DOMAIN f}
<1>1. {g[x] : x \in DOMAIN g} = Keys \cup {key}
  OBVIOUS
<1>2. \A k : k # key => After(k) = Before(k)
  OBVIOUS
<1>3. After(key) = Before(key) \cup {r} /\ r \notin Before(key) /\ IsFiniteSet(Before(key))
  <2>1. After(key) = Before(key) \cup {r} /\ r \notin Before(key) /\ Before(key) \subseteq DOMAIN f
    OBVIOUS
  <2> QED BY <2>1, FS_Subset
<1>4. Cardinality(After(key)) = Cardinality(Before(key)) + 1 /\ Cardinality(Before(key)) \in Nat
  BY <1>3, FS_AddElement, FS_CardinalityType
<1>5. key \notin Keys => Cardinality(Before(key)) = 0
  <2>1. ASSUME key \notin Keys PROVE Before(key) = {}
    BY <2>1
  <2> QED BY <2>1, FS_EmptySet
<1>6. /\ DOMAIN CountBy(f) = Keys
      /\ \A k \in Keys : CountBy(f)[k] = Cardinality(Before(k))
  BY DEF CountBy
<1>7. CountBy(g) = [k \in Keys \cup {key} |-> Cardinality(After(k))]
  BY <1>1 DEF CountBy
<1>8. Upsert(CountBy(f), key)
        = [k \in Keys \cup {key} |-> IF k # key THEN CountBy(f)[k]
                                     ELSE IF key \in Keys THEN CountBy(f)[key] + 1 ELSE 1]
  BY <1>6 DEF Upsert
<1>9. ASSUME NEW k \in Keys \cup {key}
      PROVE  Cardinality(After(k)) = IF k # key THEN CountBy(f)[k]
                                     ELSE IF key \in Keys THEN CountBy(f)[key] + 1 ELSE 1
  <2>1. CASE k # key
    BY <1>2, <1>6, <2>1
  <2>2. CASE k = key /\ key \in Keys
    BY <1>4, <1>6, <2>2
  <2>3. CASE k = key /\ key \notin Keys
    BY <1>4, <1>5, <2>3
  <2> QED BY <2>1, <2>2, <2>3
<1> HIDE DEF Keys, Before, After
<1> QED BY <1>7, <1>8, <1>9

\* What an exchange is told: a status below 400 exactly when it has got a token.
Truthful(q) ==
  q.call.label = TOKEN_ENDPOINT =>
    /\ q.stage \in {"new", "authenticating", "handling"} => ~q.token
    /\ q.stage \in {"replied", "counted", "abandoned"} => (q.token <=> q.status < 400)

\* Errors that are answered with 400 or more.
Refusals == {e \in Errors : StatusOf(e) >= 400}

LEMMA ErrorsRefuse ==
  /\ RateLimitExceeded \in Refusals /\ Unauthorized \in Refusals /\ Forbidden \in Refusals /\ NotJson \in Refusals
  /\ DatabaseErrors \subseteq Refusals /\ HandlerErrors \subseteq Refusals
<1>1. ASSUME NEW e \in Errors, e.type = "domain" => e.n >= 400 PROVE e \in Refusals
  <2>1. CASE e.type = "rate limit"
    <3>1. StatusOf(e) = 429
      BY Zenon, <2>1 DEF StatusOf
    <3> QED BY <3>1 DEF Refusals
  <2>2. CASE e.type = "validation"
    <3>1. StatusOf(e) = 400
      BY Zenon, <2>2 DEF StatusOf
    <3> QED BY <3>1 DEF Refusals
  <2>3. CASE e.type = "domain"
    <3>1. StatusOf(e) = e.n
      BY Zenon, <2>3 DEF StatusOf
    <3> QED BY <1>1, <2>3, <3>1 DEF Refusals
  <2>4. CASE e.type = "coded" /\ e.n \in 400..599
    <3>1. StatusOf(e) = e.n
      BY Zenon, <2>4 DEF StatusOf
    <3> QED BY <2>4, <3>1 DEF Refusals
  <2>5. CASE /\ e.type \notin {"rate limit", "validation", "domain"}
             /\ ~(e.type = "coded" /\ e.n \in 400..599)
    <3>1. StatusOf(e) = 500
      BY Zenon, <2>5 DEF StatusOf
    <3> QED BY <3>1 DEF Refusals
  <2> QED BY <2>1, <2>2, <2>3, <2>4, <2>5
<1>2. /\ RateLimitExceeded \in Errors /\ RateLimitExceeded.type # "domain"
      /\ Unauthorized \in Errors /\ Unauthorized.n >= 400
      /\ Forbidden \in Errors /\ Forbidden.n >= 400
      /\ NotJson \in Errors /\ NotJson.type # "domain"
  BY DEF Errors, RateLimitExceeded, Unauthorized, Forbidden, NotJson
<1>3. \A e \in DatabaseErrors : e \in Errors /\ e.type # "domain"
  <2>1. \A e \in DatabaseErrors : e.type # "domain"
    BY DEF DatabaseErrors
  <2> QED BY <2>1, ErrorsAreErrors
<1>4. \A e \in HandlerErrors : e \in Errors /\ (e.type = "domain" => e.n >= 400)
  <2> SUFFICES ASSUME NEW e \in HandlerErrors PROVE e.type = "domain" => e.n >= 400
    BY ErrorsAreErrors
  <2> QED BY DEF HandlerErrors
<1>5. RateLimitExceeded \in Refusals /\ Unauthorized \in Refusals /\ Forbidden \in Refusals /\ NotJson \in Refusals
  BY <1>1, <1>2
<1>6. DatabaseErrors \subseteq Refusals
  BY <1>1, <1>3
<1>7. HandlerErrors \subseteq Refusals
  BY <1>1, <1>4
<1> QED BY <1>5, <1>6, <1>7

LEMMA ThrowIsTruthful ==
  ASSUME NEW q \in Request, ~q.token, NEW e \in Refusals
  PROVE  Truthful(Threw(q, e))
<1> DEFINE p == Threw(q, e)
<1>1. p.stage = "replied" /\ p.token = q.token /\ p.status = StatusOf(e)
  BY DEF Threw, Replied, Request
<1>2. StatusOf(e) \in Nat /\ StatusOf(e) >= 400
  BY StatusIsNat DEF Refusals
<1>3. ~(p.token <=> p.status < 400) => FALSE
  BY <1>1, <1>2
<1> QED BY <1>1, <1>3 DEF Truthful

Told == \A r \in Requests : Truthful(request[r])

LEMMA OneIsTold ==
  ASSUME Controlled, Told, NEW r \in Requests, NEW x, Truthful(x), request' = [request EXCEPT ![r] = x]
  PROVE  Told'
BY DEF Controlled, Told

LEMMA ArriveTells ==
  ASSUME Controlled, Told, NEW r \in Requests, NEW call \in Calls, NEW credential \in ApiKeys \cup {Nobody, Forged},
         Arrive(r, call, credential)
  PROVE  Told'
<1> DEFINE q == Arriving(call, credential)
<1>1. q \in Request /\ q.stage = "new" /\ ~q.token
  BY ArrivingIsProper DEF Proper, Caller
<1>2. Truthful(Threw(q, RateLimitExceeded)) /\ Truthful(Threw(q, Unauthorized))
  BY <1>1, ErrorsRefuse, ThrowIsTruthful
<1>3. Truthful([q EXCEPT !.stage = "handling"])
  BY <1>1 DEF Truthful, Request
<1>4. Truthful([q EXCEPT !.stage = "authenticating", !.looked = TRUE])
  BY <1>1 DEF Truthful, Request
<1>5. Truthful(Checked(q))
  BY <1>2, <1>3, <1>4 DEF Checked
<1>6. \/ request' = [request EXCEPT ![r] = Threw(q, RateLimitExceeded)]
      \/ request' = [request EXCEPT ![r] = Checked(q)]
  BY DEF Arrive, Arriving
<1> QED BY <1>2, <1>5, <1>6, OneIsTold

LEMMA AuthenticateTells ==
  ASSUME Controlled, Told, NEW r \in Requests, Authenticate(r) \/ AuthenticationFails(r)
  PROVE  Told'
<1> DEFINE q      == request[r]
           known  == [q EXCEPT !.identity = q.credential]
           acting == [known EXCEPT !.stage = "handling"]
<1>1. q \in Request /\ q.stage = "authenticating" /\ ~q.token
  BY DEF Controlled, Proper, Authenticate, AuthenticationFails
<1>2. q.credential \in Caller
  BY <1>1 DEF Request
<1>3. known \in Request /\ ~known.token /\ acting.stage = "handling" /\ ~acting.token
  BY <1>1, <1>2 DEF Request
<1>4. Truthful(Identified(q))
  <2>1. Truthful(Threw(known, Forbidden))
    BY <1>3, ErrorsRefuse, ThrowIsTruthful
  <2>2. Truthful(acting)
    BY <1>3 DEF Truthful
  <2> QED BY <2>1, <2>2 DEF Identified
<1>5. \A e \in Refusals : Truthful(Threw(q, e))
  BY <1>1, ThrowIsTruthful
<1>6. \/ request' = [request EXCEPT ![r] = Identified(q)]
      \/ request' = [request EXCEPT ![r] = Threw(q, Unauthorized)]
      \/ \E e \in DatabaseErrors : request' = [request EXCEPT ![r] = Threw(q, e)]
  BY DEF Authenticate, AuthenticationFails
<1> QED BY <1>4, <1>5, <1>6, ErrorsRefuse, OneIsTold

\* The token endpoint's own handler is IssueToken; all else it is answered is a refusal.
LEMMA AnswerTells ==
  ASSUME Controlled, Told, NEW r \in Requests, Answered(r) \/ IssueToken(r)
  PROVE  Told'
<1> DEFINE q == request[r]
<1>1. q \in Request /\ q.stage = "handling"
  BY DEF Controlled, Proper, Answered, NotFound, BodyRejected, Ready, Serve, Scrape, IssueToken, Handling
<1>2. q.call.label = TOKEN_ENDPOINT => ~q.token
  BY <1>1 DEF Told, Truthful
<1>3. \A status : Replied(q, status).call = q.call /\ Replied(q, status).stage = "replied"
                  /\ Replied(q, status).token = q.token /\ Replied(q, status).status = status
  BY <1>1 DEF Replied, Request
<1>4. ASSUME NEW e \in Refusals, request' = [request EXCEPT ![r] = Threw(q, e)] PROVE Told'
  <2>1. Truthful(Threw(q, e))
    <3>1. CASE q.call.label = TOKEN_ENDPOINT
      BY <1>1, <1>2, <3>1, ThrowIsTruthful
    <3>2. CASE q.call.label # TOKEN_ENDPOINT
      BY <1>3, <3>2 DEF Truthful, Threw
    <3> QED BY <3>1, <3>2
  <2> QED BY <1>4, <2>1, OneIsTold
<1>5. ASSUME NEW status, request' = [request EXCEPT ![r] = Replied(q, status)], q.call.label # TOKEN_ENDPOINT
      PROVE  Told'
  <2>1. Truthful(Replied(q, status))
    BY <1>3, <1>5 DEF Truthful
  <2> QED BY <1>5, <2>1, OneIsTold
<1>6. CASE NotFound(r)
  <2>1. Truthful(Replied(q, 404))
    <3>1. q.call.label = TOKEN_ENDPOINT => ~Replied(q, 404).token /\ ~(Replied(q, 404).status < 400)
      BY <1>2, <1>3
    <3> QED BY <1>3, <3>1 DEF Truthful
  <2> QED BY <1>6, <2>1, OneIsTold DEF NotFound
<1>7. CASE BodyRejected(r)
  BY <1>4, <1>7, ErrorsRefuse DEF BodyRejected
<1>8. CASE Ready(r)
  BY <1>5, <1>8 DEF Ready, Handling, TOKEN_ENDPOINT
<1>9. CASE Serve(r)
  <2>1. q.call.label # TOKEN_ENDPOINT
    BY <1>9 DEF Serve, Handling
  <2> QED BY <1>4, <1>5, <1>9, <2>1, ErrorsRefuse DEF Serve
<1>10. CASE Scrape(r)
  BY <1>5, <1>10 DEF Scrape, Handling, TOKEN_ENDPOINT
<1>11. CASE IssueToken(r)
  <2> DEFINE p == [Replied(q, 200) EXCEPT !.token = TRUE]
  <2>1. p.stage = "replied" /\ p.token = TRUE /\ p.status = 200
    BY <1>1 DEF Replied, Request
  <2>2. Truthful(p)
    BY <2>1 DEF Truthful
  <2> QED BY <1>11, <2>2, OneIsTold DEF IssueToken
<1> QED BY <1>6, <1>7, <1>8, <1>9, <1>10, <1>11 DEF Answered

LEMMA ToldIsInductive == Controlled /\ Told /\ [Next]_vars => Told'
<1> SUFFICES ASSUME Controlled, Told, [Next]_vars PROVE Told'
  OBVIOUS
<1>1. ASSUME NEW r \in Requests, NEW call \in Calls, NEW credential \in ApiKeys \cup {Nobody, Forged},
             Arrive(r, call, credential)
      PROVE  Told'
  BY <1>1, ArriveTells
<1>2. ASSUME NEW r \in Requests, Authenticate(r) \/ AuthenticationFails(r) PROVE Told'
  BY <1>2, AuthenticateTells
<1>3. ASSUME NEW r \in Requests, Answered(r) \/ IssueToken(r) PROVE Told'
  BY <1>3, AnswerTells
<1>4. ASSUME NEW r \in Requests, (\E duration \in Durations : Responded(r, duration)) \/ ClientLeaves(r)
      PROVE  Told'
  <2>1. PICK stage \in {"counted", "abandoned"} :
          request' = [request EXCEPT ![r] = [request[r] EXCEPT !.stage = stage]]
    BY Zenon, <1>4 DEF Responded, ClientLeaves
  <2>2. request[r].stage = "replied" /\ request[r] \in Request /\ Truthful(request[r])
    BY <1>4 DEF Responded, ClientLeaves, Controlled, Told
  <2>3. Truthful([request[r] EXCEPT !.stage = stage])
    BY <2>2 DEF Truthful, Request
  <2> QED BY <2>1, <2>3, OneIsTold
<1>5. CASE (\E k \in active : Revoke(k)) \/ NextWindow \/ UNCHANGED vars
  BY <1>5 DEF Revoke, NextWindow, vars, Told
<1> QED BY Zenon, <1>1, <1>2, <1>3, <1>4, <1>5 DEF Next, Answered

\* What a histogram's buckets are to each other and to its count: a request that is counted
\* under a bound is counted under every larger one.
Histogram(series) ==
  /\ series.count \in Nat
  /\ series.bucketCounts \in [Bounds -> Nat]
  /\ \A b \in Bounds : series.bucketCounts[b] <= series.count
  /\ \A b, c \in Bounds : b <= c => series.bucketCounts[b] <= series.bucketCounts[c]

\* The registries of one moment.  MetricsAreExact needs them all: a scrape agrees because what
\* it renders does.
Registered ==
  /\ metrics.requestTotal = CountBy(Served)
  /\ metrics.tokenFailures = CountBy(Failures)
  /\ \A key \in DOMAIN metrics.requestTotal : metrics.requestTotal[key] \in Nat
  /\ DOMAIN metrics.requestDuration = DOMAIN metrics.requestTotal
  /\ \A key \in DOMAIN metrics.requestDuration :
       /\ Histogram(metrics.requestDuration[key])
       /\ metrics.requestDuration[key].count = metrics.requestTotal[key]
  /\ \A key \in DOMAIN metrics.authFailures :
       /\ key \in DOMAIN metrics.requestTotal
       /\ metrics.authFailures[key] = metrics.requestTotal[key]
  /\ \A key \in DOMAIN metrics.requestTotal :
       key[1] \in V1Labels /\ key[2] \in {401, 403} => key \in DOMAIN metrics.authFailures
  /\ \A key \in DOMAIN metrics.authFailures : key[1] \in V1Labels /\ key[2] \in {401, 403}

LEMMA ObserveKeepsHistograms ==
  ASSUME NEW histograms, NEW key, NEW duration \in Durations, NEW later,
         \A k \in DOMAIN histograms : Histogram(histograms[k]),
         later = Observe(histograms, key, duration)
  PROVE  \A k \in DOMAIN later : Histogram(later[k])
<1> DEFINE series == IF key \in DOMAIN histograms THEN histograms[key]
                     ELSE [bucketCounts |-> [b \in Bounds |-> 0], count |-> 0, sum |-> 0]
           bucket(b) == series.bucketCounts[b] + (IF duration <= b THEN 1 ELSE 0)
           next   == [bucketCounts |-> [b \in Bounds |-> bucket(b)],
                      count |-> series.count + 1, sum |-> series.sum + duration]
<1>1. later = [k \in DOMAIN histograms \cup {key} |-> IF k = key THEN next ELSE histograms[k]]
  BY Zenon DEF Observe
<1>2. Histogram(series)
  BY DEF Histogram
<1>3. next.count = series.count + 1 /\ next.bucketCounts = [b \in Bounds |-> bucket(b)]
  OBVIOUS
<1>4. Histogram(next)
  <2> HIDE DEF series, next
  <2>1. /\ series.count \in Nat /\ series.bucketCounts \in [Bounds -> Nat]
        /\ \A b \in Bounds : b \in Nat /\ series.bucketCounts[b] \in Nat /\ series.bucketCounts[b] <= series.count
        /\ \A b, c \in Bounds : b <= c => series.bucketCounts[b] <= series.bucketCounts[c]
        /\ duration \in Nat
    BY <1>2, DurationsType DEF Histogram
  <2>2. \A b \in Bounds : bucket(b) \in Nat /\ bucket(b) <= series.count + 1
    BY <2>1
  <2>3. \A b, c \in Bounds : b <= c => bucket(b) <= bucket(c)
    BY <2>1
  <2>4. next.count \in Nat
    BY <1>3, <2>1
  <2>5. next.bucketCounts \in [Bounds -> Nat] /\ \A b \in Bounds : next.bucketCounts[b] = bucket(b)
    BY <1>3, <2>2
  <2> HIDE DEF bucket
  <2> QED BY <1>3, <2>2, <2>3, <2>4, <2>5 DEF Histogram
<1> HIDE DEF next, series
<1> QED BY <1>1, <1>4

LEMMA RenderAgrees ==
  ASSUME Registered
  PROVE  Agrees(RenderPrometheus)
<1> DEFINE Totals  == DOMAIN metrics.requestTotal
           total(k) == metrics.requestTotal[k]
           series(k) == metrics.requestDuration[k]
<1> SUFFICES ASSUME NEW x \in RenderPrometheus, NEW y \in RenderPrometheus, x.labels = y.labels
             PROVE  /\ x.name = "requests" /\ y.name = "count" => x.value = y.value
                    /\ x.name = "requests" /\ y.name = "auth_failures" => x.value = y.value
                    /\ x.name = "bucket" /\ y.name = "count" => x.value <= y.value
                    /\ x.name = "bucket" /\ y.name = "bucket"
                         /\ (x.le = Unbounded \/ (y.le # Unbounded /\ y.le <= x.le)) => y.value <= x.value
  BY DEF Agrees
<1>1. ASSUME NEW z \in RenderPrometheus
      PROVE  \/ z.name = "requests" /\ z.labels \in Totals /\ z.value = total(z.labels)
             \/ /\ z.name = "bucket" /\ z.labels \in Totals /\ z.le \in Bounds
                /\ z.value = series(z.labels).bucketCounts[z.le]
             \/ z.name = "bucket" /\ z.labels \in Totals /\ z.le = Unbounded /\ z.value = series(z.labels).count
             \/ z.name = "sum"
             \/ z.name = "count" /\ z.labels \in Totals /\ z.value = series(z.labels).count
             \/ z.name = "auth_failures" /\ z.labels \in DOMAIN metrics.authFailures
                /\ z.value = metrics.authFailures[z.labels]
             \/ z.name = "token_failures"
  <2>1. DOMAIN metrics.requestDuration = Totals
    BY DEF Registered
  <2>2. CASE \E key \in Totals : z = Sample("requests", key, Unbounded, total(key))
    BY <2>2 DEF Sample
  <2>3. CASE \E key \in Totals, b \in Bounds : z = Sample("bucket", key, b, series(key).bucketCounts[b])
    BY <2>3 DEF Sample
  <2>4. CASE \E key \in Totals : z \in {Sample("bucket", key, Unbounded, series(key).count),
                                        Sample("sum", key, Unbounded, series(key).sum),
                                        Sample("count", key, Unbounded, series(key).count)}
    BY <2>4 DEF Sample
  <2>5. CASE \E key \in DOMAIN metrics.authFailures :
               z = Sample("auth_failures", key, Unbounded, metrics.authFailures[key])
    BY <2>5 DEF Sample
  <2>6. CASE \E s \in DOMAIN metrics.tokenFailures :
               z = Sample("token_failures", <<NoRoute, s>>, Unbounded, metrics.tokenFailures[s])
    BY <2>6 DEF Sample
  <2> QED BY <2>1, <2>2, <2>3, <2>4, <2>5, <2>6 DEF RenderPrometheus
<1>2. ASSUME NEW key \in Totals
      PROVE  Histogram(series(key)) /\ series(key).count = total(key)
  BY DEF Registered
<1>3. \A key \in DOMAIN metrics.authFailures : metrics.authFailures[key] = total(key)
  BY DEF Registered
<1>4. \A b \in Bounds : b # Unbounded
  BY DurationsType DEF Unbounded
<1> HIDE DEF Totals, total, series
<1>5. x.name = "requests" /\ y.name = "count" => x.value = y.value
  BY <1>1, <1>2
<1>6. x.name = "requests" /\ y.name = "auth_failures" => x.value = y.value
  BY <1>1, <1>3
<1>7. ASSUME x.name = "bucket", y.name = "count" PROVE x.value <= y.value
  BY <1>1, <1>2, <1>7 DEF Histogram
<1>8. ASSUME x.name = "bucket", y.name = "bucket",
             x.le = Unbounded \/ (y.le # Unbounded /\ y.le <= x.le)
      PROVE  y.value <= x.value
  <2> DEFINE key == x.labels
  <2>1. /\ key \in Totals /\ Histogram(series(key))
        /\ \/ x.le \in Bounds /\ x.value = series(key).bucketCounts[x.le]
           \/ x.le = Unbounded /\ x.value = series(key).count
        /\ \/ y.le \in Bounds /\ y.value = series(key).bucketCounts[y.le]
           \/ y.le = Unbounded /\ y.value = series(key).count
    BY <1>1, <1>2, <1>8
  <2>2. CASE x.le = Unbounded
    BY <1>4, <2>1, <2>2 DEF Histogram
  <2>3. CASE x.le # Unbounded /\ y.le # Unbounded /\ y.le <= x.le
    BY <1>4, <2>1, <2>3 DEF Histogram
  <2> QED BY <1>8, <2>2, <2>3, <2>1
<1> QED BY <1>5, <1>6, <1>7, <1>8

\* The registries know a request once its hook has run.
LEMMA RespondedRegisters ==
  ASSUME Controlled, Told, Registered, NEW r \in Requests, NEW duration \in Durations, Responded(r, duration)
  PROVE  Registered'
<1> DEFINE q   == request[r]
           key == <<q.call.label, q.status>>
<1>1. /\ q.stage = "replied" /\ q \in Request /\ Truthful(q) /\ request \in [Requests -> Request]
      /\ request' = [request EXCEPT ![r] = [q EXCEPT !.stage = "counted"]]
  BY DEF Responded, Controlled, Told
<1>2. /\ metrics'.requestTotal = Upsert(metrics.requestTotal, key)
      /\ metrics'.requestDuration = Observe(metrics.requestDuration, key, duration)
      /\ metrics'.authFailures = IF q.status \in {401, 403} /\ q.call.label \in V1Labels
                                   THEN Upsert(metrics.authFailures, key) ELSE metrics.authFailures
      /\ metrics'.tokenFailures = IF q.status >= 400 /\ q.call.label = TOKEN_ENDPOINT
                                    THEN Upsert(metrics.tokenFailures, q.status) ELSE metrics.tokenFailures
  BY DEF Responded
<1>3. /\ request'[r].stage = "counted" /\ request'[r].call = q.call /\ request'[r].status = q.status
      /\ request'[r].token = q.token
      /\ \A p \in Requests \ {r} : request'[p] = request[p]
  BY <1>1 DEF Request
<1>4. Ended' = Ended \cup {r} /\ r \notin Ended /\ Ended \subseteq Requests /\ IsFiniteSet(Ended)
  <2>1. Ended' = Ended \cup {r} /\ r \notin Ended /\ Ended \subseteq Requests
    BY <1>1, <1>3 DEF Ended
  <2> QED BY <2>1, RequestsFinite, FS_Subset
<1>5. metrics'.requestTotal = CountBy(Served)'
  <2>1. DOMAIN Served = Ended
    BY DEF Served
  <2>2. Served' = [x \in Ended \cup {r} |-> IF x = r THEN key ELSE Served[x]]
    BY <1>3, <1>4 DEF Served
  <2>3. CountBy(Served') = Upsert(CountBy(Served), key)
    BY <1>4, <2>1, <2>2, UpsertCountsOneMore
  <2>4. CountBy(Served)' = CountBy(Served')
    BY DEF CountBy
  <2> QED BY <1>2, <2>3, <2>4 DEF Registered
<1>6. metrics'.tokenFailures = CountBy(Failures)'
  <2> DEFINE Failed == {x \in Exchanges : ~request[x].token}
  <2>1. DOMAIN Failures = Failed /\ Failed \subseteq Ended /\ IsFiniteSet(Failed)
    <3>1. DOMAIN Failures = Failed /\ Failed \subseteq Ended
      BY DEF Failures, Exchanges
    <3> QED BY <1>4, <3>1, FS_Subset
  <2>2. CountBy(Failures)' = CountBy(Failures')
    BY DEF CountBy
  <2>3. CASE q.call.label = TOKEN_ENDPOINT /\ ~q.token
    <3>1. q.status >= 400 /\ r \notin Failed
      <4>1. ~(q.status < 400) /\ q.status \in Nat
        BY <1>1, <2>3 DEF Truthful, Request
      <4> QED BY <1>4, <2>1, <4>1
    <3>2. {x \in Exchanges : ~request[x].token}' = Failed \cup {r}
      BY <1>3, <1>4, <2>3 DEF Exchanges
    <3>3. Failures' = [x \in Failed \cup {r} |-> IF x = r THEN q.status ELSE Failures[x]]
      <4>1. \A x \in Failed : x # r /\ x \in Requests
        BY <1>4, <2>1
      <4> QED BY <1>3, <3>2, <4>1 DEF Failures
    <3>4. CountBy(Failures') = Upsert(CountBy(Failures), q.status)
      BY <2>1, <3>1, <3>3, UpsertCountsOneMore
    <3> QED BY <1>2, <2>2, <2>3, <3>1, <3>4 DEF Registered
  <2>4. CASE ~(q.call.label = TOKEN_ENDPOINT /\ ~q.token)
    <3>1. {x \in Exchanges : ~request[x].token}' = Failed
      BY <1>3, <1>4, <2>4 DEF Exchanges
    <3>2. Failures' = Failures
      <4>1. \A x \in Failed : x # r /\ x \in Requests
        BY <1>4, <2>1
      <4> QED BY <1>3, <3>1, <4>1 DEF Failures
    <3>3. ~(q.status >= 400 /\ q.call.label = TOKEN_ENDPOINT)
      BY <1>1, <2>4 DEF Truthful, Request
    <3> QED BY <1>2, <2>2, <3>2, <3>3 DEF Registered
  <2> QED BY <2>3, <2>4
<1>7. /\ DOMAIN metrics'.requestTotal = DOMAIN metrics.requestTotal \cup {key}
      /\ \A k \in DOMAIN metrics.requestTotal \ {key} : metrics'.requestTotal[k] = metrics.requestTotal[k]
      /\ metrics'.requestTotal[key] = IF key \in DOMAIN metrics.requestTotal THEN metrics.requestTotal[key] + 1 ELSE 1
  BY <1>2 DEF Upsert
<1>8. \A k \in DOMAIN metrics'.requestTotal : metrics'.requestTotal[k] \in Nat
  BY <1>7 DEF Registered
<1>9. /\ DOMAIN metrics'.requestDuration = DOMAIN metrics'.requestTotal
      /\ \A k \in DOMAIN metrics'.requestDuration :
           /\ Histogram(metrics'.requestDuration[k])
           /\ metrics'.requestDuration[k].count = metrics'.requestTotal[k]
  <2>1. /\ \A k \in DOMAIN metrics.requestDuration : Histogram(metrics.requestDuration[k])
        /\ metrics'.requestDuration = Observe(metrics.requestDuration, key, duration)
    BY <1>2 DEF Registered
  <2> HIDE DEF key
  <2>2. /\ DOMAIN metrics'.requestDuration = DOMAIN metrics.requestDuration \cup {key}
        /\ \A k \in DOMAIN metrics'.requestDuration : Histogram(metrics'.requestDuration[k])
        /\ \A k \in DOMAIN metrics.requestDuration \ {key} : metrics'.requestDuration[k] = metrics.requestDuration[k]
        /\ metrics'.requestDuration[key].count
             = IF key \in DOMAIN metrics.requestDuration THEN metrics.requestDuration[key].count + 1 ELSE 1
    <3>1. \A k \in DOMAIN metrics'.requestDuration : Histogram(metrics'.requestDuration[k])
      BY <2>1, ObserveKeepsHistograms
    <3>2. DOMAIN metrics'.requestDuration = DOMAIN metrics.requestDuration \cup {key}
      BY <2>1 DEF Observe
    <3>3. \A k \in DOMAIN metrics.requestDuration \ {key} : metrics'.requestDuration[k] = metrics.requestDuration[k]
      BY <2>1 DEF Observe
    <3>4. metrics'.requestDuration[key].count
            = IF key \in DOMAIN metrics.requestDuration THEN metrics.requestDuration[key].count + 1 ELSE 1
      BY <2>1 DEF Observe
    <3> QED BY Zenon, <3>1, <3>2, <3>3, <3>4
  <2>3. /\ DOMAIN metrics.requestDuration = DOMAIN metrics.requestTotal
        /\ \A k \in DOMAIN metrics.requestTotal : metrics.requestDuration[k].count = metrics.requestTotal[k]
    BY DEF Registered
  <2> QED BY <1>7, <2>2, <2>3
<1>10. key[1] = q.call.label /\ key[2] = q.status
  OBVIOUS
<1> DEFINE IsAuth(k) == k[1] \in V1Labels /\ k[2] \in {401, 403}
<1>11. /\ \A k \in DOMAIN metrics.authFailures : k \in DOMAIN metrics.requestTotal
                                                 /\ metrics.authFailures[k] = metrics.requestTotal[k] /\ IsAuth(k)
       /\ \A k \in DOMAIN metrics.requestTotal : IsAuth(k) => k \in DOMAIN metrics.authFailures
  BY DEF Registered
<1>12. /\ \A k \in DOMAIN metrics'.authFailures : k \in DOMAIN metrics'.requestTotal
                                                  /\ metrics'.authFailures[k] = metrics'.requestTotal[k] /\ IsAuth(k)
       /\ \A k \in DOMAIN metrics'.requestTotal : IsAuth(k) => k \in DOMAIN metrics'.authFailures
  <2>1. CASE IsAuth(key)
    <3>1. metrics'.authFailures = Upsert(metrics.authFailures, key)
      BY <1>2, <1>10, <2>1
    <3>2. /\ DOMAIN metrics'.authFailures = DOMAIN metrics.authFailures \cup {key}
          /\ \A k \in DOMAIN metrics.authFailures \ {key} : metrics'.authFailures[k] = metrics.authFailures[k]
          /\ metrics'.authFailures[key]
               = IF key \in DOMAIN metrics.authFailures THEN metrics.authFailures[key] + 1 ELSE 1
      BY <3>1 DEF Upsert
    <3> HIDE DEF key, IsAuth
    <3> QED BY <1>7, <1>11, <2>1, <3>2
  <2>2. CASE ~IsAuth(key)
    <3>1. metrics'.authFailures = metrics.authFailures
      BY <1>2, <1>10, <2>2
    <3> HIDE DEF key, IsAuth
    <3> QED BY <1>7, <1>11, <2>2, <3>1
  <2> QED BY <2>1, <2>2
<1> QED BY <1>5, <1>6, <1>8, <1>9, <1>12 DEF Registered

\* All other steps leave the registries alone, and the requests they know.
LEMMA OthersRegister ==
  ASSUME Controlled, Registered, [Next]_vars,
         ~(\E r \in Requests, duration \in Durations : Responded(r, duration))
  PROVE  Registered'
<1>1. UNCHANGED metrics
  <2>1. ASSUME NEW r \in Requests, NEW call \in Calls, NEW credential \in ApiKeys \cup {Nobody, Forged},
               Arrive(r, call, credential)
        PROVE  UNCHANGED metrics
    BY <2>1 DEF Arrive
  <2>2. ASSUME NEW r \in Requests, Authenticate(r) \/ AuthenticationFails(r) PROVE UNCHANGED metrics
    BY <2>2 DEF Authenticate, AuthenticationFails
  <2>3. ASSUME NEW r \in Requests,
               NotFound(r) \/ BodyRejected(r) \/ Ready(r) \/ IssueToken(r) \/ Serve(r) \/ Scrape(r)
        PROVE  UNCHANGED metrics
    BY <2>3 DEF NotFound, BodyRejected, Ready, IssueToken, Serve, Scrape
  <2>4. ASSUME NEW r \in Requests, ClientLeaves(r) PROVE UNCHANGED metrics
    BY <2>4 DEF ClientLeaves
  <2>5. ASSUME (\E k \in active : Revoke(k)) \/ NextWindow \/ UNCHANGED vars PROVE UNCHANGED metrics
    BY <2>5 DEF Revoke, NextWindow, vars
  <2> QED BY Zenon, <2>1, <2>2, <2>3, <2>4, <2>5 DEF Next
<1>2. request \in [Requests -> Request]
  BY DEF Controlled
<1> DEFINE Kept == Ended' = Ended /\ \A p \in Ended : request'[p] = request[p]
<1>3. ASSUME NEW r \in Requests, request[r].stage # "counted",
             NEW x, x.stage # "counted", request' = [request EXCEPT ![r] = x]
      PROVE  Kept
  BY <1>2, <1>3 DEF Ended
<1>4. \A q \in Request : /\ \A status : Replied(q, status).stage = "replied"
                         /\ \A e : Threw(q, e).stage = "replied"
  BY DEF Threw, Replied, Request
<1>5. ASSUME NEW r \in Requests, NEW call \in Calls, NEW credential \in ApiKeys \cup {Nobody, Forged},
             Arrive(r, call, credential)
      PROVE  Kept
  <2> DEFINE q == Arriving(call, credential)
  <2>1. q \in Request
    BY ArrivingIsProper DEF Proper, Caller
  <2>2. Checked(q).stage # "counted" /\ Threw(q, RateLimitExceeded).stage # "counted"
    <3>1. [q EXCEPT !.stage = "handling"].stage = "handling"
      BY <2>1 DEF Request
    <3>2. [q EXCEPT !.stage = "authenticating", !.looked = TRUE].stage = "authenticating"
      BY <2>1 DEF Request
    <3> QED BY <1>4, <2>1, <3>1, <3>2 DEF Checked
  <2>3. /\ request[r].stage = "new"
        /\ \/ request' = [request EXCEPT ![r] = Threw(q, RateLimitExceeded)]
           \/ request' = [request EXCEPT ![r] = Checked(q)]
    BY <1>5 DEF Arrive, Arriving
  <2> QED BY <1>3, <2>2, <2>3
<1>6. ASSUME NEW r \in Requests, Authenticate(r) \/ AuthenticationFails(r) PROVE Kept
  <2> DEFINE q      == request[r]
             known  == [q EXCEPT !.identity = q.credential]
             acting == [known EXCEPT !.stage = "handling"]
  <2>1. q \in Request /\ q.stage = "authenticating"
    BY <1>2, <1>6 DEF Authenticate, AuthenticationFails
  <2>2. known \in Request /\ acting.stage = "handling"
    BY <2>1 DEF Request
  <2>3. Identified(q).stage # "counted"
    BY <1>4, <2>2 DEF Identified
  <2>4. \/ request' = [request EXCEPT ![r] = Identified(q)]
        \/ \E e : request' = [request EXCEPT ![r] = Threw(q, e)]
    BY <1>6 DEF Authenticate, AuthenticationFails
  <2> QED BY <1>3, <1>4, <2>1, <2>3, <2>4
<1>7. ASSUME NEW r \in Requests, Answered(r) PROVE Kept
  <2>1. request[r] \in Request /\ request[r].stage = "handling"
    BY <1>2, <1>7 DEF Answered, NotFound, BodyRejected, Ready, Serve, Scrape, Handling
  <2>2. \/ \E status : request' = [request EXCEPT ![r] = Replied(request[r], status)]
        \/ \E e : request' = [request EXCEPT ![r] = Threw(request[r], e)]
    BY Zenon, <1>7 DEF Answered, NotFound, BodyRejected, Ready, Serve, Scrape
  <2> QED BY <1>3, <1>4, <2>1, <2>2
<1>8. ASSUME NEW r \in Requests, IssueToken(r) PROVE Kept
  <2> DEFINE x == [Replied(request[r], 200) EXCEPT !.token = TRUE]
  <2>1. request[r] \in Request /\ request[r].stage = "handling" /\ request' = [request EXCEPT ![r] = x]
    BY <1>2, <1>8 DEF IssueToken, Handling
  <2>2. x.stage = "replied"
    BY <2>1 DEF Replied, Request
  <2> QED BY <1>3, <2>1, <2>2
<1>9. ASSUME NEW r \in Requests, ClientLeaves(r) PROVE Kept
  <2> DEFINE x == [request[r] EXCEPT !.stage = "abandoned"]
  <2>1. request[r] \in Request /\ request[r].stage = "replied" /\ request' = [request EXCEPT ![r] = x]
    BY <1>2, <1>9 DEF ClientLeaves
  <2>2. x.stage = "abandoned"
    BY <2>1 DEF Request
  <2> QED BY <1>3, <2>1, <2>2
<1>10. ASSUME (\E k \in active : Revoke(k)) \/ NextWindow \/ UNCHANGED vars PROVE Kept
  BY <1>10 DEF Revoke, NextWindow, vars, Ended
<1>11. Kept
  BY Zenon, <1>5, <1>6, <1>7, <1>8, <1>9, <1>10 DEF Next, Answered
<1>12. Served' = Served /\ Failures' = Failures
  <2>1. Served' = Served
    BY <1>11 DEF Served
  <2>2. {x \in Exchanges : ~request[x].token}' = {x \in Exchanges : ~request[x].token}
    BY <1>11 DEF Exchanges
  <2>3. \A x \in {x \in Exchanges : ~request[x].token} : x \in Ended
    BY DEF Exchanges
  <2> QED BY <1>11, <2>1, <2>2, <2>3 DEF Failures
<1>13. CountBy(Served)' = CountBy(Served') /\ CountBy(Failures)' = CountBy(Failures')
  BY DEF CountBy
<1> QED BY <1>1, <1>12, <1>13 DEF Registered

LEMMA RegisteredIsInductive == Controlled /\ Told /\ Registered /\ [Next]_vars => Registered'
BY RespondedRegisters, OthersRegister

LEMMA ScrapeIsOfOneMoment == Registered /\ Agrees(scraped) /\ [Next]_vars => Agrees(scraped)'
<1> SUFFICES ASSUME Registered, Agrees(scraped), [Next]_vars PROVE Agrees(scraped')
  BY DEF Agrees
<1>1. ASSUME NEW r \in Requests, Scrape(r) PROVE Agrees(scraped')
  BY <1>1, RenderAgrees DEF Scrape
<1>2. ASSUME NEW r \in Requests, NEW call \in Calls, NEW credential \in ApiKeys \cup {Nobody, Forged},
             Arrive(r, call, credential)
      PROVE  UNCHANGED scraped
  BY <1>2 DEF Arrive
<1>3. ASSUME NEW r \in Requests, Authenticate(r) \/ AuthenticationFails(r) PROVE UNCHANGED scraped
  BY <1>3 DEF Authenticate, AuthenticationFails
<1>4. ASSUME NEW r \in Requests, NotFound(r) \/ BodyRejected(r) \/ Ready(r) \/ IssueToken(r) \/ Serve(r)
      PROVE  UNCHANGED scraped
  BY <1>4 DEF NotFound, BodyRejected, Ready, IssueToken, Serve
<1>5. ASSUME NEW r \in Requests, NEW duration \in Durations, Responded(r, duration) PROVE UNCHANGED scraped
  BY <1>5 DEF Responded
<1>6. ASSUME NEW r \in Requests, ClientLeaves(r) PROVE UNCHANGED scraped
  BY <1>6 DEF ClientLeaves
<1>7. ASSUME (\E k \in active : Revoke(k)) \/ NextWindow \/ UNCHANGED vars PROVE UNCHANGED scraped
  BY <1>7 DEF Revoke, NextWindow, vars
<1>8. UNCHANGED scraped \/ \E r \in Requests : Scrape(r)
  BY Zenon, <1>2, <1>3, <1>4, <1>5, <1>6, <1>7 DEF Next
<1> QED BY <1>1, <1>8

\* Every request that ended is in one series of the totals, once; a failed exchange of an API
\* key is counted once, under its status, and one that got a token is not; and what a scrape
\* is given agrees with itself: for any number of requests, however they overlap and end.
THEOREM MetricsCountExactly == Spec => []MetricsAreExact
<1>1. Init => Told /\ Registered /\ Agrees(scraped)
  <2> SUFFICES ASSUME Init PROVE Told /\ Registered /\ Agrees(scraped)
    OBVIOUS
  <2>1. \A r \in Requests : request[r].stage = "new" /\ request[r].token = FALSE
    BY DEF Init, Idle
  <2>2. Told
    BY <2>1 DEF Told, Truthful
  <2>3. Ended = {} /\ Exchanges = {}
    BY <2>1 DEF Ended, Exchanges
  <2>4. CountBy(Served) = Empty
    BY <2>3 DEF CountBy, Served, Empty
  <2>5. CountBy(Failures) = Empty
    BY <2>3 DEF CountBy, Failures, Empty
  <2>6. Registered
    BY <2>4, <2>5 DEF Registered, Init, Empty
  <2>7. Agrees(scraped)
    BY DEF Agrees, Init
  <2> QED BY <2>2, <2>6, <2>7
<1>2. Registered /\ Agrees(scraped) => MetricsAreExact
  BY DEF Registered, MetricsAreExact
<1> QED BY <1>1, <1>2, InitIsControlled, ControlledIsInductive, ToldIsInductive, RegisteredIsInductive,
           ScrapeIsOfOneMoment, PTL DEF Spec

=============================================================================
