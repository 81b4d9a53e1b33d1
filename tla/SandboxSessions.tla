--------------------------- MODULE SandboxSessions ---------------------------
(***************************************************************************)
(* Private sandboxes: the provisioning handler of apps/api/src/demo/       *)
(* sandbox.ts, the bearer checks of every /v1 call, and the tabs of        *)
(* apps/web/src/App.tsx that hold a bearer in memory and share their       *)
(* browser's session cookie.                                               *)
(*                                                                         *)
(* A handler is a sequence of awaits and one action is the code between    *)
(* two of them, so handlers, replies and tabs interleave.  An API process  *)
(* may crash between any two awaits, a statement may fail, a reply may be  *)
(* lost; faults counts these.  One /v1 call is followed from its arrival   *)
(* to its handler; the limiter in front of POST is FixedWindowLimiter's.   *)
(***************************************************************************)
EXTENDS Naturals

CONSTANTS
  Browsers,   \* cookie jars
  Tabs,       \* open pages of the console
  Callers,    \* the tabs whose /v1 calls are followed
  BrowserOf,  \* the browser of a tab
  Sessions,   \* rows of demo_sessions, each with its tenant and service key
  None,
  Lifetime,   \* SESSION_SECONDS
  Ttl,        \* accessTokenTtlSeconds
  Skew,       \* clockSkewSeconds
  SeedSteps,  \* commits that seed a sandbox: assets, ledgers, accounts, postings
  MaxFaults,  \* bound on crashes, failed statements and lost replies
  MaxTime     \* bound on the clock

ASSUME BrowserOfType == BrowserOf \in [Tabs -> Browsers] /\ Callers \subseteq Tabs
ASSUME NoneIsNoId == None \notin Sessions \cup Tabs
ASSUME BoundsType == {Lifetime, Ttl, SeedSteps} \subseteq Nat \ {0} /\ {Skew, MaxFaults, MaxTime} \subseteq Nat

VARIABLES
  now,
  session,  \* demo_sessions joined with api_keys
  post,     \* POST /demo/session, by the session it provisions
  cookie,   \* luxledger_sandbox in each browser
  tab,      \* what a tab remembers: the bearer, and whether bootstrap is running
  get,      \* the GET /demo/session of a tab: its bootstrap or its renewal timer
  call,     \* the /v1 call followed
  faults

vars == <<now, session, post, cookie, tab, get, call, faults>>

NoRow   == [exists |-> FALSE, expires_at |-> 0, revoked |-> FALSE, seeded |-> 0]
NoToken == [session |-> None, exp |-> 0]
NoPost  == [pc |-> "none", tab |-> None, browser |-> None, previous |-> None]
NoGet   == [pc |-> "none", why |-> "renewal", cookie |-> None, token |-> NoToken]
NoCall  == [pc |-> "none", token |-> NoToken, late |-> FALSE]

Request(why, c) == [pc |-> "sent", why |-> why, cookie |-> c, token |-> NoToken]
Loading         == [token |-> NoToken, busy |-> TRUE]

\* Every tab is open and bootstraps; no browser has been here before.
Init ==
  /\ now = 0
  /\ session = [s \in Sessions |-> NoRow]
  /\ post = [s \in Sessions |-> NoPost]
  /\ cookie = [b \in Browsers |-> None]
  /\ tab = [t \in Tabs |-> Loading]
  /\ get = [t \in Tabs |-> Request("bootstrap", None)]
  /\ call = NoCall
  /\ faults = 0

Expired(s) == session[s].expires_at <= now
Usable(s)  == session[s].exists /\ ~session[s].revoked /\ ~Expired(s)
Token(s)   == [session |-> s, exp |-> now + Ttl]

Fault == faults < MaxFaults /\ faults' = faults + 1

\* The tab of request s hears of the outcome; a tab that has gone does not.
Tell(s, memory) == tab' = [t \in Tabs |-> IF t = post[s].tab THEN memory ELSE tab[t]]
Answered(s)     == Tell(s, [tab[post[s].tab] EXCEPT !.busy = FALSE])

\* Request s is over, and no tab waits for it any more.
Over(s, pc) == [post EXCEPT ![s].pc = pc, ![s].tab = None]

-----------------------------------------------------------------------------
(* Tabs: bootstrap, and the renewal timer.                                 *)

\* The page loads again: it forgets the bearer, and the replies it waited for are
\* not read.
LoadPage(t) ==
  /\ tab' = [tab EXCEPT ![t] = Loading]
  /\ get' = [get EXCEPT ![t] = Request("bootstrap", cookie[BrowserOf[t]])]
  /\ post' = [s \in Sessions |-> IF post[s].tab = t THEN [post[s] EXCEPT !.tab = None] ELSE post[s]]
  /\ UNCHANGED <<now, session, cookie, call, faults>>

Unused == {s \in Sessions : post[s].pc = "none"}

\* POST /demo/session leaves with the cookie the browser has at that moment.
Send(t, s) ==
  post' = [post EXCEPT ![s] = [pc |-> "arrived", tab |-> t, browser |-> BrowserOf[t],
                              previous |-> cookie[BrowserOf[t]]]]

\* New sandbox: the button is enabled unless a bootstrap runs.
NewSandbox(t, s) ==
  /\ ~tab[t].busy /\ s \in Unused
  /\ Send(t, s)
  /\ tab' = [tab EXCEPT ![t].busy = TRUE]
  /\ UNCHANGED <<now, session, cookie, get, call, faults>>

\* The renewal timer, which runs once the tab has a session, also during a bootstrap.
Renew(t) ==
  /\ tab[t].token # NoToken /\ get[t].pc = "none"
  /\ get' = [get EXCEPT ![t] = Request("renewal", cookie[BrowserOf[t]])]
  /\ UNCHANGED <<now, session, post, cookie, tab, call, faults>>

\* GET /demo/session on the server: one query, then a fresh bearer.
ServeGet(t) ==
  LET c == get[t].cookie
  IN  /\ get[t].pc = "sent"
      /\ get' = [get EXCEPT ![t] = IF c # None /\ Usable(c)
                                     THEN [@ EXCEPT !.pc = "ok", !.token = Token(c)]
                                     ELSE [@ EXCEPT !.pc = "unauthorized"]]
      /\ UNCHANGED <<now, session, post, cookie, tab, call, faults>>

\* Wrong on purpose, for a mutant: a renewal's bearer is not taken over.
ReceiveSessionOnce(t) ==
  /\ get[t].pc = "ok"
  /\ tab' = [tab EXCEPT ![t] = [token |-> IF get[t].why = "renewal" THEN tab[t].token ELSE get[t].token,
                               busy |-> IF get[t].why = "bootstrap" THEN FALSE ELSE @.busy]]
  /\ get' = [get EXCEPT ![t] = NoGet]
  /\ UNCHANGED <<now, session, post, cookie, call, faults>>

\* The tab takes over the session it is given, whatever happened since it asked.
ReceiveSession(t) ==
  /\ get[t].pc = "ok"
  /\ tab' = [tab EXCEPT ![t] = [token |-> get[t].token,
                               busy |-> IF get[t].why = "bootstrap" THEN FALSE ELSE @.busy]]
  /\ get' = [get EXCEPT ![t] = NoGet]
  /\ UNCHANGED <<now, session, post, cookie, call, faults>>

\* 401: a bootstrap provisions a new sandbox.
ProvisionInstead(t) ==
  /\ get[t].pc = "unauthorized" /\ get[t].why = "bootstrap"
  /\ get' = [get EXCEPT ![t] = NoGet]
  /\ \E s \in Unused : Send(t, s)
  /\ UNCHANGED <<now, session, cookie, tab, call, faults>>

\* Wrong on purpose, for a mutant: busy is not cleared when provisioning is refused.
ReportUnauthorizedOnly(t) ==
  /\ get[t].pc = "unauthorized" /\ (get[t].why = "renewal" \/ Unused = {})
  /\ get' = [get EXCEPT ![t] = NoGet]
  /\ UNCHANGED <<now, session, post, cookie, tab, call, faults>>

\* 401: a renewal reports it; so does a bootstrap that the limiter of POST turns away.
ReportUnauthorized(t) ==
  /\ get[t].pc = "unauthorized" /\ (get[t].why = "renewal" \/ Unused = {})
  /\ get' = [get EXCEPT ![t] = NoGet]
  /\ tab' = [tab EXCEPT ![t].busy = IF get[t].why = "bootstrap" THEN FALSE ELSE @]
  /\ UNCHANGED <<now, session, post, cookie, call, faults>>

LoseGet(t) ==
  /\ get[t].pc # "none" /\ Fault
  /\ tab' = [tab EXCEPT ![t].busy = IF get[t].why = "bootstrap" THEN FALSE ELSE @]
  /\ get' = [get EXCEPT ![t] = NoGet]
  /\ UNCHANGED <<now, session, post, cookie, call>>

-----------------------------------------------------------------------------
(* The provisioning handler.                                               *)

Provision(s) ==
  /\ post[s].pc = "arrived"
  /\ session' = [session EXCEPT ![s] = [exists |-> TRUE, expires_at |-> now + Lifetime,
                                       revoked |-> FALSE, seeded |-> 0]]
  /\ post' = [post EXCEPT ![s].pc = "seeding"]
  /\ UNCHANGED <<now, cookie, tab, get, call, faults>>

\* Wrong on purpose, for a mutant: off by one.
SeedOnceMore(s) ==
  /\ post[s].pc = "seeding"
  /\ session' = [session EXCEPT ![s].seeded = @ + 1]
  /\ post' = [post EXCEPT ![s].pc = IF session[s].seeded = SeedSteps THEN "replacing" ELSE @]
  /\ UNCHANGED <<now, cookie, tab, get, call, faults>>

Seed(s) ==
  /\ post[s].pc = "seeding"
  /\ session' = [session EXCEPT ![s].seeded = @ + 1]
  /\ post' = [post EXCEPT ![s].pc = IF session'[s].seeded = SeedSteps THEN "replacing" ELSE @]
  /\ UNCHANGED <<now, cookie, tab, get, call, faults>>

\* Wrong on purpose, for a mutant: the error is swallowed.
SeedFailsSilently(s) ==
  /\ post[s].pc = "seeding" /\ Fault
  /\ post' = [post EXCEPT ![s].pc = "replacing"]
  /\ UNCHANGED <<now, session, cookie, tab, get, call>>

SeedFails(s) ==
  /\ post[s].pc = "seeding" /\ Fault
  /\ post' = [post EXCEPT ![s].pc = "failing"]
  /\ UNCHANGED <<now, session, cookie, tab, get, call>>

RevokeOwn(s) ==
  /\ post[s].pc = "failing"
  /\ session' = [session EXCEPT ![s].revoked = TRUE]
  /\ post' = Over(s, "failed")
  /\ Answered(s)
  /\ UNCHANGED <<now, cookie, get, call, faults>>

\* Wrong on purpose, for a mutant: an expired session keeps its key.
RevokeLivePrevious(s) ==
  /\ post[s].pc = "replacing"
  /\ session' = [k \in Sessions |-> IF k = post[s].previous /\ Usable(k) THEN [session[k] EXCEPT !.revoked = TRUE]
                                                            ELSE session[k]]
  /\ post' = [post EXCEPT ![s].pc = "replying"]
  /\ UNCHANGED <<now, cookie, tab, get, call, faults>>

RevokePrevious(s) ==
  /\ post[s].pc = "replacing"
  /\ session' = [k \in Sessions |-> IF k = post[s].previous THEN [session[k] EXCEPT !.revoked = TRUE]
                                                            ELSE session[k]]
  /\ post' = [post EXCEPT ![s].pc = "replying"]
  /\ UNCHANGED <<now, cookie, tab, get, call, faults>>

\* The statement that provisions or revokes fails: 500.
StatementFails(s) ==
  /\ post[s].pc \in {"arrived", "failing", "replacing"} /\ Fault
  /\ post' = Over(s, "failed")
  /\ Answered(s)
  /\ UNCHANGED <<now, session, cookie, get, call>>

\* 201 reaches the browser, which stores the cookie, and the tab.
Deliver(s) ==
  /\ post[s].pc = "replying"
  /\ cookie' = [cookie EXCEPT ![post[s].browser] = s]
  /\ Tell(s, [token |-> Token(s), busy |-> FALSE])
  /\ post' = Over(s, "delivered")
  /\ UNCHANGED <<now, session, get, call, faults>>

\* Listing the assets for the reply fails: 500, with the cookie already set on it.
DeliverError(s) ==
  /\ post[s].pc = "replying" /\ Fault
  /\ cookie' = [cookie EXCEPT ![post[s].browser] = s]
  /\ Answered(s)
  /\ post' = Over(s, "delivered")
  /\ UNCHANGED <<now, session, get, call>>

\* The reply is lost; when its tab has gone the browser may drop it as well.
LoseReply(s) ==
  /\ post[s].pc = "replying"
  /\ IF post[s].tab = None THEN UNCHANGED faults ELSE Fault
  /\ post' = Over(s, "failed")
  /\ Answered(s)
  /\ UNCHANGED <<now, session, cookie, get, call>>

Running == {"arrived", "seeding", "failing", "replacing", "replying"}

\* The API process dies with every request it was serving.
Crash ==
  /\ Fault
  /\ post' = [s \in Sessions |-> IF post[s].pc \in Running THEN Over(s, "failed")[s] ELSE post[s]]
  /\ get' = [t \in Tabs |-> IF get[t].pc = "sent" THEN NoGet ELSE get[t]]
  /\ tab' = [t \in Tabs |->
       IF (get[t].pc = "sent" /\ get[t].why = "bootstrap")
          \/ \E s \in Sessions : post[s].tab = t /\ post[s].pc \in Running
         THEN [tab[t] EXCEPT !.busy = FALSE] ELSE tab[t]]
  /\ call' = NoCall
  /\ UNCHANGED <<now, session, cookie>>

-----------------------------------------------------------------------------
(* A /v1 call with the bearer of a tab: three checks, an await before each. *)

Step(from, to, admitted) ==
  /\ call.pc = from
  /\ call' = IF admitted THEN [call EXCEPT !.pc = to] ELSE NoCall
  /\ UNCHANGED <<now, session, post, cookie, tab, get, faults>>

\* late: the key was revoked or the session over when the call reached the server.
Call(t) ==
  /\ call.pc = "none" /\ tab[t].token # NoToken
  /\ call' = [pc |-> "arrived", token |-> tab[t].token, late |-> ~Usable(tab[t].token.session)]
  /\ UNCHANGED <<now, session, post, cookie, tab, get, faults>>

VerifyAccessToken         == Step("arrived", "verified", call.token.exp + Skew > now)
AssertAccessTokenIsActive == Step("verified", "active", ~session[call.token.session].revoked)
\* Wrong on purpose, for a mutant: the boundary hook is missing.
NoSessionBoundary      == Step("active", "running", TRUE)

CheckSessionBoundary      == Step("active", "running", ~Expired(call.token.session))
Finish                    == Step("running", "none", FALSE)

Tick ==
  /\ now < MaxTime
  /\ now' = now + 1
  /\ UNCHANGED <<session, post, cookie, tab, get, call, faults>>

-----------------------------------------------------------------------------
Serve(s) == Provision(s) \/ Seed(s) \/ RevokeOwn(s) \/ RevokePrevious(s) \/ Deliver(s)
Receive(t) == ServeGet(t) \/ ReceiveSession(t) \/ ProvisionInstead(t) \/ ReportUnauthorized(t)
Admit == VerifyAccessToken \/ AssertAccessTokenIsActive \/ CheckSessionBoundary \/ Finish

Next ==
  \/ \E t \in Tabs : LoadPage(t) \/ Renew(t) \/ Receive(t) \/ LoseGet(t)
  \/ \E t \in Callers : Call(t)
  \/ \E t \in Tabs, s \in Sessions : NewSandbox(t, s)
  \/ \E s \in Sessions : Serve(s) \/ SeedFails(s) \/ StatementFails(s) \/ DeliverError(s) \/ LoseReply(s)
  \/ Crash \/ Admit \/ Tick

Spec == Init /\ [][Next]_vars

\* Handlers run on, replies arrive, and the renewal timer fires.
Fairness ==
  /\ \A t \in Tabs : WF_vars(Receive(t)) /\ WF_vars(Renew(t))
  /\ \A s \in Sessions : WF_vars(Serve(s))

FairSpec == Spec /\ Fairness

-----------------------------------------------------------------------------
(* Properties.                                                             *)

TypeOK ==
  /\ now \in 0..MaxTime /\ faults \in 0..MaxFaults
  /\ session \in [Sessions -> [exists : BOOLEAN, expires_at : 0..(MaxTime + Lifetime),
                               revoked : BOOLEAN, seeded : 0..SeedSteps]]
  /\ \A s \in Sessions : /\ post[s].pc \in Running \cup {"none", "failed", "delivered"}
                         /\ post[s].tab \in Tabs \cup {None}
                         /\ post[s].previous \in Sessions \cup {None}
  /\ cookie \in [Browsers -> Sessions \cup {None}]
  /\ \A t \in Tabs : /\ tab[t].token.session \in Sessions \cup {None} /\ tab[t].busy \in BOOLEAN
                     /\ get[t].pc \in {"none", "sent", "ok", "unauthorized"}
  /\ call.pc \in {"none", "arrived", "verified", "active", "running"}

\* A sandbox a browser can reach is seeded completely: whatever fails, crashes or is
\* lost, a half-seeded tenant never becomes the browser's sandbox.
CookieIsSeeded ==
  \A b \in Browsers : cookie[b] # None => session[cookie[b]].seeded = SeedSteps

\* "Replacing a sandbox revokes only the old service key": a key is revoked because
\* its own seeding failed, or because its own browser completed a replacement that
\* presented its cookie; another visitor's requests and failed attempts revoke nothing.
\* And it does revoke it: once a tab has its new sandbox, the one its request replaced is
\* out of reach for every tab, whichever of two overlapping replacements finishes first.
RevokedForCause ==
  /\ \A s \in Sessions : session[s].revoked =>
       \/ post[s].pc = "failed" /\ session[s].seeded < SeedSteps
       \/ \E r \in Sessions \ {s} : /\ post[r].previous = s /\ post[r].browser = post[s].browser
                                    /\ session[r].seeded = SeedSteps
  /\ \A s \in Sessions : post[s].pc = "delivered" /\ post[s].previous # None =>
       session[post[s].previous].revoked

\* A call that reaches the server after its session's boundary or revocation is not
\* served, although its bearer outlives the session and is checked in three steps.
NoAccessAfterBoundary == call.pc = "running" => ~call.late

\* Bootstrap ends: no tab stays busy, whatever fails, unless its page is loaded again
\* for ever.
BootstrapEnds == \A t \in Tabs : []<>~tab[t].busy \/ []<><<LoadPage(t)>>_vars

\* A tab whose bearer was revoked under it (another tab replaced the sandbox, or a
\* renewal answered before the replacement arrives after it) gets a usable bearer
\* from its timer as long as the browser's sandbox is usable.
StaleBearerRecovers ==
  \A t \in Tabs :
    LET c == cookie[BrowserOf[t]]
        stale == /\ tab[t].token # NoToken /\ ~Usable(tab[t].token.session)
                 /\ c # None /\ Usable(c)
    IN  stale ~> ~stale

\* docs/CONSOLE.md: "a stale tab's revoked token requires a new page load": a tab whose
\* bearer was revoked has a usable one again only after its page is loaded, or when it
\* asks for a new sandbox itself.
StaleTabNeedsPageLoad ==
  [][\A t \in Tabs :
       LET old == tab[t].token.session
           new == tab[t].token.session'
       IN  old # None /\ new # None /\ session[old].revoked /\ ~session'[new].revoked
             => \E s \in Sessions : post[s].tab = t /\ Deliver(s)]_vars
=============================================================================
