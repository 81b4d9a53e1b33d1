------------------------ MODULE SandboxSessionsProofs ------------------------
(***************************************************************************)
(* What a browser may reach, why a key is revoked and which calls are      *)
(* served, for any number of browsers, tabs and sandboxes, any lifetimes,  *)
(* and any number of crashes, failed statements and lost replies.          *)
(***************************************************************************)
EXTENDS SandboxSessions, TLAPS

-----------------------------------------------------------------------------
(* The inductive invariant.                                                *)

Row      == [exists : BOOLEAN, expires_at : 0..(MaxTime + Lifetime), revoked : BOOLEAN, seeded : 0..SeedSteps]
Post     == [pc : Running \cup {"none", "failed", "delivered"}, tab : Tabs \cup {None},
             browser : Browsers \cup {None}, previous : Sessions \cup {None}]
Bearers  == [session : Sessions, exp : Nat]
Memory   == [token : Bearers \cup {NoToken}, busy : BOOLEAN]
Query    == [pc : {"none", "sent", "ok", "unauthorized"}, why : {"bootstrap", "renewal"},
             cookie : Sessions \cup {None}, token : Bearers \cup {NoToken}]
Followed == [pc : {"none", "arrived", "verified", "active", "running"}, token : Bearers \cup {NoToken}, late : BOOLEAN]

Typed ==
  /\ now \in 0..MaxTime /\ faults \in 0..MaxFaults
  /\ session \in [Sessions -> Row]
  /\ post \in [Sessions -> Post]
  /\ cookie \in [Browsers -> Sessions \cup {None}]
  /\ tab \in [Tabs -> Memory]
  /\ get \in [Tabs -> Query]
  /\ call \in Followed

\* How far a row is, by where its request is.
Staged ==
  \A s \in Sessions :
    /\ post[s].pc \in {"none", "arrived"} => session[s] = NoRow
    /\ post[s].pc \in {"seeding", "failing"} => session[s].exists /\ session[s].seeded < SeedSteps
    /\ post[s].pc \in {"replacing", "replying", "delivered"} => session[s].exists /\ session[s].seeded = SeedSteps

\* A browser's cookie names a sandbox that was delivered to this browser, and so does what a
\* request presented as the previous one.
Presented ==
  /\ \A b \in Browsers : cookie[b] # None => post[cookie[b]].pc = "delivered" /\ post[cookie[b]].browser = b
  /\ \A s \in Sessions : post[s].previous # None =>
       /\ post[s].previous # s
       /\ post[post[s].previous].pc = "delivered" /\ post[post[s].previous].browser = post[s].browser

\* RevokedForCause, and the previous sandbox is out before the reply is.
Caused ==
  /\ \A s \in Sessions : session[s].revoked =>
       \/ post[s].pc = "failed" /\ session[s].seeded < SeedSteps
       \/ \E r \in Sessions \ {s} : /\ post[r].previous = s /\ post[r].browser = post[s].browser
                                    /\ session[r].seeded = SeedSteps
  /\ \A s \in Sessions : post[s].pc \in {"replying", "delivered"} /\ post[s].previous # None =>
       session[post[s].previous].revoked

\* A bearer is for a sandbox there is.
Good(token) == token # NoToken => session[token.session].exists

Bearing ==
  /\ \A t \in Tabs : Good(tab[t].token) /\ Good(get[t].token) /\ (get[t].pc = "ok" => get[t].token # NoToken)
  /\ call.pc # "none" => call.token # NoToken /\ Good(call.token)

\* What is left for the checks to find: nothing un-revokes or prolongs a session, so what made
\* the call late is still so when its check comes.
Checked ==
  /\ call.late /\ call.pc # "none" => session[call.token.session].revoked \/ Expired(call.token.session)
  /\ call.late /\ call.pc = "active" => Expired(call.token.session)
  /\ call.pc = "running" => ~call.late

SandboxInv == Typed /\ Staged /\ Presented /\ Caused /\ Bearing /\ Checked

-----------------------------------------------------------------------------
(* Types.                                                                  *)

LEMMA TokensAreBearers ==
  ASSUME Typed, NEW s \in Sessions
  PROVE  Token(s) \in Bearers /\ Token(s) # NoToken /\ Token(s).session = s
BY BoundsType, NoneIsNoId DEF Typed, Token, Bearers, NoToken

LEMMA BearersAreTokens == \A token \in Bearers \cup {NoToken} : token # NoToken => token \in Bearers /\ token.session \in Sessions
BY DEF Bearers

\* What a tab is told keeps the tabs what they are.
LEMMA TellTypes ==
  ASSUME Typed, NEW s \in Sessions,
         Answered(s) \/ \E memory \in Memory : Tell(s, memory)
  PROVE  tab' \in [Tabs -> Memory]
<1>1. CASE Answered(s)
  <2>1. tab' = [t \in Tabs |-> IF t = post[s].tab THEN [tab[t] EXCEPT !.busy = FALSE] ELSE tab[t]]
    BY <1>1 DEF Answered, Tell
  <2>2. \A t \in Tabs : [tab[t] EXCEPT !.busy = FALSE] \in Memory /\ tab[t] \in Memory
    BY DEF Typed, Memory
  <2> QED BY <2>1, <2>2
<1>2. CASE \E memory \in Memory : Tell(s, memory)
  BY <1>2 DEF Tell, Typed
<1> QED BY <1>1, <1>2

LEMMA OverTypes ==
  ASSUME Typed, NEW s \in Sessions, NEW pc \in {"failed", "delivered"}
  PROVE  Over(s, pc) \in [Sessions -> Post]
BY DEF Typed, Over, Post

LEMMA SendTypes ==
  ASSUME Typed, NEW t \in Tabs, NEW s \in Sessions, Send(t, s)
  PROVE  post' \in [Sessions -> Post]
<1>1. [pc |-> "arrived", tab |-> t, browser |-> BrowserOf[t], previous |-> cookie[BrowserOf[t]]] \in Post
  BY BrowserOfType DEF Typed, Post, Running
<1> QED BY <1>1 DEF Typed, Send

LEMMA TabsType ==
  ASSUME Typed, NEW t \in Tabs, LoadPage(t) \/ Renew(t) \/ Receive(t) \/ LoseGet(t)
  PROVE  Typed'
<1>1. /\ \A c \in Sessions \cup {None} : Request("bootstrap", c) \in Query /\ Request("renewal", c) \in Query
      /\ Loading \in Memory /\ NoGet \in Query
  BY DEF Request, Query, Loading, Memory, NoGet
<1>2. cookie[BrowserOf[t]] \in Sessions \cup {None} /\ get[t] \in Query /\ tab[t] \in Memory
  BY BrowserOfType DEF Typed
<1>3. CASE LoadPage(t)
  <2>1. post' \in [Sessions -> Post]
    BY <1>3 DEF Typed, LoadPage, Post
  <2>2. get' \in [Tabs -> Query] /\ tab' \in [Tabs -> Memory]
    BY <1>1, <1>2, <1>3 DEF Typed, LoadPage
  <2> QED BY <1>3, <2>1, <2>2 DEF Typed, LoadPage
<1>4. CASE Renew(t)
  BY <1>1, <1>2, <1>4 DEF Typed, Renew
<1>5. CASE ServeGet(t)
  <2>1. PICK q \in Query : get' = [get EXCEPT ![t] = q]
    <3>1. [get[t] EXCEPT !.pc = "unauthorized"] \in Query
      BY <1>2 DEF Query
    <3>2. ASSUME get[t].cookie # None
          PROVE  [get[t] EXCEPT !.pc = "ok", !.token = Token(get[t].cookie)] \in Query
      <4>1. Token(get[t].cookie) \in Bearers
        BY <1>2, <3>2, TokensAreBearers DEF Query
      <4> QED BY <1>2, <4>1 DEF Query
    <3> QED BY <1>5, <3>1, <3>2 DEF ServeGet
  <2> QED BY <1>5, <2>1 DEF Typed, ServeGet
<1>6. CASE ReceiveSession(t)
  <2>1. PICK busy \in BOOLEAN : tab' = [tab EXCEPT ![t] = [token |-> get[t].token, busy |-> busy]]
    <3>1. tab[t].busy \in BOOLEAN /\ tab \in [Tabs -> Memory]
      BY <1>2 DEF Memory, Typed
    <3> QED BY <1>6, <3>1 DEF ReceiveSession
  <2>2. [token |-> get[t].token, busy |-> busy] \in Memory
    BY <1>2 DEF Query, Memory
  <2> QED BY <1>1, <1>6, <2>1, <2>2 DEF Typed, ReceiveSession
<1>7. CASE ProvisionInstead(t)
  <2>1. post' \in [Sessions -> Post]
    BY <1>7, SendTypes DEF ProvisionInstead, Unused
  <2> QED BY <1>1, <1>7, <2>1 DEF Typed, ProvisionInstead
<1>8. ASSUME tab' = [tab EXCEPT ![t].busy = IF get[t].why = "bootstrap" THEN FALSE ELSE @]
      PROVE  tab' \in [Tabs -> Memory]
  BY <1>2, <1>8 DEF Typed, Memory
<1>9. CASE ReportUnauthorized(t)
  BY <1>1, <1>8, <1>9 DEF Typed, ReportUnauthorized
<1>10. CASE LoseGet(t)
  <2>1. faults' \in 0..MaxFaults
    BY <1>10, BoundsType DEF LoseGet, Fault, Typed
  <2> QED BY <1>1, <1>8, <1>10, <2>1 DEF Typed, LoseGet
<1> QED BY <1>3, <1>4, <1>5, <1>6, <1>7, <1>9, <1>10 DEF Receive

LEMMA HandlersType ==
  ASSUME Typed, Staged, NEW s \in Sessions,
         Serve(s) \/ SeedFails(s) \/ StatementFails(s) \/ DeliverError(s) \/ LoseReply(s)
  PROVE  Typed'
<1>1. /\ session[s] \in Row /\ post[s] \in Post
      /\ session \in [Sessions -> Row] /\ post \in [Sessions -> Post]
  BY DEF Typed
<1>2. Fault => faults' \in 0..MaxFaults
  BY BoundsType DEF Fault, Typed
<1>3. ASSUME NEW pc \in {"seeding", "failing", "replacing", "replying"}, post' = [post EXCEPT ![s].pc = pc]
      PROVE  post' \in [Sessions -> Post]
  <2>1. [post[s] EXCEPT !.pc = pc] \in Post
    BY <1>1 DEF Post, Running
  <2> QED BY <1>1, <1>3, <2>1
<1>4. CASE Provision(s)
  <2>1. [exists |-> TRUE, expires_at |-> now + Lifetime, revoked |-> FALSE, seeded |-> 0] \in Row
    BY BoundsType DEF Typed, Row
  <2>2. session' \in [Sessions -> Row]
    BY <1>1, <1>4, <2>1 DEF Provision
  <2> QED BY <1>3, <1>4, <2>2 DEF Typed, Provision
<1>5. CASE Seed(s)
  <2>1. session[s].seeded + 1 \in 0..SeedSteps
    BY <1>1, <1>5, BoundsType DEF Staged, Seed, Row
  <2>2. [session[s] EXCEPT !.seeded = @ + 1] \in Row
    BY <1>1, <2>1 DEF Row
  <2>3. session' \in [Sessions -> Row]
    BY <1>1, <1>5, <2>2 DEF Seed
  <2>4. \/ post' = [post EXCEPT ![s].pc = "replacing"]
        \/ post' = post
    BY <1>1, <1>5 DEF Seed, Post
  <2>5. post' \in [Sessions -> Post]
    BY <1>1, <1>3, <2>4
  <2> QED BY <1>5, <2>3, <2>5 DEF Typed, Seed
<1>6. CASE RevokeOwn(s)
  <2>1. session' \in [Sessions -> Row]
    BY <1>1, <1>6 DEF RevokeOwn, Row
  <2>2. post' \in [Sessions -> Post] /\ tab' \in [Tabs -> Memory]
    BY <1>6, OverTypes, TellTypes DEF RevokeOwn
  <2> QED BY <1>6, <2>1, <2>2 DEF Typed, RevokeOwn
<1>7. CASE RevokePrevious(s)
  <2>1. session' \in [Sessions -> Row]
    BY <1>1, <1>7 DEF RevokePrevious, Row
  <2> QED BY <1>3, <1>7, <2>1 DEF Typed, RevokePrevious
<1>8. ASSUME cookie' = [cookie EXCEPT ![post[s].browser] = s]
      PROVE  cookie' \in [Browsers -> Sessions \cup {None}]
  BY <1>8 DEF Typed
<1>9. CASE Deliver(s)
  <2>1. [token |-> Token(s), busy |-> FALSE] \in Memory
    BY TokensAreBearers DEF Memory
  <2>2. post' \in [Sessions -> Post] /\ tab' \in [Tabs -> Memory]
    BY <1>9, <2>1, OverTypes, TellTypes DEF Deliver
  <2> QED BY <1>8, <1>9, <2>2 DEF Typed, Deliver
<1>10. CASE DeliverError(s)
  <2>1. post' \in [Sessions -> Post] /\ tab' \in [Tabs -> Memory]
    BY <1>10, OverTypes, TellTypes DEF DeliverError
  <2> QED BY <1>2, <1>8, <1>10, <2>1 DEF Typed, DeliverError
<1>11. CASE SeedFails(s)
  BY <1>2, <1>3, <1>11 DEF Typed, SeedFails
<1>12. CASE StatementFails(s)
  <2>1. post' \in [Sessions -> Post] /\ tab' \in [Tabs -> Memory]
    BY <1>12, OverTypes, TellTypes DEF StatementFails
  <2> QED BY <1>2, <1>12, <2>1 DEF Typed, StatementFails
<1>13. CASE LoseReply(s)
  <2>1. post' \in [Sessions -> Post] /\ tab' \in [Tabs -> Memory]
    BY <1>13, OverTypes, TellTypes DEF LoseReply
  <2>2. faults' \in 0..MaxFaults
    BY <1>2, <1>13 DEF LoseReply, Typed
  <2> QED BY <1>13, <2>1, <2>2 DEF Typed, LoseReply
<1> QED BY <1>4, <1>5, <1>6, <1>7, <1>9, <1>10, <1>11, <1>12, <1>13 DEF Serve

LEMMA CrashTypes ==
  ASSUME Typed, Crash
  PROVE  Typed'
<1>1. faults' \in 0..MaxFaults
  BY BoundsType DEF Crash, Fault, Typed
<1>2. ASSUME NEW s \in Sessions PROVE Over(s, "failed")[s] \in Post /\ post[s] \in Post
  BY OverTypes DEF Typed
<1>3. post' \in [Sessions -> Post]
  BY <1>2 DEF Crash
<1>4. get' \in [Tabs -> Query]
  <2>1. NoGet \in Query
    BY DEF NoGet, Query
  <2> QED BY <2>1 DEF Crash, Typed
<1>5. tab' \in [Tabs -> Memory]
  <2>1. \A t \in Tabs : [tab[t] EXCEPT !.busy = FALSE] \in Memory /\ tab[t] \in Memory
    BY DEF Typed, Memory
  <2> QED BY <2>1 DEF Crash
<1>6. call' \in Followed
  BY DEF Crash, NoCall, Followed
<1> QED BY <1>1, <1>3, <1>4, <1>5, <1>6 DEF Crash, Typed

LEMMA CallTypes ==
  ASSUME Typed, Admit \/ \E t \in Callers : Call(t)
  PROVE  Typed'
<1>1. call \in Followed /\ NoCall \in Followed
  BY DEF Typed, NoCall, Followed
<1>2. CASE Admit
  <2>1. \A pc \in {"verified", "active", "running", "none"} : [call EXCEPT !.pc = pc] \in Followed
    BY <1>1 DEF Followed
  <2>2. call' \in Followed
    BY <1>1, <1>2, <2>1 DEF Admit, VerifyAccessToken, AssertAccessTokenIsActive, CheckSessionBoundary, Finish, Step
  <2> QED BY <1>2, <2>2
      DEF Typed, Admit, VerifyAccessToken, AssertAccessTokenIsActive, CheckSessionBoundary, Finish, Step
<1>3. ASSUME NEW t \in Callers, Call(t) PROVE Typed'
  <2>1. tab[t] \in Memory
    BY BrowserOfType DEF Typed
  <2>2. call' \in Followed
    BY <1>3, <2>1 DEF Call, Followed, Memory, Usable
  <2> QED BY <1>3, <2>2 DEF Typed, Call
<1> QED BY <1>2, <1>3

LEMMA TypedIsInductive ==
  ASSUME Typed, Staged, [Next]_vars
  PROVE  Typed'
<1>1. ASSUME NEW t \in Tabs, NEW s \in Sessions, NewSandbox(t, s) PROVE Typed'
  <2>1. post' \in [Sessions -> Post]
    BY <1>1, SendTypes DEF NewSandbox
  <2>2. tab' \in [Tabs -> Memory]
    BY <1>1 DEF NewSandbox, Typed, Memory
  <2> QED BY <1>1, <2>1, <2>2 DEF Typed, NewSandbox
<1>2. CASE Tick
  BY <1>2, BoundsType DEF Tick, Typed
<1>3. CASE UNCHANGED vars
  BY <1>3 DEF vars, Typed
<1> QED BY <1>1, <1>2, <1>3, TabsType, HandlersType, CrashTypes, CallTypes DEF Next

-----------------------------------------------------------------------------
(* Why a key is revoked: seven kinds of steps change rows, requests or     *)
(* cookies.                                                                *)

Causes == Staged /\ Presented /\ Caused

\* Steps that end requests, or do not move them: whatever happens in the tabs, a crash, a failed
\* statement, a lost reply.
Settles ==
  /\ session' = session /\ cookie' = cookie
  /\ \A s \in Sessions :
       /\ post'[s].browser = post[s].browser /\ post'[s].previous = post[s].previous
       /\ \/ post'[s].pc = post[s].pc
          \/ post[s].pc \in Running /\ post'[s].pc = "failed"
          \/ post[s].pc = "seeding" /\ post'[s].pc = "failing"

LEMMA PresentedStays ==
  ASSUME Typed, Presented, cookie' = cookie,
         \A s \in Sessions : /\ post'[s].browser = post[s].browser /\ post'[s].previous = post[s].previous
                             /\ post[s].pc = "delivered" => post'[s].pc = "delivered"
  PROVE  Presented'
<1>1. ASSUME NEW b \in Browsers, cookie'[b] # None
      PROVE  post'[cookie'[b]].pc = "delivered" /\ post'[cookie'[b]].browser = b
  <2>1. cookie'[b] = cookie[b] /\ cookie[b] \in Sessions
    BY <1>1 DEF Typed
  <2> QED BY <1>1, <2>1 DEF Presented
<1>2. ASSUME NEW s \in Sessions, post'[s].previous # None
      PROVE  /\ post'[s].previous # s
             /\ post'[post'[s].previous].pc = "delivered" /\ post'[post'[s].previous].browser = post'[s].browser
  <2>1. post'[s].previous = post[s].previous /\ post[s].previous \in Sessions
    BY <1>2 DEF Typed, Post
  <2> QED BY <1>2, <2>1 DEF Presented
<1> QED BY <1>1, <1>2 DEF Presented

LEMMA SettlingKeepsCauses ==
  ASSUME Typed, Causes, Settles
  PROVE  Causes'
<1>1. Staged'
  BY DEF Causes, Staged, Settles, Running
<1>2. Presented'
  BY PresentedStays DEF Causes, Settles, Running
<1>3. Caused'
  <2>1. ASSUME NEW s \in Sessions, session'[s].revoked
        PROVE  \/ post'[s].pc = "failed" /\ session'[s].seeded < SeedSteps
               \/ \E r \in Sessions \ {s} : /\ post'[r].previous = s /\ post'[r].browser = post'[s].browser
                                            /\ session'[r].seeded = SeedSteps
    <3>1. post[s].pc = "failed" => post'[s].pc = "failed"
      BY DEF Settles, Running
    <3> QED BY <2>1, <3>1 DEF Causes, Caused, Settles
  <2>2. ASSUME NEW s \in Sessions, post'[s].pc \in {"replying", "delivered"}, post'[s].previous # None
        PROVE  session'[post'[s].previous].revoked
    <3>1. post[s].pc = post'[s].pc
      BY <2>2 DEF Settles
    <3> QED BY <2>2, <3>1 DEF Causes, Caused, Settles
  <2> QED BY <2>1, <2>2 DEF Caused
<1> QED BY <1>1, <1>2, <1>3 DEF Causes

LEMMA SendingKeepsCauses ==
  ASSUME Typed, Causes, NEW t \in Tabs, NEW s \in Unused, Send(t, s), UNCHANGED <<session, cookie>>
  PROVE  Causes'
<1> DEFINE b == BrowserOf[t]
           c == cookie[b]
<1>1. /\ s \in Sessions /\ post[s].pc = "none" /\ b \in Browsers /\ c \in Sessions \cup {None}
      /\ post \in [Sessions -> Post]
  BY BrowserOfType DEF Unused, Typed
<1>2. /\ post'[s] = [pc |-> "arrived", tab |-> t, browser |-> b, previous |-> c]
      /\ \A r \in Sessions \ {s} : post'[r] = post[r]
  BY <1>1 DEF Send
<1>3. c # None => c # s /\ post[c].pc = "delivered" /\ post[c].browser = b
  BY <1>1 DEF Causes, Presented
<1>4. session[s].seeded # SeedSteps /\ ~session[s].revoked
  BY <1>1, BoundsType DEF Causes, Staged, NoRow
<1>5. Staged'
  BY <1>1, <1>2 DEF Causes, Staged
<1>6. Presented'
  <2>1. ASSUME NEW a \in Browsers, cookie'[a] # None
        PROVE  post'[cookie'[a]].pc = "delivered" /\ post'[cookie'[a]].browser = a
    <3>1. cookie[a] \in Sessions /\ cookie'[a] = cookie[a] /\ post[cookie[a]].pc = "delivered" /\ post[cookie[a]].browser = a
      BY <2>1 DEF Typed, Causes, Presented
    <3> QED BY <1>1, <1>2, <3>1
  <2>2. ASSUME NEW r \in Sessions, post'[r].previous # None
        PROVE  /\ post'[r].previous # r
               /\ post'[post'[r].previous].pc = "delivered" /\ post'[post'[r].previous].browser = post'[r].browser
    <3>1. CASE r = s
      BY <1>1, <1>2, <1>3, <2>2, <3>1
    <3>2. CASE r # s
      <4>1. /\ post[r].previous \in Sessions /\ post'[r] = post[r] /\ post[r].previous # r
            /\ post[post[r].previous].pc = "delivered" /\ post[post[r].previous].browser = post[r].browser
        BY <1>1, <1>2, <2>2, <3>2 DEF Post, Causes, Presented
      <4> QED BY <1>1, <1>2, <4>1
    <3> QED BY <3>1, <3>2
  <2> QED BY <2>1, <2>2 DEF Presented
<1>7. Caused'
  <2>1. ASSUME NEW k \in Sessions, session'[k].revoked
        PROVE  \/ post'[k].pc = "failed" /\ session'[k].seeded < SeedSteps
               \/ \E r \in Sessions \ {k} : /\ post'[r].previous = k /\ post'[r].browser = post'[k].browser
                                            /\ session'[r].seeded = SeedSteps
    BY <1>2, <1>4, <2>1 DEF Causes, Caused
  <2>2. ASSUME NEW k \in Sessions, post'[k].pc \in {"replying", "delivered"}, post'[k].previous # None
        PROVE  session'[post'[k].previous].revoked
    BY <1>2, <2>2 DEF Causes, Caused
  <2> QED BY <2>1, <2>2 DEF Caused
<1> QED BY <1>5, <1>6, <1>7 DEF Causes

\* A request that goes on: its own row changes, no other; who sent it and what it replaces stay.
GoesOn(s, pc) ==
  /\ cookie' = cookie
  /\ post' = [post EXCEPT ![s].pc = pc]
  /\ \A k \in Sessions \ {s} : session'[k] = session[k]

LEMMA GoingOnKeepsCauses ==
  ASSUME Typed, Typed', Causes, NEW s \in Sessions, NEW pc, GoesOn(s, pc),
         post[s].pc \in {"arrived", "seeding"}, pc \in {"seeding", "replacing"},
         pc = "seeding" => session'[s].exists /\ session'[s].seeded < SeedSteps,
         pc = "replacing" => session'[s].exists /\ session'[s].seeded = SeedSteps,
         session'[s].revoked => session[s].revoked
  PROVE  Causes'
<1>1. /\ post \in [Sessions -> Post]
      /\ post'[s].pc = pc /\ post'[s].previous = post[s].previous /\ post'[s].browser = post[s].browser
      /\ \A r \in Sessions \ {s} : post'[r] = post[r]
  BY DEF Typed, GoesOn, Post
<1>2. session[s].seeded # SeedSteps
  BY BoundsType DEF Causes, Staged, NoRow, Typed, Row
<1>3. Staged'
  BY <1>1 DEF Causes, Staged, GoesOn
<1>4. Presented'
  <2>1. \A r \in Sessions : /\ post'[r].browser = post[r].browser /\ post'[r].previous = post[r].previous
                            /\ post[r].pc = "delivered" => post'[r].pc = "delivered"
    BY <1>1
  <2> QED BY <2>1, PresentedStays DEF Causes, GoesOn
<1>5. Caused'
  <2>1. ASSUME NEW k \in Sessions, session'[k].revoked
        PROVE  \/ post'[k].pc = "failed" /\ session'[k].seeded < SeedSteps
               \/ \E r \in Sessions \ {k} : /\ post'[r].previous = k /\ post'[r].browser = post'[k].browser
                                            /\ session'[r].seeded = SeedSteps
    <3>1. session[k].revoked
      BY <2>1 DEF GoesOn
    <3>2. CASE post[k].pc = "failed" /\ session[k].seeded < SeedSteps
      <4>1. k # s
        BY <3>2
      <4> QED BY <1>1, <3>2, <4>1 DEF GoesOn
    <3>3. CASE \E r \in Sessions \ {k} : /\ post[r].previous = k /\ post[r].browser = post[k].browser
                                         /\ session[r].seeded = SeedSteps
      <4>1. PICK r \in Sessions \ {k} : /\ post[r].previous = k /\ post[r].browser = post[k].browser
                                        /\ session[r].seeded = SeedSteps
        BY <3>3
      <4>2. r # s
        BY <1>2, <4>1
      <4>3. post'[r].previous = k /\ post'[r].browser = post'[k].browser /\ session'[r].seeded = SeedSteps
        BY <1>1, <4>1, <4>2 DEF GoesOn
      <4> QED BY <4>3
    <3> QED BY <3>1, <3>2, <3>3 DEF Causes, Caused
  <2>2. ASSUME NEW k \in Sessions, post'[k].pc \in {"replying", "delivered"}, post'[k].previous # None
        PROVE  session'[post'[k].previous].revoked
    <3>1. k # s /\ post'[k] = post[k]
      BY <1>1, <2>2
    <3>2. /\ post[k].previous \in Sessions /\ session[post[k].previous].revoked
          /\ post[post[k].previous].pc = "delivered"
      BY <1>1, <2>2, <3>1 DEF Causes, Caused, Presented, Post
    <3>3. post[k].previous # s
      BY <3>2
    <3> QED BY <3>1, <3>2, <3>3 DEF GoesOn
  <2> QED BY <2>1, <2>2 DEF Caused
<1> QED BY <1>3, <1>4, <1>5 DEF Causes

\* A failed request revokes the key of its own half-seeded sandbox.
LEMMA RevokingOwnKeepsCauses ==
  ASSUME Typed, Causes, NEW s \in Sessions, RevokeOwn(s)
  PROVE  Causes'
<1>1. /\ post[s].pc = "failing" /\ post \in [Sessions -> Post] /\ session[s] \in Row
      /\ post'[s].pc = "failed" /\ post'[s].previous = post[s].previous /\ post'[s].browser = post[s].browser
      /\ \A r \in Sessions \ {s} : post'[r] = post[r]
  BY DEF Typed, RevokeOwn, Over, Post
<1>2. /\ session'[s].exists = session[s].exists /\ session'[s].seeded = session[s].seeded /\ session'[s].revoked
      /\ \A r \in Sessions \ {s} : session'[r] = session[r]
      /\ cookie' = cookie
  BY <1>1 DEF RevokeOwn, Typed, Row
<1>3. session[s].seeded < SeedSteps
  BY <1>1 DEF Causes, Staged
<1>4. Staged'
  BY <1>1, <1>2 DEF Causes, Staged
<1>5. Presented'
  <2>1. \A r \in Sessions : /\ post'[r].browser = post[r].browser /\ post'[r].previous = post[r].previous
                            /\ post[r].pc = "delivered" => post'[r].pc = "delivered"
    BY <1>1
  <2> QED BY <1>2, <2>1, PresentedStays DEF Causes
<1>6. Caused'
  <2>1. ASSUME NEW k \in Sessions, session'[k].revoked
        PROVE  \/ post'[k].pc = "failed" /\ session'[k].seeded < SeedSteps
               \/ \E r \in Sessions \ {k} : /\ post'[r].previous = k /\ post'[r].browser = post'[k].browser
                                            /\ session'[r].seeded = SeedSteps
    <3>1. CASE k = s
      BY <1>1, <1>2, <1>3, <3>1
    <3>2. CASE k # s
      <4>1. session[k].revoked /\ session'[k] = session[k] /\ post'[k] = post[k]
        BY <1>1, <1>2, <2>1, <3>2
      <4>2. \A r \in Sessions : /\ post'[r].previous = post[r].previous /\ post'[r].browser = post[r].browser
                                /\ session'[r].seeded = session[r].seeded
        BY <1>1, <1>2
      <4> QED BY <4>1, <4>2 DEF Causes, Caused
    <3> QED BY <3>1, <3>2
  <2>2. ASSUME NEW k \in Sessions, post'[k].pc \in {"replying", "delivered"}, post'[k].previous # None
        PROVE  session'[post'[k].previous].revoked
    <3>1. k # s /\ post'[k] = post[k]
      BY <1>1, <2>2
    <3>2. post[k].previous \in Sessions /\ session[post[k].previous].revoked
      BY <1>1, <2>2, <3>1 DEF Causes, Caused, Post
    <3> QED BY <1>2, <3>1, <3>2
  <2> QED BY <2>1, <2>2 DEF Caused
<1> QED BY <1>4, <1>5, <1>6 DEF Causes

\* A completed replacement revokes the sandbox its browser's cookie named.
LEMMA RevokingPreviousKeepsCauses ==
  ASSUME Typed, Causes, NEW s \in Sessions, RevokePrevious(s)
  PROVE  Causes'
<1> DEFINE k == post[s].previous
<1>1. /\ post[s].pc = "replacing" /\ post \in [Sessions -> Post] /\ session \in [Sessions -> Row]
      /\ post'[s].pc = "replying" /\ cookie' = cookie
      /\ \A r \in Sessions : /\ post'[r].previous = post[r].previous /\ post'[r].browser = post[r].browser
                             /\ r # s => post'[r].pc = post[r].pc
  BY DEF Typed, RevokePrevious, Post
<1>2. \A r \in Sessions : /\ session'[r].exists = session[r].exists /\ session'[r].seeded = session[r].seeded
                          /\ session'[r].revoked = (r = k \/ session[r].revoked)
                          /\ r # k => session'[r] = session[r]
  <2>1. \A r \in Sessions : session[r] \in Row /\ [session[r] EXCEPT !.revoked = TRUE].exists = session[r].exists
                            /\ [session[r] EXCEPT !.revoked = TRUE].seeded = session[r].seeded
                            /\ [session[r] EXCEPT !.revoked = TRUE].revoked
    BY <1>1 DEF Row
  <2>2. \A r \in Sessions : session'[r] = IF r = k THEN [session[r] EXCEPT !.revoked = TRUE] ELSE session[r]
    BY DEF RevokePrevious
  <2>3. \A r \in Sessions : session[r].revoked \in BOOLEAN
    BY <2>1 DEF Row
  <2>4. ASSUME NEW r \in Sessions, r = k
        PROVE  session'[r].revoked /\ session'[r].exists = session[r].exists /\ session'[r].seeded = session[r].seeded
    BY <2>1, <2>2, <2>4
  <2>5. \A r \in Sessions : session'[r].revoked \in BOOLEAN
    BY <2>2, <2>1 DEF Row
  <2> QED BY <2>2, <2>3, <2>4, <2>5
<1>3. session[s].seeded = SeedSteps /\ session[s].exists
  BY <1>1 DEF Causes, Staged
<1>4. k # None => k \in Sessions \ {s} /\ post[k].pc = "delivered" /\ post[k].browser = post[s].browser
  BY <1>1 DEF Causes, Presented, Post
<1>5. Staged'
  <2>1. ASSUME NEW r \in Sessions, post'[r].pc \in {"none", "arrived"} PROVE session'[r] = NoRow
    <3>1. r # s /\ post[r].pc \in {"none", "arrived"}
      BY <1>1, <2>1
    <3>2. r # k
      BY <1>4, <3>1, NoneIsNoId
    <3> QED BY <1>2, <3>1, <3>2 DEF Causes, Staged
  <2> QED BY <1>1, <1>2, <1>3, <2>1 DEF Causes, Staged
<1>6. Presented'
  BY <1>1, PresentedStays DEF Causes
<1>7. Caused'
  <2>1. ASSUME NEW r \in Sessions, session'[r].revoked
        PROVE  \/ post'[r].pc = "failed" /\ session'[r].seeded < SeedSteps
               \/ \E x \in Sessions \ {r} : /\ post'[x].previous = r /\ post'[x].browser = post'[r].browser
                                            /\ session'[x].seeded = SeedSteps
    <3>1. CASE r = k
      <4>1. /\ s \in Sessions \ {r} /\ post'[s].previous = r /\ post'[s].browser = post'[r].browser
            /\ session'[s].seeded = SeedSteps
        BY <1>1, <1>2, <1>3, <1>4, <3>1, NoneIsNoId
      <4> QED BY <4>1
    <3>2. CASE r # k
      <4>1. session[r].revoked
        BY <1>2, <2>1, <3>2
      <4>2. post[r].pc = "failed" => post'[r].pc = "failed"
        BY <1>1
      <4> QED BY <1>1, <1>2, <4>1, <4>2 DEF Causes, Caused
    <3> QED BY <3>1, <3>2
  <2>2. ASSUME NEW r \in Sessions, post'[r].pc \in {"replying", "delivered"}, post'[r].previous # None
        PROVE  session'[post'[r].previous].revoked
    <3>1. post'[r].previous = post[r].previous /\ post[r].previous \in Sessions
      BY <1>1, <2>2 DEF Post
    <3>2. CASE r = s
      BY <1>2, <3>1, <3>2
    <3>3. CASE r # s
      BY <1>1, <1>2, <2>2, <3>1, <3>3 DEF Causes, Caused
    <3> QED BY <3>2, <3>3
  <2> QED BY <2>1, <2>2 DEF Caused
<1> QED BY <1>5, <1>6, <1>7 DEF Causes

\* The reply that sets the cookie.
LEMMA DeliveringKeepsCauses ==
  ASSUME Typed, Causes, NEW s \in Sessions, Deliver(s) \/ DeliverError(s)
  PROVE  Causes'
<1>1. /\ post[s].pc = "replying" /\ post \in [Sessions -> Post] /\ session' = session
      /\ post'[s].pc = "delivered"
      /\ \A r \in Sessions : /\ post'[r].previous = post[r].previous /\ post'[r].browser = post[r].browser
                             /\ r # s => post'[r].pc = post[r].pc
      /\ \A b \in Browsers : cookie'[b] = IF b = post[s].browser THEN s ELSE cookie[b]
  BY DEF Typed, Deliver, DeliverError, Over, Post
<1>2. Staged'
  BY <1>1 DEF Causes, Staged
<1>3. Presented'
  <2>1. ASSUME NEW b \in Browsers, cookie'[b] # None
        PROVE  post'[cookie'[b]].pc = "delivered" /\ post'[cookie'[b]].browser = b
    <3>1. CASE b = post[s].browser
      BY <1>1, <3>1
    <3>2. CASE b # post[s].browser
      <4>1. cookie[b] \in Sessions /\ cookie'[b] = cookie[b] /\ post[cookie[b]].pc = "delivered" /\ post[cookie[b]].browser = b
        BY <1>1, <2>1, <3>2 DEF Typed, Causes, Presented
      <4> QED BY <1>1, <4>1
    <3> QED BY <3>1, <3>2
  <2>2. ASSUME NEW r \in Sessions, post'[r].previous # None
        PROVE  /\ post'[r].previous # r
               /\ post'[post'[r].previous].pc = "delivered" /\ post'[post'[r].previous].browser = post'[r].browser
    <3>1. /\ post'[r].previous = post[r].previous /\ post'[r].browser = post[r].browser
      BY <1>1
    <3>2. /\ post[r].previous \in Sessions /\ post[r].previous # r
          /\ post[post[r].previous].pc = "delivered" /\ post[post[r].previous].browser = post[r].browser
      BY <1>1, <2>2, <3>1 DEF Post, Causes, Presented
    <3> QED BY <1>1, <3>1, <3>2
  <2> QED BY <2>1, <2>2 DEF Presented
<1>4. Caused'
  BY <1>1 DEF Causes, Caused
<1> QED BY <1>2, <1>3, <1>4 DEF Causes

\* The actions, by their kind.
LEMMA TabsSettle ==
  ASSUME Typed, NEW t \in Tabs,
         LoadPage(t) \/ Renew(t) \/ ServeGet(t) \/ ReceiveSession(t) \/ ReportUnauthorized(t) \/ LoseGet(t)
  PROVE  Settles
<1>1. CASE LoadPage(t)
  BY <1>1 DEF LoadPage, Settles, Typed, Post
<1>2. CASE ~LoadPage(t)
  BY <1>2 DEF Renew, ServeGet, ReceiveSession, ReportUnauthorized, LoseGet, Settles
<1> QED BY <1>1, <1>2

SettlingEnd ==
  \/ \E s \in Sessions : SeedFails(s) \/ StatementFails(s) \/ LoseReply(s)
  \/ Crash \/ Admit \/ Tick \/ UNCHANGED vars \/ \E t \in Callers : Call(t)

LEMMA EndsSettle ==
  ASSUME Typed, SettlingEnd
  PROVE  Settles
<1>1. post \in [Sessions -> Post]
  BY DEF Typed
<1>2. ASSUME NEW s \in Sessions, SeedFails(s) PROVE Settles
  BY <1>1, <1>2 DEF SeedFails, Settles, Post
<1>3. ASSUME NEW s \in Sessions, StatementFails(s) PROVE Settles
  BY <1>1, <1>3 DEF StatementFails, Settles, Post, Over, Running
<1>4. ASSUME NEW s \in Sessions, LoseReply(s) PROVE Settles
  BY <1>1, <1>4 DEF LoseReply, Settles, Post, Over, Running
<1>5. CASE Crash
  BY <1>1, <1>5 DEF Crash, Settles, Post, Over
<1>6. CASE Admit \/ Tick \/ UNCHANGED vars \/ \E t \in Callers : Call(t)
  BY <1>6 DEF Settles, Admit, VerifyAccessToken, AssertAccessTokenIsActive, CheckSessionBoundary, Finish, Step,
              Tick, Call, vars
<1> QED BY <1>2, <1>3, <1>4, <1>5, <1>6 DEF SettlingEnd

LEMMA HandlersKeepCauses ==
  ASSUME Typed, Typed', Causes, NEW s \in Sessions, Serve(s) \/ DeliverError(s)
  PROVE  Causes'
<1>1. session[s] \in Row /\ session'[s] \in Row /\ session \in [Sessions -> Row] /\ post \in [Sessions -> Post]
  BY DEF Typed
<1>2. CASE Provision(s)
  <2>1. /\ session'[s].exists /\ session'[s].seeded = 0 /\ session'[s].revoked = FALSE
        /\ GoesOn(s, "seeding") /\ post[s].pc = "arrived"
    BY <1>1, <1>2 DEF Provision, GoesOn
  <2>2. session'[s].seeded < SeedSteps
    BY <2>1, BoundsType
  <2> QED BY <2>1, <2>2, GoingOnKeepsCauses
<1>3. CASE Seed(s)
  <2>1. /\ post[s].pc = "seeding" /\ session[s].exists /\ session[s].seeded < SeedSteps
        /\ session'[s].exists /\ session'[s].seeded = session[s].seeded + 1
        /\ session'[s].revoked = session[s].revoked
    BY <1>1, <1>3 DEF Seed, Causes, Staged, Row
  <2>2. CASE session'[s].seeded = SeedSteps
    <3>1. GoesOn(s, "replacing")
      BY <1>1, <1>3, <2>2 DEF Seed, GoesOn
    <3> QED BY <2>1, <2>2, <3>1, GoingOnKeepsCauses
  <2>3. CASE session'[s].seeded # SeedSteps
    <3>1. GoesOn(s, "seeding")
      BY <1>1, <1>3, <2>3 DEF Seed, GoesOn
    <3>2. session'[s].seeded < SeedSteps
      BY <1>1, <2>1, <2>3, BoundsType DEF Row
    <3> QED BY <2>1, <3>1, <3>2, GoingOnKeepsCauses
  <2> QED BY <2>2, <2>3
<1> QED BY <1>2, <1>3, RevokingOwnKeepsCauses, RevokingPreviousKeepsCauses, DeliveringKeepsCauses DEF Serve

LEMMA CausesIsInductive ==
  ASSUME Typed, Typed', Causes, [Next]_vars
  PROVE  Causes'
<1>1. ASSUME NEW t \in Tabs, LoadPage(t) \/ Renew(t) \/ ServeGet(t) \/ ReceiveSession(t) \/ ReportUnauthorized(t) \/ LoseGet(t)
      PROVE  Causes'
  BY <1>1, TabsSettle, SettlingKeepsCauses
<1>2. ASSUME NEW t \in Tabs, ProvisionInstead(t) PROVE Causes'
  <2>1. PICK s \in Unused : Send(t, s)
    BY <1>2 DEF ProvisionInstead
  <2>2. UNCHANGED <<session, cookie>>
    BY <1>2 DEF ProvisionInstead
  <2> QED BY <2>1, <2>2, SendingKeepsCauses
<1>3. ASSUME NEW t \in Tabs, NEW s \in Sessions, NewSandbox(t, s) PROVE Causes'
  <2>1. s \in Unused /\ Send(t, s) /\ UNCHANGED <<session, cookie>>
    BY <1>3 DEF NewSandbox
  <2> QED BY <2>1, SendingKeepsCauses
<1>4. ASSUME NEW s \in Sessions, Serve(s) \/ DeliverError(s) PROVE Causes'
  BY <1>4, HandlersKeepCauses
<1>5. CASE SettlingEnd
  BY <1>5, EndsSettle, SettlingKeepsCauses
<1> QED BY Zenon, <1>1, <1>2, <1>3, <1>4, <1>5 DEF Next, Receive, SettlingEnd

-----------------------------------------------------------------------------
(* Bearers, and the call.                                                  *)

\* A row stays, with its boundary, and a revoked key stays revoked.
Lasts(s) ==
  /\ session'[s].exists /\ session'[s].expires_at = session[s].expires_at
  /\ session[s].revoked => session'[s].revoked

LEMMA RowsLast ==
  ASSUME Typed, Causes, [Next]_vars
  PROVE  \A s \in Sessions : session[s].exists => Lasts(s)
<1>1. session \in [Sessions -> Row]
  BY DEF Typed
<1>2. CASE UNCHANGED session
  BY <1>2 DEF Lasts
<1>3. ASSUME NEW s \in Sessions, Provision(s) PROVE \A k \in Sessions : session[k].exists => Lasts(k)
  <2>1. ~session[s].exists
    BY <1>3 DEF Provision, Causes, Staged, NoRow
  <2> QED BY <1>1, <1>3, <2>1 DEF Provision, Lasts
<1>4. ASSUME NEW s \in Sessions, Seed(s) PROVE \A k \in Sessions : session[k].exists => Lasts(k)
  BY <1>1, <1>4 DEF Seed, Lasts, Row
<1>5. ASSUME NEW s \in Sessions, RevokeOwn(s) PROVE \A k \in Sessions : session[k].exists => Lasts(k)
  BY <1>1, <1>5 DEF RevokeOwn, Lasts, Row
<1>6. ASSUME NEW s \in Sessions, RevokePrevious(s) PROVE \A k \in Sessions : session[k].exists => Lasts(k)
  BY <1>1, <1>6 DEF RevokePrevious, Lasts, Row
<1>7. \/ UNCHANGED session
      \/ \E s \in Sessions : Provision(s) \/ Seed(s) \/ RevokeOwn(s) \/ RevokePrevious(s)
  BY Zenon DEF Next, Serve, Receive, Admit, vars, LoadPage, Renew, ServeGet, ReceiveSession, ProvisionInstead,
               ReportUnauthorized, LoseGet, Call, NewSandbox, Deliver, SeedFails, StatementFails, DeliverError,
               LoseReply, Crash, VerifyAccessToken, AssertAccessTokenIsActive, CheckSessionBoundary, Finish, Step, Tick
<1> QED BY <1>2, <1>3, <1>4, <1>5, <1>6, <1>7

LEMMA GoodLasts ==
  ASSUME Typed, Causes, [Next]_vars, NEW token \in Bearers \cup {NoToken}, Good(token)
  PROVE  Good(token)'
<1>1. token # NoToken => token.session \in Sessions
  BY BearersAreTokens
<1>2. ASSUME token # NoToken PROVE session'[token.session].exists
  BY <1>1, <1>2, RowsLast DEF Good, Lasts
<1> QED BY <1>2 DEF Good

\* The tabs remember what they did, or get a bearer for a row there is.
LEMMA TabsBear ==
  ASSUME Typed, Causes, Bearing, [Next]_vars
  PROVE  \A t \in Tabs : /\ tab'[t].token \in {tab[t].token, get[t].token, NoToken} \cup {Token(s) : s \in {x \in Sessions : session[x].exists}}
                         /\ get'[t].token \in {get[t].token, NoToken} \cup {Token(s) : s \in {x \in Sessions : session[x].exists}}
                         /\ get'[t].pc = "ok" => get'[t].token # NoToken
<1> DEFINE Fresh == {Token(s) : s \in {x \in Sessions : session[x].exists}}
           P(t)  == /\ tab'[t].token \in {tab[t].token, get[t].token, NoToken} \cup Fresh
                    /\ get'[t].token \in {get[t].token, NoToken} \cup Fresh
                    /\ get'[t].pc = "ok" => get'[t].token # NoToken
<1>1. /\ tab \in [Tabs -> Memory] /\ get \in [Tabs -> Query]
      /\ \A t \in Tabs : /\ get[t].pc = "ok" => get[t].token # NoToken
                         /\ tab[t] \in Memory /\ get[t] \in Query
  BY DEF Typed, Bearing
<1>2. /\ NoGet.token = NoToken /\ NoGet.pc # "ok" /\ Loading.token = NoToken
      /\ \A why, c : Request(why, c).token = NoToken /\ Request(why, c).pc # "ok"
  BY DEF NoGet, Loading, Request
<1>3. ASSUME UNCHANGED <<tab, get>> PROVE \A t \in Tabs : P(t)
  BY <1>1, <1>3
<1>4. \A t \in Tabs : \A b : [tab[t] EXCEPT !.busy = b].token = tab[t].token
  BY <1>1 DEF Memory
<1>5. ASSUME NEW t \in Tabs, LoadPage(t) \/ Renew(t) PROVE \A x \in Tabs : P(x)
  BY <1>1, <1>2, <1>5 DEF LoadPage, Renew
<1>6. ASSUME NEW t \in Tabs, ServeGet(t) PROVE \A x \in Tabs : P(x)
  <2> DEFINE c == get[t].cookie
  <2>1. CASE c # None /\ Usable(c)
    <3>1. c \in Sessions /\ session[c].exists
      BY <1>1, <2>1 DEF Query, Usable
    <3>2. Token(c) \in Fresh /\ Token(c) # NoToken
      BY <3>1, TokensAreBearers
    <3>3. get' = [get EXCEPT ![t] = [get[t] EXCEPT !.pc = "ok", !.token = Token(c)]] /\ tab' = tab
      BY <1>6, <2>1 DEF ServeGet
    <3>4. [get[t] EXCEPT !.pc = "ok", !.token = Token(c)].token = Token(c)
      BY <1>1 DEF Query
    <3> HIDE DEF Fresh
    <3> QED BY <1>1, <3>2, <3>3, <3>4
  <2>2. CASE ~(c # None /\ Usable(c))
    <3>1. get' = [get EXCEPT ![t] = [get[t] EXCEPT !.pc = "unauthorized"]] /\ tab' = tab
      BY <1>6, <2>2 DEF ServeGet
    <3>2. [get[t] EXCEPT !.pc = "unauthorized"].token = get[t].token /\ [get[t] EXCEPT !.pc = "unauthorized"].pc # "ok"
      BY <1>1 DEF Query
    <3> HIDE DEF Fresh
    <3> QED BY <1>1, <3>1, <3>2
  <2> QED BY <2>1, <2>2
<1>7. ASSUME NEW t \in Tabs, ReceiveSession(t) PROVE \A x \in Tabs : P(x)
  <2>1. /\ tab'[t].token = get[t].token /\ get' = [get EXCEPT ![t] = NoGet]
        /\ \A x \in Tabs \ {t} : tab'[x] = tab[x]
    BY <1>1, <1>7 DEF ReceiveSession
  <2> QED BY <1>1, <1>2, <2>1
<1>8. ASSUME NEW t \in Tabs, ProvisionInstead(t) PROVE \A x \in Tabs : P(x)
  BY <1>1, <1>2, <1>8 DEF ProvisionInstead
<1>9. ASSUME NEW t \in Tabs, ReportUnauthorized(t) \/ LoseGet(t) PROVE \A x \in Tabs : P(x)
  <2>1. /\ tab' = [tab EXCEPT ![t].busy = IF get[t].why = "bootstrap" THEN FALSE ELSE @]
        /\ get' = [get EXCEPT ![t] = NoGet]
    BY <1>9 DEF ReportUnauthorized, LoseGet
  <2>2. \A x \in Tabs : tab'[x].token = tab[x].token
    BY <1>1, <2>1 DEF Memory
  <2> QED BY <1>1, <1>2, <2>1, <2>2
<1>10. ASSUME NEW t \in Tabs, NEW s \in Sessions, NewSandbox(t, s) PROVE \A x \in Tabs : P(x)
  <2>1. tab' = [tab EXCEPT ![t].busy = TRUE] /\ get' = get
    BY <1>10 DEF NewSandbox
  <2>2. \A x \in Tabs : tab'[x].token = tab[x].token
    BY <1>1, <2>1 DEF Memory
  <2> QED BY <1>1, <2>1, <2>2
<1>11. ASSUME NEW s \in Sessions, Answered(s), get' = get PROVE \A x \in Tabs : P(x)
  <2>1. \A x \in Tabs : tab'[x].token = tab[x].token
    BY <1>4, <1>11 DEF Answered, Tell
  <2> QED BY <1>1, <1>11, <2>1
<1>12. ASSUME NEW s \in Sessions, Deliver(s) PROVE \A x \in Tabs : P(x)
  <2>1. session[s].exists
    BY <1>12 DEF Deliver, Causes, Staged
  <2>2. Token(s) \in Fresh /\ get' = get
    BY <1>12, <2>1 DEF Deliver
  <2>3. \A x \in Tabs : tab'[x].token \in {tab[x].token, Token(s)}
    BY <1>12 DEF Deliver, Tell
  <2> HIDE DEF Fresh
  <2> QED BY <1>1, <2>2, <2>3
<1>13. ASSUME Crash PROVE \A x \in Tabs : P(x)
  <2>1. \A x \in Tabs : tab'[x].token = tab[x].token
    BY <1>4, <1>13 DEF Crash
  <2>2. \A x \in Tabs : get'[x] \in {NoGet, get[x]}
    BY <1>13 DEF Crash
  <2> QED BY <1>1, <1>2, <2>1, <2>2
<1>14. \/ UNCHANGED <<tab, get>>
       \/ \E t \in Tabs : LoadPage(t) \/ Renew(t) \/ Receive(t) \/ LoseGet(t)
       \/ \E t \in Tabs, s \in Sessions : NewSandbox(t, s)
       \/ \E s \in Sessions : Deliver(s) \/ (Answered(s) /\ get' = get)
       \/ Crash
  BY Zenon DEF Next, Serve, Admit, vars, Call, Provision, Seed, RevokeOwn, RevokePrevious, SeedFails, StatementFails,
               DeliverError, LoseReply, VerifyAccessToken, AssertAccessTokenIsActive, CheckSessionBoundary, Finish,
               Step, Tick
<1> HIDE DEF P
<1>15. \A t \in Tabs : P(t)
  BY Zenon, <1>3, <1>5, <1>6, <1>7, <1>8, <1>9, <1>10, <1>11, <1>12, <1>13, <1>14 DEF Receive
<1> QED BY <1>15 DEF P

LEMMA BearingIsInductive ==
  ASSUME Typed, Causes, Bearing, [Next]_vars
  PROVE  Bearing'
<1>1. ASSUME NEW token \in {Token(s) : s \in {x \in Sessions : session[x].exists}}
      PROVE  token \in Bearers /\ Good(token)
  BY TokensAreBearers DEF Good
<1>2. ASSUME NEW t \in Tabs
      PROVE  /\ tab'[t].token \in Bearers \cup {NoToken} /\ Good(tab'[t].token)
             /\ get'[t].token \in Bearers \cup {NoToken} /\ Good(get'[t].token)
             /\ get'[t].pc = "ok" => get'[t].token # NoToken
  <2>1. /\ tab[t].token \in Bearers \cup {NoToken} /\ Good(tab[t].token)
        /\ get[t].token \in Bearers \cup {NoToken} /\ Good(get[t].token)
    BY DEF Typed, Bearing, Memory, Query
  <2>2. Good(NoToken)
    BY DEF Good
  <2> QED BY <1>1, <2>1, <2>2, TabsBear
<1>3. \A token \in Bearers \cup {NoToken} : Good(token) => (token # NoToken => session'[token.session].exists)
  BY GoodLasts DEF Good
<1>4. ASSUME NEW t \in Tabs
      PROVE  /\ tab'[t].token # NoToken => session'[tab'[t].token.session].exists
             /\ get'[t].token # NoToken => session'[get'[t].token.session].exists
             /\ get'[t].pc = "ok" => get'[t].token # NoToken
  BY <1>2, <1>3
<1>5. ASSUME call'.pc # "none"
      PROVE  call'.token # NoToken /\ session'[call'.token.session].exists
  <2>1. CASE \E t \in Callers : Call(t)
    <3>1. PICK t \in Callers : Call(t)
      BY <2>1
    <3>2. t \in Tabs /\ tab[t].token # NoToken /\ call'.token = tab[t].token
      BY <3>1, BrowserOfType DEF Call
    <3>3. tab[t].token \in Bearers \cup {NoToken} /\ Good(tab[t].token)
      BY <3>2 DEF Typed, Bearing, Memory
    <3> QED BY <1>3, <3>2, <3>3
  <2>2. CASE ~\E t \in Callers : Call(t)
    <3>1. call.pc # "none" /\ call'.token = call.token
      <4>1. CASE call' = call
        BY <1>5, <4>1
      <4>2. CASE call' = NoCall
        BY <1>5, <4>2 DEF NoCall
      <4>3. ASSUME NEW from \in {"arrived", "verified", "active", "running"}, NEW to, NEW admitted, Step(from, to, admitted)
            PROVE  call.pc # "none" /\ call'.token = call.token
        BY <1>5, <4>3 DEF Step, NoCall, Typed, Followed
      <4>4. UNCHANGED call \/ call' = NoCall \/ Admit
        BY Zenon, <2>2 DEF Next, Serve, Receive, vars, LoadPage, Renew, ServeGet, ReceiveSession,
             ProvisionInstead, ReportUnauthorized, LoseGet, NewSandbox, Provision, Seed, RevokeOwn, RevokePrevious,
             Deliver, SeedFails, StatementFails, DeliverError, LoseReply, Crash, Tick
      <4> QED BY <4>1, <4>2, <4>3, <4>4 DEF Admit, VerifyAccessToken, AssertAccessTokenIsActive, CheckSessionBoundary, Finish
    <3>2. call.token \in Bearers \cup {NoToken} /\ call.token # NoToken /\ Good(call.token)
      BY <3>1 DEF Typed, Bearing, Followed
    <3> QED BY <1>3, <3>1, <3>2
  <2> QED BY <2>1, <2>2
<1> QED BY <1>4, <1>5 DEF Bearing, Good

\* What made a call late is still so at each of its checks.
LEMMA CheckedIsInductive ==
  ASSUME Typed, Typed', Causes, Bearing, Checked, [Next]_vars
  PROVE  Checked'
<1> DEFINE token == call.token
           k     == call.token.session
<1>1. /\ now \in Nat /\ now' \in Nat /\ now <= now' /\ call \in Followed
      /\ \A s \in Sessions : session[s].expires_at \in Nat /\ session'[s].expires_at \in Nat
  <2>1. now' = now \/ now' = now + 1
    BY Zenon DEF Next, Serve, Receive, Admit, vars, LoadPage, Renew, ServeGet, ReceiveSession, ProvisionInstead,
         ReportUnauthorized, LoseGet, Call, NewSandbox, Provision, Seed, RevokeOwn, RevokePrevious, Deliver,
         SeedFails, StatementFails, DeliverError, LoseReply, Crash, VerifyAccessToken, AssertAccessTokenIsActive,
         CheckSessionBoundary, Finish, Step, Tick
  <2> QED BY <2>1, BoundsType DEF Typed, Row
<1>2. ASSUME call.pc # "none"
      PROVE  /\ k \in Sessions /\ session[k].exists /\ Lasts(k)
             /\ session[k].revoked => session'[k].revoked
             /\ Expired(k) => session'[k].expires_at <= now'
  <2>1. k \in Sessions /\ session[k].exists
    BY <1>1, <1>2, BearersAreTokens DEF Bearing, Good, Followed
  <2>2. Lasts(k)
    BY <2>1, RowsLast
  <2> QED BY <1>1, <2>1, <2>2 DEF Lasts, Expired
<1>3. CASE call' = call
  <2>1. ASSUME call.pc # "none", session[k].revoked \/ Expired(k)
        PROVE  session'[k].revoked \/ session'[k].expires_at <= now'
    BY <1>2, <2>1
  <2>2. ASSUME call.pc = "active", Expired(k) PROVE session'[k].expires_at <= now'
    BY <1>2, <2>2
  <2> QED BY <1>3, <2>1, <2>2 DEF Checked, Expired
<1>4. CASE call'.pc = "none"
  BY <1>4 DEF Checked
<1>5. ASSUME NEW t \in Callers, Call(t) PROVE Checked'
  <2>1. /\ t \in Tabs /\ tab[t].token \in Bearers /\ tab[t].token.session \in Sessions
        /\ session[tab[t].token.session].exists
    BY <1>5, BrowserOfType, BearersAreTokens DEF Call, Typed, Memory, Bearing, Good
  <2>2. /\ call'.pc = "arrived" /\ call'.token = tab[t].token /\ call'.late = ~Usable(tab[t].token.session)
        /\ session' = session /\ now' = now
    BY <1>5 DEF Call
  <2> QED BY <2>1, <2>2 DEF Checked, Usable, Expired
<1>6. CASE VerifyAccessToken
  <2>1. call'.pc # "none" => call'.pc = "verified" /\ call'.token = token /\ call'.late = call.late /\ call.pc # "none"
    BY <1>1, <1>6 DEF VerifyAccessToken, Step, NoCall, Followed
  <2>2. session' = session /\ now' = now
    BY <1>6 DEF VerifyAccessToken, Step
  <2> QED BY <1>4, <2>1, <2>2 DEF Checked, Expired
<1>7. CASE AssertAccessTokenIsActive
  <2>1. call'.pc # "none" => /\ call'.pc = "active" /\ call'.token = token /\ call'.late = call.late /\ call.pc # "none"
                             /\ ~session[k].revoked
    BY <1>1, <1>7 DEF AssertAccessTokenIsActive, Step, NoCall, Followed
  <2>2. session' = session /\ now' = now
    BY <1>7 DEF AssertAccessTokenIsActive, Step
  <2> QED BY <1>4, <2>1, <2>2 DEF Checked, Expired
<1>8. CASE CheckSessionBoundary
  <2>1. call'.pc # "none" => /\ call'.pc = "running" /\ call'.token = token /\ call'.late = call.late
                             /\ call.pc = "active" /\ ~Expired(k)
    BY <1>1, <1>8 DEF CheckSessionBoundary, Step, NoCall, Followed
  <2>2. call'.pc # "none" => ~call'.late
    BY <2>1 DEF Checked
  <2> QED BY <1>4, <2>1, <2>2 DEF Checked
<1>9. CASE Finish
  BY <1>4, <1>9 DEF Finish, Step, NoCall
<1>10. CASE Crash
  BY <1>4, <1>10 DEF Crash, NoCall
<1>11. \/ UNCHANGED call \/ Crash \/ VerifyAccessToken \/ AssertAccessTokenIsActive \/ CheckSessionBoundary \/ Finish
       \/ \E t \in Callers : Call(t)
  BY Zenon DEF Next, Serve, Receive, Admit, vars, LoadPage, Renew, ServeGet, ReceiveSession, ProvisionInstead,
       ReportUnauthorized, LoseGet, NewSandbox, Provision, Seed, RevokeOwn, RevokePrevious, Deliver,
       SeedFails, StatementFails, DeliverError, LoseReply, Tick
<1> QED BY <1>3, <1>5, <1>6, <1>7, <1>8, <1>9, <1>10, <1>11

-----------------------------------------------------------------------------
(* The theorems.                                                           *)

LEMMA InitIsInv == Init => SandboxInv
<1> SUFFICES ASSUME Init PROVE SandboxInv
  OBVIOUS
<1>1. NoRow \in Row /\ NoPost \in Post /\ Loading \in Memory /\ Request("bootstrap", None) \in Query /\ NoCall \in Followed
  BY BoundsType DEF NoRow, Row, NoPost, Post, Loading, Memory, Request, Query, NoCall, Followed
<1>2. Typed
  BY <1>1, BoundsType DEF Init, Typed
<1>3. Staged /\ Presented
  BY DEF Init, Staged, Presented, NoPost, NoRow
<1>4. Caused
  BY DEF Init, Caused, NoPost, NoRow
<1>5. Bearing /\ Checked
  BY DEF Init, Bearing, Checked, Good, Loading, Request, NoCall
<1> QED BY <1>2, <1>3, <1>4, <1>5 DEF SandboxInv

LEMMA InvIsInductive == SandboxInv /\ [Next]_vars => SandboxInv'
<1> SUFFICES ASSUME SandboxInv, [Next]_vars PROVE SandboxInv'
  OBVIOUS
<1>1. Typed /\ Causes /\ Staged /\ Bearing /\ Checked
  BY DEF SandboxInv, Causes
<1>2. Typed'
  BY <1>1, TypedIsInductive
<1>3. Causes'
  BY <1>1, <1>2, CausesIsInductive
<1>4. Bearing'
  BY <1>1, BearingIsInductive
<1>5. Checked'
  BY <1>1, <1>2, CheckedIsInductive
<1> QED BY <1>2, <1>3, <1>4, <1>5 DEF SandboxInv, Causes

\* Type correctness, for every instance.
THEOREM SandboxTypes == Spec => []TypeOK
<1>1. SandboxInv => TypeOK
  BY DEF SandboxInv, Typed, TypeOK, Row, Post, Memory, Query, Followed, Bearers, NoToken
<1> QED BY <1>1, InitIsInv, InvIsInductive, PTL DEF Spec

\* A sandbox a browser can reach is seeded completely, whatever fails, crashes or is lost.
THEOREM CookiesNameSeededSandboxes == Spec => []CookieIsSeeded
<1>1. SandboxInv => CookieIsSeeded
  BY DEF SandboxInv, Typed, Staged, Presented, CookieIsSeeded
<1> QED BY <1>1, InitIsInv, InvIsInductive, PTL DEF Spec

\* A key is revoked because its own seeding failed or because its own browser completed a
\* replacement, and such a replacement does revoke it: however many visitors provision at once.
THEOREM KeysAreRevokedForCause == Spec => []RevokedForCause
<1>1. SandboxInv => RevokedForCause
  BY DEF SandboxInv, Caused, RevokedForCause
<1> QED BY <1>1, InitIsInv, InvIsInductive, PTL DEF Spec

\* A call that reaches the server after its session's boundary or revocation is not served,
\* whatever the lifetimes of sessions and bearers and the clock skew.
THEOREM LateCallsAreNotServed == Spec => []NoAccessAfterBoundary
<1>1. SandboxInv => NoAccessAfterBoundary
  BY DEF SandboxInv, Checked, NoAccessAfterBoundary
<1> QED BY <1>1, InitIsInv, InvIsInductive, PTL DEF Spec

=============================================================================
