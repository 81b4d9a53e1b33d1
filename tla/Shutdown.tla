------------------------------ MODULE Shutdown ------------------------------
(***************************************************************************)
(* The end of an API process (apps/api/src/index.ts): signals, the drain   *)
(* of the server, the end of the database pool and the timer behind them,  *)
(* with the requests the process is serving.  The state begins where       *)
(* listen is called, with both signal handlers installed.                  *)
(*                                                                         *)
(* Outside the repository are the server and the pool.  close() stops      *)
(* accepting and resolves when no connection has a request on it, so a     *)
(* request whose client has gone is not waited for, although its handler   *)
(* runs on.  end() refuses new statements at once, waits for those that    *)
(* run (a transaction counts as one) and kills them after its own timeout. *)
(***************************************************************************)
EXTENDS Naturals

CONSTANTS
  Signals,          \* SIGINT and SIGTERM
  Requests,
  Unset,
  ShutdownTimeout,  \* SHUTDOWN_TIMEOUT_MS
  PoolTimeout       \* the timeout given to sql.end

ASSUME TimeoutsType == {ShutdownTimeout, PoolTimeout} \subseteq Nat \ {0}
ASSUME UnsetIsNoValue == Unset \notin Nat \cup {"0", "1", "signal"}

VARIABLES
  handlers,   \* the signals whose process.once handler has not run yet
  listening,  \* the promise of server.listen
  shutdown,   \* where shutdown(signal) is
  pool,
  hardStop,   \* ticks to hardStopTimer, Unset when it is not set
  poolStop,   \* ticks to the pool's own timeout
  request,    \* the handler of a request, and whether its client still waits
  exit        \* the exit code of the process

ShutdownVars == <<handlers, listening, shutdown, pool, hardStop, poolStop, request, exit>>

NoRequest == [pc |-> "none", connected |-> FALSE]

ShutdownInit ==
  /\ handlers = Signals
  /\ listening = "pending" /\ shutdown = "none" /\ pool = "open"
  /\ hardStop = Unset /\ poolStop = Unset
  /\ request = [r \in Requests |-> NoRequest]
  /\ exit = Unset

Serving(r) == request[r].pc \in {"handling", "querying"}
Awaited(r) == Serving(r) /\ request[r].connected

-----------------------------------------------------------------------------
(* Requests.                                                               *)

Handler(r, from, to) ==
  /\ exit = Unset /\ request[r].pc = from
  /\ request' = [request EXCEPT ![r].pc = to]
  /\ UNCHANGED <<handlers, listening, shutdown, pool, hardStop, poolStop, exit>>

\* Wrong on purpose, for a mutant: a server that is closing takes requests.
AcceptWhileClosing(r) ==
  /\ exit = Unset /\ listening = "ok" /\ request[r].pc = "none"
  /\ request' = [request EXCEPT ![r] = [pc |-> "handling", connected |-> TRUE]]
  /\ UNCHANGED <<handlers, listening, shutdown, pool, hardStop, poolStop, exit>>

Accept(r) ==
  /\ exit = Unset /\ listening = "ok" /\ shutdown = "none" /\ request[r].pc = "none"
  /\ request' = [request EXCEPT ![r] = [pc |-> "handling", connected |-> TRUE]]
  /\ UNCHANGED <<handlers, listening, shutdown, pool, hardStop, poolStop, exit>>

Query(r)       == pool = "open" /\ Handler(r, "handling", "querying")
QueryRefused(r) == pool # "open" /\ Handler(r, "handling", "cut")
QueryEnds(r)   == Handler(r, "querying", "handling")
Answer(r)      == Handler(r, "handling", "answered")

\* The client closes the connection, or it breaks; no handler looks at this.
ClientGoes(r) ==
  /\ exit = Unset /\ Awaited(r)
  /\ request' = [request EXCEPT ![r].connected = FALSE]
  /\ UNCHANGED <<handlers, listening, shutdown, pool, hardStop, poolStop, exit>>

-----------------------------------------------------------------------------
(* Starting.                                                               *)

ListenSucceeds ==
  /\ exit = Unset /\ listening = "pending"
  /\ listening' = "ok"
  /\ UNCHANGED <<handlers, shutdown, pool, hardStop, poolStop, request, exit>>

\* sql.end, for whom it may concern: a second call joins the first.
EndPool ==
  /\ pool' = IF pool = "open" THEN "ending" ELSE pool
  /\ poolStop' = IF pool = "open" THEN PoolTimeout ELSE poolStop

ListenFails ==
  /\ exit = Unset /\ listening = "pending"
  /\ listening' = "failed"
  /\ EndPool
  /\ UNCHANGED <<handlers, shutdown, hardStop, request, exit>>

\* Nothing runs after process.exit.
Exit(code) ==
  /\ exit' = code
  /\ UNCHANGED <<handlers, listening, shutdown, pool, hardStop, poolStop, request>>

ExitUnstarted == exit = Unset /\ listening = "failed" /\ pool = "ended" /\ Exit("1")

-----------------------------------------------------------------------------
(* Shutting down.                                                          *)

\* Wrong on purpose, for a mutant: the timer is not set.
SignalUntimed(s) ==
  /\ exit = Unset /\ s \in handlers
  /\ handlers' = handlers \ {s}
  /\ shutdown' = IF shutdown = "none" THEN "closing" ELSE shutdown
  /\ UNCHANGED <<hardStop, listening, pool, poolStop, request, exit>>

\* The first signal of either kind sets the timer and closes the server; the first of
\* the other kind finds isShuttingDown.
Signal(s) ==
  /\ exit = Unset /\ s \in handlers
  /\ handlers' = handlers \ {s}
  /\ shutdown' = IF shutdown = "none" THEN "closing" ELSE shutdown
  /\ hardStop' = IF shutdown = "none" THEN ShutdownTimeout ELSE hardStop
  /\ UNCHANGED <<listening, pool, poolStop, request, exit>>

\* A second signal of the same kind finds no handler, and kills the process.
SignalAgain(s) == exit = Unset /\ s \notin handlers /\ Exit("signal")

\* server.close() resolves.
Drained ==
  /\ exit = Unset /\ shutdown = "closing"
  /\ \A r \in Requests : ~Awaited(r)
  /\ shutdown' = "ending"
  /\ EndPool
  /\ UNCHANGED <<handlers, listening, hardStop, request, exit>>

\* server.close() or sql.end() rejects.
ShutdownThrows == exit = Unset /\ shutdown \in {"closing", "ending"} /\ Exit("1")

PoolEnds ==
  /\ exit = Unset /\ pool = "ending"
  /\ \A r \in Requests : request[r].pc # "querying"
  /\ pool' = "ended" /\ poolStop' = Unset
  /\ UNCHANGED <<handlers, listening, shutdown, hardStop, request, exit>>

PoolTimesOut ==
  /\ exit = Unset /\ pool = "ending" /\ poolStop = 0
  /\ pool' = "ended" /\ poolStop' = Unset
  /\ request' = [r \in Requests |->
       IF request[r].pc = "querying" THEN [request[r] EXCEPT !.pc = "cut"] ELSE request[r]]
  /\ UNCHANGED <<handlers, listening, shutdown, hardStop, exit>>

ExitDrained == exit = Unset /\ shutdown = "ending" /\ pool = "ended" /\ Exit("0")

\* Wrong on purpose, for a mutant: the timer reports success.
HardStopQuietly == exit = Unset /\ hardStop = 0 /\ Exit("0")

HardStop == exit = Unset /\ hardStop = 0 /\ Exit("1")

\* Wrong on purpose, for a mutant: a timer that is due stays and counts on.
CountDownOn(t) == IF t = Unset THEN Unset ELSE IF t = 0 THEN ShutdownTimeout + PoolTimeout ELSE t - 1

CountDown(t) == IF t \in {Unset, 0} THEN t ELSE t - 1

Tick ==
  /\ exit = Unset
  /\ hardStop' = CountDown(hardStop) /\ poolStop' = CountDown(poolStop)
  /\ UNCHANGED <<handlers, listening, shutdown, pool, request, exit>>

-----------------------------------------------------------------------------
ShutdownNext ==
  \/ \E r \in Requests : Accept(r) \/ Query(r) \/ QueryRefused(r) \/ QueryEnds(r) \/ Answer(r) \/ ClientGoes(r)
  \/ \E s \in Signals : Signal(s) \/ SignalAgain(s)
  \/ ListenSucceeds \/ ListenFails \/ ExitUnstarted
  \/ Drained \/ ShutdownThrows \/ PoolEnds \/ PoolTimesOut \/ ExitDrained \/ HardStop \/ Tick

\* Time passes and due timers fire; promises that are settled are continued.  Handlers
\* promise nothing: a query may wait for a lock for ever.
Fairness ==
  /\ WF_ShutdownVars(Tick) /\ WF_ShutdownVars(HardStop) /\ WF_ShutdownVars(PoolTimesOut)
  /\ WF_ShutdownVars(ExitUnstarted) /\ WF_ShutdownVars(ExitDrained)

ShutdownSpec == ShutdownInit /\ [][ShutdownNext]_ShutdownVars /\ Fairness

-----------------------------------------------------------------------------
(* Properties.                                                             *)

ShutdownTypeOK ==
  /\ handlers \subseteq Signals
  /\ listening \in {"pending", "ok", "failed"} /\ shutdown \in {"none", "closing", "ending"}
  /\ pool \in {"open", "ending", "ended"}
  /\ hardStop \in {Unset} \cup 0..ShutdownTimeout /\ poolStop \in {Unset} \cup 0..PoolTimeout
  /\ request \in [Requests -> [pc : {"none", "handling", "querying", "answered", "cut"},
                               connected : BOOLEAN]]
  /\ exit \in {Unset, "0", "1", "signal"}

\* "Fastify stops accepting work, drains in-flight requests, then closes the database
\* client": the end of the pool takes the database from no request a client waits for.
\* Only a handler whose client has gone can lose it between two statements, which is
\* the crash SandboxSessions and DemoLedger allow for.
CutOnlyWhenAbandoned == \A r \in Requests : request[r].pc = "cut" => ~request[r].connected

\* Exit code 0 says that the process was drained: every client that waited has its
\* answer and no statement was left running, however the timers raced.
CleanExitIsDrained ==
  exit = "0" => \A r \in Requests : ~Awaited(r) /\ request[r].pc # "querying"

\* The process ends after a signal, and after a failed listen, whatever its requests do.
ShutdownEnds == (shutdown # "none" \/ listening = "failed") ~> exit # Unset

-----------------------------------------------------------------------------
(* The inductive invariant behind them.                                    *)

\* The pool is ended once the server is closed, or by a process that never served.
PoolEndsLast    == pool # "open" => shutdown = "ending" \/ listening = "failed"
EndingIsDrained == shutdown = "ending" => pool # "open" /\ \A r \in Requests : ~Awaited(r)
ListensToServe  == listening # "ok" => \A r \in Requests : request[r] = NoRequest
EndedIsIdle     == pool = "ended" => \A r \in Requests : request[r].pc # "querying"
ExitIsEarned    == exit = "0" => shutdown = "ending" /\ pool = "ended"

ShutdownInv ==
  PoolEndsLast /\ EndingIsDrained /\ ListensToServe /\ EndedIsIdle /\ ExitIsEarned /\ CutOnlyWhenAbandoned
=============================================================================
