-------------------------------- MODULE Server --------------------------------
(* The life of a server process: cmd/server/main.go with the checks of        *)
(* config.go, the Timeout middleware and decodeJSON of internal/httpapi, and  *)
(* of net/http and pgxpool what they rely on.  Time is counted in ticks; what *)
(* has reached its deadline happens before the next tick.                     *)
EXTENDS Config

CONSTANTS
  Envs,          \* the environments the server may be started in
  Connections,   \* the clients' connections, one request on each
  ReadHeader     \* ReadHeaderTimeout

Timeouts(c) ==
  [request |-> c.request, write |-> c.write, read |-> c.read, shutdown |-> c.shutdown]

\* What is left of the environment once it has been read.
Forgotten == [s \in {} |-> Unset]

ConfigType == [request : Nat \ {0}, write : Nat \ {0}, read : Nat \ {0}, shutdown : Nat \ {0}]

ASSUME ServerAssumption ==
  /\ Envs \subseteq Environment
  /\ ReadHeader \in Nat \ {0}

VARIABLES
  (* the process *)
  env,           \* the environment, until it is read
  config,        \* the timeouts
  stage,         \* "load", "connect", "migrate", "serve", "drain", "close" (pool.Close), "exit"
  code,          \* the exit code to be: 0, 1, or 2 for killed
  intercepting,  \* signal.NotifyContext is in force
  interrupted,   \* ctx is done
  listener,      \* "none", "starting", "open", "closed" (Shutdown) or "failed"
  serveErr,      \* what the goroutine has put into the channel, or "empty"
  drained,       \* the ticks since the drain began
  (* the connections *)
  handler,       \* where the request is
  waited,        \* the ticks from the connection to the end of the header
  age,           \* the ticks since the handler began
  client         \* "waiting", or what became of its request

settings == <<env, config>>
process == <<settings, stage, code, intercepting, interrupted, listener, serveErr, drained>>
connections == <<handler, waited, age, client>>
vars == <<process, connections>>

Init ==
  /\ env \in Envs
  /\ config = Timeouts(Default)
  /\ stage = "load"
  /\ code = 0
  /\ intercepting = FALSE
  /\ interrupted = FALSE
  /\ listener = "none"
  /\ serveErr = "empty"
  /\ drained = 0
  /\ handler = [c \in Connections |-> "none"]
  /\ waited = [c \in Connections |-> 0]
  /\ age = [c \in Connections |-> 0]
  /\ client = [c \in Connections |-> "none"]

Active(c) == handler[c] \in {"reading", "working", "querying", "replying"}

\* The clients whose requests are cut off.
Severed == [c \in Connections |-> IF client[c] = "waiting" THEN "severed" ELSE client[c]]

-------------------------------------------------------------------------------
(* run of cmd/server.                                                         *)

\* LoadConfig reports every problem it found and ends the run; signals are
\* intercepted after it.
LoadConfig ==
  /\ stage = "load"
  /\ IF Problems(env) # {}
       THEN stage' = "exit" /\ code' = 1 /\ UNCHANGED <<config, intercepting>>
       ELSE /\ stage' = "connect" /\ intercepting' = TRUE /\ config' = Timeouts(Loaded(env))
            /\ UNCHANGED code
  /\ env' = Forgotten
  /\ UNCHANGED <<interrupted, listener, serveErr, drained, connections>>

\* newPool: the ping has ten seconds, and a pool that fails it is closed.
Connect ==
  /\ stage = "connect"
  /\ \/ ~interrupted /\ stage' = "migrate" /\ UNCHANGED code
     \/ stage' = "close" /\ code' = 1
  /\ UNCHANGED <<settings, intercepting, interrupted, listener, serveErr, drained, connections>>

\* storage.Migrate with a minute under ctx; then the goroutine starts.
Migrate ==
  /\ stage = "migrate"
  /\ \/ ~interrupted /\ stage' = "serve" /\ listener' = "starting" /\ UNCHANGED code
     \/ stage' = "close" /\ code' = 1 /\ UNCHANGED listener
  /\ UNCHANGED <<settings, intercepting, interrupted, serveErr, drained, connections>>

\* ListenAndServe opens the port, or cannot.
Listen ==
  /\ listener = "starting"
  /\ \/ listener' = "open" /\ UNCHANGED serveErr
     \/ listener' = "failed" /\ serveErr' = "error"
  /\ UNCHANGED <<settings, stage, code, intercepting, interrupted, drained, connections>>

\* Accept fails for good.
ListenerFails ==
  /\ listener = "open"
  /\ listener' = "failed" /\ serveErr' = "error"
  /\ UNCHANGED <<settings, stage, code, intercepting, interrupted, drained, connections>>

\* After Shutdown ListenAndServe returns ErrServerClosed.
ListenerReturns ==
  /\ listener = "closed" /\ serveErr = "empty"
  /\ serveErr' = "nil"
  /\ UNCHANGED <<settings, stage, code, intercepting, interrupted, listener, drained, connections>>

\* SIGTERM or SIGINT; where it is not intercepted it kills.
Signal ==
  /\ stage # "exit"
  /\ IF intercepting
       THEN interrupted' = TRUE /\ UNCHANGED <<stage, code, handler, client>>
       ELSE /\ stage' = "exit" /\ code' = 2 /\ client' = Severed
            /\ handler' = [c \in Connections |-> "gone"]
            /\ UNCHANGED interrupted
  /\ UNCHANGED <<settings, intercepting, listener, serveErr, drained, waited, age>>

\* Mutant: the error is taken for the end of the listener.
ServeFailsQuietly ==
  /\ stage = "serve" /\ serveErr # "empty"
  /\ stage' = "close"
  /\ UNCHANGED <<settings, code, intercepting, interrupted, listener, serveErr, drained, connections>>

\* The select: a failed listener ends the run without a drain.
ServeFails ==
  /\ stage = "serve" /\ serveErr # "empty"
  /\ code' = IF serveErr = "error" THEN 1 ELSE 0
  /\ stage' = "close"
  /\ UNCHANGED <<settings, intercepting, interrupted, listener, serveErr, drained, connections>>

\* Mutant: the signal is only looked for once the listener has gone.
BeginDrainLate ==
  /\ stage = "serve" /\ interrupted /\ serveErr # "empty"
  /\ stage' = "drain"
  /\ intercepting' = FALSE
  /\ listener' = IF listener = "failed" THEN "failed" ELSE "closed"
  /\ UNCHANGED <<settings, code, interrupted, serveErr, drained, connections>>

\* The select: ctx is done.  stop(), and Shutdown closes the listener.
BeginDrain ==
  /\ stage = "serve" /\ interrupted
  /\ stage' = "drain"
  /\ intercepting' = FALSE
  /\ listener' = IF listener = "failed" THEN "failed" ELSE "closed"
  /\ UNCHANGED <<settings, code, interrupted, serveErr, drained, connections>>

\* Shutdown returns nil: every connection is idle or gone.
DrainEnds ==
  /\ stage = "drain"
  /\ \A c \in Connections : ~Active(c) /\ handler[c] # "accepted"
  /\ stage' = "close"
  /\ UNCHANGED <<settings, code, intercepting, interrupted, listener, serveErr, drained, connections>>

\* Mutant: the drain context is derived from ctx, which is done.
DrainIsDead ==
  /\ stage = "drain"
  /\ code' = 1
  /\ stage' = "close"
  /\ client' = Severed
  /\ UNCHANGED <<settings, intercepting, interrupted, listener, serveErr, drained, handler, waited, age>>

\* The drain context expires and Close severs what is left.  Shutdown looks for
\* idle connections at intervals, so there may be none.
DrainExpires ==
  /\ stage = "drain" /\ drained = config.shutdown
  /\ code' = 1
  /\ stage' = "close"
  /\ client' = Severed
  /\ UNCHANGED <<settings, intercepting, interrupted, listener, serveErr, drained, handler, waited, age>>

\* The deferred pool.Close waits for the connections that are out; then the
\* process ends, and with it what still runs.
Exit ==
  /\ stage = "close"
  /\ \A c \in Connections : handler[c] # "querying"
  /\ stage' = "exit"
  /\ handler' = [c \in Connections |-> "gone"]
  /\ client' = Severed
  /\ UNCHANGED <<settings, code, intercepting, interrupted, listener, serveErr, drained, waited, age>>

-------------------------------------------------------------------------------
(* The connections.                                                           *)

Running == stage # "exit"
ServerClosed == stage = "close" /\ ~intercepting
Move(c, from, to) == handler[c] = from /\ handler' = [handler EXCEPT ![c] = to]
Abandoned(c) == client[c] = "severed"

\* A connection is accepted.
Accept(c) ==
  /\ Running /\ listener = "open"
  /\ Move(c, "none", "accepted")
  /\ UNCHANGED <<process, waited, age, client>>

\* The header is complete and the handler begins; Shutdown does not prevent it.
Begin(c) ==
  /\ Running /\ ~ServerClosed
  /\ Move(c, "accepted", "reading")
  /\ client' = [client EXCEPT ![c] = "waiting"]
  /\ UNCHANGED <<process, waited, age>>

\* No header within its timeout, or the server is closed.
DropConnection(c) ==
  /\ Running /\ (waited[c] >= ReadHeader \/ ServerClosed)
  /\ Move(c, "accepted", "gone")
  /\ UNCHANGED <<process, waited, age, client>>

\* decodeJSON has the body.  It does not look at ctx.
BodyArrives(c) ==
  /\ Running /\ ~Abandoned(c)
  /\ Move(c, "reading", "working")
  /\ UNCHANGED <<process, waited, age, client>>

\* The read deadline of the connection, or its end, fails decodeJSON.
BodyFails(c) ==
  /\ Running /\ (waited[c] + age[c] >= config.read \/ Abandoned(c))
  /\ Move(c, "reading", "replying")
  /\ UNCHANGED <<process, waited, age, client>>

TimedOut(c) == age[c] >= config.request \/ Abandoned(c)

\* Mutant: the handler's deadline is not the context's.
QueryAnyway(c) ==
  /\ Running /\ stage # "close"
  /\ Move(c, "working", "querying")
  /\ UNCHANGED <<process, waited, age, client>>

\* A connection of the pool; one query stands for all of the request's.
Query(c) ==
  /\ Running /\ stage # "close" /\ ~TimedOut(c)
  /\ Move(c, "working", "querying")
  /\ UNCHANGED <<process, waited, age, client>>

QueryEnds(c) ==
  /\ Running
  /\ Move(c, "querying", "replying")
  /\ UNCHANGED <<process, waited, age, client>>

\* No connection before the deadline, none wanted, or the pool is closed.
Refuse(c) ==
  /\ Running
  /\ Move(c, "working", "replying")
  /\ UNCHANGED <<process, waited, age, client>>

\* Within the connection's write deadline the answer arrives.
Reply(c) ==
  /\ Running
  /\ Move(c, "replying", "gone")
  /\ client' = [client EXCEPT ![c] =
       IF Abandoned(c) THEN "severed" ELSE IF age[c] < config.write THEN "answered" ELSE "lost"]
  /\ UNCHANGED <<process, waited, age>>

\* What cannot wait for another tick.
Due(c) ==
  \/ handler[c] = "accepted" /\ waited[c] >= ReadHeader
  \/ handler[c] = "reading" /\ (waited[c] + age[c] >= config.read \/ Abandoned(c))
  \/ handler[c] \in {"working", "querying"} /\ TimedOut(c)
  \/ handler[c] = "replying"

Tick ==
  /\ stage = "drain" \/ \E c \in Connections : Active(c) \/ handler[c] = "accepted"
  /\ Running /\ \A c \in Connections : ~Due(c)
  /\ stage = "drain" => drained < config.shutdown
  /\ drained' = IF stage = "drain" THEN drained + 1 ELSE drained
  /\ waited' = [c \in Connections |-> IF handler[c] = "accepted" THEN waited[c] + 1 ELSE waited[c]]
  /\ age' = [c \in Connections |-> IF Active(c) THEN age[c] + 1 ELSE age[c]]
  /\ UNCHANGED <<settings, stage, code, intercepting, interrupted, listener, serveErr, handler, client>>

-------------------------------------------------------------------------------
Main ==
  \/ LoadConfig \/ Connect \/ Migrate \/ ServeFails \/ BeginDrain \/ DrainEnds \/ DrainExpires \/ Exit

Goroutine == Listen \/ ListenerReturns

Handle(c) ==
  \/ DropConnection(c) \/ BodyFails(c) \/ Query(c) \/ Refuse(c) \/ Reply(c)

Gone == stage = "exit" /\ UNCHANGED vars

Next ==
  \/ Main \/ Goroutine \/ ListenerFails \/ Signal \/ Tick \/ Gone
  \/ \E c \in Connections :
       Accept(c) \/ Begin(c) \/ BodyArrives(c) \/ QueryEnds(c) \/ Handle(c)

Spec == Init /\ [][Next]_vars

(* Time passes, the process runs, and pgx gives up when its context does.     *)
(* Nothing is asked of clients or of queries.                                 *)
QueryStops(c) == TimedOut(c) /\ QueryEnds(c)

Fairness ==
  /\ WF_vars(Tick) /\ WF_vars(Main)
  /\ \A c \in Connections : WF_vars(Handle(c)) /\ WF_vars(QueryStops(c))

FairSpec == Spec /\ Fairness

-------------------------------------------------------------------------------
(* Properties.                                                                *)

HandlerStates == {"none", "accepted", "reading", "working", "querying", "replying", "gone"}
ClientStates == {"none", "waiting", "answered", "lost", "severed"}

\* Every variable has its type.
TypeOK ==
  /\ env \in Envs \cup {Forgotten} /\ config \in ConfigType
  /\ stage \in {"load", "connect", "migrate", "serve", "drain", "close", "exit"}
  /\ code \in 0..2
  /\ intercepting \in BOOLEAN /\ interrupted \in BOOLEAN
  /\ listener \in {"none", "starting", "open", "closed", "failed"}
  /\ serveErr \in {"empty", "nil", "error"}
  /\ drained \in 0..config.shutdown
  /\ handler \in [Connections -> HandlerStates]
  /\ waited \in [Connections -> 0..ReadHeader]
  /\ age \in [Connections -> Nat]
  /\ client \in [Connections -> ClientStates]

Shutdown == stage = "drain" \/ ServerClosed

\* main.go:60: exit code 0 means that the server was asked to stop and that every
\* request it had begun was answered; a listener that fails by itself never
\* exits as if all were well.
CleanExit ==
  stage = "exit" /\ code = 0 =>
    interrupted /\ \A c \in Connections : client[c] \notin {"waiting", "severed"}

\* main.go:202: a shutdown severs nobody before ShutdownTimeout has passed.
DrainIsGiven ==
  Shutdown /\ (\E c \in Connections : client[c] = "severed") => drained = config.shutdown

\* middleware.go:231: an abandoned request stops querying and returns its pooled
\* connection: no query outlives the request's deadline.
QueriesAreBounded ==
  \A c \in Connections : handler[c] = "querying" => age[c] <= config.request

\* config.go:89: no answer is lost to WriteTimeout, not even that of a handler
\* that timed out, unless the body itself took that long.
AnswersAreDelivered ==
  \A c \in Connections : client[c] = "lost" => config.read >= config.write

\* config.go:69: a server boots if and only if every setting is one it can run
\* with, as written.  Two get past the check: DEMAND_ALPHA=NaN, and a number of
\* connections that only the conversion to 32 bits makes acceptable (or not).
AcceptedIffUsable ==
  [][LoadConfig =>
       \/ stage' = "exit" <=> ~Usable(env)
       \/ env.alpha.kind = "nan" \/ Wraps(env)]_vars

\* Once a signal has come the process ends, whatever clients and queries do.
SignalEnds == interrupted ~> stage = "exit"

-------------------------------------------------------------------------------
(* The inductive invariant behind the safety properties.                      *)

\* Nobody connects before the goroutine starts, and in the select the listener
\* has not been closed.
ListenerShape ==
  /\ stage \in {"load", "connect", "migrate"} => listener = "none"
  /\ listener = "none" /\ stage # "exit" => \A c \in Connections : handler[c] = "none"
  /\ stage = "serve" => listener \in {"starting", "open", "failed"}
  /\ serveErr = "nil" => listener = "closed"

\* The exit code is decided on the way into pool.Close, and is 0 only where a
\* signal was drained.
StageShape ==
  /\ stage = "load" => env \in Envs
  /\ stage \notin {"close", "exit"} => code = 0
  /\ stage \notin {"drain", "close", "exit"} => drained = 0
  /\ stage = "drain" => interrupted /\ listener \in {"closed", "failed"}
  /\ stage = "close" /\ code = 0 =>
       /\ interrupted /\ listener \in {"closed", "failed"}
       /\ \A c \in Connections : handler[c] \in {"none", "gone"}

\* Only the end of the drain, or of the process, severs a client.
ClientShape(c) ==
  /\ client[c] = "severed" =>
       stage = "exit" \/ (stage = "close" /\ code = 1 /\ drained = config.shutdown)
  /\ client[c] = "waiting" => stage = "exit" \/ Active(c)
  /\ handler[c] \in {"none", "accepted"} => client[c] = "none"

\* How old a request can be, by where it is.
AgeShape(c) ==
  /\ handler[c] \in {"none", "accepted"} => age[c] = 0
  /\ handler[c] = "reading" => age[c] <= config.read
  /\ handler[c] \in {"working", "replying"} => age[c] <= config.read \/ age[c] <= config.request

Inductive ==
  /\ TypeOK
  /\ config.write > config.request
  /\ ListenerShape /\ StageShape
  /\ \A c \in Connections : ClientShape(c) /\ AgeShape(c)
  /\ CleanExit /\ QueriesAreBounded /\ AnswersAreDelivered
===============================================================================
