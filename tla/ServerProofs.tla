------------------------------ MODULE ServerProofs ------------------------------
(* The safety properties of Server for any environments, any timeouts and any *)
(* number of connections, and what LoadConfig accepts.                        *)
EXTENDS Server, TLAPS

-------------------------------------------------------------------------------
(* The configuration.                                                         *)

(* A setting that is a number has a whole one in every environment.           *)
LEMMA EnvironmentType ==
  ASSUME NEW e \in Environment, NEW s \in Settings
  PROVE  e[s] \in Raw /\ e[s].kind \in {"unset", "malformed", "nan", "given"} /\ e[s].n \in Int
  BY DEF Environment, Raw

(* Whatever the environment holds, a duration is positive.                    *)
LEMMA DurationsArePositive ==
  ASSUME NEW e \in Environment, NEW s \in Durations
  PROVE  Loaded(e)[s] \in Nat \ {0}
<1>1. e[s].n \in Int /\ s \in Numbers /\ s \in Settings
  BY EnvironmentType DEF Settings, Numbers
<1>2. Default[s] \in Nat \ {0}
  BY DEF Default, Durations
<1>3. Loaded(e)[s] = EnvDuration(e[s], Default[s])
  BY <1>1 DEF Loaded
<1> QED
  BY <1>1, <1>2, <1>3 DEF EnvDuration

LEMMA LoadedTimeouts ==
  ASSUME NEW e \in Environment
  PROVE  /\ Timeouts(Loaded(e)) \in ConfigType
         /\ Problems(e) = {} => Timeouts(Loaded(e)).write > Timeouts(Loaded(e)).request
<1>1. /\ Loaded(e).request \in Nat \ {0} /\ Loaded(e).write \in Nat \ {0}
      /\ Loaded(e).read \in Nat \ {0} /\ Loaded(e).shutdown \in Nat \ {0}
  BY DurationsArePositive DEF Durations
<1>2. Problems(e) = {} => ~(Loaded(e).write <= Loaded(e).request)
  BY DEF Problems, Conflicts
<1> QED
  BY <1>1, <1>2 DEF Timeouts, ConfigType

(* A number that fits is what the conversion leaves.                          *)
LEMMA Fits ==
  ASSUME NEW n \in -Half .. Half - 1
  PROVE  Int32(n) = n
<1> DEFINE a == n + Half
           m == 2 * Half
<1>1. a \in Nat /\ m \in Nat \ {0} /\ a < m /\ n = a - Half
  BY ConfigAssumption
<1>2. a % m = a
  <2> HIDE DEF a, m
  <2> QED
    BY <1>1
<1> QED
  BY <1>1, <1>2 DEF Int32

(* Where nothing is wrong with a single setting, what is loaded is what was   *)
(* written.                                                                   *)
LEMMA LoadedIsWritten ==
  ASSUME NEW e \in Environment, ~Wraps(e),
         \A s \in Durations : ~(e[s].kind = "given" /\ e[s].n <= 0)
  PROVE  \A s \in Numbers : Loaded(e)[s] = Written(e, s) /\ Written(e, s) \in Int
<1> SUFFICES ASSUME NEW s \in Numbers
             PROVE  Loaded(e)[s] = Written(e, s) /\ Written(e, s) \in Int
  OBVIOUS
<1>1. e[s].n \in Int /\ Default[s] \in Int
  BY EnvironmentType DEF Settings, Numbers, Durations, Counts, Default
<1>2. CASE s \in Durations
  BY <1>1, <1>2 DEF Loaded, EnvDuration, Written
<1>3. CASE s \in Counts
  <2>1. s \notin Durations
    BY <1>3 DEF Counts, Durations
  <2>2. Written(e, s) \in -Half .. Half - 1
    BY <1>3 DEF Wraps
  <2>3. Loaded(e)[s] = Int32(Written(e, s))
    BY <1>3, <2>1 DEF Loaded, EnvNumber, Written
  <2> QED
    BY <1>1, <2>2, <2>3, Fits DEF Written
<1>4. CASE s \notin Durations /\ s \notin Counts
  BY <1>1, <1>4 DEF Loaded, EnvNumber, Written
<1> QED
  BY <1>2, <1>3, <1>4

(* Apart from NaN and from what the conversion distorts, LoadConfig complains *)
(* about exactly the environments that cannot be used.                        *)
LEMMA ComplaintsAreRight ==
  ASSUME NEW e \in Environment, e.alpha.kind # "nan", ~Wraps(e)
  PROVE  Problems(e) = {} <=> Usable(e)
<1> DEFINE Single ==
             /\ e.databaseURL.kind # "unset"
             /\ \A s \in Settings \ {"databaseURL"} : e[s].kind \in {"unset", "given"}
             /\ \A s \in Durations : ~(e[s].kind = "given" /\ e[s].n <= 0)
           c == Loaded(e)
           Cross ==
             /\ ~(c.maxConns < 1) /\ ~(c.minConns < 0 \/ c.minConns > c.maxConns)
             /\ ~(c.write <= c.request) /\ ~(c.window < 7) /\ ~(c.alpha <= 0 \/ c.alpha > 100)
<1>1. \A s \in Settings \ {"databaseURL"} : e[s].kind \in {"unset", "malformed", "given"}
  BY EnvironmentType DEF Environment
<1>2. Unreadable(e) = {} <=> Single
  BY <1>1 DEF Unreadable
<1>3. Conflicts(e, c) = {} <=> Cross
  <2> HIDE DEF c
  <2> QED
    BY DEF Conflicts
<1>4. Problems(e) = {} <=> Single /\ Cross
  BY <1>2, <1>3 DEF Problems
<1>5. (\A s \in Durations : Written(e, s) > 0)
        <=> (\A s \in Durations : ~(e[s].kind = "given" /\ e[s].n <= 0))
  <2>1. \A s \in Durations : e[s].n \in Int /\ Default[s] > 0
    BY EnvironmentType DEF Settings, Numbers, Durations, Default
  <2> QED
    BY <2>1 DEF Written
<1>6. ASSUME Single
      PROVE  Cross <=> /\ Written(e, "write") > Written(e, "request")
                       /\ Written(e, "minConns") \in 0..Written(e, "maxConns")
                       /\ Written(e, "maxConns") > 0
                       /\ Written(e, "window") >= 7
                       /\ Written(e, "alpha") \in 1..100
  <2>1. \A s \in Numbers : c[s] = Written(e, s) /\ Written(e, s) \in Int
    BY <1>6, LoadedIsWritten
  <2>2. /\ c.write = Written(e, "write") /\ Written(e, "write") \in Int
        /\ c.request = Written(e, "request") /\ Written(e, "request") \in Int
        /\ c.minConns = Written(e, "minConns") /\ Written(e, "minConns") \in Int
        /\ c.maxConns = Written(e, "maxConns") /\ Written(e, "maxConns") \in Int
        /\ c.window = Written(e, "window") /\ Written(e, "window") \in Int
        /\ c.alpha = Written(e, "alpha") /\ Written(e, "alpha") \in Int
    BY <2>1 DEF Numbers, Durations, Counts
  <2> HIDE DEF c
  <2> QED
    BY <2>2
<1> HIDE DEF Cross
<1> QED
  BY <1>4, <1>5, <1>6 DEF Usable

-------------------------------------------------------------------------------
LEMMA InductiveInit == Init => Inductive
<1> SUFFICES ASSUME Init PROVE Inductive
  OBVIOUS
<1>1. config \in ConfigType /\ config.write > config.request /\ config.shutdown \in Nat
  BY DEF Init, Timeouts, Default, ConfigType
<1>2. TypeOK
  <2>1. intercepting \in BOOLEAN /\ interrupted \in BOOLEAN
    BY Zenon DEF Init
  <2> QED
    BY <1>1, <2>1, ServerAssumption DEF Init, TypeOK, HandlerStates, ClientStates
<1>3. ListenerShape /\ StageShape /\ CleanExit /\ QueriesAreBounded /\ AnswersAreDelivered
  BY DEF Init, ListenerShape, StageShape, CleanExit, QueriesAreBounded, AnswersAreDelivered
<1>4. \A c \in Connections : ClientShape(c) /\ AgeShape(c)
  BY DEF Init, ClientShape, AgeShape
<1> QED
  BY <1>1, <1>2, <1>3, <1>4 DEF Inductive

(* What LoadConfig makes of the environment is a configuration, and one that  *)
(* it accepts gives every answer time.                                        *)
LEMMA LoadConfigStep ==
  ASSUME Inductive, LoadConfig
  PROVE  Inductive'
<1> USE DEF Inductive
<1>1. env \in Environment /\ handler = [c \in Connections |-> "none"] /\ listener = "none"
      /\ \A c \in Connections : client[c] = "none"
  BY ServerAssumption DEF LoadConfig, StageShape, ListenerShape, ClientShape, TypeOK
<1>2. config' \in ConfigType /\ config'.write > config'.request /\ drained = 0 /\ code = 0
      /\ config'.shutdown \in Nat
  BY <1>1, LoadedTimeouts DEF LoadConfig, StageShape, TypeOK, ConfigType
<1>3. TypeOK'
  <2>1. intercepting' \in BOOLEAN /\ interrupted' \in BOOLEAN
    BY Zenon DEF LoadConfig, TypeOK
  <2>2. UNCHANGED <<listener, serveErr, drained, handler, waited, age, client>>
    BY DEF LoadConfig, connections
  <2>3. env' = Forgotten /\ stage' \in {"exit", "connect"} /\ code' \in 0..2
    BY <1>2 DEF LoadConfig
  <2> QED
    BY <1>2, <2>1, <2>2, <2>3 DEF TypeOK
<1>4. ListenerShape' /\ StageShape' /\ CleanExit' /\ QueriesAreBounded' /\ AnswersAreDelivered'
  BY <1>1, <1>2 DEF LoadConfig, ListenerShape, StageShape, CleanExit, QueriesAreBounded,
       AnswersAreDelivered, connections
<1>5. \A c \in Connections : ClientShape(c)' /\ AgeShape(c)'
  BY <1>1 DEF LoadConfig, ClientShape, AgeShape, connections
<1> QED
  BY <1>2, <1>3, <1>4, <1>5

(* The steps of the process that touch no connection.                         *)
LEMMA ProcessStep ==
  ASSUME Inductive,
         Connect \/ Migrate \/ Listen \/ ListenerFails \/ ListenerReturns \/ ServeFails
           \/ BeginDrain \/ DrainEnds
  PROVE  Inductive'
<1> USE DEF Inductive, settings, connections
<1>1. UNCHANGED <<env, config, drained, handler, waited, age, client>>
  BY DEF Connect, Migrate, Listen, ListenerFails, ListenerReturns, ServeFails, BeginDrain, DrainEnds
<1>2. TypeOK'
  <2>1. intercepting' \in BOOLEAN /\ interrupted' \in BOOLEAN
    BY Zenon DEF TypeOK, Connect, Migrate, Listen, ListenerFails, ListenerReturns, ServeFails,
         BeginDrain, DrainEnds
  <2>2. /\ stage' \in {"load", "connect", "migrate", "serve", "drain", "close", "exit"}
        /\ code' \in 0..2
        /\ listener' \in {"none", "starting", "open", "closed", "failed"}
        /\ serveErr' \in {"empty", "nil", "error"}
    BY DEF TypeOK, Connect, Migrate, Listen, ListenerFails, ListenerReturns, ServeFails,
       BeginDrain, DrainEnds
  <2> QED
    BY <1>1, <2>1, <2>2 DEF TypeOK
<1>3. ListenerShape'
  BY <1>1 DEF ListenerShape, TypeOK, Connect, Migrate, Listen, ListenerFails, ListenerReturns,
       ServeFails, BeginDrain, DrainEnds
<1>4. StageShape'
  <2>1. CASE DrainEnds
    BY <1>1, <2>1 DEF StageShape, DrainEnds, Active, TypeOK, HandlerStates
  <2> QED
    BY <1>1, <2>1 DEF StageShape, ListenerShape, TypeOK, Connect, Migrate, Listen, ListenerFails,
         ListenerReturns, ServeFails, BeginDrain
<1>5. ASSUME NEW c \in Connections PROVE ClientShape(c)' /\ AgeShape(c)'
  <2>1. stage # "exit" /\ stage # "close" => stage' # "exit" /\ client[c] # "severed"
    BY DEF ClientShape, Connect, Migrate, Listen, ListenerFails, ListenerReturns, ServeFails,
       BeginDrain, DrainEnds
  <2>2. stage \in {"exit", "close"} => UNCHANGED <<stage, code>>
    BY DEF Connect, Migrate, Listen, ListenerFails, ListenerReturns, ServeFails, BeginDrain, DrainEnds
  <2> QED
    BY <1>1, <2>1, <2>2 DEF ClientShape, AgeShape, Active
<1>6. CleanExit' /\ QueriesAreBounded' /\ AnswersAreDelivered'
  BY <1>1 DEF CleanExit, QueriesAreBounded, AnswersAreDelivered, Connect, Migrate, Listen,
       ListenerFails, ListenerReturns, ServeFails, BeginDrain, DrainEnds
<1> QED
  BY <1>1, <1>2, <1>3, <1>4, <1>5, <1>6

(* A signal that kills, the end of the drain's time and the end of the process *)
(* sever the clients that wait.                                               *)
LEMMA SeveringStep ==
  ASSUME Inductive, Signal \/ DrainExpires \/ Exit
  PROVE  Inductive'
<1> USE DEF Inductive, settings
<1>1. UNCHANGED <<env, config, drained, listener, serveErr, waited, age>>
  BY DEF Signal, DrainExpires, Exit
<1>2. /\ handler' \in {handler, [c \in Connections |-> "gone"]}
      /\ client' \in {client, Severed}
      /\ handler' # handler => stage' = "exit"
  BY DEF Signal, DrainExpires, Exit
<1>3. /\ \A c \in Connections : client'[c] \in {client[c], "severed"}
      /\ \A c \in Connections : client'[c] # client[c] => client[c] = "waiting"
      /\ client' \in [Connections -> ClientStates]
  BY <1>2 DEF Severed, TypeOK, ClientStates
<1>4. handler' \in [Connections -> HandlerStates]
      /\ \A c \in Connections : handler'[c] \in {handler[c], "gone"}
  BY <1>2 DEF TypeOK, HandlerStates
<1>5. TypeOK'
  <2>1. intercepting' \in BOOLEAN /\ interrupted' \in BOOLEAN
    BY Zenon DEF TypeOK, Signal, DrainExpires, Exit
  <2>2. stage' \in {stage, "close", "exit"} /\ code' \in {code, 1, 2}
    BY DEF Signal, DrainExpires, Exit
  <2> QED
    BY <1>1, <1>3, <1>4, <2>1, <2>2 DEF TypeOK
<1>6. ListenerShape'
  BY <1>1, <1>2 DEF ListenerShape, Signal, DrainExpires, Exit
<1>7. StageShape'
  BY <1>1, <1>2 DEF StageShape, Signal, DrainExpires, Exit
<1>8. ASSUME NEW c \in Connections PROVE ClientShape(c)' /\ AgeShape(c)'
  <2>1. AgeShape(c)'
    BY <1>1, <1>4 DEF AgeShape
  <2>2. ClientShape(c) /\ stage # "exit"
    BY DEF Signal, DrainExpires, Exit
  <2>3. CASE stage' = "exit"
    BY <2>1, <1>3, <1>4, <2>2, <2>3 DEF ClientShape, Active
  <2>4. CASE UNCHANGED <<stage, code, handler, client>>
    BY <2>1, <1>1, <2>2, <2>4 DEF ClientShape, Active
  <2>5. CASE DrainExpires
    <3>1. /\ handler' = handler /\ code' = 1 /\ stage' = "close" /\ drained = config.shutdown
          /\ client' = Severed
      BY <2>5 DEF DrainExpires
    <3>2. client'[c] = IF client[c] = "waiting" THEN "severed" ELSE client[c]
      BY <3>1 DEF Severed
    <3> QED
      BY <1>1, <2>1, <2>2, <3>1, <3>2 DEF ClientShape, Active
  <2>6. stage' = "exit" \/ UNCHANGED <<stage, code, handler, client>> \/ DrainExpires
    BY DEF Signal, Exit
  <2> QED
    BY <2>1, <2>3, <2>4, <2>5, <2>6
<1>9. CleanExit'
  <2>1. CASE Signal
    BY <2>1 DEF CleanExit, Signal
  <2>2. CASE DrainExpires
    BY <2>2 DEF CleanExit, DrainExpires
  <2>3. CASE Exit
    BY <1>3, <2>3 DEF CleanExit, Exit, StageShape, ClientShape, Active, Severed
  <2> QED
    BY <2>1, <2>2, <2>3
<1>10. QueriesAreBounded' /\ AnswersAreDelivered'
  BY <1>1, <1>3, <1>4 DEF QueriesAreBounded, AnswersAreDelivered
<1> QED
  BY <1>1, <1>5, <1>6, <1>7, <1>8, <1>9, <1>10

(* A step of one connection leaves the process and the others alone.          *)
LEMMA ConnectionStep ==
  ASSUME Inductive, NEW c \in Connections,
         Accept(c) \/ Begin(c) \/ DropConnection(c) \/ BodyArrives(c) \/ BodyFails(c) \/ Query(c)
           \/ QueryEnds(c) \/ Refuse(c) \/ Reply(c)
  PROVE  Inductive'
<1> USE DEF Inductive
<1>1. UNCHANGED <<env, config, stage, code, intercepting, interrupted, listener, serveErr, drained,
                  waited, age>> /\ stage # "exit"
  BY DEF Accept, Begin, DropConnection, BodyArrives, BodyFails, Query, QueryEnds, Refuse, Reply,
     process, settings, Running
<1>2. PICK from \in HandlerStates, to \in HandlerStates :
        /\ handler[c] = from /\ handler' = [handler EXCEPT ![c] = to]
        /\ from \notin {"none", "gone"} \/ listener = "open"
        /\ from # "gone"
  BY DEF Accept, Begin, DropConnection, BodyArrives, BodyFails, Query, QueryEnds, Refuse, Reply,
     Move, HandlerStates
<1>3. /\ client' \in [Connections -> ClientStates]
      /\ \A d \in Connections : d # c => client'[d] = client[d]
  BY DEF Accept, Begin, DropConnection, BodyArrives, BodyFails, Query, QueryEnds, Refuse, Reply,
     TypeOK, ClientStates
<1>4. TypeOK'
  BY <1>1, <1>2, <1>3 DEF TypeOK
<1>5. ListenerShape' /\ StageShape'
  BY <1>1, <1>2 DEF ListenerShape, StageShape, TypeOK
<1>6. handler \in [Connections -> HandlerStates] /\ age[c] \in Nat /\ waited[c] \in Nat
      /\ config.read \in Nat /\ config.request \in Nat /\ config.write \in Nat
      /\ ClientShape(c) /\ AgeShape(c)
  BY DEF TypeOK, ConfigType
<1>7. AgeShape(c)' /\ (handler'[c] = "querying" => age[c] <= config.request)
  BY <1>1, <1>6 DEF AgeShape, Accept, Begin, DropConnection, BodyArrives, BodyFails, Query,
       QueryEnds, Refuse, Reply, Move, TimedOut, Abandoned, QueriesAreBounded
<1>8. ClientShape(c)'
  BY <1>1, <1>2, <1>3, <1>6 DEF ClientShape, Accept, Begin, DropConnection, BodyArrives, BodyFails,
       Query, QueryEnds, Refuse, Reply, Move, Active, Abandoned, TypeOK
<1>9. client'[c] = "lost" => config.read >= config.write
  BY <1>1, <1>6 DEF AgeShape, AnswersAreDelivered, Accept, Begin, DropConnection, BodyArrives,
       BodyFails, Query, QueryEnds, Refuse, Reply, Move, TypeOK
<1>10. \A d \in Connections : d # c => handler'[d] = handler[d] /\ age'[d] = age[d]
  BY <1>1, <1>2, <1>6
<1>11. \A d \in Connections : ClientShape(d)' /\ AgeShape(d)'
  BY <1>1, <1>3, <1>7, <1>8, <1>10 DEF ClientShape, AgeShape, Active
<1>12. CleanExit' /\ QueriesAreBounded' /\ AnswersAreDelivered'
  BY <1>1, <1>3, <1>7, <1>9, <1>10 DEF CleanExit, QueriesAreBounded, AnswersAreDelivered
<1> QED
  BY <1>1, <1>4, <1>5, <1>11, <1>12

(* Time passes only where nothing has reached its deadline.                   *)
LEMMA TickStep ==
  ASSUME Inductive, Tick
  PROVE  Inductive'
<1> USE DEF Inductive
<1>1. UNCHANGED <<env, config, stage, code, intercepting, interrupted, listener, serveErr, handler,
                  client>> /\ stage # "exit"
  BY DEF Tick, settings, Running
<1>2. config \in ConfigType /\ config.shutdown \in Nat /\ drained \in 0..config.shutdown
      /\ config.read \in Nat /\ config.request \in Nat
  BY DEF TypeOK, ConfigType
<1>3. drained' \in 0..config.shutdown /\ (stage # "drain" => drained' = drained)
  BY <1>2 DEF Tick
<1>4. ASSUME NEW c \in Connections
      PROVE  /\ waited'[c] \in 0..ReadHeader /\ age'[c] \in Nat
             /\ AgeShape(c)' /\ (handler[c] = "querying" => age'[c] <= config.request)
  <2>1. waited[c] \in 0..ReadHeader /\ ReadHeader \in Nat /\ age[c] \in Nat /\ ~Due(c) /\ AgeShape(c)
    BY ServerAssumption DEF TypeOK, Tick
  <2>2. /\ waited'[c] = IF handler[c] = "accepted" THEN waited[c] + 1 ELSE waited[c]
        /\ age'[c] = IF Active(c) THEN age[c] + 1 ELSE age[c]
    BY DEF Tick
  <2> QED
    BY <1>1, <1>2, <2>1, <2>2 DEF Due, AgeShape, Active, TimedOut, QueriesAreBounded
<1>5. TypeOK'
  <2>1. waited' \in [Connections -> 0..ReadHeader] /\ age' \in [Connections -> Nat]
    BY <1>4 DEF Tick
  <2> QED
    BY <1>1, <1>3, <2>1 DEF TypeOK
<1>6. ListenerShape' /\ StageShape' /\ CleanExit' /\ AnswersAreDelivered'
  BY <1>1, <1>3 DEF ListenerShape, StageShape, CleanExit, AnswersAreDelivered
<1>7. \A c \in Connections : ClientShape(c)'
  BY <1>1, <1>3 DEF ClientShape, Active
<1>8. QueriesAreBounded'
  BY <1>1, <1>4 DEF QueriesAreBounded
<1> QED
  BY <1>1, <1>4, <1>5, <1>6, <1>7, <1>8

LEMMA InductiveStep == Inductive /\ [Next]_vars => Inductive'
<1> SUFFICES ASSUME Inductive, [Next]_vars PROVE Inductive'
  OBVIOUS
<1>1. CASE UNCHANGED vars
  BY <1>1 DEF vars, process, settings, connections, Inductive, TypeOK, ListenerShape, StageShape,
       ClientShape, AgeShape, Active, CleanExit, QueriesAreBounded, AnswersAreDelivered
<1> QED
  BY <1>1, LoadConfigStep, ProcessStep, SeveringStep, ConnectionStep, TickStep
     DEF Next, Main, Goroutine, Handle, Gone

-------------------------------------------------------------------------------
(* The process, its exit code and its connections fit together at every step. *)
THEOREM Invariance == Spec => []Inductive
<1> QED
  BY InductiveInit, InductiveStep, PTL DEF Spec

(* Every variable keeps its type; in particular no header is waited for longer *)
(* than ReadHeaderTimeout and no drain lasts longer than ShutdownTimeout.     *)
THEOREM TypeCorrectness == Spec => []TypeOK
<1>1. Inductive => TypeOK
  BY DEF Inductive
<1> QED
  BY <1>1, Invariance, PTL

(* Exit code 0 means asked to stop and every request begun was answered.      *)
THEOREM ZeroIsClean == Spec => []CleanExit
<1>1. Inductive => CleanExit
  BY DEF Inductive
<1> QED
  BY <1>1, Invariance, PTL

(* No shutdown severs a client before ShutdownTimeout has passed.             *)
THEOREM DrainTakesItsTime == Spec => []DrainIsGiven
<1>1. Inductive => DrainIsGiven
  BY DEF Inductive, ClientShape, DrainIsGiven, Shutdown, ServerClosed
<1> QED
  BY <1>1, Invariance, PTL

(* No query outlives the deadline of its request.                             *)
THEOREM NoQueryLingers == Spec => []QueriesAreBounded
<1>1. Inductive => QueriesAreBounded
  BY DEF Inductive
<1> QED
  BY <1>1, Invariance, PTL

(* WriteTimeout loses no answer unless the body may take as long to come.     *)
THEOREM NoAnswerLost == Spec => []AnswersAreDelivered
<1>1. Inductive => AnswersAreDelivered
  BY DEF Inductive
<1> QED
  BY <1>1, Invariance, PTL

(* A server boots if and only if it can run with what the operator wrote, for *)
(* any environment without DEMAND_ALPHA=NaN and numbers over 32 bits.         *)
THEOREM BootMeansUsable == Spec => AcceptedIffUsable
<1>1. ASSUME Inductive, [Next]_vars, LoadConfig
      PROVE  (stage' = "exit" <=> ~Usable(env)) \/ env.alpha.kind = "nan" \/ Wraps(env)
  <2>1. env \in Environment
    BY <1>1, ServerAssumption DEF Inductive, StageShape, LoadConfig
  <2>2. stage' = "exit" <=> Problems(env) # {}
    BY <1>1 DEF LoadConfig
  <2> QED
    BY <2>1, <2>2, ComplaintsAreRight
<1>2. Inductive /\ [Next]_vars =>
        [LoadConfig => \/ stage' = "exit" <=> ~Usable(env)
                       \/ env.alpha.kind = "nan" \/ Wraps(env)]_vars
  BY <1>1
<1> QED
  BY <1>2, Invariance, PTL DEF Spec, AcceptedIffUsable
================================================================================
