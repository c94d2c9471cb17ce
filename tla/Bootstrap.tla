------------------------------- MODULE Bootstrap -------------------------------
(***************************************************************************)
(* The life of one API process (main.ts and the module hooks Nest runs for *)
(* it): the configuration is read once and the services made from it, the  *)
(* database is connected, the module hooks seed it and start the probes of *)
(* DependencyHealth, the port is opened, Redis is pinged once, and a       *)
(* signal stops it all.  A process that fails is started again             *)
(* (docker-compose.yml).  PostgreSQL and Redis come and go meanwhile.      *)
(***************************************************************************)
EXTENDS Configuration, DependencyHealth

CONSTANT Environments  \* the environments a process may be started in

\* A numeric variable is not set, empty, no number, or a whole number.
ASSUME EnvironmentAssumption ==
  \A e \in Environments : \A v \in Numeric : e[v] \in Int \cup {Unset, Blank, Junk}

VARIABLES
  env,      \* the variables of the process; forgotten (<<>>) once they are read
  port,     \* app.port: "unread" | "free" | "taken" by another program | "invalid"
  phase,    \* where bootstrap() has got to
  seeded    \* AuthBootstrapService.onModuleInit: "no" | "rows" | "done"

bvars == <<dvars, env, port, phase, seeded>>

Phases == {"starting", "connecting", "initialising", "listening", "ready",
           "stopping", "exited", "crashed"}
Running == {"initialising", "listening", "ready"}
Goto(where) == phase' = where

----------------------------------------------------------------------------
\* NestFactory.create: the configuration is read, the services constructed.
\* No parser asks whether the number is one of a port.
Construct ==
  /\ phase = "starting"
  /\ env' = <<>>
  /\ port' = IF AppConfig(env).port \in 0..65535 THEN "free" ELSE "invalid"
  /\ Goto("connecting")
  /\ UNCHANGED <<dvars, seeded>>

\* TypeOrmModule connects, trying several times before it gives up.
Connect ==
  /\ phase = "connecting"
  /\ \/ up["database"] /\ Goto("initialising")
     \/ ~up["database"] /\ Goto("crashed")
  /\ UNCHANGED <<dvars, env, port, seeded>>

\* DependencyHealthMetricsService.onModuleInit, in either order with seeding.
InitProbes ==
  /\ phase = "initialising"
  /\ StartProbes
  /\ UNCHANGED <<env, port, phase, seeded>>

\* AuthBootstrapService.onModuleInit: what it awaits of the database.
SeedRows ==
  /\ phase = "initialising" /\ seeded = "no"
  /\ \/ up["database"] /\ seeded' = "rows" /\ UNCHANGED phase
     \/ ~up["database"] /\ Goto("crashed") /\ UNCHANGED seeded
  /\ UNCHANGED <<dvars, env, port>>

\* invalidateRolesCache: the DEL may fail, which is only logged.
SeedCache ==
  /\ phase = "initialising" /\ seeded = "rows"
  /\ seeded' = "done"
  /\ UNCHANGED <<dvars, env, port, phase>>

\* app.listen, when every onModuleInit is through.  It rejects if the port is
\* invalid or taken; nothing in bootstrap() catches that, and the process ends.
Listen ==
  /\ phase = "initialising" /\ seeded = "done" /\ timers
  /\ Goto(IF port = "free" THEN "listening" ELSE "crashed")
  /\ UNCHANGED <<dvars, env, port, seeded>>

\* Variant of StartupPing: the failure is not caught.
StartupPingOrCrash ==
  /\ phase = "listening"
  /\ Goto(IF up["redis"] THEN "ready" ELSE "crashed")
  /\ UNCHANGED <<dvars, env, port, seeded>>

\* The connectivity check: either outcome is only logged.
StartupPing ==
  /\ phase = "listening"
  /\ Goto("ready")
  /\ UNCHANGED <<dvars, env, port, seeded>>

----------------------------------------------------------------------------
\* SIGTERM, once enableShutdownHooks has run: onModuleDestroy of the probes.
Stop ==
  /\ phase \in Running
  /\ Goto("stopping")
  /\ StopProbes
  /\ UNCHANGED <<env, port, seeded>>

\* onModuleDestroy of RedisService: QUIT on a socket; done or failed, the
\* process ends.
Quit ==
  /\ phase = "stopping"
  /\ Goto("exited")
  /\ UNCHANGED <<dvars, env, port, seeded>>

\* Everything in memory is lost; the new process reads the same environment.
Restart ==
  /\ phase = "crashed"
  /\ Goto("connecting")
  /\ seeded' = "no"
  /\ timers' = FALSE
  /\ pings' = [d \in Dependency |-> <<>>]
  /\ gauge' = [d \in Dependency |-> FALSE]
  /\ UNCHANGED <<up, env, port>>

\* The probes, while the process lives.
Probe ==
  /\ phase \in Running \cup {"stopping"}
  /\ \E d \in Dependency : Fire(d) \/ Answer(d)
  /\ UNCHANGED <<env, port, phase, seeded>>

\* Dependencies come and go, and so do other programs on a port the process
\* does not hold.
World ==
  /\ \/ /\ phase # "starting"
        /\ \E d \in Dependency : Change(d)
        /\ UNCHANGED port
     \/ /\ phase \in {"connecting", "initialising", "crashed"}
        /\ port' \in {"free", "taken"} \ {port} /\ port # "invalid"
        /\ UNCHANGED dvars
  /\ UNCHANGED <<env, phase, seeded>>

----------------------------------------------------------------------------
BInit ==
  /\ DInit
  /\ env \in Environments
  /\ port = "unread"
  /\ phase = "starting"
  /\ seeded = "no"

\* What the process does by itself; signals and the world are not in it.
Own == \/ Construct \/ Connect \/ InitProbes \/ SeedRows \/ SeedCache
       \/ Listen \/ StartupPing \/ Quit \/ Restart

BNext == Own \/ Stop \/ Probe \/ World

BSpec == BInit /\ [][BNext]_bvars

\* A step of the process that can be taken is taken, timers fire, every await
\* settles, and a process that failed is started again (restart:
\* unless-stopped).  Nothing is assumed of signals, of the dependencies or of
\* the port.
BFairSpec ==
  /\ BSpec
  /\ WF_bvars(Own)
  /\ \A d \in Dependency :
       /\ WF_bvars(Probe /\ Fire(d))
       /\ \A i \in 1..MaxPings :
            WF_bvars(Probe /\ i <= Len(pings[d]) /\ (Reach(d, i) \/ Settle(d, i)))

----------------------------------------------------------------------------
\* Properties

\* The environment as read, its configuration, and the same with some
\* variables not set.
Reading == phase = "starting"
Without(S) == [v \in Variable |-> IF v \in S THEN Unset ELSE env[v]]
InProduction == env["NODE_ENV"] \in {"staging", "production"}

LocalDatabase == {"DB_HOST", "DB_PORT", "DB_USERNAME", "DB_PASSWORD", "DB_NAME"}
LocalRedis == {"REDIS_HOST", "REDIS_PORT", "REDIS_DB", "REDIS_PASSWORD"}
ManagedRedis == \/ Given(env["REDIS_URL"])
                \/ /\ Given(env["UPSTASH_REDIS_REST_URL"])
                   /\ Given(env["UPSTASH_REDIS_REST_TOKEN"])

\* README "In local development ... the backend uses the individual DB_* and
\* REDIS_* settings ... In staging or production ... the backend will switch
\* automatically": where and how it connects (TLS and channel binding
\* included) depends on no managed setting outside staging and production,
\* and on no local one there once a managed one is given.
ConnectionsFollowEnvironment ==
  Reading =>
    LET c == AppConfig(env) IN
    /\ ~InProduction =>
         LET local == AppConfig(Without(Managed)) IN
         /\ DatabaseConnection(c) = DatabaseConnection(local)
         /\ RedisConnection(c) = RedisConnection(local)
    /\ (InProduction /\ Given(env["DATABASE_URL"])) =>
         DatabaseConnection(c) = DatabaseConnection(AppConfig(Without(LocalDatabase)))
    /\ (InProduction /\ ManagedRedis) =>
         RedisConnection(c) = RedisConnection(AppConfig(Without(LocalRedis)))

\* main.ts "Logs a warning (not a crash) so the app stays up even if Redis is
\* temporarily unavailable": a process that is not stopped gets ready, and
\* stays so, once the database stays up and nothing else is on its port, if
\* that is a port at all; whatever Redis does, and however often the process
\* failed before.
ReadyDespiteRedis ==
  (<>[](up["database"] /\ port = "free") /\ [](phase \notin {"stopping", "exited"}))
    => <>[](phase = "ready")

\* docs/observability.md "Stopping Redis sets app_redis_up to 0", likewise
\* PostgreSQL, and back: once a dependency stays as it is, the gauge of a
\* ready process comes to say so and does not change any more, though pings
\* overlap and are answered out of order.
GaugesCatchUp ==
  \A d \in Dependency : \A b \in BOOLEAN :
    (<>[](up[d] = b) /\ <>[](phase = "ready")) => <>[](gauge[d] = b)

=============================================================================
