--------------------------- MODULE BootstrapProofs ---------------------------
(***************************************************************************)
(* What a process makes of the environment it is started in, for every     *)
(* environment.  AppConfig is taken apart first, by the variables each     *)
(* choice depends on.                                                      *)
(***************************************************************************)
EXTENDS Bootstrap, TLAPS

NodeEnv(e) == Or(e["NODE_ENV"], "development")
DatabaseUrl(e) == Active(NodeEnv(e), e["DATABASE_URL"])
RedisUrl(e) == Active(NodeEnv(e), e["REDIS_URL"])
RestUrl(e) == Active(NodeEnv(e), e["UPSTASH_REDIS_REST_URL"])
ByRest(e) == Given(RestUrl(e)) /\ Given(e["UPSTASH_REDIS_REST_TOKEN"])

----------------------------------------------------------------------------
(* What the connections depend on *)

LEMMA DatabaseOf ==
  ASSUME NEW e
  PROVE  DatabaseConnection(AppConfig(e)) =
           [at |-> IF Given(DatabaseUrl(e)) THEN [url |-> DatabaseUrl(e)]
                   ELSE [host |-> Or(e["DB_HOST"], "localhost"),
                         port |-> parseNumber(e["DB_PORT"], Default["DB_PORT"]),
                         username |-> Or(e["DB_USERNAME"], "postgres"),
                         password |-> Or(e["DB_PASSWORD"], "postgres"),
                         name |-> Or(e["DB_NAME"], "school_management")],
            ssl |-> resolveDatabaseSsl(e, DatabaseUrl(e)),
            channelBinding |-> resolveChannelBinding(e, DatabaseUrl(e))]
BY DEF DatabaseConnection, AppConfig, DatabaseUrl, NodeEnv

LEMMA RestOf ==
  ASSUME NEW e
  PROVE  /\ UsesRest(AppConfig(e)) <=> ByRest(e)
         /\ ByRest(e) => /\ AppConfig(e).redis.restUrl = RestUrl(e)
                         /\ AppConfig(e).redis.restToken = e["UPSTASH_REDIS_REST_TOKEN"]
<1>1. /\ AppConfig(e).redis.restUrl = RestUrl(e)
      /\ AppConfig(e).redis.restToken =
           IF ByRest(e) THEN e["UPSTASH_REDIS_REST_TOKEN"] ELSE Unset
  BY DEF AppConfig, RestUrl, ByRest, NodeEnv
<1> QED BY <1>1 DEF UsesRest, ByRest, Given

LEMMA RedisOf ==
  ASSUME NEW e
  PROVE  RedisConnection(AppConfig(e)) =
           IF ByRest(e) THEN [rest |-> RestUrl(e), token |-> e["UPSTASH_REDIS_REST_TOKEN"]]
           ELSE IF Given(RedisUrl(e))
                THEN [url |-> RedisUrl(e), tls |-> resolveRedisTls(e, RedisUrl(e))]
           ELSE [host |-> Or(e["REDIS_HOST"], "localhost"),
                 port |-> parseNumber(e["REDIS_PORT"], Default["REDIS_PORT"]),
                 db |-> parseNumber(e["REDIS_DB"], Default["REDIS_DB"]),
                 tls |-> resolveRedisTls(e, RedisUrl(e)),
                 password |-> IF Given(e["REDIS_PASSWORD"]) THEN e["REDIS_PASSWORD"]
                              ELSE Unset]
<1>1. /\ AppConfig(e).redis.url = RedisUrl(e)
      /\ AppConfig(e).redis.host = Or(e["REDIS_HOST"], "localhost")
      /\ AppConfig(e).redis.port = parseNumber(e["REDIS_PORT"], Default["REDIS_PORT"])
      /\ AppConfig(e).redis.db = parseNumber(e["REDIS_DB"], Default["REDIS_DB"])
      /\ AppConfig(e).redis.tls = resolveRedisTls(e, RedisUrl(e))
      /\ AppConfig(e).redis.password = e["REDIS_PASSWORD"]
  BY DEF AppConfig, RedisUrl, NodeEnv
<1> QED BY <1>1, RestOf DEF RedisConnection

\* Outside staging and production no managed setting is active; there, one
\* that is given is the one used.
LEMMA ActiveHere ==
  ASSUME NEW e, NEW url
  PROVE  /\ e["NODE_ENV"] \notin {"staging", "production"} => Active(NodeEnv(e), url) = Unset
         /\ (e["NODE_ENV"] \in {"staging", "production"} /\ Given(url)) =>
              Active(NodeEnv(e), url) = url
BY UnsetAssumption DEF Active, shouldUseManagedConnection, NodeEnv, Or, Given

LEMMA LeavesRest ==
  ASSUME NEW S \in SUBSET Variable, NEW v \in Variable \ S
  PROVE  Without(S)[v] = env[v]
BY DEF Without

LEMMA LeavesOut ==
  ASSUME NEW S \in SUBSET Variable, NEW v \in S
  PROVE  Without(S)[v] = Unset
BY DEF Without

\* How a connection is secured depends on the flags and its URL.
LEMMA SecuredAlike ==
  ASSUME NEW e, NEW f, NEW url,
         \A v \in Flags : e[v] = f[v]
  PROVE  /\ resolveDatabaseSsl(e, url) = resolveDatabaseSsl(f, url)
         /\ resolveChannelBinding(e, url) = resolveChannelBinding(f, url)
         /\ resolveRedisTls(e, url) = resolveRedisTls(f, url)
BY DEF resolveDatabaseSsl, resolveChannelBinding, resolveRedisTls, Flags

LEMMA OutsideProduction ==
  ASSUME ~InProduction
  PROVE  LET local == AppConfig(Without(Managed)) IN
         /\ DatabaseConnection(AppConfig(env)) = DatabaseConnection(local)
         /\ RedisConnection(AppConfig(env)) = RedisConnection(local)
<1> DEFINE w == Without(Managed)
<1>1. \A v \in Variable \ Managed : w[v] = env[v]
  BY LeavesRest DEF Variable
<1>2. w["NODE_ENV"] \notin {"staging", "production"}
  BY <1>1 DEF InProduction, Variable, Words, Managed
<1> HIDE DEF w
<1>3. /\ DatabaseUrl(env) = Unset /\ DatabaseUrl(w) = Unset
      /\ RedisUrl(env) = Unset /\ RedisUrl(w) = Unset
      /\ RestUrl(env) = Unset /\ RestUrl(w) = Unset
  BY <1>2, ActiveHere DEF InProduction, DatabaseUrl, RedisUrl, RestUrl
<1>4. \A v \in Flags \cup LocalDatabase \cup LocalRedis : w[v] = env[v]
  BY <1>1 DEF Variable, Flags, Words, Managed, LocalDatabase, LocalRedis, Numeric, Default
<1>5. DatabaseConnection(AppConfig(env)) = DatabaseConnection(AppConfig(w))
  <2>1. /\ resolveDatabaseSsl(env, Unset) = resolveDatabaseSsl(w, Unset)
        /\ resolveChannelBinding(env, Unset) = resolveChannelBinding(w, Unset)
    BY <1>4, SecuredAlike
  <2>2. \A v \in LocalDatabase : w[v] = env[v]
    BY <1>4
  <2> QED BY <1>3, <2>1, <2>2, DatabaseOf DEF LocalDatabase, Given
<1>6. RedisConnection(AppConfig(env)) = RedisConnection(AppConfig(w))
  BY <1>3, <1>4, RedisOf, SecuredAlike DEF LocalRedis, ByRest, Given
<1> QED BY <1>5, <1>6 DEF w

LEMMA ManagedDatabase ==
  ASSUME InProduction, Given(env["DATABASE_URL"])
  PROVE  DatabaseConnection(AppConfig(env)) =
           DatabaseConnection(AppConfig(Without(LocalDatabase)))
<1> DEFINE w == Without(LocalDatabase)
<1>1. \A v \in Flags \cup {"NODE_ENV", "DATABASE_URL"} : w[v] = env[v]
  <2>1. \A v \in Flags \cup {"NODE_ENV", "DATABASE_URL"} : v \in Variable \ LocalDatabase
    BY DEF Variable, Flags, Words, Managed, LocalDatabase
  <2> QED BY <2>1, LeavesRest DEF LocalDatabase, Variable, Words, Numeric, Default
<1> HIDE DEF w
<1>2. DatabaseUrl(env) = env["DATABASE_URL"] /\ DatabaseUrl(w) = env["DATABASE_URL"]
  BY <1>1, ActiveHere DEF InProduction, DatabaseUrl
<1>3. DatabaseConnection(AppConfig(env)) = DatabaseConnection(AppConfig(w))
  BY <1>1, <1>2, DatabaseOf, SecuredAlike
<1> QED BY <1>3 DEF w

LEMMA ManagedRedisUsed ==
  ASSUME InProduction, ManagedRedis
  PROVE  RedisConnection(AppConfig(env)) =
           RedisConnection(AppConfig(Without(LocalRedis)))
<1> DEFINE w == Without(LocalRedis)
<1>1. \A v \in Flags \cup Managed \cup {"NODE_ENV"} : w[v] = env[v]
  <2>1. \A v \in Flags \cup Managed \cup {"NODE_ENV"} : v \in Variable \ LocalRedis
    BY DEF Variable, Flags, Words, Managed, LocalRedis
  <2> QED BY <2>1, LeavesRest DEF LocalRedis, Variable, Words, Numeric, Default
<1> HIDE DEF w
<1>2. /\ RedisUrl(env) = RedisUrl(w) /\ RestUrl(env) = RestUrl(w)
      /\ ByRest(env) <=> ByRest(w)
  BY <1>1 DEF RedisUrl, RestUrl, NodeEnv, ByRest, Managed
<1>3. ByRest(env) \/ Given(RedisUrl(env))
  BY ActiveHere DEF ManagedRedis, InProduction, ByRest, RedisUrl, RestUrl
<1>4. RedisConnection(AppConfig(env)) = RedisConnection(AppConfig(w))
  <2>1. resolveRedisTls(env, RedisUrl(env)) = resolveRedisTls(w, RedisUrl(w))
    BY <1>1, <1>2, SecuredAlike
  <2>2. env["UPSTASH_REDIS_REST_TOKEN"] = w["UPSTASH_REDIS_REST_TOKEN"]
    BY <1>1 DEF Managed
  <2> QED BY <1>2, <1>3, <2>1, <2>2, RedisOf
<1> QED BY <1>4 DEF w

----------------------------------------------------------------------------
(* The theorem *)

\* Whatever the environment, the managed settings choose the connections in
\* staging and production and only there (app.config.ts 185-420, app.module.ts
\* 77-120, redis.service.ts 33-53).
THEOREM EnvironmentChoosesConnections == BSpec => []ConnectionsFollowEnvironment
<1>1. ConnectionsFollowEnvironment
  BY OutsideProduction, ManagedDatabase, ManagedRedisUsed DEF ConnectionsFollowEnvironment
<1> QED BY <1>1, PTL

=============================================================================
