----------------------------- MODULE Configuration -----------------------------
(***************************************************************************)
(* config/app.config.ts: the pure function from the variables of the       *)
(* environment to the configuration, and the choices taken from it once at *)
(* start: how TypeORM connects (app.module.ts), and where RedisService     *)
(* sends its commands (redis.service.ts).                                  *)
(*                                                                         *)
(* An environment maps each name to Unset, Blank (the empty string), Junk  *)
(* (a text none of the parsers knows), a number, "true", "false", a word,  *)
(* or the parts of a connection URL the code looks at.  `x ?? y` is Or.    *)
(***************************************************************************)
EXTENDS Integers

CONSTANTS Unset, Blank, Junk

\* `undefined` is neither a text nor one of the node environments.
ASSUME UnsetAssumption ==
  Unset # Blank /\ Unset # Junk /\ Unset \notin {"staging", "production"}

\* The numbers and their defaults.
Default == [
  PORT |-> 3000, DB_PORT |-> 5432, REDIS_PORT |-> 6379, REDIS_DB |-> 0,
  API_RATE_LIMIT_LIMIT |-> 120, API_RATE_LIMIT_TTL_SECONDS |-> 60,
  API_RATE_LIMIT_BLOCK_SECONDS |-> 60, API_AUTH_RATE_LIMIT_LIMIT |-> 10,
  API_AUTH_RATE_LIMIT_TTL_SECONDS |-> 60, API_AUTH_RATE_LIMIT_BLOCK_SECONDS |-> 300,
  API_CACHE_ROLES_TTL_SECONDS |-> 60,
  ACCESS_TOKEN_TTL_SECONDS |-> 900, REFRESH_TOKEN_TTL_SECONDS |-> 604800,
  GRAFANA_LOKI_BATCH_SIZE |-> 50, GRAFANA_LOKI_FLUSH_INTERVAL_MS |-> 5000,
  GRAFANA_LOKI_RETRY_BACKOFF_MS |-> 5000, GRAFANA_LOKI_TIMEOUT_MS |-> 5000,
  GRAFANA_LOKI_MAX_QUEUE_SIZE |-> 1000, METRICS_DB_PING_INTERVAL_MS |-> 30000,
  METRICS_REDIS_PING_INTERVAL_MS |-> 30000, METRICS_SLOW_DB_QUERY_THRESHOLD_MS |-> 500]

Numeric == DOMAIN Default
Flags == {"DB_SSL", "DB_SSL_REJECT_UNAUTHORIZED", "DB_ENABLE_CHANNEL_BINDING",
          "REDIS_TLS", "REDIS_TLS_REJECT_UNAUTHORIZED", "DB_SYNC", "DB_LOGGING",
          "COOKIE_SECURE", "LOG_REDIS_OPERATIONS", "METRICS_DEFAULT_METRICS_ENABLED"}
Managed == {"DATABASE_URL", "REDIS_URL", "UPSTASH_REDIS_REST_URL",
            "UPSTASH_REDIS_REST_TOKEN"}
Words == {"NODE_ENV", "LOG_LEVEL", "COOKIE_SAME_SITE", "COOKIE_DOMAIN",
          "DB_HOST", "DB_USERNAME", "DB_PASSWORD", "DB_NAME",
          "REDIS_HOST", "REDIS_PASSWORD",
          "GRAFANA_LOKI_URL", "GRAFANA_LOKI_USERNAME", "GRAFANA_LOKI_PASSWORD"}
Variable == Numeric \cup Flags \cup Managed \cup Words

Given(x) == x \notin {Unset, Blank}
Or(x, y) == IF x = Unset THEN y ELSE x

----------------------------------------------------------------------------
\* Parsers

\* Number('') is 0; Number(undefined) and Number of a text are NaN.
parseNumber(x, fallback) ==
  IF x = Blank THEN 0 ELSE IF x \in {Unset, Junk} THEN fallback ELSE x

parseOptionalBoolean(x) == IF x = Unset THEN Unset ELSE x = "true"
parseBoolean(x, fallback) == Or(parseOptionalBoolean(x), fallback)
parseSameSite(x) == IF x \in {"lax", "strict", "none"} THEN x ELSE "lax"
parseLogLevel(x, fallback) == Or(x, fallback)

\* Variant of shouldUseManagedConnection: the URL alone decides.
managedWhenGiven(nodeEnv, url) == Given(url)

shouldUseManagedConnection(nodeEnv, url) ==
  Given(url) /\ nodeEnv \in {"staging", "production"}

Active(nodeEnv, url) == IF shouldUseManagedConnection(nodeEnv, url) THEN url ELSE Unset

\* What new URL() finds: a text that is no URL, or no text, has none of it.
IsUrl(url) == Given(url) /\ url # Junk
sslMode(url) == IF IsUrl(url) THEN url.sslmode ELSE Unset
requiresChannelBinding(url) == IsUrl(url) /\ url.channelBinding = "require"
requiresTls(url) == IsUrl(url) /\ url.protocol = "rediss:"

\* `false` or undefined is [on |-> FALSE]; else rejectUnauthorized is `strict`.
Tls(on, strict) == [on |-> on, rejectUnauthorized |-> on /\ strict]

resolveDatabaseSsl(e, url) ==
  LET explicit == parseOptionalBoolean(e["DB_SSL"])
      verified == sslMode(url) \in {"verify-ca", "verify-full"}
  IN Tls(Or(explicit, verified \/ sslMode(url) \in {"allow", "prefer", "require"}),
         Or(parseOptionalBoolean(e["DB_SSL_REJECT_UNAUTHORIZED"]),
            explicit = Unset /\ verified))

resolveChannelBinding(e, url) ==
  Or(parseOptionalBoolean(e["DB_ENABLE_CHANNEL_BINDING"]), requiresChannelBinding(url))

resolveRedisTls(e, url) ==
  Tls(Or(parseOptionalBoolean(e["REDIS_TLS"]), requiresTls(url)),
      Or(parseOptionalBoolean(e["REDIS_TLS_REJECT_UNAUTHORIZED"]), TRUE))

----------------------------------------------------------------------------
\* The exported function.

AppConfig(e) ==
  LET number(v) == parseNumber(e[v], Default[v])
      ms(v) == number(v) * 1000
      nodeEnv == Or(e["NODE_ENV"], "development")
      databaseUrl == Active(nodeEnv, e["DATABASE_URL"])
      redisUrl == Active(nodeEnv, e["REDIS_URL"])
      restUrl == Active(nodeEnv, e["UPSTASH_REDIS_REST_URL"])
      restToken == e["UPSTASH_REDIS_REST_TOKEN"]
  IN [nodeEnv |-> nodeEnv,
      port |-> number("PORT"),
      default |-> [limit |-> number("API_RATE_LIMIT_LIMIT"),
                   ttl |-> ms("API_RATE_LIMIT_TTL_SECONDS"),
                   block |-> ms("API_RATE_LIMIT_BLOCK_SECONDS")],
      auth |-> [limit |-> number("API_AUTH_RATE_LIMIT_LIMIT"),
                ttl |-> ms("API_AUTH_RATE_LIMIT_TTL_SECONDS"),
                block |-> ms("API_AUTH_RATE_LIMIT_BLOCK_SECONDS")],
      rolesTtl |-> number("API_CACHE_ROLES_TTL_SECONDS"),
      database |-> [url |-> databaseUrl,
                    host |-> Or(e["DB_HOST"], "localhost"),
                    port |-> number("DB_PORT"),
                    username |-> Or(e["DB_USERNAME"], "postgres"),
                    password |-> Or(e["DB_PASSWORD"], "postgres"),
                    name |-> Or(e["DB_NAME"], "school_management"),
                    synchronize |-> parseBoolean(e["DB_SYNC"], TRUE),
                    logging |-> parseBoolean(e["DB_LOGGING"], FALSE),
                    ssl |-> resolveDatabaseSsl(e, databaseUrl),
                    channelBinding |-> resolveChannelBinding(e, databaseUrl)],
      redis |-> [url |-> redisUrl,
                 restUrl |-> restUrl,
                 restToken |-> IF Given(restUrl) /\ Given(restToken)
                               THEN restToken ELSE Unset,
                 host |-> Or(e["REDIS_HOST"], "localhost"),
                 port |-> number("REDIS_PORT"),
                 password |-> e["REDIS_PASSWORD"],
                 db |-> number("REDIS_DB"),
                 tls |-> resolveRedisTls(e, redisUrl)],
      accessTtl |-> number("ACCESS_TOKEN_TTL_SECONDS"),
      refreshTtl |-> number("REFRESH_TOKEN_TTL_SECONDS"),
      cookie |-> [domain |-> e["COOKIE_DOMAIN"],
                  sameSite |-> parseSameSite(e["COOKIE_SAME_SITE"]),
                  secure |-> parseBoolean(e["COOKIE_SECURE"], FALSE)],
      level |-> parseLogLevel(e["LOG_LEVEL"],
                              IF nodeEnv = "production" THEN "info" ELSE "debug"),
      logRedisOperations |-> parseBoolean(e["LOG_REDIS_OPERATIONS"], FALSE),
      loki |-> [url |-> e["GRAFANA_LOKI_URL"],
                username |-> e["GRAFANA_LOKI_USERNAME"],
                password |-> e["GRAFANA_LOKI_PASSWORD"],
                batch |-> number("GRAFANA_LOKI_BATCH_SIZE"),
                interval |-> number("GRAFANA_LOKI_FLUSH_INTERVAL_MS"),
                backoff |-> number("GRAFANA_LOKI_RETRY_BACKOFF_MS"),
                timeout |-> number("GRAFANA_LOKI_TIMEOUT_MS"),
                capacity |-> number("GRAFANA_LOKI_MAX_QUEUE_SIZE")],
      databasePing |-> number("METRICS_DB_PING_INTERVAL_MS"),
      redisPing |-> number("METRICS_REDIS_PING_INTERVAL_MS"),
      slowQuery |-> number("METRICS_SLOW_DB_QUERY_THRESHOLD_MS"),
      defaultMetrics |-> parseBoolean(e["METRICS_DEFAULT_METRICS_ENABLED"], TRUE)]

----------------------------------------------------------------------------
\* What is chosen from the configuration once, at start

\* app.module.ts: the options of TypeORM that say where and how it connects.
DatabaseConnection(c) ==
  LET d == c.database IN
  [at |-> IF Given(d.url) THEN [url |-> d.url]
          ELSE [host |-> d.host, port |-> d.port, username |-> d.username,
                password |-> d.password, name |-> d.name],
   ssl |-> d.ssl, channelBinding |-> d.channelBinding]

\* RedisService sends each command to the REST API if both credentials are there.
UsesRest(c) == Given(c.redis.restUrl) /\ Given(c.redis.restToken)

RedisConnection(c) ==
  LET r == c.redis IN
  IF UsesRest(c) THEN [rest |-> r.restUrl, token |-> r.restToken]
  ELSE IF Given(r.url) THEN [url |-> r.url, tls |-> r.tls]
  ELSE [host |-> r.host, port |-> r.port, db |-> r.db, tls |-> r.tls,
        password |-> IF Given(r.password) THEN r.password ELSE Unset]

=============================================================================
