------------------------------ MODULE MCBootstrap ------------------------------
(***************************************************************************)
(* Bootstrap for TLC: the environments of the repository (none of the      *)
(* variables set, .env.example, render.yaml) with one variable, or two of  *)
(* those that choose a connection, set to anything.                        *)
(***************************************************************************)
EXTENDS Bootstrap, TLC

Url(p, mode, binding) == [protocol |-> p, sslmode |-> mode, channelBinding |-> binding]
Postgres == Url("postgresql:", "require", "require")

Bare == [v \in Variable |-> Unset]

Example ==
  [v \in Variable |->
     IF v \in Numeric THEN Default[v]
     ELSE IF v \in {"DB_LOGGING", "COOKIE_SECURE", "LOG_REDIS_OPERATIONS"} THEN "false"
     ELSE IF v \in {"DB_SYNC", "METRICS_DEFAULT_METRICS_ENABLED"} THEN "true"
     ELSE IF v \in {"DB_HOST", "REDIS_HOST"} THEN "localhost"
     ELSE IF v \in {"DB_USERNAME", "DB_PASSWORD", "DB_NAME"} THEN "local"
     ELSE IF v = "NODE_ENV" THEN "development"
     ELSE IF v = "LOG_LEVEL" THEN "debug"
     ELSE IF v = "COOKIE_SAME_SITE" THEN "lax"
     ELSE Blank]

Render ==
  [v \in Variable |->
     IF v = "NODE_ENV" THEN "production"
     ELSE IF v = "DATABASE_URL" THEN Postgres
     ELSE IF v = "UPSTASH_REDIS_REST_URL" THEN Url("https:", Unset, Unset)
     ELSE IF v = "UPSTASH_REDIS_REST_TOKEN" THEN "secret"
     ELSE IF v \in {"DB_SSL", "DB_SSL_REJECT_UNAUTHORIZED", "COOKIE_SECURE"} THEN "true"
     ELSE IF v \in {"DB_SYNC", "DB_LOGGING", "LOG_REDIS_OPERATIONS"} THEN "false"
     ELSE IF v = "COOKIE_SAME_SITE" THEN "none"
     ELSE IF v = "LOG_LEVEL" THEN "info"
     ELSE IF v \in Numeric \ {"DB_PORT", "REDIS_PORT", "REDIS_DB"} THEN Default[v]
     ELSE Unset]

Values(v) == {Unset, Blank} \cup
  (IF v = "PORT" THEN {Junk, -1, 0, 65535, 65536}
   ELSE IF v \in Numeric THEN {Junk, -1, 0, 7}
   ELSE IF v \in Flags THEN {Junk, "true", "false"}
   ELSE IF v = "DATABASE_URL"
        THEN {Junk, Postgres, Url("postgresql:", "verify-full", Unset),
              Url("postgresql:", "disable", Unset), Url("postgresql:", Unset, Unset)}
   ELSE IF v \in {"REDIS_URL", "UPSTASH_REDIS_REST_URL"}
        THEN {Junk} \cup {Url(p, Unset, Unset) : p \in {"redis:", "rediss:", "https:"}}
   ELSE IF v = "UPSTASH_REDIS_REST_TOKEN" THEN {"secret"}
   ELSE IF v = "NODE_ENV" THEN {"development", "staging", "production", "test"}
   ELSE IF v = "LOG_LEVEL" THEN {"debug", "info", Junk}
   ELSE IF v = "COOKIE_SAME_SITE" THEN {"lax", "strict", "none", Junk}
   ELSE {"other"})

Connecting == Managed \cup {"NODE_ENV", "DB_SSL", "DB_SSL_REJECT_UNAUTHORIZED",
                            "REDIS_TLS", "REDIS_TLS_REJECT_UNAUTHORIZED"}

Real == {Bare, Example, Render}
One(e, v) == {[e EXCEPT ![v] = x] : x \in Values(v)}
MCEnvironments ==
  (UNION {One(e, v) : e \in Real, v \in Variable})
    \cup UNION {One(e, w) : e \in UNION {One(b, v) : b \in Real, v \in Connecting},
                            w \in Connecting}
=============================================================================
