------------------------------- MODULE Config -------------------------------
(***************************************************************************)
(* The environment variables of cmd/server/config/config.go and of         *)
(* internal/orders/reliability_config.go, and what their loaders accept.   *)
(* A value is known by how it parses: not at all, or as a negative number, *)
(* as zero or "false", or as something of the kind that is wanted: a       *)
(* positive number, "true", a URL, or the name of a file that loads.       *)
(***************************************************************************)

Raw == {"unset", "junk", "negative", "zero", "good"}

RedisOptional ==
  {"REDIS_DIAL_TIMEOUT", "REDIS_READ_TIMEOUT", "REDIS_WRITE_TIMEOUT",
   "REDIS_POOL_SIZE", "REDIS_MIN_IDLE_CONNS", "REDIS_MAX_RETRIES"}

RedisRequired ==
  {"REDIS_HEALTHCHECK_TIMEOUT", "REDIS_LOCATION_TTL", "REDIS_STREAM_MAXLEN"}

TLSFiles ==
  {"REDIS_TLS_CA_FILE", "REDIS_TLS_CERT_FILE", "REDIS_TLS_KEY_FILE"}

Flags == {"REDIS_OTEL", "REDIS_TLS_INSECURE_SKIP_VERIFY"}

Reliability ==
  {"ORDER_RETRY_MAX_ATTEMPTS", "ORDER_RETRY_BASE_DELAY", "ORDER_RETRY_MAX_DELAY",
   "ORDER_BREAKER_MAX_FAILURES", "ORDER_BREAKER_RESET_TIMEOUT",
   "ORDER_RATE_LIMIT_INTERVAL", "ORDER_RATE_LIMIT_BURST"}

GRPC == {"GRPC_RATE_LIMIT_INTERVAL", "GRPC_RATE_LIMIT_BURST"}

RequiredStrings == {"REDIS_URL", "DATABASE_URL", "OBS_ADDR"}

RequiredNumbers == RedisRequired \cup Reliability \cup GRPC

Names == RedisOptional \cup TLSFiles \cup Flags \cup RequiredStrings \cup RequiredNumbers

Environment == [Names -> Raw]

-----------------------------------------------------------------------------
(***************************************************************************)
(* The parsers: TRUE where they return no error.                           *)
(***************************************************************************)
RequiredString(v) == v # "unset"

RequiredNumber(v) == v \in {"zero", "good"}

OptionalNumber(v) == v = "unset" \/ RequiredNumber(v)

OptionalBool(v) == v \in {"unset", "zero", "good"}

OptionalFile(v) == v \in {"unset", "good"}

\* Mutant: without a CA the other TLS variables are not looked at.
LoadTLSOfCAOnly(env) ==
  env["REDIS_TLS_CA_FILE"] # "unset" =>
    /\ env["REDIS_TLS_CERT_FILE"] = "unset" <=> env["REDIS_TLS_KEY_FILE"] = "unset"
    /\ OptionalBool(env["REDIS_TLS_INSECURE_SKIP_VERIFY"])
    /\ \A n \in TLSFiles : OptionalFile(env[n])

\* loadRedisTLSFromEnv; with nothing set it is trivially content.
LoadTLS(env) ==
  /\ env["REDIS_TLS_CERT_FILE"] = "unset" <=> env["REDIS_TLS_KEY_FILE"] = "unset"
  /\ OptionalBool(env["REDIS_TLS_INSECURE_SKIP_VERIFY"])
  /\ \A n \in TLSFiles : OptionalFile(env[n])

LoadRedis(env) ==
  /\ RequiredString(env["REDIS_URL"])
  /\ \A n \in RedisOptional : OptionalNumber(env[n])
  /\ \A n \in RedisRequired : RequiredNumber(env[n])
  /\ OptionalBool(env["REDIS_OTEL"])
  /\ LoadTLS(env)

LoadReliability(env) == \A n \in Reliability : RequiredNumber(env[n])

LoadGRPC(env) == \A n \in GRPC : RequiredNumber(env[n])

LoadObservability(env) == RequiredString(env["OBS_ADDR"])
=============================================================================
