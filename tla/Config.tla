------------------------------- MODULE Config -------------------------------
(***************************************************************************)
(* internal/config: which environments let the process start, and on which *)
(* database.  A variable is unset, bad (it does not parse) or good; a key  *)
(* file is absent, bad or good.  Variables that have a default only        *)
(* (RabbitMQ, CORS, the SQLite path) cannot stop a start and are left out. *)
(***************************************************************************)

Values == {"unset", "bad", "good"}

\* Read as text, so never bad, and read as numbers.
AppTexts == {"APP_ENV", "LOG_LEVEL", "APP_BASE_URL"}
MailTexts == {"SMTP_HOST", "SMTP_USER", "SMTP_APP_PASSWORD", "SMTP_FROM"}
PsqlTexts == {"PSQL_HOST", "PSQL_USER", "PSQL_PASSWORD", "PSQL_DATABASE"}

\* What Load reads; the set names the texts that are set.
Environment ==
    [texts : SUBSET (AppTexts \cup MailTexts \cup PsqlTexts),
     smtpPort : Values, psqlPort : Values,
     driver : {"unset", "postgres", "sqlite", "other"}]

getEnv(env, names) == names \subseteq env.texts

LoadMailerConfig(env) == getEnv(env, MailTexts)

\* Every variable is looked at, and one that is missing spoils the whole.
PostgresConfLoader(env) == getEnv(env, PsqlTexts) /\ env.psqlPort = "good"

\* The driver, or "error" for an unknown one.
LoadDBconfigs(env) ==
    CASE env.driver = "postgres" -> IF PostgresConfLoader(env) THEN "postgres" ELSE "sqlite"
      [] env.driver \in {"unset", "sqlite"} -> "sqlite"
      [] OTHER -> "error"

Load(env) ==
    /\ getEnv(env, AppTexts)
    /\ env.smtpPort = "good"
    /\ LoadMailerConfig(env)
    /\ LoadDBconfigs(env) # "error"

\* The places a key may be, by precedence: the path in its variable, the secret,
\* the default path.
KeyFiles == [path : Values, secret : Values, default : Values]

getFilePath(f) ==
    IF f.path # "unset" THEN "path" ELSE IF f.secret # "unset" THEN "secret" ELSE "default"

LoadKey(f) == f[getFilePath(f)] = "good"

RedisEnvironment == [addr : {"unset", "good"}, protocol : Values, db : Values]

LoadRedisConfig(env) == \A v \in DOMAIN env : env[v] = "good"
=============================================================================
