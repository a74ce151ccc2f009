---------------------------------- MODULE Config -------------------------------
(***************************************************************************)
(* The configuration: Load and Validate of internal/config/config.go, and  *)
(* what the constructors that main.go hands its parts to check of it again *)
(* (logging.New, obs.New, storage.Open, auth.NewService, devsmartcar.New,  *)
(* smartcar.NewClient).                                                    *)
(*                                                                         *)
(* An option's text is told by what the code tells of it: "malformed" does *)
(* not parse, "bad" parses and is not allowed, "good" is; a ratio may be   *)
(* the number that is none ("nan").  The environment and the arguments are *)
(* maps from the options they give to texts; print and help are the two    *)
(* flags without an environment variable.                                  *)
(***************************************************************************)
EXTENDS Integers

Durations == {"auth_session_ttl", "smartcar_timeout", "read_header_timeout", "read_timeout",
              "write_timeout", "idle_timeout", "shutdown_timeout", "otel_timeout"}
Ints      == {"smartcar_max_retries", "log_max_size_mb", "log_max_backups",
              "log_max_age_days", "postgres_port"}
Bools     == {"dev_mode", "log_compress", "log_add_stdout", "sqlite_wipe_on_start",
              "postgres_migrate_on_start", "otel_enabled", "otel_insecure"}
Parsed    == Durations \cup Ints \cup Bools \cup {"otel_sample_ratio"}

Credentials == {"smartcar_client_id", "smartcar_client_secret", "smartcar_user_id"}
BaseURLs    == {"smartcar_iam_base_url", "smartcar_vehicle_base_url"}
Enums       == {"smartcar_unit_system", "dev_scenario", "log_level", "postgres_ssl_mode"}
PostgresTexts == {"postgres_host", "postgres_user", "postgres_database"}
CertFiles   == {"otel_client_cert_file", "otel_client_key_file"}

Option == Parsed \cup Credentials \cup BaseURLs \cup Enums \cup PostgresTexts \cup CertFiles
          \cup {"smartcar_vehicle_ids", "smartcar_signal_codes", "addr", "log_file",
                "storage_driver", "sqlite_path", "postgres_password", "otel_service_name",
                "otel_service_version", "otel_endpoint", "otel_ca_file", "otel_server_name"}

\* The texts an option may be given.
TextsOf(o) == {"empty", "spaces"} \cup
    CASE o \in Bools                     -> {"malformed", "true", "false"}
      [] o \in Durations \cup Ints       -> {"malformed", "bad", "good"}
      [] o = "otel_sample_ratio"         -> {"malformed", "bad", "good", "nan"}
      [] o \in BaseURLs                  -> {"malformed", "bad", "good"}
      [] o = "addr"                      -> {"bad", "good"}
      [] o \in Enums                     -> {"bad", "good"}
      [] o = "smartcar_signal_codes"     -> {"bad", "good"}   \* "bad": only commas
      [] o = "storage_driver"            -> {"bad", "sqlite", "postgres"}
      [] o = "sqlite_path"               -> {"memory", "good"}
      [] OTHER                           -> {"good"}

Value == {"empty", "spaces", "malformed", "bad", "good", "nan", "true", "false",
          "sqlite", "postgres", "memory"}

\* What is given at the start of the process.
IsGiven(g) ==
    /\ DOMAIN g.env \subseteq Option /\ DOMAIN g.flags \subseteq Option
    /\ \A o \in DOMAIN g.env : g.env[o] \in TextsOf(o)
    /\ \A o \in DOMAIN g.flags : g.flags[o] \in TextsOf(o)
    /\ g.print \in BOOLEAN /\ g.help \in BOOLEAN

NothingGiven == [env |-> <<>>, flags |-> <<>>, print |-> FALSE, help |-> FALSE]

\* Config{}
ZeroConfig == [o \in Option |-> "empty"]

--------------------------------------------------------------------------------
(* Load *)

Default == [o \in Option |->
    CASE o \in {"log_compress", "postgres_migrate_on_start", "otel_insecure"} -> "true"
      [] o \in Bools -> "false"
      [] o \in Credentials \cup PostgresTexts \cup CertFiles
               \cup {"smartcar_vehicle_ids", "storage_driver", "postgres_password",
                     "otel_ca_file", "otel_server_name"} -> "empty"
      [] OTHER -> "good"]

TrimSpace(text) == IF text = "spaces" THEN "empty" ELSE text

EnvOrDefault(env, o, fallback) == IF o \in DOMAIN env THEN TrimSpace(env[o]) ELSE fallback

\* A variable that is set but blank is an empty text, where a text is asked for, and
\* the default where a number, a duration or a truth value is.
FromEnv(env, o) ==
    IF o \in Parsed /\ EnvOrDefault(env, o, "empty") = "empty"
    THEN Default[o]
    ELSE EnvOrDefault(env, o, Default[o])

EnvParses(env) == \A o \in Parsed : FromEnv(env, o) # "malformed"

FlagsParse(flags) ==
    \A o \in DOMAIN flags \cap Parsed : flags[o] \notin {"malformed", "empty", "spaces"}

\* (slip: the environment overrides the flags)
SettingEnvFirst(g, o) ==
    IF o \in DOMAIN g.env \/ o \notin DOMAIN g.flags THEN FromEnv(g.env, o) ELSE g.flags[o]

\* A flag replaces what the environment says, and its text is not trimmed.
Setting(g, o) == IF o \in DOMAIN g.flags THEN g.flags[o] ELSE FromEnv(g.env, o)

\* The calls after fs.Parse: parseCSV and the three normalisations.
Normalized(o, text) ==
    CASE o = "smartcar_signal_codes" -> IF text = "good" THEN "good" ELSE "empty"
      [] o = "dev_scenario" -> IF TrimSpace(text) = "empty" THEN Default[o] ELSE text
      [] o \in {"storage_driver", "postgres_ssl_mode"} -> TrimSpace(text)
      [] OTHER -> text

ConfigOf(g) == [o \in Option |-> Normalized(o, Setting(g, o))]

--------------------------------------------------------------------------------
(* Validate: the order of its checks only decides which of them is reported *)

NonEmpty(c, opts) == \A o \in opts : c[o] # "empty"
AllGood(c, opts)  == \A o \in opts : c[o] = "good"

ValidStorage(c) ==
    \/ c["storage_driver"] = "sqlite" /\ TrimSpace(c["sqlite_path"]) # "empty"
    \/ /\ c["storage_driver"] = "postgres"
       /\ \A o \in PostgresTexts : TrimSpace(c[o]) # "empty"
       /\ NonEmpty(c, {"postgres_password"})
       /\ AllGood(c, {"postgres_port", "postgres_ssl_mode"})

\* Below zero or above one; neither is true of "nan".
RatioRefused(c) == c["otel_sample_ratio"] = "bad"

CertWithoutKey(c) ==
    (c["otel_client_cert_file"] = "empty") # (c["otel_client_key_file"] = "empty")

\* (slip: the scenario is left to devsmartcar.New)
ValidateNoScenario(c) ==
    /\ c["dev_mode"] # "true" => NonEmpty(c, Credentials)
    /\ AllGood(c, Durations \cup BaseURLs \cup (Ints \ {"postgres_port"}))
    /\ AllGood(c, {"smartcar_signal_codes", "smartcar_unit_system", "addr", "log_level"})
    /\ NonEmpty(c, {"log_file", "otel_service_name", "otel_service_version"})
    /\ ValidStorage(c)
    /\ ~RatioRefused(c) /\ ~CertWithoutKey(c)

Validate(c) ==
    /\ IF c["dev_mode"] = "true" THEN AllGood(c, {"dev_scenario"}) ELSE NonEmpty(c, Credentials)
    /\ AllGood(c, Durations \cup BaseURLs \cup (Ints \ {"postgres_port"}))
    /\ AllGood(c, {"smartcar_signal_codes", "smartcar_unit_system", "addr", "log_level"})
    /\ NonEmpty(c, {"log_file", "otel_service_name", "otel_service_version"})
    /\ ValidStorage(c)
    /\ ~RatioRefused(c) /\ ~CertWithoutKey(c)

\* RedactedJSON: encoding/json has no number for "nan".
Printable(c) == c["otel_sample_ratio"] # "nan"

--------------------------------------------------------------------------------
(* What the constructors check again *)

LogAccepts(c) == c["log_level"] \in {"good", "empty"}

ObserverAccepts(c) ==
    c["otel_enabled"] = "true" /\ c["otel_insecure"] # "true" => ~CertWithoutKey(c)

StorageAccepts(c) == c["storage_driver"] \in {"sqlite", "postgres"}

AuthAccepts(c) == c["auth_session_ttl"] = "good"

SmartcarAPIAccepts(c) ==
    IF c["dev_mode"] = "true"
    THEN Normalized("dev_scenario", c["dev_scenario"]) = "good"
    ELSE \A o \in BaseURLs : c[o] # "malformed"

\* What NewSQLite and run do with it.
WipesDatabase(c) ==
    /\ c["storage_driver"] = "sqlite"
    /\ c["sqlite_wipe_on_start"] = "true"
    /\ TrimSpace(c["sqlite_path"]) \notin {"empty", "memory"}

ShouldMigrate(c) ==
    \/ c["storage_driver"] = "sqlite"
    \/ c["storage_driver"] = "postgres" /\ c["postgres_migrate_on_start"] = "true"
================================================================================
