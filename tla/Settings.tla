------------------------------- MODULE Settings -------------------------------
(***************************************************************************)
(* What the process makes of its environment variables                     *)
(* (backend/internal/config).  Texts are told apart only as far as the     *)
(* code does: a key is its length, a driver is in lower case already, and  *)
(* durations are in seconds.                                               *)
(***************************************************************************)
EXTENDS Integers

CONSTANTS
    Blank,       \* a value of blanks only
    NotANumber   \* a value the parser of numbers or durations refuses

ASSUME SettingsAssumption == Blank \notin Int /\ NotANumber \notin Int /\ Blank # NotANumber

Timeouts == {"STARTUP_TIMEOUT", "SHUTDOWN_TIMEOUT", "READ_HEADER_TIMEOUT",
             "READ_TIMEOUT", "WRITE_TIMEOUT", "IDLE_TIMEOUT"}
Numbers == Timeouts \cup {"TOKEN_TTL", "REQUEST_LIMIT"}
Texts == {"APP_NAME", "PORT", "DATABASE_DRIVER", "REDIS_ADDR"}

\* The environments a process can be started in: some variables are set.
IsEnvironment(env) ==
    /\ DOMAIN env \subseteq Numbers \cup Texts \cup {"JWT_SECRET"}
    /\ \A name \in DOMAIN env \cap Numbers : env[name] \in Int \cup {Blank, NotANumber}
    /\ \A name \in DOMAIN env \cap Texts : env[name] \in STRING \cup {Blank}
    /\ \A name \in DOMAIN env \cap {"JWT_SECRET"} : env[name] \in Nat \cup {Blank}

\* A variable that is not set, or blank, has its default.
Text(env, name, fallback) ==
    IF name \in DOMAIN env /\ env[name] # Blank THEN env[name] ELSE fallback

\* Variant: any number is taken.
AnyNumber(env, name, fallback) ==
    IF Text(env, name, Blank) \in Int THEN Text(env, name, Blank) ELSE fallback

\* So does a number that cannot be read or is not positive.
PositiveNumber(env, name, fallback) ==
    IF Text(env, name, Blank) \in Int /\ Text(env, name, Blank) > 0
    THEN Text(env, name, Blank) ELSE fallback

DefaultTimeout == [name \in Timeouts |->
    CASE name = "STARTUP_TIMEOUT"     -> 35
      [] name = "SHUTDOWN_TIMEOUT"    -> 10
      [] name = "READ_HEADER_TIMEOUT" -> 5
      [] name = "READ_TIMEOUT"        -> 15
      [] name = "WRITE_TIMEOUT"       -> 20
      [] name = "IDLE_TIMEOUT"        -> 60]

Load(env) ==
    [appName  |-> Text(env, "APP_NAME", "solar-inverter-incident-control"),
     port     |-> Text(env, "PORT", "8080"),
     driver   |-> Text(env, "DATABASE_DRIVER", "postgres"),
     redis    |-> Text(env, "REDIS_ADDR", "") # "",
     key      |-> Text(env, "JWT_SECRET", 26),
     ttl      |-> PositiveNumber(env, "TOKEN_TTL", 8 * 60 * 60),
     limit    |-> PositiveNumber(env, "REQUEST_LIMIT", 180),
     timeouts |-> [name \in Timeouts |-> PositiveNumber(env, name, DefaultTimeout[name])]]

\* The life of tokens is the one number that is not validated.
Valid(cfg) ==
    /\ cfg.driver \in {"postgres", "mysql", "sqlite"}
    /\ cfg.appName # Blank /\ cfg.port # Blank
    /\ cfg.key >= 16
    /\ cfg.limit >= 10 /\ cfg.limit <= 100000
    /\ \A name \in Timeouts : cfg.timeouts[name] > 0
=============================================================================
