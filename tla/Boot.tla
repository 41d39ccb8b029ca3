---- MODULE Boot ----
(***************************************************************************)
(* server.py and config.py: what _ServerState.boot makes of the process    *)
(* environment.  Each value of dir is a kind of QVW_DIR, each value of     *)
(* level a kind of MCP_QVW_LOG_LEVEL.                                      *)
(***************************************************************************)
EXTENDS Integers

CONSTANTS DefaultLimit, Limits

Environments ==
    [dir : {"unset", "absent", "file", "directory", "unreadable", "loop", "no_home"},
     numbers : {"good", "bad"},
     level : {"level", "unknown", "other_attribute"},
     limit : Limits]

VARIABLES
    env,
    config,     \* the Config, or no value
    error,      \* config_error's code, or "none"
    limit,      \* the store's max_file_size_bytes
    booting     \* "config", "store", "level", "served", "crashed"

bootVars == <<env, config, error, limit, booting>>

BInit ==
    /\ env \in Environments
    /\ config = {} /\ error = "none" /\ limit = DefaultLimit
    /\ booting = "config"

\* What Config() may raise.  The directory is validated first, and pydantic
\* turns only ValueError into ValidationError.  Before Python 3.13 resolving a
\* loop of links raises RuntimeError, since then the loop does not exist.
Raised ==
    CASE env.dir = "no_home" -> {"RuntimeError"}
      [] env.dir = "loop" -> {"RuntimeError", "ValidationError"}
      [] env.dir = "unreadable" -> {"OSError"}
      [] env.dir \in {"unset", "absent", "file"} \/ env.numbers = "bad" -> {"ValidationError"}
      [] OTHER -> {}

Configure ==
    /\ booting = "config" /\ Raised = {}
    /\ config' = {env} /\ error' = "none"
    /\ booting' = "store"
    /\ UNCHANGED <<env, limit>>

WireStore_default ==
    /\ booting = "store"
    /\ limit' = DefaultLimit
    /\ booting' = "level"
    /\ UNCHANGED <<env, config, error>>
WireStore ==
    /\ booting = "store"
    /\ limit' = env.limit
    /\ booting' = "level"
    /\ UNCHANGED <<env, config, error>>

\* An unknown name stands for INFO, but logging.BASIC_FORMAT is no level.
SetLevel ==
    /\ booting = "level"
    /\ booting' = IF env.level = "other_attribute" THEN "crashed" ELSE "served"
    /\ UNCHANGED <<env, config, error, limit>>

Degrade ==
    /\ booting = "config" /\ Raised # {}
    /\ \E exc \in Raised :
        /\ config' = {}
        /\ error' = CASE exc = "ValidationError" -> "qvw_dir_missing"
                      [] exc = "OSError" -> "qvw_dir_unreadable"
                      [] OTHER -> error
        /\ booting' = IF exc = "RuntimeError" THEN "crashed" ELSE "served"
    /\ UNCHANGED <<env, limit>>

BNext == Configure \/ WireStore \/ SetLevel \/ Degrade
BSpec == BInit /\ [][BNext]_bootVars

----------------------------------------------------------------------------
\* A server that serves has a configuration or names the error, never both;
\* its store and its handlers have one limit; and of all environments only a
\* home directory that is not known, a loop of links or a log level that is no
\* level keeps the server from starting.
BootDecides ==
    /\ booting = "served" =>
        /\ (config # {}) <=> (error = "none")
        /\ config # {} => env.dir = "directory" /\ env.numbers = "good" /\ limit = env.limit
    /\ booting = "crashed" => env.dir \in {"no_home", "loop"} \/ env.level = "other_attribute"
====
