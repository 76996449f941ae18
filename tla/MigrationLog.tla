---------------------------- MODULE MigrationLog ----------------------------
(***************************************************************************)
(* What `molde apply` promises about one database, without statements,     *)
(* transactions or processes: the __EFMigrationsHistory table and the      *)
(* schema change together.  docs/migrations.md puts it as "each            *)
(* migration's schema change and its history row live and die together".   *)
(*                                                                         *)
(* Migrator, run on an engine with transactional DDL, implements this      *)
(* specification.                                                          *)
(***************************************************************************)
CONSTANTS
    Id,        \* the migration ids
    Falls      \* Falls[m]: the migrations whose schema change is undone when
               \* m's is (dropping a table takes its later columns with it)

VARIABLES
    log,       \* the ids recorded in the history table
    inForce    \* the ids whose whole schema change is in the database

logVars == <<log, inForce>>

LogTypeOK ==
    /\ log \subseteq Id
    /\ inForce \subseteq Id

LogInit ==
    /\ log = {}
    /\ inForce = {}

(* A migration is recorded and takes effect in one step, and only once. *)
Apply(m) ==
    /\ m \notin log
    /\ log' = log \cup {m}
    /\ inForce' = inForce \cup {m}

(* A migration is forgotten and undone in one step. *)
Revert(m) ==
    /\ m \in log
    /\ log' = log \ {m}
    /\ inForce' = inForce \ Falls[m]

LogNext == \E m \in Id : Apply(m) \/ Revert(m)

LogSpec == LogInit /\ [][LogNext]_logVars
=============================================================================
