-------------------------------- MODULE Sync --------------------------------
(***************************************************************************)
(* molde-sync behind `molde sync` and `molde up --from-trunk`: reads the    *)
(* structure of a source and of a target database, and brings into the      *)
(* target what it lacks.                                                    *)
(*                                                                         *)
(* A database is a function from the keys of its objects to their           *)
(* definitions, its history rows among them.  It is read by several         *)
(* queries, the source first, and the script computed from the two readings *)
(* is applied after the user has confirmed it: migrations may reach the     *)
(* source, and the developer may work on the target, at any moment.         *)
(***************************************************************************)
EXTENDS Naturals, Sequences, SequencesExt

CONSTANTS
    Starts,      \* the engines and databases to begin with: records
                 \* [engine, source, target]
    Migrations,  \* per engine, the migrations to come: a sequence of databases,
                 \* each with the objects one puts in force, its row included
    OwnWork,     \* per engine, the keys of the objects developers work on
    Needs,       \* per engine and key, the objects its creation refers to
    Own          \* the definition a developer gives to an object

VARIABLES
    engine,      \* engine_for the two connection strings; it never changes
    source,      \* the source database
    target,      \* the target database
    migrated,    \* how many of the Migrations the source has
    pc,          \* where the command is
    queries,     \* the queries of the current reading still to make
    seen,        \* the source as read
    had,         \* the target as read
    script,      \* the set of the statements still to execute
    torn         \* history: the source has changed between two queries, or a
                 \* table appeared in the target between reading and applying

reading == <<queries, seen, had>>
vars == <<engine, source, target, migrated, pc, reading, script, torn>>

-----------------------------------------------------------------------------
(* Databases *)

Nothing == [k \in {} |-> 0]

OfKinds(db, kinds) ==
    [k \in {j \in DOMAIN db : j.kind \in kinds} |-> db[k]]

(* A database in which these objects are new, or are redefined. *)
Over(new, db) ==
    [k \in DOMAIN new \cup DOMAIN db |->
        IF k \in DOMAIN new THEN new[k] ELSE db[k]]

-----------------------------------------------------------------------------
(* The engines *)

(* read_schema: the kinds of objects each query reads.  Those of MySQL and  *)
(* SQLite ask for a table's columns in a query of their own, taken with the *)
(* one that lists the tables.                                               *)
PostgresQueries ==
    <<{"extension"}, {"table", "column"}, {"constraint", "foreign_key"},
      {"index"}, {"function"}, {"trigger"}, {"view"}, {"row"}>>

SqlServerQueries ==
    <<{"table", "column"}, {"constraint", "foreign_key"}, {"index"},
      {"function"}, {"trigger"}, {"view"}, {"row"}>>

SqliteQueries ==
    <<{"table", "column"}, {"index"}, {"trigger"}, {"view"}, {"row"}>>

(* SHOW CREATE TABLE has the indexes. *)
MysqlQueries == <<{"table", "column", "index"}, {"view"}, {"row"}>>

Queries ==
    [postgres |-> PostgresQueries, sqlserver |-> SqlServerQueries,
     sqlite |-> SqliteQueries, mysql |-> MysqlQueries]

(* build_ddl: the order of the script.  Constraints are sorted by their     *)
(* rank, foreign keys last.                                                 *)

(* Mutant: indexes are created with the tables. *)
PostgresSectionsIndexesEarly ==
    <<"extension", "function", "table", "index", "column", "constraint",
      "foreign_key", "trigger", "view", "row">>

PostgresSections ==
    <<"extension", "function", "table", "column", "constraint",
      "foreign_key", "index", "trigger", "view", "row">>

SqlServerSections ==
    <<"table", "column", "constraint", "foreign_key", "index",
      "function", "trigger", "view", "row">>

SqliteSections == <<"table", "column", "index", "trigger", "view", "row">>

(* Mutant: the history comes first. *)
MysqlSectionsRowsFirst == <<"row", "table", "column", "view">>

(* Indexes, constraints, triggers and routines of a table that is there are *)
(* not covered.                                                             *)
MysqlSections == <<"table", "column", "view", "row">>

Sections ==
    [postgres |-> PostgresSections, sqlserver |-> SqlServerSections,
     sqlite |-> SqliteSections, mysql |-> MysqlSections]

(* What a statement does when its object is there already: IF NOT EXISTS    *)
(* skips it, OR REPLACE replaces it, and without either it is an error.     *)
WhenThere(kind) ==
    CASE engine = "postgres" /\ kind \in {"constraint", "foreign_key", "trigger"}
            -> "error"
      [] engine = "postgres" /\ kind \in {"function", "view"} -> "replace"
      [] engine = "mysql" /\ kind = "view" -> "replace"
      [] engine \in {"mysql", "sqlite"} /\ kind = "column" -> "error"
      [] OTHER -> "skip"

(* What a new table's CREATE brings with it. *)
Inline == IF engine = "mysql" THEN {"column", "index"} ELSE {"column"}

(* The kinds diff compares. *)
Compared == ToSet(Sections[engine])

(* apply wraps the script in a transaction, except on MySQL. *)
Transactional == engine # "mysql"

-----------------------------------------------------------------------------
(* The databases there are *)

(* The source's objects once it has n of the migrations. *)
Objects(s, n) ==
    DOMAIN s.source \cup UNION {DOMAIN Migrations[s.engine][i] : i \in 1..n}

TableOf(k) == [kind |-> "table", table |-> k.table, name |-> 0]

(* What the objects of a kind refer to. *)
Refers ==
    [extension |-> {}, table |-> {}, function |-> {}, row |-> {},
     column |-> {"table"}, constraint |-> {"table", "column"},
     foreign_key |-> {"table", "column", "constraint"},
     index |-> {"table", "column", "extension"},
     trigger |-> {"table", "function"}, view |-> {"table", "column"}]

KindsRead(e) == UNION ToSet(Queries[e])

(* In the source is what its objects need, after each migration; columns     *)
(* and indexes, the developers' too, belong to a table; and what is read     *)
(* refers to what is read.                                                  *)
ASSUME SourceAssumption ==
    \A s \in Starts :
        LET e == s.engine
            last == Len(Migrations[e]) IN
        /\ e \in DOMAIN Queries
        /\ last \in Nat /\ DOMAIN Migrations[e] = 1..last
        /\ \A n \in 0..last : \A k \in Objects(s, n) : Needs[e][k] \subseteq Objects(s, n)
        /\ \A k \in Objects(s, last) \cup OwnWork[e] :
              /\ k.kind = "table" => k = TableOf(k)
              /\ k.kind \in {"column", "index"} => TableOf(k) \in Needs[e][k]
              /\ k.kind \in KindsRead(e) =>
                    \A j \in Needs[e][k] :
                       j.kind \in Refers[k.kind] \cap KindsRead(e)

(* A migration has one row, which nothing else brings; where a target has    *)
(* it, it has what it stands for.                                           *)
ASSUME RowAssumption ==
    \A s \in Starts :
        LET e == s.engine IN
        /\ \A i \in DOMAIN Migrations[e] :
              LET made == DOMAIN Migrations[e][i] IN
              \E r \in made :
                 /\ \A k \in made : k.kind = "row" <=> k = r
                 /\ r \notin DOMAIN s.source
                 /\ \A j \in DOMAIN Migrations[e] \ {i} :
                       r \notin DOMAIN Migrations[e][j]
                 /\ r \in DOMAIN s.target =>
                       \A k \in made :
                          k.kind \in ToSet(Sections[e]) => k \in DOMAIN s.target
        /\ \A k \in OwnWork[e] : k.kind # "row"

ASSUME TargetAssumption ==
    \A s \in Starts : \A k \in DOMAIN s.target :
        k.kind \in {"column", "index"} => TableOf(k) \in DOMAIN s.target

-----------------------------------------------------------------------------
(* diff and build_ddl *)

(* Mutant: any difference in definition stops the whole comparison.         *)
AdditionsUnlessConflict(src, tgt) ==
    IF \E k \in DOMAIN src \cap DOMAIN tgt : src[k] # tgt[k] THEN {}
    ELSE {k \in DOMAIN src \ DOMAIN tgt : k.kind \in Compared}

(* Mutant: conflicts are applied as well.                                   *)
AdditionsAndConflicts(src, tgt) ==
    {k \in DOMAIN src : /\ k.kind \in Compared
                        /\ k \in DOMAIN tgt => src[k] # tgt[k]}

(* What the target lacks; what both have and define differently is a        *)
(* conflict, which is reported only.                                        *)
Additions(src, tgt) == {k \in DOMAIN src \ DOMAIN tgt : k.kind \in Compared}

(* Mutant: a new table's columns are left to ADD COLUMN.                    *)
StatementBare(k) == [key |-> k, puts |-> [j \in {k} |-> seen[j]]]

(* A new table comes with its columns, on MySQL with its indexes too. *)
Statement(k) ==
    LET with == {j \in DOMAIN seen : /\ k.kind = "table"
                                     /\ j.table = k.table /\ j.kind \in Inline} IN
    [key |-> k, puts |-> [j \in {k} \cup with |-> seen[j]]]

(* A column of a new table has no statement of its own. *)
Script ==
    LET new == Additions(seen, had)
        inNewTable ==
            {k \in new : k.kind = "column" /\
                \E t \in new : t.kind = "table" /\ t.table = k.table} IN
    {Statement(k) : k \in new \ inNewTable}

Rank(kind) == CHOOSE i \in DOMAIN Sections[engine] : Sections[engine][i] = kind

(* The script's order: by section, in one as the BTreeMaps have the names,   *)
(* which are numbered in their order.                                       *)
Precedes(s, t) ==
    LET j == s.key
        k == t.key IN
    \/ Rank(j.kind) < Rank(k.kind)
    \/ /\ j.kind = k.kind
       /\ j.table < k.table \/ (j.table = k.table /\ j.name < k.name)

First(s, statements) ==
    s \in statements /\ \A t \in statements \ {s} : Precedes(s, t)

-----------------------------------------------------------------------------
(* What a database answers *)

Skips(db, s) == s.key \in DOMAIN db /\ WhenThere(s.key.kind) = "skip"

(* The statements that do something: a script has one per key, so what one  *)
(* of them does when its object is there depends on the database it is run  *)
(* on, not on the statements before it.                                     *)
Effective(statements, db) == {s \in statements : ~Skips(db, s)}

Put(statements) == UNION {DOMAIN s.puts : s \in statements}

Accepts(db, statements) ==
    \A s \in statements :
        LET before == Effective({t \in statements : Precedes(t, s)}, db) IN
        \/ Skips(db, s)
        \/ /\ s.key \in DOMAIN db => WhenThere(s.key.kind) = "replace"
           /\ Needs[engine][s.key] \subseteq DOMAIN db \cup Put(before)

(* What the statements leave, if the database accepts them. *)
Outcome(db, statements) ==
    LET done == Effective(statements, db) IN
    [k \in DOMAIN db \cup Put(done) |->
        IF k \in Put(done) THEN (CHOOSE s \in done : k \in DOMAIN s.puts).puts[k]
        ELSE db[k]]

-----------------------------------------------------------------------------
(* `molde sync` *)

Resting == {"idle", "applied"}

Init ==
    /\ \E s \in Starts : /\ engine = s.engine
                         /\ source = s.source
                         /\ target = s.target
    /\ migrated = 0
    /\ pc = "idle"
    /\ queries = <<>>
    /\ seen = Nothing
    /\ had = Nothing
    /\ script = {}
    /\ torn = FALSE

(* Mutant: the readings of the last run are kept. *)
BeginWithOldReadings ==
    /\ pc \in Resting
    /\ pc' = "source"
    /\ queries' = Queries[engine]
    /\ script' = {}
    /\ UNCHANGED <<engine, source, target, migrated, seen, had, torn>>

Begin ==
    /\ pc \in Resting
    /\ pc' = "source"
    /\ queries' = Queries[engine]
    /\ seen' = Nothing
    /\ had' = Nothing
    /\ script' = {}
    /\ UNCHANGED <<engine, source, target, migrated, torn>>

(* One query; after the last, the target is read. *)
ReadSource ==
    /\ pc = "source"
    /\ seen' = Over(OfKinds(source, Head(queries)), seen)
    /\ IF Len(queries) = 1
       THEN pc' = "target" /\ queries' = Queries[engine]
       ELSE pc' = "source" /\ queries' = Tail(queries)
    /\ UNCHANGED <<engine, source, target, migrated, had, script, torn>>

ReadTarget ==
    /\ pc = "target"
    /\ had' = Over(OfKinds(target, Head(queries)), had)
    /\ queries' = Tail(queries)
    /\ pc' = IF Len(queries) = 1 THEN "compare" ELSE "target"
    /\ UNCHANGED <<engine, source, target, migrated, seen, script, torn>>

(* With nothing to add it returns, whatever the conflicts. *)
UpToDate ==
    /\ pc = "compare"
    /\ Additions(seen, had) = {}
    /\ pc' = "idle"
    /\ UNCHANGED <<engine, source, target, migrated, reading, script, torn>>

Compare ==
    /\ pc = "compare"
    /\ Additions(seen, had) # {}
    /\ script' = Script
    /\ pc' = "confirm"
    /\ UNCHANGED <<engine, source, target, migrated, reading, torn>>

Confirm ==
    /\ pc = "confirm"
    /\ pc' = "apply"
    /\ UNCHANGED <<engine, source, target, migrated, reading, script, torn>>

(* --dry-run, or the user says no. *)
Decline ==
    /\ pc = "confirm"
    /\ pc' = "idle"
    /\ UNCHANGED <<engine, source, target, migrated, reading, script, torn>>

ApplyScript ==
    /\ pc = "apply"
    /\ Transactional
    /\ Accepts(target, script)
    /\ target' = Outcome(target, script)
    /\ pc' = "applied"
    /\ UNCHANGED <<engine, source, migrated, reading, script, torn>>

ScriptFails ==
    /\ pc = "apply"
    /\ Transactional
    /\ ~Accepts(target, script)
    /\ pc' = "idle"
    /\ UNCHANGED <<engine, source, target, migrated, reading, script, torn>>

(* MySQL: every statement commits. *)
ApplyStatement ==
    /\ pc = "apply"
    /\ ~Transactional
    /\ \E s \in script :
          /\ First(s, script)
          /\ Accepts(target, {s})
          /\ target' = Outcome(target, {s})
          /\ script' = script \ {s}
    /\ pc' = IF script' = {} THEN "applied" ELSE "apply"
    /\ UNCHANGED <<engine, source, migrated, reading, torn>>

StatementFails ==
    /\ pc = "apply"
    /\ ~Transactional
    /\ \E s \in script : First(s, script) /\ ~Accepts(target, {s})
    /\ pc' = "idle"
    /\ UNCHANGED <<engine, source, target, migrated, reading, script, torn>>

(* A connection is lost, or the process dies. *)
Fault ==
    /\ pc \notin Resting
    /\ pc' = "idle"
    /\ UNCHANGED <<engine, source, target, migrated, reading, script, torn>>

-----------------------------------------------------------------------------
(* The others *)

(* `molde apply` brings the next migration to the source, and its row.      *)
MigrateSource ==
    /\ migrated < Len(Migrations[engine])
    /\ migrated' = migrated + 1
    /\ source' = Over(Migrations[engine][migrated + 1], source)
    /\ torn' = (torn \/ (pc = "source" /\ queries # Queries[engine]))
    /\ UNCHANGED <<engine, target, pc, reading, script>>

(* The developer creates an object in the target, or changes one. *)
WorkLocally ==
    /\ \E k \in OwnWork[engine] :
        /\ Needs[engine][k] \subseteq DOMAIN target
        /\ k \in DOMAIN target => target[k] # Own
        /\ target' = Over([j \in {k} |-> Own], target)
        /\ torn' = (torn \/ (k.kind = "table" /\ pc \notin Resting))
    /\ UNCHANGED <<engine, source, migrated, pc, reading, script>>

SyncStep ==
    \/ ReadSource
    \/ ReadTarget
    \/ UpToDate
    \/ Compare
    \/ Confirm
    \/ ApplyScript
    \/ ScriptFails
    \/ ApplyStatement
    \/ StatementFails

Next ==
    \/ Begin
    \/ SyncStep
    \/ Decline
    \/ Fault
    \/ MigrateSource
    \/ WorkLocally

Spec == Init /\ [][Next]_vars

(* A command that was started keeps running; the user's answer is part of   *)
(* it.                                                                      *)
FairSpec == Spec /\ WF_vars(SyncStep)

-----------------------------------------------------------------------------
(* Properties *)

(* The state's types; a reading holds what its queries so far have asked    *)
(* for, and nothing of an earlier run.                                      *)
Asked(kind) == kind \in UNION ToSet(queries)

TypeOK ==
    /\ engine \in DOMAIN Queries
    /\ migrated \in 0..Len(Migrations[engine])
    /\ pc \in Resting \cup {"source", "target", "compare", "confirm", "apply"}
    /\ pc = "source" => /\ had = Nothing
                        /\ \A k \in DOMAIN seen : ~Asked(k.kind)
    /\ pc = "target" => \A k \in DOMAIN had : ~Asked(k.kind)
    /\ pc = "apply" => script # {}
    /\ torn \in BOOLEAN

(* Sync is additive: it drops nothing that is in the target when the script *)
(* runs, and redefines nothing that was there when the target was read.     *)
Additive ==
    [][ApplyScript \/ ApplyStatement =>
        \A k \in DOMAIN target : /\ k \in DOMAIN target'
                                 /\ k \in DOMAIN had => target'[k] = target[k]]_vars

(* A script never fails on the target it was computed for: what a statement *)
(* refers to is there or was created before it.                             *)
ScriptAccepted ==
    [][ScriptFails =>
        torn \/ OfKinds(target, UNION ToSet(Queries[engine])) # had]_vars

(* Once the script has run, the target has every object that was read from  *)
(* the source and is compared, also if the target changed in between.       *)
Delivered ==
    pc = "applied" /\ ~torn => DOMAIN OfKinds(seen, Compared) \subseteq DOMAIN target

(* History rows come last, and only with what they stand for, also where    *)
(* every statement commits and the script may stop half-way (MySQL): a row  *)
(* of the source's is in the target only together with its migration's       *)
(* objects of the kinds that are compared (in the target's own definition if *)
(* there was a conflict), since no `molde apply` would create them later.   *)
RowsHold ==
    ~torn =>
        \A i \in DOMAIN Migrations[engine] :
            LET made == DOMAIN Migrations[engine][i] IN
            (\E k \in made : k.kind = "row" /\ k \in DOMAIN target)
                => \A k \in made :
                      k.kind \in Compared => k \in DOMAIN target

(* Whatever went wrong (a torn reading, a script cut off, a collision with  *)
(* local work), running sync again brings in what is missing.               *)
Heals ==
    (/\ <>[][Fault \/ Decline => SyncStep]_vars
     /\ []<><<Begin>>_vars)
        => <>[](DOMAIN OfKinds(source, Compared) \subseteq DOMAIN target)
=============================================================================
