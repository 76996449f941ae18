------------------------------ MODULE Provider ------------------------------
(***************************************************************************)
(* molde-providers: what an operation's SQL does to a database of each     *)
(* engine, and when the engine refuses it.                                 *)
(*                                                                         *)
(* What SQL a generator emits (which operations, with which clauses) is    *)
(* translated from the generators; what an engine answers (a dependency    *)
(* that forbids a drop, a referential action) is external.  A database is  *)
(* a catalog: a model whose lists are sets, with the rows of its tables.   *)
(* Types are assumed to be convertible, new columns to fit old rows, and a *)
(* foreign key's column to have the type of the one it refers to.          *)
(***************************************************************************)
EXTENDS SchemaDiff, FiniteSets

CONSTANT Engine   \* "postgres", "mysql", "sqlserver" or "sqlite"

ASSUME EngineAssumption ==
    Engine \in {"postgres", "mysql", "sqlserver", "sqlite"}

-----------------------------------------------------------------------------
(* What the generators emit *)

(* Functions, triggers and extensions: the others skip_db_object.          *)
DbObjects == Engine = "postgres"
(* SQLite takes foreign keys inside CREATE TABLE only ... *)
InlineForeignKeys == Engine = "sqlite"
(* ... and Postgres alone puts the checks there.                           *)
InlineChecks == Engine = "postgres"

Skipped ==
    (IF DbObjects THEN {}
     ELSE {"ensure_extension", "create_function", "drop_function",
           "create_trigger", "drop_trigger"})
    \cup
    (IF Engine = "sqlite"
     THEN {"alter_column", "add_fk", "drop_fk", "add_check", "drop_check"}
     ELSE {"rebuild_table"})

(* CREATE TABLE: columns and primary key, and what the engine takes inline. *)
NewTable(t) ==
    [name |-> t.name, columns |-> ToSet(t.columns), pk |-> t.pk,
     fks |-> IF InlineForeignKeys THEN ToSet(t.fks) ELSE {},
     checks |-> IF InlineChecks THEN ToSet(t.checks) ELSE {},
     indexes |-> {}, triggers |-> {}, rows |-> {}]

(* Postgres's AlterColumn sets the type (and nullability), not the default. *)
AlteredColumn(old, new) ==
    IF Engine = "postgres" THEN [new EXCEPT !.default = old.default] ELSE new

-----------------------------------------------------------------------------
(* The catalog *)

(* The database a model describes, as far as the engine's provider goes.    *)
CatalogOf(model) ==
    [tables |->
        {[name |-> t.name, columns |-> ToSet(t.columns), pk |-> t.pk,
          fks |-> ToSet(t.fks), checks |-> ToSet(t.checks),
          indexes |-> ToSet(t.indexes),
          triggers |-> IF DbObjects THEN ToSet(t.triggers) ELSE {},
          rows |-> ToSet(t.seed)] : t \in ToSet(model.tables)},
     functions |-> IF DbObjects THEN ToSet(model.functions) ELSE {},
     views |-> ToSet(model.views),
     raw |-> ToSet(model.raw),
     extensions |-> IF DbObjects THEN WantedExtensions(model) ELSE {}]

In(S, n) == \E x \in S : x.name = n
Get(S, n) == CHOOSE x \in S : x.name = n
Less(S, n) == {x \in S : x.name # n}

Put(S, x) == Less(S, x.name) \cup {x}

(* Rows of t that reference row r of table p. *)
References(t, p, r) ==
    {s \in t.rows : \E f \in t.fks :
        /\ f.to = p.name
        /\ f.on \in DOMAIN s
        /\ \E k \in p.pk : s[f.on] = r[k]}

ParentsExist(db, t, row) ==
    \A f \in t.fks :
        f.on \in DOMAIN row =>
            \E p \in db.tables : /\ p.name = f.to
                                 /\ \E r \in p.rows, k \in p.pk :
                                        r[k] = row[f.on]

Cascades(t, p) == \A f \in t.fks : f.to = p.name => f.action = "cascade"

(* A DELETE of rows of p: referencing rows go too if the key cascades, and *)
(* forbid it otherwise (one level of cascade).                              *)
Deletable(db, p, rows) ==
    \A t \in db.tables :
        Cascades(t, p) \/ \A r \in rows : References(t, p, r) = {}

WithoutChildren(db, p, rows) ==
    {[t EXCEPT !.rows = @ \ UNION {References(t, p, r) : r \in rows}] :
        t \in db.tables}

ViewsOf(db, table) == {v \in db.views : v.of.table = table}
ViewsOn(db, table, column) ==
    {v \in ViewsOf(db, table) : v.of.column = column}

-----------------------------------------------------------------------------
(* When the engine accepts a statement *)

(* What forbids dropping column c of t. *)
Pinned(db, t, c) ==
    LET keyed == {f \in t.fks : f.on = c.name}
        indexed == {i \in t.indexes : i.on = c.name} IN
    CASE Engine = "postgres" -> ViewsOn(db, t.name, c.name) # {}
      [] Engine = "mysql" -> keyed # {}
      [] Engine = "sqlserver" ->
            keyed \cup indexed # {} \/ c.name \in t.pk \/ c.default # "none"
      [] Engine = "sqlite" ->
            \/ keyed \cup indexed # {} \/ c.name \in t.pk
            \/ ViewsOn(db, t.name, c.name) # {}

(* A foreign key of t is on column n, or one refers to it. *)
InForeignKey(db, t, n) ==
    \/ \E f \in t.fks : f.on = n
    \/ n \in t.pk /\ \E u \in db.tables : \E f \in u.fks : f.to = t.name

(* Altering a column under what stays on it.  No engine takes another type   *)
(* for one end of a foreign key (Postgres takes some, counted as refused),  *)
(* Postgres none for a column that a view reads, SQL Server none for one    *)
(* with an index or in the primary key; nor does SQL Server take the        *)
(* DEFAULT clause column_def puts there.                                    *)
Alterable(db, t, old, new) ==
    /\ old.type # new.type => ~InForeignKey(db, t, new.name)
    /\ Engine = "postgres" => ViewsOn(db, t.name, new.name) = {}
    /\ Engine = "sqlserver" =>
          /\ old.default = "none" /\ new.default = "none"
          /\ \A i \in t.indexes : i.on # new.name
          /\ new.name \notin t.pk

TableDroppable(db, t) ==
    /\ Engine = "postgres" => ViewsOf(db, t.name) = {}
    /\ IF Engine = "sqlite" THEN Deletable(db, t, t.rows)
       ELSE \A u \in db.tables \ {t} : \A f \in u.fks : f.to # t.name

(* MySQL keeps an index on the columns of every foreign key. *)
IndexDroppable(t, i) ==
    Engine = "mysql" =>
        \A f \in t.fks : f.on = i.on =>
            \E j \in t.indexes \ {i} : j.on = i.on

Accepts(db, op) ==
    LET x == op.arg
        t == Get(db.tables, op.table)
        OnTableThat(P) == In(db.tables, op.table) /\ P
    IN
    \/ op.kind \in Skipped
    \/ CASE op.kind = "create_table" ->
               ~In(db.tables, op.table) /\ ~In(db.views, op.table)
         [] op.kind = "drop_table" -> OnTableThat(TableDroppable(db, t))
         [] op.kind = "add_column" -> OnTableThat(~In(t.columns, x.name))
         [] op.kind = "drop_column" ->
               OnTableThat(/\ In(t.columns, x.name)
                           /\ ~Pinned(db, t, Get(t.columns, x.name)))
         [] op.kind = "alter_column" ->
               OnTableThat(
                 /\ In(t.columns, x.name)
                 /\ Alterable(db, t, Get(t.columns, x.name), x))
         [] op.kind = "add_fk" ->
               OnTableThat(
                 /\ ~In(t.fks, x.name)
                 /\ In(t.columns, x.on)
                 /\ In(db.tables, x.to)
                 /\ \A r \in t.rows : ParentsExist(db, [fks |-> {x}], r))
         [] op.kind = "drop_fk" -> OnTableThat(In(t.fks, x.name))
         [] op.kind = "create_index" ->
               OnTableThat(~In(t.indexes, x.name) /\ In(t.columns, x.on))
         [] op.kind = "drop_index" ->
               OnTableThat(/\ In(t.indexes, x.name)
                           /\ IndexDroppable(t, Get(t.indexes, x.name)))
         [] op.kind = "add_check" -> OnTableThat(~In(t.checks, x.name))
         [] op.kind = "drop_check" -> OnTableThat(In(t.checks, x.name))
         [] op.kind = "create_trigger" ->
               OnTableThat(~In(t.triggers, x.name) /\ In(db.functions, x.calls))
         [] op.kind = "rebuild_table" ->
               OnTableThat(/\ ViewsOf(db, op.table) = {}
                           /\ Deletable(db, t, t.rows))
         [] op.kind = "insert_data" ->
               OnTableThat(
                 /\ t.pk \subseteq DOMAIN x =>
                       \A r \in t.rows : SeedKey(r, t.pk) # SeedKey(x, t.pk)
                 /\ \A c \in DOMAIN x : In(t.columns, c)
                 /\ ParentsExist(db, t, x))
         [] op.kind = "update_data" -> In(db.tables, op.table)
         [] op.kind = "delete_data" ->
               OnTableThat(
                 Deletable(db, t,
                   {r \in t.rows : SeedKey(r, DOMAIN x) = x}))
         [] op.kind = "drop_function" ->
               \A u \in db.tables : \A g \in u.triggers : g.calls # x.name
         [] op.kind = "create_view" ->
               /\ ~In(db.views, x.name) /\ ~In(db.tables, x.name)
               /\ \/ In(db.views, x.of.table)
                  \/ /\ In(db.tables, x.of.table)
                     /\ In(Get(db.tables, x.of.table).columns, x.of.column)
         [] op.kind = "drop_view" ->
               Engine = "postgres" => ViewsOf(db, x.name) = {}
         [] op.kind = "raw_sql" -> ~In(db.raw, x.name)
         [] OTHER -> TRUE

-----------------------------------------------------------------------------
(* What it does then *)

(* Mutant: the rebuilt table keeps the columns it had. *)
RebuiltBeside(t, x) ==
    [NewTable(x.table) EXCEPT
        !.columns = @ \cup t.columns,
        !.indexes = ToSet(x.table.indexes),
        !.rows = {[c \in DOMAIN r \cap x.copy |-> r[c]] : r \in t.rows}]

(* SQLite's rebuild: a new table under a temporary name, the rows copied,   *)
(* the old table dropped, the new one renamed, the indexes created.         *)
Rebuilt(t, x) ==
    [NewTable(x.table) EXCEPT
        !.indexes = ToSet(x.table.indexes),
        !.rows = {[c \in DOMAIN r \cap x.copy |-> r[c]] : r \in t.rows}]

Execute(db, op) ==
    LET x == op.arg
        t == Get(db.tables, op.table)
        Become(u) == [db EXCEPT !.tables = Put(@, u)]
        Matches(key) == {r \in t.rows : SeedKey(r, DOMAIN key) = key}
    IN
    IF op.kind \in Skipped THEN db ELSE
    CASE op.kind = "create_table" -> Become(NewTable(x))
      [] op.kind = "drop_table" ->
            [db EXCEPT !.tables =
                Less(WithoutChildren(db, t, t.rows), t.name)]
      [] op.kind = "add_column" -> Become([t EXCEPT !.columns = Put(@, x)])
      [] op.kind = "drop_column" ->
            Become([t EXCEPT
                !.columns = Less(@, x.name),
                !.fks = {f \in @ : f.on # x.name},
                !.indexes = {i \in @ : i.on # x.name},
                !.rows = {[c \in DOMAIN r \ {x.name} |-> r[c]] : r \in @}])
      [] op.kind = "alter_column" ->
            Become([t EXCEPT !.columns =
                Put(@, AlteredColumn(Get(@, x.name), x))])
      [] op.kind = "add_fk" -> Become([t EXCEPT !.fks = Put(@, x)])
      [] op.kind = "drop_fk" -> Become([t EXCEPT !.fks = Less(@, x.name)])
      [] op.kind = "create_index" -> Become([t EXCEPT !.indexes = Put(@, x)])
      [] op.kind = "drop_index" ->
            Become([t EXCEPT !.indexes = Less(@, x.name)])
      [] op.kind = "add_check" -> Become([t EXCEPT !.checks = Put(@, x)])
      [] op.kind = "drop_check" ->
            Become([t EXCEPT !.checks = Less(@, x.name)])
      [] op.kind = "create_trigger" ->
            Become([t EXCEPT !.triggers = Put(@, x)])
      [] op.kind = "drop_trigger" ->   \* IF EXISTS
            IF In(db.tables, op.table)
            THEN Become([t EXCEPT !.triggers = Less(@, x.name)]) ELSE db
      [] op.kind = "rebuild_table" ->
            [db EXCEPT !.tables =
                Put(WithoutChildren(db, t, t.rows), Rebuilt(t, x))]
      [] op.kind = "insert_data" ->
            Become([t EXCEPT !.rows = @ \cup {x}])
      [] op.kind = "update_data" ->
            Become([t EXCEPT !.rows =
                (@ \ Matches(x.key))
                  \cup {x.values @@ r : r \in Matches(x.key)}])
      [] op.kind = "delete_data" ->
            [db EXCEPT !.tables =
                Put(WithoutChildren(db, t, Matches(x)),
                    [t EXCEPT !.rows = @ \ Matches(x)])]
      [] op.kind = "create_function" ->
            [db EXCEPT !.functions = Put(@, x)]
      [] op.kind = "drop_function" ->
            [db EXCEPT !.functions = Less(@, x.name)]
      [] op.kind = "create_view" -> [db EXCEPT !.views = Put(@, x)]
      [] op.kind = "drop_view" -> [db EXCEPT !.views = Less(@, x.name)]
      [] op.kind = "raw_sql" -> [db EXCEPT !.raw = @ \cup {x}]
      [] op.kind = "ensure_extension" ->
            [db EXCEPT !.extensions = @ \cup {x}]
=============================================================================
