-------------------------------- MODULE Reader --------------------------------
(***************************************************************************)
(* molde-scaffold: the catalog of a database, read in several queries, into *)
(* a model and into .model files.                                           *)
(*                                                                         *)
(* A catalog is what an engine keeps of a model: tables as in Lang, with    *)
(* columns [name, store, nullable, identity, default], "store" a type       *)
(* [base, len]; functions, views [name, sql] and extensions.  Computed      *)
(* columns, collations, precisions and full-text indexes are left out, and  *)
(* SQL is what the engine prints back.                                      *)
(***************************************************************************)
EXTENDS SchemaDiff, Lang

-----------------------------------------------------------------------------
(* store_type_for: what each engine stores a logical type as *)

Of(base) == [base |-> base, len |-> 0]
Unmapped == Of("")

Stores ==
    [postgres |->
        "Byte[]" :> Of("bytea") @@
        [Int16 |-> Of("smallint"), Int32 |-> Of("integer"),
         Int64 |-> Of("bigint"), Boolean |-> Of("boolean"),
         Single |-> Of("real"), Double |-> Of("double precision"),
         Decimal |-> Of("numeric"), Guid |-> Of("uuid"),
         DateTime |-> Of("timestamp without time zone"),
         DateTimeOffset |-> Of("timestamp with time zone"),
         DateOnly |-> Of("date"), TimeOnly |-> Of("time without time zone"),
         String |-> Of("text")],
     mysql |->
        "Byte[]" :> Of("longblob") @@
        [Int16 |-> Of("smallint"), Int32 |-> Of("int"),
         Int64 |-> Of("bigint"), Boolean |-> [base |-> "tinyint", len |-> 1],
         Single |-> Of("float"), Double |-> Of("double"),
         Decimal |-> Of("decimal"), Guid |-> [base |-> "char", len |-> 36],
         DateTime |-> Of("datetime"), DateTimeOffset |-> Of("datetime"),
         DateOnly |-> Of("date"), TimeOnly |-> Of("time"),
         String |-> Of("longtext")],
     sqlserver |->
        "Byte[]" :> Of("varbinary") @@
        [Int16 |-> Of("smallint"), Int32 |-> Of("int"),
         Int64 |-> Of("bigint"), Boolean |-> Of("bit"),
         Single |-> Of("real"), Double |-> Of("float"),
         Decimal |-> Of("decimal"), Guid |-> Of("uniqueidentifier"),
         DateTime |-> Of("datetime2"), DateTimeOffset |-> Of("datetimeoffset"),
         DateOnly |-> Of("date"), TimeOnly |-> Of("time"),
         String |-> Of("nvarchar")],
     sqlite |->
        "Byte[]" :> Of("BLOB") @@
        [clr \in {"Int16", "Int32", "Int64", "Boolean"} |-> Of("INTEGER")] @@
        [clr \in {"Single", "Double"} |-> Of("REAL")] @@
        [clr \in {"Decimal", "DateTime", "DateTimeOffset", "DateOnly",
                  "TimeOnly", "Guid", "String"} |-> Of("TEXT")]]

Varchar ==
    [postgres |-> "character varying", mysql |-> "varchar",
     sqlserver |-> "nvarchar"]

StoreTypeFor(engine, clr, maxlen) ==
    IF clr = "String" /\ maxlen > 0 /\ engine \in DOMAIN Varchar
    THEN [base |-> Varchar[engine], len |-> maxlen]
    ELSE Get(Stores[engine], clr, Unmapped)

-----------------------------------------------------------------------------
(* sqlite_clr, pg_clr, mysql_clr and ss_clr: the way back, String for the    *)
(* types that are not listed *)

Clrs ==
    [postgres |->
        "double precision" :> "Double" @@ "bytea" :> "Byte[]" @@
        "timestamp without time zone" :> "DateTime" @@
        "timestamp with time zone" :> "DateTimeOffset" @@
        "time without time zone" :> "TimeOnly" @@
        [smallint |-> "Int16", integer |-> "Int32", bigint |-> "Int64",
         boolean |-> "Boolean", real |-> "Single", numeric |-> "Decimal",
         money |-> "Decimal", uuid |-> "Guid", date |-> "DateOnly",
         tsvector |-> "NpgsqlTsVector", vector |-> "Vector"],
     mysql |->
        [tinyint |-> "Boolean", bit |-> "Boolean", smallint |-> "Int16",
         int |-> "Int32", mediumint |-> "Int32", bigint |-> "Int64",
         float |-> "Single", double |-> "Double", decimal |-> "Decimal"] @@
        [t \in {"datetime", "timestamp", "date", "time", "year"} |->
            "DateTime"] @@
        [t \in {"blob", "longblob", "mediumblob", "tinyblob", "binary",
                "varbinary"} |-> "Byte[]"],
     sqlserver |->
        [int |-> "Int32", bigint |-> "Int64", smallint |-> "Int16",
         tinyint |-> "Byte", bit |-> "Boolean", real |-> "Single",
         float |-> "Double", uniqueidentifier |-> "Guid",
         datetimeoffset |-> "DateTimeOffset"] @@
        [t \in {"decimal", "numeric", "money", "smallmoney"} |->
            "Decimal"] @@
        [t \in {"datetime", "datetime2", "smalldatetime", "date", "time"} |->
            "DateTime"] @@
        [t \in {"varbinary", "binary", "image", "rowversion", "timestamp"} |->
            "Byte[]"],
     sqlite |->    \* by affinity: INT, then CHAR/CLOB/TEXT, then BLOB, REAL
        "" :> "Byte[]" @@
        [INTEGER |-> "Int64", INT |-> "Int64", BIGINT |-> "Int64",
         BLOB |-> "Byte[]", REAL |-> "Double", DOUBLE |-> "Double",
         FLOAT |-> "Double"]]

(* The lengths the reader keeps. *)
Sized ==
    [postgres |-> {"character varying", "character"},
     mysql |-> {"varchar", "char", "varbinary", "binary"},
     sqlserver |-> {"nvarchar", "varchar", "nchar", "char"}]

ReadColumn(engine, c) ==
    [name |-> c.name,
     clr |-> Get(Clrs[engine], c.store.base, "String"),
     type |-> IF c.store.len = 0 THEN c.store.base
              ELSE c.store.base \o "(" \o ToString(c.store.len) \o ")",
     nullable |-> c.nullable,
     identity |-> c.identity,
     maxlen |-> IF c.store.base \in Sized[engine] THEN c.store.len ELSE 0,
     default |-> IF c.identity THEN "none" ELSE c.default,
     computed |-> "none"]

(* The defaults of SQL Server are not read. *)
SqlServerColumn(c) == [ReadColumn("sqlserver", c) EXCEPT !.default = "none"]

(* SQLite's lengths come out of the declared type.  The one INTEGER column  *)
(* of a primary key is taken to be generated, and none of the key's is      *)
(* nullable.                                                                *)
SqliteColumn(pk, c) ==
    LET clr == Get(Clrs.sqlite, c.store.base, "String") IN
    [name |-> c.name, clr |-> clr, type |-> c.store.base,
     nullable |-> c.nullable /\ c.name \notin ToSet(pk),
     identity |-> pk = <<c.name>> /\ clr = "Int64",
     maxlen |-> c.store.len, default |-> c.default, computed |-> "none"]

-----------------------------------------------------------------------------
(* The queries.  answers[i] is the catalog as query i found it: SQLite is   *)
(* asked table by table for columns, foreign keys and indexes (an index and *)
(* its columns are one query here), the others for all tables at once.      *)

QueryCount(engine, tables) ==
    CASE engine = "sqlite" -> 1 + 3 * Len(tables)
      [] engine = "postgres" -> 10
      [] OTHER -> 5

DefaultSchema ==
    [postgres |-> "public", mysql |-> "app", sqlserver |-> "dbo",
     sqlite |-> ""]

TableOfNothing(n, schema) ==
    [name |-> n, schema |-> schema, columns |-> <<>>,
     pk |-> [name |-> PkName(n), columns |-> <<>>], fks |-> <<>>,
     indexes |-> <<>>, checks |-> <<>>, triggers |-> <<>>, seed |-> <<>>,
     seedKey |-> <<>>]

(* What a query finds of table n, which may be there no more. *)
RowsOf(catalog, n) ==
    IF Has(catalog.tables, n) THEN Find(catalog.tables, n)
    ELSE TableOfNothing(n, "")

(* SQLite does not keep the names of foreign keys: each has the number it   *)
(* has in its table, the last one declared being 0.                         *)
NumberedFks(t, fks) ==
    [i \in DOMAIN fks |->
        LET id == Len(fks) - i
            base == FkName(t, fks[i].to) IN
        [fks[i] EXCEPT !.name =
            IF id = 0 THEN base ELSE base \o "_" \o ToString(id)]]

(* Table n's three queries follow query k. *)
ReadSqliteTable(answers, n, k) ==
    LET declared == RowsOf(answers[k + 1], n) IN
    [TableOfNothing(n, "") EXCEPT
        !.columns = Map(LAMBDA c : SqliteColumn(declared.pk.columns, c),
                        declared.columns),
        !.pk.columns = declared.pk.columns,
        !.fks = NumberedFks(n, RowsOf(answers[k + 2], n).fks),
        !.indexes = RowsOf(answers[k + 3], n).indexes]

(* PostgreSQL's keys and checks, and what is attached to a table. *)
PostgresConstraints(answers, n) ==
    [pk |-> RowsOf(answers[3], n).pk,
     fks |-> RowsOf(answers[4], n).fks,
     checks |-> RowsOf(answers[5], n).checks]

PostgresAttached(answers, n) ==
    [indexes |-> RowsOf(answers[6], n).indexes,
     triggers |-> RowsOf(answers[7], n).triggers]

ReadPostgresTable(answers, n) ==
    PostgresConstraints(answers, n) @@ PostgresAttached(answers, n)
    @@ [TableOfNothing(n, DefaultSchema.postgres) EXCEPT
            !.columns = Map(LAMBDA c : ReadColumn("postgres", c),
                            RowsOf(answers[2], n).columns)]

(* A primary key of MySQL has no name of its own. *)
MysqlKeys(answers, n) ==
    [pk |-> [name |-> PkName(n), columns |-> RowsOf(answers[3], n).pk.columns],
     fks |-> RowsOf(answers[4], n).fks,
     indexes |-> RowsOf(answers[5], n).indexes]

ReadMysqlTable(answers, n) ==
    MysqlKeys(answers, n)
    @@ [TableOfNothing(n, DefaultSchema.mysql) EXCEPT
            !.columns = Map(LAMBDA c : ReadColumn("mysql", c),
                            RowsOf(answers[2], n).columns)]

SqlServerKeys(answers, n) ==
    [pk |-> RowsOf(answers[3], n).pk,
     fks |-> RowsOf(answers[4], n).fks,
     indexes |-> RowsOf(answers[5], n).indexes]

ReadSqlServerTable(answers, n) ==
    SqlServerKeys(answers, n)
    @@ [TableOfNothing(n, DefaultSchema.sqlserver) EXCEPT
            !.columns = Map(SqlServerColumn, RowsOf(answers[2], n).columns)]

(* Functions, extensions and views, of PostgreSQL only. *)
ReadObjects(engine, answers) ==
    IF engine = "postgres"
    THEN [functions |-> answers[8].functions,
          extensions |-> SetToSeq(answers[9].extensions),
          views |-> answers[10].views]
    ELSE [functions |-> <<>>, extensions |-> <<>>, views |-> <<>>]

ReadModel(engine, answers) ==
    LET tables == answers[1].tables IN
    [schema |-> DefaultSchema[engine],
     tables |->
        [i \in DOMAIN tables |->
            LET n == tables[i].name IN
            CASE engine = "sqlite" -> ReadSqliteTable(answers, n, 3 * i - 2)
              [] engine = "postgres" -> ReadPostgresTable(answers, n)
              [] engine = "mysql" -> ReadMysqlTable(answers, n)
              [] engine = "sqlserver" -> ReadSqlServerTable(answers, n)],
     raw |-> <<>>]
    @@ ReadObjects(engine, answers)

-----------------------------------------------------------------------------
(* canonicalize_for_models, and the files that are emitted *)

Conventional ==
    {"character varying", "varchar", "text", "nvarchar", "integer", "int",
     "bigint", "smallint", "tinyint", "int2", "int4", "int8", "boolean",
     "bool", "bit", "real", "double precision", "float", "double", "numeric",
     "decimal", "money", "smallmoney", "uuid", "uniqueidentifier", "date",
     "timestamp", "timestamp without time zone", "timestamp with time zone",
     "timestamptz", "datetime", "datetime2", "datetimeoffset", "time",
     "time without time zone", "bytea", "varbinary", "binary", "blob",
     "image"}
    \cup {"INTEGER", "TEXT", "REAL", "BLOB"}    \* compared in lower case

Sizes(base) == {base} \cup {base \o "(" \o ToString(n) \o ")" : n \in 1..40}

(* Only what a logical type does not say is kept. *)
CanonicalizeForModels(model) ==
    [model EXCEPT !.tables = Map(LAMBDA t :
        [t EXCEPT
            !.schema = IF @ = model.schema THEN "" ELSE @,
            !.columns = Map(LAMBDA c :
                IF \E base \in Conventional : c.type \in Sizes(base)
                THEN [c EXCEPT !.type = ""] ELSE c, @)], @)]

(* The files a project is written as, each by what it is read as again.     *)
Files(model) ==
    LET globals == EmitDatabase(model) IN
    [n \in {t.name : t \in ToSet(model.tables)} |->
        ParseEntity(EmitEntity(Find(model.tables, n))).value]
    @@ (IF globals = <<>> THEN <<>>
        ELSE DatabaseFile :> ParseDatabase(globals).value)

BuildModelFiles(engine, answers) ==
    Files(CanonicalizeForModels(ReadModel(engine, answers)))

(* parse_project, the tables in the order of their names. *)
ProjectOf(files, order) ==
    LET globals == Get(files, DatabaseFile, NoGlobals) IN
    [tables |-> Map(LAMBDA n : files[n],
                    SelectSeq(order, LAMBDA n : n \in DOMAIN files)),
     functions |-> globals.functions, views |-> globals.views,
     raw |-> globals.raw, extensions |-> ToSet(globals.extensions)]
=============================================================================
