-------------------------------- MODULE Verify --------------------------------
(***************************************************************************)
(* `molde verify` and `molde pull`: a directory of models and a live        *)
(* database that others change, compared and copied by reading the catalog  *)
(* one query after another, in no transaction.                              *)
(***************************************************************************)
EXTENDS Reader, FiniteSets

CONSTANTS
    Families,   \* sequences of models developers write and apply: [engine, models]
    TableOrder, \* the tables' names, sorted
    MaxSeen     \* catalogs a database goes through while it is read

VARIABLES
    family,     \* one of Families, by number
    dir,        \* the models directory: file -> what it says
    db,         \* the model whose catalog the database has, by number
    command,    \* what is running: "verify", "pull", "pull --force" or Idle
    desired,    \* the models it read when it started
    answers,    \* what db was for each of its queries
    during,     \* what db has been since it started, in order
    report,     \* what the last verify reported, or NoReport
    pulled      \* dir was overwritten with db, both untouched since

vars == <<family, dir, db, command, desired, answers, during, report, pulled>>

Idle == "idle"
NoReport == {[direction |-> "none"]}

-----------------------------------------------------------------------------
(* What the generators create *)

(* Two of them write an identity column as an integer, whatever its type.   *)
IdentityType == [postgres |-> Of("integer"), sqlserver |-> Of("int")]

(* column_def.  SQLite's has no identity; nowhere else can one be null.     *)
ColumnDef(engine, c) ==
    [name |-> c.name,
     store |->
        CASE c.identity /\ engine \in DOMAIN IdentityType ->
                IdentityType[engine]
          [] c.type # "" -> Of(c.type)
          [] OTHER -> StoreTypeFor(engine, c.clr, c.maxlen),
     nullable |-> c.nullable /\ (c.identity => engine = "sqlite"),
     identity |-> c.identity /\ engine # "sqlite",
     default |-> c.default]

(* SQLite's create_table writes a key of one column as INTEGER NOT NULL      *)
(* PRIMARY KEY AUTOINCREMENT, whatever the model says of it.                *)
RowId(n) ==
    [name |-> n, store |-> Of("INTEGER"), nullable |-> FALSE,
     identity |-> FALSE, default |-> "none"]

(* What a catalog has of it: none of a key is null, SQLite keeps no names of *)
(* foreign keys, and the objects are Postgres's.                            *)
Stored(engine, model) ==
    LET Column(t, c) ==
            IF engine = "sqlite" /\ t.pk.columns = <<c.name>> THEN RowId(c.name)
            ELSE [ColumnDef(engine, c) EXCEPT
                    !.nullable = @ /\ c.name \notin ToSet(t.pk.columns)]
        objects(list) == IF engine = "postgres" THEN list ELSE <<>> IN
    [tables |-> Map(LAMBDA t :
        [name |-> t.name, pk |-> t.pk,
         columns |-> Map(LAMBDA c : Column(t, c), t.columns),
         fks |-> t.fks, indexes |-> t.indexes,
         checks |-> objects(t.checks), triggers |-> objects(t.triggers)],
        model.tables),
     functions |-> objects(model.functions),
     extensions |-> IF engine = "postgres" THEN model.extensions ELSE {},
     views |-> model.views]

-----------------------------------------------------------------------------
(* drift_items *)

(* Mutant: types are compared as they are written. *)
CanonicalizeTypesNot(engine, model) == model

CanonicalizeTypes(engine, model) ==
    [model EXCEPT !.tables = Map(LAMBDA t :
        [t EXCEPT !.columns = Map(LAMBDA c :
            [c EXCEPT
                !.clr = "", !.maxlen = 0,
                !.type = ToString(StoreTypeFor(engine, c.clr, c.maxlen))],
            @)], @)]

Kinds == {"table", "column", "fk", "index", "check", "trigger", "function",
          "view", "extension"}

IsSchemaDrift(op) ==
    op.kind \notin {"rebuild_table", "insert_data", "update_data",
                    "delete_data"}

Direction ==
    [k \in {"create_table", "add_column", "add_fk", "create_index",
            "ensure_extension", "create_function", "create_trigger",
            "add_check", "create_view"} |-> "missing"]
    @@ [k \in {"drop_table", "drop_column", "drop_fk", "drop_index",
               "drop_function", "drop_trigger", "drop_check",
               "drop_view"} |-> "extra"]
    @@ [k \in {"alter_column", "raw_sql"} |-> "differs"]

KindOf ==
    [k \in {"create_table", "drop_table"} |-> "table"]
    @@ [k \in {"add_column", "drop_column", "alter_column"} |-> "column"]
    @@ [k \in {"add_fk", "drop_fk"} |-> "fk"]
    @@ [k \in {"create_index", "drop_index"} |-> "index"]
    @@ [k \in {"add_check", "drop_check"} |-> "check"]
    @@ [k \in {"create_trigger", "drop_trigger"} |-> "trigger"]
    @@ [k \in {"create_function", "drop_function"} |-> "function"]
    @@ [k \in {"create_view", "drop_view"} |-> "view"]
    @@ [k \in {"ensure_extension"} |-> "extension"]

Classify(op) ==
    [direction |-> Direction[op.kind],
     kind |-> KindOf[op.kind],
     table |-> op.table,
     name |-> IF op.kind = "ensure_extension" THEN op.arg ELSE op.arg.name]

(* Mutant: what would bring the model up to the database. *)
DriftItemsReversed(engine, live, wanted) ==
    {Classify(op) : op \in {o \in ToSet(Diff(
        CanonicalizeTypes(engine, wanted),
        CanonicalizeTypes(engine, live))) : IsSchemaDrift(o)}}

DriftItems(engine, live, wanted) ==
    {Classify(op) : op \in {o \in ToSet(Diff(
        CanonicalizeTypes(engine, live),
        CanonicalizeTypes(engine, wanted))) : IsSchemaDrift(o)}}

-----------------------------------------------------------------------------

Engine == Families[family].engine
Model == DOMAIN Families[family].models

(* The directory a model is written as, and the catalog it makes.           *)
Written ==
    [f \in DOMAIN Families |->
        Map(LAMBDA m : Files(m), Families[f].models)]
Catalogs ==
    [f \in DOMAIN Families |->
        Map(LAMBDA files : Stored(Families[f].engine,
                                  ProjectOf(files, TableOrder)),
            Written[f])]

Init ==
    /\ family \in DOMAIN Families
    /\ dir \in ToSet(Written[family])
    /\ db \in Model
    /\ command = Idle
    /\ desired = <<>>
    /\ answers = <<>>
    /\ during = <<>>
    /\ report = NoReport
    /\ pulled = FALSE

(* A report is of its moment: it is forgotten when something changes.       *)
Forget ==
    /\ report' = NoReport
    /\ desired' = <<>>
    /\ during' = <<>>

(* Developers write other models.  verify reads them first and pull meets    *)
(* them last, so that writing them between two queries is no different from *)
(* before or after.                                                         *)
Edit ==
    /\ command = Idle
    /\ dir' \in ToSet(Written[family]) \ {dir}
    /\ pulled' = FALSE
    /\ Forget
    /\ UNCHANGED <<family, db, command, answers>>

(* Developers apply them, or change the database by hand, at any time.      *)
Change ==
    /\ db' \in Model \ {db}
    /\ pulled' = FALSE
    /\ IF command = Idle THEN Forget
       ELSE /\ Len(during) < MaxSeen
            /\ during' = Append(during, db')
            /\ UNCHANGED <<report, desired>>
    /\ UNCHANGED <<family, dir, command, answers>>

Begin(what) ==
    /\ command = Idle
    /\ command' = what
    /\ desired' = IF what = "verify" THEN dir ELSE <<>>
    /\ answers' = <<>>
    /\ during' = <<db>>
    /\ report' = NoReport
    /\ UNCHANGED <<family, dir, db, pulled>>

(* A bound: models are pulled over what developers wrote, once.             *)
Pullable == dir \in ToSet(Written[family])

Found == Map(LAMBDA i : Catalogs[family][i], answers)
Asked == QueryCount(Engine, Found[1].tables)

Finished == answers # <<>> /\ Len(answers) = Asked

Ask ==
    /\ command # Idle
    /\ ~Finished
    /\ answers' = Append(answers, db)
    /\ UNCHANGED <<family, dir, db, command, desired, during, report, pulled>>

(* Mutant: what was read is kept for the next command. *)
ReportKept ==
    /\ command = "verify"
    /\ Finished
    /\ report' = DriftItems(Engine,
            ProjectOf(BuildModelFiles(Engine, Found), TableOrder),
            ProjectOf(desired, TableOrder))
    /\ command' = Idle
    /\ UNCHANGED <<family, dir, db, answers, desired, during, pulled>>

Report ==
    /\ command = "verify"
    /\ Finished
    /\ report' = DriftItems(Engine,
            ProjectOf(BuildModelFiles(Engine, Found), TableOrder),
            ProjectOf(desired, TableOrder))
    /\ command' = Idle
    /\ answers' = <<>>
    /\ UNCHANGED <<family, dir, db, desired, during, pulled>>

(* Mutant: --force is not looked at. *)
PullKeeping(force) ==
    /\ Finished
    /\ dir' = dir @@ BuildModelFiles(Engine, Found)
    /\ pulled' = (force /\ during = <<db>>)

(* Files are overwritten if forced to, and never removed. *)
Pull(force) ==
    /\ Finished
    /\ dir' = IF force THEN BuildModelFiles(Engine, Found) @@ dir
              ELSE dir @@ BuildModelFiles(Engine, Found)
    /\ pulled' = (force /\ during = <<db>>)

Write ==
    /\ \/ command = "pull" /\ Pull(FALSE)
       \/ command = "pull --force" /\ Pull(TRUE)
    /\ command' = Idle
    /\ answers' = <<>>
    /\ desired' = <<>>
    /\ during' = <<>>
    /\ UNCHANGED <<family, db, report>>

Next ==
    \/ Edit
    \/ Change
    \/ Begin("verify")
    \/ Pullable /\ (Begin("pull") \/ Begin("pull --force"))
    \/ Ask
    \/ Report
    \/ Write

Spec == Init /\ [][Next]_vars

-----------------------------------------------------------------------------
(* Properties *)

(* The directory never holds a file that does not read back, a command asks *)
(* no more than its queries, and only a running one holds what it read.      *)
TypeOK ==
    /\ \A f \in DOMAIN dir \ {DatabaseFile} : dir[f].name = f
    /\ db \in Model
    /\ command = Idle => answers = <<>>
    /\ report # NoReport => command = Idle /\ during # <<>>
    /\ answers # <<>> => Len(answers) <= Asked
    /\ ToSet(answers) \subseteq ToSet(during)
    /\ pulled \in BOOLEAN

(* What a catalog holds that the reader can see, by kind. *)
Things(catalog) ==
    LET PerTableOf(F(_)) == UNION {F(t) : t \in ToSet(catalog.tables)}
        thing(t, n, d) == [table |-> t, name |-> n, is |-> d] IN
    [table |-> {thing(t.name, t.name, "") : t \in ToSet(catalog.tables)},
     column |-> PerTableOf(LAMBDA t :
        {thing(t.name, c.name, c) : c \in ToSet(t.columns)}),
     fk |-> PerTableOf(LAMBDA t :
        {thing(t.name, k.name, k) : k \in ToSet(t.fks)}),
     index |-> PerTableOf(LAMBDA t :
        {thing(t.name, i.name, "") : i \in ToSet(t.indexes)}),
     check |-> PerTableOf(LAMBDA t :
        {thing(t.name, k.name, k) : k \in ToSet(t.checks)}),
     trigger |-> PerTableOf(LAMBDA t :
        {thing(t.name, g.name, g) : g \in ToSet(t.triggers)}),
     function |-> {thing("", f.name, f) : f \in ToSet(catalog.functions)},
     view |-> {thing("", v.name, v) : v \in ToSet(catalog.views)},
     extension |-> {thing("", e, "") : e \in catalog.extensions}]

Wanted == Things(Stored(Engine, ProjectOf(desired, TableOrder)))

Named(things, i) == {x \in things[i.kind] : x.table = i.table /\ x.name = i.name}

CatalogsSeen == {Catalogs[family][i] : i \in ToSet(during)}

(* `verify` is silent exactly when the database holds what the models say:   *)
(* with nothing changing while it reads, no item is reported if and only if   *)
(* the catalog and the one the models make have the same things, defined     *)
(* the same as far as that engine's reader can tell.  Extensions alone may    *)
(* be more than the models declare: the differ never drops one.              *)
DriftIsDifference ==
    (report # NoReport /\ Len(during) = 1) =>
        \A catalog \in CatalogsSeen :
            report = {} <=>
                /\ Wanted.extension \subseteq Things(catalog).extension
                /\ \A k \in Kinds \ {"extension"} :
                      Things(catalog)[k] = Wanted[k]

(* However its queries interleave with others' changes, what it reports was  *)
(* so at some moment of the read: what is missing was not there as the        *)
(* models have it, what is extra was there and not as they have it, and what  *)
(* differs was there, defined otherwise.                                     *)
ReportsWhatWas ==
    report # NoReport =>
        \A i \in report :
            LET wanted == Named(Wanted, i)
                found == {Named(Things(c), i) : c \in CatalogsSeen} IN
            CASE i.direction = "missing" ->
                    wanted # {} /\ found # {wanted}
              [] i.direction = "extra" ->
                    \E f \in found : f \notin {{}, wanted}
              [] i.direction = "differs" ->
                    wanted # {} /\ \E f \in found : f \notin {{}, wanted}

(* A forced pull settles every difference it can: after one that nothing    *)
(* disturbed, with the database and the directory left alone, `verify` finds *)
(* nothing but whole tables the database lacks (their files are not removed) *)
(* and what belongs to them.                                                *)
PullSettles ==
    (report # NoReport /\ pulled /\ during = <<db>>) =>
        \A i \in report :
            /\ i.direction = "missing"
            /\ i.table \notin Names(Catalogs[family][db].tables)
=============================================================================
