----------------------------- MODULE SchemaDiff -----------------------------
(***************************************************************************)
(* molde-core's diff.rs: the operations that turn one model into another,  *)
(* and what each operation does to a model in memory.                      *)
(*                                                                         *)
(* A model's lists are sequences, as its Vecs are: an operation may leave  *)
(* two elements of one name, and a lookup finds the first.  An element is  *)
(* a record with a "name" (its schema included) and whatever else the diff *)
(* or an engine tells apart:                                               *)
(*   model     [tables, functions, views, raw : Seq, extensions : set]     *)
(*   table     [columns, fks, indexes, checks, triggers, seed : Seq,       *)
(*              pk, seedKey : sets of column names]                        *)
(*   column    [type, default]    fk     [on, to, action]                  *)
(*   index     [on]               check  [expr]                            *)
(*   trigger   [calls]            view   [of]      function [body]         *)
(*   seed row  a function from column names to values                      *)
(* Comments, CLR types and facets are part of "type" or left out.          *)
(***************************************************************************)
EXTENDS Naturals, Sequences, SequencesExt

EmptyModel ==
    [tables |-> <<>>, functions |-> <<>>, views |-> <<>>, raw |-> <<>>,
     extensions |-> {}]

-----------------------------------------------------------------------------
(* Lists of named elements *)

(* SelectSeq, by FlattenSeq: a form that the prover can expand. *)
Those(list, P(_)) ==
    FlattenSeq([i \in DOMAIN list |-> IF P(list[i]) THEN <<list[i]>> ELSE <<>>])

Names(list) == {x.name : x \in ToSet(list)}
Has(list, n) == n \in Names(list)
Find(list, n) == list[SelectInSeq(list, LAMBDA x : x.name = n)]
Drop(list, n) == Those(list, LAMBDA x : x.name # n)

(* `retain` then `push`; and replace in place, or `push`. *)
Renew(list, x) == Append(Drop(list, x.name), x)
Upsert(list, x) ==
    IF Has(list, x.name)
    THEN ReplaceAt(list, SelectInSeq(list, LAMBDA y : y.name = x.name), x)
    ELSE Append(list, x)

Absent(list, other) == Those(list, LAMBDA x : ~Has(other, x.name))
Redefined(new, old) ==
    Those(new, LAMBDA x : Has(old, x.name) /\ Find(old, x.name) # x)
AbsentOrRedefined(new, old) ==
    Those(new, LAMBDA x : ~Has(old, x.name) \/ Find(old, x.name) # x)

-----------------------------------------------------------------------------
(* Operations: "kind" is the variant, "table" the table it names ("" for    *)
(* none), "arg" its payload; an altered column's definition is "old".        *)

Operation(kind, table, arg) == [kind |-> kind, table |-> table, arg |-> arg]

Ops(kind, table, list) ==
    [i \in DOMAIN list |-> Operation(kind, table, list[i])]

PerTable(tables, OpsOf(_)) ==
    FlattenSeq([i \in DOMAIN tables |-> OpsOf(tables[i])])

Created(from, to) == Absent(to.tables, from.tables)
Kept(from, to) == Those(to.tables, LAMBDA t : Has(from.tables, t.name))
Removed(from, to) == Absent(from.tables, to.tables)

(* Mutant: what is redefined is not dropped first. *)
DropsAbsent(kind, t, new, old) == Ops(kind, t, Absent(old, new))

(* A redefined foreign key, check, trigger or view is dropped and added.    *)
DropsOf(kind, t, new, old) ==
    Ops(kind, t, Redefined(new, old)) \o Ops(kind, t, Absent(old, new))

(* Mutant: what is redefined is dropped only. *)
AddsAbsent(kind, t, new, old) == Ops(kind, t, Absent(new, old))

AddsOf(kind, t, new, old) == Ops(kind, t, AbsentOrRedefined(new, old))

DiffColumns(old, new) ==
    FlattenSeq([i \in DOMAIN new.columns |->
        LET c == new.columns[i] IN
        IF ~Has(old.columns, c.name)
        THEN <<Operation("add_column", new.name, c)>>
        ELSE IF Find(old.columns, c.name) # c
        THEN <<[kind |-> "alter_column", table |-> new.name, arg |-> c,
                old |-> Find(old.columns, c.name)]>>
        ELSE <<>>])
      \o Ops("drop_column", new.name, Absent(old.columns, new.columns))

(* What SQLite cannot ALTER: a column, the set of foreign keys, a check.    *)
NeedsRebuild(old, new) ==
    \/ Redefined(new.columns, old.columns) # <<>>
    \/ Names(new.fks) # Names(old.fks)
    \/ new.checks # old.checks

Rebuild(old, new) ==
    IF NeedsRebuild(old, new)
    THEN <<Operation("rebuild_table", new.name,
             [table |-> new,
              copy |-> Names(new.columns) \cap Names(old.columns)])>>
    ELSE <<>>

(* Seed rows are matched by their key columns: the whole row if there are  *)
(* none.                                                                    *)
SeedKey(row, cols) ==
    IF cols = {} THEN row ELSE [c \in cols \cap DOMAIN row |-> row[c]]

MatchKey(t) == IF t.seedKey # {} THEN t.seedKey ELSE t.pk

RowWithKey(rows, key, cols) ==
    SelectInSeq(rows, LAMBDA r : SeedKey(r, cols) = key)

DiffSeedData(old, new) ==
    LET cols == MatchKey(new)
        InsertOrUpdate(row) ==
            LET key == SeedKey(row, cols)
                i == RowWithKey(old.seed, key, cols) IN
            IF i = 0 THEN <<Operation("insert_data", new.name, row)>>
            ELSE IF old.seed[i] # row
            THEN <<Operation("update_data", new.name,
                     [key |-> key,
                      values |-> [c \in DOMAIN row \ cols |-> row[c]]])>>
            ELSE <<>>
        Gone == Those(old.seed, LAMBDA r :
                    RowWithKey(new.seed, SeedKey(r, cols), cols) = 0) IN
    FlattenSeq([i \in DOMAIN new.seed |-> InsertOrUpdate(new.seed[i])])
      \o [i \in DOMAIN Gone |->
            Operation("delete_data", new.name, SeedKey(Gone[i], cols))]

(* The declared extensions, and "vector" if a column has that type. *)
WantedExtensions(model) ==
    model.extensions \cup
    (IF \E t \in ToSet(model.tables) : \E c \in ToSet(t.columns) :
            c.type = "vector"
     THEN {"vector"} ELSE {})

Diff(from, to) ==
    LET Old(t) == Find(from.tables, t.name)
        created == Created(from, to)
        kept == Kept(from, to)
        removed == Removed(from, to)
        extensions ==
            SetToSeq(WantedExtensions(to) \ WantedExtensions(from)) IN
    [i \in DOMAIN extensions |->
        Operation("ensure_extension", "", extensions[i])]
    \o DropsOf("drop_view", "", to.views, from.views)
    \o PerTable(kept, LAMBDA t :
         DropsOf("drop_trigger", t.name, t.triggers, Old(t).triggers))
    \o PerTable(kept, LAMBDA t :
         DropsOf("drop_fk", t.name, t.fks, Old(t).fks))
    \o PerTable(removed, LAMBDA t : Ops("drop_fk", t.name, t.fks))
    \o PerTable(kept, LAMBDA t :
         DropsOf("drop_check", t.name, t.checks, Old(t).checks))
    \o PerTable(kept, LAMBDA t :
         Ops("drop_index", t.name, Absent(Old(t).indexes, t.indexes)))
    \o PerTable(removed, LAMBDA t : Ops("drop_index", t.name, t.indexes))
    \o PerTable(created, LAMBDA t : <<Operation("create_table", t.name, t)>>)
    \o PerTable(kept, LAMBDA t : DiffColumns(Old(t), t))
    \o PerTable(created, LAMBDA t : Ops("add_fk", t.name, t.fks))
    \o PerTable(kept, LAMBDA t :
         AddsOf("add_fk", t.name, t.fks, Old(t).fks))
    \o PerTable(kept, LAMBDA t :
         AddsOf("add_check", t.name, t.checks, Old(t).checks))
    \o AddsOf("create_function", "", to.functions, from.functions)
    \o PerTable(created, LAMBDA t : Ops("create_index", t.name, t.indexes))
    \o PerTable(kept, LAMBDA t :
         Ops("create_index", t.name, Absent(t.indexes, Old(t).indexes)))
    \o PerTable(created, LAMBDA t : Ops("create_trigger", t.name, t.triggers))
    \o PerTable(kept, LAMBDA t :
         AddsOf("create_trigger", t.name, t.triggers, Old(t).triggers))
    \o PerTable(kept, LAMBDA t : Rebuild(Old(t), t))
    \o PerTable(created, LAMBDA t : Ops("insert_data", t.name, t.seed))
    \o PerTable(kept, LAMBDA t : DiffSeedData(Old(t), t))
    \o Ops("raw_sql", "", Absent(to.raw, from.raw))
    \o AddsOf("create_view", "", to.views, from.views)
    \o PerTable(removed, LAMBDA t : <<Operation("drop_table", t.name, t)>>)
    \o Ops("drop_function", "", Absent(from.functions, to.functions))

-----------------------------------------------------------------------------
(* Replaying operations on a model in memory *)

(* An operation on a table the model lacks does nothing. *)
OnTable(model, n, F(_)) ==
    LET i == SelectInSeq(model.tables, LAMBDA t : t.name = n) IN
    IF i = 0 THEN model ELSE [model EXCEPT !.tables[i] = F(@)]

(* Seed operations match by the primary key, whatever the table's seedKey.  *)
InsertSeed(t, row) ==
    IF RowWithKey(t.seed, SeedKey(row, t.pk), t.pk) # 0 THEN t
    ELSE [t EXCEPT !.seed = Append(@, row)]

DeleteSeed(t, key) ==
    [t EXCEPT !.seed = Those(@, LAMBDA r : SeedKey(r, t.pk) # key)]

UpdateSeed(t, key, values) ==
    LET i == RowWithKey(t.seed, key, t.pk) IN
    IF i = 0 THEN t ELSE [t EXCEPT !.seed[i] = values @@ @]

ApplyOperation(model, op) ==
    LET x == op.arg
        Table(F(_)) == OnTable(model, op.table, F)
    IN
    CASE op.kind = "create_table" ->
            [model EXCEPT !.tables = Append(@, x)]
      [] op.kind = "drop_table" ->
            [model EXCEPT !.tables = Drop(@, op.table)]
      [] op.kind = "add_column" ->
            Table(LAMBDA t : [t EXCEPT !.columns = Append(@, x)])
      [] op.kind = "drop_column" ->
            Table(LAMBDA t : [t EXCEPT !.columns = Drop(@, x.name)])
      [] op.kind = "alter_column" ->
            Table(LAMBDA t :
                IF Has(t.columns, x.name)
                THEN [t EXCEPT !.columns = Upsert(@, x)] ELSE t)
      [] op.kind = "add_fk" ->
            Table(LAMBDA t : [t EXCEPT !.fks = Append(@, x)])
      [] op.kind = "drop_fk" ->
            Table(LAMBDA t : [t EXCEPT !.fks = Drop(@, x.name)])
      [] op.kind = "create_index" ->
            Table(LAMBDA t : [t EXCEPT !.indexes = Append(@, x)])
      [] op.kind = "drop_index" ->
            Table(LAMBDA t : [t EXCEPT !.indexes = Drop(@, x.name)])
      [] op.kind = "create_trigger" ->
            Table(LAMBDA t : [t EXCEPT !.triggers = Renew(@, x)])
      [] op.kind = "drop_trigger" ->
            Table(LAMBDA t : [t EXCEPT !.triggers = Drop(@, x.name)])
      [] op.kind = "add_check" ->
            Table(LAMBDA t : [t EXCEPT !.checks = Renew(@, x)])
      [] op.kind = "drop_check" ->
            Table(LAMBDA t : [t EXCEPT !.checks = Drop(@, x.name)])
      [] op.kind = "rebuild_table" -> Table(LAMBDA t : x.table)
      [] op.kind = "insert_data" -> Table(LAMBDA t : InsertSeed(t, x))
      [] op.kind = "delete_data" -> Table(LAMBDA t : DeleteSeed(t, x))
      [] op.kind = "update_data" ->
            Table(LAMBDA t : UpdateSeed(t, x.key, x.values))
      [] op.kind = "create_function" ->
            [model EXCEPT !.functions = Upsert(@, x)]
      [] op.kind = "drop_function" ->
            [model EXCEPT !.functions = Drop(@, x.name)]
      [] op.kind = "create_view" -> [model EXCEPT !.views = Upsert(@, x)]
      [] op.kind = "drop_view" -> [model EXCEPT !.views = Drop(@, x.name)]
      [] op.kind = "raw_sql" ->
            IF Has(model.raw, x.name) THEN model
            ELSE [model EXCEPT !.raw = Append(@, x)]
      [] op.kind = "ensure_extension" ->
            [model EXCEPT !.extensions = @ \cup {x}]

Replay(model, ops) == FoldLeft(ApplyOperation, model, ops)
=============================================================================
