--------------------------------- MODULE Lint ---------------------------------
(***************************************************************************)
(* molde-core's lint.rs: what `molde lint` and `molde ci` report of the "up"*)
(* of a migration, and, to compare, what that "up" can do to a database     *)
(* with rows.                                                               *)
(*                                                                         *)
(* Columns are [name, type, default, nullable, identity]; indexes           *)
(* [name, on, unique], "on" one column.                                     *)
(***************************************************************************)
EXTENDS SchemaDiff, FiniteSets

-----------------------------------------------------------------------------
(* analyze *)

NeedsValueButHasNone(c) == ~c.nullable /\ c.default = "none" /\ ~c.identity

Destructive == {"drop-table", "drop-column"}

Analyze(op) ==
    CASE op.kind = "drop_table" -> {"drop-table"}
      [] op.kind = "drop_column" -> {"drop-column"}
      [] op.kind = "add_column" ->
            {c \in {"not-null-no-default"} : NeedsValueButHasNone(op.arg)}
      [] op.kind = "alter_column" ->
            {c \in {"make-not-null"} : op.old.nullable /\ ~op.arg.nullable}
            \cup {c \in {"alter-column-type"} : op.old.type # op.arg.type}
      [] op.kind = "create_index" ->
            {c \in {"add-unique-index"} : op.arg.unique}
      [] op.kind = "add_fk" -> {"add-foreign-key"}
      [] OTHER -> {}

LintOperations(ops) == UNION {Analyze(op) : op \in ToSet(ops)}

-----------------------------------------------------------------------------
(* Databases with rows.  A row is a function from columns to values; a      *)
(* database one from tables to sets of rows, two at most.                   *)

Null == 0

RowsOf(t) ==
    {r \in [{c.name : c \in ToSet(t.columns)} -> 0..2] :
        \A c \in ToSet(t.columns) :
            IF c.name \in t.pk THEN r[c.name] # Null
            ELSE /\ r[c.name] # 2
                 /\ r[c.name] = Null => c.nullable}

Differ(rows, column) ==
    \A r, s \in rows : r[column] = s[column] => r[column] = Null \/ r = s

Refer(rows, fk, parents) ==
    \A r \in rows : r[fk.on] = Null \/ \E p \in parents : p.id = r[fk.on]

Populations(model) ==
    LET tables == ToSet(model.tables)
        few(t) == {S \in SUBSET RowsOf(t) :
                      /\ Cardinality(S) <= 2
                      /\ Differ(S, "id")
                      /\ \A i \in ToSet(t.indexes) :
                            i.unique => Differ(S, i.on)}
        names == {t.name : t \in tables} IN
    {db \in [names -> UNION {few(t) : t \in tables}] :
        \A t \in tables :
            /\ db[t.name] \in few(t)
            /\ \A f \in ToSet(t.fks) :
                  f.to \in names /\ Refer(db[t.name], f, db[f.to])}

(* A statement an engine may refuse because of the rows there are.  Text    *)
(* that is no number, or whatever a changed type cannot hold, is possible.  *)
MayRefuse(db, op) ==
    LET rows == db[op.table] IN
    CASE op.kind = "add_column" -> rows # {} /\ NeedsValueButHasNone(op.arg)
      [] op.kind = "alter_column" ->
            \/ op.old.type # op.arg.type /\ rows # {}
            \/ ~op.arg.nullable /\ \E r \in rows : r[op.arg.name] = Null
      [] op.kind = "create_index" ->
            op.arg.unique /\ ~Differ(rows, op.arg.on)
      [] op.kind = "add_fk" ->
            op.arg.to \in DOMAIN db => ~Refer(rows, op.arg, db[op.arg.to])
      [] OTHER -> FALSE

(* A changed type is taken to keep the values, as int to text does.  A cast  *)
(* that rounds (double precision to integer, a timestamp to a date) is not  *)
(* seen here as a loss, and alter-column-type is not destructive either.    *)
Changed(db, op) ==
    CASE op.kind = "create_table" -> (op.table :> {}) @@ db
      [] op.kind = "drop_table" ->
            [n \in DOMAIN db \ {op.table} |-> db[n]]
      [] op.kind = "add_column" ->
            [db EXCEPT ![op.table] =
                {(op.arg.name :> IF op.arg.nullable THEN Null ELSE 1) @@ r :
                    r \in @}]
      [] op.kind = "drop_column" ->
            [db EXCEPT ![op.table] =
                {[c \in DOMAIN r \ {op.arg.name} |-> r[c]] : r \in @}]
      [] OTHER -> db

(* What a database has that can be lost. *)
Values(db) ==
    UNION {UNION {{<<n, r.id, c, r[c]>> : c \in DOMAIN r} : r \in db[n]} :
              n \in DOMAIN db}

Loses(from, ops) ==
    \E db \in Populations(from) :
        ~(Values(db) \subseteq Values(FoldLeft(Changed, db, ops)))

Refusable(from, ops) ==
    \E db \in Populations(from) :
        LET Step(s, op) ==
                [db |-> Changed(s.db, op),
                 refused |-> s.refused \/ MayRefuse(s.db, op)] IN
        FoldLeft(Step, [db |-> db, refused |-> FALSE], ops).refused
=============================================================================
