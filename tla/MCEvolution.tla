---------------------------- MODULE MCEvolution -----------------------------
(***************************************************************************)
(* Families of models for TLC.  Lists are sorted by name, as load_model_dir *)
(* and snapshot::save leave them.  A model of a family is one parse_project *)
(* takes: a foreign key, a trigger or a view names something it declares.   *)
(***************************************************************************)
EXTENDS Evolution

Col(n, type) == [name |-> n, type |-> type, default |-> "none"]
Key(n, action) == [name |-> n, on |-> "pid", to |-> "a", action |-> action]
Ix(n, on) == [name |-> n, on |-> on]

Table(n, columns) ==
    [name |-> n, columns |-> columns, pk |-> {"id"}, seedKey |-> {},
     fks |-> <<>>, indexes |-> <<>>, checks |-> <<>>, triggers |-> <<>>,
     seed |-> <<>>]

Optional(S) == {<<>>} \cup {<<x>> : x \in S}

Model(tables) == [EmptyModel EXCEPT !.tables = tables]

-----------------------------------------------------------------------------
(* A parent "a" and its child "b", "actions" and "checks" of the child's    *)
(* foreign key and check, and an index on one of the columns of each.       *)

Parents ==
    {Table("a", <<Col("id", "int")>>)}
    \cup {[Table("a", <<Col("id", "int"), Col("x", type)>>) EXCEPT
              !.indexes = ix] :
            type \in {"int", "text"}, ix \in Optional({Ix("ix_a", "x")})}

Children(actions, checks, on) ==
    {[Table("b", <<Col("id", "int"), Col("pid", "int"), Col("y", "int")>>)
        EXCEPT !.fks = fk, !.indexes = ix, !.checks = ck] :
            fk \in Optional({Key("fk_b", act) : act \in actions}),
            ix \in Optional({Ix("ix_b", on)}),
            ck \in Optional({[name |-> "ck_b", expr |-> e] : e \in checks})}

(* ... or a child without the column that refers to the parent. *)
Orphan == Table("b", <<Col("id", "int"), Col("y", "int")>>)

(* A column takes another type when its key and its index are dropped first. *)
Retyped ==
    LET Child(type, fk, ix) ==
            [Table("b", <<Col("id", "int"), Col("pid", type)>>) EXCEPT
                !.fks = fk, !.indexes = ix]
        keys == <<Key("fk_b", "cascade")>>
        indexes == <<Ix("ix_b", "pid")>>
    IN
    {Model(<<Table("a", <<Col("id", "int")>>), b>>) :
        b \in {Child("int", keys, indexes), Child("int", <<>>, indexes),
               Child("int", <<>>, <<>>), Child("text", <<>>, <<>>)}}

Structure(children) ==
    {EmptyModel}
    \cup {Model(<<a>>) : a \in Parents}
    \cup {Model(<<b>>) : b \in {c \in children : c.fks = <<>>}}
    \cup {Model(<<a, b>>) : a \in Parents, b \in children}

(* Rows of "a", matched by key or by "code", while a column comes and goes. *)
Rows(codes) ==
    {[id |-> 1, code |-> c] : c \in codes}
    \cup {[id |-> 2, code |-> c] : c \in codes}

Seeds ==
    {Model(<<[Table("a", columns) EXCEPT !.seed = rows]>>) :
        columns \in {<<Col("code", "int"), Col("id", "int")>>,
                     <<Col("code", "int"), Col("id", "int"), Col("x", "int")>>,
                     <<Col("code", "text"), Col("id", "int")>>},
        rows \in {<<>>} \cup {<<r>> : r \in Rows({7, 8})}
                 \cup {<<r, s>> : r \in {q \in Rows({7, 8}) : q.id = 1},
                                  s \in {q \in Rows({7, 8}) : q.id = 2}}}

(* Rows matched by a natural key: the database generates their "id". *)
NaturalSeeds ==
    {Model(<<[Table("a", <<Col("code", "int"), Col("id", "int"),
                           Col("x", "int")>>) EXCEPT
                 !.seedKey = {"code"}, !.seed = rows]>>) :
        rows \in {<<>>} \cup
            {<<[code |-> 7, x |-> i]>> : i \in 1..2} \cup
            {<<[code |-> 7, x |-> i], [code |-> 8, x |-> j]>> :
                i, j \in 1..2}}

(* Functions, triggers that call them, a view on one of the columns. *)
Objects ==
    {[EmptyModel EXCEPT
        !.tables = <<[Table("a", cols) EXCEPT !.triggers = trg]>>,
        !.functions = fs,
        !.views = vs,
        !.extensions = ext] :
        cols \in {<<Col("id", "int")>>,
                  <<Col("id", "int"), Col("x", "int")>>},
        trg \in Optional({[name |-> "trg", calls |-> f] : f \in {"f", "g"}}),
        fs \in {<<>>, <<[name |-> "f", body |-> 1]>>,
                <<[name |-> "f", body |-> 2]>>,
                <<[name |-> "f", body |-> 1], [name |-> "g", body |-> 1]>>},
        vs \in Optional({[name |-> "v", of |-> [table |-> "a", column |-> c]] :
                            c \in {"id", "x"}}),
        ext \in {{}, {"pg_trgm"}}}

DeclaresItsReferences(model) ==
    \A t \in ToSet(model.tables) :
        /\ \A g \in ToSet(t.triggers) : Has(model.functions, g.calls)
        /\ \A v \in ToSet(model.views) : Has(t.columns, v.of.column)

WellFormed(models) == {m \in models : DeclaresItsReferences(m)}

-----------------------------------------------------------------------------
(* Per engine: what its generator is meant to carry out *)

PostgresFamilies ==
    {Structure({Orphan}
        \cup Children({"cascade", "no_action"}, {"e1", "e2"}, "pid")),
     Retyped, Seeds, NaturalSeeds, WellFormed(Objects)}

(* No checks; MySQL's index is not the foreign key's. *)
AlterFamily ==
    Structure({Orphan} \cup Children({"cascade", "no_action"}, {}, "y"))

(* On SQL Server an index that stays keeps its column's type: "a" is indexed  *)
(* with one type of "x" only.                                               *)
Indexes(type, model) ==
    \E a \in ToSet(model.tables) :
        a.indexes # <<>> /\ Col("x", type) \in ToSet(a.columns)
SqlServerFamilies ==
    {{m \in AlterFamily : ~Indexes("text", m)},
     {m \in AlterFamily : ~Indexes("int", m) /\ Len(m.tables) < 2}}

SqliteFamilies == {Structure(Children({"cascade"}, {}, "pid")), Seeds, NaturalSeeds}

EveryEngine ==
    [e \in {"postgres", "mysql", "sqlserver", "sqlite"} |->
        CASE e = "postgres" -> PostgresFamilies
          [] e = "sqlite" -> SqliteFamilies
          [] e = "mysql" -> {AlterFamily, Retyped, Seeds, NaturalSeeds}
          [] e = "sqlserver" ->
                SqlServerFamilies \cup {Retyped, Seeds, NaturalSeeds}]

-----------------------------------------------------------------------------
(* A new table with a check. *)
NewCheck ==
    [e \in {"mysql"} |->
        {{EmptyModel,
          Model(<<[Table("a", <<Col("id", "int")>>) EXCEPT
                      !.checks = <<[name |-> "ck", expr |-> "e"]>>]>>)}}]
=============================================================================
