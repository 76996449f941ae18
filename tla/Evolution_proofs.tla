-------------------------- MODULE Evolution_proofs ---------------------------
(***************************************************************************)
(* A migration brings about what it was derived for.  First, its catalog's *)
(* names stay keys, in whatever order operations come (NamesStayKeys).      *)
(* Then, stage by stage of diff.rs (DiffIsStaged), that the structure on    *)
(* the way is the old model's with some operations done, so that with all  *)
(* done it is the new model's, and the old one's again after the rollback   *)
(* (StructureIsCarried, UpMaterialises, DownRollsBack).                     *)
(*                                                                         *)
(* The invariant says of each list of a table, or of the database, what    *)
(* the operations D done so far have left of it: an element stays unless   *)
(* one of them names it, and what one of them puts has come.  That D is    *)
(* what stands before the rest of the list in the stages' order makes it   *)
(* inductive: a name is never put before it is dropped, no column goes     *)
(* before its keys and indexes, and nothing works on a table that SQLite's *)
(* rebuild has already made.                                               *)
(***************************************************************************)
EXTENDS Evolution, SchemaDiff_proofs

-----------------------------------------------------------------------------
(* Sets of named things *)

(* A set whose elements the names tell apart, as a catalog holds. *)
Apart(S) ==
    /\ IsFiniteSet(S)
    /\ \A x, y \in S : x.name = y.name => x = y

(* Such a set has as many names as elements. *)
LEMMA ApartIsUnique ==
    ASSUME NEW S, Apart(S) PROVE UniqueNames(S)
<1> DEFINE T == {x.name : x \in S}
           f == [x \in S |-> x.name]
<1>1. f \in Surjection(S, T)
  BY DEF Surjection
<1>2. f \in Injection(S, T)
  BY DEF Apart, Injection, IsInjective
<1>3. IsFiniteSet(S)
  BY DEF Apart
<1> HIDE DEF f, T
<1>4. Cardinality(T) = Cardinality(S)
  BY <1>1, <1>2, <1>3, FS_Surjection
<1> QED
  BY <1>4, Zenon DEF UniqueNames, T

(* Part of one is one, and one stays one with an element put in the place   *)
(* of its namesake.                                                         *)
LEMMA ApartStays ==
    ASSUME NEW S, Apart(S)
    PROVE  /\ \A T \in SUBSET S : Apart(T)
           /\ \A n : Apart(Less(S, n))
           /\ \A x : Apart(Put(S, x))
<1>1. ASSUME NEW T \in SUBSET S PROVE Apart(T)
  BY FS_Subset DEF Apart
<1>2. ASSUME NEW n PROVE Apart(Less(S, n))
  BY <1>1 DEF Less
<1>3. ASSUME NEW x PROVE Apart(Put(S, x))
  <2>1. IsFiniteSet(Put(S, x))
    <3>1. IsFiniteSet(Less(S, x.name))
      BY <1>2 DEF Apart
    <3> QED
      BY <3>1, FS_AddElement DEF Put
  <2>2. \A y \in Less(S, x.name) : y \in S /\ y.name # x.name
    BY DEF Less
  <2> QED
    BY <2>1, <2>2 DEF Apart, Put
<1> QED
  BY <1>1, <1>2, <1>3

(* And one whose elements are changed but not renamed. *)
LEMMA ApartChanged ==
    ASSUME NEW S, Apart(S), NEW f, DOMAIN f = S, f = [x \in S |-> f[x]],
           \A x \in S : f[x].name = x.name
    PROVE  Apart({f[x] : x \in S})
<1> DEFINE T == {f[x] : x \in S}
<1>1. f \in Surjection(S, T)
  BY DEF Surjection
<1>2. IsFiniteSet(S)
  BY DEF Apart
<1>3. IsFiniteSet(T)
  BY <1>1, <1>2, FS_Surjection
<1> QED
  BY <1>3 DEF Apart

(* So an element of such a list is known by its name. *)
LEMMA ToldByName ==
    ASSUME NEW list, TellsApart(list)
    PROVE  /\ list \in Seq(ToSet(list))
           /\ \A x, y \in ToSet(list) : x.name = y.name => x = y
BY DEF TellsApart, ToSet

(* What a list that tells its elements apart holds. *)
LEMMA ApartInList ==
    ASSUME NEW list, TellsApart(list) PROVE IsList(list) /\ Apart(ToSet(list))
<1>1. IsList(list)
  BY ToldByName DEF IsList
<1>2. Len(list) \in Nat /\ DOMAIN list = 1..Len(list) /\ list \in Seq(ToSet(list))
  BY <1>1, ListFacts
<1>3. IsFiniteSet(1..Len(list))
  BY <1>2, FS_Interval
<1>4. list \in [1..Len(list) -> ToSet(list)]
  BY <1>2
<1>5. list \in Surjection(1..Len(list), ToSet(list))
  BY <1>2, <1>4 DEF Surjection, ToSet
<1>6. IsFiniteSet(ToSet(list))
  BY <1>3, <1>5, FS_Surjection
<1> QED
  BY <1>1, <1>6, ToldByName DEF Apart

(* The element of a name, when there is one. *)
LEMMA Got ==
    ASSUME NEW S, NEW n, In(S, n) PROVE Get(S, n) \in S /\ Get(S, n).name = n
BY Zenon DEF In, Get

-----------------------------------------------------------------------------
(* Catalogs *)

IsHeld(t) ==
    /\ t = [x \in {"name", "columns", "pk", "fks", "checks", "indexes",
                    "triggers", "rows"} |-> t[x]]
    /\ Apart(t.columns) /\ Apart(t.fks) /\ Apart(t.indexes)
    /\ Apart(t.checks) /\ Apart(t.triggers)

(* A catalog's tables and views likewise, and all of its tables. *)
IsCatalog(d) ==
    /\ d = [x \in {"tables", "functions", "views", "raw", "extensions"} |-> d[x]]
    /\ Apart(d.tables) /\ Apart(d.functions) /\ Apart(d.views)
    /\ \A t \in d.tables : IsHeld(t)

(* The lists of a model's table that name the table's parts. *)
HoldableTable(t) ==
    /\ TellsApart(t.columns) /\ TellsApart(t.fks) /\ TellsApart(t.indexes)
    /\ TellsApart(t.checks) /\ TellsApart(t.triggers)

(* The catalog of a model that a database can hold. *)
LEMMA CatalogHeld ==
    ASSUME NEW model, Holdable(model) PROVE IsCatalog(CatalogOf(model))
<1> DEFINE f == [t \in ToSet(model.tables) |->
                   [name |-> t.name, columns |-> ToSet(t.columns), pk |-> t.pk,
                    fks |-> ToSet(t.fks), checks |-> ToSet(t.checks),
                    indexes |-> ToSet(t.indexes),
                    triggers |-> IF DbObjects THEN ToSet(t.triggers) ELSE {},
                    rows |-> ToSet(t.seed)]]
           S == ToSet(model.tables)
<1>1. /\ CatalogOf(model).tables = {f[t] : t \in S}
      /\ CatalogOf(model).functions = IF DbObjects THEN ToSet(model.functions) ELSE {}
      /\ CatalogOf(model).views = ToSet(model.views)
      /\ CatalogOf(model) = [tables |-> CatalogOf(model).tables,
                             functions |-> CatalogOf(model).functions,
                             views |-> CatalogOf(model).views,
                             raw |-> CatalogOf(model).raw,
                             extensions |-> CatalogOf(model).extensions]
  BY DEF CatalogOf
<1>2. Apart({})
  BY FS_EmptySet DEF Apart
<1>3. Apart(S) /\ Apart(ToSet(model.functions)) /\ Apart(ToSet(model.views))
  BY ApartInList DEF Holdable
<1>4. ASSUME NEW t \in S PROVE IsHeld(f[t]) /\ f[t].name = t.name
  <2>1. /\ Apart(ToSet(t.columns)) /\ Apart(ToSet(t.fks)) /\ Apart(ToSet(t.indexes))
        /\ Apart(ToSet(t.checks)) /\ Apart(ToSet(t.triggers))
    BY ApartInList DEF Holdable
  <2> QED
    BY <1>2, <2>1 DEF IsHeld
<1>5. DOMAIN f = S /\ f = [t \in S |-> f[t]]
  OBVIOUS
<1> HIDE DEF f, S
<1>6. Apart({f[t] : t \in S})
  BY <1>3, <1>4, <1>5, ApartChanged
<1>7. \A u \in {f[t] : t \in S} : IsHeld(u)
  BY <1>4
<1> QED
  BY <1>1, <1>2, <1>3, <1>6, <1>7 DEF IsCatalog

(* A table as CREATE TABLE leaves it, and as SQLite's rebuild does. *)
LEMMA NewTableHeld ==
    ASSUME NEW t, HoldableTable(t)
    PROVE  IsHeld(NewTable(t)) /\ NewTable(t).name = t.name
<1>1. /\ Apart(ToSet(t.columns)) /\ Apart(ToSet(t.fks)) /\ Apart(ToSet(t.indexes))
      /\ Apart(ToSet(t.checks)) /\ Apart(ToSet(t.triggers)) /\ Apart({})
  BY ApartInList, FS_EmptySet DEF HoldableTable, Apart
<1> QED
  BY <1>1 DEF NewTable, IsHeld

(* And SQLite's rebuild makes a table of such lists too. *)
LEMMA RebuiltHeld ==
    ASSUME NEW t, NEW x, HoldableTable(x.table)
    PROVE  IsHeld(Rebuilt(t, x)) /\ Rebuilt(t, x).name = x.table.name
<1> DEFINE u == NewTable(x.table)
           rows == {[c \in DOMAIN r \cap x.copy |-> r[c]] : r \in t.rows}
           indexes == ToSet(x.table.indexes)
<1>1. IsHeld(u) /\ u.name = x.table.name /\ Apart(indexes)
  BY NewTableHeld, ApartInList DEF HoldableTable
<1>2. Rebuilt(t, x) = [u EXCEPT !.indexes = indexes, !.rows = rows]
  BY DEF Rebuilt
<1> HIDE DEF u, rows, indexes
<1> QED
  BY <1>1, <1>2 DEF IsHeld

(* A DELETE's referential actions change rows only. *)
LEMMA ChildrenHeld ==
    ASSUME NEW d, IsCatalog(d), NEW p, NEW rows
    PROVE  /\ Apart(WithoutChildren(d, p, rows))
           /\ \A t \in WithoutChildren(d, p, rows) : IsHeld(t)
<1> DEFINE f == [t \in d.tables |->
                   [t EXCEPT !.rows = @ \ UNION {References(t, p, r) : r \in rows}]]
<1>1. ASSUME NEW t \in d.tables PROVE IsHeld(f[t]) /\ f[t].name = t.name
  <2> DEFINE gone == UNION {References(t, p, r) : r \in rows}
  <2>1. f[t] = [t EXCEPT !.rows = @ \ gone]
    OBVIOUS
  <2>2. IsHeld(t)
    BY DEF IsCatalog
  <2> HIDE DEF f, gone
  <2> QED
    BY <2>1, <2>2 DEF IsHeld
<1>2. WithoutChildren(d, p, rows) = {f[t] : t \in d.tables}
  BY Zenon DEF WithoutChildren
<1>3. DOMAIN f = d.tables /\ f = [t \in d.tables |-> f[t]]
  OBVIOUS
<1> HIDE DEF f
<1>4. Apart(d.tables)
  BY DEF IsCatalog
<1>5. Apart({f[t] : t \in d.tables})
  BY <1>1, <1>3, <1>4, ApartChanged
<1> QED
  BY <1>1, <1>2, <1>5

-----------------------------------------------------------------------------
(* What each operation does to a catalog *)

(* The table it names, and the catalog with a table put in place. *)
Named(d, op) == Get(d.tables, op.table)
(* The catalog with a table put in the place of its namesake. *)
Become(d, u) == [d EXCEPT !.tables = Put(@, u)]

(* What diff emits, and Execute can take: each kind with the fields and the   *)
(* payload that the model's types give it.                                   *)
Kinds ==
    {"ensure_extension", "drop_view", "drop_trigger", "drop_fk", "drop_check",
     "drop_index", "create_table", "add_column", "alter_column", "drop_column",
     "add_fk", "add_check", "create_function", "create_index",
     "create_trigger", "rebuild_table", "insert_data", "update_data",
     "delete_data", "raw_sql", "create_view", "drop_table", "drop_function"}

(* An operation of one of these kinds, with the fields of its kind. *)
Shaped(op) ==
    /\ op.kind \in Kinds
    /\ DOMAIN op = {"kind", "table", "arg"} \cup
                   (IF op.kind = "alter_column" THEN {"old"} ELSE {})
    /\ op.kind = "create_table" => HoldableTable(op.arg)
    /\ op.kind = "rebuild_table" => HoldableTable(op.arg.table)

(* The tables of a catalog with one of them changed. *)
LEMMA Replaced ==
    ASSUME NEW d, IsCatalog(d), NEW S, Apart(S), \A t \in S : IsHeld(t),
           NEW u, IsHeld(u)
    PROVE  IsCatalog([d EXCEPT !.tables = Put(S, u)])
<1>1. Apart(Put(S, u))
  BY ApartStays
<1>2. \A t \in Put(S, u) : IsHeld(t)
  BY DEF Put, Less
<1> QED
  BY <1>1, <1>2 DEF IsCatalog

(* One table put in place leaves a catalog. *)
LEMMA Becomes ==
    ASSUME NEW d, IsCatalog(d), NEW u, IsHeld(u)
    PROVE  IsCatalog(Become(d, u))
BY Replaced DEF IsCatalog, Become

(* An operation that the engine takes leaves a catalog. *)
LEMMA ExecuteTyped ==
    ASSUME NEW d, IsCatalog(d), NEW op, Shaped(op), Accepts(d, op)
    PROVE  IsCatalog(Execute(d, op))
<1> DEFINE t == Named(d, op)
<1>1. CASE op.kind \in Skipped
  BY <1>1 DEF Execute
<1>2. CASE op.kind \notin Skipped
  <2>1. op.kind \in {"drop_table", "add_column", "drop_column", "alter_column",
                     "add_fk", "drop_fk", "create_index", "drop_index",
                     "add_check", "drop_check", "create_trigger",
                     "rebuild_table", "insert_data", "update_data", "delete_data"}
           => In(d.tables, op.table)
    BY <1>2 DEF Accepts
  <2>2. In(d.tables, op.table) => t \in d.tables /\ IsHeld(t)
    BY Got DEF IsCatalog, Named
  <2>3. /\ Apart(d.tables) /\ Apart(d.functions) /\ Apart(d.views)
        /\ \A u \in d.tables : IsHeld(u)
    BY DEF IsCatalog
  <2> HIDE DEF t
  <2>4. CASE op.kind = "create_table"
    <3>1. IsHeld(NewTable(op.arg))
      BY <2>4, NewTableHeld DEF Shaped
    <3>2. Execute(d, op) = Become(d, NewTable(op.arg))
      BY <1>2, <2>4 DEF Execute, Become
    <3> QED
      BY <3>1, <3>2, Becomes
  <2>5. CASE op.kind = "drop_table"
    <3> DEFINE S == WithoutChildren(d, t, t.rows)
    <3>1. Apart(S) /\ \A u \in S : IsHeld(u)
      BY ChildrenHeld
    <3>2. Execute(d, op) = [d EXCEPT !.tables = Less(S, t.name)]
      BY <1>2, <2>5 DEF Execute, Become, Named, t
    <3> HIDE DEF S
    <3>3. Apart(Less(S, t.name)) /\ \A u \in Less(S, t.name) : IsHeld(u)
      BY <3>1, ApartStays DEF Less
    <3> QED
      BY <3>2, <3>3 DEF IsCatalog
  <2>6. CASE op.kind \in {"add_column", "alter_column", "drop_column"}
    <3>1. IsHeld(t)
      BY <2>1, <2>2, <2>6
    <3>2. Apart(t.columns) /\ Apart(t.fks) /\ Apart(t.indexes)
      BY <3>1 DEF IsHeld
    <3>3. \A x, n : Apart(Put(t.columns, x)) /\ Apart(Less(t.columns, n))
      BY <3>2, ApartStays
    <3>4. \A n : /\ Apart({f \in t.fks : f.on # n})
                 /\ Apart({i \in t.indexes : i.on # n})
      BY <3>2, ApartStays
    <3>5. CASE op.kind = "add_column"
      <4>1. IsHeld([t EXCEPT !.columns = Put(@, op.arg)])
        BY <3>1, <3>3 DEF IsHeld
      <4>2. Execute(d, op) =
               Become(d, [t EXCEPT !.columns = Put(@, op.arg)])
        BY <1>2, <3>5 DEF Execute, Become, Named, t
      <4> QED
        BY <4>1, <4>2, Becomes
    <3>6. CASE op.kind = "alter_column"
      <4>1. IsHeld([t EXCEPT
                 !.columns = Put(@, AlteredColumn(Get(@, op.arg.name), op.arg))])
        BY <3>1, <3>3 DEF IsHeld
      <4>2. Execute(d, op) =
               Become(d, [t EXCEPT !.columns = Put(@, AlteredColumn(Get(@, op.arg.name), op.arg))])
        BY <1>2, <3>6 DEF Execute, Become, Named, t
      <4> QED
        BY <4>1, <4>2, Becomes
    <3>7. CASE op.kind = "drop_column"
      <4> DEFINE rows == {[c \in DOMAIN r \ {op.arg.name} |-> r[c]] : r \in t.rows}
                 columns == Less(t.columns, op.arg.name)
                 fks == {f \in t.fks : f.on # op.arg.name}
                 indexes == {i \in t.indexes : i.on # op.arg.name}
                 u == [t EXCEPT !.columns = columns, !.fks = fks,
                                !.indexes = indexes, !.rows = rows]
      <4>1. Execute(d, op) = Become(d, u)
        BY <1>2, <3>7 DEF Execute, Become, Named, t
      <4>2. Apart(columns) /\ Apart(fks) /\ Apart(indexes)
        BY <3>3, <3>4
      <4> HIDE DEF rows, columns, fks, indexes
      <4>3. IsHeld(u)
        BY <3>1, <4>2 DEF IsHeld
      <4> HIDE DEF u
      <4> QED
        BY <4>1, <4>3, Becomes
    <3> QED
      BY <2>6, <3>5, <3>6, <3>7
  <2>7. CASE op.kind \in {"add_fk", "drop_fk", "create_index", "drop_index",
                          "add_check", "drop_check", "create_trigger"}
    <3>1. IsHeld(t)
      BY <2>1, <2>2, <2>7
    <3>2. Apart(t.fks) /\ Apart(t.indexes) /\ Apart(t.checks) /\ Apart(t.triggers)
      BY <3>1 DEF IsHeld
    <3>3. \A x, n : /\ Apart(Put(t.fks, x)) /\ Apart(Less(t.fks, n))
                    /\ Apart(Put(t.indexes, x)) /\ Apart(Less(t.indexes, n))
                    /\ Apart(Put(t.checks, x)) /\ Apart(Less(t.checks, n))
                    /\ Apart(Put(t.triggers, x))
      BY <3>2, ApartStays
    <3> SUFFICES \E u : IsHeld(u) /\ Execute(d, op) = Become(d, u)
      BY Becomes
    <3>4. CASE op.kind = "add_fk"
      <4>1. IsHeld([t EXCEPT !.fks = Put(@, op.arg)])
        BY <3>1, <3>3 DEF IsHeld
      <4>2. Execute(d, op) = Become(d, [t EXCEPT !.fks = Put(@, op.arg)])
        BY <1>2, <3>4 DEF Execute, Become, Named, t
      <4> QED
        BY <4>1, <4>2
    <3>5. CASE op.kind = "drop_fk"
      <4>1. IsHeld([t EXCEPT !.fks = Less(@, op.arg.name)])
        BY <3>1, <3>3 DEF IsHeld
      <4>2. Execute(d, op) = Become(d, [t EXCEPT !.fks = Less(@, op.arg.name)])
        BY <1>2, <3>5 DEF Execute, Become, Named, t
      <4> QED
        BY <4>1, <4>2
    <3>6. CASE op.kind = "create_index"
      <4>1. IsHeld([t EXCEPT !.indexes = Put(@, op.arg)])
        BY <3>1, <3>3 DEF IsHeld
      <4>2. Execute(d, op) = Become(d, [t EXCEPT !.indexes = Put(@, op.arg)])
        BY <1>2, <3>6 DEF Execute, Become, Named, t
      <4> QED
        BY <4>1, <4>2
    <3>7. CASE op.kind = "drop_index"
      <4>1. IsHeld([t EXCEPT !.indexes = Less(@, op.arg.name)])
        BY <3>1, <3>3 DEF IsHeld
      <4>2. Execute(d, op) = Become(d, [t EXCEPT !.indexes = Less(@, op.arg.name)])
        BY <1>2, <3>7 DEF Execute, Become, Named, t
      <4> QED
        BY <4>1, <4>2
    <3>8. CASE op.kind = "add_check"
      <4>1. IsHeld([t EXCEPT !.checks = Put(@, op.arg)])
        BY <3>1, <3>3 DEF IsHeld
      <4>2. Execute(d, op) = Become(d, [t EXCEPT !.checks = Put(@, op.arg)])
        BY <1>2, <3>8 DEF Execute, Become, Named, t
      <4> QED
        BY <4>1, <4>2
    <3>9. CASE op.kind = "drop_check"
      <4>1. IsHeld([t EXCEPT !.checks = Less(@, op.arg.name)])
        BY <3>1, <3>3 DEF IsHeld
      <4>2. Execute(d, op) = Become(d, [t EXCEPT !.checks = Less(@, op.arg.name)])
        BY <1>2, <3>9 DEF Execute, Become, Named, t
      <4> QED
        BY <4>1, <4>2
    <3>10. CASE op.kind = "create_trigger"
      <4>1. IsHeld([t EXCEPT !.triggers = Put(@, op.arg)])
        BY <3>1, <3>3 DEF IsHeld
      <4>2. Execute(d, op) = Become(d, [t EXCEPT !.triggers = Put(@, op.arg)])
        BY <1>2, <3>10 DEF Execute, Become, Named, t
      <4> QED
        BY <4>1, <4>2
    <3> QED
      BY <2>7, <3>4, <3>5, <3>6, <3>7, <3>8, <3>9, <3>10
  <2>8. CASE op.kind = "drop_trigger"
    <3>1. CASE In(d.tables, op.table)
      <4>1. IsHeld(t)
        BY <2>2, <3>1
      <4>2. Apart(Less(t.triggers, op.arg.name))
        BY <4>1, ApartStays DEF IsHeld
      <4>3. IsHeld([t EXCEPT !.triggers = Less(@, op.arg.name)])
        BY <4>1, <4>2 DEF IsHeld
      <4>4. Execute(d, op) = Become(d, [t EXCEPT !.triggers = Less(@, op.arg.name)])
        BY <1>2, <2>8, <3>1 DEF Execute, Become, Named, t
      <4> QED
        BY <4>3, <4>4, Becomes
    <3> QED
      BY <1>2, <2>8, <3>1 DEF Execute, Become
  <2>9. CASE op.kind = "rebuild_table"
    <3> DEFINE S == WithoutChildren(d, t, t.rows)
    <3>1. Apart(S) /\ \A u \in S : IsHeld(u)
      BY ChildrenHeld
    <3>2. IsHeld(Rebuilt(t, op.arg))
      BY <2>9, RebuiltHeld DEF Shaped
    <3>3. Execute(d, op) = [d EXCEPT !.tables = Put(S, Rebuilt(t, op.arg))]
      BY <1>2, <2>9 DEF Execute, Become, Named, t
    <3> HIDE DEF S
    <3> QED
      BY <3>1, <3>2, <3>3, Replaced
  <2>10. CASE op.kind \in {"insert_data", "update_data", "delete_data"}
    <3>1. IsHeld(t)
      BY <2>1, <2>2, <2>10
    <3>2. \A rows : IsHeld([t EXCEPT !.rows = rows])
      BY <3>1 DEF IsHeld
    <3>3. CASE op.kind = "insert_data"
      <4>1. Execute(d, op) = Become(d, [t EXCEPT !.rows = @ \cup {op.arg}])
        BY <1>2, <3>3 DEF Execute, Become, Named, t
      <4> QED
        BY <3>2, <4>1, Becomes
    <3>4. CASE op.kind = "update_data"
      <4>1. PICK rows : Execute(d, op) = Become(d, [t EXCEPT !.rows = rows])
        BY <1>2, <3>4 DEF Execute, Become, Named, t
      <4> QED
        BY <3>2, <4>1, Becomes
    <3>5. CASE op.kind = "delete_data"
      <4>1. PICK rows, gone :
               Execute(d, op) = [d EXCEPT !.tables =
                   Put(WithoutChildren(d, t, gone), [t EXCEPT !.rows = rows])]
        BY <1>2, <3>5 DEF Execute, Become, Named, t
      <4>2. /\ Apart(WithoutChildren(d, t, gone))
            /\ \A u \in WithoutChildren(d, t, gone) : IsHeld(u)
        BY ChildrenHeld
      <4> QED
        BY <3>2, <4>1, <4>2, Replaced
    <3> QED
      BY <2>10, <3>3, <3>4, <3>5
  <2>11. CASE op.kind \in {"create_function", "drop_function", "create_view",
                           "drop_view", "raw_sql", "ensure_extension"}
    <3>1. \A x, n : /\ Apart(Put(d.functions, x)) /\ Apart(Less(d.functions, n))
                    /\ Apart(Put(d.views, x)) /\ Apart(Less(d.views, n))
      BY <2>3, ApartStays
    <3>2. CASE op.kind = "create_function"
      <4>1. IsCatalog([d EXCEPT !.functions = Put(@, op.arg)])
        BY <3>1 DEF IsCatalog
      <4> QED
        BY <1>2, <3>2, <4>1 DEF Execute
    <3>3. CASE op.kind = "drop_function"
      <4>1. IsCatalog([d EXCEPT !.functions = Less(@, op.arg.name)])
        BY <3>1 DEF IsCatalog
      <4> QED
        BY <1>2, <3>3, <4>1 DEF Execute
    <3>4. CASE op.kind = "create_view"
      <4>1. IsCatalog([d EXCEPT !.views = Put(@, op.arg)])
        BY <3>1 DEF IsCatalog
      <4> QED
        BY <1>2, <3>4, <4>1 DEF Execute
    <3>5. CASE op.kind = "drop_view"
      <4>1. IsCatalog([d EXCEPT !.views = Less(@, op.arg.name)])
        BY <3>1 DEF IsCatalog
      <4> QED
        BY <1>2, <3>5, <4>1 DEF Execute
    <3>6. CASE op.kind = "raw_sql"
      <4>1. IsCatalog([d EXCEPT !.raw = @ \cup {op.arg}])
        BY <3>1 DEF IsCatalog
      <4> QED
        BY <1>2, <3>6, <4>1 DEF Execute
    <3>7. CASE op.kind = "ensure_extension"
      <4>1. IsCatalog([d EXCEPT !.extensions = @ \cup {op.arg}])
        BY <3>1 DEF IsCatalog
      <4> QED
        BY <1>2, <3>7, <4>1 DEF Execute
    <3> QED
      BY <2>11, <3>2, <3>3, <3>4, <3>5, <3>6, <3>7
  <2> QED
    BY <2>4, <2>5, <2>6, <2>7, <2>8, <2>9, <2>10, <2>11 DEF Shaped, Kinds
<1> QED
  BY <1>1, <1>2

-----------------------------------------------------------------------------
(* What a difference of two holdable models holds *)

(* A holdable model is one the differ's lemmas are about. *)
LEMMA HoldableIsModel ==
    ASSUME NEW model, Holdable(model)
    PROVE  /\ IsModel(model)
           /\ \A t \in ToSet(model.tables) : HoldableTable(t) /\ IsTable(t)
<1>1. ASSUME NEW t \in ToSet(model.tables)
      PROVE  HoldableTable(t) /\ IsTable(t)
  <2>1. IsList(t.seed) /\ HoldableTable(t)
    BY DEF Holdable, HoldableTable, IsList
  <2>2. /\ IsList(t.columns) /\ IsList(t.fks) /\ IsList(t.indexes)
        /\ IsList(t.checks) /\ IsList(t.triggers)
    BY <2>1, ApartInList DEF HoldableTable
  <2> QED
    BY <2>1, <2>2 DEF IsTable
<1>2. /\ IsList(model.tables) /\ IsList(model.functions)
      /\ IsList(model.views) /\ IsList(model.raw) /\ IsFiniteSet(model.extensions)
  BY ApartInList DEF Holdable
<1> QED
  BY <1>1, <1>2 DEF IsModel

(* An operation without more to it than its name and payload. *)
LEMMA PlainIsShaped ==
    ASSUME NEW kind, NEW table, NEW x,
           kind \in Kinds \ {"alter_column", "create_table", "rebuild_table"}
    PROVE  Shaped(Operation(kind, table, x))
BY DEF Operation, Shaped

(* Whatever the differ emits for holdable models has its kind's shape. *)
LEMMA EmittedIsShaped ==
    ASSUME NEW a, NEW b, Holdable(a), Holdable(b), NEW op, IsEmitted(op, a, b)
    PROVE  Shaped(op)
<1> DEFINE Plain == \E k \in Kinds \ {"alter_column", "create_table", "rebuild_table"} :
                      \E n, x : op = Operation(k, n, x)
<1>1. Plain => Shaped(op)
  BY PlainIsShaped
<1>2. CASE IsForDatabase(op, a, b)
  <2>1. Plain
    BY <1>2 DEF IsForDatabase, IsDrop, IsAdd, IsMissing, Kinds
  <2> QED
    BY <1>1, <2>1
<1>3. ASSUME NEW t \in ToSet(b.tables), Has(a.tables, t.name),
             IsForKept(op, Find(a.tables, t.name), t)
      PROVE  Shaped(op)
  <2> DEFINE old == Find(a.tables, t.name)
  <2>1. IsTable(t) /\ HoldableTable(t) /\ IsTable(old)
    BY <1>3, HoldableIsModel, FindFacts DEF IsModel
  <2>2. op \in ToSet(DiffSeedData(old, t)) => IsRowChange(op, old, t)
    BY <2>1, RowsHold
  <2> HIDE DEF old
  <2>3. CASE IsRowChange(op, old, t)
    <3>1. Plain
      BY <2>3 DEF IsRowChange, Kinds
    <3> QED
      BY <1>1, <3>1
  <2>4. CASE IsRebuild(op, old, t)
    BY <2>1, <2>4 DEF IsRebuild, Shaped, Operation, Kinds
  <2>5. CASE IsColumnChange(op, old, t)
    <3>1. CASE IsAlter(op, t.name, t.columns, old.columns)
      BY <3>1 DEF IsAlter, Shaped, Kinds
    <3>2. CASE ~IsAlter(op, t.name, t.columns, old.columns)
      <4>1. Plain
        BY <2>5, <3>2 DEF IsColumnChange, IsMissing, Kinds
      <4> QED
        BY <1>1, <4>1
    <3> QED
      BY <3>1, <3>2
  <2>6. CASE \/ IsDrop(op, "drop_trigger", t.name, t.triggers, old.triggers)
             \/ IsDrop(op, "drop_fk", t.name, t.fks, old.fks)
             \/ IsDrop(op, "drop_check", t.name, t.checks, old.checks)
             \/ IsMissing(op, "drop_index", t.name, old.indexes, t.indexes)
             \/ IsAdd(op, "add_fk", t.name, t.fks, old.fks)
             \/ IsAdd(op, "add_check", t.name, t.checks, old.checks)
             \/ IsMissing(op, "create_index", t.name, t.indexes, old.indexes)
             \/ IsAdd(op, "create_trigger", t.name, t.triggers, old.triggers)
    <3>1. Plain
      BY <2>6 DEF IsDrop, IsAdd, IsMissing, Kinds
    <3> QED
      BY <1>1, <3>1
  <2> QED
    BY <1>3, <2>2, <2>3, <2>4, <2>5, <2>6 DEF IsForKept, old
<1>4. ASSUME NEW t \in ToSet(b.tables), IsForCreated(op, t) PROVE Shaped(op)
  <2>1. CASE op = Operation("create_table", t.name, t)
    BY <2>1, HoldableIsModel DEF Operation, Shaped, Kinds
  <2>2. CASE op # Operation("create_table", t.name, t)
    <3>1. Plain
      BY <1>4, <2>2 DEF IsForCreated, IsOneOf, Kinds
    <3> QED
      BY <1>1, <3>1
  <2> QED
    BY <2>1, <2>2
<1>5. ASSUME NEW t \in ToSet(a.tables), IsForRemoved(op, t) PROVE Shaped(op)
  <2>1. Plain
    BY <1>5 DEF IsForRemoved, IsOneOf, Kinds
  <2> QED
    BY <1>1, <2>1
<1> QED
  BY <1>2, <1>3, <1>4, <1>5 DEF IsEmitted

(* A difference is a list of such operations. *)
LEMMA DiffIsShaped ==
    ASSUME NEW a, NEW b, Holdable(a), Holdable(b)
    PROVE  IsList(Diff(a, b)) /\ \A op \in ToSet(Diff(a, b)) : Shaped(op)
<1>1. /\ UpToStage(Diff(a, b), 19)
      /\ \A op : op \in ToSet(Diff(a, b)) <=> IsEmitted(op, a, b)
  BY HoldableIsModel, DiffHolds
<1> QED
  BY <1>1, EmittedIsShaped DEF UpToStage

(* What is left of a list when its first is gone. *)
LEMMA TailFacts ==
    ASSUME NEW s, IsList(s), s # <<>>
    PROVE  /\ IsList(Tail(s)) /\ Head(s) \in ToSet(s)
           /\ ToSet(s) = {Head(s)} \cup ToSet(Tail(s))
<1>1. PICK S : s \in Seq(S)
  BY DEF IsList
<1>2. /\ Tail(s) \in Seq(S) /\ Head(s) = s[1] /\ Len(s) \in Nat /\ Len(s) # 0
      /\ DOMAIN s = 1..Len(s) /\ DOMAIN Tail(s) = 1..(Len(s) - 1)
      /\ \A i \in 1..(Len(s) - 1) : Tail(s)[i] = s[i + 1]
  BY <1>1
<1>3. \A i \in 1..Len(s) : i = 1 \/ \E j \in 1..(Len(s) - 1) : i = j + 1
  <2> TAKE i \in 1..Len(s)
  <2>1. i # 1 => i - 1 \in 1..(Len(s) - 1) /\ i = (i - 1) + 1
    BY <1>2
  <2> QED
    BY <2>1
<1>4. 1 \in 1..Len(s) /\ \A j \in 1..(Len(s) - 1) : j + 1 \in 1..Len(s)
  BY <1>2
<1>5. ASSUME NEW x
      PROVE  x \in ToSet(s) <=> x = Head(s) \/ x \in ToSet(Tail(s))
  <2>1. x \in ToSet(s) <=> \E i \in 1..Len(s) : x = s[i]
    BY <1>2 DEF ToSet
  <2>2. x \in ToSet(Tail(s)) <=> \E j \in 1..(Len(s) - 1) : x = s[j + 1]
    BY <1>2 DEF ToSet
  <2> QED
    BY <1>2, <1>3, <1>4, <2>1, <2>2
<1>6. IsList(Tail(s))
  BY <1>2 DEF IsList
<1> QED
  BY <1>5, <1>6

-----------------------------------------------------------------------------
(* The migration *)

(* What every state has: models of one family, operations that diff emits,   *)
(* and a catalog.                                                           *)
Typed ==
    /\ engine \in DOMAIN Families
    /\ \E family \in Families[engine] : from \in family /\ to \in family
    /\ phase \in {"up", "down", "done"}
    /\ IsList(todo) /\ \A op \in ToSet(todo) : Shaped(op)
    /\ IsCatalog(db)

(* The models of a typed state are ones a database can hold. *)
LEMMA TypedIsHoldable ==
    ASSUME Typed PROVE Holdable(from) /\ Holdable(to)
BY FamiliesAssumption DEF Typed

(* Every step keeps the models, the operations' shapes and the catalog. *)
LEMMA TypedInvariant == Spec => []Typed
<1>1. Init => Typed
  <2> SUFFICES ASSUME Init PROVE Typed
    OBVIOUS
  <2>1. Holdable(from) /\ Holdable(to)
    BY FamiliesAssumption DEF Init
  <2>2. IsCatalog(CatalogOf(from))
    BY <2>1, CatalogHeld
  <2> QED
    BY <2>1, <2>2, DiffIsShaped DEF Init, Typed
<1>2. Typed /\ [Next]_vars => Typed'
  <2> SUFFICES ASSUME Typed, [Next]_vars PROVE Typed'
    OBVIOUS
  <2>1. Holdable(from) /\ Holdable(to)
    BY TypedIsHoldable
  <2>2. CASE RunOperation
    <3>1. /\ todo # <<>> /\ Accepts(db, Head(todo))
          /\ db' = Execute(db, Head(todo)) /\ todo' = Tail(todo)
          /\ UNCHANGED <<engine, from, to, phase>>
      BY <2>2 DEF RunOperation
    <3>2. /\ IsList(Tail(todo)) /\ Head(todo) \in ToSet(todo)
          /\ \A op \in ToSet(Tail(todo)) : op \in ToSet(todo)
      BY <3>1, TailFacts DEF Typed
    <3>3. IsCatalog(Execute(db, Head(todo)))
      BY <3>1, <3>2, ExecuteTyped DEF Typed
    <3>4. IsCatalog(db')
      BY <3>1, <3>3
    <3>5. IsList(todo') /\ \A op \in ToSet(todo') : Shaped(op)
      BY <3>1, <3>2 DEF Typed
    <3> QED
      BY <3>1, <3>4, <3>5 DEF Typed
  <2>3. CASE Revert
    <3>1. /\ phase' = "down" /\ todo' = Diff(to, from)
          /\ UNCHANGED <<engine, from, to, db>>
      BY <2>3 DEF Revert
    <3>2. IsList(todo') /\ \A op \in ToSet(todo') : Shaped(op)
      BY <2>1, <3>1, DiffIsShaped
    <3> QED
      BY <3>1, <3>2 DEF Typed
  <2>4. CASE Reverted
    BY <2>4 DEF Reverted, Typed
  <2>5. CASE UNCHANGED vars
    BY <2>5 DEF vars, Typed
  <2> QED
    BY <2>2, <2>3, <2>4, <2>5 DEF Next
<1> QED
  BY <1>1, <1>2, PTL DEF Spec

(* The catalog's names stay keys: whatever order the operations of either     *)
(* phase come in, no two objects of a kind ever share one.                  *)
THEOREM NamesStayKeys == Spec => []TypeOK
<1>1. Typed => TypeOK
  <2> SUFFICES ASSUME Typed PROVE TypeOK
    OBVIOUS
  <2>1. \E family \in Families[engine] : {from, to} \subseteq family
    BY DEF Typed
  <2>2. \A i \in DOMAIN todo :
           DOMAIN todo[i] = {"kind", "table", "arg"} \cup
               (IF todo[i].kind = "alter_column" THEN {"old"} ELSE {})
    BY DEF Typed, Shaped, ToSet
  <2>3. UniqueNames(db.tables) /\ UniqueNames(db.functions) /\ UniqueNames(db.views)
    BY ApartIsUnique DEF Typed, IsCatalog
  <2>4. ASSUME NEW t \in db.tables
        PROVE  /\ UniqueNames(t.columns) /\ UniqueNames(t.fks) /\ UniqueNames(t.indexes)
               /\ UniqueNames(t.checks) /\ UniqueNames(t.triggers)
    BY ApartIsUnique DEF Typed, IsCatalog, IsHeld
  <2> QED
    BY <2>1, <2>2, <2>3, <2>4 DEF Typed, TypeOK
<1> QED
  BY <1>1, TypedInvariant, PTL

-----------------------------------------------------------------------------
(* What generator and engine carry out *)

(* What a table of b starts from: the one of its name, or what CREATE TABLE   *)
(* makes of it.                                                             *)
Base(e, a, t) ==
    IF Has(a.tables, t.name) THEN Find(a.tables, t.name)
    ELSE [name |-> t.name, columns |-> t.columns, pk |-> t.pk,
          fks |-> IF e = "sqlite" THEN t.fks ELSE <<>>,
          checks |-> t.checks, indexes |-> <<>>, triggers |-> <<>>,
          seed |-> <<>>]

(* Nothing is redefined under its name. *)
SameIfNamed(old, new) ==
    \A x \in ToSet(old), y \in ToSet(new) : x.name = y.name => x = y

(* What of a table the differ sees and the generator and engine carry out.   *)
(* Keys are on columns there are; the primary key is not compared at all, an *)
(* index by name only; Postgres's ALTER leaves the default; SQLite's rebuild *)
(* is asked for by the foreign keys' names, and its tables have no checks.   *)
CarriedTable(e, old, t) ==
    /\ \A f \in ToSet(t.fks) : Has(t.columns, f.on)
    /\ \A i \in ToSet(t.indexes) : Has(t.columns, i.on)
    /\ old.pk = t.pk
    /\ SameIfNamed(old.indexes, t.indexes)
    /\ e = "postgres" =>
          \A c \in ToSet(old.columns), x \in ToSet(t.columns) :
              c.name = x.name /\ c # x => [x EXCEPT !.default = c.default] = x
    /\ e = "sqlite" => SameIfNamed(old.fks, t.fks)
    /\ e = "sqlite" => old.checks = <<>> /\ t.checks = <<>>

(* All tables are such; MySQL and SQL Server create a table without its *)
(* checks, and raw DDL is compared by name.                             *)
Carried(e, a, b) ==
    /\ \A t \in ToSet(b.tables) :
          /\ CarriedTable(e, Base(e, a, t), t)
          /\ e # "postgres" /\ ~Has(a.tables, t.name) => t.checks = <<>>
    /\ SameIfNamed(a.raw, b.raw)

(* A catalog that has all that a model describes, but for rows. *)
IsAs(e, u, t) ==
    /\ u.columns = ToSet(t.columns) /\ u.pk = t.pk /\ u.fks = ToSet(t.fks)
    /\ u.checks = ToSet(t.checks) /\ u.indexes = ToSet(t.indexes)
    /\ u.triggers = IF e = "postgres" THEN ToSet(t.triggers) ELSE {}

(* The whole catalog, but for rows and for what is only ever added. *)
HasStructure(e, d, m) ==
    /\ \A u \in d.tables : Has(m.tables, u.name)
    /\ \A t \in ToSet(m.tables) : In(d.tables, t.name) /\ IsAs(e, Get(d.tables, t.name), t)
    /\ d.functions = IF e = "postgres" THEN ToSet(m.functions) ELSE {}
    /\ d.views = ToSet(m.views)
    /\ ToSet(m.raw) \subseteq d.raw
    /\ e = "postgres" => WantedExtensions(m) \subseteq d.extensions

(* What is left of a list's elements, and has come to them, when the          *)
(* operations D are done.                                                   *)
OfKind(D, n, kinds) == {op \in D : op.table = n /\ op.kind \in kinds}
(* What the operations put there ... *)
Came(D, n, put) == {op.arg : op \in OfKind(D, n, put)}
(* ... and it with what they have neither dropped nor replaced. *)
Left(X, D, n, drop, put) ==
    {x \in X : \A op \in OfKind(D, n, drop \cup put) : op.arg.name # x.name}
      \cup Came(D, n, put)

(* A table's columns; then its indexes, keys, checks and triggers. *)
ColumnsLeft(old, t, D) ==
    Left(ToSet(old.columns), D, t.name, {"drop_column"}, {"add_column", "alter_column"})
IndexesLeft(old, t, D) ==
    Left(ToSet(old.indexes), D, t.name, {"drop_index"}, {"create_index"})
FksLeft(e, old, t, D) ==
    IF e = "sqlite" THEN ToSet(old.fks)
    ELSE Left(ToSet(old.fks), D, t.name, {"drop_fk"}, {"add_fk"})
ChecksLeft(e, old, t, D) ==
    IF e = "sqlite" THEN {}
    ELSE Left(ToSet(old.checks), D, t.name, {"drop_check"}, {"add_check"})
TriggersLeft(e, old, t, D) ==
    IF e # "postgres" THEN {}
    ELSE Left(ToSet(old.triggers), D, t.name, {"drop_trigger"}, {"create_trigger"})

(* A table on the way from its base to what it is to be.  One that SQLite     *)
(* rebuilds is that at once, and anything before.                           *)
IsRebuilt(D, t) == OfKind(D, t.name, {"rebuild_table"}) # {}

(* A table u on its way to t. *)
TableMidway(e, old, t, D, u) ==
    /\ u.pk = t.pk
    /\ u.checks = ChecksLeft(e, old, t, D)
    /\ u.triggers = TriggersLeft(e, old, t, D)
    /\ IF e = "sqlite" /\ NeedsRebuild(old, t)
       THEN IsRebuilt(D, t) =>
              /\ u.columns = ToSet(t.columns) /\ u.fks = ToSet(t.fks)
              /\ u.indexes = ToSet(t.indexes)
       ELSE /\ u.columns = ColumnsLeft(old, t, D)
            /\ u.indexes = IndexesLeft(old, t, D)
            /\ u.fks = FksLeft(e, old, t, D)

(* The tables of a catalog on its way from a to b: created ones are there, *)
(* dropped ones may be, and each is on its own way.                        *)
TablesMidway(e, a, b, D, d) ==
    /\ \A t \in ToSet(b.tables) :
          Has(a.tables, t.name) \/ OfKind(D, t.name, {"create_table"}) # {}
             => In(d.tables, t.name)
    /\ \A u \in d.tables :
          \/ Has(b.tables, u.name)
          \/ Has(a.tables, u.name) /\ OfKind(D, u.name, {"drop_table"}) = {}
    /\ \A t \in ToSet(b.tables) :
          In(d.tables, t.name)
             => TableMidway(e, Base(e, a, t), t, D, Get(d.tables, t.name))

(* What is no table's, likewise. *)
FunctionsLeft(X, D) == Left(X, D, Everywhere, {"drop_function"}, {"create_function"})
ViewsLeft(X, D) == Left(X, D, Everywhere, {"drop_view"}, {"create_view"})

(* Functions and views on their way, and what has been added so far. *)
RestMidway(e, a, b, D, d) ==
    /\ d.functions = IF e = "postgres" THEN FunctionsLeft(ToSet(a.functions), D) ELSE {}
    /\ d.views = ViewsLeft(ToSet(a.views), D)
    /\ ToSet(a.raw) \cup Came(D, Everywhere, {"raw_sql"}) \subseteq d.raw
    /\ e = "postgres" =>
          WantedExtensions(a) \cup Came(D, Everywhere, {"ensure_extension"})
             \subseteq d.extensions

-----------------------------------------------------------------------------
(* Steps of what is left *)

(* An operation of another object or kind leaves it as it is. *)
LEMMA LeftOther ==
    ASSUME NEW D, NEW n, NEW kinds, NEW op, op.table # n \/ op.kind \notin kinds
    PROVE  OfKind(D \cup {op}, n, kinds) = OfKind(D, n, kinds)
BY DEF OfKind

(* What is left stays as it is when another's operation is done. *)
LEMMA LeftStays ==
    ASSUME NEW X, NEW D, NEW n, NEW drop, NEW put, NEW op,
           op.table # n \/ op.kind \notin drop \cup put
    PROVE  Left(X, D \cup {op}, n, drop, put) = Left(X, D, n, drop, put)
<1>1. /\ OfKind(D \cup {op}, n, drop \cup put) = OfKind(D, n, drop \cup put)
      /\ OfKind(D \cup {op}, n, put) = OfKind(D, n, put)
  BY LeftOther
<1> QED
  BY <1>1, Zenon DEF Left, Came

(* Putting an element, or dropping one, is what one more operation leaves. *)
PutIsLeft(X, D, op, drop, put) ==
    Put(Left(X, D, op.table, drop, put), op.arg)
      = Left(X, D \cup {op}, op.table, drop, put)

(* And the same of dropping one. *)
LessIsLeft(X, D, op, drop, put) ==
    Less(Left(X, D, op.table, drop, put), op.arg.name)
      = Left(X, D \cup {op}, op.table, drop, put)

(* Of an element's name, only it has been put there; or nothing has. *)
OnlyItCame(D, n, put, x) == \A y \in Came(D, n, put) : y.name = x.name => y = x
NoneCame(D, n, put, name) == \A y \in Came(D, n, put) : y.name # name

(* Putting an element is then what the operation that puts it leaves. *)
LEMMA LeftPut ==
    ASSUME NEW X, NEW D, NEW drop, NEW put, NEW op, op.kind \in put,
           OnlyItCame(D, op.table, put, op.arg)
    PROVE  PutIsLeft(X, D, op, drop, put)
<1> DEFINE n == op.table
           all == OfKind(D, n, drop \cup put)
           came == Came(D, n, put)
<1>1. op.kind \in drop \cup put
  OBVIOUS
<1>2. /\ OfKind(D \cup {op}, n, drop \cup put) = all \cup {op}
      /\ OfKind(D \cup {op}, n, put) = OfKind(D, n, put) \cup {op}
  BY <1>1 DEF OfKind
<1>3. Came(D \cup {op}, n, put) = came \cup {op.arg}
  BY <1>2 DEF Came
<1>4. Left(X, D, n, drop, put) = {x \in X : \A o \in all : o.arg.name # x.name} \cup came
  BY DEF Left
<1>5. Left(X, D \cup {op}, n, drop, put)
         = {x \in X : \A o \in all \cup {op} : o.arg.name # x.name} \cup came \cup {op.arg}
  BY <1>2, <1>3 DEF Left
<1> HIDE DEF all, came, n
<1>6. \A y \in came : y.name = op.arg.name => y = op.arg
  BY DEF came, n, OnlyItCame
<1>7. Put({x \in X : \A o \in all : o.arg.name # x.name} \cup came, op.arg)
         = {x \in X : \A o \in all \cup {op} : o.arg.name # x.name} \cup came \cup {op.arg}
  BY <1>6 DEF Put, Less
<1> QED
  BY <1>4, <1>5, <1>7 DEF n, PutIsLeft

(* And dropping one what the operation that drops it leaves. *)
LEMMA LeftLess ==
    ASSUME NEW X, NEW D, NEW drop, NEW put, NEW op, op.kind \in drop, op.kind \notin put,
           NoneCame(D, op.table, put, op.arg.name)
    PROVE  LessIsLeft(X, D, op, drop, put)
<1> DEFINE n == op.table
           all == OfKind(D, n, drop \cup put)
           came == Came(D, n, put)
<1>1. op.kind \in drop \cup put
  OBVIOUS
<1>2. /\ OfKind(D \cup {op}, n, drop \cup put) = all \cup {op}
      /\ OfKind(D \cup {op}, n, put) = OfKind(D, n, put)
  BY <1>1 DEF OfKind
<1>3. Left(X, D, n, drop, put) = {x \in X : \A o \in all : o.arg.name # x.name} \cup came
  BY DEF Left
<1>4. Left(X, D \cup {op}, n, drop, put)
         = {x \in X : \A o \in all \cup {op} : o.arg.name # x.name} \cup came
  BY <1>2 DEF Left, Came
<1> HIDE DEF all, came, n
<1>5. \A y \in came : y.name # op.arg.name
  BY DEF came, n, NoneCame
<1>6. Less({x \in X : \A o \in all : o.arg.name # x.name} \cup came, op.arg.name)
         = {x \in X : \A o \in all \cup {op} : o.arg.name # x.name} \cup came
  BY <1>5 DEF Less
<1> QED
  BY <1>3, <1>4, <1>6 DEF n, LessIsLeft

-----------------------------------------------------------------------------
(* A list's differences *)

(* In a list that tells its elements apart, Find is the element of the name. *)
LEMMA FindApart ==
    ASSUME NEW list, TellsApart(list), NEW x \in ToSet(list)
    PROVE  Has(list, x.name) /\ Find(list, x.name) = x
<1>1. IsList(list) /\ Has(list, x.name)
  BY ApartInList DEF Has, Names
<1> QED
  BY <1>1, FindFacts, ToldByName

(* When what the new list has more is put, and what it lacks is dropped and    *)
(* nothing that both have, the new list's elements are what is left.        *)
LEMMA LeftAll ==
    ASSUME NEW old, NEW new, TellsApart(old), TellsApart(new), NEW D, NEW n,
           NEW drop, NEW put,
           \A op \in OfKind(D, n, put) : op.arg \in ToSet(new),
           \A y \in ToSet(new) : y \notin ToSet(old) =>
               \E op \in OfKind(D, n, put) : op.arg = y,
           \A op \in OfKind(D, n, drop) : \A y \in ToSet(old) :
               y \in ToSet(new) => op.arg.name # y.name,
           \A x \in ToSet(old) : ~Has(new, x.name) =>
               \E op \in OfKind(D, n, drop) : op.arg.name = x.name
    PROVE  Left(ToSet(old), D, n, drop, put) = ToSet(new)
<1> DEFINE X == ToSet(old)
           Y == ToSet(new)
           puts == OfKind(D, n, put)
           drops == OfKind(D, n, drop)
<1>1. OfKind(D, n, drop \cup put) = drops \cup puts
  BY DEF OfKind
<1>2. Left(X, D, n, drop, put) =
         {x \in X : \A op \in drops \cup puts : op.arg.name # x.name}
           \cup {op.arg : op \in puts}
  BY <1>1, Zenon DEF Left, Came
<1>3. /\ \A x, y \in X : x.name = y.name => x = y
      /\ \A x, y \in Y : x.name = y.name => x = y
      /\ \A z : Has(new, z) => \E y \in Y : y.name = z
  BY ToldByName DEF Has, Names
<1>4. /\ \A op \in puts : op.arg \in Y
      /\ \A y \in Y : y \notin X => \E op \in puts : op.arg = y
      /\ \A op \in drops : \A y \in X : y \in Y => op.arg.name # y.name
      /\ \A x \in X : ~Has(new, x.name) => \E op \in drops : op.arg.name = x.name
  OBVIOUS
<1> HIDE DEF X, Y, puts, drops
<1>5. ASSUME NEW x \in X, \A op \in drops \cup puts : op.arg.name # x.name
      PROVE  x \in Y
  <2>1. PICK y \in Y : y.name = x.name
    BY <1>3, <1>4, <1>5
  <2>2. y \in X
    BY <1>4, <1>5, <2>1
  <2> QED
    BY <1>3, <2>1, <2>2
<1>6. ASSUME NEW y \in Y, y \notin {op.arg : op \in puts}
      PROVE  y \in X /\ \A op \in drops \cup puts : op.arg.name # y.name
  <2>1. y \in X
    BY <1>4, <1>6
  <2> QED
    BY <1>3, <1>4, <1>6, <2>1
<1>7. Left(X, D, n, drop, put) = Y
  BY <1>2, <1>4, <1>5, <1>6
<1> QED
  BY <1>7 DEF X, Y

-----------------------------------------------------------------------------
(* A table's operations *)

LEMMA OperationIs ==
    \A k, n, x : /\ Operation(k, n, x).kind = k /\ Operation(k, n, x).table = n
                 /\ Operation(k, n, x).arg = x
BY DEF Operation

(* What a kept table's operations are, kind by kind. *)
LEMMA KeptByKind ==
    ASSUME NEW old, NEW t, IsTable(old), IsTable(t), NEW op
    PROVE  /\ IsForKept(op, old, t) => op.table = t.name
           /\ op.kind = "drop_trigger" =>
                (IsForKept(op, old, t)
                    <=> IsDrop(op, op.kind, t.name, t.triggers, old.triggers))
           /\ op.kind = "drop_fk" =>
                (IsForKept(op, old, t) <=> IsDrop(op, op.kind, t.name, t.fks, old.fks))
           /\ op.kind = "drop_check" =>
                (IsForKept(op, old, t)
                    <=> IsDrop(op, op.kind, t.name, t.checks, old.checks))
           /\ op.kind = "drop_index" =>
                (IsForKept(op, old, t)
                    <=> IsMissing(op, op.kind, t.name, old.indexes, t.indexes))
           /\ op.kind = "add_column" =>
                (IsForKept(op, old, t)
                    <=> IsMissing(op, op.kind, t.name, t.columns, old.columns))
           /\ op.kind = "alter_column" =>
                (IsForKept(op, old, t) <=> IsAlter(op, t.name, t.columns, old.columns))
           /\ op.kind = "drop_column" =>
                (IsForKept(op, old, t)
                    <=> IsMissing(op, op.kind, t.name, old.columns, t.columns))
           /\ op.kind = "add_fk" =>
                (IsForKept(op, old, t) <=> IsAdd(op, op.kind, t.name, t.fks, old.fks))
           /\ op.kind = "add_check" =>
                (IsForKept(op, old, t)
                    <=> IsAdd(op, op.kind, t.name, t.checks, old.checks))
           /\ op.kind = "create_index" =>
                (IsForKept(op, old, t)
                    <=> IsMissing(op, op.kind, t.name, t.indexes, old.indexes))
           /\ op.kind = "create_trigger" =>
                (IsForKept(op, old, t)
                    <=> IsAdd(op, op.kind, t.name, t.triggers, old.triggers))
           /\ op.kind = "rebuild_table" =>
                (IsForKept(op, old, t) <=> IsRebuild(op, old, t))
           /\ IsForKept(op, old, t) =>
                op.kind \notin {"create_table", "drop_table", "ensure_extension", "drop_view",
                                "create_function", "raw_sql", "create_view", "drop_function"}
           /\ IsForKept(op, old, t) /\ old.seed = <<>> /\ t.seed = <<>> =>
                op.kind \notin {"insert_data", "update_data", "delete_data"}
<1> DEFINE K == op.kind
           drop_trigger == IsDrop(op, "drop_trigger", t.name, t.triggers, old.triggers)
           drop_fk == IsDrop(op, "drop_fk", t.name, t.fks, old.fks)
           drop_check == IsDrop(op, "drop_check", t.name, t.checks, old.checks)
           drop_index == IsMissing(op, "drop_index", t.name, old.indexes, t.indexes)
           add_column == IsMissing(op, "add_column", t.name, t.columns, old.columns)
           alter_column == IsAlter(op, t.name, t.columns, old.columns)
           drop_column == IsMissing(op, "drop_column", t.name, old.columns, t.columns)
           add_fk == IsAdd(op, "add_fk", t.name, t.fks, old.fks)
           add_check == IsAdd(op, "add_check", t.name, t.checks, old.checks)
           create_index == IsMissing(op, "create_index", t.name, t.indexes, old.indexes)
           create_trigger == IsAdd(op, "create_trigger", t.name, t.triggers, old.triggers)
           rebuild == IsRebuild(op, old, t)
           row == op \in ToSet(DiffSeedData(old, t))
           here == op.table = t.name
<1>1. IsForKept(op, old, t) <=>
         \/ drop_trigger \/ drop_fk \/ drop_check \/ drop_index \/ add_column
         \/ alter_column \/ drop_column \/ add_fk \/ add_check \/ create_index
         \/ create_trigger \/ rebuild \/ row
  BY DEF IsForKept, IsColumnChange
<1>2. /\ drop_trigger => K = "drop_trigger" /\ here
      /\ drop_fk => K = "drop_fk" /\ here
      /\ drop_check => K = "drop_check" /\ here
  BY OperationIs DEF IsDrop
<1>3. /\ drop_index => K = "drop_index" /\ here
      /\ add_column => K = "add_column" /\ here
      /\ drop_column => K = "drop_column" /\ here
      /\ create_index => K = "create_index" /\ here
  BY OperationIs DEF IsMissing
<1>4. /\ add_fk => K = "add_fk" /\ here
      /\ add_check => K = "add_check" /\ here
      /\ create_trigger => K = "create_trigger" /\ here
  BY OperationIs DEF IsAdd
<1>5. alter_column => K = "alter_column" /\ here
  BY DEF IsAlter
<1>6. rebuild => K = "rebuild_table" /\ here
  BY OperationIs DEF IsRebuild
<1>7. row => /\ K \in {"insert_data", "update_data", "delete_data"} /\ here
             /\ old.seed # <<>> \/ t.seed # <<>>
  <2>1. row => IsRowChange(op, old, t)
    BY RowsHold
  <2> QED
    BY <2>1, OperationIs DEF IsRowChange
<1>8. /\ K = "drop_trigger" =>
            (drop_trigger <=> IsDrop(op, op.kind, t.name, t.triggers, old.triggers))
      /\ K = "drop_fk" => (drop_fk <=> IsDrop(op, op.kind, t.name, t.fks, old.fks))
      /\ K = "drop_check" =>
            (drop_check <=> IsDrop(op, op.kind, t.name, t.checks, old.checks))
      /\ K = "drop_index" =>
            (drop_index <=> IsMissing(op, op.kind, t.name, old.indexes, t.indexes))
      /\ K = "add_column" =>
            (add_column <=> IsMissing(op, op.kind, t.name, t.columns, old.columns))
      /\ K = "drop_column" =>
            (drop_column <=> IsMissing(op, op.kind, t.name, old.columns, t.columns))
      /\ K = "add_fk" => (add_fk <=> IsAdd(op, op.kind, t.name, t.fks, old.fks))
      /\ K = "add_check" =>
            (add_check <=> IsAdd(op, op.kind, t.name, t.checks, old.checks))
      /\ K = "create_index" =>
            (create_index <=> IsMissing(op, op.kind, t.name, t.indexes, old.indexes))
      /\ K = "create_trigger" =>
            (create_trigger <=> IsAdd(op, op.kind, t.name, t.triggers, old.triggers))
  OBVIOUS
<1> HIDE DEF K, drop_trigger, drop_fk, drop_check, drop_index, add_column, alter_column,
        drop_column, add_fk, add_check, create_index, create_trigger, rebuild, row, here
<1>9. /\ IsForKept(op, old, t) => here
      /\ K = "drop_trigger" => (IsForKept(op, old, t) <=> drop_trigger)
      /\ K = "drop_fk" => (IsForKept(op, old, t) <=> drop_fk)
      /\ K = "drop_check" => (IsForKept(op, old, t) <=> drop_check)
      /\ K = "drop_index" => (IsForKept(op, old, t) <=> drop_index)
      /\ K = "add_column" => (IsForKept(op, old, t) <=> add_column)
      /\ K = "alter_column" => (IsForKept(op, old, t) <=> alter_column)
      /\ K = "drop_column" => (IsForKept(op, old, t) <=> drop_column)
      /\ K = "add_fk" => (IsForKept(op, old, t) <=> add_fk)
      /\ K = "add_check" => (IsForKept(op, old, t) <=> add_check)
      /\ K = "create_index" => (IsForKept(op, old, t) <=> create_index)
      /\ K = "create_trigger" => (IsForKept(op, old, t) <=> create_trigger)
      /\ K = "rebuild_table" => (IsForKept(op, old, t) <=> rebuild)
      /\ IsForKept(op, old, t) =>
            K \notin {"create_table", "drop_table", "ensure_extension", "drop_view",
                      "create_function", "raw_sql", "create_view", "drop_function"}
      /\ IsForKept(op, old, t) /\ old.seed = <<>> /\ t.seed = <<>> =>
            K \notin {"insert_data", "update_data", "delete_data"}
  BY <1>1, <1>2, <1>3, <1>4, <1>5, <1>6, <1>7
<1> QED
  BY <1>8, <1>9 DEF K, alter_column, rebuild, here

-----------------------------------------------------------------------------
(* Nothing is redefined by the same list. *)
LEMMA SameList ==
    ASSUME NEW list, TellsApart(list), NEW op, NEW k, NEW n
    PROVE  /\ ~IsMissing(op, k, n, list, list) /\ ~IsAlter(op, n, list, list)
           /\ ~IsDrop(op, k, n, list, list) /\ ~IsAdd(op, k, n, list, list)
           /\ Redefined(list, list) = <<>>
<1>1. \A x \in ToSet(list) : Has(list, x.name) /\ Find(list, x.name) = x
  BY FindApart
<1>2. Redefined(list, list) = <<>>
  <2>1. IsList(list)
    BY ApartInList
  <2>2. ToSet(Redefined(list, list)) = {} /\ IsList(Redefined(list, list))
    BY <1>1, <2>1, RedefinedFacts
  <2> QED
    BY <2>2, ListFacts
<1> QED
  BY <1>1, <1>2 DEF IsMissing, IsAlter, IsDrop, IsAdd

(* Against the empty list all is added and nothing dropped. *)
LEMMA EmptyList ==
    ASSUME NEW list, NEW op, NEW k, NEW n
    PROVE  /\ IsMissing(op, k, n, list, <<>>) <=> IsOneOf(op, k, n, list)
           /\ IsAdd(op, k, n, list, <<>>) <=> IsOneOf(op, k, n, list)
           /\ ~IsDrop(op, k, n, list, <<>>) /\ ~IsMissing(op, k, n, <<>>, list)
<1>1. ToSet(<<>>) = {} /\ \A z : ~Has(<<>>, z)
  BY NoneHolds DEF Has, Names
<1> QED
  BY <1>1 DEF IsMissing, IsAdd, IsOneOf, IsDrop

(* The kinds that a created table shares with a kept one, whatever the engine. *)
TableKinds ==
    {"drop_trigger", "drop_check", "drop_index", "add_column", "alter_column",
     "drop_column", "add_check", "create_index", "create_trigger"}

(* A created table's operations are those that would bring it from its base. *)
LEMMA CreatedByKind ==
    ASSUME NEW old, NEW t, IsTable(old), IsTable(t), HoldableTable(t), NEW op,
           old.columns = t.columns, old.checks = t.checks,
           old.indexes = <<>>, old.triggers = <<>>
    PROVE  /\ IsForCreated(op, t) => op.table = t.name
           /\ op.kind \in TableKinds => (IsForCreated(op, t) <=> IsForKept(op, old, t))
           /\ op.kind \in {"add_fk", "drop_fk"} /\ old.fks = <<>> =>
                (IsForCreated(op, t) <=> IsForKept(op, old, t))
           /\ op.kind = "rebuild_table" => ~IsForCreated(op, t)
           /\ old.fks = t.fks => ~NeedsRebuild(old, t)
           /\ op.kind = "create_table" =>
                (IsForCreated(op, t) <=> op = Operation("create_table", t.name, t))
           /\ IsForCreated(op, t) =>
                op.kind \in {"create_table", "add_fk", "create_index", "create_trigger",
                             "insert_data"}
           /\ IsForCreated(op, t) /\ t.seed = <<>> => op.kind # "insert_data"
<1> DEFINE K == op.kind
           create == op = Operation("create_table", t.name, t)
           add_fk == IsOneOf(op, "add_fk", t.name, t.fks)
           create_index == IsOneOf(op, "create_index", t.name, t.indexes)
           create_trigger == IsOneOf(op, "create_trigger", t.name, t.triggers)
           insert == IsOneOf(op, "insert_data", t.name, t.seed)
           kept == IsForKept(op, old, t)
<1>1. IsForCreated(op, t) <=> create \/ add_fk \/ create_index \/ create_trigger \/ insert
  BY DEF IsForCreated
<1>2. /\ create => K = "create_table" /\ op.table = t.name
      /\ add_fk => K = "add_fk" /\ op.table = t.name
      /\ create_index => K = "create_index" /\ op.table = t.name
      /\ create_trigger => K = "create_trigger" /\ op.table = t.name
      /\ insert => K = "insert_data" /\ op.table = t.name /\ ToSet(t.seed) # {}
  BY OperationIs DEF IsOneOf
<1>3. TellsApart(t.columns) /\ TellsApart(t.checks)
  BY DEF HoldableTable
<1>4. K \in {"drop_trigger", "drop_check", "drop_index", "add_column", "alter_column",
             "drop_column", "add_check"} => ~kept
  <2>1. /\ K = "drop_trigger" => ~kept
        /\ K = "drop_check" => ~kept
        /\ K = "drop_index" => ~kept
    BY <1>3, KeptByKind, SameList, EmptyList
  <2>2. /\ K = "add_column" => ~kept
        /\ K = "alter_column" => ~kept
        /\ K = "drop_column" => ~kept
        /\ K = "add_check" => ~kept
    BY <1>3, KeptByKind, SameList
  <2> QED
    BY <2>1, <2>2
<1>5. /\ K = "create_index" => (kept <=> create_index)
      /\ K = "create_trigger" => (kept <=> create_trigger)
  BY KeptByKind, EmptyList
<1>6. old.fks = <<>> => /\ K = "add_fk" => (kept <=> add_fk)
                        /\ K = "drop_fk" => ~kept
  BY KeptByKind, EmptyList
<1>7. old.fks = t.fks => ~NeedsRebuild(old, t)
  BY <1>3, SameList DEF NeedsRebuild
<1>8. t.seed = <<>> => ToSet(t.seed) = {}
  BY NoneHolds
<1> HIDE DEF K, create, add_fk, create_index, create_trigger, insert, kept
<1>9. /\ IsForCreated(op, t) => op.table = t.name
      /\ K \in TableKinds => (IsForCreated(op, t) <=> kept)
      /\ K \in {"add_fk", "drop_fk"} /\ old.fks = <<>> => (IsForCreated(op, t) <=> kept)
      /\ K = "rebuild_table" => ~IsForCreated(op, t)
      /\ K = "create_table" => (IsForCreated(op, t) <=> create)
      /\ IsForCreated(op, t) =>
            K \in {"create_table", "add_fk", "create_index", "create_trigger", "insert_data"}
      /\ IsForCreated(op, t) /\ t.seed = <<>> => K # "insert_data"
  BY <1>1, <1>2, <1>4, <1>5, <1>6, <1>8 DEF TableKinds
<1> QED
  BY <1>7, <1>9 DEF K, create, kept

(* A removed table's. *)
LEMMA RemovedByKind ==
    ASSUME NEW t, NEW op, IsForRemoved(op, t)
    PROVE  op.table = t.name /\ op.kind \in {"drop_fk", "drop_index", "drop_table"}
BY OperationIs DEF IsForRemoved, IsOneOf

(* And the ones that are no table's. *)
LEMMA DatabaseByKind ==
    ASSUME NEW a, NEW b, NEW op
    PROVE  /\ IsForDatabase(op, a, b) =>
                /\ op.table = Everywhere
                /\ op.kind \in {"ensure_extension", "drop_view", "create_function", "raw_sql",
                                "create_view", "drop_function"}
           /\ op.kind = "ensure_extension" =>
                (IsForDatabase(op, a, b)
                    <=> \E x \in WantedExtensions(b) \ WantedExtensions(a) :
                           op = Operation(op.kind, Everywhere, x))
           /\ op.kind = "drop_view" =>
                (IsForDatabase(op, a, b)
                    <=> IsDrop(op, op.kind, Everywhere, b.views, a.views))
           /\ op.kind = "create_view" =>
                (IsForDatabase(op, a, b)
                    <=> IsAdd(op, op.kind, Everywhere, b.views, a.views))
           /\ op.kind = "create_function" =>
                (IsForDatabase(op, a, b)
                    <=> IsAdd(op, op.kind, Everywhere, b.functions, a.functions))
           /\ op.kind = "drop_function" =>
                (IsForDatabase(op, a, b)
                    <=> IsMissing(op, op.kind, Everywhere, a.functions, b.functions))
           /\ op.kind = "raw_sql" =>
                (IsForDatabase(op, a, b)
                    <=> IsMissing(op, op.kind, Everywhere, b.raw, a.raw))
<1> DEFINE K == op.kind
           extension == \E x \in WantedExtensions(b) \ WantedExtensions(a) :
                           op = Operation("ensure_extension", Everywhere, x)
           view_gone == IsDrop(op, "drop_view", Everywhere, b.views, a.views)
           function == IsAdd(op, "create_function", Everywhere, b.functions, a.functions)
           raw == IsMissing(op, "raw_sql", Everywhere, b.raw, a.raw)
           view == IsAdd(op, "create_view", Everywhere, b.views, a.views)
           function_gone == IsMissing(op, "drop_function", Everywhere, a.functions, b.functions)
           here == op.table = Everywhere
<1>1. IsForDatabase(op, a, b) <=>
         extension \/ view_gone \/ function \/ raw \/ view \/ function_gone
  BY DEF IsForDatabase
<1>2. /\ extension => K = "ensure_extension" /\ here
      /\ view_gone => K = "drop_view" /\ here
      /\ function => K = "create_function" /\ here
      /\ raw => K = "raw_sql" /\ here
      /\ view => K = "create_view" /\ here
      /\ function_gone => K = "drop_function" /\ here
  BY OperationIs DEF IsDrop, IsAdd, IsMissing
<1>3. /\ K = "ensure_extension" =>
           (extension <=> \E x \in WantedExtensions(b) \ WantedExtensions(a) :
                             op = Operation(op.kind, Everywhere, x))
      /\ K = "drop_view" => (view_gone <=> IsDrop(op, op.kind, Everywhere, b.views, a.views))
      /\ K = "create_view" => (view <=> IsAdd(op, op.kind, Everywhere, b.views, a.views))
      /\ K = "create_function" =>
            (function <=> IsAdd(op, op.kind, Everywhere, b.functions, a.functions))
      /\ K = "drop_function" =>
            (function_gone <=> IsMissing(op, op.kind, Everywhere, a.functions, b.functions))
      /\ K = "raw_sql" => (raw <=> IsMissing(op, op.kind, Everywhere, b.raw, a.raw))
  OBVIOUS
<1> HIDE DEF K, extension, view_gone, function, raw, view, function_gone, here
<1>4. /\ IsForDatabase(op, a, b) =>
            here /\ K \in {"ensure_extension", "drop_view", "create_function", "raw_sql",
                           "create_view", "drop_function"}
      /\ K = "ensure_extension" => (IsForDatabase(op, a, b) <=> extension)
      /\ K = "drop_view" => (IsForDatabase(op, a, b) <=> view_gone)
      /\ K = "create_view" => (IsForDatabase(op, a, b) <=> view)
      /\ K = "create_function" => (IsForDatabase(op, a, b) <=> function)
      /\ K = "drop_function" => (IsForDatabase(op, a, b) <=> function_gone)
      /\ K = "raw_sql" => (IsForDatabase(op, a, b) <=> raw)
  BY <1>1, <1>2
<1> QED
  BY <1>3, <1>4 DEF K, here

-----------------------------------------------------------------------------
(* A migration's operations *)

(* One on a table of the new model is what brings that table from its base. *)
LEMMA ForTable ==
    ASSUME NEW e, NEW a, NEW b, Holdable(a), Holdable(b), NEW t \in ToSet(b.tables),
           NEW op, op.table = t.name
    PROVE  LET old == Base(e, a, t)
               emitted == IsEmitted(op, a, b) IN
           /\ IsTable(old) /\ HoldableTable(old)
           /\ op.kind \in TableKinds => (emitted <=> IsForKept(op, old, t))
           /\ op.kind \in {"add_fk", "drop_fk"} /\ e # "sqlite" =>
                (emitted <=> IsForKept(op, old, t))
           /\ op.kind = "rebuild_table" /\ e = "sqlite" =>
                (emitted <=> IsForKept(op, old, t))
           /\ op.kind = "create_table" =>
                (emitted <=> ~Has(a.tables, t.name) /\ op = Operation("create_table", t.name, t))
           /\ emitted => op.kind # "drop_table"
           /\ op.kind \in {"insert_data", "update_data", "delete_data"}
                /\ t.seed = <<>> /\ old.seed = <<>> => ~emitted
<1> DEFINE old == Base(e, a, t)
           K == op.kind
           emitted == IsEmitted(op, a, b)
           was == Has(a.tables, t.name)
<1>1. /\ IsTable(t) /\ HoldableTable(t)
      /\ \A u \in ToSet(a.tables) : IsTable(u) /\ HoldableTable(u)
      /\ \A u \in ToSet(b.tables) : IsTable(u) /\ HoldableTable(u)
      /\ IsList(a.tables)
  BY HoldableIsModel, ApartInList DEF Holdable
<1>2. /\ \A u \in ToSet(b.tables) : u.name = t.name => u = t
      /\ Has(b.tables, t.name)
  BY ToldByName DEF Holdable, Has, Names
<1>3. TellsApart(<<>>) /\ IsList(<<>>)
  BY NoneHolds DEF TellsApart
<1>4. IsTable(old) /\ HoldableTable(old)
  <2>1. CASE was
    BY <1>1, <2>1, FindFacts DEF Base
  <2>2. CASE ~was
    BY <1>1, <1>3, <2>2 DEF Base, IsTable, HoldableTable
  <2> QED
    BY <2>1, <2>2
<1>5. IsForDatabase(op, a, b) =>
         K \in {"ensure_extension", "drop_view", "create_function", "raw_sql",
                "create_view", "drop_function"}
  BY DatabaseByKind
<1>6. \A u \in ToSet(a.tables) : ~(~Has(b.tables, u.name) /\ IsForRemoved(op, u))
  BY <1>2, RemovedByKind
<1>7. CASE was
  <2>1. old = Find(a.tables, t.name)
    BY <1>7 DEF Base
  <2>2. \A u \in ToSet(b.tables) :
           Has(a.tables, u.name) /\ IsForKept(op, Find(a.tables, u.name), u) => u = t
    <3> TAKE u \in ToSet(b.tables)
    <3> HAVE Has(a.tables, u.name) /\ IsForKept(op, Find(a.tables, u.name), u)
    <3>1. IsTable(Find(a.tables, u.name)) /\ IsTable(u)
      BY <1>1, FindFacts
    <3>2. op.table = u.name
      BY <3>1, KeptByKind
    <3> QED
      BY <1>2, <3>2
  <2>3. \A u \in ToSet(b.tables) : ~(~Has(a.tables, u.name) /\ IsForCreated(op, u))
    <3> TAKE u \in ToSet(b.tables)
    <3> SUFFICES ASSUME ~Has(a.tables, u.name), IsForCreated(op, u) PROVE FALSE
      OBVIOUS
    <3>1. op.table = u.name
      BY OperationIs DEF IsForCreated, IsOneOf
    <3> QED
      BY <1>7, <3>1
  <2>4. emitted <=> IsForDatabase(op, a, b) \/ IsForKept(op, old, t)
    BY <1>6, <1>7, <2>1, <2>2, <2>3 DEF IsEmitted
  <2>5. /\ IsForKept(op, old, t) =>
             K \notin {"create_table", "drop_table"}
        /\ IsForKept(op, old, t) /\ old.seed = <<>> /\ t.seed = <<>> =>
             K \notin {"insert_data", "update_data", "delete_data"}
    BY <1>1, <1>4, KeptByKind
  <2> HIDE DEF old, K, emitted
  <2> QED
    BY <1>4, <1>5, <1>7, <2>4, <2>5 DEF TableKinds, old, K, emitted
<1>8. CASE ~was
  <2>1. /\ old.columns = t.columns /\ old.checks = t.checks
        /\ old.indexes = <<>> /\ old.triggers = <<>>
        /\ e # "sqlite" => old.fks = <<>>
        /\ e = "sqlite" => old.fks = t.fks
    BY <1>8 DEF Base
  <2>2. \A u \in ToSet(b.tables) : ~(Has(a.tables, u.name)
                                      /\ IsForKept(op, Find(a.tables, u.name), u))
    <3> TAKE u \in ToSet(b.tables)
    <3> SUFFICES ASSUME Has(a.tables, u.name), IsForKept(op, Find(a.tables, u.name), u)
                 PROVE  FALSE
      OBVIOUS
    <3>1. IsTable(Find(a.tables, u.name)) /\ IsTable(u)
      BY <1>1, FindFacts
    <3>2. op.table = u.name
      BY <3>1, KeptByKind
    <3> QED
      BY <1>8, <3>2
  <2>3. \A u \in ToSet(b.tables) : IsForCreated(op, u) => u = t
    <3> TAKE u \in ToSet(b.tables)
    <3> HAVE IsForCreated(op, u)
    <3>1. op.table = u.name
      BY OperationIs DEF IsForCreated, IsOneOf
    <3> QED
      BY <1>2, <3>1
  <2>4. emitted <=> IsForDatabase(op, a, b) \/ IsForCreated(op, t)
    BY <1>6, <1>8, <2>2, <2>3 DEF IsEmitted
  <2> DEFINE created == IsForCreated(op, t)
             kept == IsForKept(op, old, t)
  <2> HIDE DEF old
  <2>5. /\ K \in TableKinds => (created <=> kept)
        /\ K \in {"add_fk", "drop_fk"} /\ old.fks = <<>> => (created <=> kept)
        /\ K = "rebuild_table" => ~created
        /\ old.fks = t.fks => ~NeedsRebuild(old, t)
        /\ K = "create_table" => (created <=> op = Operation("create_table", t.name, t))
        /\ created => K \in {"create_table", "add_fk", "create_index", "create_trigger",
                             "insert_data"}
        /\ created /\ t.seed = <<>> => K # "insert_data"
    BY <1>1, <1>4, <2>1, CreatedByKind
  <2>6. K = "rebuild_table" => (kept <=> IsRebuild(op, old, t))
    BY <1>1, <1>4, KeptByKind
  <2>7. K = "rebuild_table" /\ e = "sqlite" => ~kept
    BY <2>1, <2>5, <2>6 DEF IsRebuild
  <2> HIDE DEF K, emitted, created, kept
  <2> QED
    BY <1>4, <1>5, <1>8, <2>1, <2>4, <2>5, <2>7 DEF TableKinds, old, K, emitted, created, kept
<1> QED
  BY <1>7, <1>8

-----------------------------------------------------------------------------
(* What the operations of a list come to *)

(* An element of one list and not of the other is, there, absent or another. *)
LEMMA NotIn ==
    ASSUME NEW old, NEW new, TellsApart(old), TellsApart(new)
    PROVE  /\ \A y \in ToSet(new) : y \notin ToSet(old) =>
                 ~Has(old, y.name) \/ Find(old, y.name) # y
           /\ \A y \in ToSet(new) : y \in ToSet(old) =>
                 Has(old, y.name) /\ Find(old, y.name) = y /\ Has(new, y.name)
           /\ \A x \in ToSet(old) : Has(new, x.name) =>
                 \E y \in ToSet(new) : y.name = x.name
           /\ \A x, y \in ToSet(new) : x.name = y.name => x = y
           /\ \A x, y \in ToSet(old) : x.name = y.name => x = y
           /\ \A x \in ToSet(old) : Has(old, x.name) /\ Find(old, x.name) = x
           /\ \A x \in ToSet(new) : Has(new, x.name)
<1>1. /\ \A x \in ToSet(old) : Has(old, x.name) /\ Find(old, x.name) = x
      /\ \A x \in ToSet(new) : Has(new, x.name) /\ Find(new, x.name) = x
  BY FindApart
<1>2. \A y \in ToSet(new) : Has(old, y.name) => Find(old, y.name) \in ToSet(old)
  BY ApartInList, FindFacts
<1>3. \A z : Has(new, z) => \E y \in ToSet(new) : y.name = z
  BY DEF Has, Names
<1> QED
  BY <1>1, <1>2, <1>3, ToldByName

(* Foreign keys, checks, triggers, views: redefined ones are dropped first. *)
DropsRedefined(E, n, drops, old, new) ==
    \A op : op.table = n /\ op.kind \in drops =>
        (op \in E <=> IsDrop(op, op.kind, n, new, old))

(* Then they are added again, with the new ones. *)
AddsRedefined(E, n, puts, old, new) ==
    \A op : op.table = n /\ op.kind \in puts =>
        (op \in E <=> IsAdd(op, op.kind, n, new, old))

(* In the end the list is the new one, and what went was not in it. *)
RedefinedDone(E, n, drops, puts, old, new) ==
    /\ Left(ToSet(old), E, n, drops, puts) = ToSet(new)
    /\ \A op \in OfKind(E, n, puts) : op.arg \in ToSet(new)
    /\ \A x \in ToSet(old) : x \notin ToSet(new) =>
          \E op \in OfKind(E, n, drops) : op.arg.name = x.name

(* Dropping the redefined and adding them again does that. *)
LEMMA DropsAndAdds ==
    ASSUME NEW old, NEW new, TellsApart(old), TellsApart(new), NEW E, NEW n,
           NEW drops, NEW drop \in drops, NEW puts, NEW put \in puts,
           DropsRedefined(E, n, drops, old, new), AddsRedefined(E, n, puts, old, new)
    PROVE  RedefinedDone(E, n, drops, puts, old, new)
<1> DEFINE X == ToSet(old)
           Y == ToSet(new)
<1>1. \A op : op \in OfKind(E, n, puts) => op.arg \in Y
  BY OperationIs DEF OfKind, IsAdd, AddsRedefined
<1>2. ASSUME NEW y \in Y, y \notin X
      PROVE  \E op \in OfKind(E, n, puts) : op.arg = y
  <2>1. ~Has(old, y.name) \/ Find(old, y.name) # y
    BY <1>2, NotIn
  <2>2. PICK op : op = Operation(put, n, y)
    OBVIOUS
  <2>3. op.kind = put /\ op.table = n /\ op.arg = y
    BY <2>2, OperationIs
  <2>4. IsAdd(op, put, n, new, old)
    BY <2>1, <2>2 DEF IsAdd
  <2> QED
    BY <2>3, <2>4 DEF OfKind, AddsRedefined
<1>3. ASSUME NEW op \in OfKind(E, n, drops), NEW y \in X, y \in Y
      PROVE  op.arg.name # y.name
  <2>1. IsDrop(op, op.kind, n, new, old)
    BY DEF OfKind, DropsRedefined
  <2>2. PICK z : /\ op = Operation(op.kind, n, z)
                 /\ \/ z \in Y /\ Has(old, z.name) /\ Find(old, z.name) # z
                    \/ z \in X /\ ~Has(new, z.name)
    BY <2>1 DEF IsDrop
  <2>3. op.arg = z
    BY <2>2, OperationIs
  <2> QED
    BY <1>3, <2>2, <2>3, NotIn
<1>4. ASSUME NEW x \in X, x \notin Y
      PROVE  \E op \in OfKind(E, n, drops) : op.arg.name = x.name
  <2>1. PICK z : /\ z.name = x.name
                 /\ \/ z \in Y /\ Has(old, z.name) /\ Find(old, z.name) # z
                    \/ z \in X /\ ~Has(new, z.name)
    BY <1>4, NotIn
  <2>2. PICK op : op = Operation(drop, n, z)
    OBVIOUS
  <2>3. op.kind = drop /\ op.table = n /\ op.arg = z
    BY <2>2, OperationIs
  <2>4. IsDrop(op, drop, n, new, old)
    BY <2>1, <2>2 DEF IsDrop
  <2> QED
    BY <2>1, <2>3, <2>4 DEF OfKind, DropsRedefined
<1>5. \A x \in X : ~Has(new, x.name) =>
         \E op \in OfKind(E, n, drops) : op.arg.name = x.name
  BY <1>4 DEF Has, Names
<1>6. Left(ToSet(old), E, n, drops, puts) = ToSet(new)
  BY <1>1, <1>2, <1>3, <1>5, LeftAll
<1> QED
  BY <1>1, <1>4, <1>6 DEF RedefinedDone

(* Columns, indexes, functions: only what the new list lacks is dropped, the  *)
(* rest is put in place.                                                    *)
DropsMissing(E, n, drops, old, new) ==
    \A op : op.table = n /\ op.kind \in drops =>
        (op \in E <=> IsMissing(op, op.kind, n, old, new))

(* What the new list has more is put, and nothing else. *)
PutsNew(E, n, puts, old, new) ==
    /\ \A op \in OfKind(E, n, puts) : op.arg \in ToSet(new)
    /\ \A y \in ToSet(new) : y \notin ToSet(old) =>
          \E op \in OfKind(E, n, puts) : op.arg = y

(* In the end the list is the new one, and nothing of its names went. *)
MissingDone(E, n, drops, puts, old, new) ==
    /\ Left(ToSet(old), E, n, drops, puts) = ToSet(new)
    /\ \A op \in OfKind(E, n, drops) : ~Has(new, op.arg.name)
    /\ \A x \in ToSet(old) : ~Has(new, x.name) =>
          \E op \in OfKind(E, n, drops) : op.arg.name = x.name

(* Dropping what is missing and putting the rest does that. *)
LEMMA MissingAndPuts ==
    ASSUME NEW old, NEW new, TellsApart(old), TellsApart(new), NEW E, NEW n,
           NEW drops, NEW drop \in drops, NEW put,
           DropsMissing(E, n, drops, old, new), PutsNew(E, n, put, old, new)
    PROVE  MissingDone(E, n, drops, put, old, new)
<1> DEFINE X == ToSet(old)
           Y == ToSet(new)
<1>1. ASSUME NEW op \in OfKind(E, n, drops) PROVE ~Has(new, op.arg.name)
  <2>1. IsMissing(op, op.kind, n, old, new)
    BY DEF OfKind, DropsMissing
  <2> QED
    BY <2>1, OperationIs DEF IsMissing
<1>2. ASSUME NEW x \in X, ~Has(new, x.name)
      PROVE  \E op \in OfKind(E, n, drops) : op.arg.name = x.name
  <2>1. PICK op : op = Operation(drop, n, x)
    OBVIOUS
  <2>2. op.kind = drop /\ op.table = n /\ op.arg = x
    BY <2>1, OperationIs
  <2>3. IsMissing(op, drop, n, old, new)
    BY <1>2, <2>1 DEF IsMissing
  <2> QED
    BY <2>2, <2>3 DEF OfKind, DropsMissing
<1>3. \A op \in OfKind(E, n, drops) : \A y \in X : y \in Y => op.arg.name # y.name
  BY <1>1, NotIn
<1>4. Left(ToSet(old), E, n, drops, put) = ToSet(new)
  BY <1>2, <1>3, LeftAll DEF PutsNew
<1> QED
  BY <1>1, <1>2, <1>4 DEF MissingDone

-----------------------------------------------------------------------------
(* A table on its way *)

(* What E says of a table's operations. *)
OpsFor(e, old, t, E) ==
    \A op : op.table = t.name =>
        /\ op.kind \in TableKinds => (op \in E <=> IsForKept(op, old, t))
        /\ op.kind \in {"add_fk", "drop_fk"} /\ e # "sqlite" =>
              (op \in E <=> IsForKept(op, old, t))
        /\ op.kind = "rebuild_table" /\ e = "sqlite" =>
              (op \in E <=> IsForKept(op, old, t))

(* What the operations on a table come to, list by list. *)
LEMMA TriggersDone ==
    ASSUME NEW e, NEW old, NEW t, IsTable(old), IsTable(t), HoldableTable(old),
           HoldableTable(t), NEW E, OpsFor(e, old, t, E)
    PROVE  /\ e = "postgres" => TriggersLeft(e, old, t, E) = ToSet(t.triggers)
           /\ \A op \in OfKind(E, t.name, {"create_trigger"}) : op.arg \in ToSet(t.triggers)
<1> DEFINE drops == {"drop_trigger"}
           puts == {"create_trigger"}
<1>1. /\ \A op : op.table = t.name /\ op.kind \in drops =>
            (op \in E <=> IsDrop(op, op.kind, t.name, t.triggers, old.triggers))
      /\ \A op : op.table = t.name /\ op.kind \in puts =>
            (op \in E <=> IsAdd(op, op.kind, t.name, t.triggers, old.triggers))
  BY KeptByKind DEF OpsFor, TableKinds
<1>2. TellsApart(old.triggers) /\ TellsApart(t.triggers)
  BY DEF HoldableTable
<1>3. "drop_trigger" \in drops /\ "create_trigger" \in puts
  OBVIOUS
<1>4. /\ DropsRedefined(E, t.name, drops, old.triggers, t.triggers)
      /\ AddsRedefined(E, t.name, puts, old.triggers, t.triggers)
  BY <1>1 DEF DropsRedefined, AddsRedefined
<1> HIDE DEF drops, puts
<1>5. RedefinedDone(E, t.name, drops, puts, old.triggers, t.triggers)
  BY <1>2, <1>3, <1>4, DropsAndAdds
<1> QED
  BY <1>5 DEF RedefinedDone, TriggersLeft, drops, puts

(* Checks come to the new table's, where the engine takes them on their own. *)
LEMMA ChecksDone ==
    ASSUME NEW e, NEW old, NEW t, IsTable(old), IsTable(t), HoldableTable(old),
           HoldableTable(t), NEW E, OpsFor(e, old, t, E)
    PROVE  /\ e # "sqlite" => ChecksLeft(e, old, t, E) = ToSet(t.checks)
           /\ \A op \in OfKind(E, t.name, {"add_check"}) : op.arg \in ToSet(t.checks)
<1> DEFINE drops == {"drop_check"}
           puts == {"add_check"}
<1>1. /\ \A op : op.table = t.name /\ op.kind \in drops =>
            (op \in E <=> IsDrop(op, op.kind, t.name, t.checks, old.checks))
      /\ \A op : op.table = t.name /\ op.kind \in puts =>
            (op \in E <=> IsAdd(op, op.kind, t.name, t.checks, old.checks))
  BY KeptByKind DEF OpsFor, TableKinds
<1>2. TellsApart(old.checks) /\ TellsApart(t.checks)
  BY DEF HoldableTable
<1>3. "drop_check" \in drops /\ "add_check" \in puts
  OBVIOUS
<1>4. /\ DropsRedefined(E, t.name, drops, old.checks, t.checks)
      /\ AddsRedefined(E, t.name, puts, old.checks, t.checks)
  BY <1>1 DEF DropsRedefined, AddsRedefined
<1> HIDE DEF drops, puts
<1>5. RedefinedDone(E, t.name, drops, puts, old.checks, t.checks)
  BY <1>2, <1>3, <1>4, DropsAndAdds
<1> QED
  BY <1>5 DEF RedefinedDone, ChecksLeft, drops, puts

(* So do foreign keys. *)
LEMMA FksDone ==
    ASSUME NEW e, e # "sqlite", NEW old, NEW t, IsTable(old), IsTable(t),
           HoldableTable(old), HoldableTable(t), NEW E, OpsFor(e, old, t, E)
    PROVE  /\ FksLeft(e, old, t, E) = ToSet(t.fks)
           /\ \A op \in OfKind(E, t.name, {"add_fk"}) : op.arg \in ToSet(t.fks)
           /\ \A x \in ToSet(old.fks) : x \notin ToSet(t.fks) =>
                 \E op \in OfKind(E, t.name, {"drop_fk"}) : op.arg.name = x.name
<1> DEFINE drops == {"drop_fk"}
           puts == {"add_fk"}
<1>1. /\ \A op : op.table = t.name /\ op.kind \in drops =>
            (op \in E <=> IsDrop(op, op.kind, t.name, t.fks, old.fks))
      /\ \A op : op.table = t.name /\ op.kind \in puts =>
            (op \in E <=> IsAdd(op, op.kind, t.name, t.fks, old.fks))
  BY KeptByKind DEF OpsFor
<1>2. TellsApart(old.fks) /\ TellsApart(t.fks)
  BY DEF HoldableTable
<1>3. "drop_fk" \in drops /\ "add_fk" \in puts
  OBVIOUS
<1>4. /\ DropsRedefined(E, t.name, drops, old.fks, t.fks)
      /\ AddsRedefined(E, t.name, puts, old.fks, t.fks)
  BY <1>1 DEF DropsRedefined, AddsRedefined
<1> HIDE DEF drops, puts
<1>5. RedefinedDone(E, t.name, drops, puts, old.fks, t.fks)
  BY <1>2, <1>3, <1>4, DropsAndAdds
<1> QED
  BY <1>5 DEF RedefinedDone, FksLeft, drops, puts

(* So do indexes that are not redefined under their name. *)
LEMMA IndexesDone ==
    ASSUME NEW e, NEW old, NEW t, IsTable(old), IsTable(t), HoldableTable(old),
           HoldableTable(t), NEW E, OpsFor(e, old, t, E),
           SameIfNamed(old.indexes, t.indexes)
    PROVE  /\ IndexesLeft(old, t, E) = ToSet(t.indexes)
           /\ \A op \in OfKind(E, t.name, {"create_index"}) : op.arg \in ToSet(t.indexes)
           /\ \A op \in OfKind(E, t.name, {"drop_index"}) : ~Has(t.indexes, op.arg.name)
           /\ \A x \in ToSet(old.indexes) : x \notin ToSet(t.indexes) =>
                 \E op \in OfKind(E, t.name, {"drop_index"}) : op.arg.name = x.name
<1> DEFINE drops == {"drop_index"}
           puts == {"create_index"}
<1>1. /\ \A op : op.table = t.name /\ op.kind \in drops =>
            (op \in E <=> IsMissing(op, op.kind, t.name, old.indexes, t.indexes))
      /\ \A op : op.table = t.name /\ op.kind = "create_index" =>
            (op \in E <=> IsMissing(op, op.kind, t.name, t.indexes, old.indexes))
  BY KeptByKind DEF OpsFor, TableKinds
<1>2. TellsApart(old.indexes) /\ TellsApart(t.indexes)
  BY DEF HoldableTable
<1>3. \A op \in OfKind(E, t.name, puts) : op.arg \in ToSet(t.indexes)
  BY <1>1, OperationIs DEF OfKind, IsMissing
<1>4. ASSUME NEW y \in ToSet(t.indexes), y \notin ToSet(old.indexes)
      PROVE  \E op \in OfKind(E, t.name, puts) : op.arg = y
  <2>1. ~Has(old.indexes, y.name)
    BY <1>4 DEF SameIfNamed, Has, Names
  <2>2. PICK op : op = Operation("create_index", t.name, y)
    OBVIOUS
  <2>3. op.kind = "create_index" /\ op.table = t.name /\ op.arg = y
    BY <2>2, OperationIs
  <2>4. IsMissing(op, op.kind, t.name, t.indexes, old.indexes)
    BY <2>1, <2>2, <2>3 DEF IsMissing
  <2> QED
    BY <1>1, <2>3, <2>4 DEF OfKind
<1>5. "drop_index" \in drops
  OBVIOUS
<1>6. DropsMissing(E, t.name, drops, old.indexes, t.indexes)
  BY <1>1 DEF DropsMissing
<1>7. PutsNew(E, t.name, puts, old.indexes, t.indexes)
  BY <1>3, <1>4 DEF PutsNew
<1> HIDE DEF drops, puts
<1>8. MissingDone(E, t.name, drops, puts, old.indexes, t.indexes)
  BY <1>5, <1>2, <1>6, <1>7, MissingAndPuts
<1>9. \A x \in ToSet(old.indexes) : x \notin ToSet(t.indexes) => ~Has(t.indexes, x.name)
  BY DEF SameIfNamed, Has, Names
<1> QED
  BY <1>3, <1>8, <1>9 DEF MissingDone, IndexesLeft, drops, puts

(* Only a column that is another than before is altered. *)
AltersAnother(E, old, t) ==
    \A op \in OfKind(E, t.name, {"alter_column"}) :
        \E x \in ToSet(old.columns) : x.name = op.arg.name /\ x # op.arg

(* Columns come to the new table's. *)
LEMMA ColumnsDone ==
    ASSUME NEW e, NEW old, NEW t, IsTable(old), IsTable(t), HoldableTable(old),
           HoldableTable(t), NEW E, OpsFor(e, old, t, E)
    PROVE  /\ ColumnsLeft(old, t, E) = ToSet(t.columns)
           /\ \A op \in OfKind(E, t.name, {"add_column", "alter_column"}) :
                 op.arg \in ToSet(t.columns)
           /\ \A op \in OfKind(E, t.name, {"drop_column"}) : ~Has(t.columns, op.arg.name)
           /\ AltersAnother(E, old, t)
<1> DEFINE drops == {"drop_column"}
           puts == {"add_column", "alter_column"}
<1>1. /\ \A op : op.table = t.name /\ op.kind \in drops =>
            (op \in E <=> IsMissing(op, op.kind, t.name, old.columns, t.columns))
      /\ \A op : op.table = t.name /\ op.kind = "add_column" =>
            (op \in E <=> IsMissing(op, op.kind, t.name, t.columns, old.columns))
      /\ \A op : op.table = t.name /\ op.kind = "alter_column" =>
            (op \in E <=> IsAlter(op, t.name, t.columns, old.columns))
  BY KeptByKind DEF OpsFor, TableKinds
<1>2. TellsApart(old.columns) /\ TellsApart(t.columns)
  BY DEF HoldableTable
<1>3. \A op : IsAlter(op, t.name, t.columns, old.columns) =>
                 /\ op.arg \in ToSet(t.columns) /\ Has(old.columns, op.arg.name)
                 /\ Find(old.columns, op.arg.name) # op.arg
  BY DEF IsAlter
<1>4. \A op \in OfKind(E, t.name, puts) : op.arg \in ToSet(t.columns)
  <2> TAKE op \in OfKind(E, t.name, puts)
  <2>1. CASE op.kind = "add_column"
    BY <1>1, <2>1, OperationIs DEF OfKind, IsMissing
  <2>2. CASE op.kind = "alter_column"
    BY <1>1, <1>3, <2>2 DEF OfKind
  <2> QED
    BY <2>1, <2>2 DEF OfKind
<1>5. ASSUME NEW y \in ToSet(t.columns), y \notin ToSet(old.columns)
      PROVE  \E op \in OfKind(E, t.name, puts) : op.arg = y
  <2>1. CASE ~Has(old.columns, y.name)
    <3>1. PICK op : op = Operation("add_column", t.name, y)
      OBVIOUS
    <3>2. op.kind = "add_column" /\ op.table = t.name /\ op.arg = y
      BY <3>1, OperationIs
    <3>3. IsMissing(op, op.kind, t.name, t.columns, old.columns)
      BY <2>1, <3>1, <3>2 DEF IsMissing
    <3> QED
      BY <1>1, <3>2, <3>3 DEF OfKind
  <2>2. CASE Has(old.columns, y.name)
    <3>1. PICK op : op = [kind |-> "alter_column", table |-> t.name, arg |-> y,
                          old |-> Find(old.columns, y.name)]
      OBVIOUS
    <3>2. op.kind = "alter_column" /\ op.table = t.name /\ op.arg = y
      BY <3>1
    <3>3. Find(old.columns, y.name) # y
      BY <1>2, <1>5, <2>2, NotIn
    <3>4. IsAlter(op, t.name, t.columns, old.columns)
      BY <2>2, <3>1, <3>3, Zenon DEF IsAlter
    <3> QED
      BY <1>1, <3>2, <3>4 DEF OfKind
  <2> QED
    BY <2>1, <2>2
<1>6. \A op \in OfKind(E, t.name, {"alter_column"}) :
         \E x \in ToSet(old.columns) : x.name = op.arg.name /\ x # op.arg
  <2> TAKE op \in OfKind(E, t.name, {"alter_column"})
  <2>1. Has(old.columns, op.arg.name) /\ Find(old.columns, op.arg.name) # op.arg
    BY <1>1, <1>3 DEF OfKind
  <2>2. IsList(old.columns)
    BY DEF IsTable
  <2> QED
    BY <2>1, <2>2, FindFacts
<1>7. "drop_column" \in drops
  OBVIOUS
<1>8. DropsMissing(E, t.name, drops, old.columns, t.columns)
  BY <1>1 DEF DropsMissing
<1>9. PutsNew(E, t.name, puts, old.columns, t.columns)
  BY <1>4, <1>5 DEF PutsNew
<1> HIDE DEF drops, puts
<1>10. MissingDone(E, t.name, drops, puts, old.columns, t.columns)
  BY <1>7, <1>2, <1>8, <1>9, MissingAndPuts
<1> QED
  BY <1>4, <1>6, <1>10 DEF AltersAnother, MissingDone, ColumnsLeft, drops, puts

(* The rebuild that SQLite does instead. *)
LEMMA RebuildDone ==
    ASSUME NEW old, NEW t, IsTable(old), IsTable(t), NEW E, OpsFor("sqlite", old, t, E)
    PROVE  /\ \A op \in OfKind(E, t.name, {"rebuild_table"}) :
                 NeedsRebuild(old, t) /\ op.arg.table = t
           /\ NeedsRebuild(old, t) => IsRebuilt(E, t)
           /\ OfKind(E, t.name, {"alter_column"}) # {} => NeedsRebuild(old, t)
<1>1. /\ \A op : op.table = t.name /\ op.kind = "rebuild_table" =>
            (op \in E <=> IsRebuild(op, old, t))
      /\ \A op : op.table = t.name /\ op.kind = "alter_column" =>
            (op \in E <=> IsAlter(op, t.name, t.columns, old.columns))
  BY KeptByKind DEF OpsFor, TableKinds
<1>2. \A op : IsRebuild(op, old, t) => NeedsRebuild(old, t) /\ op.arg.table = t
  BY DEF IsRebuild, Operation
<1>3. NeedsRebuild(old, t) => IsRebuilt(E, t)
  <2> SUFFICES ASSUME NeedsRebuild(old, t) PROVE IsRebuilt(E, t)
    OBVIOUS
  <2>1. PICK op : op = Operation("rebuild_table", t.name,
                         [table |-> t, copy |-> Names(t.columns) \cap Names(old.columns)])
    OBVIOUS
  <2>2. op.kind = "rebuild_table" /\ op.table = t.name
    BY <2>1, OperationIs
  <2>3. IsRebuild(op, old, t)
    BY <2>1 DEF IsRebuild
  <2> QED
    BY <1>1, <2>2, <2>3 DEF IsRebuilt, OfKind
<1>4. ASSUME NEW op \in OfKind(E, t.name, {"alter_column"}) PROVE NeedsRebuild(old, t)
  <2>1. IsAlter(op, t.name, t.columns, old.columns)
    BY <1>1 DEF OfKind
  <2>2. PICK x \in ToSet(t.columns) : Has(old.columns, x.name) /\ Find(old.columns, x.name) # x
    BY <2>1 DEF IsAlter
  <2>3. x \in ToSet(Redefined(t.columns, old.columns))
    BY <2>2, RedefinedFacts DEF IsTable
  <2>4. Redefined(t.columns, old.columns) # <<>>
    BY <2>3, NoneHolds
  <2> QED
    BY <2>4 DEF NeedsRebuild
<1> QED
  BY <1>1, <1>2, <1>3, <1>4 DEF OfKind

-----------------------------------------------------------------------------
(* What an operation leaves of each table *)

(* The same table but for its rows. *)
Like(u, v) ==
    /\ u.name = v.name /\ u.columns = v.columns /\ u.pk = v.pk /\ u.fks = v.fks
    /\ u.checks = v.checks /\ u.indexes = v.indexes /\ u.triggers = v.triggers

(* Two sets of tables have the same under a name, rows aside. *)
SameAt(S, T, m) ==
    /\ In(T, m) <=> In(S, m)
    /\ In(S, m) => Like(Get(T, m), Get(S, m))

(* The only element of a name is the one Get finds. *)
LEMMA GotOnly ==
    ASSUME NEW S, NEW x \in S, \A y \in S : y.name = x.name => y = x
    PROVE  In(S, x.name) /\ Get(S, x.name) = x
<1>1. In(S, x.name)
  BY DEF In
<1> QED
  BY <1>1, Got

(* A put element is found, and a dropped one is not; others are as they were. *)
LEMMA GotPut ==
    ASSUME NEW S, Apart(S), NEW u
    PROVE  /\ In(Put(S, u), u.name) /\ Get(Put(S, u), u.name) = u
           /\ \A m : m # u.name => SameAt(S, Put(S, u), m)
<1>1. u \in Put(S, u) /\ \A y \in Put(S, u) : y.name = u.name => y = u
  BY DEF Put, Less
<1>2. ASSUME NEW m, m # u.name PROVE SameAt(S, Put(S, u), m)
  <2>1. \A y : y.name = m => (y \in Put(S, u) <=> y \in S)
    BY <1>2 DEF Put, Less
  <2>2. In(Put(S, u), m) <=> In(S, m)
    BY <2>1 DEF In
  <2>3. ASSUME In(S, m) PROVE Get(Put(S, u), m) = Get(S, m)
    <3>1. /\ Get(S, m) \in S /\ Get(S, m).name = m
          /\ Get(Put(S, u), m) \in Put(S, u) /\ Get(Put(S, u), m).name = m
      BY <2>2, <2>3, Got
    <3> QED
      BY <2>1, <3>1 DEF Apart
  <2> QED
    BY <2>2, <2>3 DEF SameAt, Like
<1> QED
  BY <1>1, <1>2, GotOnly

(* Dropping one leaves the others. *)
LEMMA GotLess ==
    ASSUME NEW S, Apart(S), NEW n
    PROVE  /\ ~In(Less(S, n), n)
           /\ \A m : m # n => SameAt(S, Less(S, n), m)
<1>1. ~In(Less(S, n), n)
  BY DEF In, Less
<1>2. ASSUME NEW m, m # n PROVE SameAt(S, Less(S, n), m)
  <2>1. \A y : y.name = m => (y \in Less(S, n) <=> y \in S)
    BY <1>2 DEF Less
  <2>2. In(Less(S, n), m) <=> In(S, m)
    BY <2>1 DEF In
  <2>3. ASSUME In(S, m) PROVE Get(Less(S, n), m) = Get(S, m)
    <3>1. /\ Get(S, m) \in S /\ Get(S, m).name = m
          /\ Get(Less(S, n), m) \in Less(S, n) /\ Get(Less(S, n), m).name = m
      BY <2>2, <2>3, Got
    <3> QED
      BY <2>1, <3>1 DEF Apart
  <2> QED
    BY <2>2, <2>3 DEF SameAt, Like
<1> QED
  BY <1>1, <1>2

(* Referential actions leave every table what it was. *)
LEMMA GotWithoutChildren ==
    ASSUME NEW d, IsCatalog(d), NEW p, NEW rows
    PROVE  \A m : SameAt(d.tables, WithoutChildren(d, p, rows), m)
<1> DEFINE S == d.tables
           T == WithoutChildren(d, p, rows)
           f(t) == [t EXCEPT !.rows = @ \ UNION {References(t, p, r) : r \in rows}]
<1>1. T = {f(t) : t \in S}
  BY Zenon DEF WithoutChildren
<1>2. ASSUME NEW t \in S PROVE Like(f(t), t)
  <2> DEFINE gone == UNION {References(t, p, r) : r \in rows}
  <2>1. f(t) = [t EXCEPT !.rows = @ \ gone]
    OBVIOUS
  <2>2. IsHeld(t)
    BY DEF IsCatalog
  <2> HIDE DEF f, gone
  <2> QED
    BY <2>1, <2>2 DEF IsHeld, Like
<1>3. Apart(S)
  BY DEF IsCatalog
<1> HIDE DEF f, S, T
<1>4. ASSUME NEW m PROVE SameAt(S, T, m)
  <2>1. ASSUME NEW t \in S PROVE f(t) \in T /\ f(t).name = t.name
    BY <1>1, <1>2 DEF Like
  <2>2. ASSUME NEW u \in T PROVE \E t \in S : u = f(t) /\ u.name = t.name
    BY <1>1, <1>2 DEF Like
  <2>3. In(T, m) <=> In(S, m)
    BY <2>1, <2>2 DEF In
  <2>4. ASSUME In(S, m) PROVE Like(Get(T, m), Get(S, m))
    <3>1. /\ Get(S, m) \in S /\ Get(S, m).name = m
          /\ Get(T, m) \in T /\ Get(T, m).name = m
      BY <2>3, <2>4, Got
    <3>2. PICK t \in S : Get(T, m) = f(t) /\ t.name = m
      BY <2>2, <3>1
    <3>3. t = Get(S, m)
      BY <1>3, <3>1, <3>2 DEF Apart
    <3> QED
      BY <1>2, <3>2, <3>3
  <2> QED
    BY <2>3, <2>4 DEF SameAt
<1> QED
  BY <1>4 DEF S, T

(* What two steps leave alone, both together do. *)
LEMMA SameThrough ==
    ASSUME NEW S, NEW T, NEW U, NEW m, SameAt(S, T, m), SameAt(T, U, m)
    PROVE  SameAt(S, U, m)
BY DEF SameAt, Like

-----------------------------------------------------------------------------
(* Operation by operation *)

(* The kinds that are about no table, or about its rows. *)
DatabaseKinds ==
    {"ensure_extension", "drop_view", "create_function", "raw_sql", "create_view",
     "drop_function"}
(* The kinds that change rows. *)
RowKinds == {"insert_data", "update_data", "delete_data"}

(* What the operation makes of the table it names. *)
Worked(d, op) ==
    LET t == Named(d, op)
        x == op.arg IN
    CASE op.kind = "add_column" -> [t EXCEPT !.columns = Put(@, x)]
      [] op.kind = "alter_column" ->
            [t EXCEPT !.columns = Put(@, AlteredColumn(Get(@, x.name), x))]
      [] op.kind = "drop_column" ->
            [t EXCEPT !.columns = Less(@, x.name),
                      !.fks = {f \in @ : f.on # x.name},
                      !.indexes = {i \in @ : i.on # x.name}]
      [] op.kind = "add_fk" -> [t EXCEPT !.fks = Put(@, x)]
      [] op.kind = "drop_fk" -> [t EXCEPT !.fks = Less(@, x.name)]
      [] op.kind = "create_index" -> [t EXCEPT !.indexes = Put(@, x)]
      [] op.kind = "drop_index" -> [t EXCEPT !.indexes = Less(@, x.name)]
      [] op.kind = "add_check" -> [t EXCEPT !.checks = Put(@, x)]
      [] op.kind = "drop_check" -> [t EXCEPT !.checks = Less(@, x.name)]
      [] op.kind = "create_trigger" -> [t EXCEPT !.triggers = Put(@, x)]
      [] op.kind = "drop_trigger" -> [t EXCEPT !.triggers = Less(@, x.name)]
      [] op.kind = "rebuild_table" -> Rebuilt(t, x)

(* The kinds that change a table there is. *)
WorkKinds ==
    {"add_column", "alter_column", "drop_column", "add_fk", "drop_fk", "create_index",
     "drop_index", "add_check", "drop_check", "create_trigger", "drop_trigger",
     "rebuild_table"}

(* The table that comes with an operation has the name it is for. *)
NamesItsTable(op) ==
    /\ op.kind = "create_table" => op.arg.name = op.table
    /\ op.kind = "rebuild_table" => op.arg.table.name = op.table

(* A table put in the place of one of its name. *)
LEMMA BecomeWorked ==
    ASSUME NEW d, IsCatalog(d), NEW u, NEW v, Like(u, v), NEW n, u.name = n
    PROVE  LET T == Become(d, u).tables IN
           /\ In(T, n) /\ Like(Get(T, n), v)
           /\ \A m : m # n => SameAt(d.tables, T, m)
<1>1. Become(d, u).tables = Put(d.tables, u)
  BY DEF Become, IsCatalog
<1>2. Apart(d.tables)
  BY DEF IsCatalog
<1> QED
  BY <1>1, <1>2, GotPut

(* What an operation on a table makes of it, and of the others. *)
LEMMA WorkDone ==
    ASSUME NEW d, IsCatalog(d), NEW op, NamesItsTable(op), In(d.tables, op.table),
           op.kind \in WorkKinds, op.kind \notin Skipped
    PROVE  LET T == Execute(d, op).tables IN
           /\ In(T, op.table) /\ Like(Get(T, op.table), Worked(d, op))
           /\ \A m : m # op.table => SameAt(d.tables, T, m)
<1> DEFINE t == Named(d, op)
           n == op.table
           w == Worked(d, op)
           x == op.arg
<1>1. IsHeld(t) /\ t.name = n
  BY Got DEF IsCatalog, Named
<1> HIDE DEF t, w
<1>2. op.kind # "rebuild_table" =>
         \E u : u.name = n /\ Like(u, w) /\ Execute(d, op) = Become(d, u)
  <2>1. CASE op.kind = "add_column"
    <3>1. Execute(d, op) = Become(d, [t EXCEPT !.columns = Put(@, x)])
      BY <2>1 DEF Execute, Become, Named, t
    <3>2. w = [t EXCEPT !.columns = Put(@, x)]
      BY <2>1 DEF Worked, t, w
    <3> QED
      BY <1>1, <3>1, <3>2 DEF IsHeld, Like
  <2>2. CASE op.kind = "alter_column"
    <3>1. Execute(d, op) =
             Become(d, [t EXCEPT !.columns = Put(@, AlteredColumn(Get(@, x.name), x))])
      BY <2>2 DEF Execute, Become, Named, t
    <3>2. w = [t EXCEPT !.columns = Put(@, AlteredColumn(Get(@, x.name), x))]
      BY <2>2 DEF Worked, t, w
    <3> QED
      BY <1>1, <3>1, <3>2 DEF IsHeld, Like
  <2>3. CASE op.kind = "drop_column"
    <3> DEFINE rows == {[c \in DOMAIN r \ {x.name} |-> r[c]] : r \in t.rows}
               columns == Less(t.columns, x.name)
               fks == {f \in t.fks : f.on # x.name}
               indexes == {i \in t.indexes : i.on # x.name}
               u == [t EXCEPT !.columns = columns, !.fks = fks, !.indexes = indexes,
                              !.rows = rows]
    <3>1. Execute(d, op) = Become(d, u)
      BY <2>3 DEF Execute, Become, Named, t
    <3>2. w = [t EXCEPT !.columns = columns, !.fks = fks, !.indexes = indexes]
      BY <2>3 DEF Worked, t, w
    <3> HIDE DEF rows, columns, fks, indexes
    <3>3. Like(u, w) /\ u.name = n
      BY <1>1, <3>2 DEF IsHeld, Like
    <3> HIDE DEF u
    <3> QED
      BY <3>1, <3>3
  <2>4. CASE op.kind = "add_fk"
    <3>1. Execute(d, op) = Become(d, [t EXCEPT !.fks = Put(@, x)])
      BY <2>4 DEF Execute, Become, Named, t
    <3>2. w = [t EXCEPT !.fks = Put(@, x)]
      BY <2>4 DEF Worked, t, w
    <3> QED
      BY <1>1, <3>1, <3>2 DEF IsHeld, Like
  <2>5. CASE op.kind = "drop_fk"
    <3>1. Execute(d, op) = Become(d, [t EXCEPT !.fks = Less(@, x.name)])
      BY <2>5 DEF Execute, Become, Named, t
    <3>2. w = [t EXCEPT !.fks = Less(@, x.name)]
      BY <2>5 DEF Worked, t, w
    <3> QED
      BY <1>1, <3>1, <3>2 DEF IsHeld, Like
  <2>6. CASE op.kind = "create_index"
    <3>1. Execute(d, op) = Become(d, [t EXCEPT !.indexes = Put(@, x)])
      BY <2>6 DEF Execute, Become, Named, t
    <3>2. w = [t EXCEPT !.indexes = Put(@, x)]
      BY <2>6 DEF Worked, t, w
    <3> QED
      BY <1>1, <3>1, <3>2 DEF IsHeld, Like
  <2>7. CASE op.kind = "drop_index"
    <3>1. Execute(d, op) = Become(d, [t EXCEPT !.indexes = Less(@, x.name)])
      BY <2>7 DEF Execute, Become, Named, t
    <3>2. w = [t EXCEPT !.indexes = Less(@, x.name)]
      BY <2>7 DEF Worked, t, w
    <3> QED
      BY <1>1, <3>1, <3>2 DEF IsHeld, Like
  <2>8. CASE op.kind = "add_check"
    <3>1. Execute(d, op) = Become(d, [t EXCEPT !.checks = Put(@, x)])
      BY <2>8 DEF Execute, Become, Named, t
    <3>2. w = [t EXCEPT !.checks = Put(@, x)]
      BY <2>8 DEF Worked, t, w
    <3> QED
      BY <1>1, <3>1, <3>2 DEF IsHeld, Like
  <2>9. CASE op.kind = "drop_check"
    <3>1. Execute(d, op) = Become(d, [t EXCEPT !.checks = Less(@, x.name)])
      BY <2>9 DEF Execute, Become, Named, t
    <3>2. w = [t EXCEPT !.checks = Less(@, x.name)]
      BY <2>9 DEF Worked, t, w
    <3> QED
      BY <1>1, <3>1, <3>2 DEF IsHeld, Like
  <2>10. CASE op.kind = "create_trigger"
    <3>1. Execute(d, op) = Become(d, [t EXCEPT !.triggers = Put(@, x)])
      BY <2>10 DEF Execute, Become, Named, t
    <3>2. w = [t EXCEPT !.triggers = Put(@, x)]
      BY <2>10 DEF Worked, t, w
    <3> QED
      BY <1>1, <3>1, <3>2 DEF IsHeld, Like
  <2>11. CASE op.kind = "drop_trigger"
    <3>1. Execute(d, op) = Become(d, [t EXCEPT !.triggers = Less(@, x.name)])
      BY <2>11 DEF Execute, Become, Named, t
    <3>2. w = [t EXCEPT !.triggers = Less(@, x.name)]
      BY <2>11 DEF Worked, t, w
    <3> QED
      BY <1>1, <3>1, <3>2 DEF IsHeld, Like
  <2> QED
    BY <2>1, <2>2, <2>3, <2>4, <2>5, <2>6, <2>7, <2>8, <2>9, <2>10, <2>11 DEF WorkKinds
<1>3. CASE op.kind # "rebuild_table"
  <2>1. PICK u : u.name = n /\ Like(u, w) /\ Execute(d, op) = Become(d, u)
    BY <1>2, <1>3
  <2> QED
    BY <2>1, BecomeWorked DEF w
<1>4. CASE op.kind = "rebuild_table"
  <2> DEFINE S == WithoutChildren(d, t, t.rows)
             u == Rebuilt(t, x)
             T == Execute(d, op).tables
  <2>1. Execute(d, op) = [d EXCEPT !.tables = Put(S, u)]
    BY <1>4 DEF Execute, Become, Named, t
  <2>2. w = u
    BY <1>4 DEF Worked, t, w
  <2>3. u.name = n
    BY <1>4 DEF Rebuilt, NewTable, NamesItsTable
  <2>4. Apart(S) /\ \A m : SameAt(d.tables, S, m)
    BY ChildrenHeld, GotWithoutChildren
  <2> HIDE DEF S, u
  <2>5. T = Put(S, u)
    BY <2>1 DEF IsCatalog
  <2>6. /\ In(T, n) /\ Get(T, n) = u
        /\ \A m : m # n => SameAt(S, T, m)
    BY <2>3, <2>4, <2>5, GotPut
  <2>7. \A m : m # n => SameAt(d.tables, T, m)
    BY <2>4, <2>6, SameThrough
  <2> QED
    BY <2>2, <2>6, <2>7 DEF Like, w
<1> QED
  BY <1>3, <1>4

(* What the others make of the tables. *)
LEMMA TableMade ==
    ASSUME NEW d, IsCatalog(d), NEW op, NamesItsTable(op), op.kind = "create_table"
    PROVE  LET T == Execute(d, op).tables IN
           /\ In(T, op.table) /\ Get(T, op.table) = NewTable(op.arg)
           /\ \A m : m # op.table => SameAt(d.tables, T, m)
<1>1. op.kind \notin Skipped
  BY DEF Skipped
<1>2. Execute(d, op) = Become(d, NewTable(op.arg))
  BY <1>1 DEF Execute, Become
<1>3. NewTable(op.arg).name = op.table
  BY DEF NewTable, NamesItsTable
<1>4. Become(d, NewTable(op.arg)).tables = Put(d.tables, NewTable(op.arg))
  BY DEF Become, IsCatalog
<1>5. Apart(d.tables)
  BY DEF IsCatalog
<1> QED
  BY <1>2, <1>3, <1>4, <1>5, GotPut

(* DROP TABLE takes the one table. *)
LEMMA TableGone ==
    ASSUME NEW d, IsCatalog(d), NEW op, op.kind = "drop_table", In(d.tables, op.table)
    PROVE  LET T == Execute(d, op).tables IN
           /\ ~In(T, op.table)
           /\ \A m : m # op.table => SameAt(d.tables, T, m)
<1> DEFINE t == Named(d, op)
           S == WithoutChildren(d, t, t.rows)
           T == Execute(d, op).tables
<1>1. op.kind \notin Skipped
  BY DEF Skipped
<1>2. Execute(d, op) = [d EXCEPT !.tables = Less(S, t.name)]
  BY <1>1 DEF Execute, Become, Named
<1>3. t.name = op.table
  BY Got DEF Named
<1>4. Apart(S) /\ \A m : SameAt(d.tables, S, m)
  BY ChildrenHeld, GotWithoutChildren
<1> HIDE DEF S, t
<1>5. T = Less(S, op.table)
  BY <1>2, <1>3 DEF IsCatalog
<1>6. ~In(T, op.table) /\ \A m : m # op.table => SameAt(S, T, m)
  BY <1>4, <1>5, GotLess
<1> QED
  BY <1>4, <1>6, SameThrough

(* Rows, functions, views and what is skipped leave every table. *)
LEMMA TablesLeft ==
    ASSUME NEW d, IsCatalog(d), NEW op, Accepts(d, op),
           \/ op.kind \in DatabaseKinds \cup RowKinds
           \/ op.kind \in Skipped
           \/ op.kind = "drop_trigger" /\ ~In(d.tables, op.table)
    PROVE  \A m : SameAt(d.tables, Execute(d, op).tables, m)
<1> DEFINE t == Named(d, op)
           T == Execute(d, op).tables
<1>1. \A S, m : SameAt(S, S, m)
  BY DEF SameAt, Like
<1>2. CASE op.kind \in Skipped
  BY <1>1, <1>2 DEF Execute
<1>3. CASE op.kind \notin Skipped /\ op.kind \in DatabaseKinds
  <2>1. CASE op.kind = "create_function"
    BY <1>1, <1>3, <2>1 DEF Execute, IsCatalog
  <2>2. CASE op.kind = "drop_function"
    BY <1>1, <1>3, <2>2 DEF Execute, IsCatalog
  <2>3. CASE op.kind = "create_view"
    BY <1>1, <1>3, <2>3 DEF Execute, IsCatalog
  <2>4. CASE op.kind = "drop_view"
    BY <1>1, <1>3, <2>4 DEF Execute, IsCatalog
  <2>5. CASE op.kind = "raw_sql"
    BY <1>1, <1>3, <2>5 DEF Execute, IsCatalog
  <2>6. CASE op.kind = "ensure_extension"
    BY <1>1, <1>3, <2>6 DEF Execute, IsCatalog
  <2> QED
    BY <1>3, <2>1, <2>2, <2>3, <2>4, <2>5, <2>6 DEF DatabaseKinds
<1>4. CASE op.kind \notin Skipped /\ op.kind = "drop_trigger" /\ ~In(d.tables, op.table)
  BY <1>1, <1>4 DEF Execute
<1>5. CASE op.kind \notin Skipped /\ op.kind \in RowKinds
  <2>1. In(d.tables, op.table)
    BY <1>5 DEF Accepts, RowKinds
  <2>2. t \in d.tables /\ t.name = op.table /\ IsHeld(t) /\ Apart(d.tables)
    BY <2>1, Got DEF IsCatalog, Named
  <2>3. Get(d.tables, op.table) = t
    BY DEF Named
  <2> HIDE DEF t
  <2>4. \A rows : Like([t EXCEPT !.rows = rows], t)
    BY <2>2 DEF IsHeld, Like
  <2>5. ASSUME NEW S, Apart(S), \A m : SameAt(d.tables, S, m), NEW rows
        PROVE  \A m : SameAt(d.tables, Put(S, [t EXCEPT !.rows = rows]), m)
    <3> DEFINE u == [t EXCEPT !.rows = rows]
    <3>1. Like(u, t) /\ u.name = op.table
      BY <2>2, <2>4 DEF Like
    <3> HIDE DEF u
    <3>2. /\ In(Put(S, u), op.table) /\ Get(Put(S, u), op.table) = u
          /\ \A m : m # op.table => SameAt(S, Put(S, u), m)
      BY <2>5, <3>1, GotPut
    <3>3. SameAt(d.tables, Put(S, u), op.table)
      BY <2>1, <2>3, <3>1, <3>2 DEF SameAt
    <3>4. \A m : SameAt(d.tables, Put(S, u), m)
      BY <2>5, <3>2, <3>3, SameThrough
    <3> QED
      BY <3>4 DEF u
  <2>6. CASE op.kind = "insert_data"
    <3>1. Execute(d, op) = Become(d, [t EXCEPT !.rows = @ \cup {op.arg}])
      BY <1>5, <2>6 DEF Execute, Become, Named, t
    <3>2. T = Put(d.tables, [t EXCEPT !.rows = t.rows \cup {op.arg}])
      BY <3>1 DEF Become, IsCatalog
    <3> QED
      BY <1>1, <2>2, <2>5, <3>2
  <2>7. CASE op.kind = "update_data"
    <3>1. PICK rows : Execute(d, op) = Become(d, [t EXCEPT !.rows = rows])
      BY <1>5, <2>7 DEF Execute, Become, Named, t
    <3>2. T = Put(d.tables, [t EXCEPT !.rows = rows])
      BY <3>1 DEF Become, IsCatalog
    <3> QED
      BY <1>1, <2>2, <2>5, <3>2
  <2>8. CASE op.kind = "delete_data"
    <3>1. PICK rows, gone :
             Execute(d, op) = [d EXCEPT !.tables =
                 Put(WithoutChildren(d, t, gone), [t EXCEPT !.rows = rows])]
      BY <1>5, <2>8 DEF Execute, Become, Named, t
    <3>2. T = Put(WithoutChildren(d, t, gone), [t EXCEPT !.rows = rows])
      BY <3>1 DEF IsCatalog
    <3>3. /\ Apart(WithoutChildren(d, t, gone))
          /\ \A m : SameAt(d.tables, WithoutChildren(d, t, gone), m)
      BY ChildrenHeld, GotWithoutChildren
    <3> QED
      BY <2>5, <3>2, <3>3
  <2> QED
    BY <1>5, <2>6, <2>7, <2>8 DEF RowKinds
<1> QED
  BY <1>2, <1>3, <1>4, <1>5

-----------------------------------------------------------------------------
(* The order of the stages *)

(* diff.rs's passes: the stage of each kind. *)
LEMMA StageByKind ==
    ASSUME NEW op
    PROVE  /\ op.kind = "ensure_extension" => StageOf(op) = 1
           /\ op.kind = "drop_view" => StageOf(op) = 2
           /\ op.kind = "drop_trigger" => StageOf(op) = 3
           /\ op.kind = "drop_fk" => StageOf(op) = 4
           /\ op.kind = "drop_check" => StageOf(op) = 5
           /\ op.kind = "drop_index" => StageOf(op) = 6
           /\ op.kind = "create_table" => StageOf(op) = 7
           /\ op.kind = "add_column" => StageOf(op) = 8
           /\ op.kind = "alter_column" => StageOf(op) = 8
           /\ op.kind = "drop_column" => StageOf(op) = 8
           /\ op.kind = "add_fk" => StageOf(op) = 9
           /\ op.kind = "add_check" => StageOf(op) = 10
           /\ op.kind = "create_function" => StageOf(op) = 11
           /\ op.kind = "create_index" => StageOf(op) = 12
           /\ op.kind = "create_trigger" => StageOf(op) = 13
           /\ op.kind = "rebuild_table" => StageOf(op) = 14
           /\ op.kind \in RowKinds => StageOf(op) = 15
           /\ op.kind = "raw_sql" => StageOf(op) = 16
           /\ op.kind = "create_view" => StageOf(op) = 17
           /\ op.kind = "drop_table" => StageOf(op) = 18
           /\ op.kind = "drop_function" => StageOf(op) = 19
BY DEF StageOf, RowKinds

(* op is the next of the operations E when D are done. *)
Staged(D, E, op) ==
    /\ D \subseteq E /\ op \in E
    /\ \A o \in D : StageOf(o) <= StageOf(op)
    /\ \A o \in E : StageOf(o) < StageOf(op) => o \in D

(* What the stages say of the operations done before. *)
LEMMA StagedByKind ==
    ASSUME NEW D, NEW E, NEW op, Staged(D, E, op)
    PROVE  /\ op.kind = "drop_view" => \A o \in D : o.kind # "create_view"
           /\ op.kind = "drop_trigger" => \A o \in D : o.kind # "create_trigger"
           /\ op.kind = "drop_fk" => \A o \in D : o.kind # "add_fk"
           /\ op.kind = "drop_check" => \A o \in D : o.kind # "add_check"
           /\ op.kind = "create_table" =>
                 \A o \in D : o.kind \notin {"add_column", "alter_column", "drop_column",
                     "add_fk", "add_check", "create_index", "create_trigger", "rebuild_table"}
           /\ op.kind \in {"alter_column", "drop_column"} =>
                 /\ \A o \in E : o.kind \in {"drop_fk", "drop_index"} => o \in D
                 /\ \A o \in D : o.kind \notin {"add_fk", "create_index"}
           /\ op.kind \in WorkKinds \ {"rebuild_table"} =>
                 \A o \in D : o.kind # "rebuild_table"
<1>1. CASE op.kind \in {"drop_view", "drop_trigger", "drop_fk", "drop_check", "create_table"}
  BY <1>1, StageByKind DEF Staged, WorkKinds
<1>2. CASE op.kind \in {"alter_column", "drop_column"}
  BY <1>2, StageByKind DEF Staged, WorkKinds
<1>3. ASSUME op.kind \in WorkKinds \ {"rebuild_table"}
      PROVE  \A o \in D : o.kind # "rebuild_table"
  <2>1. StageOf(op) \in 1..13
    BY <1>3, StageByKind DEF WorkKinds
  <2> QED
    BY <2>1, StageByKind DEF Staged
<1> QED
  BY <1>1, <1>2, <1>3

-----------------------------------------------------------------------------
(* What is left, step by step *)

(* What is put is the new list's. *)
PutsOnly(E, n, puts, new) == \A op \in OfKind(E, n, puts) : op.arg \in ToSet(new)

(* Nothing has been put yet. *)
NoneOf(D, kinds) == \A op \in D : op.kind \notin kinds

(* The kinds of operations on each of a table's lists. *)
ColumnKinds == {"drop_column", "add_column", "alter_column"}
IndexKinds == {"drop_index", "create_index"}
FkKinds == {"drop_fk", "add_fk"}
CheckKinds == {"drop_check", "add_check"}
TriggerKinds == {"drop_trigger", "create_trigger"}

(* An operation leaves the lists that are not its own. *)
OthersStay(e, old, t, D, op) ==
    /\ op.table # t.name \/ op.kind \notin ColumnKinds =>
          ColumnsLeft(old, t, D \cup {op}) = ColumnsLeft(old, t, D)
    /\ op.table # t.name \/ op.kind \notin IndexKinds =>
          IndexesLeft(old, t, D \cup {op}) = IndexesLeft(old, t, D)
    /\ op.table # t.name \/ op.kind \notin FkKinds \/ e = "sqlite" =>
          FksLeft(e, old, t, D \cup {op}) = FksLeft(e, old, t, D)
    /\ op.table # t.name \/ op.kind \notin CheckKinds \/ e = "sqlite" =>
          ChecksLeft(e, old, t, D \cup {op}) = ChecksLeft(e, old, t, D)
    /\ op.table # t.name \/ op.kind \notin TriggerKinds \/ e # "postgres" =>
          TriggersLeft(e, old, t, D \cup {op}) = TriggersLeft(e, old, t, D)
    /\ op.table # t.name \/ op.kind # "rebuild_table" =>
          (IsRebuilt(D \cup {op}, t) <=> IsRebuilt(D, t))

(* That is so of every operation. *)
LEMMA LeftsStay ==
    ASSUME NEW e, NEW old, NEW t, NEW D, NEW op PROVE OthersStay(e, old, t, D, op)
<1>1. ASSUME op.table # t.name \/ op.kind \notin ColumnKinds
      PROVE  ColumnsLeft(old, t, D \cup {op}) = ColumnsLeft(old, t, D)
  <2>1. op.table # t.name \/ op.kind \notin {"drop_column"} \cup {"add_column", "alter_column"}
    BY <1>1 DEF ColumnKinds
  <2> QED
    BY <2>1, LeftStays DEF ColumnsLeft
<1>2. ASSUME op.table # t.name \/ op.kind \notin IndexKinds
      PROVE  IndexesLeft(old, t, D \cup {op}) = IndexesLeft(old, t, D)
  <2>1. op.table # t.name \/ op.kind \notin {"drop_index"} \cup {"create_index"}
    BY <1>2 DEF IndexKinds
  <2> QED
    BY <2>1, LeftStays DEF IndexesLeft
<1>3. ASSUME op.table # t.name \/ op.kind \notin FkKinds \/ e = "sqlite"
      PROVE  FksLeft(e, old, t, D \cup {op}) = FksLeft(e, old, t, D)
  <2>1. e # "sqlite" => op.table # t.name \/ op.kind \notin {"drop_fk"} \cup {"add_fk"}
    BY <1>3 DEF FkKinds
  <2> QED
    BY <2>1, LeftStays DEF FksLeft
<1>4. ASSUME op.table # t.name \/ op.kind \notin CheckKinds \/ e = "sqlite"
      PROVE  ChecksLeft(e, old, t, D \cup {op}) = ChecksLeft(e, old, t, D)
  <2>1. e # "sqlite" => op.table # t.name \/ op.kind \notin {"drop_check"} \cup {"add_check"}
    BY <1>4 DEF CheckKinds
  <2> QED
    BY <2>1, LeftStays DEF ChecksLeft
<1>5. ASSUME op.table # t.name \/ op.kind \notin TriggerKinds \/ e # "postgres"
      PROVE  TriggersLeft(e, old, t, D \cup {op}) = TriggersLeft(e, old, t, D)
  <2>1. e = "postgres" =>
           op.table # t.name \/ op.kind \notin {"drop_trigger"} \cup {"create_trigger"}
    BY <1>5 DEF TriggerKinds
  <2> QED
    BY <2>1, LeftStays DEF TriggersLeft
<1>6. ASSUME op.table # t.name \/ op.kind # "rebuild_table"
      PROVE  IsRebuilt(D \cup {op}, t) <=> IsRebuilt(D, t)
  BY <1>6 DEF IsRebuilt, OfKind
<1> QED
  BY <1>1, <1>2, <1>3, <1>4, <1>5, <1>6 DEF OthersStay

-----------------------------------------------------------------------------
(* A table is brought from old to t by the operations E, of which D are done   *)
(* and op is next.                                                          *)
Working(old, t, D, E, op) ==
    /\ IsTable(old) /\ IsTable(t) /\ HoldableTable(old) /\ HoldableTable(t)
    /\ OpsFor(engine, old, t, E) /\ CarriedTable(engine, old, t)
    /\ Staged(D, E, op) /\ op.table = t.name

(* Each operation on a column is one more of those that bring the new columns. *)
LEMMA ColumnsStep ==
    ASSUME NEW old, NEW t, NEW D, NEW E, NEW op, Working(old, t, D, E, op)
    PROVE  /\ op.kind \in {"add_column", "alter_column"} =>
                 Put(ColumnsLeft(old, t, D), op.arg) = ColumnsLeft(old, t, D \cup {op})
           /\ op.kind = "drop_column" =>
                 /\ Less(ColumnsLeft(old, t, D), op.arg.name)
                       = ColumnsLeft(old, t, D \cup {op})
                 /\ ~Has(t.columns, op.arg.name)
<1> DEFINE drops == {"drop_column"}
           puts == {"add_column", "alter_column"}
<1>1. /\ PutsOnly(E, t.name, puts, t.columns)
      /\ \A o \in OfKind(E, t.name, drops) : ~Has(t.columns, o.arg.name)
  BY ColumnsDone DEF PutsOnly, Working
<1>2. TellsApart(t.columns)
  BY DEF Working, HoldableTable
<1>3. op.table = t.name /\ D \subseteq E /\ op \in E
  BY DEF Working, Staged
<1>4. op.kind = "drop_column" => ~Has(t.columns, op.arg.name)
  BY <1>1, <1>3 DEF OfKind
<1>5. /\ op.kind = "drop_column" => op.kind \in drops /\ op.kind \notin puts
      /\ op.kind \in {"add_column", "alter_column"} => op.kind \in puts
  OBVIOUS
<1> HIDE DEF drops, puts
<1>6. op.kind \in drops => NoneCame(D, op.table, puts, op.arg.name)
  <2>1. \A y \in ToSet(t.columns) : Has(t.columns, y.name)
    BY DEF Has, Names
  <2> QED
    BY <1>1, <1>3, <1>4, <2>1 DEF NoneCame, Came, OfKind, PutsOnly, drops
<1>7. op.kind \in puts => OnlyItCame(D, op.table, puts, op.arg)
  BY <1>1, <1>2, <1>3, ToldByName DEF OnlyItCame, Came, OfKind, PutsOnly
<1>8. op.kind \in puts => PutIsLeft(ToSet(old.columns), D, op, drops, puts)
  BY <1>7, LeftPut
<1>9. op.kind \in drops /\ op.kind \notin puts =>
         LessIsLeft(ToSet(old.columns), D, op, drops, puts)
  BY <1>6, LeftLess
<1> QED
  BY <1>3, <1>4, <1>5, <1>8, <1>9
  DEF ColumnsLeft, PutIsLeft, LessIsLeft, drops, puts

(* The same of indexes, *)
LEMMA IndexesStep ==
    ASSUME NEW old, NEW t, NEW D, NEW E, NEW op, Working(old, t, D, E, op)
    PROVE  /\ op.kind = "create_index" =>
                 Put(IndexesLeft(old, t, D), op.arg) = IndexesLeft(old, t, D \cup {op})
           /\ op.kind = "drop_index" =>
                 Less(IndexesLeft(old, t, D), op.arg.name) = IndexesLeft(old, t, D \cup {op})
<1> DEFINE drops == {"drop_index"}
           puts == {"create_index"}
<1>1. /\ PutsOnly(E, t.name, puts, t.indexes)
      /\ \A o \in OfKind(E, t.name, drops) : ~Has(t.indexes, o.arg.name)
  BY IndexesDone DEF PutsOnly, Working, CarriedTable
<1>2. TellsApart(t.indexes)
  BY DEF Working, HoldableTable
<1>3. op.table = t.name /\ D \subseteq E /\ op \in E
  BY DEF Working, Staged
<1>4. op.kind = "drop_index" => ~Has(t.indexes, op.arg.name)
  BY <1>1, <1>3 DEF OfKind
<1>5. /\ op.kind = "drop_index" => op.kind \in drops /\ op.kind \notin puts
      /\ op.kind = "create_index" => op.kind \in puts
  OBVIOUS
<1> HIDE DEF drops, puts
<1>6. op.kind \in drops => NoneCame(D, op.table, puts, op.arg.name)
  <2>1. \A y \in ToSet(t.indexes) : Has(t.indexes, y.name)
    BY DEF Has, Names
  <2> QED
    BY <1>1, <1>3, <1>4, <2>1 DEF NoneCame, Came, OfKind, PutsOnly, drops
<1>7. op.kind \in puts => OnlyItCame(D, op.table, puts, op.arg)
  BY <1>1, <1>2, <1>3, ToldByName DEF OnlyItCame, Came, OfKind, PutsOnly
<1>8. op.kind \in puts => PutIsLeft(ToSet(old.indexes), D, op, drops, puts)
  BY <1>7, LeftPut
<1>9. op.kind \in drops /\ op.kind \notin puts =>
         LessIsLeft(ToSet(old.indexes), D, op, drops, puts)
  BY <1>6, LeftLess
<1> QED
  BY <1>3, <1>4, <1>5, <1>8, <1>9
  DEF IndexesLeft, PutIsLeft, LessIsLeft, drops, puts

(* of foreign keys, *)
LEMMA FksStep ==
    ASSUME NEW old, NEW t, NEW D, NEW E, NEW op, Working(old, t, D, E, op),
           engine # "sqlite"
    PROVE  /\ op.kind = "add_fk" =>
                 Put(FksLeft(engine, old, t, D), op.arg) = FksLeft(engine, old, t, D \cup {op})
           /\ op.kind = "drop_fk" =>
                 Less(FksLeft(engine, old, t, D), op.arg.name)
                    = FksLeft(engine, old, t, D \cup {op})
<1> DEFINE drops == {"drop_fk"}
           puts == {"add_fk"}
<1>1. PutsOnly(E, t.name, puts, t.fks)
  BY FksDone DEF PutsOnly, Working
<1>2. TellsApart(t.fks)
  BY DEF Working, HoldableTable
<1>3. op.table = t.name /\ D \subseteq E /\ op \in E
  BY DEF Working, Staged
<1>4. op.kind = "drop_fk" => NoneOf(D, puts)
  BY StagedByKind DEF Working, NoneOf
<1>5. /\ op.kind = "drop_fk" => op.kind \in drops /\ op.kind \notin puts
      /\ op.kind = "add_fk" => op.kind \in puts
  OBVIOUS
<1> HIDE DEF drops, puts
<1>6. op.kind \in drops => NoneCame(D, op.table, puts, op.arg.name)
  BY <1>4 DEF NoneCame, Came, OfKind, NoneOf, drops
<1>7. op.kind \in puts => OnlyItCame(D, op.table, puts, op.arg)
  BY <1>1, <1>2, <1>3, ToldByName DEF OnlyItCame, Came, OfKind, PutsOnly
<1>8. op.kind \in puts => PutIsLeft(ToSet(old.fks), D, op, drops, puts)
  BY <1>7, LeftPut
<1>9. op.kind \in drops /\ op.kind \notin puts =>
         LessIsLeft(ToSet(old.fks), D, op, drops, puts)
  BY <1>6, LeftLess
<1> QED
  BY <1>3, <1>4, <1>5, <1>8, <1>9
  DEF FksLeft, PutIsLeft, LessIsLeft, drops, puts

(* of checks, *)
LEMMA ChecksStep ==
    ASSUME NEW old, NEW t, NEW D, NEW E, NEW op, Working(old, t, D, E, op),
           engine # "sqlite"
    PROVE  /\ op.kind = "add_check" =>
                 Put(ChecksLeft(engine, old, t, D), op.arg)
                    = ChecksLeft(engine, old, t, D \cup {op})
           /\ op.kind = "drop_check" =>
                 Less(ChecksLeft(engine, old, t, D), op.arg.name)
                    = ChecksLeft(engine, old, t, D \cup {op})
<1> DEFINE drops == {"drop_check"}
           puts == {"add_check"}
<1>1. PutsOnly(E, t.name, puts, t.checks)
  BY ChecksDone DEF PutsOnly, Working
<1>2. TellsApart(t.checks)
  BY DEF Working, HoldableTable
<1>3. op.table = t.name /\ D \subseteq E /\ op \in E
  BY DEF Working, Staged
<1>4. op.kind = "drop_check" => NoneOf(D, puts)
  BY StagedByKind DEF Working, NoneOf
<1>5. /\ op.kind = "drop_check" => op.kind \in drops /\ op.kind \notin puts
      /\ op.kind = "add_check" => op.kind \in puts
  OBVIOUS
<1> HIDE DEF drops, puts
<1>6. op.kind \in drops => NoneCame(D, op.table, puts, op.arg.name)
  BY <1>4 DEF NoneCame, Came, OfKind, NoneOf, drops
<1>7. op.kind \in puts => OnlyItCame(D, op.table, puts, op.arg)
  BY <1>1, <1>2, <1>3, ToldByName DEF OnlyItCame, Came, OfKind, PutsOnly
<1>8. op.kind \in puts => PutIsLeft(ToSet(old.checks), D, op, drops, puts)
  BY <1>7, LeftPut
<1>9. op.kind \in drops /\ op.kind \notin puts =>
         LessIsLeft(ToSet(old.checks), D, op, drops, puts)
  BY <1>6, LeftLess
<1> QED
  BY <1>3, <1>4, <1>5, <1>8, <1>9
  DEF ChecksLeft, PutIsLeft, LessIsLeft, drops, puts

(* and of triggers. *)
LEMMA TriggersStep ==
    ASSUME NEW old, NEW t, NEW D, NEW E, NEW op, Working(old, t, D, E, op),
           engine = "postgres"
    PROVE  /\ op.kind = "create_trigger" =>
                 Put(TriggersLeft(engine, old, t, D), op.arg)
                    = TriggersLeft(engine, old, t, D \cup {op})
           /\ op.kind = "drop_trigger" =>
                 Less(TriggersLeft(engine, old, t, D), op.arg.name)
                    = TriggersLeft(engine, old, t, D \cup {op})
<1> DEFINE drops == {"drop_trigger"}
           puts == {"create_trigger"}
<1>1. PutsOnly(E, t.name, puts, t.triggers)
  BY TriggersDone DEF PutsOnly, Working
<1>2. TellsApart(t.triggers)
  BY DEF Working, HoldableTable
<1>3. op.table = t.name /\ D \subseteq E /\ op \in E
  BY DEF Working, Staged
<1>4. op.kind = "drop_trigger" => NoneOf(D, puts)
  BY StagedByKind DEF Working, NoneOf
<1>5. /\ op.kind = "drop_trigger" => op.kind \in drops /\ op.kind \notin puts
      /\ op.kind = "create_trigger" => op.kind \in puts
  OBVIOUS
<1> HIDE DEF drops, puts
<1>6. op.kind \in drops => NoneCame(D, op.table, puts, op.arg.name)
  BY <1>4 DEF NoneCame, Came, OfKind, NoneOf, drops
<1>7. op.kind \in puts => OnlyItCame(D, op.table, puts, op.arg)
  BY <1>1, <1>2, <1>3, ToldByName DEF OnlyItCame, Came, OfKind, PutsOnly
<1>8. op.kind \in puts => PutIsLeft(ToSet(old.triggers), D, op, drops, puts)
  BY <1>7, LeftPut
<1>9. op.kind \in drops /\ op.kind \notin puts =>
         LessIsLeft(ToSet(old.triggers), D, op, drops, puts)
  BY <1>6, LeftLess
<1> QED
  BY <1>3, <1>4, <1>5, <1>8, <1>9
  DEF TriggersLeft, PutIsLeft, LessIsLeft, drops, puts

-----------------------------------------------------------------------------
(* A table, step by step *)

(* ALTER COLUMN makes the column what the new model has: on Postgres, whose    *)
(* statement leaves the default, because the default is the one it had.      *)
LEMMA AlteredIsNew ==
    ASSUME NEW old, NEW t, NEW D, NEW E, NEW op, Working(old, t, D, E, op),
           op.kind = "alter_column", NEW C, C = ColumnsLeft(old, t, D), In(C, op.arg.name)
    PROVE  AlteredColumn(Get(C, op.arg.name), op.arg) = op.arg
<1> DEFINE x == op.arg
           c == Get(C, x.name)
           puts == {"add_column", "alter_column"}
<1>1. CASE engine # "postgres"
  BY <1>1 DEF AlteredColumn
<1>2. CASE engine = "postgres"
  <2>1. op \in E /\ D \subseteq E /\ op.table = t.name
    BY DEF Working, Staged
  <2>2. /\ \A o \in OfKind(E, t.name, puts) : o.arg \in ToSet(t.columns)
        /\ AltersAnother(E, old, t)
    BY ColumnsDone DEF Working
  <2>3. PICK y \in ToSet(old.columns) : y.name = x.name /\ y # x
    BY <2>1, <2>2 DEF AltersAnother, OfKind
  <2>4. x \in ToSet(t.columns)
    BY <2>1, <2>2 DEF OfKind
  <2>5. [x EXCEPT !.default = y.default] = x
    BY <1>2, <2>3, <2>4 DEF Working, CarriedTable
  <2>6. c \in C /\ c.name = x.name
    BY Got
  <2>7. c \in ToSet(old.columns) \/ c \in Came(D, t.name, puts)
    BY <2>6 DEF ColumnsLeft, Left
  <2>8. CASE c \in ToSet(old.columns)
    <3>1. c = y
      BY <2>3, <2>6, <2>8, ToldByName DEF Working, HoldableTable
    <3> QED
      BY <1>2, <2>5, <3>1 DEF AlteredColumn
  <2>9. CASE c \in Came(D, t.name, puts)
    <3>1. c \in ToSet(t.columns)
      BY <2>1, <2>2, <2>9 DEF Came, OfKind
    <3>2. c = x
      BY <2>4, <2>6, <3>1, ToldByName DEF Working, HoldableTable
    <3>3. [x EXCEPT !.default = x.default] = x
      BY <2>5
    <3> QED
      BY <1>2, <3>2, <3>3 DEF AlteredColumn
  <2> QED
    BY <2>7, <2>8, <2>9
<1> QED
  BY <1>1, <1>2

(* When a column goes, no foreign key or index on it is left to go along. *)
LEMMA NothingOnDropped ==
    ASSUME NEW old, NEW t, NEW D, NEW E, NEW op, Working(old, t, D, E, op),
           op.kind = "drop_column", ~(engine = "sqlite" /\ NeedsRebuild(old, t))
    PROVE  /\ \A f \in FksLeft(engine, old, t, D) : f.on # op.arg.name
           /\ \A i \in IndexesLeft(old, t, D) : i.on # op.arg.name
<1>1. ~Has(t.columns, op.arg.name)
  BY ColumnsStep
<1>2. /\ \A f \in ToSet(t.fks) : f.on # op.arg.name
      /\ \A i \in ToSet(t.indexes) : i.on # op.arg.name
  BY <1>1 DEF Working, CarriedTable
<1>3. /\ \A o \in E : o.kind \in {"drop_fk", "drop_index"} => o \in D
      /\ \A o \in D : o.kind \notin {"add_fk", "create_index"}
  BY StagedByKind DEF Working
<1>4. \A i \in IndexesLeft(old, t, D) : i \in ToSet(t.indexes)
  <2>1. \A i \in ToSet(old.indexes) : i \notin ToSet(t.indexes) =>
           \E o \in OfKind(E, t.name, {"drop_index"}) : o.arg.name = i.name
    BY IndexesDone DEF Working, CarriedTable
  <2> QED
    BY <1>3, <2>1 DEF IndexesLeft, Left, Came, OfKind
<1>5. \A f \in FksLeft(engine, old, t, D) : f \in ToSet(t.fks)
  <2>1. CASE engine # "sqlite"
    <3>1. \A f \in ToSet(old.fks) : f \notin ToSet(t.fks) =>
             \E o \in OfKind(E, t.name, {"drop_fk"}) : o.arg.name = f.name
      BY <2>1, FksDone DEF Working
    <3> QED
      BY <1>3, <2>1, <3>1 DEF FksLeft, Left, Came, OfKind
  <2>2. CASE engine = "sqlite"
    <3>1. Names(t.fks) = Names(old.fks) /\ SameIfNamed(old.fks, t.fks)
      BY <2>2 DEF NeedsRebuild, Working, CarriedTable
    <3>2. \A f \in ToSet(old.fks) : f \in ToSet(t.fks)
      BY <3>1 DEF Names, SameIfNamed
    <3> QED
      BY <2>2, <3>2 DEF FksLeft
  <2> QED
    BY <2>1, <2>2
<1> QED
  BY <1>2, <1>4, <1>5

(* An operation on a table on its way brings it one step on. *)
LEMMA WorkedMidway ==
    ASSUME NEW old, NEW t, NEW D, NEW E, NEW op, Working(old, t, D, E, op),
           NEW d, IsCatalog(d), In(d.tables, op.table), op.kind \in WorkKinds,
           op.kind \notin Skipped, Accepts(d, op),
           TableMidway(engine, old, t, D, Named(d, op))
    PROVE  TableMidway(engine, old, t, D \cup {op}, Worked(d, op))
<1> DEFINE u == Named(d, op)
           w == Worked(d, op)
           x == op.arg
           D2 == D \cup {op}
           whole == engine = "sqlite" /\ NeedsRebuild(old, t)
<1>1. IsHeld(u)
  BY Got DEF IsCatalog, Named
<1>2. /\ u.pk = t.pk
      /\ u.checks = ChecksLeft(engine, old, t, D)
      /\ u.triggers = TriggersLeft(engine, old, t, D)
      /\ ~whole => /\ u.columns = ColumnsLeft(old, t, D)
                   /\ u.indexes = IndexesLeft(old, t, D)
                   /\ u.fks = FksLeft(engine, old, t, D)
  BY DEF TableMidway
<1>3. /\ op.kind \notin ColumnKinds => ColumnsLeft(old, t, D2) = ColumnsLeft(old, t, D)
      /\ op.kind \notin IndexKinds => IndexesLeft(old, t, D2) = IndexesLeft(old, t, D)
      /\ op.kind \notin FkKinds => FksLeft(engine, old, t, D2) = FksLeft(engine, old, t, D)
      /\ op.kind \notin CheckKinds =>
            ChecksLeft(engine, old, t, D2) = ChecksLeft(engine, old, t, D)
      /\ op.kind \notin TriggerKinds =>
            TriggersLeft(engine, old, t, D2) = TriggersLeft(engine, old, t, D)
  <2>1. OthersStay(engine, old, t, D, op)
    BY LeftsStay
  <2> QED
    BY <2>1 DEF OthersStay
<1>4. op.kind # "rebuild_table" => ~IsRebuilt(D2, t)
  <2>1. op.kind # "rebuild_table" => \A o \in D : o.kind # "rebuild_table"
    BY StagedByKind DEF Working
  <2> QED
    BY <2>1 DEF IsRebuilt, OfKind
<1>5. /\ op.kind \in {"add_column", "alter_column"} =>
            Put(ColumnsLeft(old, t, D), x) = ColumnsLeft(old, t, D2)
      /\ op.kind = "drop_column" =>
            Less(ColumnsLeft(old, t, D), x.name) = ColumnsLeft(old, t, D2)
  BY ColumnsStep
<1>6. /\ op.kind = "create_index" => Put(IndexesLeft(old, t, D), x) = IndexesLeft(old, t, D2)
      /\ op.kind = "drop_index" =>
            Less(IndexesLeft(old, t, D), x.name) = IndexesLeft(old, t, D2)
  BY IndexesStep
<1>7. /\ op.kind \in {"add_fk", "drop_fk", "add_check", "drop_check"} => engine # "sqlite"
      /\ op.kind \in {"create_trigger", "drop_trigger"} => engine = "postgres"
      /\ op.kind = "rebuild_table" => engine = "sqlite"
  BY DEF Skipped, DbObjects
<1>8. /\ op.kind = "add_fk" =>
            Put(FksLeft(engine, old, t, D), x) = FksLeft(engine, old, t, D2)
      /\ op.kind = "drop_fk" =>
            Less(FksLeft(engine, old, t, D), x.name) = FksLeft(engine, old, t, D2)
  BY <1>7, FksStep
<1>9. /\ op.kind = "add_check" =>
            Put(ChecksLeft(engine, old, t, D), x) = ChecksLeft(engine, old, t, D2)
      /\ op.kind = "drop_check" =>
            Less(ChecksLeft(engine, old, t, D), x.name) = ChecksLeft(engine, old, t, D2)
  BY <1>7, ChecksStep
<1>10. /\ op.kind = "create_trigger" =>
             Put(TriggersLeft(engine, old, t, D), x) = TriggersLeft(engine, old, t, D2)
       /\ op.kind = "drop_trigger" =>
             Less(TriggersLeft(engine, old, t, D), x.name) = TriggersLeft(engine, old, t, D2)
  BY <1>7, TriggersStep
<1> DEFINE Midway ==
      /\ w.pk = t.pk
      /\ w.checks = ChecksLeft(engine, old, t, D2)
      /\ w.triggers = TriggersLeft(engine, old, t, D2)
      /\ ~whole => /\ w.columns = ColumnsLeft(old, t, D2)
                   /\ w.indexes = IndexesLeft(old, t, D2)
                   /\ w.fks = FksLeft(engine, old, t, D2)
<1>11. op.kind # "rebuild_table" /\ Midway => TableMidway(engine, old, t, D2, w)
  BY <1>4 DEF TableMidway
<1>12. op.kind = "alter_column" /\ ~whole =>
          AlteredColumn(Get(u.columns, x.name), x) = x
  <2> SUFFICES ASSUME op.kind = "alter_column", ~whole
               PROVE  AlteredColumn(Get(u.columns, x.name), x) = x
    OBVIOUS
  <2>1. In(u.columns, x.name)
    BY DEF Accepts, Named
  <2>2. u.columns = ColumnsLeft(old, t, D)
    BY <1>2
  <2> HIDE DEF u, whole
  <2> QED
    BY <2>1, <2>2, AlteredIsNew
<1>13. op.kind = "drop_column" /\ ~whole =>
          /\ {f \in u.fks : f.on # x.name} = u.fks
          /\ {i \in u.indexes : i.on # x.name} = u.indexes
  <2> SUFFICES ASSUME op.kind = "drop_column", ~whole
               PROVE  /\ {f \in u.fks : f.on # x.name} = u.fks
                      /\ {i \in u.indexes : i.on # x.name} = u.indexes
    OBVIOUS
  <2>1. /\ \A f \in FksLeft(engine, old, t, D) : f.on # x.name
        /\ \A i \in IndexesLeft(old, t, D) : i.on # x.name
    BY NothingOnDropped
  <2> QED
    BY <1>2, <2>1
<1>14. CASE op.kind = "rebuild_table"
  <2>1. w = Rebuilt(u, x)
    BY <1>14 DEF Worked
  <2>2. /\ engine = "sqlite" /\ OpsFor("sqlite", old, t, E)
        /\ op \in OfKind(E, t.name, {"rebuild_table"})
    BY <1>7, <1>14 DEF Working, Staged, OfKind
  <2>3. NeedsRebuild(old, t) /\ x.table = t
    BY <2>2, RebuildDone DEF Working
  <2>4. /\ w.columns = ToSet(t.columns) /\ w.pk = t.pk /\ w.fks = ToSet(t.fks)
        /\ w.checks = {} /\ w.indexes = ToSet(t.indexes) /\ w.triggers = {}
    BY <2>1, <2>2, <2>3 DEF Rebuilt, NewTable, InlineForeignKeys, InlineChecks
  <2>5. ChecksLeft(engine, old, t, D2) = {} /\ TriggersLeft(engine, old, t, D2) = {}
    BY <2>2 DEF ChecksLeft, TriggersLeft
  <2> QED
    BY <2>2, <2>3, <2>4, <2>5 DEF TableMidway
<1>15. CASE op.kind = "add_column"
  <2>1. w = [u EXCEPT !.columns = Put(u.columns, x)]
    BY <1>15 DEF Worked
  <2> HIDE DEF u, w, D2, whole
  <2>2. Midway
    BY <1>1, <1>2, <1>3, <1>5, <1>15, <2>1
    DEF IsHeld, ColumnKinds, IndexKinds, FkKinds, CheckKinds, TriggerKinds
  <2> QED
    BY <1>11, <1>15, <2>2 DEF u, w, D2
<1>16. CASE op.kind = "alter_column"
  <2>1. w = [u EXCEPT !.columns = Put(u.columns, AlteredColumn(Get(u.columns, x.name), x))]
    BY <1>16 DEF Worked
  <2> HIDE DEF u, w, D2, whole
  <2>2. Midway
    BY <1>1, <1>2, <1>3, <1>5, <1>12, <1>16, <2>1
    DEF IsHeld, ColumnKinds, IndexKinds, FkKinds, CheckKinds, TriggerKinds
  <2> QED
    BY <1>11, <1>16, <2>2 DEF u, w, D2
<1>17. CASE op.kind = "drop_column"
  <2>1. w = [u EXCEPT !.columns = Less(u.columns, x.name),
                      !.fks = {f \in u.fks : f.on # x.name},
                      !.indexes = {i \in u.indexes : i.on # x.name}]
    BY <1>17 DEF Worked
  <2> HIDE DEF u, w, D2, whole
  <2>2. Midway
    BY <1>1, <1>2, <1>3, <1>5, <1>13, <1>17, <2>1
    DEF IsHeld, ColumnKinds, IndexKinds, FkKinds, CheckKinds, TriggerKinds
  <2> QED
    BY <1>11, <1>17, <2>2 DEF u, w, D2
<1>18. CASE op.kind = "add_fk"
  <2>1. w = [u EXCEPT !.fks = Put(u.fks, x)]
    BY <1>18 DEF Worked
  <2> HIDE DEF u, w, D2, whole
  <2>2. Midway
    BY <1>1, <1>2, <1>3, <1>8, <1>18, <2>1
    DEF IsHeld, ColumnKinds, IndexKinds, FkKinds, CheckKinds, TriggerKinds
  <2> QED
    BY <1>11, <1>18, <2>2 DEF u, w, D2
<1>19. CASE op.kind = "drop_fk"
  <2>1. w = [u EXCEPT !.fks = Less(u.fks, x.name)]
    BY <1>19 DEF Worked
  <2> HIDE DEF u, w, D2, whole
  <2>2. Midway
    BY <1>1, <1>2, <1>3, <1>8, <1>19, <2>1
    DEF IsHeld, ColumnKinds, IndexKinds, FkKinds, CheckKinds, TriggerKinds
  <2> QED
    BY <1>11, <1>19, <2>2 DEF u, w, D2
<1>20. CASE op.kind = "create_index"
  <2>1. w = [u EXCEPT !.indexes = Put(u.indexes, x)]
    BY <1>20 DEF Worked
  <2> HIDE DEF u, w, D2, whole
  <2>2. Midway
    BY <1>1, <1>2, <1>3, <1>6, <1>20, <2>1
    DEF IsHeld, ColumnKinds, IndexKinds, FkKinds, CheckKinds, TriggerKinds
  <2> QED
    BY <1>11, <1>20, <2>2 DEF u, w, D2
<1>21. CASE op.kind = "drop_index"
  <2>1. w = [u EXCEPT !.indexes = Less(u.indexes, x.name)]
    BY <1>21 DEF Worked
  <2> HIDE DEF u, w, D2, whole
  <2>2. Midway
    BY <1>1, <1>2, <1>3, <1>6, <1>21, <2>1
    DEF IsHeld, ColumnKinds, IndexKinds, FkKinds, CheckKinds, TriggerKinds
  <2> QED
    BY <1>11, <1>21, <2>2 DEF u, w, D2
<1>22. CASE op.kind = "add_check"
  <2>1. w = [u EXCEPT !.checks = Put(u.checks, x)]
    BY <1>22 DEF Worked
  <2> HIDE DEF u, w, D2, whole
  <2>2. Midway
    BY <1>1, <1>2, <1>3, <1>9, <1>22, <2>1
    DEF IsHeld, ColumnKinds, IndexKinds, FkKinds, CheckKinds, TriggerKinds
  <2> QED
    BY <1>11, <1>22, <2>2 DEF u, w, D2
<1>23. CASE op.kind = "drop_check"
  <2>1. w = [u EXCEPT !.checks = Less(u.checks, x.name)]
    BY <1>23 DEF Worked
  <2> HIDE DEF u, w, D2, whole
  <2>2. Midway
    BY <1>1, <1>2, <1>3, <1>9, <1>23, <2>1
    DEF IsHeld, ColumnKinds, IndexKinds, FkKinds, CheckKinds, TriggerKinds
  <2> QED
    BY <1>11, <1>23, <2>2 DEF u, w, D2
<1>24. CASE op.kind = "create_trigger"
  <2>1. w = [u EXCEPT !.triggers = Put(u.triggers, x)]
    BY <1>24 DEF Worked
  <2> HIDE DEF u, w, D2, whole
  <2>2. Midway
    BY <1>1, <1>2, <1>3, <1>10, <1>24, <2>1
    DEF IsHeld, ColumnKinds, IndexKinds, FkKinds, CheckKinds, TriggerKinds
  <2> QED
    BY <1>11, <1>24, <2>2 DEF u, w, D2
<1>25. CASE op.kind = "drop_trigger"
  <2>1. w = [u EXCEPT !.triggers = Less(u.triggers, x.name)]
    BY <1>25 DEF Worked
  <2> HIDE DEF u, w, D2, whole
  <2>2. Midway
    BY <1>1, <1>2, <1>3, <1>10, <1>25, <2>1
    DEF IsHeld, ColumnKinds, IndexKinds, FkKinds, CheckKinds, TriggerKinds
  <2> QED
    BY <1>11, <1>25, <2>2 DEF u, w, D2
<1> QED
  BY <1>14, <1>15, <1>16, <1>17, <1>18, <1>19, <1>20, <1>21, <1>22, <1>23,
     <1>24, <1>25 DEF WorkKinds

(* CREATE TABLE makes the table's base, and nothing has been done to it yet. *)
LEMMA MadeMidway ==
    ASSUME NEW old, NEW t, NEW D, NEW E, NEW op, Working(old, t, D, E, op),
           op.kind = "create_table",
           old.columns = t.columns, old.checks = t.checks,
           old.indexes = <<>>, old.triggers = <<>>,
           old.fks = IF engine = "sqlite" THEN t.fks ELSE <<>>,
           engine # "postgres" => t.checks = <<>>
    PROVE  TableMidway(engine, old, t, D \cup {op}, NewTable(t))
<1> DEFINE D2 == D \cup {op}
           Still(o) == \/ o.kind \in TableKinds
                       \/ o.kind \in {"add_fk", "drop_fk"} /\ engine # "sqlite"
<1>1. D \subseteq E
  BY DEF Working, Staged
<1>2. \A o \in D : o.kind \notin {"add_column", "alter_column", "drop_column", "add_fk",
         "add_check", "create_index", "create_trigger", "rebuild_table"}
  BY StagedByKind DEF Working
<1>3. ASSUME NEW o \in D, o.table = t.name, Still(o) PROVE FALSE
  <2>1. IsForKept(o, old, t)
    BY <1>1, <1>3 DEF Working, OpsFor
  <2>2. \/ o.kind \in {"drop_trigger", "drop_check", "drop_index"}
        \/ o.kind = "drop_fk" /\ engine # "sqlite"
    BY <1>2, <1>3 DEF TableKinds
  <2>3. TellsApart(t.checks)
    BY DEF Working, HoldableTable
  <2>4. CASE o.kind = "drop_trigger"
    BY <2>1, <2>4, KeptByKind, EmptyList DEF Working
  <2>5. CASE o.kind = "drop_check"
    BY <2>1, <2>3, <2>5, KeptByKind, SameList DEF Working
  <2>6. CASE o.kind = "drop_index"
    BY <2>1, <2>6, KeptByKind, EmptyList DEF Working
  <2>7. CASE o.kind = "drop_fk" /\ engine # "sqlite"
    BY <2>1, <2>7, KeptByKind, EmptyList DEF Working
  <2> QED
    BY <2>2, <2>4, <2>5, <2>6, <2>7
<1>4. \A o \in D2 : o.table = t.name => ~Still(o) /\ o.kind # "rebuild_table"
  BY <1>2, <1>3 DEF TableKinds
<1> HIDE DEF D2
<1>5. ToSet(<<>>) = {}
  BY NoneHolds
<1>6. ColumnsLeft(old, t, D2) = ToSet(t.columns)
  BY <1>4 DEF TableKinds, ColumnsLeft, Left, Came, OfKind
<1>7. IndexesLeft(old, t, D2) = {}
  BY <1>4, <1>5 DEF TableKinds, IndexesLeft, Left, Came, OfKind
<1>8. FksLeft(engine, old, t, D2) = IF engine = "sqlite" THEN ToSet(t.fks) ELSE {}
  BY <1>4, <1>5 DEF FksLeft, Left, Came, OfKind
<1>9. ChecksLeft(engine, old, t, D2) = IF engine = "postgres" THEN ToSet(t.checks) ELSE {}
  <2>1. CASE engine = "sqlite"
    BY <2>1 DEF ChecksLeft
  <2>2. CASE engine # "sqlite"
    <3>1. ChecksLeft(engine, old, t, D2) = ToSet(t.checks)
      BY <1>4, <2>2 DEF TableKinds, ChecksLeft, Left, Came, OfKind
    <3> QED
      BY <1>5, <3>1
  <2> QED
    BY <2>1, <2>2
<1>10. TriggersLeft(engine, old, t, D2) = {}
  BY <1>4, <1>5 DEF TableKinds, TriggersLeft, Left, Came, OfKind
<1>11. ~IsRebuilt(D2, t)
  BY <1>4 DEF IsRebuilt, OfKind
<1> QED
  BY <1>6, <1>7, <1>8, <1>9, <1>10, <1>11
  DEF TableMidway, NewTable, InlineForeignKeys, InlineChecks, D2

(* What an emitted operation names. *)
LEMMA EmittedTable ==
    ASSUME NEW a, NEW b, Holdable(a), Holdable(b), NEW op, IsEmitted(op, a, b)
    PROVE  /\ op.kind = "create_table" =>
                 \E t \in ToSet(b.tables) :
                    /\ ~Has(a.tables, t.name)
                    /\ op = Operation("create_table", t.name, t)
           /\ op.kind = "drop_table" => ~Has(b.tables, op.table)
           /\ NamesItsTable(op)
<1>1. IsForDatabase(op, a, b) => op.kind \notin {"create_table", "rebuild_table"}
  BY DatabaseByKind
<1>2. \A t : IsForRemoved(op, t) => op.kind \notin {"create_table", "rebuild_table"}
  BY RemovedByKind
<1>3. \A t : IsForCreated(op, t) =>
         /\ op.kind = "create_table" => op = Operation("create_table", t.name, t)
         /\ op.kind # "rebuild_table"
  BY OperationIs DEF IsForCreated, IsOneOf
<1>4. ASSUME NEW t \in ToSet(b.tables), Has(a.tables, t.name),
             IsForKept(op, Find(a.tables, t.name), t)
      PROVE  /\ op.kind # "create_table"
             /\ op.kind = "rebuild_table" => op.arg.table.name = op.table
  <2> DEFINE old == Find(a.tables, t.name)
  <2>1. IsTable(t) /\ IsTable(old)
    BY <1>4, HoldableIsModel, FindFacts DEF IsModel
  <2>2. /\ op.kind # "create_table"
        /\ op.kind = "rebuild_table" => IsRebuild(op, old, t)
    BY <1>4, <2>1, KeptByKind
  <2>3. IsRebuild(op, old, t) => op.arg.table.name = op.table
    BY OperationIs DEF IsRebuild
  <2> QED
    BY <2>2, <2>3
<1>5. op.kind = "create_table" =>
         \E t \in ToSet(b.tables) :
            ~Has(a.tables, t.name) /\ op = Operation("create_table", t.name, t)
  BY <1>1, <1>2, <1>3, <1>4 DEF IsEmitted
<1>6. op.kind = "rebuild_table" => op.arg.table.name = op.table
  BY <1>1, <1>2, <1>3, <1>4 DEF IsEmitted
<1>7. op.kind = "drop_table" => ~Has(b.tables, op.table)
  BY ForTable DEF Has, Names
<1> QED
  BY <1>5, <1>6, <1>7, OperationIs DEF NamesItsTable

-----------------------------------------------------------------------------
(* The tables, step by step *)

(* A table that an operation leaves alone is as far on its way as it was. *)
LEMMA OtherMidway ==
    ASSUME NEW old, NEW t, NEW D, NEW op, NEW u, NEW v, Like(v, u),
           TableMidway(engine, old, t, D, u),
           op.table # t.name \/ op.kind \notin WorkKinds
              \/ (op.kind \in Skipped /\ (op.kind = "alter_column" => NeedsRebuild(old, t)))
    PROVE  TableMidway(engine, old, t, D \cup {op}, v)
<1> DEFINE D2 == D \cup {op}
           whole == engine = "sqlite" /\ NeedsRebuild(old, t)
           K == op.kind
           other == op.table # t.name
<1>1. /\ other \/ K \notin ColumnKinds => ColumnsLeft(old, t, D2) = ColumnsLeft(old, t, D)
      /\ other \/ K \notin IndexKinds => IndexesLeft(old, t, D2) = IndexesLeft(old, t, D)
      /\ other \/ K \notin FkKinds \/ engine = "sqlite" =>
            FksLeft(engine, old, t, D2) = FksLeft(engine, old, t, D)
      /\ other \/ K \notin CheckKinds \/ engine = "sqlite" =>
            ChecksLeft(engine, old, t, D2) = ChecksLeft(engine, old, t, D)
      /\ other \/ K \notin TriggerKinds \/ engine # "postgres" =>
            TriggersLeft(engine, old, t, D2) = TriggersLeft(engine, old, t, D)
      /\ other \/ K # "rebuild_table" => (IsRebuilt(D2, t) <=> IsRebuilt(D, t))
  <2>1. OthersStay(engine, old, t, D, op)
    BY LeftsStay
  <2> QED
    BY <2>1 DEF OthersStay
<1>2. /\ K \in Skipped /\ K \in WorkKinds /\ engine # "sqlite" =>
            K \in TriggerKinds \cup {"rebuild_table"}
      /\ K \in Skipped /\ K \in WorkKinds /\ engine = "sqlite" =>
            K \in TriggerKinds \cup FkKinds \cup CheckKinds \cup {"alter_column"}
      /\ K \in Skipped /\ engine = "postgres" => K \notin TriggerKinds
  <2>1. CASE engine = "sqlite"
    BY <2>1 DEF Skipped, DbObjects, WorkKinds, TriggerKinds, FkKinds, CheckKinds
  <2>2. CASE engine = "postgres"
    BY <2>2 DEF Skipped, DbObjects, WorkKinds, TriggerKinds
  <2>3. CASE engine \notin {"sqlite", "postgres"}
    BY <2>3 DEF Skipped, DbObjects, WorkKinds, TriggerKinds
  <2> QED
    BY <2>1, <2>2, <2>3
<1>3. ~whole => ColumnsLeft(old, t, D2) = ColumnsLeft(old, t, D)
  <2>1. CASE other \/ K \notin WorkKinds
    BY <1>1, <2>1 DEF ColumnKinds, WorkKinds
  <2>2. CASE K \in Skipped /\ K \in WorkKinds /\ (K = "alter_column" => NeedsRebuild(old, t))
    BY <1>1, <1>2, <2>2 DEF ColumnKinds, TriggerKinds, FkKinds, CheckKinds
  <2> QED
    BY <2>1, <2>2
<1>4. IndexesLeft(old, t, D2) = IndexesLeft(old, t, D)
  BY <1>1, <1>2 DEF IndexKinds, TriggerKinds, FkKinds, CheckKinds, WorkKinds
<1>5. FksLeft(engine, old, t, D2) = FksLeft(engine, old, t, D)
  BY <1>1, <1>2 DEF TriggerKinds, FkKinds, WorkKinds
<1>6. ChecksLeft(engine, old, t, D2) = ChecksLeft(engine, old, t, D)
  BY <1>1, <1>2 DEF TriggerKinds, CheckKinds, WorkKinds
<1>7. TriggersLeft(engine, old, t, D2) = TriggersLeft(engine, old, t, D)
  BY <1>1, <1>2 DEF TriggerKinds, WorkKinds
<1>8. engine = "sqlite" => (IsRebuilt(D2, t) <=> IsRebuilt(D, t))
  BY <1>1, <1>2 DEF TriggerKinds, FkKinds, CheckKinds, WorkKinds
<1> HIDE DEF D2
<1> QED
  BY <1>3, <1>4, <1>5, <1>6, <1>7, <1>8 DEF TableMidway, Like, D2

(* Where a migration between a and b stands. *)
Underway(a, b, D, E, op, d) ==
    /\ Holdable(a) /\ Holdable(b) /\ Carried(engine, a, b)
    /\ \A o : o \in E <=> IsEmitted(o, a, b)
    /\ Staged(D, E, op) /\ IsCatalog(d) /\ Accepts(d, op)

(* An operation under way is one that brings its table on. *)
LEMMA UnderwayIsWorking ==
    ASSUME NEW a, NEW b, NEW D, NEW E, NEW op, NEW d, Underway(a, b, D, E, op, d),
           NEW t \in ToSet(b.tables), op.table = t.name
    PROVE  Working(Base(engine, a, t), t, D, E, op)
<1> DEFINE old == Base(engine, a, t)
<1>1. Holdable(a) /\ Holdable(b) /\ \A o : o \in E <=> IsEmitted(o, a, b)
  BY DEF Underway
<1>2. IsTable(t) /\ HoldableTable(t)
  BY <1>1, HoldableIsModel
<1>3. IsTable(old) /\ HoldableTable(old)
  BY <1>1, ForTable
<1>4. ASSUME NEW o, o.table = t.name
      PROVE  /\ o.kind \in TableKinds => (o \in E <=> IsForKept(o, old, t))
             /\ o.kind \in {"add_fk", "drop_fk"} /\ engine # "sqlite" =>
                   (o \in E <=> IsForKept(o, old, t))
             /\ o.kind = "rebuild_table" /\ engine = "sqlite" =>
                   (o \in E <=> IsForKept(o, old, t))
  BY <1>1, <1>4, ForTable
<1>5. OpsFor(engine, old, t, E)
  BY <1>4 DEF OpsFor
<1>6. CarriedTable(engine, old, t) /\ Staged(D, E, op)
  BY DEF Underway, Carried
<1> QED
  BY <1>2, <1>3, <1>5, <1>6 DEF Working

(* An operation that neither makes the table nor drops it brings it on: what it *)
(* does to another table, or to none, leaves it as it is.                     *)
LEMMA OneTableStep ==
    ASSUME NEW old, NEW t, NEW D, NEW E, NEW op, NEW d, IsCatalog(d), Shaped(op),
           NamesItsTable(op), Accepts(d, op),
           op.table = t.name => Working(old, t, D, E, op),
           op.kind \in {"create_table", "drop_table"} => op.table # t.name,
           In(d.tables, t.name) =>
              TableMidway(engine, old, t, D, Get(d.tables, t.name)),
           In(Execute(d, op).tables, t.name)
    PROVE  TableMidway(engine, old, t, D \cup {op}, Get(Execute(d, op).tables, t.name))
<1> DEFINE T == Execute(d, op).tables
<1>1. ASSUME SameAt(d.tables, T, t.name),
             op.table # t.name \/ op.kind \notin WorkKinds
               \/ (op.kind \in Skipped /\ (op.kind = "alter_column" => NeedsRebuild(old, t)))
      PROVE  TableMidway(engine, old, t, D \cup {op}, Get(T, t.name))
  <2>1. Like(Get(T, t.name), Get(d.tables, t.name)) /\ In(d.tables, t.name)
    BY <1>1 DEF SameAt
  <2>2. TableMidway(engine, old, t, D, Get(d.tables, t.name))
    BY <2>1
  <2> QED
    BY <1>1, <2>1, <2>2, OtherMidway
<1>2. CASE op.kind \in DatabaseKinds \cup RowKinds
  <2>1. SameAt(d.tables, T, t.name)
    BY <1>2, TablesLeft
  <2>2. op.kind \notin WorkKinds
    BY <1>2 DEF WorkKinds, DatabaseKinds, RowKinds
  <2> QED
    BY <1>1, <2>1, <2>2
<1>3. CASE op.kind = "drop_table"
  <2>1. In(d.tables, op.table)
    BY <1>3 DEF Accepts, Skipped
  <2>2. SameAt(d.tables, T, t.name)
    BY <1>3, <2>1, TableGone
  <2> QED
    BY <1>1, <1>3, <2>2
<1>4. CASE op.kind = "create_table"
  <2>1. SameAt(d.tables, T, t.name)
    BY <1>4, TableMade
  <2> QED
    BY <1>1, <1>4, <2>1
<1>5. CASE op.kind \in WorkKinds /\ op.table # t.name
  <2>1. SameAt(d.tables, T, t.name)
    <3>1. CASE op.kind \in Skipped
      BY <3>1, TablesLeft
    <3>2. CASE op.kind \notin Skipped /\ In(d.tables, op.table)
      BY <1>5, <3>2, WorkDone
    <3>3. CASE op.kind \notin Skipped /\ ~In(d.tables, op.table)
      <4>1. op.kind = "drop_trigger"
        BY <1>5, <3>3 DEF Accepts, WorkKinds
      <4> QED
        BY <3>3, <4>1, TablesLeft
    <3> QED
      BY <3>1, <3>2, <3>3
  <2> QED
    BY <1>1, <1>5, <2>1
<1>6. CASE op.kind \in WorkKinds /\ op.table = t.name
  <2>1. Working(old, t, D, E, op)
    BY <1>6
  <2>2. CASE op.kind \in Skipped
    <3>1. SameAt(d.tables, T, t.name)
      BY <2>2, TablesLeft
    <3>2. op.kind = "alter_column" => NeedsRebuild(old, t)
      <4>1. op.kind = "alter_column" => engine = "sqlite"
        BY <2>2 DEF Skipped
      <4>2. op \in E
        BY <2>1 DEF Working, Staged
      <4>3. op.kind = "alter_column" => op \in OfKind(E, t.name, {"alter_column"})
        BY <1>6, <4>2 DEF OfKind
      <4>4. engine = "sqlite" => /\ IsTable(old) /\ IsTable(t) /\ OpsFor("sqlite", old, t, E)
        BY <2>1 DEF Working
      <4>5. engine = "sqlite" /\ OfKind(E, t.name, {"alter_column"}) # {} =>
               NeedsRebuild(old, t)
        BY <4>4, RebuildDone
      <4> QED
        BY <4>1, <4>3, <4>5
    <3> QED
      BY <1>1, <2>2, <3>1, <3>2
  <2>3. CASE op.kind \notin Skipped /\ In(d.tables, op.table)
    <3>1. Like(Get(T, t.name), Worked(d, op))
      BY <1>6, <2>3, WorkDone
    <3>2. TableMidway(engine, old, t, D, Named(d, op))
      BY <1>6, <2>3 DEF Named
    <3> HIDE DEF T
    <3>3. TableMidway(engine, old, t, D \cup {op}, Worked(d, op))
      BY <1>6, <2>1, <2>3, <3>2, WorkedMidway
    <3> QED
      BY <3>1, <3>3 DEF TableMidway, Like, T
  <2>4. CASE op.kind \notin Skipped /\ ~In(d.tables, op.table)
    <3>1. op.kind = "drop_trigger"
      BY <1>6, <2>4 DEF Accepts, WorkKinds
    <3>2. SameAt(d.tables, T, t.name)
      BY <2>4, <3>1, TablesLeft
    <3> QED
      BY <1>6, <2>4, <3>2 DEF SameAt
  <2> QED
    BY <2>2, <2>3, <2>4
<1>7. op.kind \in DatabaseKinds \cup RowKinds \cup WorkKinds \cup {"create_table", "drop_table"}
  BY DEF Shaped, Kinds, DatabaseKinds, RowKinds, WorkKinds
<1> QED
  BY <1>2, <1>3, <1>4, <1>5, <1>6, <1>7

(* Each operation brings each table of the new model on. *)
LEMMA EachTableStep ==
    ASSUME NEW a, NEW b, NEW D, NEW E, NEW op, NEW d, Underway(a, b, D, E, op, d),
           NEW t \in ToSet(b.tables),
           In(d.tables, t.name) =>
              TableMidway(engine, Base(engine, a, t), t, D, Get(d.tables, t.name)),
           In(Execute(d, op).tables, t.name)
    PROVE  TableMidway(engine, Base(engine, a, t), t, D \cup {op},
                       Get(Execute(d, op).tables, t.name))
<1> DEFINE old == Base(engine, a, t)
           T == Execute(d, op).tables
<1>1. /\ Holdable(a) /\ Holdable(b) /\ IsEmitted(op, a, b) /\ IsCatalog(d)
      /\ Accepts(d, op)
  BY DEF Underway, Staged
<1>2. Shaped(op) /\ NamesItsTable(op)
  BY <1>1, EmittedIsShaped, EmittedTable
<1>3. CASE op.kind = "create_table" /\ op.table = t.name
  <2>1. PICK z \in ToSet(b.tables) :
           ~Has(a.tables, z.name) /\ op = Operation("create_table", z.name, z)
    BY <1>1, <1>3, EmittedTable
  <2>2. z = t
    <3>1. z.name = t.name
      <4>1. op.table = z.name
        BY <2>1, OperationIs
      <4> QED
        BY <1>3, <4>1
    <3>2. TellsApart(b.tables)
      BY <1>1 DEF Holdable
    <3> QED
      BY <3>1, <3>2, ToldByName
  <2>3. ~Has(a.tables, t.name) /\ op.arg = t
    BY <2>1, <2>2, OperationIs
  <2>4. Get(T, t.name) = NewTable(t)
    BY <1>1, <1>2, <1>3, <2>3, TableMade
  <2>5. /\ old.columns = t.columns /\ old.checks = t.checks
        /\ old.indexes = <<>> /\ old.triggers = <<>>
        /\ old.fks = IF engine = "sqlite" THEN t.fks ELSE <<>>
    BY <2>3 DEF Base
  <2>6. engine # "postgres" => t.checks = <<>>
    BY <2>3 DEF Underway, Carried
  <2>7. Working(old, t, D, E, op)
    BY <1>3, UnderwayIsWorking
  <2> HIDE DEF old
  <2>8. TableMidway(engine, old, t, D \cup {op}, NewTable(t))
    BY <1>3, <2>5, <2>6, <2>7, MadeMidway
  <2> QED
    BY <2>4, <2>8 DEF old
<1>4. CASE ~(op.kind = "create_table" /\ op.table = t.name)
  <2>1. op.kind \in {"create_table", "drop_table"} => op.table # t.name
    BY <1>1, <1>4, EmittedTable DEF Has, Names
  <2>2. op.table = t.name => Working(old, t, D, E, op)
    BY UnderwayIsWorking
  <2> HIDE DEF old
  <2>3. TableMidway(engine, old, t, D \cup {op}, Get(T, t.name))
    BY <1>1, <1>2, <2>1, <2>2, OneTableStep DEF old
  <2> QED
    BY <2>3 DEF old
<1> QED
  BY <1>3, <1>4

(* Tables come with their creation and go with their removal. *)
LEMMA NamesKept ==
    ASSUME NEW d, IsCatalog(d), NEW op, Shaped(op), NamesItsTable(op), Accepts(d, op)
    PROVE  LET T == Execute(d, op).tables IN
           /\ \A m : op.kind \notin {"create_table", "drop_table"} \/ m # op.table =>
                 (In(T, m) <=> In(d.tables, m))
           /\ op.kind = "create_table" => In(T, op.table)
           /\ op.kind = "drop_table" => ~In(T, op.table)
<1> DEFINE T == Execute(d, op).tables
<1>1. CASE op.kind \in DatabaseKinds \cup RowKinds \/ op.kind \in Skipped
  <2>1. \A m : SameAt(d.tables, T, m)
    BY <1>1, TablesLeft
  <2>2. op.kind \notin {"create_table", "drop_table"}
    BY <1>1 DEF DatabaseKinds, RowKinds, Skipped
  <2> QED
    BY <2>1, <2>2 DEF SameAt
<1>2. CASE op.kind = "create_table"
  BY <1>2, TableMade DEF SameAt
<1>3. CASE op.kind = "drop_table"
  <2>1. In(d.tables, op.table)
    BY <1>3 DEF Accepts, Skipped
  <2> QED
    BY <1>3, <2>1, TableGone DEF SameAt
<1>4. CASE op.kind \in WorkKinds /\ op.kind \notin Skipped /\ In(d.tables, op.table)
  <2>1. op.kind \notin {"create_table", "drop_table"}
    BY <1>4 DEF WorkKinds
  <2>2. /\ In(T, op.table)
        /\ \A m : m # op.table => SameAt(d.tables, T, m)
    BY <1>4, WorkDone
  <2> HIDE DEF T
  <2>3. \A m : In(T, m) <=> In(d.tables, m)
    BY <1>4, <2>2 DEF SameAt
  <2> QED
    BY <2>1, <2>3 DEF T
<1>5. CASE op.kind \in WorkKinds /\ op.kind \notin Skipped /\ ~In(d.tables, op.table)
  <2>1. op.kind = "drop_trigger"
    BY <1>5 DEF Accepts, WorkKinds
  <2>2. \A m : SameAt(d.tables, T, m)
    BY <1>5, <2>1, TablesLeft
  <2> QED
    BY <2>1, <2>2 DEF SameAt
<1>6. op.kind \in DatabaseKinds \cup RowKinds \cup WorkKinds \cup {"create_table", "drop_table"}
  BY DEF Shaped, Kinds, DatabaseKinds, RowKinds, WorkKinds
<1> QED
  BY <1>1, <1>2, <1>3, <1>4, <1>5, <1>6

(* Each operation brings the catalog's tables on. *)
LEMMA TablesStep ==
    ASSUME NEW a, NEW b, NEW D, NEW E, NEW op, NEW d, Underway(a, b, D, E, op, d),
           TablesMidway(engine, a, b, D, d)
    PROVE  TablesMidway(engine, a, b, D \cup {op}, Execute(d, op))
<1> DEFINE D2 == D \cup {op}
           T == Execute(d, op).tables
<1>1. /\ Holdable(a) /\ Holdable(b) /\ IsEmitted(op, a, b) /\ IsCatalog(d)
      /\ Accepts(d, op)
  BY DEF Underway, Staged
<1>2. Shaped(op) /\ NamesItsTable(op)
  BY <1>1, EmittedIsShaped, EmittedTable
<1>3. /\ \A m : op.kind \notin {"create_table", "drop_table"} \/ m # op.table =>
            (In(T, m) <=> In(d.tables, m))
      /\ op.kind = "create_table" => In(T, op.table)
      /\ op.kind = "drop_table" => ~In(T, op.table)
  BY <1>1, <1>2, NamesKept
<1>4. /\ op.kind = "create_table" => Has(b.tables, op.table)
      /\ op.kind = "drop_table" => ~Has(b.tables, op.table)
  BY <1>1, EmittedTable, OperationIs DEF Has, Names
<1> HIDE DEF T
<1>5. ASSUME NEW t \in ToSet(b.tables),
             Has(a.tables, t.name) \/ OfKind(D2, t.name, {"create_table"}) # {}
      PROVE  In(T, t.name)
  <2>1. CASE op.kind = "create_table" /\ op.table = t.name
    BY <1>3, <2>1
  <2>2. CASE ~(op.kind = "create_table" /\ op.table = t.name)
    <3>1. Has(a.tables, t.name) \/ OfKind(D, t.name, {"create_table"}) # {}
      BY <1>5, <2>2 DEF OfKind
    <3>2. In(d.tables, t.name)
      BY <3>1 DEF TablesMidway
    <3>3. Has(b.tables, t.name)
      BY DEF Has, Names
    <3> QED
      BY <1>3, <1>4, <2>2, <3>2, <3>3
  <2> QED
    BY <2>1, <2>2
<1>6. ASSUME NEW u \in T
      PROVE  \/ Has(b.tables, u.name)
             \/ Has(a.tables, u.name) /\ OfKind(D2, u.name, {"drop_table"}) = {}
  <2> SUFFICES ASSUME ~Has(b.tables, u.name)
               PROVE  Has(a.tables, u.name) /\ OfKind(D2, u.name, {"drop_table"}) = {}
    OBVIOUS
  <2>1. In(T, u.name)
    BY DEF In
  <2>2. ~(op.kind \in {"create_table", "drop_table"} /\ op.table = u.name)
    BY <1>3, <1>4, <2>1
  <2>3. In(d.tables, u.name)
    BY <1>3, <2>1, <2>2
  <2>4. PICK v \in d.tables : v.name = u.name
    BY <2>3 DEF In
  <2>5. Has(a.tables, v.name) /\ OfKind(D, v.name, {"drop_table"}) = {}
    BY <2>4 DEF TablesMidway
  <2> QED
    BY <2>2, <2>4, <2>5 DEF OfKind
<1>7. ASSUME NEW t \in ToSet(b.tables), In(T, t.name)
      PROVE  TableMidway(engine, Base(engine, a, t), t, D2, Get(T, t.name))
  <2>1. In(d.tables, t.name) =>
           TableMidway(engine, Base(engine, a, t), t, D, Get(d.tables, t.name))
    BY DEF TablesMidway
  <2> QED
    BY <1>7, <2>1, EachTableStep DEF T
<1> QED
  BY <1>5, <1>6, <1>7 DEF TablesMidway, T

-----------------------------------------------------------------------------
(* What is no table's, step by step *)

LEMMA DatabaseOp ==
    ASSUME NEW a, NEW b, Holdable(a), Holdable(b), NEW op, op.kind \in DatabaseKinds
    PROVE  IsEmitted(op, a, b) <=> IsForDatabase(op, a, b)
<1>1. \A t : ~IsForRemoved(op, t)
  BY RemovedByKind DEF DatabaseKinds
<1>2. \A t : ~IsForCreated(op, t)
  BY OperationIs DEF IsForCreated, IsOneOf, DatabaseKinds
<1>3. ASSUME NEW t \in ToSet(b.tables), Has(a.tables, t.name)
      PROVE  ~IsForKept(op, Find(a.tables, t.name), t)
  <2>1. IsTable(t) /\ IsTable(Find(a.tables, t.name))
    BY <1>3, HoldableIsModel, FindFacts DEF IsModel
  <2> QED
    BY <2>1, KeptByKind DEF DatabaseKinds
<1> QED
  BY <1>1, <1>2, <1>3 DEF IsEmitted

(* What the functions and views come to. *)
LEMMA FunctionsDone ==
    ASSUME NEW a, NEW b, Holdable(a), Holdable(b), NEW E,
           \A op : op \in E <=> IsEmitted(op, a, b)
    PROVE  /\ FunctionsLeft(ToSet(a.functions), E) = ToSet(b.functions)
           /\ \A op \in OfKind(E, Everywhere, {"create_function"}) :
                 op.arg \in ToSet(b.functions)
           /\ \A op \in OfKind(E, Everywhere, {"drop_function"}) :
                 ~Has(b.functions, op.arg.name)
<1> DEFINE drops == {"drop_function"}
           puts == {"create_function"}
<1>1. /\ \A op : op.kind \in drops =>
            (op \in E <=> IsMissing(op, op.kind, Everywhere, a.functions, b.functions))
      /\ \A op : op.kind = "create_function" =>
            (op \in E <=> IsAdd(op, op.kind, Everywhere, b.functions, a.functions))
  BY DatabaseOp, DatabaseByKind DEF DatabaseKinds
<1>2. TellsApart(a.functions) /\ TellsApart(b.functions)
  BY DEF Holdable
<1>3. \A op \in OfKind(E, Everywhere, puts) : op.arg \in ToSet(b.functions)
  BY <1>1, OperationIs DEF OfKind, IsAdd
<1>4. ASSUME NEW y \in ToSet(b.functions), y \notin ToSet(a.functions)
      PROVE  \E op \in OfKind(E, Everywhere, puts) : op.arg = y
  <2>1. ~Has(a.functions, y.name) \/ Find(a.functions, y.name) # y
    BY <1>2, <1>4, NotIn
  <2>2. PICK op : op = Operation("create_function", Everywhere, y)
    OBVIOUS
  <2>3. op.kind = "create_function" /\ op.table = Everywhere /\ op.arg = y
    BY <2>2, OperationIs
  <2>4. IsAdd(op, op.kind, Everywhere, b.functions, a.functions)
    BY <2>1, <2>2, <2>3 DEF IsAdd
  <2> QED
    BY <1>1, <2>3, <2>4 DEF OfKind
<1>5. "drop_function" \in drops
  OBVIOUS
<1>6. DropsMissing(E, Everywhere, drops, a.functions, b.functions)
  BY <1>1 DEF DropsMissing
<1>7. PutsNew(E, Everywhere, puts, a.functions, b.functions)
  BY <1>3, <1>4 DEF PutsNew
<1> HIDE DEF drops, puts
<1>8. MissingDone(E, Everywhere, drops, puts, a.functions, b.functions)
  BY <1>2, <1>5, <1>6, <1>7, MissingAndPuts
<1> QED
  BY <1>3, <1>8 DEF MissingDone, FunctionsLeft, drops, puts

(* And the views. *)
LEMMA ViewsDone ==
    ASSUME NEW a, NEW b, Holdable(a), Holdable(b), NEW E,
           \A op : op \in E <=> IsEmitted(op, a, b)
    PROVE  /\ ViewsLeft(ToSet(a.views), E) = ToSet(b.views)
           /\ \A op \in OfKind(E, Everywhere, {"create_view"}) : op.arg \in ToSet(b.views)
<1> DEFINE drops == {"drop_view"}
           puts == {"create_view"}
<1>1. /\ \A op : op.table = Everywhere /\ op.kind \in drops =>
            (op \in E <=> IsDrop(op, op.kind, Everywhere, b.views, a.views))
      /\ \A op : op.table = Everywhere /\ op.kind \in puts =>
            (op \in E <=> IsAdd(op, op.kind, Everywhere, b.views, a.views))
  BY DatabaseOp, DatabaseByKind DEF DatabaseKinds
<1>2. TellsApart(a.views) /\ TellsApart(b.views)
  BY DEF Holdable
<1>3. "drop_view" \in drops /\ "create_view" \in puts
  OBVIOUS
<1>4. /\ DropsRedefined(E, Everywhere, drops, a.views, b.views)
      /\ AddsRedefined(E, Everywhere, puts, a.views, b.views)
  BY <1>1 DEF DropsRedefined, AddsRedefined
<1> HIDE DEF drops, puts
<1>5. RedefinedDone(E, Everywhere, drops, puts, a.views, b.views)
  BY <1>2, <1>3, <1>4, DropsAndAdds
<1> QED
  BY <1>5 DEF RedefinedDone, ViewsLeft, drops, puts

(* The operations on tables and rows change nothing else. *)
SameRest(d, d2) ==
    /\ d2.functions = d.functions /\ d2.views = d.views
    /\ d2.raw = d.raw /\ d2.extensions = d.extensions

(* Other tables are other tables and nothing else. *)
LEMMA TablesOnly ==
    ASSUME NEW d, IsCatalog(d), NEW S PROVE SameRest(d, [d EXCEPT !.tables = S])
BY DEF IsCatalog, SameRest

(* So every operation that is not about them leaves them. *)
LEMMA RestKept ==
    ASSUME NEW d, IsCatalog(d), NEW op, Shaped(op),
           op.kind \notin DatabaseKinds \/ op.kind \in Skipped
    PROVE  SameRest(d, Execute(d, op))
<1> DEFINE t == Named(d, op)
<1> HIDE DEF t
<1>1. CASE op.kind \in Skipped
  BY <1>1 DEF Execute, SameRest
<1>2. CASE op.kind \notin Skipped
  <2>1. SameRest(d, d)
    BY DEF SameRest
  <2> SUFFICES \E S : Execute(d, op) = [d EXCEPT !.tables = S] \/ Execute(d, op) = d
    BY <2>1, TablesOnly
  <2> USE <1>2 DEF Execute, Named, t
  <2>2. CASE op.kind = "create_table"
    BY <2>2
  <2>3. CASE op.kind = "drop_table"
    BY <2>3
  <2>4. CASE op.kind = "add_column"
    BY <2>4
  <2>5. CASE op.kind = "alter_column"
    BY <2>5
  <2>6. CASE op.kind = "drop_column"
    BY <2>6
  <2>7. CASE op.kind = "add_fk"
    BY <2>7
  <2>8. CASE op.kind = "drop_fk"
    BY <2>8
  <2>9. CASE op.kind = "create_index"
    BY <2>9
  <2>10. CASE op.kind = "drop_index"
    BY <2>10
  <2>11. CASE op.kind = "add_check"
    BY <2>11
  <2>12. CASE op.kind = "drop_check"
    BY <2>12
  <2>13. CASE op.kind = "create_trigger"
    BY <2>13
  <2>14. CASE op.kind = "drop_trigger"
    BY <2>14
  <2>15. CASE op.kind = "rebuild_table"
    BY <2>15
  <2>16. CASE op.kind = "insert_data"
    BY <2>16
  <2>17. CASE op.kind = "update_data"
    BY <2>17
  <2>18. CASE op.kind = "delete_data"
    BY <2>18
  <2> QED
    BY <2>2, <2>3, <2>4, <2>5, <2>6, <2>7, <2>8, <2>9, <2>10, <2>11, <2>12,
       <2>13, <2>14, <2>15, <2>16, <2>17, <2>18 DEF Shaped, Kinds, DatabaseKinds
<1> QED
  BY <1>1, <1>2

(* What an operation under way is. *)
LEMMA UnderwayFacts ==
    ASSUME NEW a, NEW b, NEW D, NEW E, NEW op, NEW d, Underway(a, b, D, E, op, d)
    PROVE  /\ IsCatalog(d) /\ Shaped(op) /\ IsEmitted(op, a, b)
           /\ \A o \in D : o \in E
           /\ op.kind \in DatabaseKinds => op.table = Everywhere
<1>1. /\ Holdable(a) /\ Holdable(b) /\ IsEmitted(op, a, b) /\ IsCatalog(d)
      /\ \A o \in D : o \in E
  BY DEF Underway, Staged
<1>2. Shaped(op)
  BY <1>1, EmittedIsShaped
<1>3. op.kind \in DatabaseKinds => op.table = Everywhere
  BY <1>1, DatabaseOp, DatabaseByKind
<1> QED
  BY <1>1, <1>2, <1>3

(* An operation of another kind leaves the functions and views as far as they were. *)
LEMMA RestStays ==
    ASSUME NEW X, NEW D, NEW op
    PROVE  /\ op.kind \notin {"drop_function", "create_function"} =>
                FunctionsLeft(X, D \cup {op}) = FunctionsLeft(X, D)
           /\ op.kind \notin {"drop_view", "create_view"} =>
                ViewsLeft(X, D \cup {op}) = ViewsLeft(X, D)
<1>1. op.kind \notin {"drop_function", "create_function"} =>
         op.kind \notin {"drop_function"} \cup {"create_function"}
  OBVIOUS
<1>2. op.kind \notin {"drop_view", "create_view"} =>
         op.kind \notin {"drop_view"} \cup {"create_view"}
  OBVIOUS
<1> QED
  BY <1>1, <1>2, LeftStays DEF FunctionsLeft, ViewsLeft

(* The functions, and the views, on their way. *)
FunctionsMidway(a, D, d) == d.functions = FunctionsLeft(ToSet(a.functions), D)
ViewsMidway(a, D, d) == d.views = ViewsLeft(ToSet(a.views), D)

(* An operation brings the functions on, *)
LEMMA FunctionsStep ==
    ASSUME NEW a, NEW b, NEW D, NEW E, NEW op, NEW d, Underway(a, b, D, E, op, d),
           engine = "postgres", FunctionsMidway(a, D, d)
    PROVE  FunctionsMidway(a, D \cup {op}, Execute(d, op))
<1> USE DEF FunctionsMidway
<1> DEFINE X == ToSet(a.functions)
           drops == {"drop_function"}
           puts == {"create_function"}
<1>1. /\ IsCatalog(d) /\ Shaped(op) /\ \A o \in D : o \in E
      /\ op.kind \in DatabaseKinds => op.table = Everywhere
      /\ op \in E
  BY UnderwayFacts DEF Underway, Staged
<1>2. /\ \A o \in OfKind(E, Everywhere, puts) : o.arg \in ToSet(b.functions)
      /\ \A o \in OfKind(E, Everywhere, drops) : ~Has(b.functions, o.arg.name)
      /\ TellsApart(b.functions)
  BY FunctionsDone DEF Underway, Holdable
<1>3. /\ \A y \in Came(D, Everywhere, puts) : y \in ToSet(b.functions)
      /\ \A x, y \in ToSet(b.functions) : x.name = y.name => x = y
      /\ \A y \in ToSet(b.functions) : Has(b.functions, y.name)
  BY <1>1, <1>2, ToldByName DEF Came, OfKind, Has, Names
<1>4. CASE op.kind = "create_function"
  <2>1. op.kind \in puts /\ op.table = Everywhere /\ op.arg \in ToSet(b.functions)
    BY <1>1, <1>2, <1>4 DEF DatabaseKinds, OfKind
  <2>2. Execute(d, op).functions = Put(d.functions, op.arg)
    <3>1. op.kind \notin Skipped
      BY <1>4 DEF Skipped, DbObjects
    <3>2. Execute(d, op) = [d EXCEPT !.functions = Put(@, op.arg)]
      BY <1>4, <3>1 DEF Execute
    <3> QED
      BY <1>1, <3>2 DEF IsCatalog
  <2> HIDE DEF drops, puts, X
  <2>3. OnlyItCame(D, op.table, puts, op.arg)
    BY <1>3, <2>1 DEF OnlyItCame
  <2>4. PutIsLeft(X, D, op, drops, puts)
    BY <2>1, <2>3, LeftPut
  <2> QED
    BY <2>1, <2>2, <2>4 DEF PutIsLeft, FunctionsLeft, drops, puts, X
<1>5. CASE op.kind = "drop_function"
  <2>1. /\ op.kind \in drops /\ op.kind \notin puts /\ op.table = Everywhere
        /\ ~Has(b.functions, op.arg.name)
    BY <1>1, <1>2, <1>5 DEF DatabaseKinds, OfKind
  <2>2. Execute(d, op).functions = Less(d.functions, op.arg.name)
    <3>1. op.kind \notin Skipped
      BY <1>5 DEF Skipped, DbObjects
    <3>2. Execute(d, op) = [d EXCEPT !.functions = Less(@, op.arg.name)]
      BY <1>5, <3>1 DEF Execute
    <3> QED
      BY <1>1, <3>2 DEF IsCatalog
  <2> HIDE DEF drops, puts, X
  <2>3. NoneCame(D, op.table, puts, op.arg.name)
    BY <1>3, <2>1 DEF NoneCame
  <2>4. LessIsLeft(X, D, op, drops, puts)
    BY <2>1, <2>3, LeftLess
  <2> QED
    BY <2>1, <2>2, <2>4 DEF LessIsLeft, FunctionsLeft, drops, puts, X
<1>6. CASE op.kind \notin {"create_function", "drop_function"}
  <2>1. Execute(d, op).functions = d.functions
    <3>1. CASE op.kind \notin DatabaseKinds \/ op.kind \in Skipped
      <4>1. SameRest(d, Execute(d, op))
        BY <1>1, <3>1, RestKept
      <4> QED
        BY <4>1 DEF SameRest
    <3>2. CASE op.kind \in DatabaseKinds /\ op.kind \notin Skipped
      BY <1>1, <1>6, <3>2, Zenon DEF DatabaseKinds, Execute, IsCatalog
    <3> QED
      BY <3>1, <3>2
  <2> QED
    BY <1>6, <2>1, RestStays
<1> QED
  BY <1>4, <1>5, <1>6

(* and the views, *)
LEMMA ViewsStep ==
    ASSUME NEW a, NEW b, NEW D, NEW E, NEW op, NEW d, Underway(a, b, D, E, op, d),
           ViewsMidway(a, D, d)
    PROVE  ViewsMidway(a, D \cup {op}, Execute(d, op))
<1> USE DEF ViewsMidway
<1> DEFINE X == ToSet(a.views)
           drops == {"drop_view"}
           puts == {"create_view"}
<1>1. /\ IsCatalog(d) /\ Shaped(op) /\ \A o \in D : o \in E
      /\ op.kind \in DatabaseKinds => op.table = Everywhere
      /\ op \in E /\ Staged(D, E, op)
  BY UnderwayFacts DEF Underway, Staged
<1>2. /\ \A o \in OfKind(E, Everywhere, puts) : o.arg \in ToSet(b.views)
      /\ TellsApart(b.views)
  BY ViewsDone DEF Underway, Holdable
<1>3. /\ \A y \in Came(D, Everywhere, puts) : y \in ToSet(b.views)
      /\ \A x, y \in ToSet(b.views) : x.name = y.name => x = y
  BY <1>1, <1>2, ToldByName DEF Came, OfKind
<1>4. CASE op.kind = "create_view"
  <2>1. op.kind \in puts /\ op.table = Everywhere /\ op.arg \in ToSet(b.views)
    BY <1>1, <1>2, <1>4 DEF DatabaseKinds, OfKind
  <2>2. Execute(d, op).views = Put(d.views, op.arg)
    <3>1. op.kind \notin Skipped
      BY <1>4 DEF Skipped, DbObjects
    <3>2. Execute(d, op) = [d EXCEPT !.views = Put(@, op.arg)]
      BY <1>4, <3>1 DEF Execute
    <3> QED
      BY <1>1, <3>2 DEF IsCatalog
  <2> HIDE DEF drops, puts, X
  <2>3. OnlyItCame(D, op.table, puts, op.arg)
    BY <1>3, <2>1 DEF OnlyItCame
  <2>4. PutIsLeft(X, D, op, drops, puts)
    BY <2>1, <2>3, LeftPut
  <2> QED
    BY <2>1, <2>2, <2>4 DEF PutIsLeft, ViewsLeft, drops, puts, X
<1>5. CASE op.kind = "drop_view"
  <2>1. op.kind \in drops /\ op.kind \notin puts /\ op.table = Everywhere
    BY <1>1, <1>5 DEF DatabaseKinds
  <2>2. Execute(d, op).views = Less(d.views, op.arg.name)
    <3>1. op.kind \notin Skipped
      BY <1>5 DEF Skipped, DbObjects
    <3>2. Execute(d, op) = [d EXCEPT !.views = Less(@, op.arg.name)]
      BY <1>5, <3>1 DEF Execute
    <3> QED
      BY <1>1, <3>2 DEF IsCatalog
  <2>3. \A o \in D : o.kind # "create_view"
    BY <1>1, <1>5, StagedByKind
  <2>4. Came(D, Everywhere, puts) = {}
    BY <2>3 DEF Came, OfKind
  <2> HIDE DEF drops, puts, X
  <2>5. NoneCame(D, op.table, puts, op.arg.name)
    BY <2>1, <2>4 DEF NoneCame
  <2>6. LessIsLeft(X, D, op, drops, puts)
    BY <2>1, <2>5, LeftLess
  <2> QED
    BY <2>1, <2>2, <2>6 DEF LessIsLeft, ViewsLeft, drops, puts, X
<1>6. CASE op.kind \notin {"create_view", "drop_view"}
  <2>1. Execute(d, op).views = d.views
    <3>1. CASE op.kind \notin DatabaseKinds \/ op.kind \in Skipped
      <4>1. SameRest(d, Execute(d, op))
        BY <1>1, <3>1, RestKept
      <4> QED
        BY <4>1 DEF SameRest
    <3>2. CASE op.kind \in DatabaseKinds /\ op.kind \notin Skipped
      BY <1>1, <1>6, <3>2, Zenon DEF DatabaseKinds, Execute, IsCatalog
    <3> QED
      BY <3>1, <3>2
  <2> QED
    BY <1>6, <2>1, RestStays
<1> QED
  BY <1>4, <1>5, <1>6

(* Raw DDL and extensions only come. *)
LEMMA AddedStep ==
    ASSUME NEW d, IsCatalog(d), NEW op, Shaped(op)
    PROVE  /\ d.raw \subseteq Execute(d, op).raw
           /\ op.kind = "raw_sql" => op.arg \in Execute(d, op).raw
           /\ d.extensions \subseteq Execute(d, op).extensions
           /\ op.kind = "ensure_extension" /\ engine = "postgres" =>
                 op.arg \in Execute(d, op).extensions
<1>1. CASE op.kind = "raw_sql"
  <2>1. op.kind \notin Skipped
    BY <1>1 DEF Skipped
  <2>2. Execute(d, op) = [d EXCEPT !.raw = @ \cup {op.arg}]
    BY <1>1, <2>1 DEF Execute
  <2>3. /\ Execute(d, op).raw = d.raw \cup {op.arg}
        /\ Execute(d, op).extensions = d.extensions
    BY <2>2 DEF IsCatalog
  <2> QED
    BY <1>1, <2>3
<1>2. CASE op.kind = "ensure_extension" /\ op.kind \notin Skipped
  <2>1. Execute(d, op) = [d EXCEPT !.extensions = @ \cup {op.arg}]
    BY <1>2 DEF Execute
  <2>2. /\ Execute(d, op).extensions = d.extensions \cup {op.arg}
        /\ Execute(d, op).raw = d.raw
    BY <2>1 DEF IsCatalog
  <2> QED
    BY <1>2, <2>2
<1>3. CASE op.kind \notin DatabaseKinds \/ op.kind \in Skipped
  <2>1. SameRest(d, Execute(d, op))
    BY <1>3, RestKept
  <2>2. op.kind # "raw_sql"
    BY <1>3 DEF DatabaseKinds, Skipped
  <2>3. op.kind = "ensure_extension" => engine # "postgres"
    BY <1>3 DEF DatabaseKinds, Skipped, DbObjects
  <2> QED
    BY <2>1, <2>2, <2>3 DEF SameRest
<1>4. CASE op.kind \in DatabaseKinds \ {"raw_sql", "ensure_extension"} /\ op.kind \notin Skipped
  <2>1. Execute(d, op).raw = d.raw /\ Execute(d, op).extensions = d.extensions
    BY <1>4, Zenon DEF DatabaseKinds, Execute, IsCatalog
  <2> QED
    BY <1>4, <2>1
<1> QED
  BY <1>1, <1>2, <1>3, <1>4 DEF DatabaseKinds

(* and all that is no table's. *)
LEMMA RestStep ==
    ASSUME NEW a, NEW b, NEW D, NEW E, NEW op, NEW d, Underway(a, b, D, E, op, d),
           RestMidway(engine, a, b, D, d)
    PROVE  RestMidway(engine, a, b, D \cup {op}, Execute(d, op))
<1> DEFINE D2 == D \cup {op}
           d2 == Execute(d, op)
<1>1. IsCatalog(d) /\ Shaped(op)
  BY UnderwayFacts
<1>2. engine = "postgres" => d2.functions = FunctionsLeft(ToSet(a.functions), D2)
  <2> HAVE engine = "postgres"
  <2>1. FunctionsMidway(a, D, d)
    BY DEF RestMidway, FunctionsMidway
  <2>2. FunctionsMidway(a, D \cup {op}, Execute(d, op))
    BY <2>1, FunctionsStep
  <2> QED
    BY <2>2 DEF FunctionsMidway
<1>3. engine # "postgres" => d2.functions = {}
  <2> SUFFICES ASSUME engine # "postgres" PROVE d2.functions = {}
    OBVIOUS
  <2>1. d2.functions = d.functions
    <3>1. CASE op.kind \notin DatabaseKinds \/ op.kind \in Skipped
      <4>1. SameRest(d, d2)
        BY <1>1, <3>1, RestKept
      <4> QED
        BY <4>1 DEF SameRest
    <3>2. CASE op.kind \in DatabaseKinds /\ op.kind \notin Skipped
      <4>1. op.kind \in {"drop_view", "create_view", "raw_sql"}
        BY <3>2 DEF DatabaseKinds, Skipped, DbObjects
      <4> QED
        BY <1>1, <3>2, <4>1, Zenon DEF Execute, IsCatalog
    <3> QED
      BY <3>1, <3>2
  <2> QED
    BY <2>1 DEF RestMidway
<1>4. d2.views = ViewsLeft(ToSet(a.views), D2)
  <2>1. ViewsMidway(a, D, d)
    BY DEF RestMidway, ViewsMidway
  <2>2. ViewsMidway(a, D \cup {op}, Execute(d, op))
    BY <2>1, ViewsStep
  <2> QED
    BY <2>2 DEF ViewsMidway
<1>5. /\ d.raw \subseteq d2.raw /\ d.extensions \subseteq d2.extensions
      /\ op.kind = "raw_sql" => op.arg \in d2.raw
      /\ op.kind = "ensure_extension" /\ engine = "postgres" => op.arg \in d2.extensions
  BY <1>1, AddedStep
<1>6. \A y \in Came(D2, Everywhere, {"raw_sql"}) :
         \/ y \in Came(D, Everywhere, {"raw_sql"})
         \/ (op.kind = "raw_sql" /\ y = op.arg)
  BY DEF Came, OfKind
<1>7. \A y \in Came(D2, Everywhere, {"ensure_extension"}) :
         \/ y \in Came(D, Everywhere, {"ensure_extension"})
         \/ (op.kind = "ensure_extension" /\ y = op.arg)
  BY DEF Came, OfKind
<1> HIDE DEF D2, d2
<1>8. ToSet(a.raw) \cup Came(D2, Everywhere, {"raw_sql"}) \subseteq d2.raw
  BY <1>5, <1>6 DEF RestMidway
<1>9. engine = "postgres" =>
         WantedExtensions(a) \cup Came(D2, Everywhere, {"ensure_extension"}) \subseteq d2.extensions
  BY <1>5, <1>7 DEF RestMidway
<1> QED
  BY <1>2, <1>3, <1>4, <1>8, <1>9 DEF RestMidway, D2, d2

-----------------------------------------------------------------------------
(* The operations still to run *)

(* D are done of the operations E, and the list holds the others in the order   *)
(* of their stages.                                                         *)
Pending(D, E, list) ==
    /\ UpToStage(list, 19)
    /\ \A o : o \in E <=> o \in D \/ o \in ToSet(list)
    /\ \A o \in D : StageOf(o) \in Nat
    /\ \A o \in D, p \in ToSet(list) : StageOf(o) <= StageOf(p)

(* The first of the list is the next in the order of the stages. *)
LEMMA PendingStaged ==
    ASSUME NEW D, NEW E, NEW list, Pending(D, E, list), list # <<>>
    PROVE  Staged(D, E, Head(list))
<1> DEFINE op == Head(list)
<1>1. /\ IsList(list) /\ \A p \in ToSet(list) : StageOf(p) \in Nat
      /\ \A i, j \in DOMAIN list : i <= j => StageOf(list[i]) <= StageOf(list[j])
  BY DEF Pending, UpToStage
<1>2. op \in ToSet(list) /\ op = list[1] /\ 1 \in DOMAIN list
      /\ \A i \in DOMAIN list : 1 <= i
  BY <1>1, ListFacts, TailFacts
<1>3. \A p \in ToSet(list) : StageOf(op) <= StageOf(p)
  BY <1>1, <1>2 DEF ToSet
<1> HIDE DEF op
<1>4. ASSUME NEW o \in E, StageOf(o) < StageOf(op) PROVE o \in D
  <2>1. o \in ToSet(list) => StageOf(op) <= StageOf(o) /\ StageOf(o) \in Nat
    BY <1>1, <1>3
  <2>2. StageOf(op) \in Nat
    BY <1>1, <1>2
  <2> QED
    BY <1>4, <2>1, <2>2 DEF Pending
<1>5. \A o \in D : StageOf(o) <= StageOf(op)
  BY <1>2 DEF Pending
<1>6. D \subseteq E /\ op \in E
  BY <1>2 DEF Pending
<1> QED
  BY <1>4, <1>5, <1>6 DEF Staged, op

(* When it is done, the rest is pending. *)
LEMMA PendingStep ==
    ASSUME NEW D, NEW E, NEW list, Pending(D, E, list), list # <<>>
    PROVE  Pending(D \cup {Head(list)}, E, Tail(list))
<1> DEFINE op == Head(list)
           rest == Tail(list)
<1>1. /\ IsList(list) /\ \A p \in ToSet(list) : StageOf(p) \in Nat /\ StageOf(p) <= 19
      /\ \A i, j \in DOMAIN list : i <= j => StageOf(list[i]) <= StageOf(list[j])
  BY DEF Pending, UpToStage
<1>2. IsList(rest) /\ ToSet(list) = {op} \cup ToSet(rest)
  BY <1>1, TailFacts
<1>3. /\ Len(list) \in Nat /\ DOMAIN list = 1..Len(list)
      /\ Len(list) # 0 /\ DOMAIN rest = 1..(Len(list) - 1)
      /\ \A i \in DOMAIN rest : rest[i] = list[i + 1]
      /\ op = list[1]
  BY <1>1 DEF IsList
<1> HIDE DEF op, rest
<1>4. \A i, j \in DOMAIN rest : i <= j => StageOf(rest[i]) <= StageOf(rest[j])
  <2> SUFFICES ASSUME NEW i \in DOMAIN rest, NEW j \in DOMAIN rest, i <= j
               PROVE  StageOf(rest[i]) <= StageOf(rest[j])
    OBVIOUS
  <2>1. /\ i + 1 \in DOMAIN list /\ j + 1 \in DOMAIN list /\ i + 1 <= j + 1
    BY <1>3
  <2> QED
    BY <1>1, <1>3, <2>1
<1>5. UpToStage(rest, 19)
  BY <1>1, <1>2, <1>4 DEF UpToStage
<1>6. \A p \in ToSet(rest) : StageOf(op) <= StageOf(p)
  <2> TAKE p \in ToSet(rest)
  <2>1. PICK i \in DOMAIN rest : p = rest[i]
    BY DEF ToSet
  <2>2. i + 1 \in DOMAIN list /\ 1 \in DOMAIN list /\ 1 <= i + 1
    BY <1>3
  <2> QED
    BY <1>1, <1>3, <2>1, <2>2
<1>7. StageOf(op) \in Nat
  BY <1>1, <1>2
<1>8. \A o : o \in E <=> o \in D \cup {op} \/ o \in ToSet(rest)
  BY <1>2 DEF Pending
<1>9. \A o \in D, p \in ToSet(rest) : StageOf(o) <= StageOf(p)
  BY <1>2 DEF Pending
<1>10. \A o \in D : StageOf(o) \in Nat
  BY DEF Pending
<1>11. Pending(D \cup {op}, E, rest)
  BY <1>5, <1>6, <1>7, <1>8, <1>9, <1>10 DEF Pending
<1> QED
  BY <1>11 DEF op, rest

(* A difference's operations are all pending, and are those that it emits. *)
LEMMA PendingDiff ==
    ASSUME NEW a, NEW b, Holdable(a), Holdable(b)
    PROVE  /\ Pending({}, ToSet(Diff(a, b)), Diff(a, b))
           /\ \A op : op \in ToSet(Diff(a, b)) <=> IsEmitted(op, a, b)
<1>1. /\ UpToStage(Diff(a, b), 19)
      /\ \A op : op \in ToSet(Diff(a, b)) <=> IsEmitted(op, a, b)
  BY HoldableIsModel, DiffHolds
<1> QED
  BY <1>1 DEF Pending

-----------------------------------------------------------------------------
(* Where a migration starts *)

(* Before any operation, everything is left. *)
LEMMA FromNothing ==
    /\ \A X, n, drop, put : Left(X, {}, n, drop, put) = X
    /\ \A n, put : Came({}, n, put) = {}
<1>1. \A n, kinds : OfKind({}, n, kinds) = {}
  BY DEF OfKind
<1>2. \A n, put : Came({}, n, put) = {}
  BY <1>1 DEF Came
<1>3. ASSUME NEW X, NEW n, NEW drop, NEW put PROVE Left(X, {}, n, drop, put) = X
  <2> DEFINE kinds == drop \cup put
  <2>1. OfKind({}, n, kinds) = {}
    BY <1>1
  <2> QED
    BY <1>2, <2>1 DEF Left
<1> QED
  BY <1>2, <1>3

(* Of a table's lists too. *)
LEMMA NothingLeft ==
    ASSUME NEW e, NEW old, NEW t
    PROVE  /\ ColumnsLeft(old, t, {}) = ToSet(old.columns)
           /\ IndexesLeft(old, t, {}) = ToSet(old.indexes)
           /\ FksLeft(e, old, t, {}) = ToSet(old.fks)
           /\ e # "sqlite" => ChecksLeft(e, old, t, {}) = ToSet(old.checks)
           /\ e = "postgres" => TriggersLeft(e, old, t, {}) = ToSet(old.triggers)
           /\ ~IsRebuilt({}, t)
<1>1. \A X, n, drop, put : Left(X, {}, n, drop, put) = X
  BY FromNothing
<1>2. ColumnsLeft(old, t, {}) = ToSet(old.columns)
  BY <1>1, Zenon DEF ColumnsLeft
<1>3. IndexesLeft(old, t, {}) = ToSet(old.indexes)
  BY <1>1, Zenon DEF IndexesLeft
<1>4. FksLeft(e, old, t, {}) = ToSet(old.fks)
  BY <1>1, Zenon DEF FksLeft
<1>5. e # "sqlite" => ChecksLeft(e, old, t, {}) = ToSet(old.checks)
  BY <1>1, Zenon DEF ChecksLeft
<1>6. e = "postgres" => TriggersLeft(e, old, t, {}) = ToSet(old.triggers)
  BY <1>1, Zenon DEF TriggersLeft
<1>7. ~IsRebuilt({}, t)
  BY DEF IsRebuilt, OfKind
<1> QED
  BY <1>2, <1>3, <1>4, <1>5, <1>6, <1>7

(* A table as its base describes it is at the start of its way. *)
LEMMA TableStarts ==
    ASSUME NEW e, NEW old, NEW t, NEW u, IsAs(e, u, old), CarriedTable(e, old, t)
    PROVE  TableMidway(e, old, t, {}, u)
<1>1. /\ u.pk = t.pk /\ u.columns = ToSet(old.columns) /\ u.fks = ToSet(old.fks)
      /\ u.indexes = ToSet(old.indexes) /\ u.checks = ToSet(old.checks)
      /\ u.triggers = IF e = "postgres" THEN ToSet(old.triggers) ELSE {}
  BY DEF IsAs, CarriedTable
<1>2. u.checks = ChecksLeft(e, old, t, {})
  <2>1. CASE e = "sqlite"
    <3>1. old.checks = <<>>
      BY <2>1 DEF CarriedTable
    <3> QED
      BY <1>1, <2>1, <3>1, NoneHolds DEF ChecksLeft
  <2>2. CASE e # "sqlite"
    BY <1>1, <2>2, NothingLeft
  <2> QED
    BY <2>1, <2>2
<1>3. u.triggers = TriggersLeft(e, old, t, {})
  <2>1. CASE e = "postgres"
    BY <1>1, <2>1, NothingLeft
  <2>2. CASE e # "postgres"
    BY <1>1, <2>2 DEF TriggersLeft
  <2> QED
    BY <2>1, <2>2
<1>4. /\ u.columns = ColumnsLeft(old, t, {}) /\ u.indexes = IndexesLeft(old, t, {})
      /\ u.fks = FksLeft(e, old, t, {}) /\ ~IsRebuilt({}, t)
  BY <1>1, NothingLeft
<1> QED
  BY <1>1, <1>2, <1>3, <1>4 DEF TableMidway

(* So are all tables of a catalog with the old model's structure, *)
LEMMA TablesStart ==
    ASSUME NEW e, NEW a, NEW b, NEW d, Holdable(a), Carried(e, a, b), HasStructure(e, d, a)
    PROVE  TablesMidway(e, a, b, {}, d)
<1>1. /\ \A u \in d.tables : Has(a.tables, u.name)
      /\ \A t \in ToSet(a.tables) :
            In(d.tables, t.name) /\ IsAs(e, Get(d.tables, t.name), t)
  BY DEF HasStructure
<1>2. \A n, kinds : OfKind({}, n, kinds) = {}
  BY DEF OfKind
<1>3. IsList(a.tables)
  BY ApartInList DEF Holdable
<1>4. ASSUME NEW t \in ToSet(b.tables), Has(a.tables, t.name)
      PROVE  /\ In(d.tables, t.name)
             /\ TableMidway(e, Base(e, a, t), t, {}, Get(d.tables, t.name))
  <2> DEFINE old == Find(a.tables, t.name)
  <2>1. old \in ToSet(a.tables) /\ old.name = t.name
    BY <1>3, <1>4, FindFacts
  <2>2. Base(e, a, t) = old
    BY <1>4 DEF Base
  <2>3. CarriedTable(e, old, t)
    BY <2>2 DEF Carried
  <2> HIDE DEF old
  <2>4. In(d.tables, t.name) /\ IsAs(e, Get(d.tables, t.name), old)
    BY <1>1, <2>1
  <2>5. TableMidway(e, old, t, {}, Get(d.tables, t.name))
    BY <2>3, <2>4, TableStarts
  <2> QED
    BY <2>2, <2>4, <2>5
<1>5. \A t \in ToSet(b.tables) : In(d.tables, t.name) => Has(a.tables, t.name)
  BY <1>1 DEF In
<1> QED
  BY <1>1, <1>2, <1>4, <1>5 DEF TablesMidway

(* and what is no table's. *)
LEMMA RestStarts ==
    ASSUME NEW e, NEW a, NEW b, NEW d, HasStructure(e, d, a)
    PROVE  RestMidway(e, a, b, {}, d)
<1>1. /\ \A X, n, drop, put : Left(X, {}, n, drop, put) = X
      /\ \A n, put : Came({}, n, put) = {}
  BY FromNothing
<1>2. FunctionsLeft(ToSet(a.functions), {}) = ToSet(a.functions)
  BY <1>1, Zenon DEF FunctionsLeft
<1>3. ViewsLeft(ToSet(a.views), {}) = ToSet(a.views)
  BY <1>1, Zenon DEF ViewsLeft
<1>4. ToSet(a.raw) \cup Came({}, Everywhere, {"raw_sql"}) = ToSet(a.raw)
  BY <1>1
<1>5. WantedExtensions(a) \cup Came({}, Everywhere, {"ensure_extension"}) = WantedExtensions(a)
  BY <1>1
<1> QED
  BY <1>2, <1>3, <1>4, <1>5 DEF HasStructure, RestMidway

-----------------------------------------------------------------------------
(* And where it ends *)

(* When all operations on a table are done, it is as the new model has it. *)
LEMMA TableEnds ==
    ASSUME NEW e, NEW old, NEW t, NEW u, NEW E, IsTable(old), IsTable(t),
           HoldableTable(old), HoldableTable(t), OpsFor(e, old, t, E),
           CarriedTable(e, old, t), TableMidway(e, old, t, E, u)
    PROVE  IsAs(e, u, t)
<1>1. ColumnsLeft(old, t, E) = ToSet(t.columns)
  BY ColumnsDone
<1>2. IndexesLeft(old, t, E) = ToSet(t.indexes)
  <2>1. SameIfNamed(old.indexes, t.indexes)
    BY DEF CarriedTable
  <2> QED
    BY <2>1, IndexesDone
<1>3. e # "sqlite" => FksLeft(e, old, t, E) = ToSet(t.fks)
  BY FksDone
<1>4. e # "sqlite" => ChecksLeft(e, old, t, E) = ToSet(t.checks)
  BY ChecksDone
<1>5. e = "sqlite" => ToSet(t.checks) = {}
  BY NoneHolds DEF CarriedTable
<1>6. e = "postgres" => TriggersLeft(e, old, t, E) = ToSet(t.triggers)
  BY TriggersDone
<1>7. u.checks = ToSet(t.checks)
  BY <1>4, <1>5 DEF TableMidway, ChecksLeft
<1>8. u.triggers = IF e = "postgres" THEN ToSet(t.triggers) ELSE {}
  BY <1>6 DEF TableMidway, TriggersLeft
<1>9. u.columns = ToSet(t.columns) /\ u.indexes = ToSet(t.indexes) /\ u.fks = ToSet(t.fks)
  <2>1. CASE e = "sqlite" /\ NeedsRebuild(old, t)
    <3>1. IsRebuilt(E, t)
      BY <2>1, RebuildDone
    <3> QED
      BY <2>1, <3>1 DEF TableMidway
  <2>2. CASE ~(e = "sqlite" /\ NeedsRebuild(old, t))
    <3>1. /\ u.columns = ColumnsLeft(old, t, E)
          /\ u.indexes = IndexesLeft(old, t, E)
          /\ u.fks = FksLeft(e, old, t, E)
      BY <2>2 DEF TableMidway
    <3>2. FksLeft(e, old, t, E) = ToSet(t.fks)
      <4>1. CASE e # "sqlite"
        BY <1>3, <4>1
      <4>2. CASE e = "sqlite"
        <5>1. Names(t.fks) = Names(old.fks)
          BY <2>2, <4>2 DEF NeedsRebuild
        <5>2. \A x \in ToSet(old.fks), y \in ToSet(t.fks) : x.name = y.name => x = y
          BY <4>2 DEF CarriedTable, SameIfNamed
        <5>3. \A x \in ToSet(old.fks) : \E y \in ToSet(t.fks) : y.name = x.name
          BY <5>1 DEF Names
        <5>4. \A y \in ToSet(t.fks) : \E x \in ToSet(old.fks) : x.name = y.name
          BY <5>1 DEF Names
        <5>5. ToSet(old.fks) = ToSet(t.fks)
          BY <5>2, <5>3, <5>4
        <5> QED
          BY <4>2, <5>5 DEF FksLeft
      <4> QED
        BY <4>1, <4>2
    <3> QED
      BY <1>1, <1>2, <3>1, <3>2
  <2> QED
    BY <2>1, <2>2
<1>10. u.pk = t.pk
  BY DEF TableMidway
<1> QED
  BY <1>7, <1>8, <1>9, <1>10 DEF IsAs

(* The operations E are those that bring a to b. *)
AllOf(E, a, b) == \A op : op \in E <=> IsEmitted(op, a, b)

(* Those on a table are all that bring it from its base. *)
LEMMA AllForTable ==
    ASSUME NEW e, NEW a, NEW b, Holdable(a), Holdable(b), NEW E, AllOf(E, a, b),
           NEW t \in ToSet(b.tables)
    PROVE  LET old == Base(e, a, t) IN
           /\ IsTable(old) /\ IsTable(t) /\ HoldableTable(old) /\ HoldableTable(t)
           /\ OpsFor(e, old, t, E)
<1> DEFINE old == Base(e, a, t)
<1>1. IsTable(t) /\ HoldableTable(t)
  BY HoldableIsModel
<1>2. IsTable(old) /\ HoldableTable(old)
  <2> DEFINE op == Operation("create_table", t.name, t)
  <2>1. op.table = t.name
    BY OperationIs
  <2> HIDE DEF op
  <2> QED
    BY <2>1, ForTable
<1>3. ASSUME NEW o, o.table = t.name
      PROVE  /\ o.kind \in TableKinds => (o \in E <=> IsForKept(o, old, t))
             /\ o.kind \in {"add_fk", "drop_fk"} /\ e # "sqlite" =>
                   (o \in E <=> IsForKept(o, old, t))
             /\ o.kind = "rebuild_table" /\ e = "sqlite" =>
                   (o \in E <=> IsForKept(o, old, t))
  BY <1>3, ForTable DEF AllOf
<1>4. OpsFor(e, old, t, E)
  BY <1>3 DEF OpsFor
<1> QED
  BY <1>1, <1>2, <1>4

(* So all tables are as the new model has them when all is done, *)
LEMMA TablesEnd ==
    ASSUME NEW e, NEW a, NEW b, NEW d, NEW E, Holdable(a), Holdable(b), Carried(e, a, b),
           AllOf(E, a, b), TablesMidway(e, a, b, E, d)
    PROVE  /\ \A u \in d.tables : Has(b.tables, u.name)
           /\ \A t \in ToSet(b.tables) :
                In(d.tables, t.name) /\ IsAs(e, Get(d.tables, t.name), t)
<1>1. /\ \A t \in ToSet(b.tables) :
            Has(a.tables, t.name) \/ OfKind(E, t.name, {"create_table"}) # {}
               => In(d.tables, t.name)
      /\ \A u \in d.tables :
            \/ Has(b.tables, u.name)
            \/ Has(a.tables, u.name) /\ OfKind(E, u.name, {"drop_table"}) = {}
      /\ \A t \in ToSet(b.tables) :
            In(d.tables, t.name)
               => TableMidway(e, Base(e, a, t), t, E, Get(d.tables, t.name))
  BY DEF TablesMidway
<1>2. ASSUME NEW u \in d.tables, ~Has(b.tables, u.name) PROVE FALSE
  <2>1. Has(a.tables, u.name) /\ OfKind(E, u.name, {"drop_table"}) = {}
    BY <1>1, <1>2
  <2>2. PICK t \in ToSet(a.tables) : t.name = u.name
    BY <2>1 DEF Has, Names
  <2>3. PICK op : op = Operation("drop_table", t.name, t)
    OBVIOUS
  <2>4. op.kind = "drop_table" /\ op.table = u.name
    BY <2>2, <2>3, OperationIs
  <2>5. IsForRemoved(op, t)
    BY <2>3 DEF IsForRemoved
  <2>6. IsEmitted(op, a, b)
    BY <1>2, <2>2, <2>5 DEF IsEmitted
  <2>7. op \in OfKind(E, u.name, {"drop_table"})
    BY <2>4, <2>6 DEF AllOf, OfKind
  <2> QED
    BY <2>1, <2>7
<1>3. ASSUME NEW t \in ToSet(b.tables)
      PROVE  In(d.tables, t.name) /\ IsAs(e, Get(d.tables, t.name), t)
  <2>1. In(d.tables, t.name)
    <3>1. CASE Has(a.tables, t.name)
      BY <1>1, <3>1
    <3>2. CASE ~Has(a.tables, t.name)
      <4>1. PICK op : op = Operation("create_table", t.name, t)
        OBVIOUS
      <4>2. op.kind = "create_table" /\ op.table = t.name
        BY <4>1, OperationIs
      <4>3. IsForCreated(op, t)
        BY <4>1 DEF IsForCreated
      <4>4. IsEmitted(op, a, b)
        BY <3>2, <4>3 DEF IsEmitted
      <4>5. op \in OfKind(E, t.name, {"create_table"})
        BY <4>2, <4>4 DEF AllOf, OfKind
      <4> QED
        BY <1>1, <4>5
    <3> QED
      BY <3>1, <3>2
  <2> DEFINE old == Base(e, a, t)
             u == Get(d.tables, t.name)
  <2>2. /\ IsTable(old) /\ IsTable(t) /\ HoldableTable(old) /\ HoldableTable(t)
        /\ OpsFor(e, old, t, E)
    BY AllForTable
  <2>3. CarriedTable(e, old, t)
    BY DEF Carried
  <2>4. TableMidway(e, old, t, E, u)
    BY <1>1, <2>1
  <2> HIDE DEF old, u
  <2>5. IsAs(e, u, t)
    BY <2>2, <2>3, <2>4, TableEnds
  <2> QED
    BY <2>1, <2>5 DEF u
<1> QED
  BY <1>2, <1>3

(* and so is what is no table's. *)
LEMMA RestEnds ==
    ASSUME NEW e, NEW a, NEW b, NEW d, NEW E, Holdable(a), Holdable(b), Carried(e, a, b),
           AllOf(E, a, b), RestMidway(e, a, b, E, d)
    PROVE  /\ d.functions = IF e = "postgres" THEN ToSet(b.functions) ELSE {}
           /\ d.views = ToSet(b.views)
           /\ ToSet(b.raw) \subseteq d.raw
           /\ e = "postgres" => WantedExtensions(b) \subseteq d.extensions
<1>1. FunctionsLeft(ToSet(a.functions), E) = ToSet(b.functions)
  BY FunctionsDone DEF AllOf
<1>2. ViewsLeft(ToSet(a.views), E) = ToSet(b.views)
  BY ViewsDone DEF AllOf
<1>3. ASSUME NEW x \in ToSet(b.raw), x \notin ToSet(a.raw)
      PROVE  x \in Came(E, Everywhere, {"raw_sql"})
  <2>1. ~Has(a.raw, x.name)
    BY <1>3 DEF Carried, SameIfNamed, Has, Names
  <2>2. PICK op : op = Operation("raw_sql", Everywhere, x)
    OBVIOUS
  <2>3. op.kind = "raw_sql" /\ op.table = Everywhere /\ op.arg = x
    BY <2>2, OperationIs
  <2>4. IsMissing(op, op.kind, Everywhere, b.raw, a.raw)
    BY <2>1, <2>2, <2>3 DEF IsMissing
  <2>5. IsForDatabase(op, a, b)
    BY <2>3, <2>4, DatabaseByKind
  <2>6. op \in E
    BY <2>5 DEF AllOf, IsEmitted
  <2> QED
    BY <2>3, <2>6 DEF Came, OfKind
<1>4. ASSUME NEW x \in WantedExtensions(b), x \notin WantedExtensions(a)
      PROVE  x \in Came(E, Everywhere, {"ensure_extension"})
  <2>1. PICK op : op = Operation("ensure_extension", Everywhere, x)
    OBVIOUS
  <2>2. op.kind = "ensure_extension" /\ op.table = Everywhere /\ op.arg = x
    BY <2>1, OperationIs
  <2>3. IsForDatabase(op, a, b)
    BY <1>4, <2>1 DEF IsForDatabase
  <2>4. op \in E
    BY <2>3 DEF AllOf, IsEmitted
  <2> QED
    BY <2>2, <2>4 DEF Came, OfKind
<1>5. /\ d.functions = IF e = "postgres" THEN FunctionsLeft(ToSet(a.functions), E) ELSE {}
      /\ d.views = ViewsLeft(ToSet(a.views), E)
      /\ ToSet(a.raw) \cup Came(E, Everywhere, {"raw_sql"}) \subseteq d.raw
      /\ e = "postgres" =>
            WantedExtensions(a) \cup Came(E, Everywhere, {"ensure_extension"})
               \subseteq d.extensions
  BY DEF RestMidway
<1>6. ToSet(b.raw) \subseteq d.raw
  BY <1>3, <1>5
<1>7. e = "postgres" => WantedExtensions(b) \subseteq d.extensions
  BY <1>4, <1>5
<1> QED
  BY <1>1, <1>2, <1>5, <1>6, <1>7

(* The catalog of a model has the model's structure. *)
LEMMA StructureStarts ==
    ASSUME NEW model, Holdable(model) PROVE HasStructure(engine, CatalogOf(model), model)
<1> DEFINE d == CatalogOf(model)
           f == [t \in ToSet(model.tables) |->
                   [name |-> t.name, columns |-> ToSet(t.columns), pk |-> t.pk,
                    fks |-> ToSet(t.fks), checks |-> ToSet(t.checks),
                    indexes |-> ToSet(t.indexes),
                    triggers |-> IF DbObjects THEN ToSet(t.triggers) ELSE {},
                    rows |-> ToSet(t.seed)]]
           S == ToSet(model.tables)
<1>1. /\ d.tables = {f[t] : t \in S}
      /\ d.functions = IF DbObjects THEN ToSet(model.functions) ELSE {}
      /\ d.views = ToSet(model.views) /\ d.raw = ToSet(model.raw)
      /\ d.extensions = IF DbObjects THEN WantedExtensions(model) ELSE {}
  BY DEF CatalogOf
<1>2. \A t \in S : f[t].name = t.name /\ IsAs(engine, f[t], t)
  BY DEF IsAs, DbObjects
<1>3. \A t, u \in S : t.name = u.name => t = u
  BY ToldByName DEF Holdable
<1>4. \A t \in S : Has(model.tables, t.name)
  BY DEF Has, Names
<1> HIDE DEF f, S, d
<1>5. ASSUME NEW t \in S
      PROVE  In(d.tables, t.name) /\ Get(d.tables, t.name) = f[t]
  <2>1. f[t] \in d.tables /\ f[t].name = t.name
    BY <1>1, <1>2
  <2>2. \A y \in d.tables : y.name = f[t].name => y = f[t]
    BY <1>1, <1>2, <1>3
  <2> QED
    BY <2>1, <2>2, GotOnly
<1>6. \A u \in d.tables : Has(model.tables, u.name)
  BY <1>1, <1>2, <1>4
<1>7. \A t \in S : In(d.tables, t.name) /\ IsAs(engine, Get(d.tables, t.name), t)
  BY <1>2, <1>5
<1> QED
  BY <1>1, <1>6, <1>7 DEF HasStructure, DbObjects, S, d

-----------------------------------------------------------------------------
(* Models without seed rows *)

(* A model, and a set of tables, that has no rows. *)
Unseeded(model) == \A t \in ToSet(model.tables) : t.seed = <<>>
RowLess(S) == \A u \in S : u.rows = {}

(* Nothing inserts, updates or deletes a row. *)
LEMMA NoRowOps ==
    ASSUME NEW a, NEW b, Holdable(a), Holdable(b), Unseeded(a), Unseeded(b),
           NEW op, IsEmitted(op, a, b)
    PROVE  op.kind \notin RowKinds
<1>1. CASE IsForDatabase(op, a, b)
  BY <1>1, DatabaseByKind DEF RowKinds
<1>2. ASSUME NEW t \in ToSet(a.tables), IsForRemoved(op, t) PROVE op.kind \notin RowKinds
  BY <1>2, RemovedByKind DEF RowKinds
<1>3. ASSUME NEW t \in ToSet(b.tables), op.table = t.name PROVE op.kind \notin RowKinds
  <2> DEFINE old == Base("postgres", a, t)
  <2>1. t.seed = <<>>
    BY DEF Unseeded
  <2>2. old.seed = <<>>
    <3>1. CASE Has(a.tables, t.name)
      <4>1. IsList(a.tables)
        BY ApartInList DEF Holdable
      <4>2. old = Find(a.tables, t.name) /\ old \in ToSet(a.tables)
        BY <3>1, <4>1, FindFacts DEF Base
      <4> QED
        BY <4>2 DEF Unseeded
    <3>2. CASE ~Has(a.tables, t.name)
      BY <3>2 DEF Base
    <3> QED
      BY <3>1, <3>2
  <2> QED
    BY <1>3, <2>1, <2>2, ForTable DEF RowKinds
<1>4. ASSUME NEW t \in ToSet(b.tables), IsForCreated(op, t) PROVE op.table = t.name
  BY <1>4, OperationIs DEF IsForCreated, IsOneOf
<1>5. ASSUME NEW t \in ToSet(b.tables), Has(a.tables, t.name),
             IsForKept(op, Find(a.tables, t.name), t)
      PROVE  op.table = t.name
  <2>1. IsTable(t) /\ IsTable(Find(a.tables, t.name))
    BY <1>5, HoldableIsModel, FindFacts DEF IsModel
  <2> QED
    BY <1>5, <2>1, KeptByKind
<1> QED
  BY <1>1, <1>2, <1>3, <1>4, <1>5 DEF IsEmitted

(* A table without rows put in place of another makes none. *)
LEMMA RowLessPut ==
    ASSUME NEW S, RowLess(S), NEW u, u.rows = {} PROVE RowLess(Put(S, u))
BY DEF RowLess, Put, Less

(* Referential actions make no rows. *)
LEMMA RowLessChildren ==
    ASSUME NEW d, IsCatalog(d), RowLess(d.tables), NEW p, NEW rows
    PROVE  RowLess(WithoutChildren(d, p, rows))
<1> SUFFICES ASSUME NEW u \in WithoutChildren(d, p, rows) PROVE u.rows = {}
  BY DEF RowLess
<1>1. PICK t \in d.tables : \E gone : u = [t EXCEPT !.rows = @ \ gone]
  BY Zenon DEF WithoutChildren
<1>2. IsHeld(t) /\ t.rows = {}
  BY DEF IsCatalog, RowLess
<1>3. PICK gone : u = [t EXCEPT !.rows = @ \ gone]
  BY <1>1
<1> QED
  BY <1>2, <1>3 DEF IsHeld

(* Nor does any other operation make one. *)
LEMMA RowLessStep ==
    ASSUME NEW d, IsCatalog(d), RowLess(d.tables), NEW op, Shaped(op), Accepts(d, op),
           op.kind \notin RowKinds
    PROVE  RowLess(Execute(d, op).tables)
<1> DEFINE t == Named(d, op)
<1>1. CASE op.kind \in Skipped
  BY <1>1 DEF Execute
<1>2. CASE op.kind \notin Skipped
  <2>1. op.kind \in {"add_column", "drop_column", "alter_column",
                     "add_fk", "drop_fk", "create_index", "drop_index",
                     "add_check", "drop_check", "create_trigger"}
           => In(d.tables, op.table)
    BY <1>2 DEF Accepts
  <2>2. In(d.tables, op.table) => IsHeld(t) /\ t.rows = {}
    BY Got DEF IsCatalog, Named, RowLess
  <2>3. \A u : u.rows = {} => RowLess(Become(d, u).tables)
    <3> TAKE u
    <3> HAVE u.rows = {}
    <3>1. Become(d, u).tables = Put(d.tables, u)
      BY DEF Become, IsCatalog
    <3> QED
      BY <3>1, RowLessPut
  <2> HIDE DEF t
  <2>4. CASE op.kind = "create_table"
    <3>1. Execute(d, op) = Become(d, NewTable(op.arg))
      BY <1>2, <2>4 DEF Execute, Become
    <3>2. NewTable(op.arg).rows = {}
      BY DEF NewTable
    <3> QED
      BY <2>3, <3>1, <3>2
  <2>5. CASE op.kind = "drop_table"
    <3> DEFINE S == WithoutChildren(d, t, t.rows)
    <3>1. RowLess(S)
      BY RowLessChildren
    <3>2. Execute(d, op) = [d EXCEPT !.tables = Less(S, t.name)]
      BY <1>2, <2>5 DEF Execute, Become, Named, t
    <3> HIDE DEF S
    <3>3. Execute(d, op).tables = Less(S, t.name)
      BY <3>2 DEF IsCatalog
    <3> QED
      BY <3>1, <3>3 DEF RowLess, Less
  <2>6. CASE op.kind = "add_column"
    <3>1. Execute(d, op) = Become(d, [t EXCEPT !.columns = Put(@, op.arg)])
      BY <1>2, <2>6 DEF Execute, Become, Named, t
    <3>2. [t EXCEPT !.columns = Put(@, op.arg)].rows = {}
      BY <2>1, <2>2, <2>6 DEF IsHeld
    <3> QED
      BY <2>3, <3>1, <3>2
  <2>7. CASE op.kind = "alter_column"
    <3> DEFINE u == [t EXCEPT
                 !.columns = Put(@, AlteredColumn(Get(@, op.arg.name), op.arg))]
    <3>1. Execute(d, op) = Become(d, u)
      BY <1>2, <2>7 DEF Execute, Become, Named, t
    <3>2. u.rows = {}
      BY <2>1, <2>2, <2>7 DEF IsHeld
    <3> HIDE DEF u
    <3> QED
      BY <2>3, <3>1, <3>2
  <2>8. CASE op.kind = "drop_column"
    <3> DEFINE rows == {[c \in DOMAIN r \ {op.arg.name} |-> r[c]] : r \in t.rows}
               columns == Less(t.columns, op.arg.name)
               fks == {f \in t.fks : f.on # op.arg.name}
               indexes == {i \in t.indexes : i.on # op.arg.name}
               u == [t EXCEPT !.columns = columns, !.fks = fks,
                              !.indexes = indexes, !.rows = rows]
    <3>1. Execute(d, op) = Become(d, u)
      BY <1>2, <2>8 DEF Execute, Become, Named, t
    <3>2. rows = {} /\ IsHeld(t)
      BY <2>1, <2>2, <2>8
    <3> HIDE DEF rows, columns, fks, indexes
    <3>3. u.rows = {}
      BY <3>2 DEF IsHeld
    <3> HIDE DEF u
    <3> QED
      BY <2>3, <3>1, <3>3
  <2>9. CASE op.kind = "rebuild_table"
    <3> DEFINE S == WithoutChildren(d, t, t.rows)
               rows == {[c \in DOMAIN r \cap op.arg.copy |-> r[c]] : r \in t.rows}
               new == NewTable(op.arg.table)
               indexes == ToSet(op.arg.table.indexes)
    <3>1. RowLess(S)
      BY RowLessChildren
    <3>2. Execute(d, op) = [d EXCEPT !.tables = Put(S, Rebuilt(t, op.arg))]
      BY <1>2, <2>9 DEF Execute, Become, Named, t
    <3>3. In(d.tables, op.table)
      BY <1>2, <2>9 DEF Accepts
    <3>4. rows = {}
      BY <2>2, <3>3
    <3>5. Rebuilt(t, op.arg) = [new EXCEPT !.indexes = indexes, !.rows = rows]
      BY DEF Rebuilt
    <3>6. "rows" \in DOMAIN new
      BY DEF NewTable
    <3> HIDE DEF S, rows, new, indexes
    <3>7. Rebuilt(t, op.arg).rows = {}
      BY <3>4, <3>5, <3>6
    <3>8. Execute(d, op).tables = Put(S, Rebuilt(t, op.arg))
      BY <3>2 DEF IsCatalog
    <3> QED
      BY <3>1, <3>7, <3>8, RowLessPut
  <2>10. CASE op.kind \in {"add_fk", "drop_fk"}
    <3>1. PICK fks : Execute(d, op) = Become(d, [t EXCEPT !.fks = fks])
      BY <1>2, <2>10 DEF Execute, Become, Named, t
    <3>2. [t EXCEPT !.fks = fks].rows = {}
      BY <2>1, <2>2, <2>10 DEF IsHeld
    <3> QED
      BY <2>3, <3>1, <3>2
  <2>11. CASE op.kind \in {"create_index", "drop_index"}
    <3>1. PICK indexes : Execute(d, op) = Become(d, [t EXCEPT !.indexes = indexes])
      BY <1>2, <2>11 DEF Execute, Become, Named, t
    <3>2. [t EXCEPT !.indexes = indexes].rows = {}
      BY <2>1, <2>2, <2>11 DEF IsHeld
    <3> QED
      BY <2>3, <3>1, <3>2
  <2>12. CASE op.kind \in {"add_check", "drop_check"}
    <3>1. PICK checks : Execute(d, op) = Become(d, [t EXCEPT !.checks = checks])
      BY <1>2, <2>12 DEF Execute, Become, Named, t
    <3>2. [t EXCEPT !.checks = checks].rows = {}
      BY <2>1, <2>2, <2>12 DEF IsHeld
    <3> QED
      BY <2>3, <3>1, <3>2
  <2>13. CASE op.kind = "create_trigger" \/ (op.kind = "drop_trigger" /\ In(d.tables, op.table))
    <3>1. PICK triggers : Execute(d, op) = Become(d, [t EXCEPT !.triggers = triggers])
      BY <1>2, <2>13 DEF Execute, Become, Named, t
    <3>2. [t EXCEPT !.triggers = triggers].rows = {}
      BY <2>1, <2>2, <2>13 DEF IsHeld
    <3> QED
      BY <2>3, <3>1, <3>2
  <2>14. CASE op.kind = "drop_trigger" /\ ~In(d.tables, op.table)
    BY <1>2, <2>14 DEF Execute
  <2>15. CASE op.kind \in DatabaseKinds
    <3>1. Execute(d, op).tables = d.tables
      BY <1>2, <2>15, Zenon DEF DatabaseKinds, Execute, IsCatalog
    <3> QED
      BY <3>1
  <2> QED
    BY <2>4, <2>5, <2>6, <2>7, <2>8, <2>9, <2>10, <2>11, <2>12, <2>13, <2>14, <2>15
       DEF Shaped, Kinds, DatabaseKinds, RowKinds
<1> QED
  BY <1>1, <1>2

-----------------------------------------------------------------------------
(* From one model to another *)

(* Some of the operations from a to b are done, and the list is the others.   *)
Travels(e, a, b, d, list) ==
    \E D : /\ Pending(D, ToSet(Diff(a, b)), list)
           /\ TablesMidway(e, a, b, D, d) /\ RestMidway(e, a, b, D, d)

(* A migration starts with nothing done and its whole difference to do. *)
LEMMA TravelsStart ==
    ASSUME NEW e, NEW a, NEW b, NEW d, Holdable(a), Holdable(b), Carried(e, a, b),
           HasStructure(e, d, a)
    PROVE  Travels(e, a, b, d, Diff(a, b))
<1>1. TablesMidway(e, a, b, {}, d)
  BY TablesStart
<1>2. RestMidway(e, a, b, {}, d)
  BY RestStarts
<1>3. Pending({}, ToSet(Diff(a, b)), Diff(a, b))
  BY PendingDiff
<1> QED
  BY <1>1, <1>2, <1>3 DEF Travels

(* Each operation that the engine takes is one more done. *)
LEMMA TravelsStep ==
    ASSUME NEW a, NEW b, NEW d, NEW list, Holdable(a), Holdable(b), Carried(engine, a, b),
           IsCatalog(d), list # <<>>, Accepts(d, Head(list)), Travels(engine, a, b, d, list)
    PROVE  Travels(engine, a, b, Execute(d, Head(list)), Tail(list))
<1> DEFINE E == ToSet(Diff(a, b))
           op == Head(list)
<1>1. PICK D : /\ Pending(D, E, list)
               /\ TablesMidway(engine, a, b, D, d) /\ RestMidway(engine, a, b, D, d)
  BY DEF Travels
<1>2. Staged(D, E, op)
  BY <1>1, PendingStaged
<1>3. Pending(D \cup {op}, E, Tail(list))
  BY <1>1, PendingStep
<1>4. \A o : o \in E <=> IsEmitted(o, a, b)
  BY PendingDiff
<1> HIDE DEF E, op
<1>5. Underway(a, b, D, E, op, d)
  BY <1>2, <1>4 DEF Underway, op
<1>6. TablesMidway(engine, a, b, D \cup {op}, Execute(d, op))
  BY <1>1, <1>5, TablesStep
<1>7. RestMidway(engine, a, b, D \cup {op}, Execute(d, op))
  BY <1>1, <1>5, RestStep
<1> QED
  BY <1>3, <1>6, <1>7 DEF Travels, E, op

(* When none is left, the catalog has the new model's structure. *)
LEMMA TravelsEnd ==
    ASSUME NEW e, NEW a, NEW b, NEW d, Holdable(a), Holdable(b), Carried(e, a, b),
           Travels(e, a, b, d, <<>>)
    PROVE  HasStructure(e, d, b)
<1> DEFINE E == ToSet(Diff(a, b))
<1>1. PICK D : /\ Pending(D, E, <<>>)
               /\ TablesMidway(e, a, b, D, d) /\ RestMidway(e, a, b, D, d)
  BY DEF Travels
<1>2. \A o : o \in E <=> IsEmitted(o, a, b)
  BY PendingDiff
<1>3. AllOf(D, a, b)
  BY <1>1, <1>2, NoneHolds DEF Pending, AllOf
<1>4. /\ \A u \in d.tables : Has(b.tables, u.name)
      /\ \A t \in ToSet(b.tables) :
            In(d.tables, t.name) /\ IsAs(e, Get(d.tables, t.name), t)
  BY <1>1, <1>3, TablesEnd
<1>5. /\ d.functions = IF e = "postgres" THEN ToSet(b.functions) ELSE {}
      /\ d.views = ToSet(b.views)
      /\ ToSet(b.raw) \subseteq d.raw
      /\ e = "postgres" => WantedExtensions(b) \subseteq d.extensions
  BY <1>1, <1>3, RestEnds
<1> QED
  BY <1>4, <1>5 DEF HasStructure

-----------------------------------------------------------------------------
(* The structure arrives *)

(* Both ways are carried out. *)
Back == Carried(engine, from, to) /\ Carried(engine, to, from)

(* Where the migration is: on its way up, on its way down, or back.  What is *)
(* still to do matters, so the invariant says more than StructureArrives.    *)
OnTheWay ==
    /\ phase = "up" /\ Carried(engine, from, to) => Travels(engine, from, to, db, todo)
    /\ phase = "down" /\ Back => Travels(engine, to, from, db, todo)
    /\ phase = "done" /\ Back => HasStructure(engine, db, from)
    /\ phase = "done" => todo = <<>>

(* Every step keeps it on its way. *)
LEMMA OnTheWayInvariant == Spec => []OnTheWay
<1>1. Init => OnTheWay
  <2> SUFFICES ASSUME Init PROVE OnTheWay
    OBVIOUS
  <2>1. Holdable(from) /\ Holdable(to)
    BY FamiliesAssumption DEF Init
  <2>2. phase = "up" /\ todo = Diff(from, to) /\ db = CatalogOf(from)
    BY DEF Init
  <2>3. HasStructure(engine, db, from)
    BY <2>1, <2>2, StructureStarts
  <2>4. Carried(engine, from, to) => Travels(engine, from, to, db, todo)
    BY <2>1, <2>2, <2>3, TravelsStart
  <2> QED
    BY <2>2, <2>4 DEF OnTheWay
<1>2. Typed /\ OnTheWay /\ [Next]_vars => OnTheWay'
  <2> SUFFICES ASSUME Typed, OnTheWay, [Next]_vars PROVE OnTheWay'
    OBVIOUS
  <2>1. Holdable(from) /\ Holdable(to) /\ IsCatalog(db)
    BY TypedIsHoldable DEF Typed
  <2>2. CASE RunOperation
    <3>1. /\ todo # <<>> /\ Accepts(db, Head(todo))
          /\ db' = Execute(db, Head(todo)) /\ todo' = Tail(todo)
          /\ engine' = engine /\ from' = from /\ to' = to /\ phase' = phase
      BY <2>2 DEF RunOperation
    <3>2. phase = "up" /\ Carried(engine, from, to) =>
             Travels(engine, from, to, db', todo')
      BY <2>1, <3>1, TravelsStep DEF OnTheWay
    <3>3. phase = "down" /\ Back => Travels(engine, to, from, db', todo')
      BY <2>1, <3>1, TravelsStep DEF OnTheWay, Back
    <3>4. phase # "done"
      BY <3>1 DEF OnTheWay
    <3> QED
      BY <3>1, <3>2, <3>3, <3>4 DEF OnTheWay, Back
  <2>3. CASE Revert
    <3>1. /\ phase = "up" /\ todo = <<>> /\ phase' = "down" /\ todo' = Diff(to, from)
          /\ engine' = engine /\ from' = from /\ to' = to /\ db' = db
      BY <2>3 DEF Revert
    <3>2. Back => HasStructure(engine, db, to)
      BY <2>1, <3>1, TravelsEnd DEF OnTheWay, Back
    <3>3. Back => Travels(engine, to, from, db, Diff(to, from))
      BY <2>1, <3>2, TravelsStart DEF Back
    <3> QED
      BY <3>1, <3>3 DEF OnTheWay, Back
  <2>4. CASE Reverted
    <3>1. /\ phase = "down" /\ todo = <<>> /\ phase' = "done"
          /\ engine' = engine /\ from' = from /\ to' = to /\ db' = db /\ todo' = todo
      BY <2>4 DEF Reverted
    <3>2. Back => HasStructure(engine, db, from)
      BY <2>1, <3>1, TravelsEnd DEF OnTheWay, Back
    <3> QED
      BY <3>1, <3>2 DEF OnTheWay, Back
  <2>5. CASE UNCHANGED vars
    BY <2>5 DEF vars, OnTheWay, Back
  <2> QED
    BY <2>2, <2>3, <2>4, <2>5 DEF Next
<1> QED
  BY <1>1, <1>2, TypedInvariant, PTL DEF Spec

(* Whatever the models' seed rows: once "up" has run, the catalog has the     *)
(* structure of the new model, and once "down" has, that of the old one.    *)
StructureArrives ==
    /\ Carried(engine, from, to) /\ phase = "up" /\ todo = <<>> =>
          HasStructure(engine, db, to)
    /\ Back /\ phase = "done" => HasStructure(engine, db, from)

(* Whatever the seed rows, the operations bring the structure of the model    *)
(* they were derived for, up and down: diff.rs, the generators and the engine *)
(* agree on everything that Carried does not set aside.                       *)
THEOREM StructureIsCarried == Spec => []StructureArrives
<1>1. Typed /\ OnTheWay => StructureArrives
  <2> SUFFICES ASSUME Typed, OnTheWay PROVE StructureArrives
    OBVIOUS
  <2>1. Holdable(from) /\ Holdable(to)
    BY TypedIsHoldable
  <2>2. ASSUME Carried(engine, from, to), phase = "up", todo = <<>>
        PROVE  HasStructure(engine, db, to)
    <3>1. Travels(engine, from, to, db, <<>>)
      BY <2>2 DEF OnTheWay
    <3> QED
      BY <2>1, <2>2, <3>1, TravelsEnd
  <2>3. Back /\ phase = "done" => HasStructure(engine, db, from)
    BY DEF OnTheWay
  <2> QED
    BY <2>2, <2>3 DEF StructureArrives
<1> QED
  BY <1>1, TypedInvariant, OnTheWayInvariant, PTL

-----------------------------------------------------------------------------
(* And the whole catalog *)

(* Neither model has seed rows. *)
Plain == Unseeded(from) /\ Unseeded(to)

(* Then there are never any rows, nor operations on them. *)
WithoutRows ==
    Plain => /\ RowLess(db.tables)
             /\ \A op \in ToSet(todo) : op.kind \notin RowKinds

(* The catalog of a model without seed rows has none. *)
LEMMA RowLessCatalog ==
    ASSUME NEW model, Unseeded(model) PROVE RowLess(CatalogOf(model).tables)
<1> SUFFICES ASSUME NEW u \in CatalogOf(model).tables PROVE u.rows = {}
  BY DEF RowLess
<1>1. PICK t \in ToSet(model.tables) : u.rows = ToSet(t.seed)
  BY DEF CatalogOf
<1> QED
  BY <1>1, NoneHolds DEF Unseeded

(* The difference of two such models works on none. *)
LEMMA NoRowOpsInDiff ==
    ASSUME NEW a, NEW b, Holdable(a), Holdable(b), Unseeded(a), Unseeded(b)
    PROVE  \A op \in ToSet(Diff(a, b)) : op.kind \notin RowKinds
BY PendingDiff, NoRowOps

(* And every step keeps it so. *)
LEMMA WithoutRowsInvariant == Spec => []WithoutRows
<1>1. Init => WithoutRows
  <2> SUFFICES ASSUME Init, Plain
               PROVE  /\ RowLess(db.tables)
                      /\ \A op \in ToSet(todo) : op.kind \notin RowKinds
    BY DEF WithoutRows
  <2>1. Holdable(from) /\ Holdable(to)
    BY FamiliesAssumption DEF Init
  <2>2. todo = Diff(from, to) /\ db = CatalogOf(from)
    BY DEF Init
  <2> QED
    BY <2>1, <2>2, RowLessCatalog, NoRowOpsInDiff DEF Plain
<1>2. Typed /\ WithoutRows /\ [Next]_vars => WithoutRows'
  <2> SUFFICES ASSUME Typed, WithoutRows, [Next]_vars PROVE WithoutRows'
    OBVIOUS
  <2>1. /\ Holdable(from) /\ Holdable(to) /\ IsCatalog(db) /\ IsList(todo)
        /\ \A op \in ToSet(todo) : Shaped(op)
    BY TypedIsHoldable DEF Typed
  <2>2. CASE RunOperation
    <3>1. /\ todo # <<>> /\ Accepts(db, Head(todo))
          /\ db' = Execute(db, Head(todo)) /\ todo' = Tail(todo)
          /\ from' = from /\ to' = to
      BY <2>2 DEF RunOperation
    <3>2. /\ Head(todo) \in ToSet(todo)
          /\ \A op \in ToSet(Tail(todo)) : op \in ToSet(todo)
      BY <2>1, <3>1, TailFacts
    <3>3. Plain => RowLess(Execute(db, Head(todo)).tables)
      BY <2>1, <3>1, <3>2, RowLessStep DEF WithoutRows
    <3>4. RowLess(db'.tables) <=> RowLess(Execute(db, Head(todo)).tables)
      BY <3>1
    <3> QED
      BY <3>1, <3>2, <3>3, <3>4 DEF WithoutRows, Plain
  <2>3. CASE Revert
    <3>1. todo' = Diff(to, from) /\ from' = from /\ to' = to /\ db' = db
      BY <2>3 DEF Revert
    <3>2. Plain => \A op \in ToSet(Diff(to, from)) : op.kind \notin RowKinds
      BY <2>1, NoRowOpsInDiff DEF Plain
    <3> QED
      BY <3>1, <3>2 DEF WithoutRows, Plain
  <2>4. CASE Reverted
    BY <2>4 DEF Reverted, WithoutRows, Plain
  <2>5. CASE UNCHANGED vars
    BY <2>5 DEF vars, WithoutRows, Plain
  <2> QED
    BY <2>2, <2>3, <2>4, <2>5 DEF Next
<1> QED
  BY <1>1, <1>2, TypedInvariant, PTL DEF Spec

(* A catalog without rows that has a model's structure is the one it describes. *)
LEMMA StructureIsAll ==
    ASSUME NEW model, Holdable(model), Unseeded(model), IsCatalog(db), RowLess(db.tables),
           HasStructure(engine, db, model)
    PROVE  Describes(model)
<1> DEFINE f == [t \in ToSet(model.tables) |->
                   [name |-> t.name, columns |-> ToSet(t.columns), pk |-> t.pk,
                    fks |-> ToSet(t.fks), checks |-> ToSet(t.checks),
                    indexes |-> ToSet(t.indexes),
                    triggers |-> IF DbObjects THEN ToSet(t.triggers) ELSE {},
                    rows |-> ToSet(t.seed)]]
           S == ToSet(model.tables)
           wanted == CatalogOf(model)
<1>1. /\ wanted.tables = {f[t] : t \in S}
      /\ wanted.functions = IF DbObjects THEN ToSet(model.functions) ELSE {}
      /\ wanted.views = ToSet(model.views) /\ wanted.raw = ToSet(model.raw)
      /\ wanted.extensions = IF DbObjects THEN WantedExtensions(model) ELSE {}
      /\ wanted = [x \in {"tables", "functions", "views", "raw", "extensions"} |-> wanted[x]]
  BY DEF CatalogOf
<1>2. ASSUME NEW t \in S, NEW u \in db.tables, u.name = t.name, IsAs(engine, u, t)
      PROVE  u = f[t]
  <2>1. t.seed = <<>>
    BY DEF Unseeded
  <2>2. u.rows = {} /\ ToSet(t.seed) = {}
    BY <2>1, NoneHolds DEF RowLess
  <2>3. IsHeld(u)
    BY DEF IsCatalog
  <2>4. u = [name |-> u.name, columns |-> u.columns, pk |-> u.pk, fks |-> u.fks,
             checks |-> u.checks, indexes |-> u.indexes, triggers |-> u.triggers,
             rows |-> u.rows]
    BY <2>3 DEF IsHeld
  <2>5. f[t] = [name |-> t.name, columns |-> ToSet(t.columns), pk |-> t.pk,
                fks |-> ToSet(t.fks), checks |-> ToSet(t.checks),
                indexes |-> ToSet(t.indexes),
                triggers |-> IF DbObjects THEN ToSet(t.triggers) ELSE {},
                rows |-> ToSet(t.seed)]
    OBVIOUS
  <2>6. /\ u.columns = ToSet(t.columns) /\ u.pk = t.pk /\ u.fks = ToSet(t.fks)
        /\ u.checks = ToSet(t.checks) /\ u.indexes = ToSet(t.indexes)
        /\ u.triggers = IF DbObjects THEN ToSet(t.triggers) ELSE {}
    BY <1>2 DEF IsAs, DbObjects
  <2> HIDE DEF f
  <2> QED
    BY <1>2, <2>2, <2>4, <2>5, <2>6, Zenon
<1>3. /\ \A u \in db.tables : Has(model.tables, u.name)
      /\ \A t \in S : In(db.tables, t.name) /\ IsAs(engine, Get(db.tables, t.name), t)
      /\ db.functions = IF DbObjects THEN ToSet(model.functions) ELSE {}
      /\ db.views = ToSet(model.views) /\ ToSet(model.raw) \subseteq db.raw
      /\ DbObjects => WantedExtensions(model) \subseteq db.extensions
  BY DEF HasStructure, DbObjects
<1>4. /\ \A x, y \in db.tables : x.name = y.name => x = y
      /\ db = [x \in {"tables", "functions", "views", "raw", "extensions"} |-> db[x]]
  BY DEF IsCatalog, Apart
<1>5. \A n : Has(model.tables, n) => \E t \in S : t.name = n
  BY DEF Has, Names
<1> HIDE DEF f, S, wanted
<1>6. \A t \in S : Get(db.tables, t.name) \in db.tables /\ Get(db.tables, t.name).name = t.name
  BY <1>3, Got
<1>7. ASSUME NEW t \in S PROVE Get(db.tables, t.name) = f[t] /\ f[t] \in db.tables
  BY <1>2, <1>3, <1>6
<1>8. ASSUME NEW u \in db.tables PROVE \E t \in S : u = f[t]
  <2>1. PICK t \in S : t.name = u.name
    BY <1>3, <1>5
  <2>2. u = Get(db.tables, t.name)
    BY <1>4, <1>6, <2>1
  <2> QED
    BY <1>7, <2>2
<1>9. db.tables = {f[t] : t \in S}
  BY <1>7, <1>8
<1>10. wanted.raw \subseteq db.raw /\ wanted.extensions \subseteq db.extensions
  BY <1>1, <1>3
<1>11. /\ db.tables = wanted.tables /\ db.functions = wanted.functions
       /\ db.views = wanted.views
  BY <1>1, <1>3, <1>9
<1>12. db = [wanted EXCEPT !.raw = db.raw, !.extensions = db.extensions]
  BY <1>1, <1>4, <1>11
<1> QED
  BY <1>10, <1>12 DEF Describes, wanted

(* Of models without seed rows: once "up" has run, the database is the one *)
(* that the new model describes.                                           *)
THEOREM UpMaterialises ==
    Spec => [](Carried(engine, from, to) /\ Plain => Materialised)
<1>1. Typed /\ StructureArrives /\ WithoutRows =>
         (Carried(engine, from, to) /\ Plain => Materialised)
  <2> SUFFICES ASSUME Typed, StructureArrives, WithoutRows, Carried(engine, from, to),
                      Plain, phase = "up", todo = <<>>
               PROVE  Describes(to)
    BY DEF Materialised
  <2>1. Holdable(to) /\ Unseeded(to) /\ IsCatalog(db) /\ RowLess(db.tables)
    BY TypedIsHoldable DEF Typed, WithoutRows, Plain
  <2>2. HasStructure(engine, db, to)
    BY DEF StructureArrives
  <2> QED
    BY <2>1, <2>2, StructureIsAll
<1> QED
  BY <1>1, TypedInvariant, StructureIsCarried, WithoutRowsInvariant, PTL

(* And once "down" has run as well, it is the one from before the migration. *)
THEOREM DownRollsBack ==
    Spec => [](Back /\ Plain => RolledBack)
<1>1. Typed /\ StructureArrives /\ WithoutRows => (Back /\ Plain => RolledBack)
  <2> SUFFICES ASSUME Typed, StructureArrives, WithoutRows, Back, Plain, phase = "done"
               PROVE  Describes(from)
    BY DEF RolledBack
  <2>1. Holdable(from) /\ Unseeded(from) /\ IsCatalog(db) /\ RowLess(db.tables)
    BY TypedIsHoldable DEF Typed, WithoutRows, Plain
  <2>2. HasStructure(engine, db, from)
    BY DEF StructureArrives
  <2> QED
    BY <2>1, <2>2, StructureIsAll
<1> QED
  BY <1>1, TypedInvariant, StructureIsCarried, WithoutRowsInvariant, PTL
=============================================================================
