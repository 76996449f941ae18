------------------------------- MODULE MCSync -------------------------------
(***************************************************************************)
(* Instances of Sync for TLC: a trunk with one table, migrations to come,   *)
(* and a developer's database.                                              *)
(***************************************************************************)
EXTENDS Sync, TLC

Object(kind, table, name) == [kind |-> kind, table |-> table, name |-> name]

ext == Object("extension", 0, 1)
t1 == Object("table", 1, 0)
t2 == Object("table", 2, 0)
c11 == Object("column", 1, 1)
c12 == Object("column", 1, 2)
c21 == Object("column", 2, 1)
c22 == Object("column", 2, 2)
fk2 == Object("foreign_key", 2, 1)
pk1 == Object("constraint", 1, 1)
ix1 == Object("index", 1, 1)
f == Object("function", 0, 1)
trg == Object("trigger", 1, 1)
v == Object("view", 0, 1)
Row(m) == Object("row", 0, m)

AllObjects == {ext, t1, t2, c11, c12, c21, c22, fk2, pk1, ix1, f, trg, v} \cup
           {Row(m) : m \in 0..3}

(* The kinds of objects the engine's schemas consist of.  SQLite's and       *)
(* MySQL's constraints are part of their tables.                             *)
Kinds ==
    [postgres |-> {k.kind : k \in AllObjects},
     sqlserver |-> {k.kind : k \in AllObjects} \ {"extension"},
     sqlite |-> {"table", "column", "index", "trigger", "view", "row"},
     mysql |-> {"table", "column", "index", "trigger", "view", "row"}]

(* The trigger calls the function; the index uses the extension. *)
Requires ==
    [k \in AllObjects |->
        CASE k.kind = "column" -> {Object("table", k.table, 0)}
          [] k = pk1 -> {c11}
          [] k = fk2 -> {c21, pk1}
          [] k = ix1 -> {t1, c12, ext}
          [] k = trg -> {t1, f}
          [] k = v -> {c12}
          [] OTHER -> {}]

MCNeeds ==
    [e \in DOMAIN Queries |->
        [k \in AllObjects |-> {j \in Requires[k] : j.kind \in Kinds[e]}]]

Defined(keys) == [k \in keys |-> 1]

(* A column, an index and a view on it; a redefined column, with a function *)
(* and its trigger; a table that refers to the first.                       *)
Changes(e) ==
    LET Of(db) == OfKinds(db, Kinds[e]) IN
    <<Of(Defined({Row(1), ext, c12, ix1, v})),
      Of((c11 :> 2) @@ Defined({Row(2), f, trg})),
      Of(Defined({Row(3), t2, c21, c22, fk2}))>>

MCMigrations == [e \in DOMAIN Queries |-> Changes(e)]

Trunk(e) == OfKinds(Defined({Row(0), t1, c11, pk1}), Kinds[e])

(* A target that is new, or a copy of the trunk. *)
StartsOf(engines) ==
    {[engine |-> e, source |-> Trunk(e), target |-> Nothing] : e \in engines}
    \cup {[engine |-> e, source |-> Trunk(e), target |-> Trunk(e)] : e \in engines}

MCStarts == StartsOf(DOMAIN Queries)

(* Work on what the trunk has or is about to have. *)
MCOwnWork ==
    [postgres |-> {c11, f, v},
     sqlserver |-> {c12, trg, v},
     sqlite |-> {c12, v, t2},
     mysql |-> {c12, v, t2}]
=============================================================================
