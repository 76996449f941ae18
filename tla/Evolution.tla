----------------------------- MODULE Evolution ------------------------------
(***************************************************************************)
(* A migration from authoring to rollback: author.rs computes its "up" and *)
(* "down" as the diffs between two models, and the migrator runs the       *)
(* operations of each one by one against a database that holds the first   *)
(* model.                                                                   *)
(*                                                                         *)
(* "from" and "to" range over all pairs of a family, so a pair stands for  *)
(* any link of a chain of migrations: the chain's links compose because    *)
(* a link ends, either way, with the catalog the next one starts from.     *)
(***************************************************************************)
EXTENDS FiniteSets, Sequences

CONSTANT Families   \* for each engine, sets of models: a migration leads
                    \* from one to another of the same set

VARIABLES
    engine, \* the provider the connection names; it never changes
    from,   \* the snapshot: the model of the migrations so far
    to,     \* the model of the .model files
    phase,  \* "up", "down" or "done"
    todo,   \* operations of the phase still to run
    db      \* the database's catalog and seed rows

vars == <<engine, from, to, phase, todo, db>>

INSTANCE Provider WITH Engine <- engine

(* A model that a database can hold: the names of a list tell its elements  *)
(* apart.  The parser takes any; an engine takes no second object of a name. *)
TellsApart(list) ==
    /\ list \in Seq(ToSet(list))
    /\ \A i, j \in DOMAIN list : list[i].name = list[j].name => i = j

Holdable(model) ==
    /\ TellsApart(model.tables)
    /\ TellsApart(model.functions)
    /\ TellsApart(model.views)
    /\ TellsApart(model.raw)
    /\ IsFiniteSet(model.extensions)
    /\ \A t \in ToSet(model.tables) :
          /\ TellsApart(t.columns)
          /\ TellsApart(t.fks)
          /\ TellsApart(t.indexes)
          /\ TellsApart(t.checks)
          /\ TellsApart(t.triggers)
          /\ t.seed \in Seq(ToSet(t.seed))

ASSUME FamiliesAssumption ==
    /\ DOMAIN Families \subseteq {"postgres", "mysql", "sqlserver", "sqlite"}
    /\ \A e \in DOMAIN Families : \A family \in Families[e] :
          \A model \in family : Holdable(model)

Init ==
    /\ engine \in DOMAIN Families
    /\ \E family \in Families[engine] : from \in family /\ to \in family
    /\ Diff(from, to) # <<>>
    /\ phase = "up"
    /\ todo = Diff(from, to)
    /\ db = CatalogOf(from)

(* The next operation's statements run: apply_one, revert_one.  When the    *)
(* engine refuses one, the migration can never be applied (or reverted).    *)
RunOperation ==
    /\ todo # <<>>
    /\ Accepts(db, Head(todo))
    /\ db' = Execute(db, Head(todo))
    /\ todo' = Tail(todo)
    /\ UNCHANGED <<engine, from, to, phase>>

(* Mutant: "down" is the same difference as "up". *)
RevertAgain ==
    /\ phase = "up"
    /\ todo = <<>>
    /\ phase' = "down"
    /\ todo' = Diff(from, to)
    /\ UNCHANGED <<engine, from, to, db>>

(* `molde apply --to` the migration before this one. *)
Revert ==
    /\ phase = "up"
    /\ todo = <<>>
    /\ phase' = "down"
    /\ todo' = Diff(to, from)
    /\ UNCHANGED <<engine, from, to, db>>

Reverted ==
    /\ phase = "down"
    /\ todo = <<>>
    /\ phase' = "done"
    /\ UNCHANGED <<engine, from, to, todo, db>>

Next == RunOperation \/ Revert \/ Reverted

Spec == Init /\ [][Next]_vars

-----------------------------------------------------------------------------
(* Properties *)

(* The state's types.  The catalog's names are keys: no two objects of a    *)
(* kind share one, whatever list positions the models' Vecs gave them.      *)
UniqueNames(S) == Cardinality({x.name : x \in S}) = Cardinality(S)

TypeOK ==
    /\ \E family \in Families[engine] : {from, to} \subseteq family
    /\ phase \in {"up", "down", "done"}
    /\ \A i \in DOMAIN todo :
          DOMAIN todo[i] = {"kind", "table", "arg"} \cup
              (IF todo[i].kind = "alter_column" THEN {"old"} ELSE {})
    /\ UniqueNames(db.tables)
    /\ UniqueNames(db.functions)
    /\ UniqueNames(db.views)
    /\ \A t \in db.tables :
          /\ UniqueNames(t.columns)
          /\ UniqueNames(t.fks)
          /\ UniqueNames(t.indexes)
          /\ UniqueNames(t.checks)
          /\ UniqueNames(t.triggers)

(* diff emits its operations in an order the database takes: nothing is     *)
(* dropped that something else still needs, nothing created before what it  *)
(* needs, in the rollback as well.                                          *)
NeverRefused == todo # <<>> => Accepts(db, Head(todo))

(* The catalog is the one the model describes; extensions and raw DDL are   *)
(* only ever added (diff drops neither), so some of theirs may be left over. *)
Describes(model) ==
    LET wanted == CatalogOf(model) IN
    /\ wanted.raw \subseteq db.raw
    /\ wanted.extensions \subseteq db.extensions
    /\ db = [wanted EXCEPT !.raw = db.raw, !.extensions = db.extensions]

(* Once "up" has run, the database is the one the new model describes:      *)
(* whatever diff compares, emission and engine together bring about, and    *)
(* no row is lost on the way (a rebuild copies, a drop cascades).           *)
Materialised == phase = "up" /\ todo = <<>> => Describes(to)

(* Once "down" has run as well, it is the one from before.                  *)
RolledBack == phase = "done" => Describes(from)
=============================================================================
