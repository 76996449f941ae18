----------------------------- MODULE Authoring ------------------------------
(***************************************************************************)
(* molde-design's author.rs behind `molde migrate` and `molde undo`: the   *)
(* .model files are edited, a migration file is written from their         *)
(* difference to the snapshot, the last file is removed and the snapshot   *)
(* rebuilt by replay.  Each command writes a migration file and then the    *)
(* snapshot, two writes that nothing holds together: the command may be    *)
(* killed in between.                                                       *)
(*                                                                         *)
(* Ids stand for their timestamp prefix, the part that next_migration_id    *)
(* makes increase; the clock may read anything at each command.             *)
(***************************************************************************)
EXTENDS Provider

CONSTANTS
    Models,     \* the models the .model files may describe
    Clock,      \* the UTC seconds the clock may read
    MaxFiles,   \* bound: `molde migrate` is not run on more files
    MaxKills    \* bound: the number of commands killed

VARIABLES
    model,      \* what the .model files describe
    files,      \* the migration files: records [id, up, down], and as
                \* history whether it was "clean" to write them: ~torn
    snapshot,   \* snapshot.json: <<>> if there is none, or <<the model>>
    command,    \* the snapshot the running command will write: <<it>>, or Idle
    torn,       \* history: a command was killed and no undo has run since
    kills       \* history: how many were, for MaxKills

vars == <<model, files, snapshot, command, torn, kills>>

ASSUME AuthoringAssumption ==
    Clock \subseteq Nat /\ MaxFiles \in Nat /\ MaxKills \in Nat

NoSnapshot == <<>>
Idle == <<>>

-----------------------------------------------------------------------------
(* load_dir sorts by id; of two files with one id it does not matter here   *)
(* which comes first: TypeOK is that there are none.                        *)

Ids == {f.id : f \in files}

ById(migrations) ==
    CHOOSE sorted \in [1..Cardinality(migrations) -> migrations] :
        \A i, j \in DOMAIN sorted :
            i < j => /\ sorted[i] # sorted[j]
                     /\ sorted[i].id <= sorted[j].id

Newest(migrations) ==
    CHOOSE f \in migrations : \A g \in migrations : g.id <= f.id

(* Mutant: the clock alone makes the id. *)
NextIdFromClock(now) == now

(* The current second, or one past the latest id if it does not exceed it.  *)
NextId(now) ==
    IF \A id \in Ids : id < now THEN now ELSE Newest(files).id + 1

(* rebuild_model: replays every file's "up". *)
RebuildModel(migrations) ==
    LET sorted == ById(migrations)
        after[i \in 0..Cardinality(migrations)] ==
            IF i = 0 THEN EmptyModel ELSE Replay(after[i - 1], sorted[i].up) IN
    after[Cardinality(migrations)]

(* The model `add` compares with. *)
Previous == IF snapshot = NoSnapshot THEN EmptyModel ELSE snapshot[1]

-----------------------------------------------------------------------------
(* Actions *)

Init ==
    /\ model \in Models
    /\ files = {}
    /\ snapshot = NoSnapshot
    /\ command = Idle
    /\ torn = FALSE
    /\ kills = 0

Edit ==
    /\ command = Idle
    /\ model' \in Models \ {model}
    /\ UNCHANGED <<files, snapshot, command, torn, kills>>

(* Mutant: the snapshot is read again for "down", after it was saved. *)
MigrateDownLate(now) ==
    LET up == Diff(Previous, model) IN
    /\ command = Idle
    /\ Cardinality(files) < MaxFiles
    /\ up # <<>>
    /\ files' = files \cup {[id |-> NextId(now), up |-> up,
                             down |-> Diff(model, model), clean |-> ~torn]}
    /\ command' = <<<<model>>>>
    /\ UNCHANGED <<model, snapshot, torn, kills>>

(* `molde migrate`, up to and including migration::save.  No difference, no *)
(* migration.                                                               *)
Migrate(now) ==
    LET up == Diff(Previous, model) IN
    /\ command = Idle
    /\ Cardinality(files) < MaxFiles
    /\ up # <<>>
    /\ files' = files \cup {[id |-> NextId(now), up |-> up,
                             down |-> Diff(model, Previous), clean |-> ~torn]}
    /\ command' = <<<<model>>>>
    /\ UNCHANGED <<model, snapshot, torn, kills>>

(* Mutant: the snapshot is taken from the .model files. *)
UndoSavesModels ==
    /\ command = Idle
    /\ files # {}
    /\ files' = files \ {Newest(files)}
    /\ command' = <<IF files' = {} THEN NoSnapshot ELSE <<model>> >>
    /\ torn' = FALSE
    /\ UNCHANGED <<model, snapshot, kills>>

(* Mutant: the removed file is replayed too. *)
UndoReplaysAll ==
    /\ command = Idle
    /\ files # {}
    /\ files' = files \ {Newest(files)}
    /\ command' = <<IF files' = {} THEN NoSnapshot ELSE <<RebuildModel(files)>> >>
    /\ torn' = FALSE
    /\ UNCHANGED <<model, snapshot, kills>>

(* `molde undo`, up to and including remove_file.  Without files it fails   *)
(* with NothingToRemove.                                                    *)
Undo ==
    /\ command = Idle
    /\ files # {}
    /\ files' = files \ {Newest(files)}
    /\ command' = <<IF files' = {} THEN NoSnapshot ELSE <<RebuildModel(files')>> >>
    /\ torn' = FALSE
    /\ UNCHANGED <<model, snapshot, kills>>

(* snapshot::save, or the removal of the snapshot. *)
WriteSnapshot ==
    /\ command # Idle
    /\ snapshot' = command[1]
    /\ command' = Idle
    /\ UNCHANGED <<model, files, torn, kills>>

Kill ==
    /\ command # Idle
    /\ kills < MaxKills
    /\ kills' = kills + 1
    /\ command' = Idle
    /\ torn' = TRUE
    /\ UNCHANGED <<model, files, snapshot>>

Next ==
    \/ Edit
    \/ \E now \in Clock : Migrate(now)
    \/ Undo
    \/ WriteSnapshot
    \/ Kill

Spec == Init /\ [][Next]_vars

-----------------------------------------------------------------------------
(* Properties *)

(* No command is between its two writes, and none was killed there that has *)
(* left a trace: an undo has regenerated the snapshot since, and no file is  *)
(* left that was written before it did (one may repeat the file before it).  *)
Settled == command = Idle /\ ~torn /\ \A f \in files : f.clean

(* The state's types; two files never share an id, which is the name of the *)
(* file and the key of its history row.                                     *)
TypeOK ==
    /\ model \in Models
    /\ \A f \in files : f.id \in Nat /\ DOMAIN f = {"id", "up", "down", "clean"}
    /\ Cardinality(Ids) = Cardinality(files)
    /\ Cardinality(files) <= MaxFiles
    /\ Len(snapshot) <= 1
    /\ Len(command) <= 1 /\ (command # Idle => Len(command[1]) <= 1)
    /\ torn \in BOOLEAN
    /\ kills \in 0..MaxKills

(* The snapshot is what the files add up to, in id order: `molde migrate`   *)
(* compares with the same model the databases have, after any number of     *)
(* undos and clock jumps, and an undo mends what a killed command left.     *)
RebuildIsEquivalent ==
    Settled => Diff(RebuildModel(files), Previous) = <<>>

(* The files that are left always apply, one after the other, to an empty   *)
(* database, and bring it to the snapshot: no undo, and no clock, leaves a  *)
(* file that presupposes something no file before it made.                  *)
Run(state, op) ==
    IF state.ok /\ Accepts(state.db, op)
    THEN [ok |-> TRUE, db |-> Execute(state.db, op)]
    ELSE [ok |-> FALSE, db |-> state.db]

Applied(state, ops) == FoldLeft(Run, state, ops)

Holding(m) == [ok |-> TRUE, db |-> CatalogOf(m)]

Database(migrations) ==
    LET sorted == ById(migrations)
        after[i \in 0..Cardinality(migrations)] ==
            IF i = 0 THEN Holding(EmptyModel)
            ELSE Applied(after[i - 1], sorted[i].up) IN
    after[Cardinality(migrations)]

FreshApplies ==
    Settled => Database(files) = Holding(Previous)

(* `molde apply --to`: on the database of the snapshot the newest files'     *)
(* "down" run, the newest first.  However many do, what is left is what the *)
(* older files build; if all do (`--to 0`), an empty database.              *)
Oldest(migrations, i) == {ById(migrations)[j] : j \in 1..i}

Reverted(migrations) ==
    LET sorted == ById(migrations)
        last == Cardinality(migrations)
        back[i \in 0..last] ==
            IF i = 0 THEN Holding(Previous)
            ELSE Applied(back[i - 1], sorted[last + 1 - i].down) IN
    back

RollsBack ==
    Settled => \A i \in 0..Cardinality(files) :
        Reverted(files)[i] = Database(Oldest(files, Cardinality(files) - i))

(* What undo takes away the next `molde migrate` writes again: when nothing *)
(* was edited since a file was made, and it is undone, the difference to    *)
(* the regenerated snapshot is that file's "up".                            *)
UndoneComesBack ==
    [][ Settled /\ Previous = model /\ Cardinality(files') < Cardinality(files)
        => LET saved == command'[1]
               regenerated == IF saved = NoSnapshot THEN EmptyModel
                              ELSE saved[1] IN
           ToSet(Diff(regenerated, model)) = ToSet(Newest(files).up) ]_vars

-----------------------------------------------------------------------------
(* What one migration has to do, for any number of them to add up.           *)

(* The two are one model to the differ and one database to the engine.      *)
Same(m, n) == Diff(m, n) = <<>> /\ CatalogOf(m) = CatalogOf(n)

(* From either of two that are the same, the difference to a model leads     *)
(* there: in memory, where replaying it gives another of these, and in the   *)
(* database.  It does not matter which of the same models it is taken from.  *)
UpsLead(models) ==
    /\ EmptyModel \in models /\ Models \subseteq models
    /\ \A m \in models : Same(m, m)
    /\ \A m, n \in models : Same(m, n) =>
          \A k \in Models :
             LET up == Diff(n, k)
                 reached == Replay(m, up) IN
             /\ reached \in models
             /\ Same(reached, k)
             /\ Applied(Holding(n), up) = Holding(k)
             /\ \A l \in Models :
                   Same(reached, l) => ToSet(Diff(m, l)) = ToSet(up)

(* And back: the difference from a model to one it was made from returns the *)
(* database there.                                                          *)
DownsLead(models) ==
    \A k \in Models, m \in models : Applied(Holding(k), Diff(k, m)) = Holding(m)
=============================================================================
