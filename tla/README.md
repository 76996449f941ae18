# A verification of molde

molde is an EF-style migration tool: a schema is written in `.model` files,
`molde migrate` turns the difference to a snapshot into a migration file,
`molde apply` runs the pending files against a database and records them in
`__EFMigrationsHistory`. This directory holds TLA+ specifications of it, TLC
configurations that check them on small instances, and proofs that TLAPS checks.

- [1. The system](#1-the-system): its parts, their state, what makes them correct
- [2. The modules](#2-the-modules): what models which part, and how
- [3. The runs](#3-the-runs): what is checked, in which bounds, under which fairness
- [4. The proofs](#4-the-proofs)
- [5. Where the code and its documentation disagree](#5-where-the-code-and-its-documentation-disagree)
- [6. What is left out](#6-what-is-left-out)
- [7. The plan](#7-the-plan)

## 1. The system

| part | code | state it keeps | operations |
|---|---|---|---|
| migration runtime | `molde-migrate/src/lib.rs`; `apply`, `up`, `fresh` | the database: schema and history table | `ensure_history`, `applied`, `update` (revert, apply), `execute_all` |
| model differ | `molde-core/src/diff.rs` | none | `diff`, `apply_operation` |
| SQL generators | `molde-providers` | none | `generate` per engine |
| authoring | `molde-design/src/author.rs`; `migrate`, `undo`, `status` | migration files, `snapshot.json` | `add`, `remove`, `rebuild_model` |
| team workflow | `commands/snapshot.rs`, `init_team.rs`, `ci.rs` | snapshot, git configuration | snapshot, merge driver, hook, the gate of a pull request |
| sync | `molde-sync`, `commands/sync.rs` | two databases | read, diff, execute |
| verify | `commands/verify.rs` | none | read, compare, classify |
| lint | `molde-core/src/lint.rs`; `lint`, `ci` | none | find what is dangerous in an "up" |
| database lifecycle | `commands/db.rs`, `molde-migrate/src/admin.rs` | which databases exist | create, drop, reset |
| language server | `molde-lsp` | open documents, an index of tables | open, change, save, close, format; hover, complete, look up |
| `.model` language | `molde-lang` | none | parse, emit, format |
| scaffolding | `molde-scaffold`, `commands/pull.rs` | none | read a catalog in several queries, write `.model` files |
| type mapping | `store_type_for` of `molde-providers`, the readers' way back, `molde-lang/src/types.rs` | none | logical type to store type and back |

How they meet: `migrate` parses the `.model` files, calls `diff` twice (up and
down) and writes a file and then the snapshot. `apply` loads the files and hands
them to the runtime, which has a generator turn each operation into SQL, and runs
the SQL of a migration and its history row in one transaction. `undo` deletes the
last file and *replays* the others in memory with `apply_operation` to get the
snapshot back. So one list of operations has three meanings that must agree: the
difference of two models, its replay in memory, and its SQL on four engines.

`verify` goes the other way: a reader turns the catalog into a model, the model is
written as `.model` text and parsed again, and what `diff` finds between it and
the models is the drift. `pull` writes that text over the models. The same parser
and emitter serve `molde fmt` and the language server. In a team, git merges
models, migrations and snapshots file by file; `init-team` registers `molde
snapshot` as the merge driver of the snapshot and as a post-merge hook, and
`molde ci` lints, compares the snapshot and migrates a new database before a
branch reaches the trunk.

What is hard in it:

- Several processes (developers, CI jobs, deployments) run `apply` on one
  database. The applied ids are read once, no lock spans a run, and the code
  relies on transactional DDL, the history's primary key, and DDL failing when
  repeated.
- A migration that fails or is killed half-way; a COMMIT whose answer is lost;
  MySQL, where every DDL statement commits.
- Working copies at different commits: the files a process has are not the files
  whose migrations the database has.
- One fixed order of about twenty kinds of operations, for every change and for
  its inverse, on engines that refuse to drop what something else needs.
- Two writes per authoring command, and nothing that holds them together.
- Catalogs are read query by query (ten on PostgreSQL), outside a transaction, while others
  change the database.
- The merge driver runs while git is still writing the files it reads.
- An editor and a server exchange messages that cross on their way; the files
  under them are rewritten by others.

What makes each part correct:

- *runtime*: a change and its history row come and go together; a recorded
  migration is in force as a whole; ids are applied in order; an `update` that
  returns Ok has reached its target; no command hangs; failures can be retried.
- *differ and generators*: no engine refuses an operation of a diff; running the
  diff gives the new model, and running the inverse gives the old one back.
- *authoring*: the snapshot is what the files add up to; the files apply to an
  empty database; what was undone comes back.
- *team workflow*: two branches merge to files and a snapshot that agree.
- *sync*: additive only; the target ends with what it had and what it lacked.
- *lint and ci*: nothing that can lose data reaches the trunk unreported.
- *verify*: silent exactly when database and models agree; what it reports was so.
- *`.model` language*: formatting keeps what a file means, and is idempotent.
- *language server*: its documents are the editor's; the diagnostics shown are
  those of the latest text; a table is found where it is defined.

`PROJECT.json` lists every part under `components`, and each thing that is hard
to test at its line under `hazards`.

## 2. The modules

    MigrationLog                 what a database with migrations promises
        ^ implements
    Migrator ---- MCMigrator     processes, transactions, faults
        ^ proofs
    Migrator_proofs

    SchemaDiff                   models, operations, diff, replay
      |   |   |  \  ^ proofs
      |   |   |   \ SchemaDiff_proofs
      |   |   |   Lint           what lint finds; what an "up" can do to rows
      |   |   |        \
      |   |  Provider   |        what each engine is given, answers and does
      |   |   |  |  \   |
      |   |   |  |  TeamWorkflow ---- MCTeam      two branches, git, ci
      |   |   |  |       ^ proofs (with those of SchemaDiff)
      |   |   |  |  TeamWorkflow_proofs
      |   |   | Evolution ---- MCEvolution        a migration up and down
      |   |   |   ^ proofs (with those of SchemaDiff)
      |   |   | Evolution_proofs
      |   |   |   ^ extended by
      |   |   | Evolution_accepts_proofs
      |   |  Authoring ---- MCAuthoring           files and snapshot
      |   |       ^ proofs
      |   |  Authoring_proofs
      |   |
      |   |   Lang               .model text to tables and back
      |   |   /    \
      |  Reader   LanguageServer ---- MCEditor    editor, server, files
      |     |          ^ proofs
      |     |     LanguageServer_proofs
      |   Verify ---- MCVerify   verify and pull against a moving database

    Sync ---- MCSync             two databases, readings, a script
        ^ proofs
    Sync_proofs

### Migrator (molde-migrate, `apply`, `up`, `fresh`)

Any number of processes work on one database. The database is `historyTable`,
`history` (committed rows) and `schema` (committed effects); a process has a
program counter, the targets its command has still to reach, the files it loaded,
its plan and its transaction.

| action | code |
|---|---|
| `Start` | a user runs a command; `fresh` is two calls of `apply::run` |
| `LoadFiles`, `Succeed` | `apply::run`: load the files (without any it returns early), report |
| `EnsureHistory` | `ensure_history`, a statement of its own |
| `ReadApplied`, `TargetNotFound` | `update`: read the ids *once*, resolve `--to`, fix the plan |
| `RevertOne`, `ApplyOne`, `FinishUpdate` | the two loops of `update` and its `Ok` |
| `ExecuteStatement`, `StatementFails` | one turn of the loop of `execute_all` |
| `RecordHistory`, `DuplicateRow` | the last statement: the history row |
| `Commit`, `CommitUnanswered` | `commit`, and a commit whose answer is lost |
| `Fault` | any `?`: connection lost, process killed; the transaction rolls back |

A migration's SQL is abstracted to effects `<<m, s>>`, one per statement. CREATE
of what exists and DROP or ALTER of what does not fail unless the statement is
guarded (`IF [NOT] EXISTS`, `OR REPLACE`); dropping a table takes the effects of
later migrations on it along. Engines lock a table from a transaction's first
DDL on it to its end. `Transactional = FALSE` is MySQL: each statement commits.
History rows have no value but their id.

`MigrationLog` is the abstract specification: a migration is recorded and takes
effect in one step, and is forgotten and undone in one step. `Migrator`
implements it under `log <- history`, `inForce <- InForce` (the migrations all of
whose effects are in the schema), when DDL is transactional.

### SchemaDiff (molde-core `diff.rs`, `model.rs`)

Models are records of lists, as the code's `Vec`s, so that an operation can leave
two elements of one name. `Diff` is `diff` (each line of it is one of the
per-kind vectors the code concatenates, in the code's order), `ApplyOperation` is
`apply_operation`, `Replay` is `rebuild_model` for one migration. Only what the
diff or an engine tells apart is kept of an element: a column's type stands for
type, nullability and length, an index for the column it is on, a check, a
function and a view for their text. The module has no state of its own. Lists are
selected and mapped with `FlattenSeq` (`Those`, `PerTable`), a recursive function
the prover can expand.

### Provider (molde-providers)

A database is a catalog: the same objects as sets, with rows. Taken from the
generators are `Skipped` (operations without SQL on this engine), `NewTable`
(what CREATE TABLE puts inline), `AlteredColumn` (what ALTER COLUMN sets),
`Rebuilt` (SQLite's create-copy-drop-rename) and `CatalogOf`. External, from the
engines' documented behaviour, is when a statement is refused (`Accepts` and what
it uses: what pins a column, which table or index may go, which rows may be
inserted or deleted) and what an accepted one does (`Execute`, with referential
actions one level deep).

### Evolution

A pair of models `from`, `to` of a family: the database holds `from`; the
operations of `Diff(from, to)` run one by one; then those of `Diff(to, from)`,
which is how `author::add` makes the down. Both ends of a pair are catalogs the
next pair may start from, so the pairs stand for chains of migrations. The engine
is chosen in the initial state; `Provider` is instantiated with it.
`FamiliesAssumption` asks of the models only that a database can hold them: the
names of a list tell its elements apart (`Holdable`).

### Authoring (molde-design, `migrate`, `undo`)

`Edit` changes the `.model` files; `Migrate` and `Undo` do everything up to and
including the first write (the migration file) and leave in `command` what the
second write will put into the snapshot; `WriteSnapshot` does that; `Kill` ends
the command before it. Ids stand for their timestamp; the clock may read anything
at each command, backwards too. `torn` and a file's `clean` are history
variables: they let the properties say "unless a killed command has left a trace".
`ById` sorts files by id, `RebuildModel` replays them, and `Database` and
`Reverted` run their ups and downs: recursive functions on the number of files.

### Sync (molde-sync, `molde sync`, `molde up --from-trunk`)

A database is a function from the keys of its objects (kind, table, name) to
their definitions; its history rows are objects too. `seen` and `had` are what
was read of source and target, `script` the statements still to execute: a set,
which `Precedes` orders by section and name. The four engines differ in
their queries (`PostgresQueries`, ...), in the sections of their script
(`PostgresSections`, ...), in what a statement does when its object is there
(`WhenThere`), in what CREATE TABLE brings along (`Inline`) and in whether the
script is a transaction. `Additions` is `diff` (its conflicts are reported, and
change nothing), `Statement` and `Script` are `build_ddl`. External is what a
database does with a statement (`Accepts`, `Outcome`).

| action | code |
|---|---|
| `Begin`, `ReadSource`, `ReadTarget` | `read_schema` of both, query by query |
| `UpToDate`, `Compare` | `diff`; nothing to add, or `write_ddl` |
| `Confirm`, `Decline` | `--yes` or the answer; `--dry-run` or no |
| `ApplyScript`, `ScriptFails` | `apply` in a transaction |
| `ApplyStatement`, `StatementFails` | `apply` on MySQL |
| `Fault` | any `?`, or the process dies |
| `MigrateSource`, `WorkLocally` | the others: `molde apply` on the trunk, a developer's SQL |

`torn` is a history variable: the readings do not fit together, because the
source changed between two queries or a table was made in the target before the
script ran (whose CREATE TABLE IF NOT EXISTS then skips the columns too).

### Lang (molde-lang)

A text is a sequence of lines, each an indentation, a key and a value; values are
tagged records as the tokens of `value.rs` are. `TreeOf` is the tree of
`tree.rs`, `BuildTable` and `GlobalsOf` are `parse.rs` with all its sugar (key
and unique facets, enums, value objects, subtypes with a discriminator, foreign
keys by convention and the index each brings along), `EmitEntity` and
`EmitDatabase` are `emit.rs`, and `FormatModel` is `format_model`. The tree is a
recursive function on line numbers; lists are folded.

### LanguageServer (molde-lsp, `molde fmt`)

`docs` and `index` are the server's state, `buffer`, `asked` and `shown` the
editor's, `toServer` and `toClient` the messages on their way, `disk` the models
directory.

| action | code |
|---|---|
| `Serve` | one message: `initialized`, `did_open`/`did_change`, `did_save`, `did_close`, `formatting` |
| `Open`, `Type`, `Save`, `Close`, `AskFormatting` | the editor (external) |
| `ShowDiagnostics`, `ApplyEdit` | the editor reads the server's answer |
| `Fmt` | `molde fmt` in a terminal |
| `Checkout` | git brings another version of a file, or none |

A handler is one step: it has changed its state and handed over what it sends
before its first `await` gives way. The directory is listed in any order, so that
a rebuilt index is any of `Indexes`, which has for each table name one of its
`Candidates`. The parser and the formatter are tables over the texts of a corpus (`Reading`,
`Formatted`), computed by `Lang`.

### Reader, Verify (molde-scaffold, `molde verify`, `molde pull`)

`Reader` has the four readers: which queries they make, in which order, and what
each takes from the catalog as it is *then* (`ReadModel` has a catalog per
query); `StoreTypeFor` and `ReadColumn` are the type tables there and back;
`BuildModelFiles` is what `pull` writes and `verify` writes to a temporary
directory.

In `Verify` a command asks its queries one by one (`Ask`), others edit the models
(`Edit`) and change the database (`Change`) meanwhile, and `Report` or `Write`
ends it. `during` is a history variable: the catalogs there were while the
command read. `DriftItems` is `canonicalize_types`, `diff` and `classify`.
`ColumnDef`, `IdentityType` and `RowId` are the columns that the generators' CREATE
TABLE makes; what a catalog then keeps of a model (`Stored`) is external.

### Lint, TeamWorkflow (molde-core `lint.rs`, `snapshot`, `init-team`, `ci`)

`Lint` has `Analyze`, and beside it, independent of it, what an "up" may do to a
database with up to two rows a table: `Loses` (a value is gone afterwards) and
`Refusable` (a step is refused).

In `TeamWorkflow` a tree is models, migrations and a snapshot; each developer has
a working copy, a commit and the trunk's tree that is merged into it.

| action | code |
|---|---|
| `Edit`, `Commit` | the developer and git |
| `Migrate` | `molde migrate` as one step (`Authoring` has its steps) |
| `Snapshot` | `molde snapshot` |
| `Merge` | `git merge`: fast forward, file by file, or with conflicts resolved by hand; the driver sees any mixture of old and merged models (`MidMerge`), then the hook |
| `MergeToTrunk` | a pull request whose `molde ci` passes (`CheckLint` of all migrations, those since a base, or the latest; `CheckSnapshot`; `CheckVerify`) |

`rough` is a history variable: something was committed that is in no migration,
or two branches met with migrations of one file.

## 3. The runs

| run | instance | checks | states |
|---|---|---|---|
| `migrate_trunk` | 3 processes, 3 migrations, checkouts at any commit of the trunk, `apply` | `TypeOK`, `InIdOrder`, `NoGhostRow`, `ReachesTarget`, `RetriesSucceed` | 81,474 |
| `migrate_race` | 2 processes with every file, every command | `NoUnrecordedEffect`, `ImplementsLog`, `ReachesTarget`, `EveryCommandReturns` | 76,673 |
| `migrate_mysql` | 2 processes on the trunk, `apply`, DDL that commits | `NoGhostRow`, `EveryCommandReturns` | 6,356 |
| `evolve_engines` | all pairs of the families of four engines | `TypeOK`, `NeverRefused`, `Materialised`, `RolledBack` | 261,240 |
| `author_files` | 5 models, 3 files, 2 clock readings, 1 kill | `TypeOK`, `RebuildIsEquivalent`, `FreshApplies`, `RollsBack`, `UndoneComesBack` | 54,563 |
| `sync_trunk` | 4 engines, a new target or a copy, 3 migrations to come, 3 objects of local work | `TypeOK`, `Delivered`, `RowsHold`, `Additive`, `ScriptAccepted`, `Heals` | 217,977 |
| `editor` | 3 corpora of up to 2 files, 2 + 1 messages under way | `TypeOK`, `DocumentsFollow`, `NavigationHolds`, `MeaningKept`, `DiagnosticsArrive` | 287,802 |
| `verify_engines` | 9 families on 4 engines, 2 catalogs during a read | `TypeOK`, `DriftIsDifference`, `ReportsWhatWas`, `PullSettles` | 62,372 |
| `team_merge` | 2 developers, 2 files, 3 kinds of CI, 2 edits | `TypeOK`, `TrunkAddsUp`, `TrunkBuilds`, `NoSilentLoss`, `OwnChanges` | 288,430 |
| `migrate_ghost` | 1 process, checkouts of the trunk, `apply` and `fresh` | `NoGhostRow`: violated | |
| `evolve_new_check` | MySQL, a new table with a check | `Materialised`: violated | |
| `format_views` | a `database.model` with a view | `MeaningKept`: violated | |

What they show:

- `InIdOrder`: whatever races, no migration is in the history before one of the
  trunk that comes earlier. Nothing in the code prevents two processes from
  working through the same plan; it holds because the loser's first statement
  fails and ends its whole run.
- `NoGhostRow`: a recorded migration is in force as a whole. It holds for `apply`
  on MySQL too, where the opposite (effects without a row) does happen.
- `ReachesTarget`: an `update` that returns Ok has reached its target although it
  planned on an old reading of the history. Where others revert at the same time
  it is required of a process that is alone.
- `NoUnrecordedEffect`, `ImplementsLog`: change and row are one atomic step, for
  every interleaving of commands, faults and unanswered commits.
- `EveryCommandReturns`, `RetriesSucceed`: no command waits for ever, and no
  failure leaves a state that blocks the next attempt.
- `NeverRefused`: the fixed order of `diff` suits the engine, on the way up and on
  the way down. `Materialised`, `RolledBack`: differ, generator and engine
  together bring about what the model says, rows included, and take it back.
- `RebuildIsEquivalent`, `FreshApplies`: the snapshot is what the files add up to
  and the files apply from nothing, also after an undo that repairs what a killed
  command left. `UndoneComesBack`: `undo` then `migrate` writes the same file.
  `RollsBack`: `apply --to` any of the files, `--to 0` included, leaves what the
  files up to it build, although each "down" was computed with another snapshot,
  regenerated since or not.
- `Additive`: a script computed from an old reading of the target drops nothing
  and redefines nothing that was read there. `Delivered`, `ScriptAccepted`: it
  brings what was read of the source, and fails only on a target that has moved
  or after a torn reading.
- `RowsHold`: a history row is never copied ahead of its migration's objects,
  although MySQL's script may stop anywhere. `Heals`: whatever a torn reading, a
  collision or a script cut off has left, the next syncs complete it.
- `DocumentsFollow`: a server that has read everything has the editor's documents,
  although edits from formatting, typing, closing and opening again cross.
  `DiagnosticsArrive`: unless typing goes on for ever, what is displayed for an
  open file becomes the diagnosis of the editor's text and stays it.
- `MeaningKept`: the text that formatting puts in place of another (in the editor
  or by `molde fmt`) reads as the same table, synthesized keys and indexes
  included, and is a fixpoint: `Fmt` asks it of every text of the corpora,
  `ApplyEdit` of late edits. `NavigationHolds`: the index leads from a table's
  name to its file, also when another file is called as the table is.
- `DriftIsDifference`: with a database that stands still, `verify` is silent if and
  only if the catalog has what the models say. `ReportsWhatWas`: with one that
  moves between the queries, every item of the report was so at some moment.
  `PullSettles`: after a forced pull only tables the database lacks are left.
- `TrunkAddsUp`: for a team that commits each change with its migration and does
  not change one file on two branches at once, every file's migrations on the
  trunk are a chain, for any clocks and order of merges. `TrunkBuilds`: a CI with
  a database guarantees for everyone that the migrations build what the models say.
- `OwnChanges`: the next `molde migrate` after any merges writes what its author has
  changed since the last commit, and nothing that was merged, although the driver's
  snapshot of a half-merged tree is what is committed until the hook's is.
- `NoSilentLoss`: `molde ci`, linting every migration or, with `--since` the branch
  point, those a branch adds, catches by lint's few rules every migration that can
  lose a value, and under `--strict` every one a database with rows can refuse.
  Linting the latest migration only does not (section 5).

Every property of a passing run has a mutant in `PROJECT.json`: a change to a
modelled definition that a plausible bug would make (a statement on the pool
instead of the transaction, a down that repeats the up, a dropped re-creation, an
id from the clock alone, ...), under which TLC finds it violated. The mutated
forms stand beside the definitions, marked "Mutant".

### The bounds

- *3 migrations, 2 statements each, 2 tables*: the least with two migrations on
  one table (so that a revert can take another's effects along), one on another
  (so that two transactions run side by side), a middle for `--to`, a name that
  two migrations share, and a failure between two statements. Guarded and
  unguarded statements occur in first and in second place.
- *2 or 3 processes*: two contend; the third can overtake a loser that starts
  again. The runtime has no state per pair of processes.
- *families*: a parent and a child table with and without column, foreign key,
  index and check, each in two definitions, so that every list of `diff` meets
  absent, added, kept, redefined and removed elements, and both tables being
  created and removed; columns whose type changes, where the engine allows it under
  the keys and indexes that stay; seeds with one or two rows, matched by primary or natural
  key, under a column that comes, goes or changes; functions, triggers and views
  that name each other.
- *3 files*: one to undo, one to keep, one to write again. *2 clock readings*
  give equal, growing and falling times. *1 kill* (`MaxKills`): a second one
  before an undo leaves nothing new, since undo regenerates everything.
- *sync*: one migration adds a column with an index and a view on it, one redefines
  a column and adds a trigger with its function, one adds a table with a foreign
  key to the first: every section of the script, and each kind of reference from
  a later section to an earlier one. Local work collides with the trunk's objects
  before, during and after the reading.
- *editor*: a corpus with every sugar, one with foreign keys by convention, spelled
  out and opted out of their index (not with one that an explicit index covers:
  section 5), one with a file named as another's table, each with a text that
  is not canonical and (in the first) one that does not parse. Two messages and
  one answer under way let an edit cross a change, a close and an open.
- *verify*: of each engine, three models that add, drop and change tables,
  columns, keys and indexes, and one with a column of each type the engine gives
  back; of PostgreSQL, also checks, triggers, functions, views, extensions. A
  read that sees two catalogs sees every mixture of them.
- *team*: CI as `molde ci` without options, with all it can be told (`--since`,
  `--strict`, a database), and as the template of `init-team` has it. Two files with a foreign key between them; two edits make two branches
  with a migration each, in either order of ids, or two migrations on one. (A run
  with three edits, four times as large, showed nothing more.)

`CHECK_DEADLOCK FALSE` is set for Evolution, where a migration that is up and
down again is at its end, and for TeamWorkflow, which ends with the last edit
merged or refused by CI. Everything else is checked for deadlock.

### Fairness

`FairSpec`: `WF_vars(Step(p))`, a started process keeps running (it is a loop of
awaited calls with no unbounded wait of its own), and
`SF_vars(ExecuteStatement(p) \/ StatementFails(p))`, a statement that waits for a
lock gets its turn (engines queue waiters). Nothing is assumed of users or of
faults: `Start`, `Fault` and `CommitUnanswered` are never required.
`RetriesSucceed` says itself what it needs: that faults stop, and that someone
goes on applying the newest checkout. In `Sync`, `WF_vars(SyncStep)` is the same:
a command that was started runs on, its user's answer included; `Heals` itself
supposes that faults and refusals stop and that someone keeps running sync.

In `LanguageServer`, `WF_vars(Serve)`, `WF_vars(ShowDiagnostics)` and
`WF_vars(ApplyEdit)`: the server reads its input in a loop and the editor reads
what it is sent. Nothing is assumed of what users do.

## 4. The proofs

Leaves are kept small enough that `tlapm --stretch 0.05`, a twentieth of the default
time limits, still proves every one of them: what is proved does not depend on how
fast the machine is.

`Migrator_proofs` proves, for any sets of processes, ids, names, tables, clones
and commands and any number of statements that satisfy the assumptions in
`Migrator`:

| theorem | says | assumes |
|---|---|---|
| `TypeCorrect` | `Spec => []TypeOK` | |
| `EffectsAreRecorded` | `Spec => []NoUnrecordedEffect` | `Transactional` |
| `ImplementsMigrationLog` | `Spec => ImplementsLog` | `Transactional` |

`NoUnrecordedEffect` is not inductive: a commit makes the effects of its
statements visible together with its row only if the transaction is in order. The
inductive invariant `IInv` adds

- `LockInv`: two transactions with executed statements are on different tables;
- `CompleteInv`: the row comes after *every* statement;
- `InsertInv`: a row about to be committed is not there yet;
- `DropInv`: a transaction that has dropped a table still has its creator's row.

The argument: only `Commit` and `CommitUnanswered` change `schema` and `history`
(`QuietStep` disposes of the other actions). `CommitTx` shows that another
process's transaction keeps its part of the invariant when one commits, because
they hold different tables or the other has not executed anything yet;
`CommitRecords` shows that every effect is recorded afterwards: those of an `up`
by its own row, and after a `down` none of the migration's is left
(`CompleteInv`). `InvStep` puts the actions together. For the refinement,
`UpInForce` and `DownInForce` compute `InForce` after a commit, and `LogStep` maps
a commit to `Apply` or `Revert` and everything else to a stutter.

The second half of the module drops `Transactional`, so that MySQL is included, and
assumes instead that users only apply (`AppliesOnly`: no command has a target)
and, where the order is concerned, that each checkout is one of a trunk's commits
(`TrunkCheckouts`: with a migration it has every older one):

| theorem | says | assumes |
|---|---|---|
| `RecordedIsInForce` | `Spec => []NoGhostRow` | `AppliesOnly` |
| `RecordedInOrder` | `Spec => []InIdOrder` | `AppliesOnly`, `TrunkCheckouts` |
| `SuccessIsReached` | `Spec => ReachesTarget` | `AppliesOnly` |

`migrate_trunk` and `migrate_mysql` are instances of these assumptions, and
`migrate_ghost` shows that without `AppliesOnly` the first fails. The invariant
`UpInv` adds to the types that a process reverts nothing, that each file of its
checkout is in the history or still in its plan (`Planned`) with the one it is
working on the oldest of them, that it records a migration only with all its
statements done, and that on an engine that commits each statement these are in
the schema. History and schema then only grow, so that what other processes do
disturbs nobody's plan (`OthersKept`); a row is inserted when every older file of
the checkout is recorded, which is the order; and `Ok` is returned with an empty
plan, which is the target.

### Authoring_proofs

For any models, clock, number of files and of kills:

| theorem | says | assumes |
|---|---|---|
| `Typed` | `Spec => []TypeOK` | |
| `SnapshotIsReplay` | `Spec => []RebuildIsEquivalent` | `UpsLead` |
| `FilesApply` | `Spec => []FreshApplies` | `UpsLead` |
| `UndoneIsRedone` | `Spec => UndoneComesBack` | `UpsLead` |
| `RollingBackReturns` | `Spec => []RollsBack` | `UpsLead`, `DownsLead` |

`TypeOK` says that ids stay unique, however often the clock is set back. Its
invariant is `FilesInv` (files are finitely many, sorted by ids below or at the
last one used) with `SavedInv` (what a snapshot may be).

The other four lift what *one* migration does to any number of migrations, undos,
clock jumps and killed commands. `UpsLead(models)` is about one: from any of two
models that the differ and the engine take for the same, the difference to a
model leads there, in memory and in the database. `DownsLead` is about one "down".
They are assumed of a set of models that has every model a developer writes and
is closed under replay; the run's `ReplayAssumption` has TLC compute that set for
its five models and evaluate both on it. `Evolution` checks the same of pairs
under `Materialised`, `RolledBack` and `NeverRefused`. Not every model satisfies
them: raw DDL and extensions that go, and seed rows with a natural key, do not
come back from a replay, and section 5 lists them as limits. Given both, there is
still something to prove, since `undo` puts a *replayed* model in the place of the
one that was written, later migrations are differences to that, a killed command
leaves a file without its snapshot, and the snapshot is compared by `Same`, not by
equality. The invariant `ChainInv` says that the files sorted by id lead from
model to model (`Lead`) to one that is the same as the snapshot that is, or is
about to be, written (`Pending`), except behind a file written while `torn`
(`Clean`); `Made` says of each file between which models it was made, which is
what its "down" needs.

### TeamWorkflow_proofs

For any set of developers, files, versions of them, CI and number of edits:

| theorem | says | assumes |
|---|---|---|
| `Typed` | `Spec => []TypeOK` | |
| `LossReported` | `Spec => []NoSilentLoss` | `LintCatches` |
| `TrunkChains` | `Spec => []TrunkAddsUp` | |
| `TrunkIsBuilt` | `Spec => []TrunkBuilds` | `FilesRead` |
| `MigrationsAreOwn` | `Spec => OwnChanges` | |

`TypeOK` has no two migrations with one file name anywhere. `HistoryInv` says
where migrations are (`Nested`: branch point within commit within working copy;
`OwnKept`: developers have what they wrote) and how ids lie (`NewerThanCommitted`,
`NewerThanSince`); the last is why `molde ci --since` leaves out no migration of a
branch (without it, `molde ci` leaves out none at all). With `LintInv`, what CI has let through, and `LintCatches`, that lint's
rules find what they are there for (an assumption that TLC evaluates for the run's
versions), nothing that loses data reaches the trunk unreported. `ChainInv` says
what `Books` a team that goes by the book keeps in each tree: working copies'
migrations add up to their snapshot, commits' and trunk's to their models, and a
working copy's snapshot is of its models or of the commit's, which gives
`MigrationsAreOwn`. A merge
keeps it because branches that meet have migrations of different files, and a new
id is the greatest in its tree.

`TrunkIsBuilt` cannot go by the chains: a team with a CI need not go by the book, and
`molde verify` finding nothing to differ does not by itself make the catalog equal to
the models, since the differ does not see everything (`DiffIsSilent`). Its invariant
(`BuiltInv`: the property, and that migrations are finitely many) rests on three facts.
Whatever migrations are applied, in whatever order, a run that gets to its end leaves
a catalog of a known `Shape`: tables told apart by name, with neither rows nor checks
nor triggers, made of columns and indexes that some version of their file has
(`ExecuteShaped` for one statement, `FreshIsGood` for any set of migrations). Between
two such catalogs the differ misses nothing (`GateHolds`), so what CI has let through
is built exactly. And the first migration, which no CI has seen, is followed statement
by statement (`OnTheWay`, `FirstBuilds`). `FilesRead` says for which files this is so:
it leaves out what the differ does not see or never takes away, which are a primary
key that changes, an index redefined under its name, and an extension nobody needs any
more (the hazard at diff.rs:597), with which the gate can be silent while the trunk's
catalog is not the models'; and checks, triggers and seeds, which a live schema is not
read for. TLC evaluates it for the run's files.

### Sync_proofs

For the four engines and any databases, migrations and local work:

| theorem | says |
|---|---|
| `Typed` | `Spec => []TypeOK` |
| `WhatWasReadIsThere` | `Spec => []Delivered` |
| `RowsComeLast` | `Spec => []RowsHold` |
| `OnlyAdds` | `Spec => Additive` |
| `AcceptedAsComputed` | `Spec => ScriptAccepted` |

They rest on the assumptions `Sync` states of its constants: databases have what
their objects need (`SourceAssumption`), a migration has one row, and a target that
has the row has its objects (`RowAssumption`), columns and indexes have their table
(`TargetAssumption`). `Refers` lists which kinds an object's creation may refer to,
and so what is left out: a view on a view, a PostgreSQL function whose body needs a
table to be created, a SQL Server column computed by a function. In the code these
can be refused (section 5). `SourceInv` says what the source has, `QueueInv` what is
still to be asked, `SeenInv` and `HadInv` what a half-finished reading holds, and
`ScriptInv` that the rest of the script is what the target still lacks. `Sound` is the
heart of it: a reading during which nobody migrated the source is closed under what
objects refer to, and has with a history row all it stands for; `Covers` carries
this over to a script that is cut off after any statement.

### LanguageServer_proofs

For any files, texts and lengths of the queues:

| theorem | says | assumes |
|---|---|---|
| `ServerFollowsEditor` | `Spec => []DocumentsFollow` | |
| `Typed` | `Spec => []TypeOK` | |
| `NavigationLeads` | `Spec => []NavigationHolds` | |
| `FormattingKeepsMeaning` | `Spec => MeaningKept` | `FormatKeepsMeaning` |

The invariant `FollowInv` says of each file that the last message about it still in
the queue tells what the editor has of it, and that without such a message the
server's document is the editor's. `SendTelling` and `SendQuiet` show it kept when
the editor sends, `ReadMessage` when the server reads.

`FormatKeepsMeaning` is about a text alone: formatted, it reads as the same table.
What is proved is that an answer to a formatting request never falls on another
text than it was made for: `AskedInv` (one request per file, or its answer, is
under way), `AnswerInv` (with `Meant`: when the server reads the request, its
document is what the editor asked about) and `TextInv`. The run `editor` shows
`FormatKeepsMeaning` for its corpora, since `Fmt` may meet each text of them;
`format_views` shows that it fails of a `database.model` with views. `CloseInv`,
`IndexInv` and `SizeInv` carry `TypeOK` and `NavigationHolds`: a document that the
editor closed is followed by its close, an index that is not `stale` is one of what
is on the disk, and requests and answers together never outgrow the bound.

### SchemaDiff_proofs

For any two models:

| theorem | says |
|---|---|
| `DiffIsSilent` | `Diff(from, to) = <<>> <=> LooksSame(from, to)` |
| `NothingKeptIsLost` | every operation in `Diff(from, to)` is `OnlyWhatIsGone(op, from, to)` |
| `SameModelIsSilent` | `Diff(model, model) = <<>>`, if `ModelToldApart(model)` |
| `DiffIsStaged` | `Diff(from, to)` is in the order of `StageOf`, the passes of `diff.rs` |

`LooksSame` says what the differ compares: the same tables, functions and views by
name, with the same columns, keys, checks, triggers and seed rows found by name or
match key. What it leaves out the differ does not see: a primary key, an index's
definition, a table's or a view's place in its list, raw DDL and extensions that
the new model no longer has. So the theorem has both directions: no difference of
the compared kinds goes unsaid, and `migrate` on a model that looks like its
snapshot writes nothing. `OnlyWhatIsGone` is about the three destructive kinds
(`drop_table`, `drop_column`, `delete_data`): a table that the new model lacks, a
column of a table of both that the new table lacks, a row whose match key no new
row has. A name is all the differ goes by, so a renamed table is dropped; that is
what `lint` reports. `IsModel` asks only that lists are lists and that there
are finitely many extensions. `ModelToldApart` (names tell elements apart, match
keys tell seed rows apart) is what a model needs to settle; the parser does not
ask for it, and the lookups of `diff` find the first of two elements of one name,
so a file with two columns of one name is a migration away from itself.

`Diff` is 25 lists, one after the other: each is selected from a list of the models
and mapped (`AbsentFacts`, `RedefinedFacts`, `KeptFacts`, `OpsFacts`), or joined from
one list per table (`EachEmpty`, `EachHolds`); `DiffFacts` puts the first two theorems
together from those lists. `DiffHolds` says what the whole list holds: exactly the
operations that `IsEmitted` describes without lists, kind by kind, and in the stages'
order (`AtStage`, `UpToStage`). All rests on `Flattened`, which says what
`FlattenSeq` returns: its recursive function exists for any number of lists
(`StepsExist`) and holds what the lists hold, each by the least number for which it
would not (`LeastNumber`).

### Evolution_proofs

For any families of models that databases can hold, on the four engines:

| theorem | says | assumes of a pair |
|---|---|---|
| `NamesStayKeys` | `Spec => []TypeOK` | |
| `StructureIsCarried` | `Spec => []StructureArrives` | `Carried`, both ways for the rollback |
| `UpMaterialises` | `Spec => [](Carried(engine, from, to) /\ Plain => Materialised)` | the same, no seed rows |
| `DownRollsBack` | `Spec => [](Back /\ Plain => RolledBack)` | the same, no seed rows |

`TypeOK` needs an invariant (`Typed`) that the catalog is one (`IsCatalog`) and the
operations are of the differ's shapes (`EmittedIsShaped`, from `DiffHolds`): then each
of the 23 kinds leaves a catalog (`ExecuteTyped`).

`Carried(e, a, b)` is, in one place, what must hold for `diff`, the generator of engine
`e` and the engine to agree on a change; section 5 has an entry for each of its
conjuncts. Keys and indexes are on columns there are; a primary key does not change
and an index, raw DDL or (SQLite) a foreign key is not redefined under its name, which
the differ does not see; Postgres's ALTER COLUMN leaves the default, so that it must be
the one it was; MySQL and SQL Server create a table without its checks, and SQLite
takes none. Every pair of the run `evolve_engines` satisfies it.

Under it, the invariant `OnTheWay` says where a migration stands. `Travels` says that
some set `D` of the difference's operations is done and the list holds the others, all
of a stage not below those of `D` (`Pending`), and that each list of each table, and
each of the database, is what `D` leaves of the old model's: `Left` keeps an element
unless an operation of `D` names it, and has what operations of `D` put. `Left` does
not depend on the order within `D`, so that one step is one more operation of the set:
it is kept if the operation puts what no other puts under the name (`LeftPut`), or
drops what none has put yet (`LeftLess`). The second is where the order of the passes
comes in (`StagedByKind`): redefined keys, checks, triggers and views are all dropped
before one is added; when a column is dropped, the keys and indexes on it have gone and
none has come, so that the engine has nothing to take along (`NothingOnDropped`); after
SQLite's rebuild no other operation works on the table. With all operations done,
`Left` is the new model's list (`RedefinedDone`, `MissingDone`). A created table is
brought from what CREATE TABLE makes of it (`Base`) in the same way.

`StructureIsCarried` is about everything but rows, and holds with any seeds. Rows come
in where both models have none: then no operation touches one (`WithoutRowsInvariant`).

### Evolution_accepts_proofs

That the order of `diff`'s passes suits the engines, for the same families:

| theorem | says | assumes of a pair |
|---|---|---|
| `DiffIsOnce` | no operation is in `Diff(a, b)` twice | no seed rows |
| `SmoothIsNotRefused` | `Spec => [](... => NeverRefused)`: the engine takes each operation | `UpIsSmooth` on the way up, `DownIsSmooth` on the way down |

`Smooth(e, a, b)` is `Carried` and, beside it, what no order of the operations could
make good (`Accepted`):

- `Declared`, of both models: keys and indexes are on columns of the table and keys
  lead to tables of the model, views read a column of a table of the model and are not
  called like one, on Postgres triggers call functions of the model, on SQLite there
  are no checks. Views on views are not covered;
- no view of the new model is called like a table of the old one, since views are
  created before tables are dropped;
- `Taken`, for each table of both: what one engine or the other forbids altogether.
  Section 5 has each of them.

`DownIsSmooth` asks it both ways, and that raw DDL of the old model is still in the
new one. Every pair of `evolve_engines` without seed rows is smooth, up and down (TLC),
so that the theorem speaks of the migrations that the run looks at.

That an operation is next is not enough: the engine refuses what is there already.
`DiffIsOnce` says that the operation has not been done. A list per stage would not do
for it, since two passes of `diff.rs` share some stages (the keys and indexes of
removed tables and of kept ones): `Place` tells the passes apart, in their order, and
each place holds a list made once per table (`MadeOnce`), so that the whole list has
nothing twice (`OnceJoined`).

The invariant `Smoothly` adds to `OnTheWay` what is not on a table's way: that the
tables that are there are the old ones and those created, less those dropped
(`TablesFrom`, `TablesStay`); that dropped tables have a way too, to a table without
the keys and indexes that go first (`Bare`, `Course`); that before SQLite's rebuild a
table has its old foreign keys, and of columns and indexes those added and not those
dropped (`BeforeRebuild`); and which raw DDL has run (`RawMidway`). From it follows, kind by
kind, that the engine takes the operation: a name that comes is not there, one that
goes is there, what it refers to has been created before or was there and stays, and
what pins it has gone: keys, indexes, triggers and views that are redefined or dropped
go in passes before those of the columns, tables and functions (`TableWorkTaken`,
`CreateTableTaken`, `DropTableTaken`, `DropFunctionTaken`, `CreateViewTaken`,
`DropViewTaken`, `RawTaken`). The step (`GoingStep`) then keeps the invariant.

### What TLC alone checks

- Liveness: `EveryCommandReturns`, `RetriesSucceed`, `Heals`, `DiagnosticsArrive`.
  The prover has no rules for fairness.
- Of `Evolution`, what seed rows add to `NeverRefused`, `Materialised` and
  `RolledBack`.
- What the readers and the `.model` language compute (`Verify` as a whole), and the
  assumptions `UpsLead`, `DownsLead`, `LintCatches`, `FormatKeepsMeaning`: folds over
  lists of records, with some forty operators under them. That the run's files are
  `FilesRead` is TLC's to evaluate too. What a recursive *function* on
  numbers computes can be proved: the set of the places where a claim about it
  fails has a least element (`Least`, `AgreeFromStart` in `Authoring_proofs`,
  `LeastNumber` in `SchemaDiff_proofs`, from the library's well-foundedness of `<`),
  which is the induction that the replay of files and the lists of `Diff` need. The library's own induction theorems take an operator, which the
  prover cannot instantiate.

## 5. Where the code and its documentation disagree

Three runs are expected to find a violation; `PROJECT.json` quotes the documents.

- `migrate_ghost`: `update` reverts only migrations whose file is in the working
  copy. `--to 0` or `fresh` from a clone that lacks a file drops the table under
  a migration whose row stays: the "ghost" row that docs/migrations.md rules out.
  `--to 0` reports success all the same.
- `evolve_new_check`: MySQL, SQL Server and SQLite leave a new table's checks out
  of CREATE TABLE, and `diff` emits them for existing tables only.
- `format_views`: `format_model` carries every section of a `database.model` over to
  the text it emits except the views, so `molde fmt`, and formatting in the editor,
  delete them, and the next `migrate` writes a DROP VIEW.

Further limits met while modelling; the families and instances of the passing
runs keep them out, and widening them there shows each:

- SQLite: a foreign key and its column cannot go in one migration (the column
  goes before the rebuild); a rebuild of a table that rows refer to is refused,
  or cascades; a foreign key redefined under its name stays as it was.
- PostgreSQL: a column cannot change under an unchanged view; AlterColumn does
  not change a default.
- A column's type changes and an index, a primary key or a foreign key on it does
  not: `diff` emits the ALTER COLUMN alone (sqlserver.rs:231, mysql.rs:190,
  postgres.rs:193), with nothing dropped before and made again after. SQL Server
  refuses all three, MySQL a foreign key's two ends, and PostgreSQL those too unless
  the types still compare (counted as refused here). `Alterable` says so, and the
  families change no such column.
- SQL Server: a column with a default cannot be dropped or altered. Nor could one
  that a check constraint names; here checks name no column.
- MySQL: an index that is the only one on a foreign key's column cannot go.
- Every engine: seeds of a child whose name sorts before its parent's are
  inserted first, and refused; an index redefined under its name is no
  difference; raw DDL that leaves the model and comes back runs twice; a table that
  becomes a view of its name is still there when the view is created, which is refused.
- Replay matches seed rows by primary key, `diff` by `seed-key`: rows with a
  generated key are lost when `undo` regenerates the snapshot.
- `migrate` makes its ids grow within one checkout: a branch merged late brings a
  lower id than one already applied, and `InIdOrder` fails for two branches.
- `sync` reads in several queries outside a transaction: a migration of the source
  in between may put its history row into the target without its objects, until
  the next sync (`torn`). Views are created in the order of their names,
  PostgreSQL's functions before the tables: a view on a view whose name comes
  later, or a function in SQL on a new table, is refused.
- `CreateTable` in a replay pushes the whole table, and the operations beside it
  push its foreign keys and indexes again: after an `undo` the snapshot lists them
  twice. `RebuildIsEquivalent` compares what the lists hold.
- On MySQL, `sync` leaves out indexes and triggers of existing tables, copies the
  history rows of their migrations, and no later `apply` makes them: the target is
  not the "structural superset" of docs/team-database-workflow.md.
- PostgreSQL's functions and views (and MySQL's views) are synced with OR REPLACE:
  one that the developer made between reading and confirmation is replaced.
- Reading back: SQLite numbers foreign keys without their names; SQLite, MySQL
  and SQL Server do not read checks, views, triggers, functions, and SQL Server no
  defaults, so that models with them always drift; so do PostgreSQL columns of raw
  types (`citext`, `jsonb`, `int[]`) and defaults that are strings; MySQL does not
  give back `guid`, `date` and `time`, SQL Server not `date` and `time`; raw DDL
  always "differs"; the index MySQL makes for a foreign key that opted out is
  "extra". An identity column
  is created as `integer` by PostgreSQL's generator (postgres.rs:50) and as `int` by
  SQL Server's (sqlserver.rs:66) whatever its type, so that the `long pk identity` of
  docs/authoring-models.md:544 is reported as a column that differs by every
  `verify` of a database that molde has just made, although its "diff is then empty exactly
  when the database matches the model" (verify.rs:10) (set `Id` in `MCVerify` to `Int64` and TLC shows it: a forced
  pull then turns the model's `long` into `int`). SQLite's makes a primary key
  of one column INTEGER and drops its default (sqlite.rs:66), whatever it was.
  Primary keys, redefined indexes and extensions beyond the models are
  never reported; a redefined key, check, trigger or view is reported twice.
- Text: a foreign key whose index an explicit one covers may come back from
  emit and parse without it; `json` gives `text`; lines after one left of the
  first are ignored; blank and `#` lines in SQL are lost; a table called
  `database`, or two of one name in two schemas, share a file; a store type that
  is spelled as a logical type is read as that. A closed file's diagnostics stay.
- The workflow `init-team --ci github` writes runs `molde lint` without `--since`:
  the latest migration only. A branch with two migrations, or one whose id is
  older than the trunk's newest, merges the other unlinted (drop the premise of
  `NoSilentLoss` and TLC shows it). Lint says nothing of added checks, deleted seed
  rows and rebuilds, and `alter-column-type` is a warning, whatever the types:
  a cast that rounds (PostgreSQL's `double precision` to `integer`, `timestamp` to
  `date`) passes without `--strict`. `Changed` keeps values under a new type, as
  `int` to `text` does, which is the type the run's versions change to.
- Resolving a conflict between models and running `molde snapshot`, as
  docs/team-database-workflow.md has it, leaves migrations that do not add up, and
  the next `migrate` has nothing to say; `molde snapshot` over an edit not yet
  migrated hides it likewise. Only a CI with a database sees either, as it alone
  sees that one branch drops the table another refers to.

## 6. What is left out

- Of the runtime: the report of ids, messages, the prompts. Data loss by DDL is
  no part of `Migrator` (it is of `Evolution`).
- Of the generators: SQL text, quoting, type names, comments. Types are assumed
  convertible and new columns to suit old rows.
- Of authoring: `status`, format versions, a file half written, two commands at
  once in one checkout.
- Of sync: the text of definitions and their normalisation, the script's file,
  connection strings. Objects are not dropped from the source, nor from the
  target by its developer.
- Of team workflow and `ci`: installing driver and hook, explicit lists of files,
  `--all`, the report's file. A branch has the whole trunk merged into it when it is
  merged.
- Of the language and the readers: quoting and escapes, collations, precision and
  scale, comments, computed columns, full-text indexes.
- Of the language server: hover, completion, symbols and references, which read
  the modelled state and change none.
- Of `up`: the sequence of sync, apply and verify in one command; each is
  modelled.
- Not modelled: the database lifecycle (`db create`, `drop`, `reset`): two checks for
  existence and statements of the engine on another connection, whose atomicity is
  the engines' affair; the hazards at db.rs:131 and admin.rs:26 are listed.
  Self-update, terminal interface, argument parsing, editor extension,
  documentation site, installers: pure I/O without state of molde's own.
- Hazards without a property, each noted in `PROJECT.json`: differences `diff` does
  not look for, MySQL's index that a foreign key needs, a torn migration file, two
  `migrate` in one checkout, and the one of the database lifecycle.

## 7. The plan

Done, in this order: `MigrationLog`, `Migrator`, `Migrator_proofs`, `SchemaDiff`,
`Provider`, `Evolution`, `Authoring`, `Sync`, `Lang`, `LanguageServer`, `Reader`,
`Verify`, `Lint`, `TeamWorkflow`, `Migrator_proofs` for the trunk,
`LanguageServer_proofs`, `TeamWorkflow_proofs`, `Sync_proofs`,
`Authoring_proofs`, `SchemaDiff_proofs`, `Evolution_proofs`,
`Evolution_accepts_proofs`. What could follow:

1. `DatabaseLifecycle`: create, drop and reset with failures between their steps,
   in front of the runtime, and `up` as the sequence of sync, apply and verify.
2. Torn migration files and two authoring commands in one checkout.
3. Proofs: rows by their keys, for the seeds in `Materialised` and `NeverRefused`; parts of `UpsLead` and `LintCatches` for every model;
   `ReportsWhatWas` for readings of any length.
