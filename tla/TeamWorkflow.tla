----------------------------- MODULE TeamWorkflow -----------------------------
(***************************************************************************)
(* A team on one trunk: developers edit .model files (one a table), run      *)
(* `molde migrate`, commit, merge the trunk into their branch and have it     *)
(* merged once `molde ci` passes.  git merges the files; the snapshot both    *)
(* sides have written goes to the merge driver `molde init-team` registers,  *)
(* which runs `molde snapshot` while the models are being merged, and then,   *)
(* when the merge has settled, to the post-merge hook.                       *)
(*                                                                         *)
(* A tree is [models, migrations, snapshot].  Models are functions from     *)
(* file names to tables or NoFile; a migration keeps the models it was       *)
(* written from and to, its "up" being their difference.  Reviewed branches  *)
(* are merged one after the other, each with the whole trunk in it.          *)
(***************************************************************************)
EXTENDS Provider, Lint

CONSTANTS
    Developers,   \* 1..n, in the order of the names their migrations have
    SetUp,        \* those who ran `molde init-team` in their clone
    FileOrder,    \* the .model files, in the order of the tables' names
    Versions,     \* file -> what developers may write there
    Gates,        \* what CI may run: [lint : "since", "latest" or "all",
                  \*                   strict, database : BOOLEAN]
    Clock,        \* the UTC seconds the clock may read
    MaxEdits      \* bound: commits' worth of edits

ASSUME TeamAssumption ==
    /\ Developers \subseteq Nat \ {0}
    /\ SetUp \subseteq Developers
    /\ Clock \subseteq Nat
    /\ MaxEdits \in Nat
    /\ FileOrder \in Seq(ToSet(FileOrder))
    /\ \A f \in ToSet(FileOrder) : [name |-> ""] \in Versions[f]

VARIABLES
    gate,    \* what this team's CI runs, one of Gates
    trunk,   \* the tree of the trunk
    work,    \* developer -> the tree in the working copy
    head,    \* developer -> the tree of the last commit
    fork,    \* developer -> the trunk's tree the branch has in it
    since,   \* developer -> the newest id where the branch began
    edits,   \* how often a model was edited
    rough    \* history: something was committed that is in no migration, or
             \* two branches had migrations of one file when they met

vars == <<gate, trunk, work, head, fork, since, edits, rough>>

File == ToSet(FileOrder)
NoFile == [name |-> ""]

Trees == {m \in [File -> UNION {Versions[f] : f \in File}] :
             \A f \in File : m[f] \in Versions[f]}

ModelOf(models) ==
    [EmptyModel EXCEPT !.tables =
        Those([i \in DOMAIN FileOrder |-> models[FileOrder[i]]],
              LAMBDA t : t # NoFile)]

(* Tables of what the migrations between two models are, and would do. *)
Ups == [from \in Trees |-> [to \in Trees |-> Diff(ModelOf(from), ModelOf(to))]]
Findings ==
    [from \in Trees |-> [to \in Trees |-> LintOperations(Ups[from][to])]]

Losing == [from \in Trees |-> [to \in Trees |->
              Loses(ModelOf(from), Ups[from][to])]]
Refused == [from \in Trees |-> [to \in Trees |->
               Refusable(ModelOf(from), Ups[from][to])]]

-----------------------------------------------------------------------------
(* Migrations *)

Before(m, n) == m.id < n.id \/ (m.id = n.id /\ m.by < n.by)
ById(migrations) ==
    [i \in 1..Cardinality(migrations) |->
        CHOOSE m \in migrations :
            Cardinality({n \in migrations : Before(n, m)}) = i - 1]
Ids(migrations) == {m.id : m \in migrations}
NewestId(migrations) == Max({0} \cup Ids(migrations))

(* Mutant: the clock alone makes the id. *)
NextIdFromClock(migrations, now) == now

NextId(migrations, now) ==
    IF NewestId(migrations) < now THEN now ELSE NewestId(migrations) + 1

Run(state, op) ==
    IF state.ok /\ Accepts(state.db, op)
    THEN [ok |-> TRUE, db |-> Execute(state.db, op)]
    ELSE [ok |-> FALSE, db |-> state.db]

Empty == [ok |-> TRUE, db |-> CatalogOf(EmptyModel)]

RunUp(state, m) == FoldLeft(Run, state, Ups[m.from][m.to])

(* A new database, all the migrations applied to it in the order of ids.    *)
Fresh(migrations) == FoldLeft(RunUp, Empty, ById(migrations))

-----------------------------------------------------------------------------
(* molde ci *)

(* Mutant: strictly newer than the base as it is now. *)
LintedNewerThanTrunk(d) ==
    {m \in head[d].migrations :
        CASE gate.lint = "since" -> m.id > NewestId(fork[d].migrations)
          [] gate.lint = "latest" ->
                m = Last(ById(head[d].migrations))
          [] gate.lint = "all" -> TRUE}

(* `molde ci` lints every migration, or those newer than --since; a plain    *)
(* `molde lint`, what init-team's CI runs, only the latest.                 *)
Linted(d) ==
    {m \in head[d].migrations :
        CASE gate.lint = "since" -> m.id > since[d]
          [] gate.lint = "latest" ->
                m = Last(ById(head[d].migrations))
          [] gate.lint = "all" -> TRUE}

CheckLint(d) ==
    \A m \in Linted(d) :
        LET found == Findings[m.from][m.to] IN
        IF gate.strict THEN found = {} ELSE found \cap Destructive = {}

CheckSnapshot(tree) == tree.snapshot = tree.models

(* The model read from a catalog, as far as these models go. *)
Live(catalog) ==
    LET named(f) == {t \in catalog.tables : t.name = f}
        read(t) == [name |-> t.name, columns |-> SetToSeq(t.columns),
                    pk |-> t.pk, fks |-> SetToSeq(t.fks), checks |-> <<>>,
                    indexes |-> SetToSeq(t.indexes), triggers |-> <<>>,
                    seed |-> <<>>, seedKey |-> {}] IN
    ModelOf([f \in File |->
        IF named(f) = {} THEN NoFile
        ELSE read(CHOOSE t \in named(f) : TRUE)])

(* Mutant: a database that cannot be migrated is skipped. *)
CheckVerifySkipped(tree) ==
    ~gate.database \/
        LET fresh == Fresh(tree.migrations) IN
        fresh.ok => Diff(Live(fresh.db), ModelOf(tree.models)) = <<>>

CheckVerify(tree) ==
    ~gate.database \/
        LET fresh == Fresh(tree.migrations) IN
        fresh.ok /\ Diff(Live(fresh.db), ModelOf(tree.models)) = <<>>

Passes(d) ==
    /\ CheckLint(d)
    /\ CheckSnapshot(head[d])
    /\ CheckVerify(head[d])

-----------------------------------------------------------------------------
(* The developers *)

Init ==
    /\ gate \in Gates
    /\ \E m \in Trees :
          /\ m # [f \in File |-> NoFile]
          /\ FoldLeft(Run, Empty, Ups[[f \in File |-> NoFile]][m]).ok
          /\ trunk =
                [models |-> m, snapshot |-> m,
                 migrations |->
                    {[id |-> 1, by |-> 0, from |-> [f \in File |-> NoFile],
                      to |-> m]}]
    /\ work = [d \in Developers |-> trunk]
    /\ head = work
    /\ fork = work
    /\ since = [d \in Developers |-> 1]
    /\ edits = 0
    /\ rough = FALSE

(* A file is created, rewritten or deleted; all that happens to one between *)
(* two commits is one edit.                                                 *)
Edit(d) ==
    /\ edits < MaxEdits
    /\ work[d].models = head[d].models
    /\ \E f \in File : \E t \in Versions[f] \ {work[d].models[f]} :
          work' = [work EXCEPT ![d].models[f] = t]
    /\ edits' = edits + 1
    /\ UNCHANGED <<gate, trunk, head, fork, since, rough>>

(* `molde migrate`; Authoring has its steps. *)
Migrate(d, now) ==
    LET tree == work[d] IN
    /\ tree.models # tree.snapshot
    /\ work' = [work EXCEPT ![d] =
          [models |-> tree.models, snapshot |-> tree.models,
           migrations |-> tree.migrations \cup
              {[id |-> NextId(tree.migrations, now), by |-> d,
                from |-> tree.snapshot, to |-> tree.models]}]]
    /\ UNCHANGED <<gate, trunk, head, fork, since, edits, rough>>

(* `molde snapshot`. *)
Snapshot(d) ==
    /\ work[d].snapshot # work[d].models
    /\ work' = [work EXCEPT ![d].snapshot = work[d].models]
    /\ rough' = TRUE
    /\ UNCHANGED <<gate, trunk, head, fork, since, edits>>

Commit(d) ==
    /\ work[d] # head[d]
    /\ head' = [head EXCEPT ![d] = work[d]]
    /\ rough' = (rough \/ ~CheckSnapshot(work[d]))
    /\ UNCHANGED <<gate, trunk, work, fork, since, edits>>

-----------------------------------------------------------------------------
(* Merging the trunk *)

Ours(d, f) == head[d].models[f] # fork[d].models[f]
Theirs(d, f) == trunk.models[f] # fork[d].models[f]
Conflicts(d) ==
    {f \in File : /\ Ours(d, f) /\ Theirs(d, f)
                  /\ head[d].models[f] # trunk.models[f]}

(* File by file; where both have changed one, by hand. *)
Merged(d) ==
    {m \in Trees : \A f \in File :
        m[f] \in IF f \in Conflicts(d)
                 THEN {head[d].models[f], trunk.models[f]}
                 ELSE IF Theirs(d, f) THEN {trunk.models[f]}
                 ELSE {head[d].models[f]}}

(* What the driver may find in the working copy: files the merge has        *)
(* written, and those it has not yet.                                       *)
MidMerge(d, merged) ==
    {m \in Trees : \A f \in File : m[f] \in {head[d].models[f], merged[f]}}

MergedSnapshots(d, merged) ==
    CASE head[d].snapshot \in {fork[d].snapshot, trunk.snapshot} ->
            {trunk.snapshot}
      [] trunk.snapshot = fork[d].snapshot -> {head[d].snapshot}
      [] OTHER -> IF d \in SetUp THEN MidMerge(d, merged) ELSE {merged}

(* Mutant: the hook is not installed. *)
PostMergeNot(d, tree) == tree

(* The hook: `molde snapshot`, staged and not committed. *)
PostMerge(d, tree) ==
    IF d \in SetUp THEN [tree EXCEPT !.snapshot = tree.models] ELSE tree

Touched(m) == {f \in File : m.from[f] # m.to[f]}

(* No file has migrations both on the branch and, since it began, on the    *)
(* trunk.                                                                   *)
Apart(d) ==
    \A m \in head[d].migrations \ fork[d].migrations,
       n \in trunk.migrations \ fork[d].migrations :
          Touched(m) \cap Touched(n) = {}

(* The branch has nothing of its own: it is moved to the trunk.             *)
FastForward(d) ==
    /\ head[d] = fork[d]
    /\ head' = [head EXCEPT ![d] = trunk]
    /\ work' = [work EXCEPT ![d] = PostMerge(d, trunk)]
    /\ since' = [since EXCEPT ![d] = NewestId(trunk.migrations)]
    /\ UNCHANGED rough

MergeFiles(d) ==
    /\ head[d] # fork[d]
    /\ Conflicts(d) = {}
    /\ \E merged \in Merged(d) : \E snapshot \in MergedSnapshots(d, merged) :
          LET tree == [models |-> merged, snapshot |-> snapshot,
                       migrations |-> head[d].migrations
                                        \cup trunk.migrations] IN
          /\ head' = [head EXCEPT ![d] = tree]
          /\ work' = [work EXCEPT ![d] = PostMerge(d, tree)]
    /\ rough' = (rough \/ ~Apart(d))
    /\ UNCHANGED since

(* The text of the conflicting models is resolved, then `molde snapshot`    *)
(* run by hand: no hook runs after a merge that stopped.                    *)
MergeByHand(d) ==
    /\ Conflicts(d) # {}
    /\ \E merged \in Merged(d) :
          LET tree == [models |-> merged, snapshot |-> merged,
                       migrations |-> head[d].migrations
                                        \cup trunk.migrations] IN
          /\ head' = [head EXCEPT ![d] = tree]
          /\ work' = [work EXCEPT ![d] = tree]
    /\ rough' = TRUE
    /\ UNCHANGED since

Merge(d) ==
    /\ work[d] = head[d]
    /\ fork[d] # trunk
    /\ FastForward(d) \/ MergeFiles(d) \/ MergeByHand(d)
    /\ fork' = [fork EXCEPT ![d] = trunk]
    /\ UNCHANGED <<gate, trunk, edits>>

(* The branch has the whole trunk in it and passes. *)
MergeToTrunk(d) ==
    /\ head[d] # fork[d]
    /\ fork[d] = trunk
    /\ Passes(d)
    /\ trunk' = head[d]
    /\ fork' = [fork EXCEPT ![d] = head[d]]
    /\ since' = [since EXCEPT ![d] = NewestId(head[d].migrations)]
    /\ UNCHANGED <<gate, work, head, edits, rough>>

Next ==
    \E d \in Developers :
        \/ Edit(d)
        \/ \E now \in Clock : Migrate(d, now)
        \/ Snapshot(d)
        \/ Commit(d)
        \/ Merge(d)
        \/ MergeToTrunk(d)

Spec == Init /\ [][Next]_vars

-----------------------------------------------------------------------------
(* Properties *)

Migration == [id : Nat, by : {0} \cup Developers, from : Trees, to : Trees]
Tree == [models : Trees, migrations : SUBSET Migration, snapshot : Trees]

NamesUnique(migrations) ==
    \A m, n \in migrations : m.id = n.id /\ m.by = n.by => m = n

(* The state's types; no two migrations ever have one file name, the key of *)
(* the history.                                                             *)
TypeOK ==
    /\ gate \in Gates
    /\ trunk \in Tree
    /\ work \in [Developers -> Tree]
    /\ head \in [Developers -> Tree]
    /\ fork \in [Developers -> Tree]
    /\ since \in [Developers -> Nat]
    /\ NamesUnique(trunk.migrations)
    /\ \A d \in Developers : /\ NamesUnique(work[d].migrations)
                             /\ since[d] \in Ids(head[d].migrations)
    /\ edits \in 0..MaxEdits
    /\ rough \in BOOLEAN

Touching(migrations, f) == {m \in migrations : f \in Touched(m)}

(* What a file is after the last of these migrations. *)
EndOf(migrations, f) ==
    IF migrations = {} THEN NoFile
    ELSE (CHOOSE m \in migrations :
              \A n \in migrations : ~Before(m, n)).to[f]

(* The migrations of a file are a chain, in the order of their ids: each    *)
(* begins at the version those before it ended at, and they end at the file *)
(* as these models have it.                                                 *)
ChainTo(migrations, models) ==
    \A f \in File :
        LET chain == Touching(migrations, f) IN
        /\ \A m \in chain :
              m.from[f] = EndOf({n \in chain : Before(n, m)}, f)
        /\ models[f] = EndOf(chain, f)

(* What is on the trunk adds up to its models.  For a team that commits no  *)
(* change without its migration, and whose branches never meet with          *)
(* migrations of one file, it does whatever the clocks, the merges and the  *)
(* order in which branches are merged.                                      *)
TrunkAddsUp == ~rough => ChainTo(trunk.migrations, trunk.models)

(* A CI with a database ensures more, whatever the team does: the            *)
(* migrations apply to a new database and build what the models describe.    *)
TrunkBuilds ==
    gate.database =>
        Fresh(trunk.migrations) =
            [ok |-> TRUE, db |-> CatalogOf(ModelOf(trunk.models))]

(* `molde migrate` writes what that developer has changed since the last     *)
(* commit, all of it and nobody else's: for a team that goes by the book,    *)
(* whatever was merged before it, the driver's snapshot of a half-merged     *)
(* tree included, which is committed until the hook's is.                   *)
OwnChanges ==
    [][ ~rough =>
          \A d \in Developers :
              \A m \in work'[d].migrations
                          \ (work[d].migrations \cup trunk.migrations) :
                  Touched(m) =
                      {f \in File : work[d].models[f] # head[d].models[f]} ]_vars

(* What a developer writes of a file that is there. *)
Written(f) == Versions[f] \ {NoFile}

(* A list in which the names tell what is what. *)
NamesTell(list) ==
    /\ list \in Seq(ToSet(list))
    /\ \A x, y \in ToSet(list) : x.name = y.name => x = y

(* A column, of a type that needs no extension. *)
IsColumn(c) ==
    /\ c = [a \in DOMAIN c |-> c[a]] /\ {"name", "type", "default"} \subseteq DOMAIN c
    /\ c.type # "vector"

(* What the gate is trusted with: the files of a team for which no difference *)
(* left is no difference at all.  Tables of columns, keys and indexes told   *)
(* apart by their names, without what the differ does not see or never       *)
(* takes away: a primary key that changes, an index redefined under its name, *)
(* an extension that is not needed any more.                                *)
FilesRead ==
    \A f \in File : \A t \in Written(f) :
        /\ f # "" /\ t.name = f
        /\ t.checks = <<>> /\ t.triggers = <<>> /\ t.seed = <<>>
        /\ NamesTell(t.columns) /\ NamesTell(t.fks) /\ NamesTell(t.indexes)
        /\ \A c \in ToSet(t.columns) : IsColumn(c)
        /\ \A u \in Written(f) :
              /\ u.pk = t.pk
              /\ \A i \in ToSet(t.indexes) : \A j \in ToSet(u.indexes) :
                    i.name = j.name => i = j

(* What lint is trusted with: it finds every "up" that can lose a value      *)
(* destructive, and says something of every one a database may refuse.      *)
LintCatches ==
    \A from, to \in Trees :
        /\ Losing[from][to] => Findings[from][to] \cap Destructive # {}
        /\ Refused[from][to] => Findings[from][to] # {}

(* Nothing is lost unawares: a migration that can take values from a         *)
(* database with rows does not reach the trunk without CI reporting it, and  *)
(* under --strict none does that such a database may refuse, wherever its id *)
(* lies among those the trunk has gained meanwhile.  It takes `molde ci`,     *)
(* told where the branch began or not: linting only the latest migration, as *)
(* `molde lint` does and so init-team's CI, lets through what a branch has   *)
(* besides it.                                                              *)
NoSilentLoss ==
    gate.lint \in {"since", "all"} =>
        \A m \in trunk.migrations :
            m.by # 0 =>
                /\ ~Losing[m.from][m.to]
                /\ gate.strict => ~Refused[m.from][m.to]
=============================================================================
