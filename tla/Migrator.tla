------------------------------ MODULE Migrator ------------------------------
(***************************************************************************)
(* The runtime behind `molde apply`, `up`, `fresh` and the last step of    *)
(* `db reset`: molde-migrate's Migrator, driven by commands/apply.rs.      *)
(*                                                                         *)
(* Several molde processes work on ONE database.  A process runs a command *)
(* (a sequence of `apply` calls); each call loads the migration files,     *)
(* makes sure the history table exists, reads the applied ids ONCE, and    *)
(* then walks its files against that reading: first the ones to revert,    *)
(* newest first, then the ones to apply, oldest first, each in a           *)
(* transaction of its own.  No lock spans the reading and the walk.        *)
(*                                                                         *)
(* A migration's SQL is abstracted to its statements' effects: statement s *)
(* of m puts <<m, s>> into the schema and its `down` takes it out.         *)
(***************************************************************************)
EXTENDS Integers, FiniteSets, Sequences

CONSTANTS
    Proc,           \* molde processes
    Id,             \* migration ids; their order is the order of the files
    Label,          \* migration names, as `--to <name>` gives them
    NameOf,         \* NameOf[m]: the name of migration m
    NumStatements,  \* the number of statements of a migration's `up`
    Guarded,        \* the statements <<m, s>> that carry IF [NOT] EXISTS or
                    \* OR REPLACE
    Table,          \* tables of the schema
    TableOf,        \* TableOf[m]: the table migration m works on
    Creators,       \* the migrations that create their table
    Clones,         \* the sets of migration files a working copy may hold
    Commands,       \* the commands users run: sequences of targets
    Transactional,  \* TRUE: DDL is transactional (Postgres, SQLite, SQL
                    \* Server); FALSE: every statement commits (MySQL)
    Latest, Zero    \* the target without --to, and the target of `--to 0`

ASSUME IdAssumption == Id \subseteq Nat \ {0} /\ IsFiniteSet(Id)
ASSUME StatementAssumption ==
    /\ NumStatements \in Nat \ {0}
    /\ Guarded \subseteq Id \X (1..NumStatements)
ASSUME TableAssumption ==
    /\ NameOf \in [Id -> Label]
    /\ TableOf \in [Id -> Table]
    /\ Creators \subseteq Id
    /\ \A m, n \in Creators : TableOf[m] = TableOf[n] => m = n
ASSUME CommandAssumption ==
    /\ Clones \subseteq SUBSET Id
    /\ Commands \subseteq Seq(Id \cup Label \cup {Latest, Zero})
    /\ Latest # Zero
    /\ {Latest, Zero} \cap (Id \cup Label) = {}
    /\ Id \cap Label = {}
    /\ Transactional \in BOOLEAN

VARIABLES
    historyTable,   \* does __EFMigrationsHistory exist?
    history,        \* its committed rows
    schema,         \* the committed effects in force
    pc,             \* pc[p]: where process p is
    goals,          \* goals[p]: the targets p's command has still to reach
    disk,           \* disk[p]: the migration files p loaded
    toRevert,       \* toRevert[p]: planned reverts not yet done
    toApply,        \* toApply[p]: planned applies not yet done
    cur,            \* cur[p]: the migration of p's transaction
    dir,            \* dir[p]: "up" or "down"
    done            \* done[p]: the statements the transaction has executed

dbVars == <<historyTable, history, schema>>
planVars == <<goals, disk, toRevert, toApply>>
txVars == <<cur, dir, done>>
vars == <<dbVars, pc, planVars, txVars>>

Target == Id \cup Label \cup {Latest, Zero}
Statement == 1..NumStatements
Effect == Id \X Statement

Resting == {"idle", "ok", "error"}
InTx == {"tx", "record", "commit"}
InCall == {"ensure", "read", "walk"} \cup InTx
Place == Resting \cup {"load"} \cup InCall

TypeOK ==
    /\ historyTable \in BOOLEAN
    /\ history \subseteq Id
    /\ schema \subseteq Effect
    /\ pc \in [Proc -> Place]
    /\ goals \in [Proc -> Seq(Target)]
    /\ disk \in [Proc -> SUBSET Id]
    /\ toRevert \in [Proc -> SUBSET Id]
    /\ toApply \in [Proc -> SUBSET Id]
    /\ cur \in [Proc -> Id \cup {0}]
    /\ dir \in [Proc -> {"up", "down"}]
    /\ done \in [Proc -> SUBSET Statement]
    /\ \A p \in Proc : pc[p] \in InTx => cur[p] \in Id
    /\ \A p \in Proc : pc[p] \in InCall => goals[p] # <<>>

Init ==
    /\ historyTable = FALSE
    /\ history = {}
    /\ schema = {}
    /\ pc = [p \in Proc |-> "idle"]
    /\ goals = [p \in Proc |-> <<>>]
    /\ disk = [p \in Proc |-> {}]
    /\ toRevert = [p \in Proc |-> {}]
    /\ toApply = [p \in Proc |-> {}]
    /\ cur = [p \in Proc |-> 0]
    /\ dir = [p \in Proc |-> "up"]
    /\ done = [p \in Proc |-> {}]

-----------------------------------------------------------------------------
(* The schema as statements see it *)

Effects(m) == {m} \X Statement

OnTable(t) == {e \in Effect : TableOf[e[1]] = t}

(* CREATE TABLE is the first statement of the table's creator; the table    *)
(* exists while it is in force.                                             *)
Creates(m, s) == m \in Creators /\ s = 1

TableExists(view, m) ==
    \E c \in Creators : TableOf[c] = TableOf[m] /\ <<c, 1>> \in view

(* What is in force after statements S of m: DROP TABLE takes every effect  *)
(* on the table with it.                                                    *)
Without(view, m, S) ==
    IF \E s \in S : Creates(m, s)
    THEN view \ OnTable(TableOf[m])
    ELSE view \ ({m} \X S)

After(view, m, d, S) ==
    IF d = "up" THEN view \cup ({m} \X S) ELSE Without(view, m, S)

(* The schema as p's transaction sees it: its own statements included. *)
View(p) ==
    IF Transactional THEN After(schema, cur[p], dir[p], done[p]) ELSE schema

(* The history rows after m's own INSERT or DELETE. *)
Rows(rows, m, d) == IF d = "up" THEN rows \cup {m} ELSE rows \ {m}

(* CREATE of what exists and DROP or ALTER of what does not are errors,    *)
(* unless the statement is guarded; every other statement needs its table. *)
Executable(view, m, d, s) ==
    /\ <<m, s>> \in Guarded \/ (d = "up") = (<<m, s>> \notin view)
    /\ (d = "up" /\ Creates(m, s)) \/ TableExists(view, m)

(* DDL locks its table until the transaction ends. *)
HoldsLock(p) == pc[p] \in InTx /\ done[p] # {}

LockFree(p, t) ==
    Transactional =>
        \A q \in Proc \ {p} : HoldsLock(q) => TableOf[cur[q]] # t

-----------------------------------------------------------------------------
(* The target: none, "0", or the first file whose id or name matches. *)

Matching(files, t) == {m \in files : m = t \/ NameOf[m] = t}

Known(files, t) == t \in {Latest, Zero} \/ Matching(files, t) # {}

IsLeast(m, S) == m \in S /\ \A n \in S : m <= n
IsGreatest(m, S) == m \in S /\ \A n \in S : n <= m

(* Mutant: "0" is taken for the first migration. *)
ResolvesZeroAsFirst(files, t, b) ==
    \/ t = Latest /\ IsGreatest(b, files)
    \/ t = Zero /\ IsLeast(b, files)
    \/ t \notin {Latest, Zero} /\ IsLeast(b, Matching(files, t))

(* `b` is the id the target resolves to; "0" resolves to "", below all. *)
Resolves(files, t, b) ==
    \/ t = Latest /\ IsGreatest(b, files)
    \/ t = Zero /\ b = 0
    \/ t \notin {Latest, Zero} /\ IsLeast(b, Matching(files, t))

-----------------------------------------------------------------------------
(* One process *)

Goto(p, place) == pc' = [pc EXCEPT ![p] = place]

(* The transaction is over, committed or rolled back. *)
EndTx(p) ==
    /\ cur' = [cur EXCEPT ![p] = 0]
    /\ dir' = [dir EXCEPT ![p] = "up"]
    /\ done' = [done EXCEPT ![p] = {}]

(* The call returns an error: its files, its plan and its transaction go    *)
(* with it, and the command's remaining calls are not made.                 *)
ReturnError(p) ==
    /\ Goto(p, "error")
    /\ goals' = [goals EXCEPT ![p] = <<>>]
    /\ disk' = [disk EXCEPT ![p] = {}]
    /\ toRevert' = [toRevert EXCEPT ![p] = {}]
    /\ toApply' = [toApply EXCEPT ![p] = {}]
    /\ EndTx(p)

(* A user runs `apply [--to t]`, `up` or `fresh`. *)
Start(p) ==
    /\ pc[p] \in Resting
    /\ \E c \in Commands : goals' = [goals EXCEPT ![p] = c]
    /\ Goto(p, "load")
    /\ UNCHANGED <<dbVars, disk, toRevert, toApply, txVars>>

(* apply::run loads the files; with none it warns and returns Ok before it  *)
(* connects, and the command goes on with its next call.                    *)
LoadFiles(p) ==
    /\ pc[p] = "load"
    /\ goals[p] # <<>>
    /\ \E files \in Clones :
        \/ /\ files = {}
           /\ goals' = [goals EXCEPT ![p] = Tail(@)]
           /\ UNCHANGED <<pc, disk>>
        \/ /\ files # {}
           /\ disk' = [disk EXCEPT ![p] = files]
           /\ Goto(p, "ensure")
           /\ UNCHANGED goals
    /\ UNCHANGED <<dbVars, toRevert, toApply, txVars>>

Succeed(p) ==
    /\ pc[p] = "load"
    /\ goals[p] = <<>>
    /\ Goto(p, "ok")
    /\ UNCHANGED <<dbVars, planVars, txVars>>

(* CREATE TABLE IF NOT EXISTS, in a statement of its own. *)
EnsureHistory(p) ==
    /\ pc[p] = "ensure"
    /\ historyTable' = TRUE
    /\ Goto(p, "read")
    /\ UNCHANGED <<history, schema, planVars, txVars>>

(* Mutant: the target itself is left out of the plan. *)
ReadAppliedBelowTarget(p) ==
    /\ pc[p] = "read"
    /\ historyTable
    /\ \E bound \in Id \cup {0} :
        /\ Resolves(disk[p], Head(goals[p]), bound)
        /\ toRevert' = [toRevert EXCEPT
                ![p] = {m \in disk[p] : m > bound /\ m \in history}]
        /\ toApply' = [toApply EXCEPT
                ![p] = {m \in disk[p] : m < bound /\ m \notin history}]
    /\ Goto(p, "walk")
    /\ UNCHANGED <<dbVars, goals, disk, txVars>>

(* SELECT the applied ids, resolve the target, and fix the plan. *)
ReadApplied(p) ==
    /\ pc[p] = "read"
    /\ historyTable
    /\ \E bound \in Id \cup {0} :
        /\ Resolves(disk[p], Head(goals[p]), bound)
        /\ toRevert' = [toRevert EXCEPT
                ![p] = {m \in disk[p] : m > bound /\ m \in history}]
        /\ toApply' = [toApply EXCEPT
                ![p] = {m \in disk[p] : m <= bound /\ m \notin history}]
    /\ Goto(p, "walk")
    /\ UNCHANGED <<dbVars, goals, disk, txVars>>

TargetNotFound(p) ==
    /\ pc[p] = "read"
    /\ ~Known(disk[p], Head(goals[p]))
    /\ ReturnError(p)
    /\ UNCHANGED dbVars

Begin(p, m, d) ==
    /\ cur' = [cur EXCEPT ![p] = m]
    /\ dir' = [dir EXCEPT ![p] = d]
    /\ done' = [done EXCEPT ![p] = {}]
    /\ Goto(p, "tx")

RevertOne(p) ==
    /\ pc[p] = "walk"
    /\ \E m \in toRevert[p] :
        /\ IsGreatest(m, toRevert[p])
        /\ Begin(p, m, "down")
        /\ toRevert' = [toRevert EXCEPT ![p] = @ \ {m}]
    /\ UNCHANGED <<dbVars, goals, disk, toApply>>

(* Mutant: pending migrations are applied newest first. *)
ApplyNewest(p) ==
    /\ pc[p] = "walk"
    /\ toRevert[p] = {}
    /\ \E m \in toApply[p] :
        /\ IsGreatest(m, toApply[p])
        /\ Begin(p, m, "up")
        /\ toApply' = [toApply EXCEPT ![p] = @ \ {m}]
    /\ UNCHANGED <<dbVars, goals, disk, toRevert>>

ApplyOne(p) ==
    /\ pc[p] = "walk"
    /\ toRevert[p] = {}
    /\ \E m \in toApply[p] :
        /\ IsLeast(m, toApply[p])
        /\ Begin(p, m, "up")
        /\ toApply' = [toApply EXCEPT ![p] = @ \ {m}]
    /\ UNCHANGED <<dbVars, goals, disk, toRevert>>

(* Mutant: the call's target is dropped, but the walk does not end. *)
FinishUpdateStays(p) ==
    /\ pc[p] = "walk"
    /\ toRevert[p] = {}
    /\ toApply[p] = {}
    /\ goals' = [goals EXCEPT ![p] = Tail(@)]
    /\ UNCHANGED <<dbVars, pc, disk, toRevert, toApply, txVars>>

(* The walk is over: the call returns its report, the command goes on. *)
FinishUpdate(p) ==
    /\ pc[p] = "walk"
    /\ toRevert[p] = {}
    /\ toApply[p] = {}
    /\ goals' = [goals EXCEPT ![p] = Tail(@)]
    /\ disk' = [disk EXCEPT ![p] = {}]
    /\ Goto(p, "load")
    /\ UNCHANGED <<dbVars, toRevert, toApply, txVars>>

(* The next statement: `up` runs them in order, `down` in reverse. *)
NextStatement(p, s) ==
    IF dir[p] = "up" THEN IsLeast(s, Statement \ done[p])
                     ELSE IsGreatest(s, Statement \ done[p])

(* Mutant: the statement runs on the pool, not in the transaction. *)
ExecuteOnPool(p) ==
    /\ pc[p] = "tx"
    /\ LockFree(p, TableOf[cur[p]])
    /\ \E s \in Statement :
        /\ NextStatement(p, s)
        /\ Executable(View(p), cur[p], dir[p], s)
        /\ done' = [done EXCEPT ![p] = @ \cup {s}]
        /\ schema' = After(schema, cur[p], dir[p], {s})
        /\ Goto(p, IF done[p] \cup {s} = Statement THEN "record" ELSE "tx")
    /\ UNCHANGED <<historyTable, history, planVars, cur, dir>>

(* Mutant: the row is written after the first statement. *)
ExecuteFirstOnly(p) ==
    /\ pc[p] = "tx"
    /\ LockFree(p, TableOf[cur[p]])
    /\ \E s \in Statement :
        /\ NextStatement(p, s)
        /\ Executable(View(p), cur[p], dir[p], s)
        /\ done' = [done EXCEPT ![p] = @ \cup {s}]
        /\ schema' = IF Transactional THEN schema
                     ELSE After(schema, cur[p], dir[p], {s})
    /\ Goto(p, "record")
    /\ UNCHANGED <<historyTable, history, planVars, cur, dir>>

ExecuteStatement(p) ==
    /\ pc[p] = "tx"
    /\ LockFree(p, TableOf[cur[p]])
    /\ \E s \in Statement :
        /\ NextStatement(p, s)
        /\ Executable(View(p), cur[p], dir[p], s)
        /\ done' = [done EXCEPT ![p] = @ \cup {s}]
        /\ schema' = IF Transactional THEN schema
                     ELSE After(schema, cur[p], dir[p], {s})
        /\ Goto(p, IF done[p] \cup {s} = Statement THEN "record" ELSE "tx")
    /\ UNCHANGED <<historyTable, history, planVars, cur, dir>>

(* Mutant: a failed statement is tried again and again. *)
StatementRetries(p) ==
    /\ pc[p] = "tx"
    /\ LockFree(p, TableOf[cur[p]])
    /\ \E s \in Statement :
        /\ NextStatement(p, s)
        /\ ~Executable(View(p), cur[p], dir[p], s)
    /\ UNCHANGED vars

StatementFails(p) ==
    /\ pc[p] = "tx"
    /\ LockFree(p, TableOf[cur[p]])
    /\ \E s \in Statement :
        /\ NextStatement(p, s)
        /\ ~Executable(View(p), cur[p], dir[p], s)
    /\ ReturnError(p)
    /\ UNCHANGED dbVars

(* Mutant: the row is written on the pool, not in the transaction. *)
RecordOnPool(p) ==
    /\ pc[p] = "record"
    /\ dir[p] = "up" => cur[p] \notin history
    /\ history' = Rows(history, cur[p], dir[p])
    /\ Goto(p, "commit")
    /\ UNCHANGED <<historyTable, schema, planVars, txVars>>

(* The last statement of the transaction inserts or deletes the history    *)
(* row; the primary key refuses a second row with the same id.             *)
RecordHistory(p) ==
    /\ pc[p] = "record"
    /\ dir[p] = "up" => cur[p] \notin history
    /\ history' = IF Transactional THEN history
                  ELSE Rows(history, cur[p], dir[p])
    /\ Goto(p, "commit")
    /\ UNCHANGED <<historyTable, schema, planVars, txVars>>

DuplicateRow(p) ==
    /\ pc[p] = "record"
    /\ dir[p] = "up" /\ cur[p] \in history
    /\ ReturnError(p)
    /\ UNCHANGED dbVars

(* COMMIT makes the statements and the history row visible together. *)
MakeDurable(p) ==
    /\ schema' = View(p)
    /\ history' = IF Transactional THEN Rows(history, cur[p], dir[p])
                  ELSE history
    /\ UNCHANGED historyTable

Commit(p) ==
    /\ pc[p] = "commit"
    /\ MakeDurable(p)
    /\ EndTx(p)
    /\ Goto(p, "walk")
    /\ UNCHANGED planVars

(* The server commits and the connection is lost before the answer: the    *)
(* call returns an error although the migration is applied.                *)
CommitUnanswered(p) ==
    /\ pc[p] = "commit"
    /\ MakeDurable(p)
    /\ ReturnError(p)

(* The connection drops, the server refuses, or the process dies: `?`      *)
(* returns, the transaction is rolled back (what MySQL has committed       *)
(* stays).                                                                 *)
Fault(p) ==
    /\ pc[p] \notin Resting
    /\ ReturnError(p)
    /\ UNCHANGED dbVars

(* What the process does when nothing is taken from it. *)
Step(p) ==
    \/ LoadFiles(p)
    \/ Succeed(p)
    \/ EnsureHistory(p)
    \/ ReadApplied(p)
    \/ TargetNotFound(p)
    \/ RevertOne(p)
    \/ ApplyOne(p)
    \/ FinishUpdate(p)
    \/ ExecuteStatement(p)
    \/ StatementFails(p)
    \/ RecordHistory(p)
    \/ DuplicateRow(p)
    \/ Commit(p)

Faulty(p) == CommitUnanswered(p) \/ Fault(p)

Next == \E p \in Proc : Start(p) \/ Step(p) \/ Faulty(p)

Spec == Init /\ [][Next]_vars

(* A started process keeps running until it returns.  A statement that      *)
(* waits for a lock gets it in the end: engines queue their waiters.        *)
FairSpec ==
    Spec /\ \A p \in Proc :
        /\ WF_vars(Step(p))
        /\ SF_vars(ExecuteStatement(p) \/ StatementFails(p))

-----------------------------------------------------------------------------
(* Safety *)

(* Transactional DDL: no part of a migration is in the database without its *)
(* history row.  Breaks when a failure, a race or a crash leaves statements *)
(* of execute_all behind.                                                   *)
NoUnrecordedEffect == \A e \in schema : e[1] \in history

(* What NoUnrecordedEffect and ImplementsLog rest on, when DDL is           *)
(* transactional: two transactions never hold the same table, a row is only *)
(* written after every statement, a row about to be inserted is still       *)
(* absent, and one whose table is being dropped still present.              *)
LockInv ==
    \A p, q \in Proc :
        p # q /\ HoldsLock(p) /\ HoldsLock(q)
            => TableOf[cur[p]] # TableOf[cur[q]]

CompleteInv ==
    \A p \in Proc : pc[p] \in {"record", "commit"} => done[p] = Statement

InsertInv ==
    \A p \in Proc :
        pc[p] = "commit" /\ dir[p] = "up" => cur[p] \notin history

DropInv ==
    \A p \in Proc :
        (pc[p] \in InTx /\ dir[p] = "down" /\ 1 \in done[p])
            => (cur[p] \in Creators => cur[p] \in history)

IInv ==
    /\ TypeOK
    /\ LockInv
    /\ CompleteInv
    /\ InsertInv
    /\ DropInv
    /\ NoUnrecordedEffect

(* No ghost row: a recorded migration is in force as a whole.  Breaks when  *)
(* a row outlives its schema change, as when a revert drops the table that  *)
(* a migration unknown to this clone had altered.                           *)
NoGhostRow == \A m \in history : Effects(m) \subseteq schema

(* Migrations enter the history in the order of their ids, whatever races:  *)
(* below a recorded id nothing is missing.                                  *)
InIdOrder == \A m \in history : \A n \in Id : n < m => n \in history

(* An `update` that returns Ok has brought the database to its target, as   *)
(* far as this clone's files go, although it planned on an older reading:   *)
(* always if users only apply, and otherwise if nobody else was at work.    *)
AtTarget(files, t) ==
    LET rows == history \cap files IN
    /\ t = Latest => rows = files
    /\ t = Zero => rows = {}
    /\ t \in Id \cup Label =>
          \E m \in files : /\ IsLeast(m, Matching(files, t))
                           /\ rows = {n \in files : n <= m}

Alone(p) == \A q \in Proc \ {p} : pc[q] = "idle"

ReachesTarget ==
    [][\A p \in Proc : FinishUpdate(p) /\ (Alone(p) \/ Commands = {<<Latest>>})
         => AtTarget(disk[p], Head(goals[p]))]_vars

(* The abstract promise: a migration's change and its row come and go       *)
(* together, in one step.                                                   *)
InForce == {m \in Id : Effects(m) \subseteq schema}

FallsWith == [m \in Id |->
    IF m \in Creators THEN {n \in Id : TableOf[n] = TableOf[m]} ELSE {m}]

Log == INSTANCE MigrationLog
        WITH Falls <- FallsWith, log <- history, inForce <- InForce

ImplementsLog == Log!LogSpec

-----------------------------------------------------------------------------
(* Liveness *)

(* Every command returns: a lost race ends in an error, and no process      *)
(* waits for ever for the lock of another.                                  *)
EveryCommandReturns ==
    \A p \in Proc : pc[p] \notin Resting ~> pc[p] \in Resting

(* Once faults stop (only a statement that must fail still does), and as    *)
(* long as someone goes on applying the newest checkout, the database gets  *)
(* up to date: no failed attempt, lost race or unanswered commit leaves a   *)
(* state that blocks the next attempt.                                      *)
RetriesSucceed ==
    (/\ <>[][\A p \in Proc : Faulty(p) => Step(p)]_vars
     /\ []<>(\E p \in Proc : disk[p] = UNION Clones))
        => <>[](UNION Clones \subseteq history)
=============================================================================
