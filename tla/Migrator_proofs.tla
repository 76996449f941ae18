-------------------------- MODULE Migrator_proofs --------------------------
(***************************************************************************)
(* Theorems about Migrator, for any number of processes, migrations,       *)
(* statements and tables, any commands and any working copies.             *)
(***************************************************************************)
EXTENDS Migrator, TLAPS

-----------------------------------------------------------------------------
(* Types *)

LEMMA StatementType == Statement \subseteq Nat /\ 1 \in Statement
BY StatementAssumption DEF Statement

LEMMA ReturnErrorType ==
    ASSUME TypeOK, NEW p \in Proc, ReturnError(p), UNCHANGED historyTable,
           history' \subseteq Id, schema' \subseteq Effect
    PROVE  TypeOK'
<1>1. pc' \in [Proc -> Place] /\ pc'[p] \notin InCall
      /\ \A q \in Proc \ {p} :
            pc'[q] = pc[q] /\ cur'[q] = cur[q] /\ goals'[q] = goals[q]
  BY DEF TypeOK, ReturnError, Goto, EndTx, Place, Resting, InCall, InTx
<1>2. goals' \in [Proc -> Seq(Target)]
  BY DEF TypeOK, ReturnError
<1>3. /\ disk' \in [Proc -> SUBSET Id]
      /\ toRevert' \in [Proc -> SUBSET Id]
      /\ toApply' \in [Proc -> SUBSET Id]
      /\ cur' \in [Proc -> Id \cup {0}]
      /\ dir' \in [Proc -> {"up", "down"}]
      /\ done' \in [Proc -> SUBSET Statement]
  BY DEF TypeOK, ReturnError, EndTx
<1> QED
  BY <1>1, <1>2, <1>3 DEF TypeOK, InCall

LEMMA MakeDurableType ==
    ASSUME TypeOK, NEW p \in Proc, pc[p] = "commit", MakeDurable(p)
    PROVE  history' \subseteq Id /\ schema' \subseteq Effect
<1>1. cur[p] \in Id /\ done[p] \subseteq Statement /\ dir[p] \in {"up", "down"}
  BY DEF TypeOK, InTx
<1>2. schema' \subseteq Effect
  BY <1>1 DEF TypeOK, MakeDurable, View, After, Without, Effect
<1>3. history' \subseteq Id
  BY <1>1 DEF TypeOK, MakeDurable, Rows
<1> QED
  BY <1>2, <1>3

(* Every operation preserves the types. *)
LEMMA TypeStep == TypeOK /\ [Next]_vars => TypeOK'
<1> USE DEF dbVars, planVars, txVars
<1> SUFFICES ASSUME TypeOK, [Next]_vars PROVE TypeOK'
  OBVIOUS
<1>1. ASSUME NEW p \in Proc, Start(p) PROVE TypeOK'
  BY <1>1, CommandAssumption
  DEF TypeOK, Start, Goto, Place, Resting, InCall, InTx, Target
<1>2. ASSUME NEW p \in Proc, LoadFiles(p) PROVE TypeOK'
  <2>1. goals[p] \in Seq(Target) /\ goals[p] # <<>>
    BY <1>2 DEF TypeOK, LoadFiles
  <2>2. Tail(goals[p]) \in Seq(Target)
    BY <2>1
  <2>3. PICK files \in Clones :
          \/ /\ goals' = [goals EXCEPT ![p] = Tail(@)]
             /\ UNCHANGED <<pc, disk>>
          \/ /\ disk' = [disk EXCEPT ![p] = files]
             /\ Goto(p, "ensure")
             /\ UNCHANGED goals
    BY <1>2 DEF LoadFiles
  <2>4. files \subseteq Id
    BY CommandAssumption
  <2> QED
    BY <1>2, <2>2, <2>3, <2>4
    DEF TypeOK, LoadFiles, Goto, Place, Resting, InCall, InTx
<1>3. ASSUME NEW p \in Proc, Succeed(p) PROVE TypeOK'
  BY <1>3 DEF TypeOK, Succeed, Goto, Place, Resting, InCall, InTx
<1>4. ASSUME NEW p \in Proc, EnsureHistory(p) PROVE TypeOK'
  BY <1>4 DEF TypeOK, EnsureHistory, Goto, Place, Resting, InCall, InTx
<1>5. ASSUME NEW p \in Proc, ReadApplied(p) PROVE TypeOK'
  BY <1>5 DEF TypeOK, ReadApplied, Goto, Place, Resting, InCall, InTx
<1>6. ASSUME NEW p \in Proc, ReturnError(p), UNCHANGED dbVars PROVE TypeOK'
  BY <1>6, ReturnErrorType DEF TypeOK
<1>7. ASSUME NEW p \in Proc, RevertOne(p) PROVE TypeOK'
  BY <1>7 DEF TypeOK, RevertOne, Begin, Goto, Place, Resting, InCall, InTx
<1>8. ASSUME NEW p \in Proc, ApplyOne(p) PROVE TypeOK'
  BY <1>8 DEF TypeOK, ApplyOne, Begin, Goto, Place, Resting, InCall, InTx
<1>9. ASSUME NEW p \in Proc, FinishUpdate(p) PROVE TypeOK'
  <2>1. goals[p] \in Seq(Target) /\ goals[p] # <<>>
    BY <1>9 DEF TypeOK, FinishUpdate, InCall
  <2>2. Tail(goals[p]) \in Seq(Target)
    BY <2>1
  <2> QED
    BY <1>9, <2>2 DEF TypeOK, FinishUpdate, Goto, Place, Resting, InCall, InTx
<1>10. ASSUME NEW p \in Proc, ExecuteStatement(p) PROVE TypeOK'
  <2>1. PICK s \in Statement :
          /\ done' = [done EXCEPT ![p] = @ \cup {s}]
          /\ schema' = IF Transactional THEN schema
                       ELSE After(schema, cur[p], dir[p], {s})
          /\ Goto(p, IF done[p] \cup {s} = Statement THEN "record" ELSE "tx")
    BY <1>10 DEF ExecuteStatement
  <2>2. cur[p] \in Id
    BY <1>10 DEF TypeOK, ExecuteStatement, InTx
  <2>3. schema' \subseteq Effect
    BY <2>1, <2>2 DEF TypeOK, After, Without, Effect
  <2>4. done' \in [Proc -> SUBSET Statement]
    BY <2>1 DEF TypeOK
  <2>5. PICK place \in {"record", "tx"} : pc' = [pc EXCEPT ![p] = place]
    BY <2>1 DEF Goto
  <2>6. /\ pc[p] = "tx" /\ pc[p] \in InTx /\ pc[p] \in InCall
        /\ UNCHANGED <<historyTable, history, goals, disk, toRevert, toApply, cur, dir>>
    BY <1>10 DEF ExecuteStatement, InTx, InCall
  <2>7. pc' \in [Proc -> Place] /\ \A q \in Proc \ {p} : pc'[q] = pc[q]
    BY <2>5 DEF TypeOK, Place, InCall, InTx
  <2>8. \A q \in Proc : /\ pc'[q] \in InTx => cur'[q] \in Id
                        /\ pc'[q] \in InCall => goals'[q] # <<>>
    BY <2>2, <2>6, <2>7 DEF TypeOK
  <2> QED
    BY <2>3, <2>4, <2>6, <2>7, <2>8 DEF TypeOK
<1>11. ASSUME NEW p \in Proc, RecordHistory(p) PROVE TypeOK'
  <2>1. cur[p] \in Id
    BY <1>11 DEF TypeOK, RecordHistory, InTx
  <2> QED
    BY <1>11, <2>1
    DEF TypeOK, RecordHistory, Rows, Goto, Place, Resting, InCall, InTx
<1>12. ASSUME NEW p \in Proc, Commit(p) PROVE TypeOK'
  <2>1. history' \subseteq Id /\ schema' \subseteq Effect
    BY <1>12, MakeDurableType DEF Commit
  <2> QED
    BY <1>12, <2>1
    DEF TypeOK, Commit, MakeDurable, EndTx, Goto, Place, Resting, InCall, InTx
<1>13. ASSUME NEW p \in Proc, CommitUnanswered(p) PROVE TypeOK'
  BY <1>13, MakeDurableType, ReturnErrorType
  DEF CommitUnanswered, MakeDurable
<1>14. CASE UNCHANGED vars
  BY <1>14 DEF TypeOK, vars
<1> QED
  BY <1>1, <1>2, <1>3, <1>4, <1>5, <1>6, <1>7, <1>8, <1>9, <1>10, <1>11, <1>12,
     <1>13, <1>14
  DEF Next, Step, Faulty, TargetNotFound, StatementFails, DuplicateRow, Fault

LEMMA InitType == ASSUME Init PROVE TypeOK
<1>1. goals \in [Proc -> Seq(Target)]
  <2>1. <<>> \in Seq(Target)
    OBVIOUS
  <2> QED
    BY <2>1 DEF Init
<1>2. pc \in [Proc -> Place] /\ \A p \in Proc : pc[p] \notin InCall \cup InTx
  BY DEF Init, Place, Resting, InCall, InTx
<1>3. /\ disk \in [Proc -> SUBSET Id]
      /\ toRevert \in [Proc -> SUBSET Id]
      /\ toApply \in [Proc -> SUBSET Id]
      /\ cur \in [Proc -> Id \cup {0}]
      /\ dir \in [Proc -> {"up", "down"}]
      /\ done \in [Proc -> SUBSET Statement]
  BY DEF Init
<1> QED
  BY <1>1, <1>2, <1>3 DEF Init, TypeOK

(* TypeOK holds of every behaviour: no operation leaves the state space the *)
(* other theorems and the runs work in.                                     *)
THEOREM TypeCorrect == Spec => []TypeOK
<1>1. Init => TypeOK
  BY InitType
<1>2. TypeOK /\ [Next]_vars => TypeOK'
  BY TypeStep
<1> QED
  BY <1>1, <1>2, PTL DEF Spec

-----------------------------------------------------------------------------
(* Transactional DDL: nothing in the schema without its history row *)

(* The conjuncts of IInv that speak of transactions. *)
TxInv == LockInv /\ CompleteInv /\ InsertInv /\ DropInv

(* A step that leaves the database alone and takes p out of its transaction *)
(* or opens one with nothing done cannot break them.                        *)
LEMMA QuietStep ==
    ASSUME TypeOK, TxInv, NEW p \in Proc, history' = history,
           \A q \in Proc : q # p =>
              /\ pc'[q] = pc[q] /\ cur'[q] = cur[q]
              /\ dir'[q] = dir[q] /\ done'[q] = done[q],
           pc'[p] \notin InTx \/ (pc'[p] = "tx" /\ done'[p] = {})
    PROVE  TxInv'
<1>1. \A q \in Proc : HoldsLock(q)' => q # p /\ HoldsLock(q)
  BY DEF HoldsLock
<1>2. LockInv'
  BY <1>1 DEF TxInv, LockInv
<1>3. CompleteInv' /\ InsertInv'
  BY DEF TxInv, CompleteInv, InsertInv, InTx
<1>4. DropInv'
  BY DEF TxInv, DropInv, InTx
<1> QED
  BY <1>2, <1>3, <1>4 DEF TxInv

(* Committing p's transaction removes no row and adds none that another    *)
(* transaction counts on: that one would have to hold the same table.      *)
LEMMA CommitTx ==
    ASSUME Transactional, TypeOK, TxInv, NEW p \in Proc, pc[p] = "commit",
           MakeDurable(p),
           \A q \in Proc : q # p =>
              /\ pc'[q] = pc[q] /\ cur'[q] = cur[q]
              /\ dir'[q] = dir[q] /\ done'[q] = done[q],
           pc'[p] \notin InTx
    PROVE  TxInv'
<1>1. HoldsLock(p) /\ done[p] = Statement
  BY StatementType DEF TxInv, CompleteInv, HoldsLock, InTx
<1>2. \A q \in Proc : HoldsLock(q)' => q # p /\ HoldsLock(q)
  BY DEF HoldsLock
<1>3. ASSUME NEW q \in Proc \ {p}, HoldsLock(q)
      PROVE  cur[q] \in history' <=> cur[q] \in history
  <2>1. cur[q] # cur[p]
    BY <1>1, <1>3 DEF TxInv, LockInv
  <2> QED
    BY <2>1 DEF MakeDurable, Rows
<1>4. LockInv'
  BY <1>2 DEF TxInv, LockInv
<1>5. CompleteInv'
  BY DEF TxInv, CompleteInv, InTx
<1>6. InsertInv'
  <2> SUFFICES ASSUME NEW q \in Proc, pc'[q] = "commit", dir'[q] = "up"
               PROVE  cur'[q] \notin history'
    BY DEF InsertInv
  <2>1. q # p /\ pc[q] = "commit" /\ dir[q] = "up" /\ cur'[q] = cur[q]
    BY DEF InTx
  <2>2. HoldsLock(q)
    BY <2>1, StatementType DEF TxInv, CompleteInv, HoldsLock, InTx
  <2> QED
    BY <1>3, <2>1, <2>2 DEF TxInv, InsertInv
<1>7. DropInv'
  <2> SUFFICES ASSUME NEW q \in Proc, pc'[q] \in InTx, dir'[q] = "down",
                      1 \in done'[q], cur'[q] \in Creators
               PROVE  cur'[q] \in history'
    BY DEF DropInv
  <2>1. q # p /\ HoldsLock(q) /\ cur'[q] = cur[q] /\ cur[q] \in history
    BY DEF TxInv, DropInv, HoldsLock
  <2> QED
    BY <1>3, <2>1
<1> QED
  BY <1>4, <1>5, <1>6, <1>7 DEF TxInv

(* What a commit makes durable carries its history row. *)
LEMMA CommitRecords ==
    ASSUME Transactional, TypeOK, CompleteInv, NoUnrecordedEffect,
           NEW p \in Proc, pc[p] = "commit", MakeDurable(p)
    PROVE  NoUnrecordedEffect'
<1>1. done[p] = Statement /\ cur[p] \in Id /\ dir[p] \in {"up", "down"}
  BY DEF CompleteInv, TypeOK, InTx
<1>2. CASE dir[p] = "up"
  BY <1>1, <1>2 DEF MakeDurable, Rows, View, After, NoUnrecordedEffect
<1>3. CASE dir[p] = "down"
  <2>1. \A e \in schema' : e \in schema /\ e \in Effect
    BY <1>3 DEF MakeDurable, View, After, Without, TypeOK
  <2>2. \A e \in schema' : e[1] # cur[p]
    <3> SUFFICES ASSUME NEW e \in schema', e[1] = cur[p] PROVE FALSE
      OBVIOUS
    <3>1. e \in Effect /\ e = <<e[1], e[2]>> /\ e[2] \in Statement
      BY <2>1 DEF Effect
    <3>2. e \in {cur[p]} \X Statement /\ e \in OnTable(TableOf[cur[p]])
      BY <3>1 DEF OnTable
    <3> QED
      BY <1>1, <1>3, <3>2 DEF MakeDurable, View, After, Without
  <2> QED
    BY <1>3, <2>1, <2>2 DEF MakeDurable, Rows, NoUnrecordedEffect
<1> QED
  BY <1>1, <1>2, <1>3

(* Only a commit changes the tables of the database: every other step       *)
(* leaves history and schema as they are.                                   *)
LEMMA InvStep == Transactional /\ IInv /\ [Next]_vars => IInv'
<1> USE DEF dbVars, planVars, txVars
<1> SUFFICES ASSUME Transactional, IInv, [Next]_vars PROVE IInv'
  OBVIOUS
<1>1. TypeOK /\ TxInv /\ NoUnrecordedEffect /\ TypeOK'
  BY TypeStep DEF IInv, TxInv
<1>2. ASSUME TxInv', NoUnrecordedEffect' PROVE IInv'
  BY <1>1, <1>2 DEF IInv, TxInv
<1>3. ASSUME history' = history, schema' = schema PROVE NoUnrecordedEffect'
  BY <1>1, <1>3 DEF NoUnrecordedEffect
<1>4. ASSUME NEW p \in Proc,
             Start(p) \/ LoadFiles(p) \/ Succeed(p) \/ EnsureHistory(p)
               \/ ReadApplied(p) \/ FinishUpdate(p)
      PROVE  IInv'
  <2>1. /\ UNCHANGED <<history, schema, cur, dir, done>>
        /\ \A q \in Proc : q # p => pc'[q] = pc[q]
        /\ pc'[p] \notin InTx
    BY <1>1, <1>4
    DEF TypeOK, Start, LoadFiles, Succeed, EnsureHistory, ReadApplied,
        FinishUpdate, Goto, Resting, InTx
  <2>2. TxInv'
    BY <1>1, <2>1, QuietStep
  <2> QED
    BY <1>2, <1>3, <2>1, <2>2
<1>5. ASSUME NEW p \in Proc, ReturnError(p), UNCHANGED dbVars PROVE IInv'
  <2>1. /\ \A q \in Proc : q # p =>
              /\ pc'[q] = pc[q] /\ cur'[q] = cur[q]
              /\ dir'[q] = dir[q] /\ done'[q] = done[q]
        /\ pc'[p] \notin InTx
    BY <1>1, <1>5 DEF TypeOK, ReturnError, EndTx, Goto, InTx
  <2>2. TxInv'
    BY <1>1, <1>5, <2>1, QuietStep
  <2> QED
    BY <1>2, <1>3, <1>5, <2>2
<1>6. ASSUME NEW p \in Proc, RevertOne(p) \/ ApplyOne(p) PROVE IInv'
  <2>1. /\ UNCHANGED <<history, schema>>
        /\ \A q \in Proc : q # p =>
              /\ pc'[q] = pc[q] /\ cur'[q] = cur[q]
              /\ dir'[q] = dir[q] /\ done'[q] = done[q]
        /\ pc'[p] = "tx" /\ done'[p] = {}
    BY <1>1, <1>6 DEF TypeOK, RevertOne, ApplyOne, Begin, Goto
  <2>2. TxInv'
    BY <1>1, <2>1, QuietStep
  <2> QED
    BY <1>2, <1>3, <2>1, <2>2
<1>7. ASSUME NEW p \in Proc, ExecuteStatement(p) PROVE IInv'
  <2>1. PICK s \in Statement :
          /\ NextStatement(p, s)
          /\ Executable(View(p), cur[p], dir[p], s)
          /\ done' = [done EXCEPT ![p] = @ \cup {s}]
          /\ schema' = schema
          /\ Goto(p, IF done[p] \cup {s} = Statement THEN "record" ELSE "tx")
    BY <1>7 DEF ExecuteStatement
  <2>2. /\ pc[p] = "tx" /\ cur[p] \in Id
        /\ history' = history /\ cur' = cur /\ dir' = dir
        /\ \A q \in Proc : q # p => pc'[q] = pc[q] /\ done'[q] = done[q]
        /\ pc'[p] \in {"record", "tx"}
        /\ pc'[p] = "record" => done'[p] = Statement
        /\ done'[p] = done[p] \cup {s}
        /\ \A q \in Proc : q # p /\ HoldsLock(q) => TableOf[cur[q]] # TableOf[cur[p]]
    BY <1>1, <1>7, <2>1 DEF TypeOK, ExecuteStatement, Goto, InTx, LockFree
  <2>3. LockInv'
    BY <1>1, <2>2 DEF TxInv, LockInv, HoldsLock
  <2>4. CompleteInv' /\ InsertInv'
    BY <1>1, <2>2 DEF TxInv, CompleteInv, InsertInv
  <2>5. ASSUME dir[p] = "down", 1 \in done'[p], cur[p] \in Creators
        PROVE  cur[p] \in history
    <3>1. CASE 1 \in done[p]
      BY <1>1, <2>2, <2>5, <3>1 DEF TxInv, DropInv, InTx
    <3>2. CASE 1 \notin done[p]
      <4>1. s = 1 /\ TableExists(View(p), cur[p])
        BY <2>1, <2>2, <2>5, <3>2 DEF Executable
      <4>2. <<cur[p], 1>> \in View(p)
        BY <2>5, <4>1, TableAssumption DEF TableExists
      <4>3. <<cur[p], 1>> \in schema
        BY <2>5, <4>2 DEF View, After, Without
      <4> QED
        BY <1>1, <4>3 DEF NoUnrecordedEffect
    <3> QED
      BY <3>1, <3>2
  <2>6. DropInv'
    BY <1>1, <2>2, <2>5 DEF TxInv, DropInv, InTx
  <2> QED
    BY <1>2, <1>3, <2>1, <2>2, <2>3, <2>4, <2>6 DEF TxInv
<1>8. ASSUME NEW p \in Proc, RecordHistory(p) PROVE IInv'
  <2>1. /\ UNCHANGED <<history, schema, cur, dir, done>>
        /\ \A q \in Proc : q # p => pc'[q] = pc[q]
        /\ pc[p] = "record" /\ pc'[p] = "commit"
        /\ dir[p] = "up" => cur[p] \notin history
    BY <1>1, <1>8 DEF TypeOK, RecordHistory, Goto
  <2>2. LockInv' /\ CompleteInv' /\ InsertInv' /\ DropInv'
    BY <1>1, <2>1
    DEF TxInv, LockInv, CompleteInv, InsertInv, DropInv, HoldsLock, InTx
  <2> QED
    BY <1>2, <1>3, <2>1, <2>2 DEF TxInv
<1>9. ASSUME NEW p \in Proc, Commit(p) \/ CommitUnanswered(p) PROVE IInv'
  <2>1. /\ pc[p] = "commit" /\ MakeDurable(p)
        /\ \A q \in Proc : q # p =>
              /\ pc'[q] = pc[q] /\ cur'[q] = cur[q]
              /\ dir'[q] = dir[q] /\ done'[q] = done[q]
        /\ pc'[p] \notin InTx
    BY <1>1, <1>9
    DEF TypeOK, Commit, CommitUnanswered, ReturnError, EndTx, Goto, InTx
  <2>2. TxInv'
    BY <1>1, <2>1, CommitTx
  <2>3. NoUnrecordedEffect'
    BY <1>1, <2>1, CommitRecords DEF TxInv
  <2> QED
    BY <1>2, <2>2, <2>3
<1>10. CASE UNCHANGED vars
  <2>1. TxInv'
    BY <1>1, <1>10
    DEF vars, TxInv, LockInv, CompleteInv, InsertInv, DropInv, HoldsLock
  <2> QED
    BY <1>2, <1>3, <1>10, <2>1 DEF vars
<1> QED
  BY <1>4, <1>5, <1>6, <1>7, <1>8, <1>9, <1>10
  DEF Next, Step, Faulty, TargetNotFound, StatementFails, DuplicateRow, Fault

LEMMA InitInv == ASSUME Init PROVE IInv
<1>1. \A p \in Proc : pc[p] = "idle"
  BY DEF Init
<1> QED
  BY <1>1, InitType
  DEF Init, IInv, LockInv, CompleteInv, InsertInv, DropInv, HoldsLock, InTx,
      NoUnrecordedEffect

(* No effect in the committed schema lacks its history row, with any number *)
(* of processes racing, failing and dying: NoUnrecordedEffect.              *)
THEOREM EffectsAreRecorded ==
    ASSUME Transactional PROVE Spec => []NoUnrecordedEffect
<1>1. Init => IInv
  BY InitInv
<1>2. IInv /\ [Next]_vars => IInv'
  BY InvStep
<1>3. IInv => NoUnrecordedEffect
  BY DEF IInv
<1> QED
  BY <1>1, <1>2, <1>3, PTL DEF Spec

-----------------------------------------------------------------------------
(* The detailed migrator implements the migration log *)

(* A migration's change is not empty. *)
LEMMA EffectsType ==
    ASSUME NEW n \in Id
    PROVE  Effects(n) # {} /\ Effects(n) \subseteq Effect
<1>1. <<n, 1>> \in Effects(n)
  BY StatementType DEF Effects
<1>2. Effects(n) \subseteq Effect
  BY DEF Effects, Effect
<1> QED
  BY <1>1, <1>2

(* Committing m's `up` brings m, and m alone, into force. *)
LEMMA UpInForce ==
    ASSUME IInv, Transactional, NEW p \in Proc, pc[p] = "commit",
           dir[p] = "up", MakeDurable(p)
    PROVE  Log!Apply(cur[p])
<1>1. done[p] = Statement /\ cur[p] \in Id /\ cur[p] \notin history
  BY DEF IInv, CompleteInv, InsertInv, TypeOK, InTx
<1>2. schema' = schema \cup Effects(cur[p])
  BY <1>1 DEF MakeDurable, View, After, Effects
<1>3. \A n \in Id : Effects(n) \subseteq schema'
                      <=> n = cur[p] \/ Effects(n) \subseteq schema
  <2> SUFFICES ASSUME NEW n \in Id, n # cur[p]
               PROVE  Effects(n) \cap Effects(cur[p]) = {}
    BY <1>2
  <2> QED
    BY DEF Effects
<1>4. InForce' = InForce \cup {cur[p]}
  BY <1>1, <1>3 DEF InForce
<1> QED
  BY <1>1, <1>4 DEF Log!Apply, MakeDurable, Rows

(* Committing m's `down` takes out of force what m brought in, and with its *)
(* table whatever else was done to it; without m's row it changes nothing.  *)
LEMMA DownInForce ==
    ASSUME IInv, Transactional, NEW p \in Proc, pc[p] = "commit",
           dir[p] = "down", MakeDurable(p)
    PROVE  Log!Revert(cur[p]) \/ UNCHANGED <<history, InForce>>
<1> DEFINE m == cur[p]
<1>1. done[p] = Statement /\ m \in Id
  BY DEF IInv, CompleteInv, TypeOK, InTx
<1>2. schema' = Without(schema, m, Statement) /\ history' = history \ {m}
  BY <1>1 DEF MakeDurable, View, After, Rows
<1>3. m \in Creators <=> \E s \in Statement : Creates(m, s)
  BY StatementType DEF Creates
<1>4. \A n \in Id : Effects(n) # {} /\ Effects(n) \subseteq Effect
  BY EffectsType
<1>5. CASE m \in Creators
  <2>1. m \in history
    BY <1>1, <1>5, StatementType DEF IInv, DropInv, InTx
  <2>2. schema' = schema \ OnTable(TableOf[m])
    BY <1>2, <1>3, <1>5 DEF Without
  <2>3. \A n \in Id : TableOf[n] = TableOf[m]
                        => Effects(n) \subseteq OnTable(TableOf[m])
    BY <1>4 DEF OnTable, Effects, Effect
  <2>4. \A n \in Id : TableOf[n] # TableOf[m]
                        => Effects(n) \cap OnTable(TableOf[m]) = {}
    BY DEF OnTable, Effects
  <2>5. InForce' = InForce \ {n \in Id : TableOf[n] = TableOf[m]}
    BY <1>4, <2>2, <2>3, <2>4 DEF InForce
  <2> QED
    BY <1>1, <1>2, <1>5, <2>1, <2>5 DEF Log!Revert, FallsWith
<1>6. CASE m \notin Creators
  <2>1. schema' = schema \ Effects(m)
    BY <1>2, <1>3, <1>6 DEF Without, Effects
  <2>2. \A n \in Id : n # m => Effects(n) \cap Effects(m) = {}
    BY DEF Effects
  <2>3. InForce' = InForce \ {m}
    BY <1>4, <2>1, <2>2 DEF InForce
  <2>4. CASE m \in history
    BY <1>1, <1>2, <1>6, <2>3, <2>4 DEF Log!Revert, FallsWith
  <2>5. CASE m \notin history
    <3>1. m \notin InForce
      BY <1>1, <1>4, <2>5 DEF InForce, IInv, NoUnrecordedEffect, Effects
    <3> QED
      BY <1>2, <2>3, <2>5, <3>1
  <2> QED
    BY <2>4, <2>5
<1> QED
  BY <1>5, <1>6

(* Every step is an Apply, a Revert or a stutter of the log. *)
LEMMA LogStep ==
    Transactional /\ IInv /\ [Next]_vars => [Log!LogNext]_(Log!logVars)
<1> USE DEF dbVars, planVars, txVars
<1> SUFFICES ASSUME Transactional, IInv, [Next]_vars
             PROVE  [Log!LogNext]_(Log!logVars)
  OBVIOUS
<1>1. ASSUME history' = history, schema' = schema
      PROVE  UNCHANGED Log!logVars
  BY <1>1 DEF Log!logVars, InForce
<1>2. ASSUME NEW p \in Proc, pc[p] = "commit", MakeDurable(p)
      PROVE  [Log!LogNext]_(Log!logVars)
  <2>1. cur[p] \in Id /\ dir[p] \in {"up", "down"}
    BY <1>2 DEF IInv, TypeOK, InTx
  <2>2. CASE dir[p] = "up"
    BY <1>2, <2>1, <2>2, UpInForce DEF Log!LogNext
  <2>3. CASE dir[p] = "down"
    BY <1>2, <2>1, <2>3, DownInForce DEF Log!LogNext, Log!logVars
  <2> QED
    BY <2>1, <2>2, <2>3
<1>3. ASSUME NEW p \in Proc,
             Start(p) \/ Step(p) \/ Faulty(p),
             ~Commit(p), ~CommitUnanswered(p)
      PROVE  history' = history /\ schema' = schema
  BY <1>3
  DEF Step, Faulty, Start, LoadFiles, Succeed, EnsureHistory, ReadApplied,
      TargetNotFound, RevertOne, ApplyOne, FinishUpdate, ExecuteStatement,
      StatementFails, RecordHistory, DuplicateRow, Fault
<1>4. CASE UNCHANGED vars
  BY <1>1, <1>4 DEF vars
<1> QED
  BY <1>1, <1>2, <1>3, <1>4 DEF Next, Commit, CommitUnanswered

(* On an engine with transactional DDL the migrator implements the          *)
(* migration log: a change and its row come and go in one step.             *)
THEOREM ImplementsMigrationLog ==
    ASSUME Transactional PROVE Spec => ImplementsLog
<1>1. Init => IInv /\ Log!LogInit
  <2> SUFFICES ASSUME Init PROVE IInv /\ Log!LogInit
    OBVIOUS
  <2>1. InForce = {}
    BY EffectsType DEF Init, InForce
  <2> QED
    BY <2>1, InitInv DEF Init, Log!LogInit
<1>2. IInv /\ [Next]_vars => IInv'
  BY InvStep
<1>3. IInv /\ [Next]_vars => [Log!LogNext]_(Log!logVars)
  BY LogStep
<1> QED
  BY <1>1, <1>2, <1>3, PTL DEF Spec, ImplementsLog, Log!LogSpec
-----------------------------------------------------------------------------
(* What an append-only trunk gives, on every engine: when users only apply  *)
(* the newest checkout they have, any number of processes, racing, failing  *)
(* and dying, leave no ghost row, record migrations in the order of their   *)
(* ids, and reach their target whenever they report success.                *)

(* Users only run `molde apply` and `molde up`, never towards a target. *)
AppliesOnly == Commands \subseteq Seq({Latest})

(* A checkout holds every migration older than one it holds. *)
TrunkCheckouts ==
    \A files \in Clones : \A m \in files, n \in Id : n < m => n \in files

Working == {"walk"} \cup InTx

(* What p has still to bring into the history. *)
Planned(p) == toApply[p] \cup (IF pc[p] \in InTx THEN {cur[p]} ELSE {})

(* p never reverts; whatever its files lack in the history it still plans   *)
(* to apply, the transaction's migration first; and on an engine that       *)
(* commits every statement, what it has executed is there.                  *)
UpOf(p) ==
    /\ goals[p] \in Seq({Latest})
    /\ toRevert[p] = {}
    /\ dir[p] = "up"
    /\ pc[p] \in InCall => disk[p] \in Clones
    /\ pc[p] \in Working => /\ toApply[p] \subseteq disk[p]
                            /\ disk[p] \subseteq history \cup Planned(p)
    /\ pc[p] \in InTx => /\ cur[p] \in disk[p]
                         /\ \A m \in toApply[p] : cur[p] < m
    /\ pc[p] \in {"record", "commit"} => done[p] = Statement
    /\ (pc[p] \in InTx /\ ~Transactional) => {cur[p]} \X done[p] \subseteq schema
    /\ (pc[p] = "commit" /\ ~Transactional) => cur[p] \in history

UpInv ==
    /\ TypeOK
    /\ NoGhostRow
    /\ \A p \in Proc : UpOf(p)

-----------------------------------------------------------------------------

(* A migration's effects are the pairs of it and a statement. *)
LEMMA EffectsOf ==
    ASSUME NEW m, NEW S, NEW T, S \subseteq T, {m} \X Statement \subseteq S
    PROVE  Effects(m) \subseteq T
BY DEF Effects

(* Another process's plan is not disturbed by a database that only grows.   *)
LEMMA OthersKept ==
    ASSUME NEW p \in Proc, NEW q \in Proc \ {p}, UpOf(q),
           history \subseteq history', schema \subseteq schema',
           pc'[q] = pc[q], goals'[q] = goals[q], disk'[q] = disk[q],
           toRevert'[q] = toRevert[q], toApply'[q] = toApply[q],
           cur'[q] = cur[q], dir'[q] = dir[q], done'[q] = done[q]
    PROVE  UpOf(q)'
BY DEF UpOf, Planned

(* A call that returns an error has no plan left. *)
LEMMA ErrorKept ==
    ASSUME TypeOK, NEW p \in Proc, UpOf(p), ReturnError(p)
    PROVE  UpOf(p)'
<1>1. /\ pc'[p] = "error" /\ goals'[p] = <<>> /\ toRevert'[p] = {}
      /\ dir'[p] = "up"
  BY DEF TypeOK, ReturnError, EndTx, Goto
<1>2. <<>> \in Seq({Latest})
  OBVIOUS
<1> QED
  BY <1>1, <1>2 DEF UpOf, InCall, Working, InTx

(* The only target there is. *)
LEMMA OnlyLatest ==
    ASSUME NEW s \in Seq({Latest}), s # <<>>
    PROVE  Head(s) = Latest /\ Tail(s) \in Seq({Latest})
OBVIOUS

(* What a commit makes durable: the row and everything the migration does.  *)
LEMMA DurableUp ==
    ASSUME TypeOK, NoGhostRow, NEW p \in Proc, UpOf(p), pc[p] = "commit",
           MakeDurable(p)
    PROVE  /\ history' = history \cup {cur[p]}
           /\ schema \subseteq schema'
           /\ NoGhostRow'
<1>1. done[p] = Statement /\ dir[p] = "up" /\ pc[p] \in InTx
  BY DEF UpOf, InTx
<1>2. CASE Transactional
  <2>1. schema' = schema \cup Effects(cur[p])
    BY <1>1, <1>2 DEF MakeDurable, View, After, Effects
  <2>2. history' = history \cup {cur[p]}
    BY <1>1, <1>2 DEF MakeDurable, Rows
  <2> QED
    BY <2>1, <2>2 DEF NoGhostRow, Effects
<1>3. CASE ~Transactional
  <2>1. schema' = schema /\ history' = history /\ cur[p] \in history
    BY <1>3 DEF MakeDurable, View, UpOf
  <2> QED
    BY <2>1 DEF NoGhostRow, Effects
<1> QED
  BY <1>2, <1>3

(* A reading of the history plans every file it does not record, and no     *)
(* revert: the newest file is the target.                                   *)
LEMMA ReadPlans ==
    ASSUME TypeOK, NEW p \in Proc, UpOf(p), ReadApplied(p)
    PROVE  /\ toRevert'[p] = {}
           /\ toApply'[p] \subseteq disk[p]
           /\ disk[p] \subseteq history \cup toApply'[p]
<1>1. Head(goals[p]) = Latest
  <2>1. goals[p] \in Seq({Latest}) /\ goals[p] # <<>>
    BY DEF UpOf, TypeOK, ReadApplied, InCall
  <2> QED
    BY <2>1, OnlyLatest
<1>2. PICK bound \in Id \cup {0} :
        /\ Resolves(disk[p], Latest, bound)
        /\ toRevert' = [toRevert EXCEPT
                ![p] = {m \in disk[p] : m > bound /\ m \in history}]
        /\ toApply' = [toApply EXCEPT
                ![p] = {m \in disk[p] : m <= bound /\ m \notin history}]
  BY <1>1 DEF ReadApplied
<1>3. \A m \in disk[p] : m <= bound
  BY <1>2, CommandAssumption DEF Resolves, IsGreatest
<1>4. \A m \in disk[p] : m \in Nat
  <2>1. disk[p] \subseteq Id
    BY DEF TypeOK
  <2> QED
    BY <2>1, IdAssumption
<1>5. bound \in Nat
  BY IdAssumption
<1>6. ~\E m \in disk[p] : m > bound
  BY <1>3, <1>4, <1>5
<1>7. /\ toRevert'[p] = {m \in disk[p] : m > bound /\ m \in history}
      /\ toApply'[p] = {m \in disk[p] : m <= bound /\ m \notin history}
  BY <1>2 DEF TypeOK
<1> QED
  BY <1>3, <1>6, <1>7

(* Every operation preserves what applying alone relies on.                 *)
LEMMA UpStep == AppliesOnly /\ UpInv /\ [Next]_vars => UpInv'
<1> USE DEF dbVars, planVars, txVars
<1> SUFFICES ASSUME AppliesOnly, UpInv, [Next]_vars PROVE UpInv'
  OBVIOUS
<1>1. TypeOK /\ NoGhostRow /\ TypeOK' /\ \A p \in Proc : UpOf(p)
  BY TypeStep DEF UpInv
<1>2. ASSUME NEW p \in Proc, history' = history, schema \subseteq schema',
             UpOf(p)',
             \A q \in Proc \ {p} :
                /\ pc'[q] = pc[q] /\ goals'[q] = goals[q]
                /\ disk'[q] = disk[q] /\ toRevert'[q] = toRevert[q]
                /\ toApply'[q] = toApply[q] /\ cur'[q] = cur[q]
                /\ dir'[q] = dir[q] /\ done'[q] = done[q]
      PROVE  UpInv'
  <2>1. NoGhostRow'
    BY <1>1, <1>2 DEF NoGhostRow, Effects
  <2>2. \A q \in Proc \ {p} : UpOf(q)'
    BY <1>1, <1>2, OthersKept
  <2> QED
    BY <1>1, <1>2, <2>1, <2>2 DEF UpInv
<1>3. ASSUME NEW p \in Proc, Start(p) PROVE UpInv'
  <2>1. goals'[p] \in Seq({Latest})
    BY <1>1, <1>3 DEF Start, AppliesOnly, TypeOK
  <2>2. UpOf(p)'
    BY <1>1, <1>3, <2>1
    DEF Start, Goto, TypeOK, UpOf, InCall, Working, InTx
  <2> QED
    BY <1>1, <1>2, <1>3, <2>2 DEF Start, Goto, TypeOK
<1>4. ASSUME NEW p \in Proc, LoadFiles(p) PROVE UpInv'
  <2>1. goals[p] \in Seq({Latest}) /\ goals[p] # <<>>
    BY <1>1, <1>4 DEF UpOf, LoadFiles
  <2>2. Tail(goals[p]) \in Seq({Latest})
    BY <2>1, OnlyLatest
  <2>3. PICK files \in Clones :
          \/ /\ goals' = [goals EXCEPT ![p] = Tail(@)]
             /\ UNCHANGED <<pc, disk>>
          \/ /\ disk' = [disk EXCEPT ![p] = files]
             /\ Goto(p, "ensure")
             /\ UNCHANGED goals
    BY <1>4 DEF LoadFiles
  <2>4. UpOf(p)'
    <3>1. /\ toRevert'[p] = {} /\ dir'[p] = "up" /\ pc[p] = "load"
          /\ goals \in [Proc -> Seq(Target)] /\ disk \in [Proc -> SUBSET Id]
          /\ pc \in [Proc -> Place]
      BY <1>1, <1>4 DEF LoadFiles, TypeOK, UpOf
    <3>2. /\ goals'[p] \in Seq({Latest})
          /\ \/ pc'[p] = "load"
             \/ pc'[p] = "ensure" /\ disk'[p] \in Clones
      <4>1. CASE goals' = [goals EXCEPT ![p] = Tail(@)] /\ UNCHANGED pc
        BY <2>2, <3>1, <4>1
      <4>2. CASE /\ disk' = [disk EXCEPT ![p] = files] /\ goals' = goals
                 /\ Goto(p, "ensure")
        BY <2>1, <3>1, <4>2 DEF Goto
      <4> QED
        BY <2>3, <4>1, <4>2
    <3> QED
      BY <3>1, <3>2 DEF UpOf, InCall, Working, InTx
  <2> QED
    BY <1>1, <1>2, <1>4, <2>4 DEF LoadFiles, Goto, TypeOK
<1>5. ASSUME NEW p \in Proc, Succeed(p) \/ EnsureHistory(p) PROVE UpInv'
  <2>1. UpOf(p)'
    BY <1>1, <1>5
    DEF Succeed, EnsureHistory, Goto, TypeOK, UpOf, InCall, Working, InTx
  <2> QED
    BY <1>1, <1>2, <1>5, <2>1 DEF Succeed, EnsureHistory, Goto, TypeOK
<1>6. ASSUME NEW p \in Proc, ReadApplied(p) PROVE UpInv'
  <2>1. /\ toRevert'[p] = {}
        /\ toApply'[p] \subseteq disk[p]
        /\ disk[p] \subseteq history \cup toApply'[p]
    BY <1>1, <1>6, ReadPlans
  <2>2. UpOf(p)'
    BY <1>1, <1>6, <2>1
    DEF ReadApplied, Goto, TypeOK, UpOf, Planned, InCall, Working, InTx
  <2> QED
    BY <1>1, <1>2, <1>6, <2>2 DEF ReadApplied, Goto, TypeOK
<1>7. ASSUME NEW p \in Proc, ReturnError(p), UNCHANGED dbVars PROVE UpInv'
  <2>1. UpOf(p)'
    BY <1>1, <1>7, ErrorKept
  <2> QED
    BY <1>1, <1>2, <1>7, <2>1 DEF ReturnError, EndTx, Goto, TypeOK
<1>8. ASSUME NEW p \in Proc, RevertOne(p) PROVE UpInv'
  BY <1>1, <1>8 DEF RevertOne, UpOf
<1>9. ASSUME NEW p \in Proc, ApplyOne(p) PROVE UpInv'
  <2>1. PICK m \in toApply[p] :
          /\ IsLeast(m, toApply[p])
          /\ Begin(p, m, "up")
          /\ toApply' = [toApply EXCEPT ![p] = @ \ {m}]
    BY <1>9 DEF ApplyOne
  <2>2. toApply[p] \subseteq Nat
    BY <1>1, IdAssumption DEF TypeOK
  <2>3. \A n \in toApply[p] \ {m} : m < n
    BY <2>1, <2>2 DEF IsLeast
  <2>4. /\ pc[p] = "walk" /\ pc'[p] = "tx" /\ cur'[p] = m /\ dir'[p] = "up"
        /\ done'[p] = {} /\ toApply'[p] = toApply[p] \ {m}
        /\ UNCHANGED <<history, schema, goals, disk, toRevert>>
    BY <1>1, <1>9, <2>1 DEF ApplyOne, Begin, Goto, TypeOK
  <2>5. UpOf(p)'
    BY <1>1, <2>3, <2>4 DEF UpOf, Planned, InCall, Working, InTx
  <2> QED
    BY <1>1, <1>2, <1>9, <2>5 DEF ApplyOne, Begin, Goto, TypeOK
<1>10. ASSUME NEW p \in Proc, FinishUpdate(p) PROVE UpInv'
  <2>1. goals[p] \in Seq({Latest}) /\ goals[p] # <<>>
    BY <1>1, <1>10 DEF UpOf, FinishUpdate, TypeOK, InCall
  <2>2. Tail(goals[p]) \in Seq({Latest})
    BY <2>1, OnlyLatest
  <2>3. UpOf(p)'
    BY <1>1, <1>10, <2>2
    DEF FinishUpdate, Goto, TypeOK, UpOf, InCall, Working, InTx
  <2> QED
    BY <1>1, <1>2, <1>10, <2>3 DEF FinishUpdate, Goto, TypeOK
<1>11. ASSUME NEW p \in Proc, ExecuteStatement(p) PROVE UpInv'
  <2>1. PICK s \in Statement :
          /\ done' = [done EXCEPT ![p] = @ \cup {s}]
          /\ schema' = IF Transactional THEN schema
                       ELSE After(schema, cur[p], dir[p], {s})
          /\ Goto(p, IF done[p] \cup {s} = Statement THEN "record" ELSE "tx")
    BY <1>11 DEF ExecuteStatement
  <2>2. /\ pc[p] = "tx" /\ pc'[p] \in {"tx", "record"}
        /\ done'[p] = done[p] \cup {s}
        /\ pc'[p] = "record" => done'[p] = Statement
        /\ UNCHANGED <<history, goals, disk, toRevert, toApply, cur, dir>>
    BY <1>1, <1>11, <2>1 DEF ExecuteStatement, Goto, TypeOK
  <2>3. schema' = IF Transactional THEN schema
                  ELSE schema \cup ({cur[p]} \X {s})
    BY <1>1, <2>1 DEF UpOf, After
  <2>4. UpOf(p)'
    BY <1>1, <2>2, <2>3 DEF UpOf, Planned, InCall, Working, InTx
  <2> QED
    BY <1>1, <1>2, <1>11, <2>1, <2>2, <2>3, <2>4 DEF Goto, TypeOK
<1>12. ASSUME NEW p \in Proc, history' = history \cup {cur[p]},
              schema \subseteq schema', NoGhostRow', UpOf(p)',
             \A q \in Proc \ {p} :
                /\ pc'[q] = pc[q] /\ goals'[q] = goals[q]
                /\ disk'[q] = disk[q] /\ toRevert'[q] = toRevert[q]
                /\ toApply'[q] = toApply[q] /\ cur'[q] = cur[q]
                /\ dir'[q] = dir[q] /\ done'[q] = done[q]
       PROVE  UpInv'
  <2>1. \A q \in Proc \ {p} : UpOf(q)'
    BY <1>1, <1>12, OthersKept
  <2> QED
    BY <1>1, <1>12, <2>1 DEF UpInv
<1>13. ASSUME NEW p \in Proc, RecordHistory(p) PROVE UpInv'
  <2>1. /\ pc[p] = "record" /\ pc'[p] = "commit"
        /\ UNCHANGED <<schema, goals, disk, toRevert, toApply, cur, dir, done>>
        /\ dir[p] = "up" /\ done[p] = Statement
    BY <1>1, <1>13 DEF RecordHistory, Goto, TypeOK, UpOf
  <2>2. CASE Transactional
    <3>1. history' = history
      BY <1>13, <2>2 DEF RecordHistory
    <3>2. UpOf(p)'
      BY <1>1, <2>1, <2>2, <3>1 DEF UpOf, Planned, InCall, Working, InTx
    <3> QED
      BY <1>1, <1>2, <1>13, <2>1, <3>1, <3>2 DEF RecordHistory, Goto, TypeOK
  <2>3. CASE ~Transactional
    <3>1. history' = history \cup {cur[p]}
      BY <1>13, <2>1, <2>3 DEF RecordHistory, Rows
    <3>2. {cur[p]} \X Statement \subseteq schema
      BY <1>1, <2>1, <2>3 DEF UpOf, InTx
    <3>3. NoGhostRow'
      BY <1>1, <2>1, <3>1, <3>2 DEF NoGhostRow, Effects
    <3>4. UpOf(p)'
      BY <1>1, <2>1, <2>3, <3>1 DEF UpOf, Planned, InCall, Working, InTx
    <3> QED
      BY <1>1, <1>12, <1>13, <2>1, <3>1, <3>3, <3>4
      DEF RecordHistory, Goto, TypeOK
  <2> QED
    BY <2>2, <2>3
<1>14. ASSUME NEW p \in Proc, Commit(p) PROVE UpInv'
  <2>1. history' = history \cup {cur[p]} /\ schema \subseteq schema'
        /\ NoGhostRow'
    BY <1>1, <1>14, DurableUp DEF Commit
  <2>2. /\ pc[p] = "commit" /\ pc'[p] = "walk" /\ dir'[p] = "up"
        /\ UNCHANGED <<goals, disk, toRevert, toApply>>
    BY <1>1, <1>14 DEF Commit, EndTx, Goto, TypeOK
  <2>3. UpOf(p)'
    BY <1>1, <2>1, <2>2 DEF UpOf, Planned, InCall, Working, InTx
  <2> QED
    BY <1>1, <1>12, <1>14, <2>1, <2>3 DEF Commit, EndTx, Goto, TypeOK
<1>15. ASSUME NEW p \in Proc, CommitUnanswered(p) PROVE UpInv'
  <2>1. history' = history \cup {cur[p]} /\ schema \subseteq schema'
        /\ NoGhostRow'
    BY <1>1, <1>15, DurableUp DEF CommitUnanswered
  <2>2. UpOf(p)'
    BY <1>1, <1>15, ErrorKept DEF CommitUnanswered
  <2> QED
    BY <1>1, <1>12, <1>15, <2>1, <2>2
    DEF CommitUnanswered, ReturnError, EndTx, Goto, TypeOK
<1>16. CASE UNCHANGED vars
  <2>1. NoGhostRow'
    BY <1>1, <1>16 DEF vars, NoGhostRow, Effects
  <2>2. \A p \in Proc : UpOf(p)'
    BY <1>1, <1>16 DEF vars, UpOf, Planned
  <2> QED
    BY <1>1, <2>1, <2>2 DEF UpInv
<1> QED
  BY <1>3, <1>4, <1>5, <1>6, <1>7, <1>8, <1>9, <1>10, <1>11, <1>13, <1>14,
     <1>15, <1>16
  DEF Next, Step, Faulty, TargetNotFound, StatementFails, DuplicateRow, Fault

LEMMA UpInit == ASSUME Init PROVE UpInv
<1>1. <<>> \in Seq({Latest})
  OBVIOUS
<1>2. \A p \in Proc : UpOf(p)
  BY <1>1 DEF Init, UpOf, InCall, Working, InTx
<1> QED
  BY <1>2, InitType DEF Init, UpInv, NoGhostRow

(* Whoever only applies leaves no ghost row, on any engine: a recorded      *)
(* migration is in force as a whole, however its transaction ended.         *)
THEOREM RecordedIsInForce ==
    ASSUME AppliesOnly PROVE Spec => []NoGhostRow
<1>1. Init => UpInv
  BY UpInit
<1>2. UpInv /\ [Next]_vars => UpInv'
  BY UpStep
<1>3. UpInv => NoGhostRow
  BY DEF UpInv
<1> QED
  BY <1>1, <1>2, <1>3, PTL DEF Spec

-----------------------------------------------------------------------------

(* The migration that enters the history is the oldest its files lack there. *)
LEMMA OldestFirst ==
    ASSUME TrunkCheckouts, UpInv, NEW p \in Proc, pc[p] \in InTx,
           NEW n \in Id, n < cur[p]
    PROVE  n \in history
<1>1. UpOf(p) /\ TypeOK /\ pc[p] \in InCall /\ pc[p] \in Working
  BY DEF UpInv, InCall, Working
<1>2. cur[p] \in disk[p] /\ disk[p] \in Clones
  BY <1>1 DEF UpOf
<1>3. n \in disk[p]
  BY <1>2 DEF TrunkCheckouts
<1>4. n \in history \cup toApply[p] \cup {cur[p]}
  BY <1>1, <1>3 DEF UpOf, Planned
<1>5. cur[p] \in Nat /\ n \in Nat /\ toApply[p] \subseteq Nat
  BY <1>1, IdAssumption DEF TypeOK, InTx
<1>6. \A m \in toApply[p] : cur[p] < m
  BY <1>1 DEF UpOf
<1> QED
  BY <1>4, <1>5, <1>6

(* With a trunk's checkouts and no reverts, migrations enter the history in *)
(* the order of their ids, whichever process applies them: InIdOrder.       *)
THEOREM RecordedInOrder ==
    ASSUME AppliesOnly, TrunkCheckouts PROVE Spec => []InIdOrder
<1> DEFINE Inv == UpInv /\ InIdOrder
<1>1. Init => Inv
  BY UpInit DEF Init, InIdOrder
<1>2. Inv /\ [Next]_vars => Inv'
  <2> USE DEF dbVars, planVars, txVars
  <2> SUFFICES ASSUME UpInv, InIdOrder, [Next]_vars PROVE InIdOrder'
    BY UpStep
  <2>1. ASSUME history' = history PROVE InIdOrder'
    BY <2>1 DEF InIdOrder
  <2>2. ASSUME NEW p \in Proc, pc[p] \in InTx, history' = history \cup {cur[p]}
        PROVE  InIdOrder'
    BY <2>2, OldestFirst DEF InIdOrder
  <2>3. ASSUME NEW p \in Proc, RecordHistory(p) PROVE InIdOrder'
    <3>1. pc[p] \in InTx /\ dir[p] = "up"
      BY <2>3 DEF RecordHistory, InTx, UpInv, UpOf
    <3>2. history' = history \/ history' = history \cup {cur[p]}
      BY <2>3, <3>1 DEF RecordHistory, Rows
    <3> QED
      BY <2>1, <2>2, <3>1, <3>2
  <2>4. ASSUME NEW p \in Proc, Commit(p) \/ CommitUnanswered(p)
        PROVE  InIdOrder'
    <3>1. pc[p] = "commit" /\ MakeDurable(p)
      BY <2>4 DEF Commit, CommitUnanswered
    <3>2. history' = history \cup {cur[p]}
      BY <3>1, DurableUp DEF UpInv
    <3> QED
      BY <2>2, <3>1, <3>2 DEF InTx
  <2>5. ASSUME NEW p \in Proc, Start(p) \/ Step(p) \/ Faulty(p),
               ~RecordHistory(p), ~Commit(p), ~CommitUnanswered(p)
        PROVE  history' = history
    BY <2>5
    DEF Step, Faulty, Start, LoadFiles, Succeed, EnsureHistory, ReadApplied,
        TargetNotFound, RevertOne, ApplyOne, FinishUpdate, ExecuteStatement,
        StatementFails, DuplicateRow, Fault
  <2>6. CASE UNCHANGED vars
    BY <2>1, <2>6 DEF vars
  <2> QED
    BY <2>1, <2>3, <2>4, <2>5, <2>6 DEF Next
<1>3. Inv => InIdOrder
  OBVIOUS
<1> QED
  BY <1>1, <1>2, <1>3, PTL DEF Spec

(* An `apply` that reports success has every file of its checkout recorded, *)
(* although it planned on an older reading of the history: ReachesTarget.   *)
THEOREM SuccessIsReached ==
    ASSUME AppliesOnly PROVE Spec => ReachesTarget
<1>1. Init => UpInv
  BY UpInit
<1>2. UpInv /\ [Next]_vars => UpInv'
  BY UpStep
<1> DEFINE Reached ==
        \A p \in Proc : FinishUpdate(p) /\ (Alone(p) \/ Commands = {<<Latest>>})
                            => AtTarget(disk[p], Head(goals[p]))
<1>3. UpInv => Reached
  <2> SUFFICES ASSUME UpInv, NEW p \in Proc, FinishUpdate(p)
               PROVE  AtTarget(disk[p], Head(goals[p]))
    OBVIOUS
  <2>1. UpOf(p) /\ TypeOK /\ pc[p] = "walk" /\ toApply[p] = {}
    BY DEF UpInv, FinishUpdate
  <2>2. goals[p] \in Seq({Latest}) /\ goals[p] # <<>>
    BY <2>1 DEF UpOf, TypeOK, InCall
  <2>3. Head(goals[p]) = Latest
    BY <2>2, OnlyLatest
  <2>4. disk[p] \subseteq history
    BY <2>1 DEF UpOf, Planned, Working, InTx
  <2> QED
    BY <2>3, <2>4, CommandAssumption DEF AtTarget
<1>4. UpInv /\ [Next]_vars => [Reached]_vars
  BY <1>3
<1> QED
  BY <1>1, <1>2, <1>4, PTL DEF Spec, ReachesTarget
=============================================================================
