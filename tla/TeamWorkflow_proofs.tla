------------------------- MODULE TeamWorkflow_proofs -------------------------
(***************************************************************************)
(* What holds of a team's trunk for any number of developers, any files and  *)
(* any versions of them, whatever the clocks read and CI runs.  HistoryInv   *)
(* says where migrations are and how their ids lie (what is not yet          *)
(* committed is newer than what is, what is not yet on the trunk newer than  *)
(* where the branch began); LintInv what CI has let through; ChainInv what   *)
(* the migrations of each tree build, file by file.                         *)
(*                                                                         *)
(* That the trunk's migrations build the trunk's models goes another way:    *)
(* whatever migrations are applied, and in whatever order, a run that gets   *)
(* to its end leaves a catalog of a known Shape (FreshIsGood), and of two    *)
(* catalogs of that shape the differ sees every difference (GateHolds, by    *)
(* SchemaDiff_proofs' DiffIsSilent).  So what CI has verified is built; the  *)
(* first migration, which CI has not seen, is followed statement by          *)
(* statement (OnTheWay).                                                    *)
(***************************************************************************)
EXTENDS TeamWorkflow, SchemaDiff_proofs

-----------------------------------------------------------------------------
(* Ids *)

(* The part of the assumption that arithmetic needs. *)
LEMMA Numbers ==
    /\ Developers \subseteq Nat \ {0} /\ SetUp \subseteq Developers
    /\ Clock \subseteq Nat /\ MaxEdits \in Nat
BY TeamAssumption

(* Ties between ids are broken by the author. *)
LEMMA AuthorsAreNumbers == \A d \in {0} \cup Developers : d \in Nat
BY Numbers

(* One of the migrations is the newest, or there is none. *)
HasNewest(migrations) ==
    \E k \in {0} \cup Ids(migrations) : \A m \in migrations : m.id <= k

(* latest_id is a bound of the ids, and one of them. *)
LEMMA NewestIdFacts ==
    ASSUME NEW M \in SUBSET Migration, HasNewest(M)
    PROVE  /\ NewestId(M) \in {0} \cup Ids(M)
           /\ NewestId(M) \in Nat
           /\ \A m \in M : m.id <= NewestId(M)
<1> DEFINE S == {0} \cup Ids(M)
<1>1. S \subseteq Nat
  BY DEF Ids, Migration
<1>2. PICK k \in S : \A m \in M : m.id <= k
  BY DEF HasNewest
<1>3. \A y \in S : k >= y
  BY <1>1, <1>2 DEF Ids
<1>4. Max(S) \in S /\ \A y \in S : Max(S) >= y
  BY <1>2, <1>3 DEF Max
<1> QED
  BY <1>1, <1>4 DEF NewestId, Ids

(* next_migration_id is newer than all there is, whatever the clock reads. *)
LEMMA NextIdFacts ==
    ASSUME NEW M \in SUBSET Migration, HasNewest(M), NEW now \in Nat
    PROVE  /\ NextId(M, now) \in Nat
           /\ \A m \in M : m.id < NextId(M, now)
<1>1. \A m \in M : m.id \in Nat
  BY DEF Migration
<1> QED
  BY <1>1, NewestIdFacts DEF NextId

(* What two trees have together has a newest if each has one, *)
LEMMA HasNewestUnion ==
    ASSUME NEW M \in SUBSET Migration, NEW N \in SUBSET Migration,
           HasNewest(M), HasNewest(N)
    PROVE  HasNewest(M \cup N)
<1>1. PICK k \in {0} \cup Ids(M) : \A m \in M : m.id <= k
  BY DEF HasNewest
<1>2. PICK l \in {0} \cup Ids(N) : \A m \in N : m.id <= l
  BY DEF HasNewest
<1>3. k \in Nat /\ l \in Nat /\ \A m \in M \cup N : m.id \in Nat
  BY DEF Ids, Migration
<1>4. k \in {0} \cup Ids(M \cup N) /\ l \in {0} \cup Ids(M \cup N)
  BY DEF Ids
<1>5. CASE k <= l
  BY <1>1, <1>2, <1>3, <1>4, <1>5 DEF HasNewest
<1>6. CASE l <= k
  BY <1>1, <1>2, <1>3, <1>4, <1>6 DEF HasNewest
<1> QED
  BY <1>3, <1>5, <1>6

(* and so has a tree with one migration more. *)
LEMMA HasNewestAdd ==
    ASSUME NEW M \in SUBSET Migration, NEW n \in Migration, HasNewest(M)
    PROVE  HasNewest(M \cup {n})
<1>1. HasNewest({n})
  BY DEF HasNewest, Ids, Migration
<1> QED
  BY <1>1, HasNewestUnion

-----------------------------------------------------------------------------
(* The invariant *)

(* What is where: a branch has the trunk's migrations it was given, the     *)
(* trunk keeps them, and a working copy has what is committed.              *)
Nested(d) ==
    /\ fork[d].migrations \subseteq head[d].migrations
    /\ head[d].migrations \subseteq work[d].migrations
    /\ fork[d].migrations \subseteq trunk.migrations
    /\ HasNewest(head[d].migrations)
    /\ HasNewest(work[d].migrations)

(* Whatever of theirs is anywhere, developers have in their working copy.    *)
Everything == trunk.migrations \cup UNION {work[d].migrations : d \in Developers}

OwnKept == \A m \in Everything : m.by = 0 \/ m \in work[m.by].migrations

(* What is not committed is newer than what is, and what is not on the      *)
(* trunk newer than where the branch began.                                 *)
NewerThanCommitted(d) ==
    \A m \in work[d].migrations \ head[d].migrations :
        \A n \in head[d].migrations : n.id < m.id

NewerThanSince(d) ==
    \A m \in head[d].migrations \ fork[d].migrations : since[d] < m.id

HistoryInv ==
    /\ HasNewest(trunk.migrations)
    /\ \E m \in trunk.migrations : m.id # 0
    /\ OwnKept
    /\ NamesUnique(Everything)
    /\ \A d \in Developers :
          Nested(d) /\ NewerThanCommitted(d) /\ NewerThanSince(d)

(* What a CI that lints all a branch adds has let through. *)
LintClean(m) ==
    LET found == Findings[m.from][m.to] IN
    IF gate.strict THEN found = {} ELSE found \cap Destructive = {}

LintInv ==
    gate.lint \in {"since", "all"} =>
        \A m \in trunk.migrations : m.by = 0 \/ LintClean(m)

IInv == TypeOK /\ HistoryInv /\ LintInv

-----------------------------------------------------------------------------
(* The initial state *)

(* The models of an empty checkout. *)
LEMMA NoFilesIsTree == [f \in File |-> NoFile] \in Trees
BY TeamAssumption DEF Trees, File, NoFile

(* A trunk with its first migration, and clones of it. *)
LEMMA InitIInv == Init => IInv
<1> SUFFICES ASSUME Init PROVE IInv
  OBVIOUS
<1>1. PICK m, first :
         /\ m \in Trees
         /\ first = [id |-> 1, by |-> 0, from |-> [f \in File |-> NoFile],
                     to |-> m]
         /\ trunk = [models |-> m, snapshot |-> m, migrations |-> {first}]
  BY DEF Init
<1>2. first \in Migration /\ first.id = 1 /\ first.by = 0
  BY <1>1, NoFilesIsTree DEF Migration
<1>3. trunk \in Tree /\ trunk.migrations = {first}
  BY <1>1, <1>2 DEF Tree
<1>4. /\ work = [d \in Developers |-> trunk] /\ head = work /\ fork = work
      /\ since = [d \in Developers |-> 1]
  BY DEF Init
<1>5. HasNewest({first}) /\ Ids({first}) = {1} /\ NamesUnique({first})
  BY <1>2 DEF HasNewest, Ids, NamesUnique
<1>6. TypeOK
  <2>1. \A d \in Developers : /\ NamesUnique(work[d].migrations)
                             /\ since[d] \in Ids(head[d].migrations)
    BY <1>3, <1>4, <1>5
  <2>2. /\ work \in [Developers -> Tree] /\ head \in [Developers -> Tree]
        /\ fork \in [Developers -> Tree] /\ since \in [Developers -> Nat]
    BY <1>3, <1>4
  <2>3. edits = 0 /\ rough \in BOOLEAN /\ gate \in Gates
    BY DEF Init
  <2>4. edits \in 0..MaxEdits
    BY <2>3, Numbers
  <2> QED
    BY <1>3, <1>5, <2>1, <2>2, <2>3, <2>4 DEF TypeOK
<1>7. Everything = {first}
  BY <1>3, <1>4 DEF Everything
<1>8. \A d \in Developers : Nested(d) /\ NewerThanCommitted(d) /\ NewerThanSince(d)
  BY <1>3, <1>4, <1>5 DEF Nested, NewerThanCommitted, NewerThanSince
<1>9. HistoryInv
  BY <1>2, <1>3, <1>5, <1>7, <1>8 DEF HistoryInv, OwnKept
<1>10. LintInv
  BY <1>2, <1>3 DEF LintInv
<1> QED
  BY <1>6, <1>9, <1>10 DEF IInv

-----------------------------------------------------------------------------
(* The steps *)

(* Nothing but models and snapshots of working copies changes. *)
LEMMA ModelsChange ==
    ASSUME IInv, NEW d \in Developers, NEW t \in Tree,
           t.migrations = work[d].migrations,
           work' = [work EXCEPT ![d] = t],
           UNCHANGED <<gate, trunk, head, fork, since>>,
           edits' \in 0..MaxEdits, rough' \in BOOLEAN
    PROVE  IInv'
<1>1. \A e \in Developers : work'[e].migrations = work[e].migrations
  BY DEF IInv, TypeOK
<1>2. TypeOK'
  BY <1>1 DEF IInv, TypeOK, NamesUnique
<1>3. Everything' = Everything
  BY <1>1 DEF Everything
<1>4. \A e \in Developers :
          Nested(e)' /\ NewerThanCommitted(e)' /\ NewerThanSince(e)'
  BY <1>1 DEF IInv, HistoryInv, Nested, NewerThanCommitted, NewerThanSince,
              HasNewest, Ids
<1>5. OwnKept'
  <2> SUFFICES ASSUME NEW m \in Everything', m.by # 0
               PROVE  m \in work'[m.by].migrations
    BY DEF OwnKept
  <2>1. m.by \in Developers
    BY <1>3 DEF IInv, TypeOK, Everything, Tree, Migration
  <2> QED
    BY <1>1, <1>3, <2>1 DEF IInv, HistoryInv, OwnKept
<1>6. HistoryInv'
  BY <1>3, <1>4, <1>5 DEF IInv, HistoryInv, NamesUnique, HasNewest, Ids
<1>7. LintInv'
  BY DEF IInv, LintInv, LintClean
<1> QED
  BY <1>2, <1>6, <1>7 DEF IInv

(* All migrations anywhere are records of their type. *)
LEMMA MigrationTypes ==
    ASSUME TypeOK
    PROVE  /\ trunk.migrations \in SUBSET Migration
           /\ Everything \in SUBSET Migration
           /\ \A d \in Developers : /\ work[d].migrations \in SUBSET Migration
                                    /\ head[d].migrations \in SUBSET Migration
                                    /\ fork[d].migrations \in SUBSET Migration
BY DEF TypeOK, Tree, Everything

(* `molde migrate` adds one newer than all the developer has.               *)
LEMMA MigrateStep ==
    ASSUME IInv, NEW d \in Developers, NEW now \in Clock, Migrate(d, now)
    PROVE  IInv'
<1> DEFINE W == work[d].migrations
           id == NextId(W, now)
           n == [id |-> id, by |-> d, from |-> work[d].snapshot,
                 to |-> work[d].models]
           t == [models |-> work[d].models, snapshot |-> work[d].models,
                 migrations |-> W \cup {n}]
<1>1. /\ work' = [work EXCEPT ![d] = t]
      /\ UNCHANGED <<gate, trunk, head, fork, since, edits, rough>>
  BY DEF Migrate
<1>2. W \in SUBSET Migration /\ HasNewest(W)
  BY MigrationTypes DEF IInv, HistoryInv, Nested
<1>3. id \in Nat /\ \A m \in W : m.id < id
  BY <1>2, NextIdFacts, Numbers
<1>4. n \in Migration
  BY <1>3, Numbers DEF IInv, TypeOK, Tree, Migration
<1>5. t \in Tree
  BY <1>2, <1>4 DEF IInv, TypeOK, Tree
<1>6. /\ work' \in [Developers -> Tree]
      /\ work'[d].migrations = W \cup {n}
      /\ \A e \in Developers \ {d} : work'[e] = work[e]
      /\ W \subseteq work'[d].migrations
  BY <1>1, <1>5 DEF IInv, TypeOK
<1>7. Everything' = Everything \cup {n}
  BY <1>1, <1>6 DEF Everything
<1>8. n.by = d /\ n.id = id /\ d # 0
  BY Numbers
<1> HIDE DEF n, id, t
<1>9. \A m \in Everything : ~(m.id = n.id /\ m.by = n.by)
  <2> SUFFICES ASSUME NEW m \in Everything, m.by = d PROVE m.id # id
    BY <1>8
  <2>1. m \in W
    BY <1>8 DEF IInv, HistoryInv, OwnKept
  <2> QED
    BY <1>2, <1>3, <2>1 DEF Migration
<1>10. NamesUnique(Everything)'
  BY <1>7, <1>9 DEF IInv, HistoryInv, NamesUnique
<1>11. \A e \in Developers : work'[e].migrations \subseteq Everything'
  BY DEF Everything
<1>12. TypeOK'
  <2>1. NamesUnique(trunk.migrations)' /\ \A e \in Developers : NamesUnique(work[e].migrations)'
    BY <1>1, <1>10, <1>11 DEF NamesUnique, Everything
  <2> QED
    BY <1>1, <1>6, <2>1 DEF IInv, TypeOK, Ids
<1>13. OwnKept'
  <2> SUFFICES ASSUME NEW m \in Everything', m.by # 0
               PROVE  m \in work'[m.by].migrations
    BY DEF OwnKept
  <2>1. CASE m = n
    BY <1>6, <1>8, <2>1
  <2>2. CASE m \in Everything
    <3>1. m \in work[m.by].migrations /\ m.by \in Developers
      BY <2>2, MigrationTypes DEF IInv, HistoryInv, OwnKept, Migration
    <3> QED
      BY <1>6, <3>1
  <2> QED
    BY <1>7, <2>1, <2>2
<1>14. HasNewest(W \cup {n})
  BY <1>2, <1>4, HasNewestAdd
<1>15. ASSUME NEW e \in Developers
       PROVE  Nested(e)' /\ NewerThanCommitted(e)' /\ NewerThanSince(e)'
  <2>1. Nested(e) /\ NewerThanCommitted(e) /\ NewerThanSince(e)
    BY DEF IInv, HistoryInv
  <2>2. NewerThanSince(e)'
    BY <1>1, <2>1 DEF NewerThanSince
  <2>3. CASE e # d
    BY <1>1, <1>6, <2>1, <2>2, <2>3 DEF Nested, NewerThanCommitted, HasNewest, Ids
  <2>4. CASE e = d
    <3>1. head[d].migrations \subseteq W
      BY <2>1, <2>4 DEF Nested
    <3>2. NewerThanCommitted(d)'
      BY <1>1, <1>3, <1>6, <1>8, <2>1, <2>4, <3>1 DEF NewerThanCommitted
    <3>3. HasNewest(work[d].migrations)' /\ HasNewest(head[d].migrations)'
      BY <1>1, <1>6, <1>14, <2>1, <2>4 DEF Nested, HasNewest, Ids
    <3> QED
      BY <1>1, <1>6, <2>1, <2>2, <2>4, <3>2, <3>3 DEF Nested
  <2> QED
    BY <2>3, <2>4
<1>16. HistoryInv'
  BY <1>1, <1>10, <1>13, <1>15 DEF IInv, HistoryInv, HasNewest, Ids
<1>17. LintInv'
  BY <1>1 DEF IInv, LintInv, LintClean
<1> QED
  BY <1>12, <1>16, <1>17 DEF IInv

(* A commit makes the working copy's migrations the branch's.               *)
LEMMA CommitStep ==
    ASSUME IInv, NEW d \in Developers, Commit(d)
    PROVE  IInv'
<1>1. /\ head' = [head EXCEPT ![d] = work[d]]
      /\ UNCHANGED <<gate, trunk, work, fork, since, edits>>
      /\ rough' \in BOOLEAN
  BY DEF Commit, IInv, TypeOK, CheckSnapshot
<1>2. /\ head' \in [Developers -> Tree] /\ head'[d] = work[d]
      /\ \A e \in Developers \ {d} : head'[e] = head[e]
  BY <1>1 DEF IInv, TypeOK
<1>3. Nested(d) /\ NewerThanCommitted(d) /\ NewerThanSince(d)
  BY DEF IInv, HistoryInv
<1>4. since[d] \in Ids(head[d].migrations)
  BY DEF IInv, TypeOK
<1>5. since[d] \in Ids(work[d].migrations)
  BY <1>3, <1>4 DEF Nested, Ids
<1>6. TypeOK'
  <2>1. \A e \in Developers : since[e] \in Ids(head'[e].migrations)
    BY <1>2, <1>5 DEF IInv, TypeOK
  <2> QED
    BY <1>1, <1>2, <2>1 DEF IInv, TypeOK, NamesUnique, Ids
<1>7. Everything' = Everything /\ OwnKept'
  BY <1>1 DEF Everything, OwnKept, IInv, HistoryInv
<1>8. ASSUME NEW e \in Developers
      PROVE  Nested(e)' /\ NewerThanCommitted(e)' /\ NewerThanSince(e)'
  <2>1. CASE e # d
    BY <1>1, <1>2, <2>1 DEF IInv, HistoryInv, Nested, NewerThanCommitted,
                            NewerThanSince, HasNewest, Ids
  <2>2. CASE e = d
    <3>1. Nested(d)'
      BY <1>1, <1>2, <1>3 DEF Nested, HasNewest, Ids
    <3>2. NewerThanCommitted(d)'
      BY <1>1, <1>2 DEF NewerThanCommitted
    <3>3. ASSUME NEW m \in work[d].migrations \ fork[d].migrations
          PROVE  since[d] < m.id
      <4>1. CASE m \in head[d].migrations
        BY <1>3, <3>3, <4>1 DEF NewerThanSince
      <4>2. CASE m \notin head[d].migrations
        BY <1>3, <1>4, <3>3, <4>2 DEF NewerThanCommitted, Ids
      <4> QED
        BY <4>1, <4>2
    <3> QED
      BY <1>1, <1>2, <2>2, <3>1, <3>2, <3>3 DEF NewerThanSince
  <2> QED
    BY <2>1, <2>2
<1>9. HistoryInv'
  BY <1>1, <1>7, <1>8 DEF IInv, HistoryInv, HasNewest, Ids, NamesUnique
<1>10. LintInv'
  BY <1>1 DEF IInv, LintInv, LintClean
<1> QED
  BY <1>6, <1>9, <1>10 DEF IInv

(* However a branch and the trunk are merged, the branch then has what      *)
(* either had, and the whole trunk.                                         *)
LEMMA MergeTrees ==
    ASSUME TypeOK, HistoryInv, NEW d \in Developers, Merge(d)
    PROVE  \E h \in Tree, w \in Tree :
              /\ head' = [head EXCEPT ![d] = h]
              /\ work' = [work EXCEPT ![d] = w]
              /\ h.migrations = head[d].migrations \cup trunk.migrations
              /\ w.migrations = h.migrations
<1>1. /\ trunk \in Tree /\ head[d] \in Tree /\ fork[d] \in Tree
      /\ fork[d].migrations \subseteq trunk.migrations
  BY DEF TypeOK, HistoryInv, Nested
<1>2. ASSUME NEW t \in Tree
      PROVE  /\ PostMerge(d, t) \in Tree
             /\ PostMerge(d, t).migrations = t.migrations
  BY DEF PostMerge, Tree
<1>3. CASE FastForward(d)
  <2>1. trunk.migrations = head[d].migrations \cup trunk.migrations
    BY <1>1, <1>3 DEF FastForward
  <2> QED
    BY <1>1, <1>2, <1>3, <2>1 DEF FastForward
<1>4. CASE MergeFiles(d)
  <2>1. PICK merged \in Merged(d) : \E s, t :
          /\ s \in MergedSnapshots(d, merged)
          /\ t = [models |-> merged, snapshot |-> s,
                  migrations |-> head[d].migrations \cup trunk.migrations]
          /\ head' = [head EXCEPT ![d] = t]
          /\ work' = [work EXCEPT ![d] = PostMerge(d, t)]
    BY <1>4 DEF MergeFiles
  <2>2. PICK s, t :
          /\ s \in MergedSnapshots(d, merged)
          /\ t = [models |-> merged, snapshot |-> s,
                  migrations |-> head[d].migrations \cup trunk.migrations]
          /\ head' = [head EXCEPT ![d] = t]
          /\ work' = [work EXCEPT ![d] = PostMerge(d, t)]
    BY <2>1
  <2>3. merged \in Trees /\ s \in Trees
    BY <1>1, <2>1, <2>2 DEF Merged, MergedSnapshots, MidMerge, Tree
  <2>4. t \in Tree /\ t.migrations = head[d].migrations \cup trunk.migrations
    BY <1>1, <2>2, <2>3 DEF Tree
  <2> QED
    BY <1>2, <2>2, <2>4
<1>5. CASE MergeByHand(d)
  <2>1. PICK merged, t :
          /\ merged \in Merged(d)
          /\ t = [models |-> merged, snapshot |-> merged,
                  migrations |-> head[d].migrations \cup trunk.migrations]
          /\ head' = [head EXCEPT ![d] = t]
          /\ work' = [work EXCEPT ![d] = t]
    BY <1>5 DEF MergeByHand
  <2>2. merged \in Trees
    BY <2>1 DEF Merged
  <2>3. t \in Tree /\ t.migrations = head[d].migrations \cup trunk.migrations
    BY <1>1, <2>1, <2>2 DEF Tree
  <2> QED
    BY <2>1, <2>3
<1> QED
  BY <1>3, <1>4, <1>5 DEF Merge

(* A merge leaves what is the branch's own as it was, and newer than the     *)
(* point it began at, which only a fast-forward moves.                      *)
LEMMA MergeStep ==
    ASSUME IInv, NEW d \in Developers, Merge(d)
    PROVE  IInv'
<1>1. PICK h \in Tree, w \in Tree :
         /\ head' = [head EXCEPT ![d] = h]
         /\ work' = [work EXCEPT ![d] = w]
         /\ h.migrations = head[d].migrations \cup trunk.migrations
         /\ w.migrations = h.migrations
  BY MergeTrees DEF IInv
<1>2. /\ fork' = [fork EXCEPT ![d] = trunk]
      /\ UNCHANGED <<gate, trunk, edits>>
      /\ work[d] = head[d]
  BY DEF Merge
<1>3. /\ head' \in [Developers -> Tree] /\ head'[d] = h
      /\ work' \in [Developers -> Tree] /\ work'[d] = w
      /\ fork' \in [Developers -> Tree] /\ fork'[d] = trunk
      /\ \A e \in Developers \ {d} : /\ head'[e] = head[e] /\ work'[e] = work[e]
                                     /\ fork'[e] = fork[e]
  BY <1>1, <1>2 DEF IInv, TypeOK
<1>4. Nested(d) /\ NewerThanCommitted(d) /\ NewerThanSince(d)
  BY DEF IInv, HistoryInv
<1>5. /\ HasNewest(trunk.migrations) /\ trunk.migrations \in SUBSET Migration
      /\ head[d].migrations \in SUBSET Migration
      /\ \E m \in trunk.migrations : m.id # 0
  BY MigrationTypes DEF IInv, HistoryInv
<1>6. /\ NewestId(trunk.migrations) \in Ids(trunk.migrations)
      /\ NewestId(trunk.migrations) \in Nat
  <2>1. PICK m \in trunk.migrations : m.id # 0
    BY <1>5
  <2>2. /\ NewestId(trunk.migrations) \in {0} \cup Ids(trunk.migrations)
        /\ NewestId(trunk.migrations) \in Nat
        /\ m.id <= NewestId(trunk.migrations)
    BY <1>5, <2>1, NewestIdFacts
  <2> QED
    BY <1>5, <2>1, <2>2 DEF Migration
<1>7. /\ rough' \in BOOLEAN
      /\ since' = since \/ since' = [since EXCEPT ![d] = NewestId(trunk.migrations)]
  BY DEF Merge, FastForward, MergeFiles, MergeByHand, IInv, TypeOK
<1>8. /\ since' \in [Developers -> Nat]
      /\ since'[d] \in Ids(h.migrations)
      /\ \A e \in Developers \ {d} : since'[e] = since[e]
  <2>1. since \in [Developers -> Nat] /\ since[d] \in Ids(head[d].migrations)
    BY DEF IInv, TypeOK
  <2> QED
    BY <1>1, <1>6, <1>7, <2>1 DEF Ids
<1>9. Everything' = Everything
  <2>1. work[d].migrations \subseteq w.migrations
    BY <1>1, <1>2
  <2>2. w.migrations \subseteq work[d].migrations \cup trunk.migrations
    BY <1>1, <1>2
  <2> QED
    BY <1>2, <1>3, <2>1, <2>2 DEF Everything
<1>10. \A e \in Developers : work'[e].migrations \subseteq Everything'
  BY DEF Everything
<1>11. TypeOK'
  <2>1. NamesUnique(trunk.migrations)' /\ \A e \in Developers : NamesUnique(work[e].migrations)'
    BY <1>2, <1>9, <1>10 DEF NamesUnique, Everything, IInv, HistoryInv
  <2>2. \A e \in Developers : since'[e] \in Ids(head'[e].migrations)
    BY <1>3, <1>8 DEF IInv, TypeOK
  <2> QED
    BY <1>2, <1>3, <1>7, <1>8, <2>1, <2>2 DEF IInv, TypeOK, Ids
<1>12. OwnKept'
  <2> SUFFICES ASSUME NEW m \in Everything', m.by # 0
               PROVE  m \in work'[m.by].migrations
    BY DEF OwnKept
  <2>1. m \in work[m.by].migrations /\ m.by \in Developers
    BY <1>9, MigrationTypes DEF IInv, HistoryInv, OwnKept, Migration
  <2> QED
    BY <1>1, <1>2, <1>3, <2>1
<1>13. ASSUME NEW e \in Developers
       PROVE  Nested(e)' /\ NewerThanCommitted(e)' /\ NewerThanSince(e)'
  <2>1. CASE e # d
    BY <1>2, <1>3, <1>8, <2>1 DEF IInv, HistoryInv, Nested, NewerThanCommitted,
                                  NewerThanSince, HasNewest, Ids
  <2>2. CASE e = d
    <3>1. HasNewest(h.migrations)
      BY <1>1, <1>4, <1>5, HasNewestUnion DEF Nested
    <3>2. Nested(d)'
      BY <1>1, <1>2, <1>3, <3>1 DEF Nested, HasNewest, Ids
    <3>3. NewerThanCommitted(d)'
      BY <1>1, <1>3 DEF NewerThanCommitted
    <3>4. NewerThanSince(d)'
      <4>1. CASE since' = since
        <5>1. \A m \in h.migrations \ trunk.migrations :
                  m \in head[d].migrations \ fork[d].migrations
          BY <1>1, <1>4 DEF Nested
        <5> QED
          BY <1>3, <1>4, <4>1, <5>1 DEF NewerThanSince
      <4>2. CASE since' # since
        <5>1. FastForward(d)
          BY <4>2 DEF Merge, MergeFiles, MergeByHand
        <5>2. head'[d] = trunk
          BY <5>1 DEF FastForward, IInv, TypeOK
        <5> QED
          BY <1>3, <5>2 DEF NewerThanSince
      <4> QED
        BY <4>1, <4>2
    <3> QED
      BY <2>2, <3>2, <3>3, <3>4
  <2> QED
    BY <2>1, <2>2
<1>14. HistoryInv'
  BY <1>2, <1>5, <1>9, <1>12, <1>13 DEF IInv, HistoryInv, NamesUnique, HasNewest, Ids
<1>15. LintInv'
  BY <1>2 DEF IInv, LintInv, LintClean
<1> QED
  BY <1>11, <1>14, <1>15 DEF IInv

(* The trunk becomes the branch: what it gains is what lint has seen.        *)
LEMMA MergeToTrunkStep ==
    ASSUME IInv, NEW d \in Developers, MergeToTrunk(d)
    PROVE  IInv'
<1>1. /\ trunk' = head[d]
      /\ fork[d] = trunk
      /\ fork' = [fork EXCEPT ![d] = head[d]]
      /\ since' = [since EXCEPT ![d] = NewestId(head[d].migrations)]
      /\ UNCHANGED <<gate, work, head, edits, rough>>
      /\ CheckLint(d)
  BY DEF MergeToTrunk, Passes
<1>2. Nested(d) /\ NewerThanCommitted(d) /\ NewerThanSince(d)
  BY DEF IInv, HistoryInv
<1>3. /\ trunk.migrations \subseteq head[d].migrations
      /\ head[d].migrations \subseteq work[d].migrations
      /\ head[d].migrations \in SUBSET Migration
      /\ HasNewest(head[d].migrations)
      /\ \E m \in head[d].migrations : m.id # 0
  BY <1>1, <1>2, MigrationTypes DEF IInv, HistoryInv, Nested
<1>4. /\ NewestId(head[d].migrations) \in Ids(head[d].migrations)
      /\ NewestId(head[d].migrations) \in Nat
  <2>1. PICK m \in head[d].migrations : m.id # 0
    BY <1>3
  <2>2. /\ NewestId(head[d].migrations) \in {0} \cup Ids(head[d].migrations)
        /\ NewestId(head[d].migrations) \in Nat
        /\ m.id <= NewestId(head[d].migrations)
    BY <1>3, <2>1, NewestIdFacts
  <2> QED
    BY <1>3, <2>1, <2>2 DEF Migration
<1>5. /\ trunk' \in Tree
      /\ fork' \in [Developers -> Tree] /\ fork'[d] = head[d]
      /\ since' \in [Developers -> Nat]
      /\ since'[d] = NewestId(head[d].migrations)
      /\ \A e \in Developers \ {d} : fork'[e] = fork[e] /\ since'[e] = since[e]
  BY <1>1, <1>4 DEF IInv, TypeOK
<1>6. Everything' = Everything
  BY <1>1, <1>3 DEF Everything
<1>7. TypeOK'
  <2>1. NamesUnique(trunk.migrations)'
    BY <1>1, <1>3 DEF IInv, TypeOK, NamesUnique
  <2>2. \A e \in Developers : since'[e] \in Ids(head'[e].migrations)
    BY <1>1, <1>4, <1>5 DEF IInv, TypeOK
  <2> QED
    BY <1>1, <1>5, <2>1, <2>2 DEF IInv, TypeOK, NamesUnique, Ids
<1>8. OwnKept' /\ NamesUnique(Everything)'
  BY <1>1, <1>6 DEF IInv, HistoryInv, OwnKept, NamesUnique
<1>9. ASSUME NEW e \in Developers
      PROVE  Nested(e)' /\ NewerThanCommitted(e)' /\ NewerThanSince(e)'
  <2>1. CASE e # d
    BY <1>1, <1>3, <1>5, <2>1 DEF IInv, HistoryInv, Nested, NewerThanCommitted,
                                  NewerThanSince, HasNewest, Ids
  <2>2. CASE e = d
    BY <1>1, <1>2, <1>3, <1>5, <2>2 DEF Nested, NewerThanCommitted,
                                  NewerThanSince, HasNewest, Ids
  <2> QED
    BY <2>1, <2>2
<1>10. HistoryInv'
  BY <1>1, <1>3, <1>8, <1>9 DEF HistoryInv, HasNewest, Ids
<1>11. LintInv'
  <2> SUFFICES ASSUME gate.lint \in {"since", "all"},
                      NEW m \in head[d].migrations, m.by # 0
               PROVE  LintClean(m)
    BY <1>1 DEF LintInv, LintClean
  <2>1. CASE m \in trunk.migrations
    BY <2>1 DEF IInv, LintInv
  <2>2. CASE m \notin trunk.migrations
    <3>1. since[d] \in Nat /\ m.id \in Nat /\ since[d] < m.id
      BY <1>1, <1>2, <1>3, <2>2 DEF NewerThanSince, IInv, TypeOK, Migration
    <3>2. m \in Linted(d)
      BY <3>1 DEF Linted
    <3> QED
      BY <1>1, <3>2 DEF CheckLint, LintClean
  <2> QED
    BY <2>1, <2>2
<1> QED
  BY <1>7, <1>10, <1>11 DEF IInv

(* Every step keeps the invariant. *)
LEMMA NextIInv == IInv /\ [Next]_vars => IInv'
<1> SUFFICES ASSUME IInv, [Next]_vars PROVE IInv'
  OBVIOUS
<1>1. CASE UNCHANGED vars
  <2> USE <1>1 DEF vars
  <2>1. TypeOK'
    BY DEF IInv, TypeOK
  <2>2. Everything' = Everything
    BY DEF Everything
  <2>3. OwnKept' /\ NamesUnique(Everything)'
    BY <2>2 DEF IInv, HistoryInv, OwnKept, NamesUnique
  <2>4. \A d \in Developers :
            Nested(d)' /\ NewerThanCommitted(d)' /\ NewerThanSince(d)'
    BY DEF IInv, HistoryInv, Nested, NewerThanCommitted, NewerThanSince
  <2>5. HistoryInv'
    BY <2>3, <2>4 DEF IInv, HistoryInv
  <2>6. LintInv'
    BY DEF IInv, LintInv, LintClean
  <2> QED
    BY <2>1, <2>5, <2>6 DEF IInv
<1>2. ASSUME NEW d \in Developers, Edit(d) PROVE IInv'
  <2>1. PICK f \in File : \E x \in Versions[f] \ {work[d].models[f]} :
            work' = [work EXCEPT ![d].models[f] = x]
    BY <1>2 DEF Edit
  <2>2. PICK x \in Versions[f] : work' = [work EXCEPT ![d].models[f] = x]
    BY <2>1
  <2> DEFINE t == [work[d] EXCEPT !.models = [@ EXCEPT ![f] = x]]
  <2>3. work[d] \in Tree
    BY DEF IInv, TypeOK
  <2>4. [work[d].models EXCEPT ![f] = x] \in Trees
    BY <2>2, <2>3 DEF Tree, Trees
  <2>5. t \in Tree /\ t.migrations = work[d].migrations
    BY <2>3, <2>4 DEF Tree
  <2>6. work' = [work EXCEPT ![d] = t]
    BY <2>2
  <2>7. /\ edits < MaxEdits /\ edits' = edits + 1 /\ edits \in 0..MaxEdits
        /\ UNCHANGED <<gate, trunk, head, fork, since>> /\ rough' \in BOOLEAN
    BY <1>2 DEF Edit, IInv, TypeOK
  <2>8. edits' \in 0..MaxEdits
    BY <2>7, Numbers
  <2> QED
    BY <2>5, <2>6, <2>7, <2>8, ModelsChange
<1>3. ASSUME NEW d \in Developers, Snapshot(d) PROVE IInv'
  <2> DEFINE t == [work[d] EXCEPT !.snapshot = work[d].models]
  <2>1. t \in Tree /\ t.migrations = work[d].migrations
    BY DEF IInv, TypeOK, Tree
  <2>2. work' = [work EXCEPT ![d] = t]
    BY <1>3 DEF Snapshot
  <2>3. /\ edits' \in 0..MaxEdits /\ rough' \in BOOLEAN
        /\ UNCHANGED <<gate, trunk, head, fork, since>>
    BY <1>3 DEF Snapshot, IInv, TypeOK
  <2> QED
    BY <2>1, <2>2, <2>3, ModelsChange
<1> QED
  BY <1>1, <1>2, <1>3, MigrateStep, CommitStep, MergeStep, MergeToTrunkStep DEF Next

-----------------------------------------------------------------------------
(* Theorems *)

(* The state has its types, and no two migrations, in the trunk or in one    *)
(* working copy, ever have one file name: next_migration_id needs no clock   *)
(* it can trust, and merging never meets two files of one name.             *)
THEOREM Typed == Spec => []TypeOK
<1>1. IInv => TypeOK
  BY DEF IInv
<1> QED
  BY <1>1, InitIInv, NextIInv, PTL DEF Spec

(* If lint's rules catch what they are there for, nothing that loses values  *)
(* reaches the trunk past `molde ci`.  Told where branches begin it leaves   *)
(* out none of what a branch adds: it is all newer than that.               *)
THEOREM LossReported ==
    ASSUME LintCatches PROVE Spec => []NoSilentLoss
<1>1. IInv => NoSilentLoss
  <2> SUFFICES ASSUME IInv, gate.lint \in {"since", "all"},
                      NEW m \in trunk.migrations, m.by # 0
               PROVE  ~Losing[m.from][m.to] /\ (gate.strict => ~Refused[m.from][m.to])
    BY DEF NoSilentLoss
  <2>1. m.from \in Trees /\ m.to \in Trees /\ LintClean(m)
    BY MigrationTypes DEF IInv, LintInv, Migration
  <2> QED
    BY <2>1 DEF LintClean, LintCatches
<1> QED
  BY <1>1, InitIInv, NextIInv, PTL DEF Spec

-----------------------------------------------------------------------------
(* Chains *)

(* As long as all goes by the book, every working copy's migrations build    *)
(* its snapshot, every commit's its models, and the trunk's snapshot is of   *)
(* its models; so is, without a driver that sees half a merge, a commit's.  *)
(* A working copy's is of its models or of those last committed.            *)
Settled(tree) == ChainTo(tree.migrations, tree.models) /\ CheckSnapshot(tree)

Books(d) ==
    /\ ChainTo(work[d].migrations, work[d].snapshot)
    /\ ChainTo(head[d].migrations, head[d].models)
    /\ Settled(fork[d])
    /\ d \notin SetUp => CheckSnapshot(head[d])
    /\ work[d].snapshot \in {head[d].models, work[d].models}

ChainInv ==
    ~rough => Settled(trunk) /\ \A d \in Developers : Books(d)

(* No migration comes before itself. *)
LEMMA Irreflexive == \A m \in Migration : ~Before(m, m)
<1> SUFFICES ASSUME NEW m \in Migration PROVE ~Before(m, m)
  OBVIOUS
<1>1. m.id \in Nat /\ m.by \in {0} \cup Developers
  BY DEF Migration
<1>2. m.by \in Nat
  BY <1>1, AuthorsAreNumbers
<1> QED
  BY <1>1, <1>2 DEF Before

(* A first migration writes what its model has. *)
LEMMA ChainOfOne ==
    ASSUME NEW m \in Migration, m.from = [f \in File |-> NoFile]
    PROVE  ChainTo({m}, m.to)
<1> SUFFICES ASSUME NEW f \in File
             PROVE  /\ \A n \in Touching({m}, f) :
                          n.from[f] = EndOf({k \in Touching({m}, f) : Before(k, n)}, f)
                    /\ m.to[f] = EndOf(Touching({m}, f), f)
  BY DEF ChainTo
<1>1. m.from[f] = NoFile /\ ~Before(m, m)
  BY Irreflexive
<1>2. CASE m.to[f] = NoFile
  <2>1. Touching({m}, f) = {}
    BY <1>1, <1>2 DEF Touching, Touched
  <2> QED
    BY <1>2, <2>1 DEF EndOf
<1>3. CASE m.to[f] # NoFile
  <2>1. Touching({m}, f) = {m}
    BY <1>1, <1>3 DEF Touching, Touched
  <2>2. {k \in {m} : Before(k, m)} = {}
    BY <1>1
  <2>3. (CHOOSE k \in {m} : \A n \in {m} : ~Before(k, n)) = m
    BY <1>1
  <2> QED
    BY <1>1, <2>1, <2>2, <2>3 DEF EndOf
<1> QED
  BY <1>2, <1>3

(* A migration that is newer than all of them, and begins where they end. *)
LEMMA ChainGrows ==
    ASSUME NEW M \in SUBSET Migration, NEW n \in Migration, n \notin M,
           \A m \in M : m.id < n.id,
           ChainTo(M, n.from)
    PROVE  ChainTo(M \cup {n}, n.to)
<1> SUFFICES ASSUME NEW f \in File
             PROVE  /\ \A m \in Touching(M \cup {n}, f) :
                          m.from[f] =
                            EndOf({k \in Touching(M \cup {n}, f) : Before(k, m)}, f)
                    /\ n.to[f] = EndOf(Touching(M \cup {n}, f), f)
  BY DEF ChainTo
<1> DEFINE C == Touching(M, f)
           D == Touching(M \cup {n}, f)
<1>1. /\ \A m \in C : m.from[f] = EndOf({k \in C : Before(k, m)}, f)
      /\ n.from[f] = EndOf(C, f)
  BY DEF ChainTo
<1>2. C \subseteq M /\ \A m \in M \cup {n} : m.id \in Nat
  BY DEF Touching, Migration
<1>3. \A m \in C : Before(m, n) /\ ~Before(n, m)
  BY <1>2 DEF Before
<1>4. ~Before(n, n)
  BY Irreflexive
<1>5. CASE f \notin Touched(n)
  <2>1. D = C
    BY <1>5 DEF Touching
  <2>2. n.to[f] = n.from[f]
    BY <1>5 DEF Touched
  <2> QED
    BY <1>1, <2>1, <2>2
<1>6. CASE f \in Touched(n)
  <2>1. D = C \cup {n}
    BY <1>6 DEF Touching
  <2> HIDE DEF C, D
  <2>2. \A m \in C : {k \in D : Before(k, m)} = {k \in C : Before(k, m)}
    BY <1>3, <2>1
  <2>3. {k \in D : Before(k, n)} = C
    BY <1>3, <1>4, <2>1
  <2>4. /\ n \in D /\ \A k \in D : ~Before(n, k)
        /\ \A m \in D : (\A k \in D : ~Before(m, k)) => m = n
    BY <1>3, <1>4, <2>1
  <2>5. (CHOOSE m \in D : \A k \in D : ~Before(m, k)) = n
    BY <2>4
  <2>6. EndOf(D, f) = n.to[f]
    BY <2>4, <2>5 DEF EndOf
  <2>7. \A m \in D : m.from[f] = EndOf({k \in D : Before(k, m)}, f)
    BY <1>1, <2>1, <2>2, <2>3
  <2> QED
    BY <2>6, <2>7 DEF D
<1> QED
  BY <1>5, <1>6

(* Two continuations of one history that touch no file in common. *)
LEMMA ChainsMeet ==
    ASSUME NEW M, NEW N, NEW B, B \subseteq M, B \subseteq N,
           NEW ours, NEW theirs, NEW base, NEW merged,
           ChainTo(M, ours), ChainTo(N, theirs), ChainTo(B, base),
           \A m \in M \ B, n \in N \ B : Touched(m) \cap Touched(n) = {},
           \A f \in File :
              merged[f] = IF theirs[f] # base[f] THEN theirs[f] ELSE ours[f]
    PROVE  ChainTo(M \cup N, merged)
<1> SUFFICES ASSUME NEW f \in File
             PROVE  /\ \A m \in Touching(M \cup N, f) :
                          m.from[f] =
                            EndOf({k \in Touching(M \cup N, f) : Before(k, m)}, f)
                    /\ merged[f] = EndOf(Touching(M \cup N, f), f)
  BY DEF ChainTo
<1>1. /\ \A m \in Touching(M, f) :
            m.from[f] = EndOf({k \in Touching(M, f) : Before(k, m)}, f)
      /\ ours[f] = EndOf(Touching(M, f), f)
  BY DEF ChainTo
<1>2. /\ \A m \in Touching(N, f) :
            m.from[f] = EndOf({k \in Touching(N, f) : Before(k, m)}, f)
      /\ theirs[f] = EndOf(Touching(N, f), f)
  BY DEF ChainTo
<1>3. base[f] = EndOf(Touching(B, f), f)
  BY DEF ChainTo
<1>4. CASE \A m \in M \ B : f \notin Touched(m)
  <2>1. Touching(M, f) = Touching(B, f) /\ Touching(M \cup N, f) = Touching(N, f)
    BY <1>4 DEF Touching
  <2>2. merged[f] = theirs[f]
    BY <1>1, <1>3, <2>1
  <2> QED
    BY <1>2, <2>1, <2>2
<1>5. CASE \A n \in N \ B : f \notin Touched(n)
  <2>1. Touching(N, f) = Touching(B, f) /\ Touching(M \cup N, f) = Touching(M, f)
    BY <1>5 DEF Touching
  <2>2. merged[f] = ours[f]
    BY <1>2, <1>3, <2>1
  <2> QED
    BY <1>1, <2>1, <2>2
<1> QED
  BY <1>4, <1>5

(* The first migration builds the first models. *)
LEMMA InitChain == Init => ChainInv
<1> SUFFICES ASSUME Init PROVE ChainInv
  OBVIOUS
<1>1. PICK m, first :
         /\ m \in Trees
         /\ first = [id |-> 1, by |-> 0, from |-> [f \in File |-> NoFile],
                     to |-> m]
         /\ trunk = [models |-> m, snapshot |-> m, migrations |-> {first}]
  BY DEF Init
<1>2. first \in Migration
  BY <1>1, NoFilesIsTree DEF Migration
<1>3. ChainTo({first}, m)
  BY <1>1, <1>2, ChainOfOne
<1>4. Settled(trunk) /\ ChainTo(trunk.migrations, trunk.snapshot)
  BY <1>1, <1>3 DEF Settled, CheckSnapshot
<1>5. /\ work = [d \in Developers |-> trunk] /\ head = work /\ fork = work
  BY DEF Init
<1> QED
  BY <1>4, <1>5 DEF ChainInv, Books, Settled, CheckSnapshot

(* `molde migrate` continues the chains from the snapshot to the models.     *)
LEMMA MigrateChain ==
    ASSUME IInv, ChainInv, NEW d \in Developers, NEW now \in Clock,
           Migrate(d, now)
    PROVE  ChainInv'
<1> DEFINE W == work[d].migrations
           n == [id |-> NextId(W, now), by |-> d, from |-> work[d].snapshot,
                 to |-> work[d].models]
<1>1. /\ work' = [work EXCEPT ![d] =
              [models |-> work[d].models, snapshot |-> work[d].models,
               migrations |-> W \cup {n}]]
      /\ UNCHANGED <<gate, trunk, head, fork, since, edits, rough>>
  BY DEF Migrate
<1> SUFFICES ASSUME ~rough PROVE Settled(trunk)' /\ \A e \in Developers : Books(e)'
  BY <1>1 DEF ChainInv
<1>2. Settled(trunk) /\ \A e \in Developers : Books(e)
  BY DEF ChainInv
<1>3. /\ W \in SUBSET Migration /\ HasNewest(W) /\ now \in Nat
  BY MigrationTypes, Numbers DEF IInv, HistoryInv, Nested
<1>4. NextId(W, now) \in Nat /\ \A m \in W : m.id < NextId(W, now)
  BY <1>3, NextIdFacts
<1>5. n \in Migration
  BY <1>4 DEF IInv, TypeOK, Tree, Migration
<1>6. n \notin W
  BY <1>4
<1>7. ChainTo(W, work[d].snapshot)
  BY <1>2 DEF Books
<1>8. ChainTo(W \cup {n}, work[d].models)
  BY <1>3, <1>4, <1>5, <1>6, <1>7, ChainGrows
<1>9. /\ work'[d].migrations = W \cup {n} /\ work'[d].snapshot = work[d].models
      /\ work'[d].models = work[d].models
      /\ \A e \in Developers \ {d} : work'[e] = work[e]
  BY <1>1 DEF IInv, TypeOK
<1>10. \A e \in Developers : ChainTo(work'[e].migrations, work'[e].snapshot)
  BY <1>2, <1>8, <1>9 DEF Books
<1>11. Settled(trunk)'
  BY <1>1, <1>2 DEF Settled, CheckSnapshot
<1>12. ASSUME NEW e \in Developers PROVE Books(e)'
  <2>1. Books(e)
    BY <1>2
  <2>2. work'[e].snapshot \in {head[e].models, work'[e].models}
    BY <1>9, <2>1 DEF Books
  <2> QED
    BY <1>1, <1>10, <2>1, <2>2 DEF Books, Settled, CheckSnapshot
<1> QED
  BY <1>11, <1>12

(* A commit by the book has the snapshot of its models. *)
LEMMA CommitChain ==
    ASSUME IInv, ChainInv, NEW d \in Developers, Commit(d)
    PROVE  ChainInv'
<1>1. /\ head' = [head EXCEPT ![d] = work[d]]
      /\ rough' = (rough \/ ~CheckSnapshot(work[d]))
      /\ UNCHANGED <<gate, trunk, work, fork, since, edits>>
  BY DEF Commit
<1> SUFFICES ASSUME ~rough' PROVE Settled(trunk)' /\ \A e \in Developers : Books(e)'
  BY DEF ChainInv
<1>2. CheckSnapshot(work[d]) /\ Settled(trunk) /\ \A e \in Developers : Books(e)
  BY <1>1 DEF ChainInv
<1>3. head'[d] = work[d] /\ \A e \in Developers \ {d} : head'[e] = head[e]
  BY <1>1 DEF IInv, TypeOK
<1>4. ASSUME NEW e \in Developers PROVE Books(e)'
  <2>1. Books(e)
    BY <1>2
  <2>2. CASE e = d
    <3>1. /\ ChainTo(head'[d].migrations, head'[d].models)
          /\ CheckSnapshot(head[d])'
          /\ work[d].snapshot = head'[d].models
      BY <1>2, <1>3, <2>1, <2>2 DEF Books, CheckSnapshot
    <3> QED
      BY <1>1, <2>1, <2>2, <3>1 DEF Books, Settled, CheckSnapshot
  <2>3. CASE e # d
    BY <1>1, <1>3, <2>1, <2>3 DEF Books, Settled, CheckSnapshot
  <2> QED
    BY <2>2, <2>3
<1> QED
  BY <1>1, <1>2, <1>4 DEF Settled, CheckSnapshot

(* A merge of branches that stay apart continues both, and resolves to the   *)
(* models it merges, by the hook or because git merges the snapshot as it    *)
(* does the models.                                                         *)
LEMMA MergeChain ==
    ASSUME IInv, ChainInv, NEW d \in Developers, Merge(d)
    PROVE  ChainInv'
<1>1. /\ fork' = [fork EXCEPT ![d] = trunk]
      /\ UNCHANGED <<gate, trunk, edits>>
      /\ rough => rough'
  <2>1. CASE FastForward(d)
    BY <2>1 DEF Merge, FastForward
  <2>2. CASE MergeFiles(d)
    BY <2>2 DEF Merge, MergeFiles
  <2>3. CASE MergeByHand(d)
    BY <2>3 DEF Merge, MergeByHand
  <2> QED
    BY <2>1, <2>2, <2>3 DEF Merge
<1> SUFFICES ASSUME ~rough' PROVE Settled(trunk)' /\ \A e \in Developers : Books(e)'
  BY DEF ChainInv
<1>2. ~rough /\ Settled(trunk) /\ \A e \in Developers : Books(e)
  BY <1>1 DEF ChainInv
<1>3. ChainTo(trunk.migrations, trunk.models) /\ trunk.snapshot = trunk.models
  BY <1>2 DEF Settled, CheckSnapshot
<1>4. /\ trunk \in Tree /\ fork[d] \in Tree /\ head[d] \in Tree
      /\ fork[d].migrations \subseteq trunk.migrations
      /\ fork[d].migrations \subseteq head[d].migrations
  BY DEF IInv, TypeOK, HistoryInv, Nested
<1>5. PICK h, w :
         /\ head' = [head EXCEPT ![d] = h]
         /\ work' = [work EXCEPT ![d] = w]
         /\ ChainTo(h.migrations, h.models)
         /\ ChainTo(w.migrations, w.snapshot)
         /\ d \notin SetUp => h.snapshot = h.models
         /\ w.snapshot = h.models
  <2>1. CASE FastForward(d)
    <3>1. /\ head' = [head EXCEPT ![d] = trunk]
          /\ work' = [work EXCEPT ![d] = PostMerge(d, trunk)]
      BY <2>1 DEF FastForward
    <3>2. /\ ChainTo(PostMerge(d, trunk).migrations, PostMerge(d, trunk).snapshot)
          /\ PostMerge(d, trunk).snapshot = trunk.models
      BY <1>3, <1>4 DEF PostMerge, Tree
    <3> QED
      BY <1>3, <3>1, <3>2
  <2>2. CASE MergeFiles(d)
    <3>1. PICK merged \in Merged(d) : \E s, t :
            /\ s \in MergedSnapshots(d, merged)
            /\ t = [models |-> merged, snapshot |-> s,
                    migrations |-> head[d].migrations \cup trunk.migrations]
            /\ head' = [head EXCEPT ![d] = t]
            /\ work' = [work EXCEPT ![d] = PostMerge(d, t)]
      BY <2>2 DEF MergeFiles
    <3>2. PICK s, t :
            /\ s \in MergedSnapshots(d, merged)
            /\ t = [models |-> merged, snapshot |-> s,
                    migrations |-> head[d].migrations \cup trunk.migrations]
            /\ head' = [head EXCEPT ![d] = t]
            /\ work' = [work EXCEPT ![d] = PostMerge(d, t)]
      BY <3>1
    <3>3. Conflicts(d) = {} /\ Apart(d)
      BY <2>2 DEF MergeFiles
    <3>4. merged \in Trees /\ \A f \in File :
              merged[f] = IF trunk.models[f] # fork[d].models[f]
                          THEN trunk.models[f] ELSE head[d].models[f]
      BY <3>1, <3>3 DEF Merged, Theirs
    <3>5. /\ ChainTo(head[d].migrations, head[d].models)
          /\ ChainTo(fork[d].migrations, fork[d].models)
          /\ fork[d].snapshot = fork[d].models
          /\ d \notin SetUp => head[d].snapshot = head[d].models
      BY <1>2 DEF Books, Settled, CheckSnapshot
    <3>6. ChainTo(head[d].migrations \cup trunk.migrations, merged)
      BY <1>3, <1>4, <3>3, <3>4, <3>5, ChainsMeet DEF Apart
    <3>7. d \notin SetUp => s = merged
      <4> SUFFICES ASSUME d \notin SetUp PROVE s = merged
        OBVIOUS
      <4>1. /\ DOMAIN merged = File /\ merged = [f \in File |-> merged[f]]
            /\ head[d].models = [f \in File |-> head[d].models[f]]
            /\ trunk.models = [f \in File |-> trunk.models[f]]
        BY <1>4, <3>4 DEF Tree, Trees
      <4>2. head[d].models = fork[d].models => merged = trunk.models
        BY <3>4, <4>1
      <4>3. head[d].models = trunk.models => merged = trunk.models
        BY <3>4, <4>1
      <4>4. trunk.models = fork[d].models => merged = head[d].models
        BY <3>4, <4>1
      <4> QED
        BY <1>3, <3>2, <3>5, <4>2, <4>3, <4>4 DEF MergedSnapshots
    <3>8. /\ ChainTo(t.migrations, t.models)
          /\ ChainTo(PostMerge(d, t).migrations, PostMerge(d, t).snapshot)
          /\ d \notin SetUp => t.snapshot = t.models
          /\ PostMerge(d, t).snapshot = t.models
      BY <3>2, <3>6, <3>7 DEF PostMerge
    <3> QED
      BY <3>2, <3>8
  <2>3. CASE MergeByHand(d)
    BY <2>3 DEF MergeByHand
  <2> QED
    BY <2>1, <2>2, <2>3 DEF Merge
<1>6. /\ head'[d] = h /\ work'[d] = w /\ fork'[d] = trunk
      /\ \A e \in Developers \ {d} : /\ head'[e] = head[e] /\ work'[e] = work[e]
                                     /\ fork'[e] = fork[e]
  BY <1>1, <1>5 DEF IInv, TypeOK
<1>7. ASSUME NEW e \in Developers PROVE Books(e)'
  <2>1. CASE e = d
    BY <1>2, <1>5, <1>6, <2>1 DEF Books, Settled, CheckSnapshot
  <2>2. CASE e # d
    <3>1. Books(e)
      BY <1>2
    <3> QED
      BY <1>6, <2>2, <3>1 DEF Books, Settled, CheckSnapshot
  <2> QED
    BY <2>1, <2>2
<1> QED
  BY <1>1, <1>2, <1>7 DEF Settled, CheckSnapshot

(* The trunk becomes a tree whose snapshot CI has compared. *)
LEMMA MergeToTrunkChain ==
    ASSUME IInv, ChainInv, NEW d \in Developers, MergeToTrunk(d)
    PROVE  ChainInv'
<1>1. /\ trunk' = head[d]
      /\ fork' = [fork EXCEPT ![d] = head[d]]
      /\ UNCHANGED <<gate, work, head, edits, rough>>
      /\ CheckSnapshot(head[d])
  BY DEF MergeToTrunk, Passes
<1> SUFFICES ASSUME ~rough PROVE Settled(trunk)' /\ \A e \in Developers : Books(e)'
  BY <1>1 DEF ChainInv
<1>2. \A e \in Developers : Books(e)
  BY DEF ChainInv
<1>3. Settled(head[d])
  BY <1>1, <1>2 DEF Books, Settled
<1>4. fork'[d] = head[d] /\ \A e \in Developers \ {d} : fork'[e] = fork[e]
  BY <1>1 DEF IInv, TypeOK
<1>5. \A e \in Developers : Settled(fork[e])'
  BY <1>2, <1>3, <1>4 DEF Books, Settled, CheckSnapshot
<1>6. ASSUME NEW e \in Developers PROVE Books(e)'
  <2>1. Books(e) /\ Settled(fork[e])'
    BY <1>2, <1>5
  <2> QED
    BY <1>1, <2>1 DEF Books, CheckSnapshot
<1> QED
  BY <1>1, <1>3, <1>6 DEF Settled, CheckSnapshot

(* Every step keeps the chains. *)
LEMMA NextChain == IInv /\ ChainInv /\ [Next]_vars => ChainInv'
<1> SUFFICES ASSUME IInv, ChainInv, [Next]_vars PROVE ChainInv'
  OBVIOUS
<1>1. CASE UNCHANGED vars
  <2>1. \A d \in Developers : Books(d) => Books(d)'
    BY <1>1 DEF vars, Books, Settled, CheckSnapshot
  <2> QED
    BY <1>1, <2>1 DEF vars, ChainInv, Settled, CheckSnapshot
<1>2. ASSUME NEW d \in Developers, Edit(d) PROVE ChainInv'
  <2>1. PICK f \in File : \E x \in Versions[f] \ {work[d].models[f]} :
            work' = [work EXCEPT ![d].models[f] = x]
    BY <1>2 DEF Edit
  <2>2. PICK x : work' = [work EXCEPT ![d].models[f] = x]
    BY <2>1
  <2>3. /\ \A e \in Developers : /\ work'[e].migrations = work[e].migrations
                                 /\ work'[e].snapshot = work[e].snapshot
        /\ \A e \in Developers \ {d} : work'[e].models = work[e].models
    BY <2>2 DEF IInv, TypeOK, Tree
  <2>4. /\ work[d].models = head[d].models
        /\ UNCHANGED <<gate, trunk, head, fork, since, rough>>
    BY <1>2 DEF Edit
  <2>5. \A e \in Developers : Books(e) =>
            work'[e].snapshot \in {head[e].models, work'[e].models}
    BY <2>3, <2>4 DEF Books
  <2>6. \A e \in Developers : Books(e) => Books(e)'
    BY <2>3, <2>4, <2>5 DEF Books, Settled, CheckSnapshot
  <2> QED
    BY <2>4, <2>6 DEF ChainInv, Settled, CheckSnapshot
<1>3. ASSUME NEW d \in Developers, Snapshot(d) PROVE ChainInv'
  BY <1>3 DEF Snapshot, ChainInv
<1> QED
  BY <1>1, <1>2, <1>3, MigrateChain, CommitChain, MergeChain,
     MergeToTrunkChain DEF Next

(* For a team that goes by the book the trunk's migrations are, file by      *)
(* file, one chain from nothing to the trunk's models.                      *)
THEOREM TrunkChains == Spec => []TrunkAddsUp
<1>1. IInv /\ ChainInv => TrunkAddsUp
  BY DEF ChainInv, TrunkAddsUp, Settled
<1>2. Init => IInv /\ ChainInv
  BY InitIInv, InitChain
<1>3. (IInv /\ ChainInv) /\ [Next]_vars => (IInv /\ ChainInv)'
  BY NextIInv, NextChain
<1> QED
  BY <1>1, <1>2, <1>3, PTL DEF Spec

(* For a team that goes by the book a new migration has what its author has  *)
(* changed since the last commit, and nothing that was merged.              *)
THEOREM MigrationsAreOwn == Spec => OwnChanges
<1> DEFINE New(d) == work'[d].migrations
                       \ (work[d].migrations \cup trunk.migrations)
           Own == ~rough =>
              \A d \in Developers : \A m \in New(d) :
                  Touched(m) =
                      {f \in File : work[d].models[f] # head[d].models[f]}
<1>1. IInv /\ ChainInv /\ [Next]_vars => [Own]_vars
  <2> SUFFICES ASSUME IInv, ChainInv, Next, ~rough,
                      NEW d \in Developers, NEW m \in New(d)
               PROVE  Touched(m) =
                        {f \in File : work[d].models[f] # head[d].models[f]}
    OBVIOUS
  <2>1. work \in [Developers -> Tree]
    BY DEF IInv, TypeOK
  <2>2. ASSUME NEW c \in Developers, Edit(c) \/ Snapshot(c) PROVE FALSE
    <3>1. PICK t : /\ work' = [work EXCEPT ![c] = t]
                   /\ t.migrations = work[c].migrations
      BY <2>1, <2>2 DEF Edit, Snapshot, Tree
    <3> QED
      BY <2>1, <3>1
  <2>3. ASSUME NEW c \in Developers, Commit(c) \/ MergeToTrunk(c) PROVE FALSE
    BY <2>3 DEF Commit, MergeToTrunk
  <2>4. ASSUME NEW c \in Developers, Merge(c) PROVE FALSE
    <3>1. PICK w : /\ work' = [work EXCEPT ![c] = w]
                   /\ w.migrations = head[c].migrations \cup trunk.migrations
      BY <2>4, MergeTrees DEF IInv
    <3>2. work[c] = head[c]
      BY <2>4 DEF Merge
    <3> QED
      BY <2>1, <3>1, <3>2
  <2>5. ASSUME NEW c \in Developers, NEW now \in Clock, Migrate(c, now)
        PROVE  Touched(m) =
                 {f \in File : work[d].models[f] # head[d].models[f]}
    <3> DEFINE n == [id |-> NextId(work[c].migrations, now), by |-> c,
                     from |-> work[c].snapshot, to |-> work[c].models]
    <3>1. /\ work[c].models # work[c].snapshot
          /\ work' = [work EXCEPT ![c] =
                [models |-> work[c].models, snapshot |-> work[c].models,
                 migrations |-> work[c].migrations \cup {n}]]
      BY <2>5 DEF Migrate
    <3>2. d = c /\ m = n
      BY <2>1, <3>1
    <3>3. m.from = head[d].models /\ m.to = work[d].models
      BY <3>1, <3>2 DEF ChainInv, Books
    <3> QED
      BY <3>3 DEF Touched
  <2> QED
    BY <2>2, <2>3, <2>4, <2>5 DEF Next
<1>2. Init => IInv /\ ChainInv
  BY InitIInv, InitChain
<1>3. (IInv /\ ChainInv) /\ [Next]_vars => (IInv /\ ChainInv)'
  BY NextIInv, NextChain
<1> QED
  BY <1>1, <1>2, <1>3, PTL DEF Spec, OwnChanges

-----------------------------------------------------------------------------
(* Folding over a list *)

(* A set of places in a list has a last one. *)
LEMMA LastPlace ==
    ASSUME NEW n \in Nat, NEW S \in SUBSET (1..n), S # {}
    PROVE  Max(S) \in S /\ \A y \in S : y <= Max(S)
<1> DEFINE T == {k \in Nat : \A y \in S : y <= k}
<1>1. n \in T /\ T \in SUBSET Nat
  OBVIOUS
<1>2. PICK k \in T : \A j \in T : k <= j
  BY <1>1, LeastNumber
<1>3. k \in S
  <2>1. SUFFICES ASSUME k \notin S PROVE FALSE
    OBVIOUS
  <2>2. \A y \in S : y \in Nat /\ y <= k /\ y # k /\ y >= 1
    BY <1>2, <2>1
  <2>3. PICK y \in S : TRUE
    OBVIOUS
  <2>4. k \in Nat /\ k # 0
    BY <2>2, <2>3
  <2>5. k - 1 \in Nat /\ \A x \in S : x <= k - 1
    BY <2>2, <2>4
  <2> QED
    BY <1>2, <2>4, <2>5
<1>4. \A y \in S : k >= y
  BY <1>2
<1>5. Max(S) \in S /\ \A y \in S : Max(S) >= y
  BY <1>3, <1>4 DEF Max
<1> QED
  BY <1>5

(* What FoldLeft makes of the places S of a list: the statements there, run   *)
(* in their order.                                                          *)
RunSets(g, D, s, ops) ==
    g = [S \in SUBSET D |->
           IF S = {} THEN s ELSE Run(g[S \ {Max(S)}], ops[Max(S)])]

(* Such a function exists, whatever the list. *)
LEMMA RunSetsExist ==
    ASSUME NEW n \in Nat, NEW s, NEW ops PROVE \E g : RunSets(g, 1..n, s, ops)
<1> DEFINE Without == {m \in Nat : ~\E g : RunSets(g, 1..m, s, ops)}
<1>1. SUFFICES ASSUME Without # {} PROVE FALSE
  OBVIOUS
<1>2. PICK m \in Without : \A k \in Without : m <= k
  BY <1>1, LeastNumber
<1>3. CASE m = 0
  <2> DEFINE g == [S \in SUBSET (1..0) |-> s]
  <2>1. g = [S \in SUBSET (1..0) |->
               IF S = {} THEN s ELSE Run(g[S \ {Max(S)}], ops[Max(S)])]
    <3>1. \A S \in SUBSET (1..0) : S = {}
      OBVIOUS
    <3> QED
      BY <3>1
  <2> HIDE DEF g
  <2> QED
    BY <1>2, <1>3, <2>1, Zenon DEF RunSets
<1>4. CASE m # 0
  <2>1. m \in Nat /\ m - 1 \in Nat /\ m - 1 \notin Without
    BY <1>2, <1>4
  <2>2. PICK g : RunSets(g, 1..(m - 1), s, ops)
    BY <2>1
  <2> DEFINE h == [S \in SUBSET (1..m) |->
                     IF m \in S THEN Run(g[S \ {m}], ops[m]) ELSE g[S]]
             Step(S) == IF S = {} THEN s ELSE Run(h[S \ {Max(S)}], ops[Max(S)])
  <2>3. \A S \in SUBSET (1..m) :
           h[S] = IF m \in S THEN Run(g[S \ {m}], ops[m]) ELSE g[S]
    BY Zenon
  <2>4. h = [S \in SUBSET (1..m) |-> h[S]]
    OBVIOUS
  <2>5. \A S \in SUBSET (1..(m - 1)) :
           g[S] = IF S = {} THEN s ELSE Run(g[S \ {Max(S)}], ops[Max(S)])
    BY <2>2, Zenon DEF RunSets
  <2> HIDE DEF h
  <2>6. \A S \in SUBSET (1..(m - 1)) : h[S] = g[S]
    <3> TAKE S \in SUBSET (1..(m - 1))
    <3>1. S \in SUBSET (1..m) /\ m \notin S
      BY <2>1
    <3> QED
      BY <2>3, <3>1
  <2>7. \A S \in SUBSET (1..m) : h[S] = Step(S)
    <3> TAKE S \in SUBSET (1..m)
    <3>1. CASE m \in S
      <4>1. Max(S) = m
        <5>1. Max(S) \in S /\ \A y \in S : y <= Max(S)
          BY <2>1, <3>1, LastPlace
        <5>2. Max(S) \in 1..m
          BY <5>1
        <5> QED
          BY <2>1, <3>1, <5>1, <5>2
      <4>2. S \ {m} \in SUBSET (1..(m - 1))
        BY <2>1
      <4>3. h[S \ {m}] = g[S \ {m}]
        BY <2>6, <4>2
      <4> QED
        BY <2>3, <3>1, <4>1, <4>3
    <3>2. CASE m \notin S
      <4>1. S \in SUBSET (1..(m - 1))
        BY <2>1, <3>2
      <4>2. S \ {Max(S)} \in SUBSET (1..(m - 1))
        BY <4>1
      <4>3. h[S] = g[S] /\ h[S \ {Max(S)}] = g[S \ {Max(S)}]
        BY <2>6, <4>1, <4>2
      <4> QED
        BY <2>5, <4>1, <4>3
    <3> QED
      BY <3>1, <3>2
  <2>8. h = [S \in SUBSET (1..m) |-> Step(S)]
    BY <2>4, <2>7
  <2>9. RunSets(h, 1..m, s, ops)
    BY <2>8, Zenon DEF RunSets
  <2> QED
    BY <1>2, <2>9
<1> QED
  BY <1>3, <1>4

(* A run of the list, statement by statement. *)
Runs(c, s, ops) ==
    /\ c[0] = s
    /\ \A i \in 1..Len(ops) : c[i] = Run(c[i - 1], ops[i])

(* FoldLeft runs it. *)
LEMMA FoldRuns ==
    ASSUME NEW s, NEW ops, IsList(ops)
    PROVE  \E c : Runs(c, s, ops) /\ FoldLeft(Run, s, ops) = c[Len(ops)]
<1> DEFINE n == Len(ops)
           D == DOMAIN ops
           iter == CHOOSE g : g = [S \in SUBSET D |->
                      IF S = {} THEN s ELSE Run(g[S \ {Max(S)}], ops[Max(S)])]
<1>1. n \in Nat /\ D = 1..n
  BY ListFacts
<1>2. FoldLeft(Run, s, ops) = iter[D]
  BY DEF FoldLeft, MapThenFoldSet
<1>3. RunSets(iter, D, s, ops)
  <2>1. \E g : RunSets(g, D, s, ops)
    <3> HIDE DEF D
    <3> QED
      BY <1>1, RunSetsExist
  <2> QED
    BY <2>1, Zenon DEF RunSets
<1> HIDE DEF iter
<1>4. \A S \in SUBSET (1..n) :
         iter[S] = IF S = {} THEN s ELSE Run(iter[S \ {Max(S)}], ops[Max(S)])
  <2>1. \A S \in SUBSET D :
           iter[S] = IF S = {} THEN s ELSE Run(iter[S \ {Max(S)}], ops[Max(S)])
    BY <1>3, Zenon DEF RunSets
  <2> QED
    BY <1>1, <2>1
<1> DEFINE c == [i \in 0..n |-> iter[1..i]]
<1>5. c[0] = s
  <2>1. 1..0 = {} /\ {} \in SUBSET (1..n) /\ 0 \in 0..n
    BY <1>1
  <2> QED
    BY <1>4, <2>1
<1>6. ASSUME NEW i \in 1..n PROVE c[i] = Run(c[i - 1], ops[i])
  <2>1. 1..i \in SUBSET (1..n) /\ i \in 1..i /\ i \in 0..n /\ i - 1 \in 0..n
    BY <1>1
  <2>2. Max(1..i) = i
    <3>1. Max(1..i) \in 1..i /\ \A y \in 1..i : y <= Max(1..i)
      BY <1>1, <2>1, LastPlace
    <3> QED
      BY <1>1, <2>1, <3>1
  <2>3. (1..i) \ {i} = 1..(i - 1)
    BY <1>1
  <2> QED
    BY <1>4, <2>1, <2>2, <2>3
<1>7. FoldLeft(Run, s, ops) = c[n]
  BY <1>1, <1>2
<1> QED
  BY <1>5, <1>6, <1>7 DEF Runs

(* The same of a list of migrations, each of which runs its own list. *)
UpSets(g, D, s, list) ==
    g = [S \in SUBSET D |->
           IF S = {} THEN s ELSE RunUp(g[S \ {Max(S)}], list[Max(S)])]

(* Such a function exists, whatever the list. *)
LEMMA UpSetsExist ==
    ASSUME NEW n \in Nat, NEW s, NEW list PROVE \E g : UpSets(g, 1..n, s, list)
<1> DEFINE Without == {m \in Nat : ~\E g : UpSets(g, 1..m, s, list)}
<1>1. SUFFICES ASSUME Without # {} PROVE FALSE
  OBVIOUS
<1>2. PICK m \in Without : \A k \in Without : m <= k
  BY <1>1, LeastNumber
<1>3. CASE m = 0
  <2> DEFINE g == [S \in SUBSET (1..0) |-> s]
  <2>1. g = [S \in SUBSET (1..0) |->
               IF S = {} THEN s ELSE RunUp(g[S \ {Max(S)}], list[Max(S)])]
    <3>1. \A S \in SUBSET (1..0) : S = {}
      OBVIOUS
    <3> QED
      BY <3>1
  <2> HIDE DEF g
  <2> QED
    BY <1>2, <1>3, <2>1, Zenon DEF UpSets
<1>4. CASE m # 0
  <2>1. m \in Nat /\ m - 1 \in Nat /\ m - 1 \notin Without
    BY <1>2, <1>4
  <2>2. PICK g : UpSets(g, 1..(m - 1), s, list)
    BY <2>1
  <2> DEFINE h == [S \in SUBSET (1..m) |->
                     IF m \in S THEN RunUp(g[S \ {m}], list[m]) ELSE g[S]]
             Step(S) == IF S = {} THEN s ELSE RunUp(h[S \ {Max(S)}], list[Max(S)])
  <2>3. \A S \in SUBSET (1..m) :
           h[S] = IF m \in S THEN RunUp(g[S \ {m}], list[m]) ELSE g[S]
    BY Zenon
  <2>4. h = [S \in SUBSET (1..m) |-> h[S]]
    OBVIOUS
  <2>5. \A S \in SUBSET (1..(m - 1)) :
           g[S] = IF S = {} THEN s ELSE RunUp(g[S \ {Max(S)}], list[Max(S)])
    BY <2>2, Zenon DEF UpSets
  <2> HIDE DEF h
  <2>6. \A S \in SUBSET (1..(m - 1)) : h[S] = g[S]
    <3> TAKE S \in SUBSET (1..(m - 1))
    <3>1. S \in SUBSET (1..m) /\ m \notin S
      BY <2>1
    <3> QED
      BY <2>3, <3>1
  <2>7. \A S \in SUBSET (1..m) : h[S] = Step(S)
    <3> TAKE S \in SUBSET (1..m)
    <3>1. CASE m \in S
      <4>1. Max(S) = m
        <5>1. Max(S) \in S /\ \A y \in S : y <= Max(S)
          BY <2>1, <3>1, LastPlace
        <5>2. Max(S) \in 1..m
          BY <5>1
        <5> QED
          BY <2>1, <3>1, <5>1, <5>2
      <4>2. S \ {m} \in SUBSET (1..(m - 1))
        BY <2>1
      <4>3. h[S \ {m}] = g[S \ {m}]
        BY <2>6, <4>2
      <4> QED
        BY <2>3, <3>1, <4>1, <4>3
    <3>2. CASE m \notin S
      <4>1. S \in SUBSET (1..(m - 1))
        BY <2>1, <3>2
      <4>2. S \ {Max(S)} \in SUBSET (1..(m - 1))
        BY <4>1
      <4>3. h[S] = g[S] /\ h[S \ {Max(S)}] = g[S \ {Max(S)}]
        BY <2>6, <4>1, <4>2
      <4> QED
        BY <2>5, <4>1, <4>3
    <3> QED
      BY <3>1, <3>2
  <2>8. h = [S \in SUBSET (1..m) |-> Step(S)]
    BY <2>4, <2>7
  <2>9. UpSets(h, 1..m, s, list)
    BY <2>8, Zenon DEF UpSets
  <2> QED
    BY <1>2, <2>9
<1> QED
  BY <1>3, <1>4

(* Migrations applied one after the other. *)
Applies(c, s, list) ==
    /\ c[0] = s
    /\ \A i \in 1..Len(list) : c[i] = RunUp(c[i - 1], list[i])

(* FoldLeft applies them. *)
LEMMA FoldApplies ==
    ASSUME NEW s, NEW list, IsList(list)
    PROVE  \E c : Applies(c, s, list) /\ FoldLeft(RunUp, s, list) = c[Len(list)]
<1> DEFINE n == Len(list)
           D == DOMAIN list
           iter == CHOOSE g : g = [S \in SUBSET D |->
                      IF S = {} THEN s ELSE RunUp(g[S \ {Max(S)}], list[Max(S)])]
<1>1. n \in Nat /\ D = 1..n
  BY ListFacts
<1>2. FoldLeft(RunUp, s, list) = iter[D]
  BY DEF FoldLeft, MapThenFoldSet
<1>3. UpSets(iter, D, s, list)
  <2>1. \E g : UpSets(g, D, s, list)
    <3> HIDE DEF D
    <3> QED
      BY <1>1, UpSetsExist
  <2> QED
    BY <2>1, Zenon DEF UpSets
<1> HIDE DEF iter
<1>4. \A S \in SUBSET (1..n) :
         iter[S] = IF S = {} THEN s ELSE RunUp(iter[S \ {Max(S)}], list[Max(S)])
  <2>1. \A S \in SUBSET D :
           iter[S] = IF S = {} THEN s ELSE RunUp(iter[S \ {Max(S)}], list[Max(S)])
    BY <1>3, Zenon DEF UpSets
  <2> QED
    BY <1>1, <2>1
<1> DEFINE c == [i \in 0..n |-> iter[1..i]]
<1>5. c[0] = s
  <2>1. 1..0 = {} /\ {} \in SUBSET (1..n) /\ 0 \in 0..n
    BY <1>1
  <2> QED
    BY <1>4, <2>1
<1>6. ASSUME NEW i \in 1..n PROVE c[i] = RunUp(c[i - 1], list[i])
  <2>1. 1..i \in SUBSET (1..n) /\ i \in 1..i /\ i \in 0..n /\ i - 1 \in 0..n
    BY <1>1
  <2>2. Max(1..i) = i
    <3>1. Max(1..i) \in 1..i /\ \A y \in 1..i : y <= Max(1..i)
      BY <1>1, <2>1, LastPlace
    <3> QED
      BY <1>1, <2>1, <3>1
  <2>3. (1..i) \ {i} = 1..(i - 1)
    BY <1>1
  <2> QED
    BY <1>4, <2>1, <2>2, <2>3
<1>7. FoldLeft(RunUp, s, list) = c[n]
  BY <1>1, <1>2
<1> QED
  BY <1>5, <1>6, <1>7 DEF Applies

-----------------------------------------------------------------------------
(* Migrations in the order of their ids *)

(* Those that run before it. *)
Older(M, m) == {n \in M : Before(n, m)}

(* No two have the same number of older ones, and each number up to their    *)
(* count is one's: ById lists them all.                                     *)
LEMMA ByIdFacts ==
    ASSUME NEW M \in SUBSET Migration, IsFiniteSet(M), NamesUnique(M)
    PROVE  /\ IsList(ById(M)) /\ Len(ById(M)) = Cardinality(M)
           /\ \A i \in DOMAIN ById(M) : ById(M)[i] \in M
<1> DEFINE n == Cardinality(M)
           rank == [m \in M |-> Cardinality(Older(M, m)) + 1]
<1>1. n \in Nat
  BY FS_CardinalityType
<1>2. \A m \in M : m.id \in Nat /\ m.by \in Nat
  BY AuthorsAreNumbers DEF Migration
<1>3. \A m \in M : ~Before(m, m)
  BY <1>2 DEF Before
<1>4. \A m, k \in M : m # k => Before(m, k) \/ Before(k, m)
  BY <1>2 DEF Before, NamesUnique
<1>5. \A m, k, l \in M : Before(m, k) /\ Before(k, l) => Before(m, l)
  BY <1>2 DEF Before
<1>6. \A m \in M : /\ IsFiniteSet(Older(M, m)) /\ Cardinality(Older(M, m)) \in Nat
                   /\ Cardinality(Older(M, m)) < n
  <2> TAKE m \in M
  <2>1. Older(M, m) \subseteq M /\ Older(M, m) # M
    BY <1>3 DEF Older
  <2>2. /\ IsFiniteSet(Older(M, m)) /\ Cardinality(Older(M, m)) <= Cardinality(M)
        /\ Cardinality(Older(M, m)) = Cardinality(M) => Older(M, m) = M
    BY <2>1, FS_Subset
  <2>3. Cardinality(Older(M, m)) \in Nat
    BY <2>2, FS_CardinalityType
  <2> QED
    BY <1>1, <2>1, <2>2, <2>3
<1>7. \A m, k \in M : Before(m, k) => Cardinality(Older(M, m)) < Cardinality(Older(M, k))
  <2> TAKE m, k \in M
  <2> HAVE Before(m, k)
  <2>1. Older(M, m) \subseteq Older(M, k) /\ m \in Older(M, k) /\ m \notin Older(M, m)
    BY <1>3, <1>5 DEF Older
  <2>2. /\ Cardinality(Older(M, m)) <= Cardinality(Older(M, k))
        /\ Cardinality(Older(M, m)) = Cardinality(Older(M, k)) => Older(M, m) = Older(M, k)
    BY <1>6, <2>1, FS_Subset
  <2> QED
    BY <1>6, <2>1, <2>2
<1>8. rank \in Injection(M, 1..n)
  <2>1. rank \in [M -> 1..n]
    BY <1>1, <1>6
  <2>2. \A m, k \in M : rank[m] = rank[k] => m = k
    BY <1>4, <1>6, <1>7
  <2> QED
    BY <2>1, <2>2 DEF Injection, IsInjective
<1>9. rank \in Surjection(M, 1..n)
  <2>1. IsFiniteSet(1..n) /\ Cardinality(1..n) = n
    BY <1>1, FS_Interval
  <2> QED
    BY <1>8, <2>1, FS_Injection
<1>10. ASSUME NEW i \in 1..n PROVE ById(M)[i] \in M
  <2>1. PICK m \in M : rank[m] = i
    BY <1>9 DEF Surjection
  <2>2. Cardinality(Older(M, m)) = i - 1
    BY <1>6, <2>1
  <2>3. ById(M)[i] = CHOOSE k \in M : Cardinality(Older(M, k)) = i - 1
    BY Zenon DEF ById, Older
  <2> QED
    BY <2>2, <2>3
<1>11. ById(M) \in [1..n -> M]
  <2>1. ById(M) = [i \in 1..n |-> ById(M)[i]]
    BY DEF ById
  <2> QED
    BY <1>10, <2>1
<1>12. ById(M) \in Seq(M) /\ Len(ById(M)) = n
  BY <1>1, <1>11
<1> QED
  BY <1>10, <1>11, <1>12 DEF IsList

-----------------------------------------------------------------------------
(* What is in the files, and the catalogs that their migrations build *)

(* The names of a set tell its elements apart. *)
Distinct(S) == \A x \in S : \A y \in S : x.name = y.name => x = y

(* A table of the catalog that has no rows, checks or triggers. *)
Plain(n, pk, columns, fks, indexes) ==
    [name |-> n, columns |-> columns, pk |-> pk, fks |-> fks, checks |-> {},
     indexes |-> indexes, triggers |-> {}, rows |-> {}]

(* Such a table, made of what the versions of its file say. *)
Reads(u) ==
    /\ u.name \in File
    /\ u = Plain(u.name, u.pk, u.columns, u.fks, u.indexes)
    /\ IsFiniteSet(u.columns) /\ IsFiniteSet(u.fks) /\ IsFiniteSet(u.indexes)
    /\ Distinct(u.columns) /\ Distinct(u.fks) /\ Distinct(u.indexes)
    /\ \A c \in u.columns : IsColumn(c)
    /\ \A t \in Written(u.name) :
          /\ u.pk = t.pk
          /\ \A i \in u.indexes : \A j \in ToSet(t.indexes) :
                i.name = j.name => i = j

(* A catalog of tables and nothing else. *)
OfTables(tables) ==
    [tables |-> tables, functions |-> {}, views |-> {}, raw |-> {},
     extensions |-> {}]

(* What migrations build: such tables, told apart. *)
Shape(db) ==
    /\ db = OfTables(db.tables)
    /\ Distinct(db.tables)
    /\ \A u \in db.tables : Reads(u)

(* What a migration between two trees' models is made of. *)
OfFile(op, f, t) ==
    \/ op = Operation("create_table", f, t)
    \/ op = Operation("drop_table", f, t)
    \/ \E c \in ToSet(t.columns) :
          \/ op = Operation("add_column", f, c)
          \/ op = Operation("drop_column", f, c)
          \/ \E old : op = [kind |-> "alter_column", table |-> f, arg |-> c, old |-> old]
    \/ \E x \in ToSet(t.fks) :
          op = Operation("add_fk", f, x) \/ op = Operation("drop_fk", f, x)
    \/ \E x \in ToSet(t.indexes) :
          op = Operation("create_index", f, x) \/ op = Operation("drop_index", f, x)
    \/ \E copy : op = Operation("rebuild_table", f, [table |-> t, copy |-> copy])

(* An operation of some file's. *)
Usual(op) == \E f \in File : \E t \in Written(f) : OfFile(op, f, t)

-----------------------------------------------------------------------------
(* What an operation does to such a catalog *)

(* The files are tables, their columns, keys and indexes told apart, and no   *)
(* two versions of one disagree on what the differ does not compare.        *)
LEMMA FilesAreTables ==
    ASSUME FilesRead, NEW f \in File, NEW t \in Written(f)
    PROVE  /\ f # "" /\ t.name = f /\ IsTable(t)
           /\ t.checks = <<>> /\ t.triggers = <<>> /\ t.seed = <<>>
           /\ ToldApart(t.columns) /\ ToldApart(t.fks) /\ ToldApart(t.indexes)
           /\ \A c \in ToSet(t.columns) : IsColumn(c)
           /\ \A u \in Written(f) :
                 /\ u.pk = t.pk
                 /\ \A i \in ToSet(t.indexes) : \A j \in ToSet(u.indexes) :
                       i.name = j.name => i = j
<1>1. /\ f # "" /\ t.name = f
      /\ t.checks = <<>> /\ t.triggers = <<>> /\ t.seed = <<>>
      /\ NamesTell(t.columns) /\ NamesTell(t.fks) /\ NamesTell(t.indexes)
      /\ \A c \in ToSet(t.columns) : IsColumn(c)
      /\ \A u \in Written(f) :
            /\ u.pk = t.pk
            /\ \A i \in ToSet(t.indexes) : \A j \in ToSet(u.indexes) :
                  i.name = j.name => i = j
  BY Zenon DEF FilesRead
<1>2. ASSUME NEW list, NamesTell(list) PROVE IsList(list) /\ ToldApart(list)
  <2>1. list \in Seq(ToSet(list))
    BY <1>2, Zenon DEF NamesTell
  <2>2. ToldApart(list)
    BY <1>2, Zenon DEF NamesTell, ToldApart
  <2> QED
    BY <2>1, <2>2, Zenon DEF IsList
<1>3. IsList(<<>>)
  <2>1. <<>> \in Seq({})
    OBVIOUS
  <2> QED
    BY <2>1, Zenon DEF IsList
<1>4. IsTable(t)
  BY <1>1, <1>2, <1>3, Zenon DEF IsTable
<1> QED
  BY <1>1, <1>2, <1>4, Zenon

(* A lookup by name. *)
LEMMA GetFacts ==
    ASSUME NEW S, NEW n, In(S, n) PROVE Get(S, n) \in S /\ Get(S, n).name = n
BY DEF In, Get

(* A set told apart by names, and finite, stays so. *)
LEMMA DistinctStays ==
    ASSUME NEW S, Distinct(S), IsFiniteSet(S), NEW x, NEW n, NEW T \in SUBSET S
    PROVE  /\ Distinct(Put(S, x)) /\ IsFiniteSet(Put(S, x))
           /\ Distinct(Less(S, n)) /\ IsFiniteSet(Less(S, n))
           /\ Distinct(T) /\ IsFiniteSet(T)
<1>1. Less(S, x.name) \subseteq S /\ Less(S, n) \subseteq S
  BY DEF Less
<1>2. IsFiniteSet(Less(S, x.name)) /\ IsFiniteSet(Less(S, n)) /\ IsFiniteSet(T)
  BY <1>1, FS_Subset
<1>3. IsFiniteSet(Less(S, x.name) \cup {x})
  BY <1>2, FS_AddElement
<1> QED
  BY <1>1, <1>2, <1>3 DEF Distinct, Put, Less

(* What a list holds is finite. *)
LEMMA ListIsFinite ==
    ASSUME NEW list, IsList(list) PROVE IsFiniteSet(ToSet(list))
<1>1. Len(list) \in Nat /\ DOMAIN list = 1..Len(list)
  BY ListFacts
<1>2. IsFiniteSet(1..Len(list))
  BY <1>1, FS_Interval
<1>3. ToSet(list) = {list[i] : i \in 1..Len(list)}
  BY <1>1 DEF ToSet
<1>4. IsFiniteSet({list[i] : i \in 1..Len(list)})
  <2> DEFINE g == [i \in 1..Len(list) |-> list[i]]
             S == {list[i] : i \in 1..Len(list)}
  <2>1. g \in Surjection(1..Len(list), S)
    BY DEF Surjection
  <2> HIDE DEF g, S
  <2> QED
    BY <1>2, <2>1, FS_Surjection DEF S
<1> QED
  BY <1>3, <1>4

(* A table in the place of its namesake. *)
LEMMA BecomesShaped ==
    ASSUME NEW db, Shape(db), NEW u, Reads(u)
    PROVE  Shape([db EXCEPT !.tables = Put(@, u)])
<1> DEFINE T == Put(db.tables, u)
<1>1. Distinct(T) /\ \A v \in T : Reads(v)
  BY DEF Shape, Distinct, Put, Less
<1>2. [db EXCEPT !.tables = T] = OfTables(T)
  <2> HIDE DEF T
  <2> QED
    BY DEF Shape, OfTables
<1> QED
  BY <1>1, <1>2 DEF Shape, OfTables

(* There are no rows, and none that refer to them. *)
LEMMA NoChildren ==
    ASSUME NEW db, Shape(db), NEW p PROVE WithoutChildren(db, p, {}) = db.tables
<1>1. \A u \in db.tables :
         [u EXCEPT !.rows = @ \ UNION {References(u, p, r) : r \in {}}] = u
  BY DEF Shape, Reads, Plain
<1> QED
  BY <1>1, Zenon DEF WithoutChildren

(* The table that CREATE TABLE makes of a version. *)
LEMMA NewPlain ==
    ASSUME FilesRead, NEW f \in File, NEW t \in Written(f)
    PROVE  NewTable(t) = Plain(f, t.pk, ToSet(t.columns),
                               IF InlineForeignKeys THEN ToSet(t.fks) ELSE {}, {})
<1> DEFINE fks == IF InlineForeignKeys THEN ToSet(t.fks) ELSE {}
           checks == IF InlineChecks THEN ToSet(t.checks) ELSE {}
<1>1. t.name = f /\ t.checks = <<>>
  BY FilesAreTables
<1>2. ToSet(t.checks) = {}
  BY <1>1, NoneHolds
<1>3. checks = {}
  BY <1>2
<1>4. NewTable(t) = [name |-> t.name, columns |-> ToSet(t.columns), pk |-> t.pk,
                     fks |-> fks, checks |-> checks, indexes |-> {},
                     triggers |-> {}, rows |-> {}]
  BY DEF NewTable
<1> HIDE DEF checks, fks
<1>5. NewTable(t) = Plain(f, t.pk, ToSet(t.columns), fks, {})
  BY <1>1, <1>3, <1>4 DEF Plain
<1> QED
  BY <1>5, Zenon DEF fks

(* It is made of what the file's versions say, with their indexes or without. *)
LEMMA NewReads ==
    ASSUME FilesRead, NEW f \in File, NEW t \in Written(f), NEW indexes,
           indexes = {} \/ indexes = ToSet(t.indexes)
    PROVE  /\ [NewTable(t) EXCEPT !.indexes = indexes] =
                Plain(f, t.pk, ToSet(t.columns),
                      IF InlineForeignKeys THEN ToSet(t.fks) ELSE {}, indexes)
           /\ Reads([NewTable(t) EXCEPT !.indexes = indexes])
<1> DEFINE fks == IF InlineForeignKeys THEN ToSet(t.fks) ELSE {}
           u == Plain(f, t.pk, ToSet(t.columns), fks, indexes)
<1>1. /\ t.name = f /\ IsTable(t) /\ t.checks = <<>>
      /\ ToldApart(t.columns) /\ ToldApart(t.fks) /\ ToldApart(t.indexes)
      /\ \A c \in ToSet(t.columns) : IsColumn(c)
      /\ \A w \in Written(f) :
            /\ t.pk = w.pk
            /\ \A i \in ToSet(t.indexes) : \A j \in ToSet(w.indexes) :
                  i.name = j.name => i = j
  BY FilesAreTables
<1>3. [NewTable(t) EXCEPT !.indexes = indexes] = u
  <2>1. NewTable(t) = Plain(f, t.pk, ToSet(t.columns), fks, {})
    BY NewPlain
  <2> HIDE DEF fks
  <2> QED
    BY <2>1 DEF Plain
<1>4. /\ IsFiniteSet(ToSet(t.columns)) /\ IsFiniteSet(fks) /\ IsFiniteSet(indexes)
  <2>1. /\ IsFiniteSet(ToSet(t.columns)) /\ IsFiniteSet(ToSet(t.fks))
        /\ IsFiniteSet(ToSet(t.indexes)) /\ IsFiniteSet({})
    BY <1>1, ListIsFinite, FS_EmptySet DEF IsTable
  <2> QED
    BY <2>1
<1>5. Distinct(ToSet(t.columns)) /\ Distinct(fks) /\ Distinct(indexes)
  BY <1>1 DEF Distinct, ToldApart
<1>6. /\ u.name = f /\ u.pk = t.pk /\ u.columns = ToSet(t.columns) /\ u.fks = fks
      /\ u.indexes = indexes
      /\ u = Plain(u.name, u.pk, u.columns, u.fks, u.indexes)
  BY DEF Plain
<1> HIDE DEF u, fks
<1>7. Reads(u)
  BY <1>1, <1>4, <1>5, <1>6 DEF Reads
<1> QED
  BY <1>3, <1>7 DEF u, fks

(* A table of the catalog without rows, checks and triggers. *)
IsPlain(u) == u = Plain(u.name, u.pk, u.columns, u.fks, u.indexes)

(* The same table with other columns, keys, indexes and rows. *)
WithParts(u, columns, fks, indexes, rows) ==
    [u EXCEPT !.columns = columns, !.fks = fks, !.indexes = indexes, !.rows = rows]

(* A table without rows, with other columns, keys and indexes. *)
LEMMA PlainChanged ==
    ASSUME NEW u, IsPlain(u),
           NEW c, NEW k, NEW i
    PROVE  WithParts(u, c, k, i, {}) = Plain(u.name, u.pk, c, k, i)
<1>1. /\ u = [a \in DOMAIN u |-> u[a]] /\ u.checks = {} /\ u.triggers = {}
      /\ DOMAIN u = {"name", "columns", "pk", "fks", "checks", "indexes",
                     "triggers", "rows"}
  BY DEF Plain, IsPlain
<1>2. PICK v : v = [u EXCEPT !.columns = c, !.fks = k, !.indexes = i, !.rows = {}]
  OBVIOUS
<1>3. /\ v = [a \in DOMAIN v |-> v[a]] /\ DOMAIN v = DOMAIN u
      /\ v.columns = c /\ v.fks = k /\ v.indexes = i /\ v.rows = {}
      /\ v.name = u.name /\ v.pk = u.pk /\ v.checks = {} /\ v.triggers = {}
  BY <1>1, <1>2
<1>4. v = Plain(u.name, u.pk, c, k, i)
  BY <1>1, <1>3 DEF Plain
<1> QED
  BY <1>2, <1>4, Zenon DEF WithParts

(* What an operation other than a creation does: one table takes the place of *)
(* its namesake, or is dropped.                                             *)
Becomes(db, op, u) == Execute(db, op) = [db EXCEPT !.tables = Put(@, u)]

(* What each kind of operation does to the table of its file. *)
Effect(db, op, f, t) ==
    LET u == Get(db.tables, f)
        x == op.arg IN
    /\ In(db.tables, f) /\ u \in db.tables /\ u.name = f /\ Reads(u)
    /\ op.kind = "drop_table" =>
         Execute(db, op) = [db EXCEPT !.tables = Less(@, f)]
    /\ op.kind = "add_column" =>
         Becomes(db, op, Plain(f, u.pk, Put(u.columns, x), u.fks, u.indexes))
    /\ op.kind = "drop_column" =>
         Becomes(db, op, Plain(f, u.pk, Less(u.columns, x.name),
                       {k \in u.fks : k.on # x.name},
                       {i \in u.indexes : i.on # x.name}))
    /\ op.kind = "alter_column" =>
         /\ In(u.columns, x.name)
         /\ Becomes(db, op, Plain(f, u.pk,
              Put(u.columns, AlteredColumn(Get(u.columns, x.name), x)),
              u.fks, u.indexes))
    /\ op.kind = "add_fk" =>
         Becomes(db, op, Plain(f, u.pk, u.columns, Put(u.fks, x), u.indexes))
    /\ op.kind = "drop_fk" =>
         Becomes(db, op, Plain(f, u.pk, u.columns, Less(u.fks, x.name), u.indexes))
    /\ op.kind = "create_index" =>
         Becomes(db, op, Plain(f, u.pk, u.columns, u.fks, Put(u.indexes, x)))
    /\ op.kind = "drop_index" =>
         Becomes(db, op, Plain(f, u.pk, u.columns, u.fks, Less(u.indexes, x.name)))
    /\ op.kind = "rebuild_table" =>
         Becomes(db, op, [NewTable(t) EXCEPT !.indexes = ToSet(t.indexes)])

(* The table that an accepted operation names is there, and that is done.     *)
LEMMA ExecuteUsual ==
    ASSUME FilesRead, NEW db, Shape(db), NEW op, op.kind \notin Skipped, Accepts(db, op),
           NEW f \in File, NEW t \in Written(f), OfFile(op, f, t),
           op.kind # "create_table"
    PROVE  Effect(db, op, f, t)
<1> DEFINE u == Get(db.tables, f)
           x == op.arg
<1>1. /\ op.table = f
      /\ op.kind \in {"drop_table", "add_column", "drop_column", "alter_column",
                      "add_fk", "drop_fk", "create_index", "drop_index",
                      "rebuild_table"}
      /\ op.kind = "rebuild_table" => op.arg.table = t
  BY DEF OfFile, Operation
<1>2. In(db.tables, f)
  BY <1>1 DEF Accepts
<1>3. u \in db.tables /\ u.name = f /\ Reads(u)
  BY <1>2, GetFacts DEF Shape
<1>4. /\ u = Plain(f, u.pk, u.columns, u.fks, u.indexes) /\ u.rows = {}
  <2>1. u = Plain(u.name, u.pk, u.columns, u.fks, u.indexes)
    BY <1>3 DEF Reads
  <2>2. u.rows = {}
    BY <2>1 DEF Plain
  <2> QED
    BY <1>3, <2>1, <2>2
<1>5. Get(db.tables, op.table) = u
  BY <1>1
<1>6. WithoutChildren(db, u, u.rows) = db.tables
  BY <1>4, NoChildren
<1> HIDE DEF u
<1>7. op.kind = "drop_table" => Execute(db, op) = [db EXCEPT !.tables = Less(@, f)]
  <2> HAVE op.kind = "drop_table"
  <2>1. Execute(db, op) =
          [db EXCEPT !.tables = Less(WithoutChildren(db, u, u.rows), u.name)]
    BY <1>5 DEF Execute, Becomes
  <2> QED
    BY <1>3, <1>6, <2>1
<1>8. op.kind = "add_column" =>
         Becomes(db, op, Plain(f, u.pk, Put(u.columns, x), u.fks, u.indexes))
  <2> HAVE op.kind = "add_column"
  <2>1. Becomes(db, op, [u EXCEPT !.columns = Put(@, x)])
    BY <1>5 DEF Execute, Becomes
  <2>2. [u EXCEPT !.columns = Put(@, x)]
          = Plain(f, u.pk, Put(u.columns, x), u.fks, u.indexes)
    BY <1>4 DEF Plain
  <2> QED
    BY <2>1, <2>2, Zenon
<1>9. op.kind = "drop_column" =>
         Becomes(db, op, Plain(f, u.pk, Less(u.columns, x.name),
                       {k \in u.fks : k.on # x.name},
                       {i \in u.indexes : i.on # x.name}))
  <2> HAVE op.kind = "drop_column"
  <2> DEFINE columns == Less(u.columns, x.name)
             fks == {k \in u.fks : k.on # x.name}
             indexes == {i \in u.indexes : i.on # x.name}
             rows == {[c \in DOMAIN r \ {x.name} |-> r[c]] : r \in u.rows}
  <2>1. Becomes(db, op, WithParts(u, columns, fks, indexes, rows))
    BY <1>5 DEF Execute, Becomes, WithParts
  <2>2. rows = {}
    BY <1>4, Zenon
  <2> HIDE DEF columns, fks, indexes, rows
  <2>3. WithParts(u, columns, fks, indexes, rows) = Plain(f, u.pk, columns, fks, indexes)
    <3>1. IsPlain(u)
      BY <1>3, <1>4 DEF IsPlain
    <3> QED
      BY <1>3, <2>2, <3>1, PlainChanged
  <2>4. Becomes(db, op, Plain(f, u.pk, columns, fks, indexes))
    BY <2>1, <2>3, Zenon
  <2> QED
    BY <2>4, Zenon DEF columns, fks, indexes
<1>10. op.kind = "alter_column" =>
         /\ In(u.columns, x.name)
         /\ Becomes(db, op, Plain(f, u.pk,
              Put(u.columns, AlteredColumn(Get(u.columns, x.name), x)),
              u.fks, u.indexes))
  <2> HAVE op.kind = "alter_column"
  <2> DEFINE columns == Put(u.columns, AlteredColumn(Get(u.columns, x.name), x))
  <2>1. In(u.columns, x.name)
    BY <1>5 DEF Accepts
  <2>2. Becomes(db, op, [u EXCEPT !.columns = columns])
    BY <1>5 DEF Execute, Becomes
  <2> HIDE DEF columns
  <2>3. [u EXCEPT !.columns = columns] = Plain(f, u.pk, columns, u.fks, u.indexes)
    BY <1>4 DEF Plain
  <2>4. Becomes(db, op, Plain(f, u.pk, columns, u.fks, u.indexes))
    BY <2>2, <2>3, Zenon
  <2> QED
    BY <2>1, <2>4, Zenon DEF columns
<1>11. op.kind = "add_fk" =>
         Becomes(db, op, Plain(f, u.pk, u.columns, Put(u.fks, x), u.indexes))
  <2> HAVE op.kind = "add_fk"
  <2>1. Becomes(db, op, [u EXCEPT !.fks = Put(@, x)])
    BY <1>5 DEF Execute, Becomes
  <2>2. [u EXCEPT !.fks = Put(@, x)]
          = Plain(f, u.pk, u.columns, Put(u.fks, x), u.indexes)
    BY <1>4 DEF Plain
  <2> QED
    BY <2>1, <2>2, Zenon
<1>12. op.kind = "drop_fk" =>
         Becomes(db, op, Plain(f, u.pk, u.columns, Less(u.fks, x.name), u.indexes))
  <2> HAVE op.kind = "drop_fk"
  <2>1. Becomes(db, op, [u EXCEPT !.fks = Less(@, x.name)])
    BY <1>5 DEF Execute, Becomes
  <2>2. [u EXCEPT !.fks = Less(@, x.name)]
          = Plain(f, u.pk, u.columns, Less(u.fks, x.name), u.indexes)
    BY <1>4 DEF Plain
  <2> QED
    BY <2>1, <2>2, Zenon
<1>13. op.kind = "create_index" =>
         Becomes(db, op, Plain(f, u.pk, u.columns, u.fks, Put(u.indexes, x)))
  <2> HAVE op.kind = "create_index"
  <2>1. Becomes(db, op, [u EXCEPT !.indexes = Put(@, x)])
    BY <1>5 DEF Execute, Becomes
  <2>2. [u EXCEPT !.indexes = Put(@, x)]
          = Plain(f, u.pk, u.columns, u.fks, Put(u.indexes, x))
    BY <1>4 DEF Plain
  <2> QED
    BY <2>1, <2>2, Zenon
<1>14. op.kind = "drop_index" =>
         Becomes(db, op, Plain(f, u.pk, u.columns, u.fks, Less(u.indexes, x.name)))
  <2> HAVE op.kind = "drop_index"
  <2>1. Becomes(db, op, [u EXCEPT !.indexes = Less(@, x.name)])
    BY <1>5 DEF Execute, Becomes
  <2>2. [u EXCEPT !.indexes = Less(@, x.name)]
          = Plain(f, u.pk, u.columns, u.fks, Less(u.indexes, x.name))
    BY <1>4 DEF Plain
  <2> QED
    BY <2>1, <2>2, Zenon
<1>15. op.kind = "rebuild_table" =>
         Becomes(db, op, [NewTable(t) EXCEPT !.indexes = ToSet(t.indexes)])
  <2> HAVE op.kind = "rebuild_table"
  <2>1. Execute(db, op) =
          [db EXCEPT !.tables = Put(WithoutChildren(db, u, u.rows), Rebuilt(u, x))]
    BY <1>5 DEF Execute, Becomes
  <2>2. Execute(db, op) = [db EXCEPT !.tables = Put(@, Rebuilt(u, x))]
    BY <1>6, <2>1
  <2> DEFINE rows == {[c \in DOMAIN r \cap x.copy |-> r[c]] : r \in u.rows}
  <2>3. rows = {}
    BY <1>4, Zenon
  <2>4. Rebuilt(u, x) = [NewTable(t) EXCEPT !.indexes = ToSet(t.indexes), !.rows = rows]
    BY <1>1 DEF Rebuilt
  <2> HIDE DEF rows
  <2>5. [NewTable(t) EXCEPT !.indexes = ToSet(t.indexes), !.rows = {}]
          = [NewTable(t) EXCEPT !.indexes = ToSet(t.indexes)]
    <3> DEFINE w == [NewTable(t) EXCEPT !.indexes = ToSet(t.indexes)]
    <3>1. w.rows = {} /\ w = [a \in DOMAIN w |-> w[a]] /\ "rows" \in DOMAIN w
      BY DEF NewTable
    <3>2. [NewTable(t) EXCEPT !.indexes = ToSet(t.indexes), !.rows = {}]
            = [w EXCEPT !.rows = {}]
      BY Zenon
    <3> HIDE DEF w
    <3>3. [w EXCEPT !.rows = {}] = w
      BY <3>1
    <3> QED
      BY <3>2, <3>3, Zenon DEF w
  <2>6. Rebuilt(u, x) = [NewTable(t) EXCEPT !.indexes = ToSet(t.indexes)]
    BY <2>3, <2>4, <2>5, Zenon
  <2> QED
    BY <2>2, <2>6 DEF Becomes
<1> QED
  BY <1>2, <1>3, <1>7, <1>8, <1>9, <1>10, <1>11, <1>12, <1>13, <1>14, <1>15, Zenon DEF u, Effect

(* Every operation of a migration that the engine takes leaves such a catalog. *)
LEMMA ExecuteShaped ==
    ASSUME FilesRead, NEW db, Shape(db), NEW op, Usual(op), Accepts(db, op)
    PROVE  Shape(Execute(db, op))
<1>0. PICK f \in File : \E t \in Written(f) : OfFile(op, f, t)
  BY DEF Usual
<1>1. PICK t \in Written(f) : OfFile(op, f, t)
  BY <1>0
<1>2. CASE op.kind \in Skipped
  BY <1>2 DEF Execute
<1>3. CASE op.kind \notin Skipped /\ op.kind = "create_table"
  <2>1. op.arg = t
    BY <1>1, <1>3 DEF OfFile, Operation
  <2>2. Execute(db, op) = [db EXCEPT !.tables = Put(@, NewTable(t))]
    BY <1>3, <2>1 DEF Execute
  <2>3. PICK u : u = [NewTable(t) EXCEPT !.indexes = {}]
    OBVIOUS
  <2>4. Reads(NewTable(t))
    <3>1. /\ u = Plain(f, t.pk, ToSet(t.columns),
                      IF InlineForeignKeys THEN ToSet(t.fks) ELSE {}, {})
          /\ Reads(u)
      BY <2>3, NewReads
    <3>2. u = NewTable(t)
      BY <3>1, NewPlain, Zenon
    <3> QED
      BY <3>1, <3>2, Zenon
  <2> QED
    BY <2>2, <2>4, BecomesShaped
<1>4. CASE op.kind \notin Skipped /\ op.kind # "create_table"
  <2> DEFINE u == Get(db.tables, f)
             x == op.arg
  <2>0. Effect(db, op, f, t)
    BY <1>1, <1>4, ExecuteUsual
  <2>1. /\ u \in db.tables /\ u.name = f /\ Reads(u)
        /\ op.kind = "drop_table" =>
             Execute(db, op) = [db EXCEPT !.tables = Less(@, f)]
        /\ op.kind = "add_column" =>
             Becomes(db, op, Plain(f, u.pk, Put(u.columns, x), u.fks, u.indexes))
        /\ op.kind = "drop_column" =>
             Becomes(db, op, Plain(f, u.pk, Less(u.columns, x.name),
                           {k \in u.fks : k.on # x.name},
                           {i \in u.indexes : i.on # x.name}))
        /\ op.kind = "alter_column" =>
             /\ In(u.columns, x.name)
             /\ Becomes(db, op, Plain(f, u.pk,
                  Put(u.columns, AlteredColumn(Get(u.columns, x.name), x)),
                  u.fks, u.indexes))
        /\ op.kind = "add_fk" =>
             Becomes(db, op, Plain(f, u.pk, u.columns, Put(u.fks, x), u.indexes))
        /\ op.kind = "drop_fk" =>
             Becomes(db, op, Plain(f, u.pk, u.columns, Less(u.fks, x.name), u.indexes))
        /\ op.kind = "create_index" =>
             Becomes(db, op, Plain(f, u.pk, u.columns, u.fks, Put(u.indexes, x)))
        /\ op.kind = "drop_index" =>
             Becomes(db, op, Plain(f, u.pk, u.columns, u.fks, Less(u.indexes, x.name)))
        /\ op.kind = "rebuild_table" =>
             Becomes(db, op, [NewTable(t) EXCEPT !.indexes = ToSet(t.indexes)])
    BY <2>0, Zenon DEF Effect
  <2> HIDE DEF u
  <2>2. /\ f \in File
        /\ IsFiniteSet(u.columns) /\ IsFiniteSet(u.fks) /\ IsFiniteSet(u.indexes)
        /\ Distinct(u.columns) /\ Distinct(u.fks) /\ Distinct(u.indexes)
        /\ \A c \in u.columns : IsColumn(c)
        /\ \A w \in Written(f) :
              /\ u.pk = w.pk
              /\ \A i \in u.indexes : \A j \in ToSet(w.indexes) :
                    i.name = j.name => i = j
    BY <2>1 DEF Reads
  <2>3. \A columns, fks, indexes :
           LET v == Plain(f, u.pk, columns, fks, indexes) IN
           /\ v.name = f /\ v.pk = u.pk /\ v.columns = columns /\ v.fks = fks
           /\ v.indexes = indexes
    BY DEF Plain
  <2>4. \A columns, fks, indexes :
           /\ IsFiniteSet(columns) /\ IsFiniteSet(fks) /\ IsFiniteSet(indexes)
           /\ Distinct(columns) /\ Distinct(fks) /\ Distinct(indexes)
           /\ \A c \in columns : IsColumn(c)
           /\ \A w \in Written(f) : \A i \in indexes : \A j \in ToSet(w.indexes) :
                 i.name = j.name => i = j
           => Reads(Plain(f, u.pk, columns, fks, indexes))
    BY <2>2, <2>3 DEF Reads
  <2>5. ASSUME NEW columns, NEW fks, NEW indexes,
               Reads(Plain(f, u.pk, columns, fks, indexes)),
               Becomes(db, op, Plain(f, u.pk, columns, fks, indexes))
        PROVE  Shape(Execute(db, op))
    <3>1. Shape([db EXCEPT !.tables = Put(@, Plain(f, u.pk, columns, fks, indexes))])
      BY <2>5, BecomesShaped, Zenon
    <3> QED
      BY <2>5, <3>1, Zenon DEF Becomes
  <2>6. CASE op.kind = "drop_table"
    <3>1. Less(db.tables, f) \subseteq db.tables
      BY DEF Less
    <3>2. [db EXCEPT !.tables = Less(@, f)] = OfTables(Less(db.tables, f))
      BY DEF Shape, OfTables
    <3>3. OfTables(Less(db.tables, f)).tables = Less(db.tables, f)
      BY DEF OfTables
    <3> QED
      BY <2>1, <2>6, <3>1, <3>2, <3>3 DEF Shape, Distinct
  <2>7. CASE op.kind = "add_column"
    <3>1. IsColumn(x)
      <4>1. x \in ToSet(t.columns)
        BY <1>1, <2>7 DEF OfFile, Operation
      <4> QED
        BY <4>1, FilesAreTables
    <3>2. IsFiniteSet(Put(u.columns, x)) /\ Distinct(Put(u.columns, x))
      BY <2>2, DistinctStays
    <3>3. \A c \in Put(u.columns, x) : IsColumn(c)
      BY <2>2, <3>1 DEF Put, Less
    <3>4. Reads(Plain(f, u.pk, Put(u.columns, x), u.fks, u.indexes))
      BY <2>2, <2>4, <3>2, <3>3
    <3> QED
      BY <2>1, <2>5, <2>7, <3>4
  <2>8. CASE op.kind = "drop_column"
    <3>1. /\ IsFiniteSet(Less(u.columns, x.name)) /\ Distinct(Less(u.columns, x.name))
          /\ IsFiniteSet({k \in u.fks : k.on # x.name})
          /\ Distinct({k \in u.fks : k.on # x.name})
          /\ IsFiniteSet({i \in u.indexes : i.on # x.name})
          /\ Distinct({i \in u.indexes : i.on # x.name})
      BY <2>2, DistinctStays
    <3>2. \A c \in Less(u.columns, x.name) : IsColumn(c)
      BY <2>2 DEF Less
    <3> DEFINE v == Plain(f, u.pk, Less(u.columns, x.name),
                          {k \in u.fks : k.on # x.name},
                          {i \in u.indexes : i.on # x.name})
    <3>3. \A i \in {i \in u.indexes : i.on # x.name} : i \in u.indexes
      OBVIOUS
    <3>4. Reads(v)
      BY <2>2, <2>4, <3>1, <3>2, <3>3
    <3>5. Becomes(db, op, v)
      BY <2>1, <2>8
    <3> QED
      BY <2>5, <3>4, <3>5, Zenon
  <2>9. CASE op.kind = "alter_column"
    <3> DEFINE c == AlteredColumn(Get(u.columns, x.name), x)
    <3>1. IsColumn(x)
      <4>1. x \in ToSet(t.columns)
        BY <1>1, <2>9 DEF OfFile, Operation
      <4> QED
        BY <4>1, FilesAreTables
    <3>2. IsColumn(c)
      BY <3>1 DEF AlteredColumn, IsColumn
    <3> HIDE DEF c
    <3>3. IsFiniteSet(Put(u.columns, c)) /\ Distinct(Put(u.columns, c))
      BY <2>2, DistinctStays
    <3>4. \A y \in Put(u.columns, c) : IsColumn(y)
      BY <2>2, <3>2 DEF Put, Less
    <3>5. Becomes(db, op, Plain(f, u.pk, Put(u.columns, c), u.fks, u.indexes))
      BY <2>1, <2>9 DEF c
    <3>6. Reads(Plain(f, u.pk, Put(u.columns, c), u.fks, u.indexes))
      BY <2>2, <2>4, <3>3, <3>4
    <3> QED
      BY <2>5, <3>5, <3>6
  <2>10. CASE op.kind \in {"add_fk", "drop_fk"}
    <3>1. /\ IsFiniteSet(Put(u.fks, x)) /\ Distinct(Put(u.fks, x))
          /\ IsFiniteSet(Less(u.fks, x.name)) /\ Distinct(Less(u.fks, x.name))
      BY <2>2, DistinctStays
    <3>2. /\ Reads(Plain(f, u.pk, u.columns, Put(u.fks, x), u.indexes))
          /\ Reads(Plain(f, u.pk, u.columns, Less(u.fks, x.name), u.indexes))
      BY <2>2, <2>4, <3>1
    <3> QED
      BY <2>1, <2>5, <2>10, <3>2
  <2>11. CASE op.kind \in {"create_index", "drop_index"}
    <3>1. x \in ToSet(t.indexes)
      BY <1>1, <2>11 DEF OfFile, Operation
    <3>2. \A w \in Written(f) : \A j \in ToSet(w.indexes) : x.name = j.name => x = j
      <4>1. \A w \in Written(f) : \A i \in ToSet(t.indexes) : \A j \in ToSet(w.indexes) :
               i.name = j.name => i = j
        BY FilesAreTables, Zenon
      <4> QED
        BY <3>1, <4>1, Zenon
    <3>3. /\ IsFiniteSet(Put(u.indexes, x)) /\ Distinct(Put(u.indexes, x))
          /\ IsFiniteSet(Less(u.indexes, x.name)) /\ Distinct(Less(u.indexes, x.name))
      BY <2>2, DistinctStays
    <3>4. \A w \in Written(f) : \A i \in Put(u.indexes, x) : \A j \in ToSet(w.indexes) :
             i.name = j.name => i = j
      BY <2>2, <3>2 DEF Put, Less
    <3>5. \A w \in Written(f) : \A i \in Less(u.indexes, x.name) :
             \A j \in ToSet(w.indexes) : i.name = j.name => i = j
      BY <2>2 DEF Less
    <3>6. /\ Reads(Plain(f, u.pk, u.columns, u.fks, Put(u.indexes, x)))
          /\ Reads(Plain(f, u.pk, u.columns, u.fks, Less(u.indexes, x.name)))
      BY <2>2, <2>4, <3>3, <3>4, <3>5
    <3> QED
      BY <2>1, <2>5, <2>11, <3>6
  <2>12. CASE op.kind = "rebuild_table"
    <3>1. Reads([NewTable(t) EXCEPT !.indexes = ToSet(t.indexes)])
      BY NewReads
    <3> QED
      BY <2>1, <2>12, <3>1, BecomesShaped DEF Becomes
  <2>13. op.kind \in {"drop_table", "add_column", "drop_column", "alter_column",
                      "add_fk", "drop_fk", "create_index", "drop_index",
                      "rebuild_table"}
    BY <1>1, <1>4 DEF OfFile, Operation
  <2> QED
    BY <2>6, <2>7, <2>8, <2>9, <2>10, <2>11, <2>12, <2>13
<1> QED
  BY <1>2, <1>3, <1>4

-----------------------------------------------------------------------------
(* The models of a tree *)

(* They are the tables of its files. *)
LEMMA ModelFacts ==
    ASSUME NEW models
    PROVE  LET model == ModelOf(models) IN
           /\ model = [tables |-> model.tables, functions |-> <<>>, views |-> <<>>,
                       raw |-> <<>>, extensions |-> {}]
           /\ IsList(model.tables)
           /\ ToSet(model.tables) = {models[f] : f \in File} \ {NoFile}
<1> DEFINE list == [i \in DOMAIN FileOrder |-> models[FileOrder[i]]]
           S == {models[f] : f \in File} \ {NoFile}
           chosen == [i \in DOMAIN list |->
                        IF list[i] \in S THEN <<list[i]>> ELSE <<>>]
<1>1. IsList(FileOrder)
  BY TeamAssumption DEF IsList
<1>2. IsList(list) /\ DOMAIN list = DOMAIN FileOrder
  <2>1. list = [i \in DOMAIN FileOrder |-> list[i]]
    OBVIOUS
  <2> HIDE DEF list
  <2> QED
    BY <1>1, <2>1, MadeOf
<1>3. \A i \in DOMAIN list : list[i] = models[FileOrder[i]] /\ FileOrder[i] \in File
  BY DEF File, ToSet
<1>4. \A i \in DOMAIN list : list[i] # NoFile <=> list[i] \in S
  BY <1>3
<1>5. ToSet(list) \cap S = S
  <2>1. \A f \in File : \E i \in DOMAIN list : list[i] = models[f]
    BY DEF File, ToSet
  <2> HIDE DEF list
  <2> QED
    BY <2>1 DEF ToSet
<1>6. Those(list, LAMBDA t : t # NoFile) = FlattenSeq(chosen)
  <2>1. [i \in DOMAIN list |-> IF list[i] # NoFile THEN <<list[i]>> ELSE <<>>] = chosen
    BY <1>4
  <2> QED
    BY <2>1 DEF Those
<1>7. /\ IsList(chosen) /\ DOMAIN chosen = DOMAIN list
      /\ \A i \in DOMAIN list :
            chosen[i] = IF list[i] \in S THEN <<list[i]>> ELSE <<>>
  <2>1. /\ chosen = [i \in DOMAIN list |-> chosen[i]]
        /\ \A i \in DOMAIN list :
              chosen[i] = IF list[i] \in S THEN <<list[i]>> ELSE <<>>
    OBVIOUS
  <2> HIDE DEF chosen, list
  <2> QED
    BY <1>2, <2>1, MadeOf
<1>8. IsList(FlattenSeq(chosen)) /\ ToSet(FlattenSeq(chosen)) = S
  <2> HIDE DEF chosen, list, S
  <2>1. /\ IsList(FlattenSeq(chosen))
        /\ ToSet(FlattenSeq(chosen)) = ToSet(list) \cap S
    BY <1>2, <1>7, Selected
  <2> QED
    BY <1>5, <2>1
<1>9. ModelOf(models) = [EmptyModel EXCEPT !.tables = FlattenSeq(chosen)]
  BY <1>6 DEF ModelOf
<1> HIDE DEF chosen, list
<1>10. ModelOf(models) = [tables |-> FlattenSeq(chosen), functions |-> <<>>,
                          views |-> <<>>, raw |-> <<>>, extensions |-> {}]
  BY <1>9 DEF EmptyModel
<1> QED
  BY <1>8, <1>10

(* A model of what is written in files. *)
LEMMA TreeModel ==
    ASSUME FilesRead, NEW models \in Trees
    PROVE  LET model == ModelOf(models) IN
           /\ IsModel(model) /\ WantedExtensions(model) = {}
           /\ model.functions = <<>> /\ model.views = <<>> /\ model.raw = <<>>
           /\ \A t \in ToSet(model.tables) :
                 /\ t.name \in File /\ t \in Written(t.name) /\ t = models[t.name]
           /\ \A f \in File : models[f] # NoFile => models[f] \in ToSet(model.tables)
<1> DEFINE model == ModelOf(models)
<1>1. /\ IsList(model.tables) /\ model.functions = <<>> /\ model.views = <<>>
      /\ model.raw = <<>> /\ model.extensions = {}
      /\ ToSet(model.tables) = {models[f] : f \in File} \ {NoFile}
  BY ModelFacts
<1> HIDE DEF model
<1>2. \A f \in File : models[f] \in Versions[f]
  BY DEF Trees
<1>3. \A t \in ToSet(model.tables) :
         t.name \in File /\ t \in Written(t.name) /\ t = models[t.name]
  <2> TAKE t \in ToSet(model.tables)
  <2>1. PICK f \in File : t = models[f] /\ t # NoFile
    BY <1>1
  <2>2. t \in Written(f)
    BY <1>2, <2>1 DEF Written
  <2>3. t.name = f
    BY <2>2, FilesAreTables
  <2> QED
    BY <2>1, <2>2, <2>3
<1>4. \A t \in ToSet(model.tables) : IsTable(t) /\ \A c \in ToSet(t.columns) : IsColumn(c)
  BY <1>3, FilesAreTables
<1>5. IsModel(model)
  BY <1>1, <1>4, NoneHolds, FS_EmptySet DEF IsModel
<1>6. WantedExtensions(model) = {}
  BY <1>1, <1>4 DEF WantedExtensions, IsColumn
<1> QED
  BY <1>1, <1>3, <1>5, <1>6 DEF model

(* Its migrations are of the usual operations. *)
LEMMA UpsAreUsual ==
    ASSUME FilesRead, NEW from \in Trees, NEW to \in Trees
    PROVE  /\ Ups[from][to] = Diff(ModelOf(from), ModelOf(to))
           /\ IsList(Ups[from][to])
           /\ \A op : op \in ToSet(Ups[from][to])
                        <=> IsEmitted(op, ModelOf(from), ModelOf(to))
           /\ \A op \in ToSet(Ups[from][to]) : Usual(op)
<1> DEFINE a == ModelOf(from)
           b == ModelOf(to)
<1>1. Ups[from][to] = Diff(a, b)
  BY DEF Ups
<1>2. /\ IsModel(a) /\ WantedExtensions(a) = {} /\ a.functions = <<>>
      /\ a.views = <<>> /\ a.raw = <<>>
      /\ \A t \in ToSet(a.tables) : t.name \in File /\ t \in Written(t.name)
  BY TreeModel
<1>3. /\ IsModel(b) /\ WantedExtensions(b) = {} /\ b.functions = <<>>
      /\ b.views = <<>> /\ b.raw = <<>>
      /\ \A t \in ToSet(b.tables) : t.name \in File /\ t \in Written(t.name)
  BY TreeModel
<1> HIDE DEF a, b
<1>4. /\ UpToStage(Diff(a, b), 19)
      /\ \A op : op \in ToSet(Diff(a, b)) <=> IsEmitted(op, a, b)
  BY <1>2, <1>3, DiffHolds
<1>5. ASSUME NEW op, IsEmitted(op, a, b) PROVE Usual(op)
  <2>1. ~IsForDatabase(op, a, b)
    BY <1>2, <1>3, NoneHolds
       DEF IsForDatabase, IsDrop, IsAdd, IsMissing
  <2>2. ASSUME NEW t \in ToSet(b.tables), Has(a.tables, t.name),
               IsForKept(op, Find(a.tables, t.name), t)
        PROVE  Usual(op)
    <3> DEFINE old == Find(a.tables, t.name)
               f == t.name
    <3>1. f \in File /\ t \in Written(f)
      BY <1>3
    <3>2. old \in ToSet(a.tables) /\ old.name = f
      BY <1>2, <2>2, FindFacts DEF IsModel
    <3>3. old \in Written(f)
      BY <1>2, <3>2
    <3> HIDE DEF old
    <3>4. /\ t.checks = <<>> /\ t.triggers = <<>> /\ t.seed = <<>> /\ t.name = f
          /\ old.checks = <<>> /\ old.triggers = <<>> /\ old.seed = <<>>
          /\ IsTable(old) /\ IsTable(t)
      BY <3>1, <3>3, FilesAreTables
    <3>5. op \notin ToSet(DiffSeedData(old, t))
      BY <3>4, RowsHold DEF IsRowChange
    <3>6. /\ ~IsDrop(op, "drop_trigger", f, t.triggers, old.triggers)
          /\ ~IsDrop(op, "drop_check", f, t.checks, old.checks)
          /\ ~IsAdd(op, "add_check", f, t.checks, old.checks)
          /\ ~IsAdd(op, "create_trigger", f, t.triggers, old.triggers)
      BY <3>4, NoneHolds DEF IsDrop, IsAdd
    <3>7. OfFile(op, f, t) \/ OfFile(op, f, old)
      <4>1. CASE IsDrop(op, "drop_fk", f, t.fks, old.fks)
        BY <4>1 DEF IsDrop, OfFile
      <4>2. CASE IsMissing(op, "drop_index", f, old.indexes, t.indexes)
        BY <4>2 DEF IsMissing, OfFile
      <4>3. CASE IsColumnChange(op, old, t)
        BY <3>4, <4>3 DEF IsColumnChange, IsMissing, IsAlter, OfFile
      <4>4. CASE IsAdd(op, "add_fk", f, t.fks, old.fks)
        BY <4>4 DEF IsAdd, OfFile
      <4>5. CASE IsMissing(op, "create_index", f, t.indexes, old.indexes)
        BY <4>5 DEF IsMissing, OfFile
      <4>6. CASE IsRebuild(op, old, t)
        BY <4>6 DEF IsRebuild, OfFile
      <4> QED
        BY <2>2, <3>5, <3>6, <4>1, <4>2, <4>3, <4>4, <4>5, <4>6 DEF IsForKept, old
    <3> QED
      BY <3>1, <3>3, <3>7 DEF Usual
  <2>3. ASSUME NEW t \in ToSet(b.tables), IsForCreated(op, t) PROVE Usual(op)
    <3>1. t.name \in File /\ t \in Written(t.name)
      BY <1>3
    <3>2. t.triggers = <<>> /\ t.seed = <<>>
      BY <3>1, FilesAreTables
    <3>3. OfFile(op, t.name, t)
      BY <2>3, <3>2, NoneHolds DEF IsForCreated, IsOneOf, OfFile
    <3> QED
      BY <3>1, <3>3 DEF Usual
  <2>4. ASSUME NEW t \in ToSet(a.tables), IsForRemoved(op, t) PROVE Usual(op)
    <3>1. t.name \in File /\ t \in Written(t.name)
      BY <1>2
    <3>2. OfFile(op, t.name, t)
      BY <2>4 DEF IsForRemoved, IsOneOf, OfFile
    <3> QED
      BY <3>1, <3>2 DEF Usual
  <2> QED
    BY <1>5, <2>1, <2>2, <2>3, <2>4 DEF IsEmitted
<1>6. IsList(Diff(a, b))
  BY <1>4 DEF UpToStage
<1> QED
  BY <1>1, <1>4, <1>5, <1>6 DEF a, b

-----------------------------------------------------------------------------
(* Migrations that run to their end leave a catalog of plain tables *)

(* A run that went well has built such a catalog. *)
Good(s) == s = [ok |-> s.ok, db |-> s.db] /\ (s.ok => Shape(s.db))

(* A new database is one. *)
LEMMA EmptyIsGood == Good(Empty) /\ Empty.ok /\ Empty.db = OfTables({})
<1>1. /\ ToSet(EmptyModel.tables) = {} /\ ToSet(EmptyModel.functions) = {}
      /\ ToSet(EmptyModel.views) = {} /\ ToSet(EmptyModel.raw) = {}
      /\ EmptyModel.extensions = {}
  BY NoneHolds DEF EmptyModel
<1>2. WantedExtensions(EmptyModel) = {}
  BY <1>1 DEF WantedExtensions
<1>3. CatalogOf(EmptyModel) = OfTables({})
  BY <1>1, <1>2 DEF CatalogOf, OfTables
<1>4. Shape(OfTables({}))
  BY DEF Shape, OfTables, Distinct
<1> QED
  BY <1>3, <1>4 DEF Good, Empty

(* Statement by statement, *)
LEMMA RunIsGood ==
    ASSUME FilesRead, NEW s, Good(s), NEW op, Usual(op)
    PROVE  Good(Run(s, op)) /\ (Run(s, op).ok => s.ok)
<1>1. CASE s.ok /\ Accepts(s.db, op)
  <2>1. Run(s, op) = [ok |-> TRUE, db |-> Execute(s.db, op)]
    BY <1>1 DEF Run
  <2>2. Shape(Execute(s.db, op))
    BY <1>1, ExecuteShaped DEF Good
  <2> QED
    BY <1>1, <2>1, <2>2 DEF Good
<1>2. CASE ~(s.ok /\ Accepts(s.db, op))
  <2>1. Run(s, op) = [ok |-> FALSE, db |-> s.db]
    BY <1>2 DEF Run
  <2> QED
    BY <2>1 DEF Good
<1> QED
  BY <1>1, <1>2

(* migration by migration. *)
LEMMA RunUpIsGood ==
    ASSUME FilesRead, NEW s, Good(s), NEW m \in Migration
    PROVE  Good(RunUp(s, m))
<1> DEFINE ops == Ups[m.from][m.to]
           n == Len(ops)
<1>1. IsList(ops) /\ \A op \in ToSet(ops) : Usual(op)
  BY UpsAreUsual DEF Migration
<1> HIDE DEF ops
<1>2. n \in Nat /\ DOMAIN ops = 1..n
  BY <1>1, ListFacts
<1>3. PICK c : Runs(c, s, ops) /\ FoldLeft(Run, s, ops) = c[n]
  BY <1>1, FoldRuns
<1>4. \A i \in 1..n : c[i] = Run(c[i - 1], ops[i]) /\ Usual(ops[i])
  BY <1>1, <1>2, <1>3 DEF Runs, ToSet
<1> DEFINE Bad == {i \in Nat : i <= n /\ ~Good(c[i])}
<1>5. Bad = {}
  <2> SUFFICES ASSUME Bad # {} PROVE FALSE
    OBVIOUS
  <2>1. PICK i \in Bad : \A j \in Bad : i <= j
    BY LeastNumber
  <2>2. i # 0
    BY <1>3 DEF Runs
  <2>3. i \in 1..n /\ i - 1 \in Nat /\ i - 1 \notin Bad
    BY <1>2, <2>1, <2>2
  <2>4. Good(c[i - 1])
    BY <1>2, <2>3
  <2> QED
    BY <1>4, <2>3, <2>4, RunIsGood
<1>6. Good(c[n])
  BY <1>2, <1>5
<1> QED
  BY <1>3, <1>6 DEF RunUp, ops

(* So does a new database with all the migrations of a tree. *)
LEMMA FreshIsGood ==
    ASSUME FilesRead, NEW M \in SUBSET Migration, IsFiniteSet(M), NamesUnique(M)
    PROVE  Good(Fresh(M))
<1> DEFINE list == ById(M)
           n == Len(list)
<1>1. IsList(list) /\ \A i \in DOMAIN list : list[i] \in Migration
  BY ByIdFacts
<1>2. Fresh(M) = FoldLeft(RunUp, Empty, list)
  BY DEF Fresh
<1> HIDE DEF list
<1>3. n \in Nat /\ DOMAIN list = 1..n
  BY <1>1, ListFacts
<1>4. PICK c : Applies(c, Empty, list) /\ FoldLeft(RunUp, Empty, list) = c[n]
  BY <1>1, FoldApplies
<1>5. \A i \in 1..n : c[i] = RunUp(c[i - 1], list[i]) /\ list[i] \in Migration
  BY <1>1, <1>3, <1>4 DEF Applies
<1> DEFINE Bad == {i \in Nat : i <= n /\ ~Good(c[i])}
<1>6. Bad = {}
  <2> SUFFICES ASSUME Bad # {} PROVE FALSE
    OBVIOUS
  <2>1. PICK i \in Bad : \A j \in Bad : i <= j
    BY LeastNumber
  <2>2. i # 0
    BY <1>4, EmptyIsGood DEF Applies
  <2>3. i \in 1..n /\ i - 1 \in Nat /\ i - 1 \notin Bad
    BY <1>3, <2>1, <2>2
  <2>4. Good(c[i - 1])
    BY <1>3, <2>3
  <2> QED
    BY <1>5, <2>3, <2>4, RunUpIsGood
<1>7. Good(c[n])
  BY <1>3, <1>6
<1> QED
  BY <1>2, <1>4, <1>7

-----------------------------------------------------------------------------
(* The gate: nothing left to differ is nothing different *)

(* What is read of a catalog's table. *)
ReadOf(u) ==
    [name |-> u.name, columns |-> SetToSeq(u.columns), pk |-> u.pk,
     fks |-> SetToSeq(u.fks), checks |-> <<>>, indexes |-> SetToSeq(u.indexes),
     triggers |-> <<>>, seed |-> <<>>, seedKey |-> {}]

(* Reading the catalog reads each of its tables, and all of it. *)
LEMMA LiveFacts ==
    ASSUME NEW db, Shape(db)
    PROVE  LET live == Live(db) IN
           /\ IsModel(live)
           /\ ToSet(live.tables) = {ReadOf(u) : u \in db.tables}
           /\ \A u \in db.tables :
                 LET t == ReadOf(u) IN
                 /\ t.name = u.name /\ t.pk = u.pk
                 /\ ToSet(t.columns) = u.columns /\ ToSet(t.fks) = u.fks
                 /\ ToSet(t.indexes) = u.indexes
                 /\ IsTable(t)
<1> DEFINE named(f) == {u \in db.tables : u.name = f}
           reads == [f \in File |->
                       IF named(f) = {} THEN NoFile
                       ELSE ReadOf(CHOOSE u \in named(f) : TRUE)]
<1>1. Live(db) = ModelOf(reads)
  BY DEF Live, ReadOf
<1>2. \A f \in File : \A u \in db.tables : u.name = f => reads[f] = ReadOf(u)
  <2> TAKE f \in File
  <2> TAKE u \in db.tables
  <2> HAVE u.name = f
  <2>1. u \in named(f)
    OBVIOUS
  <2>2. (CHOOSE v \in named(f) : TRUE) \in named(f)
    BY <2>1, Zenon
  <2>3. (CHOOSE v \in named(f) : TRUE) = u
    BY <2>2 DEF Shape, Distinct
  <2>4. reads[f] = ReadOf(CHOOSE v \in named(f) : TRUE)
    BY <2>1, Zenon
  <2> QED
    BY <2>3, <2>4, Zenon
<1>3. \A f \in File : (\A u \in db.tables : u.name # f) => reads[f] = NoFile
  BY Zenon
<1>4. \A u \in db.tables : ReadOf(u) # NoFile /\ u.name \in File
  <2> TAKE u \in db.tables
  <2>1. "columns" \in DOMAIN ReadOf(u) /\ "columns" \notin DOMAIN NoFile
    BY DEF ReadOf, NoFile
  <2>2. u.name \in File
    BY DEF Shape, Reads
  <2> QED
    BY <2>1, <2>2, Zenon
<1> HIDE DEF reads
<1>5. {reads[f] : f \in File} \ {NoFile} = {ReadOf(u) : u \in db.tables}
  <2>1. ASSUME NEW t, t \in {reads[f] : f \in File} \ {NoFile}
        PROVE  t \in {ReadOf(u) : u \in db.tables}
    <3>1. PICK f \in File : t = reads[f] /\ t # NoFile
      BY <2>1
    <3>2. PICK u \in db.tables : u.name = f
      BY <1>3, <3>1
    <3> QED
      BY <1>2, <3>1, <3>2
  <2>2. ASSUME NEW t, t \in {ReadOf(u) : u \in db.tables}
        PROVE  t \in {reads[f] : f \in File} \ {NoFile}
    <3>1. PICK u \in db.tables : t = ReadOf(u)
      BY <2>2
    <3> QED
      BY <1>2, <1>4, <3>1
  <2> QED
    BY <2>1, <2>2
<1>6. ASSUME NEW u \in db.tables
      PROVE  LET t == ReadOf(u) IN
             /\ t.name = u.name /\ t.pk = u.pk
             /\ ToSet(t.columns) = u.columns /\ ToSet(t.fks) = u.fks
             /\ ToSet(t.indexes) = u.indexes
             /\ IsTable(t)
  <2>1. IsFiniteSet(u.columns) /\ IsFiniteSet(u.fks) /\ IsFiniteSet(u.indexes)
    BY DEF Shape, Reads
  <2>2. /\ IsList(SetToSeq(u.columns)) /\ ToSet(SetToSeq(u.columns)) = u.columns
        /\ IsList(SetToSeq(u.fks)) /\ ToSet(SetToSeq(u.fks)) = u.fks
        /\ IsList(SetToSeq(u.indexes)) /\ ToSet(SetToSeq(u.indexes)) = u.indexes
    BY <2>1, SetToSeqFacts
  <2> DEFINE t == ReadOf(u)
  <2>3. /\ t.name = u.name /\ t.pk = u.pk /\ t.columns = SetToSeq(u.columns)
        /\ t.fks = SetToSeq(u.fks) /\ t.indexes = SetToSeq(u.indexes)
        /\ t.checks = <<>> /\ t.triggers = <<>> /\ t.seed = <<>>
    BY DEF ReadOf
  <2> HIDE DEF t
  <2>4. IsTable(t)
    BY <2>2, <2>3, NoneHolds DEF IsTable
  <2> QED
    BY <2>2, <2>3, <2>4 DEF t
<1> DEFINE live == ModelOf(reads)
<1>7. /\ IsList(live.tables) /\ live.functions = <<>> /\ live.views = <<>>
      /\ live.raw = <<>> /\ live.extensions = {}
      /\ ToSet(live.tables) = {reads[f] : f \in File} \ {NoFile}
  <2>1. /\ live = [tables |-> live.tables, functions |-> <<>>, views |-> <<>>,
                  raw |-> <<>>, extensions |-> {}]
        /\ IsList(live.tables)
        /\ ToSet(live.tables) = {reads[f] : f \in File} \ {NoFile}
    BY ModelFacts, Zenon
  <2> HIDE DEF live
  <2> QED
    BY <2>1
<1> HIDE DEF live
<1>8. \A t \in ToSet(live.tables) : IsTable(t)
  BY <1>5, <1>6, <1>7
<1>9. IsModel(live)
  BY <1>7, <1>8, NoneHolds, FS_EmptySet DEF IsModel
<1>10. Live(db) = live
  BY <1>1 DEF live
<1>11. ToSet(live.tables) = {ReadOf(u) : u \in db.tables}
  BY <1>5, <1>7
<1> QED
  BY <1>6, <1>9, <1>10, <1>11, Zenon

(* Two sets whose names tell their elements apart, with the same names, one   *)
(* of which has every element of the other.                                 *)
LEMMA SameSets ==
    ASSUME NEW S, Distinct(S), NEW list, IsList(list), ToSet(list) = S,
           NEW new, SameByName(list, new)
    PROVE  ToSet(new) = S
<1>1. ASSUME NEW x \in ToSet(new) PROVE x \in S
  <2>1. Has(list, x.name) /\ Find(list, x.name) = x
    BY DEF SameByName, Has, Names
  <2> QED
    BY <2>1, FindFacts
<1>2. ASSUME NEW y \in S PROVE y \in ToSet(new)
  <2>1. y.name \in Names(new)
    BY DEF SameByName, Names
  <2>2. PICK x \in ToSet(new) : x.name = y.name
    BY <2>1 DEF Names
  <2> QED
    BY <1>1, <2>2 DEF Distinct
<1> QED
  BY <1>1, <1>2

(* The catalog's table of a model's. *)
Row(t) == Plain(t.name, t.pk, ToSet(t.columns), ToSet(t.fks), ToSet(t.indexes))

(* The catalog of a tree's models has such a table for each. *)
LEMMA CatalogFacts ==
    ASSUME FilesRead, NEW models \in Trees
    PROVE  CatalogOf(ModelOf(models))
             = OfTables({Row(t) : t \in ToSet(ModelOf(models).tables)})
<1> DEFINE model == ModelOf(models)
           row(t) == [name |-> t.name, columns |-> ToSet(t.columns), pk |-> t.pk,
                      fks |-> ToSet(t.fks), checks |-> ToSet(t.checks),
                      indexes |-> ToSet(t.indexes),
                      triggers |-> IF DbObjects THEN ToSet(t.triggers) ELSE {},
                      rows |-> ToSet(t.seed)]
           T == {row(t) : t \in ToSet(model.tables)}
           functions == IF DbObjects THEN ToSet(model.functions) ELSE {}
           extensions == IF DbObjects THEN WantedExtensions(model) ELSE {}
<1>1. /\ WantedExtensions(model) = {} /\ model.functions = <<>>
      /\ model.views = <<>> /\ model.raw = <<>>
      /\ \A t \in ToSet(model.tables) : t.name \in File /\ t \in Written(t.name)
  BY TreeModel
<1> HIDE DEF model
<1>2. CatalogOf(model) = [tables |-> T, functions |-> functions,
                          views |-> ToSet(model.views), raw |-> ToSet(model.raw),
                          extensions |-> extensions]
  BY Zenon DEF CatalogOf
<1>3. /\ ToSet(model.functions) = {} /\ ToSet(model.views) = {}
      /\ ToSet(model.raw) = {}
  BY <1>1, NoneHolds
<1>4. functions = {} /\ extensions = {}
  BY <1>1, <1>3
<1>5. ASSUME NEW t \in ToSet(model.tables) PROVE row(t) = Row(t)
  <2>0. t.name \in File /\ t \in Written(t.name)
    BY <1>1, Zenon
  <2>1. t.checks = <<>> /\ t.triggers = <<>> /\ t.seed = <<>>
    BY <2>0, FilesAreTables
  <2>2. ToSet(t.checks) = {} /\ ToSet(t.triggers) = {} /\ ToSet(t.seed) = {}
    BY <2>1, NoneHolds
  <2> DEFINE triggers == IF DbObjects THEN ToSet(t.triggers) ELSE {}
  <2>3. triggers = {}
    BY <2>2
  <2>4. row(t) = [name |-> t.name, columns |-> ToSet(t.columns), pk |-> t.pk,
                  fks |-> ToSet(t.fks), checks |-> ToSet(t.checks),
                  indexes |-> ToSet(t.indexes), triggers |-> triggers,
                  rows |-> ToSet(t.seed)]
    BY Zenon
  <2> HIDE DEF triggers
  <2> QED
    BY <2>2, <2>3, <2>4, Zenon DEF Row, Plain
<1>6. T = {Row(t) : t \in ToSet(model.tables)}
  <2> HIDE DEF row
  <2> QED
    BY <1>5
<1> HIDE DEF T, functions, extensions
<1>7. CatalogOf(model) = OfTables(T)
  BY <1>2, <1>3, <1>4, Zenon DEF OfTables
<1> QED
  BY <1>6, <1>7 DEF model

(* A catalog that `molde ci` finds no difference in is that of the models.    *)
LEMMA GateHolds ==
    ASSUME FilesRead, NEW db, Shape(db), NEW models \in Trees,
           Diff(Live(db), ModelOf(models)) = <<>>
    PROVE  db = CatalogOf(ModelOf(models))
<1> DEFINE live == Live(db)
           model == ModelOf(models)
<1>1. /\ IsModel(model) /\ WantedExtensions(model) = {}
      /\ model.functions = <<>> /\ model.views = <<>> /\ model.raw = <<>>
      /\ \A t \in ToSet(model.tables) :
            t.name \in File /\ t \in Written(t.name) /\ t = models[t.name]
  BY TreeModel
<1>2. /\ IsModel(live)
      /\ ToSet(live.tables) = {ReadOf(u) : u \in db.tables}
      /\ \A u \in db.tables :
            LET t == ReadOf(u) IN
            /\ t.name = u.name /\ t.pk = u.pk
            /\ ToSet(t.columns) = u.columns /\ ToSet(t.fks) = u.fks
            /\ ToSet(t.indexes) = u.indexes
            /\ IsTable(t)
  BY LiveFacts
<1> HIDE DEF live, model
<1>3. LooksSame(live, model)
  BY <1>1, <1>2, DiffIsSilent DEF live, model
<1>4. ASSUME NEW t \in ToSet(model.tables)
      PROVE  \E u \in db.tables : u.name = t.name /\ u = Row(t)
  <2>1. Has(live.tables, t.name)
    BY <1>3 DEF LooksSame, Has, Names
  <2>2. Find(live.tables, t.name) \in ToSet(live.tables)
        /\ Find(live.tables, t.name).name = t.name
    BY <1>2, <2>1, FindFacts DEF IsModel
  <2>3. PICK u \in db.tables : Find(live.tables, t.name) = ReadOf(u) /\ u.name = t.name
    BY <1>2, <2>2
  <2>4. /\ SameByName(ReadOf(u).columns, t.columns)
        /\ SameByName(ReadOf(u).fks, t.fks)
        /\ Names(ReadOf(u).indexes) = Names(t.indexes)
    BY <1>3, <2>3 DEF LooksSame, SameTable
  <2>5. /\ Reads(u) /\ t \in Written(u.name) /\ u.name \in File
    BY <1>1, <2>3 DEF Shape
  <2>7. ToSet(t.columns) = u.columns /\ ToSet(t.fks) = u.fks
    <3>1. Distinct(u.columns) /\ Distinct(u.fks)
      BY <2>5 DEF Reads
    <3>2. /\ IsList(ReadOf(u).columns) /\ ToSet(ReadOf(u).columns) = u.columns
          /\ IsList(ReadOf(u).fks) /\ ToSet(ReadOf(u).fks) = u.fks
      BY <1>2 DEF IsTable
    <3> QED
      BY <2>4, <3>1, <3>2, SameSets
  <2>8. ToSet(t.indexes) = u.indexes
    <3>1. ToSet(ReadOf(u).indexes) = u.indexes
      BY <1>2
    <3>2. \A i \in u.indexes : \A j \in ToSet(t.indexes) : i.name = j.name => i = j
      BY <2>5 DEF Reads
    <3>3. {i.name : i \in u.indexes} = {j.name : j \in ToSet(t.indexes)}
      BY <2>4, <3>1 DEF Names
    <3>4. \A i \in u.indexes : \E j \in ToSet(t.indexes) : i.name = j.name
      BY <3>3
    <3>5. \A j \in ToSet(t.indexes) : \E i \in u.indexes : i.name = j.name
      BY <3>3
    <3>6. \A i \in u.indexes : i \in ToSet(t.indexes)
      BY <3>2, <3>4
    <3>7. \A j \in ToSet(t.indexes) : j \in u.indexes
      BY <3>2, <3>5
    <3> QED
      BY <3>6, <3>7
  <2>9. u = Plain(t.name, t.pk, ToSet(t.columns), ToSet(t.fks), ToSet(t.indexes))
    <3>1. u = Plain(u.name, u.pk, u.columns, u.fks, u.indexes) /\ u.pk = t.pk
      BY <2>5 DEF Reads
    <3> QED
      BY <2>3, <2>7, <2>8, <3>1, Zenon
  <2> QED
    BY <2>3, <2>9, Zenon DEF Row
<1>5. ASSUME NEW u \in db.tables
      PROVE  \E t \in ToSet(model.tables) : u = Row(t)
  <2>1. u.name \in Names(live.tables)
    BY <1>2 DEF Names
  <2>2. PICK t \in ToSet(model.tables) : t.name = u.name
    BY <1>3, <2>1 DEF LooksSame, Names
  <2>3. PICK v \in db.tables : v.name = t.name /\ v = Row(t)
    BY <1>4
  <2>4. v = u
    BY <2>2, <2>3 DEF Shape, Distinct
  <2> QED
    BY <2>3, <2>4, Zenon
<1>6. db.tables = {Row(t) : t \in ToSet(model.tables)}
  <2>1. \A u : u \in {Row(t) : t \in ToSet(model.tables)}
                 <=> \E t \in ToSet(model.tables) : u = Row(t)
    BY Zenon
  <2>2. \A t \in ToSet(model.tables) : Row(t) \in db.tables
    BY <1>4, Zenon
  <2> QED
    BY <1>5, <2>1, <2>2
<1>8. CatalogOf(model) = OfTables({Row(t) : t \in ToSet(model.tables)})
  BY CatalogFacts DEF model
<1>9. db = OfTables(db.tables)
  BY DEF Shape
<1> QED
  BY <1>6, <1>8, <1>9, Zenon DEF model

-----------------------------------------------------------------------------
(* The first migration: from no models *)

(* The models of an empty checkout. *)
NoModels == [f \in File |-> NoFile]

(* On the way to these tables: no table has anything else, and each has what   *)
(* the statements of D, which were run, have made.                          *)
OnTheWay(T, D, db) ==
    /\ \A u \in db.tables : \E t \in T :
          /\ u = Plain(t.name, t.pk, ToSet(t.columns), u.fks, u.indexes)
          /\ u.name = t.name
          /\ u.fks \subseteq ToSet(t.fks) /\ u.indexes \subseteq ToSet(t.indexes)
          /\ InlineForeignKeys => u.fks = ToSet(t.fks)
    /\ \A t \in T :
          Operation("create_table", t.name, t) \in D => In(db.tables, t.name)
    /\ \A t \in T : \A x \in ToSet(t.fks) :
          Operation("add_fk", t.name, x) \in D =>
             InlineForeignKeys \/ \E u \in db.tables : u.name = t.name /\ x \in u.fks
    /\ \A t \in T : \A x \in ToSet(t.indexes) :
          Operation("create_index", t.name, x) \in D =>
             \E u \in db.tables : u.name = t.name /\ x \in u.indexes

(* The tables of one model. *)
Tables(T) ==
    /\ \A t \in T : t.name \in File /\ t \in Written(t.name)
    /\ \A s \in T : \A t \in T : s.name = t.name => s = t

(* A table is created. *)
LEMMA CreateOnTheWay ==
    ASSUME FilesRead, NEW T, Tables(T), NEW D, NEW db, Shape(db), OnTheWay(T, D, db),
           NEW t \in T, NEW op, op = Operation("create_table", t.name, t), Accepts(db, op)
    PROVE  OnTheWay(T, D \cup {op}, Execute(db, op))
<1> DEFINE keys == IF InlineForeignKeys THEN ToSet(t.fks) ELSE {}
           v == Plain(t.name, t.pk, ToSet(t.columns), keys, {})
           S == db.tables \cup {v}
<1>1. /\ op.kind = "create_table" /\ op.table = t.name /\ op.arg = t
      /\ op.kind \notin Skipped
  BY DEF Operation, Skipped
<1>2. \A u \in db.tables : u.name # t.name
  BY <1>1 DEF Accepts, In
<1>3. NewTable(t) = v
  <2>1. t.name \in File /\ t \in Written(t.name)
    BY DEF Tables
  <2> QED
    BY <2>1, NewPlain, Zenon
<1>4. v.name = t.name /\ v.fks = keys /\ v.indexes = {}
  BY DEF Plain
<1>5. Execute(db, op).tables = S
  <2>1. Execute(db, op) = [db EXCEPT !.tables = Put(@, NewTable(t))]
    BY <1>1 DEF Execute
  <2>2. Put(db.tables, v) = S
    BY <1>2, <1>4 DEF Put, Less
  <2>3. "tables" \in DOMAIN db
    BY DEF Shape, OfTables
  <2> HIDE DEF S, v
  <2> QED
    BY <1>3, <2>1, <2>2, <2>3
<1>6. v = Plain(t.name, t.pk, ToSet(t.columns), v.fks, v.indexes)
  BY <1>4
<1>7. keys \subseteq ToSet(t.fks) /\ (InlineForeignKeys => keys = ToSet(t.fks))
  OBVIOUS
<1> HIDE DEF v, keys
<1>8. \A u \in S : \E w \in T :
          /\ u = Plain(w.name, w.pk, ToSet(w.columns), u.fks, u.indexes)
          /\ u.name = w.name
          /\ u.fks \subseteq ToSet(w.fks) /\ u.indexes \subseteq ToSet(w.indexes)
          /\ InlineForeignKeys => u.fks = ToSet(w.fks)
  <2> TAKE u \in S
  <2>1. CASE u \in db.tables
    BY <2>1 DEF OnTheWay
  <2>2. CASE u = v
    <3>1. v.indexes \subseteq ToSet(t.indexes)
      BY <1>4
    <3> QED
      BY <1>4, <1>6, <1>7, <2>2, <3>1
  <2> QED
    BY <2>1, <2>2
<1>9. \A w \in T :
         Operation("create_table", w.name, w) \in D \cup {op} => In(S, w.name)
  <2> TAKE w \in T
  <2> HAVE Operation("create_table", w.name, w) \in D \cup {op}
  <2>1. CASE Operation("create_table", w.name, w) \in D
    BY <2>1 DEF OnTheWay, In
  <2>2. CASE Operation("create_table", w.name, w) = op
    <3>1. w.name = t.name
      BY <2>2 DEF Operation
    <3> QED
      BY <1>4, <3>1 DEF In
  <2> QED
    BY <2>1, <2>2
<1>10. \A n, x : Operation("add_fk", n, x) # op /\ Operation("create_index", n, x) # op
  BY DEF Operation
<1>11. /\ \A w \in T : \A x \in ToSet(w.fks) :
            Operation("add_fk", w.name, x) \in D \cup {op} =>
               InlineForeignKeys \/ \E u \in S : u.name = w.name /\ x \in u.fks
       /\ \A w \in T : \A x \in ToSet(w.indexes) :
            Operation("create_index", w.name, x) \in D \cup {op} =>
               \E u \in S : u.name = w.name /\ x \in u.indexes
  BY <1>10 DEF OnTheWay
<1> HIDE DEF S
<1> QED
  BY <1>5, <1>8, <1>9, <1>11 DEF OnTheWay

(* A foreign key or an index is added to one that is there. *)
LEMMA AddOnTheWay ==
    ASSUME FilesRead, NEW T, Tables(T), NEW D, NEW db, Shape(db), OnTheWay(T, D, db),
           NEW t \in T, NEW op, NEW x, Accepts(db, op), op.kind \notin Skipped,
           \/ x \in ToSet(t.fks) /\ op = Operation("add_fk", t.name, x)
           \/ x \in ToSet(t.indexes) /\ op = Operation("create_index", t.name, x)
    PROVE  OnTheWay(T, D \cup {op}, Execute(db, op))
<1> DEFINE f == t.name
           u == Get(db.tables, f)
<1>1. f \in File /\ t \in Written(f)
  BY DEF Tables
<1>2. op.kind \in {"add_fk", "create_index"} /\ op.arg = x /\ op.table = f
  BY DEF Operation
<1>3. OfFile(op, f, t)
  BY DEF OfFile
<1>4. Effect(db, op, f, t)
  BY <1>1, <1>2, <1>3, ExecuteUsual
<1>5. /\ u \in db.tables /\ u.name = f
      /\ op.kind = "add_fk" =>
           Becomes(db, op, Plain(f, u.pk, u.columns, Put(u.fks, x), u.indexes))
      /\ op.kind = "create_index" =>
           Becomes(db, op, Plain(f, u.pk, u.columns, u.fks, Put(u.indexes, x)))
  BY <1>2, <1>4 DEF Effect
<1> HIDE DEF u
<1>6. /\ u.pk = t.pk /\ u.columns = ToSet(t.columns)
      /\ u.fks \subseteq ToSet(t.fks) /\ u.indexes \subseteq ToSet(t.indexes)
      /\ InlineForeignKeys => u.fks = ToSet(t.fks)
  <2>1. PICK w \in T : /\ u = Plain(w.name, w.pk, ToSet(w.columns), u.fks, u.indexes)
                       /\ u.name = w.name
                       /\ u.fks \subseteq ToSet(w.fks)
                       /\ u.indexes \subseteq ToSet(w.indexes)
                       /\ InlineForeignKeys => u.fks = ToSet(w.fks)
    BY <1>5 DEF OnTheWay
  <2>2. w = t
    BY <1>5, <2>1 DEF Tables
  <2>3. u.pk = w.pk /\ u.columns = ToSet(w.columns)
    BY <2>1 DEF Plain
  <2> QED
    BY <2>1, <2>2, <2>3
<1>7. \A y \in ToSet(t.fks) : \A z \in ToSet(t.fks) : y.name = z.name => y = z
  BY <1>1, FilesAreTables DEF ToldApart
<1>8. \A y \in ToSet(t.indexes) : \A z \in ToSet(t.indexes) : y.name = z.name => y = z
  BY <1>1, FilesAreTables DEF ToldApart
<1>9. PICK fks, indexes :
         /\ Becomes(db, op, Plain(f, t.pk, ToSet(t.columns), fks, indexes))
         /\ u.fks \subseteq fks /\ fks \subseteq ToSet(t.fks)
         /\ u.indexes \subseteq indexes /\ indexes \subseteq ToSet(t.indexes)
         /\ op.kind = "add_fk" => x \in fks
         /\ op.kind = "create_index" => x \in indexes
  <2>1. CASE op.kind = "add_fk"
    <3>1. x \in ToSet(t.fks)
      BY <2>1 DEF Operation
    <3>2. /\ u.fks \subseteq Put(u.fks, x) /\ Put(u.fks, x) \subseteq ToSet(t.fks)
          /\ x \in Put(u.fks, x)
      BY <1>6, <1>7, <3>1 DEF Put, Less
    <3>3. Becomes(db, op, Plain(f, t.pk, ToSet(t.columns), Put(u.fks, x), u.indexes))
      BY <1>5, <1>6, <2>1
    <3> QED
      BY <1>6, <2>1, <3>2, <3>3
  <2>2. CASE op.kind = "create_index"
    <3>1. x \in ToSet(t.indexes)
      BY <2>2 DEF Operation
    <3>2. /\ u.indexes \subseteq Put(u.indexes, x)
          /\ Put(u.indexes, x) \subseteq ToSet(t.indexes)
          /\ x \in Put(u.indexes, x)
      BY <1>6, <1>8, <3>1 DEF Put, Less
    <3>3. Becomes(db, op, Plain(f, t.pk, ToSet(t.columns), u.fks, Put(u.indexes, x)))
      BY <1>5, <1>6, <2>2
    <3> QED
      BY <1>6, <2>2, <3>2, <3>3
  <2> QED
    BY <1>2, <2>1, <2>2
<1> DEFINE v == Plain(f, t.pk, ToSet(t.columns), fks, indexes)
           S == Put(db.tables, v)
<1>10. v.name = f /\ v.fks = fks /\ v.indexes = indexes
  BY DEF Plain
<1>11. v = Plain(t.name, t.pk, ToSet(t.columns), v.fks, v.indexes)
  BY <1>10
<1>12. Execute(db, op).tables = S
  <2>1. Execute(db, op) = [db EXCEPT !.tables = S]
    BY <1>9 DEF Becomes
  <2>2. "tables" \in DOMAIN db
    BY DEF Shape, OfTables
  <2> HIDE DEF S
  <2> QED
    BY <2>1, <2>2
<1> HIDE DEF v
<1>13. /\ v \in S
       /\ \A w \in S : w = v \/ w \in db.tables
       /\ \A w \in db.tables : w.name # f => w \in S
       /\ \A w \in db.tables : w.name = f => w = u
  <2>1. \A w \in db.tables : w.name = f => w = u
    BY <1>5 DEF Shape, Distinct
  <2> QED
    BY <1>10, <2>1 DEF Put, Less
<1> HIDE DEF S
<1>14. \A w \in S : \E s \in T :
          /\ w = Plain(s.name, s.pk, ToSet(s.columns), w.fks, w.indexes)
          /\ w.name = s.name
          /\ w.fks \subseteq ToSet(s.fks) /\ w.indexes \subseteq ToSet(s.indexes)
          /\ InlineForeignKeys => w.fks = ToSet(s.fks)
  <2> TAKE w \in S
  <2>1. CASE w \in db.tables
    BY <2>1 DEF OnTheWay
  <2>2. CASE w = v
    <3>1. v.fks \subseteq ToSet(t.fks) /\ v.indexes \subseteq ToSet(t.indexes)
      BY <1>9, <1>10
    <3>2. InlineForeignKeys => v.fks = ToSet(t.fks)
      BY <1>6, <1>9, <1>10
    <3> QED
      BY <1>10, <1>11, <2>2, <3>1, <3>2
  <2> QED
    BY <1>13, <2>1, <2>2
<1>15. \A s \in T :
          Operation("create_table", s.name, s) \in D \cup {op} => In(S, s.name)
  <2> TAKE s \in T
  <2> HAVE Operation("create_table", s.name, s) \in D \cup {op}
  <2>1. Operation("create_table", s.name, s) # op
    BY <1>2 DEF Operation
  <2>2. In(db.tables, s.name)
    BY <2>1 DEF OnTheWay
  <2> QED
    BY <1>10, <1>13, <2>2 DEF In
<1>16. \A s \in T : \A y \in ToSet(s.fks) :
          Operation("add_fk", s.name, y) \in D \cup {op} =>
             InlineForeignKeys \/ \E w \in S : w.name = s.name /\ y \in w.fks
  <2> TAKE s \in T
  <2> TAKE y \in ToSet(s.fks)
  <2> HAVE Operation("add_fk", s.name, y) \in D \cup {op}
  <2>1. CASE Operation("add_fk", s.name, y) \in D /\ ~InlineForeignKeys
    <3>1. PICK w \in db.tables : w.name = s.name /\ y \in w.fks
      BY <2>1 DEF OnTheWay
    <3>2. CASE w.name # f
      BY <1>13, <3>1, <3>2
    <3>3. CASE w.name = f
      BY <1>9, <1>10, <1>13, <3>1, <3>3
    <3> QED
      BY <3>2, <3>3
  <2>2. CASE Operation("add_fk", s.name, y) = op
    <3>1. s.name = f /\ y = x /\ op.kind = "add_fk"
      BY <1>2, <2>2 DEF Operation
    <3> QED
      BY <1>9, <1>10, <1>13, <3>1
  <2> QED
    BY <2>1, <2>2
<1>17. \A s \in T : \A y \in ToSet(s.indexes) :
          Operation("create_index", s.name, y) \in D \cup {op} =>
             \E w \in S : w.name = s.name /\ y \in w.indexes
  <2> TAKE s \in T
  <2> TAKE y \in ToSet(s.indexes)
  <2> HAVE Operation("create_index", s.name, y) \in D \cup {op}
  <2>1. CASE Operation("create_index", s.name, y) \in D
    <3>1. PICK w \in db.tables : w.name = s.name /\ y \in w.indexes
      BY <2>1 DEF OnTheWay
    <3>2. CASE w.name # f
      BY <1>13, <3>1, <3>2
    <3>3. CASE w.name = f
      BY <1>9, <1>10, <1>13, <3>1, <3>3
    <3> QED
      BY <3>2, <3>3
  <2>2. CASE Operation("create_index", s.name, y) = op
    <3>1. s.name = f /\ y = x /\ op.kind = "create_index"
      BY <1>2, <2>2 DEF Operation
    <3> QED
      BY <1>9, <1>10, <1>13, <3>1
  <2> QED
    BY <2>1, <2>2
<1> QED
  BY <1>12, <1>14, <1>15, <1>16, <1>17 DEF OnTheWay

(* From an empty checkout, the operations of a created table and no others.   *)
LEMMA FirstUps ==
    ASSUME FilesRead, NEW models \in Trees,
           NEW T, T = ToSet(ModelOf(models).tables)
    PROVE  /\ Tables(T)
           /\ \A op : op \in ToSet(Ups[NoModels][models])
                        <=> \E t \in T : \/ op = Operation("create_table", t.name, t)
                                         \/ IsOneOf(op, "add_fk", t.name, t.fks)
                                         \/ IsOneOf(op, "create_index", t.name, t.indexes)
<1> DEFINE a == ModelOf(NoModels)
           b == ModelOf(models)
<1>1. NoModels \in Trees
  BY NoFilesIsTree DEF NoModels
<1>2. ToSet(a.tables) = {}
  <2>1. ToSet(a.tables) = {NoModels[f] : f \in File} \ {NoFile}
    BY ModelFacts, Zenon
  <2>2. \A f \in File : NoModels[f] = NoFile
    BY DEF NoModels
  <2> QED
    BY <2>1, <2>2
<1>3. /\ a.functions = <<>> /\ a.views = <<>> /\ a.raw = <<>> /\ WantedExtensions(a) = {}
  BY <1>1, TreeModel
<1>4. /\ b.functions = <<>> /\ b.views = <<>> /\ b.raw = <<>> /\ WantedExtensions(b) = {}
      /\ \A t \in T : t.name \in File /\ t \in Written(t.name) /\ t = models[t.name]
  BY TreeModel
<1>5. \A op : op \in ToSet(Ups[NoModels][models]) <=> IsEmitted(op, a, b)
  BY <1>1, UpsAreUsual
<1> HIDE DEF a, b
<1>6. Tables(T)
  <2>1. \A s \in T : \A t \in T : s.name = t.name => s = t
    BY <1>4
  <2> QED
    BY <1>4, <2>1 DEF Tables
<1>7. \A op : ~IsForDatabase(op, a, b)
  BY <1>3, <1>4, NoneHolds DEF IsForDatabase, IsDrop, IsAdd, IsMissing
<1>8. \A n : ~Has(a.tables, n)
  BY <1>2 DEF Has, Names
<1>9. ASSUME NEW t \in T, NEW op
      PROVE  IsForCreated(op, t) <=> \/ op = Operation("create_table", t.name, t)
                                     \/ IsOneOf(op, "add_fk", t.name, t.fks)
                                     \/ IsOneOf(op, "create_index", t.name, t.indexes)
  <2>1. t.triggers = <<>> /\ t.seed = <<>>
    BY <1>4, FilesAreTables
  <2>2. /\ ~IsOneOf(op, "create_trigger", t.name, t.triggers)
        /\ ~IsOneOf(op, "insert_data", t.name, t.seed)
    BY <2>1, NoneHolds DEF IsOneOf
  <2> QED
    BY <2>2 DEF IsForCreated
<1>10. \A op : IsEmitted(op, a, b) <=> \E t \in T : IsForCreated(op, t)
  <2>1. ToSet(b.tables) = T
    BY DEF b
  <2> QED
    BY <1>2, <1>7, <1>8, <2>1 DEF IsEmitted
<1> QED
  BY <1>5, <1>6, <1>9, <1>10

(* One of them. *)
LEMMA RunOnTheWay ==
    ASSUME FilesRead, NEW T, Tables(T), NEW D, NEW db, Shape(db), OnTheWay(T, D, db),
           NEW t \in T, NEW op, Accepts(db, op),
           \/ op = Operation("create_table", t.name, t)
           \/ IsOneOf(op, "add_fk", t.name, t.fks)
           \/ IsOneOf(op, "create_index", t.name, t.indexes)
    PROVE  OnTheWay(T, D \cup {op}, Execute(db, op))
<1>1. CASE op = Operation("create_table", t.name, t)
  BY <1>1, CreateOnTheWay
<1>2. CASE op.kind \notin Skipped /\ IsOneOf(op, "add_fk", t.name, t.fks)
  <2>1. PICK x \in ToSet(t.fks) : op = Operation("add_fk", t.name, x)
    BY <1>2 DEF IsOneOf
  <2> QED
    BY <1>2, <2>1, AddOnTheWay
<1>3. CASE op.kind \notin Skipped /\ IsOneOf(op, "create_index", t.name, t.indexes)
  <2>1. PICK x \in ToSet(t.indexes) : op = Operation("create_index", t.name, x)
    BY <1>3 DEF IsOneOf
  <2> QED
    BY <1>3, <2>1, AddOnTheWay
<1>4. CASE op.kind \in Skipped /\ op # Operation("create_table", t.name, t)
  <2>1. op.kind \in {"add_fk", "create_index"}
    BY <1>4 DEF IsOneOf, Operation
  <2>2. op.kind = "add_fk" /\ InlineForeignKeys
    BY <1>4, <2>1 DEF Skipped, InlineForeignKeys
  <2>3. Execute(db, op) = db
    BY <1>4 DEF Execute
  <2>4. \A n, x : Operation("create_table", n, x) # op /\ Operation("create_index", n, x) # op
    BY <2>2 DEF Operation
  <2> QED
    BY <2>2, <2>3, <2>4 DEF OnTheWay
<1> QED
  BY <1>1, <1>2, <1>3, <1>4

(* A first migration that a new database takes builds what the models say.    *)
LEMMA FirstBuilds ==
    ASSUME FilesRead, NEW models \in Trees,
           FoldLeft(Run, Empty, Ups[NoModels][models]).ok
    PROVE  FoldLeft(Run, Empty, Ups[NoModels][models])
             = [ok |-> TRUE, db |-> CatalogOf(ModelOf(models))]
<1> DEFINE ops == Ups[NoModels][models]
           n == Len(ops)
           T == ToSet(ModelOf(models).tables)
           First(op, t) == \/ op = Operation("create_table", t.name, t)
                           \/ IsOneOf(op, "add_fk", t.name, t.fks)
                           \/ IsOneOf(op, "create_index", t.name, t.indexes)
<1>1. NoModels \in Trees
  BY NoFilesIsTree DEF NoModels
<1>2. IsList(ops) /\ \A op \in ToSet(ops) : Usual(op)
  BY <1>1, UpsAreUsual
<1>3. Tables(T) /\ \A op : op \in ToSet(ops) <=> \E t \in T : First(op, t)
  BY FirstUps
<1>4. CatalogOf(ModelOf(models)) = OfTables({Row(t) : t \in T})
  BY CatalogFacts
<1>5. FoldLeft(Run, Empty, ops).ok
  OBVIOUS
<1> HIDE DEF ops, T
<1>6. n \in Nat /\ DOMAIN ops = 1..n
  BY <1>2, ListFacts
<1>7. PICK c : Runs(c, Empty, ops) /\ FoldLeft(Run, Empty, ops) = c[n]
  BY <1>2, FoldRuns
<1>8. c[0] = Empty /\ \A i \in 1..n : c[i] = Run(c[i - 1], ops[i]) /\ ops[i] \in ToSet(ops)
  BY <1>6, <1>7 DEF Runs, ToSet
<1> DEFINE Done(i) == {ops[j] : j \in 1..i}
           Fine(i) == /\ Good(c[i])
                      /\ c[i].ok => OnTheWay(T, Done(i), c[i].db)
           Bad == {i \in Nat : i <= n /\ ~Fine(i)}
<1>9. Fine(0)
  <2>1. Done(0) = {}
    OBVIOUS
  <2>2. OfTables({}).tables = {}
    BY DEF OfTables
  <2>3. OnTheWay(T, {}, OfTables({}))
    BY <2>2 DEF OnTheWay
  <2> QED
    BY <1>8, <2>1, <2>3, EmptyIsGood
<1>10. ASSUME NEW i \in 1..n, Fine(i - 1) PROVE Fine(i)
  <2>1. Usual(ops[i]) /\ c[i] = Run(c[i - 1], ops[i])
    BY <1>2, <1>8
  <2>2. Good(c[i]) /\ (c[i].ok => c[i - 1].ok)
    BY <1>10, <2>1, RunIsGood
  <2>3. ASSUME c[i].ok PROVE OnTheWay(T, Done(i), c[i].db)
    <3>1. /\ Accepts(c[i - 1].db, ops[i]) /\ c[i].db = Execute(c[i - 1].db, ops[i])
      <4>1. CASE c[i - 1].ok /\ Accepts(c[i - 1].db, ops[i])
        <5>1. c[i] = [ok |-> TRUE, db |-> Execute(c[i - 1].db, ops[i])]
          BY <2>1, <4>1 DEF Run
        <5> QED
          BY <4>1, <5>1
      <4>2. CASE ~(c[i - 1].ok /\ Accepts(c[i - 1].db, ops[i]))
        <5>1. c[i] = [ok |-> FALSE, db |-> c[i - 1].db]
          BY <2>1, <4>2 DEF Run
        <5> QED
          BY <2>3, <5>1
      <4> QED
        BY <4>1, <4>2
    <3>2. OnTheWay(T, Done(i - 1), c[i - 1].db) /\ Shape(c[i - 1].db)
      BY <1>10, <2>2, <2>3 DEF Good
    <3>3. Done(i) = Done(i - 1) \cup {ops[i]}
      BY <1>6
    <3>4. PICK t \in T : First(ops[i], t)
      BY <1>3, <1>8
    <3> HIDE DEF Done
    <3> QED
      BY <1>3, <3>1, <3>2, <3>3, <3>4, RunOnTheWay
  <2> QED
    BY <2>2, <2>3
<1>11. Bad = {}
  <2> SUFFICES ASSUME Bad # {} PROVE FALSE
    OBVIOUS
  <2> HIDE DEF Fine
  <2>1. PICK i \in Bad : \A j \in Bad : i <= j
    BY LeastNumber
  <2>2. i # 0
    BY <1>9, <2>1
  <2>3. i \in 1..n /\ i - 1 \in Nat /\ i - 1 \notin Bad
    BY <1>6, <2>1, <2>2
  <2>4. Fine(i - 1)
    BY <1>6, <2>3
  <2> QED
    BY <1>10, <2>1, <2>3, <2>4
<1>12. Fine(n)
  <2> HIDE DEF Fine
  <2> QED
    BY <1>6, <1>11
<1>13. /\ c[n].ok /\ Shape(c[n].db) /\ c[n] = [ok |-> c[n].ok, db |-> c[n].db]
       /\ OnTheWay(T, ToSet(ops), c[n].db)
  <2>1. Done(n) = ToSet(ops)
    BY <1>6 DEF ToSet
  <2> QED
    BY <1>5, <1>7, <1>12, <2>1 DEF Good
<1> DEFINE db == c[n].db
<1>14. \A t \in T : \A op : First(op, t) => op \in ToSet(ops)
  BY <1>3
<1>15. ASSUME NEW u \in db.tables PROVE \E t \in T : u = Row(t)
  <2>1. PICK t \in T :
           /\ u = Plain(t.name, t.pk, ToSet(t.columns), u.fks, u.indexes)
           /\ u.name = t.name
           /\ u.fks \subseteq ToSet(t.fks) /\ u.indexes \subseteq ToSet(t.indexes)
           /\ InlineForeignKeys => u.fks = ToSet(t.fks)
    BY <1>13 DEF OnTheWay
  <2>2. \A v \in db.tables : v.name = t.name => v = u
    BY <1>13, <2>1 DEF Shape, Distinct
  <2>3. \A x \in ToSet(t.fks) : x \in u.fks
    <3> TAKE x \in ToSet(t.fks)
    <3>1. Operation("add_fk", t.name, x) \in ToSet(ops)
      BY <1>14 DEF IsOneOf
    <3>2. InlineForeignKeys \/ \E v \in db.tables : v.name = t.name /\ x \in v.fks
      BY <1>13, <3>1 DEF OnTheWay
    <3> QED
      BY <2>1, <2>2, <3>2
  <2>4. \A x \in ToSet(t.indexes) : x \in u.indexes
    <3> TAKE x \in ToSet(t.indexes)
    <3>1. Operation("create_index", t.name, x) \in ToSet(ops)
      BY <1>14 DEF IsOneOf
    <3>2. \E v \in db.tables : v.name = t.name /\ x \in v.indexes
      BY <1>13, <3>1 DEF OnTheWay
    <3> QED
      BY <2>2, <3>2
  <2>5. u.fks = ToSet(t.fks) /\ u.indexes = ToSet(t.indexes)
    BY <2>1, <2>3, <2>4
  <2> QED
    BY <2>1, <2>5, Zenon DEF Row
<1>16. ASSUME NEW t \in T PROVE Row(t) \in db.tables
  <2>1. Operation("create_table", t.name, t) \in ToSet(ops)
    BY <1>14
  <2>2. PICK u \in db.tables : u.name = t.name
    BY <1>13, <2>1 DEF OnTheWay, In
  <2>3. PICK s \in T : u = Row(s)
    BY <1>15
  <2>4. s.name = t.name
    BY <2>2, <2>3 DEF Row, Plain
  <2> QED
    BY <1>3, <2>3, <2>4 DEF Tables
<1>17. db.tables = {Row(t) : t \in T}
  BY <1>15, <1>16
<1>18. db = OfTables({Row(t) : t \in T})
  <2>1. db = OfTables(db.tables)
    BY <1>13 DEF Shape
  <2> QED
    BY <1>17, <2>1, Zenon
<1>19. c[n].ok = TRUE
  BY <1>8, <1>13, <1>6 DEF Run, Empty
<1> QED
  BY <1>4, <1>7, <1>13, <1>18, <1>19 DEF ops

-----------------------------------------------------------------------------
(* The trunk is always built *)

(* There are finitely many migrations wherever they are. *)
AllFinite ==
    /\ IsFiniteSet(trunk.migrations)
    /\ \A d \in Developers :
          IsFiniteSet(work[d].migrations) /\ IsFiniteSet(head[d].migrations)

(* What the induction carries. *)
BuiltInv == AllFinite /\ TrunkBuilds

(* The first migration alone, in a new database. *)
LEMMA InitBuilt == FilesRead /\ Init => BuiltInv
<1> SUFFICES ASSUME FilesRead, Init PROVE BuiltInv
  OBVIOUS
<1>1. PICK m \in Trees :
         /\ FoldLeft(Run, Empty, Ups[NoModels][m]).ok
         /\ trunk = [models |-> m, snapshot |-> m,
                     migrations |-> {[id |-> 1, by |-> 0, from |-> NoModels,
                                      to |-> m]}]
  BY Zenon DEF Init, NoModels
<1> DEFINE first == [id |-> 1, by |-> 0, from |-> NoModels, to |-> m]
           M == {first}
<1>2. first \in Migration /\ first.from = NoModels /\ first.to = m
  BY NoFilesIsTree DEF Migration, NoModels
<1>3. trunk.migrations = M /\ trunk.models = m
  BY <1>1
<1> HIDE DEF first
<1>4. IsFiniteSet(M) /\ Cardinality(M) = 1
  BY FS_Singleton
<1>5. work = [d \in Developers |-> trunk] /\ head = work
  BY DEF Init
<1>6. AllFinite
  BY <1>3, <1>4, <1>5 DEF AllFinite
<1>7. Fresh(M) = [ok |-> TRUE, db |-> CatalogOf(ModelOf(m))]
  <2> DEFINE list == ById(M)
  <2>1. NamesUnique(M) /\ M \in SUBSET Migration
    BY <1>2 DEF NamesUnique
  <2>2. IsList(list) /\ Len(list) = 1 /\ \A i \in DOMAIN list : list[i] \in M
    BY <1>4, <2>1, ByIdFacts
  <2>3. Fresh(M) = FoldLeft(RunUp, Empty, list)
    BY DEF Fresh
  <2> HIDE DEF list
  <2>4. PICK c : Applies(c, Empty, list) /\ FoldLeft(RunUp, Empty, list) = c[Len(list)]
    BY <2>2, FoldApplies
  <2>5. list[1] = first
    BY <2>2, ListFacts
  <2>6. c[1] = RunUp(Empty, first)
    <3>1. 1 \in 1..Len(list) /\ c[0] = Empty
      BY <2>2, <2>4 DEF Applies
    <3>2. c[1] = RunUp(c[1 - 1], list[1])
      BY <2>4, <3>1 DEF Applies
    <3> QED
      BY <2>5, <3>1, <3>2
  <2>7. RunUp(Empty, first) = FoldLeft(Run, Empty, Ups[NoModels][m])
    BY <1>2 DEF RunUp
  <2> QED
    BY <1>1, <2>2, <2>3, <2>4, <2>6, <2>7, FirstBuilds
<1>8. TrunkBuilds
  BY <1>3, <1>7, Zenon DEF TrunkBuilds
<1> QED
  BY <1>6, <1>8 DEF BuiltInv

(* What CI has let through is built. *)
LEMMA MergedIsBuilt ==
    ASSUME FilesRead, IInv, AllFinite, NEW d \in Developers, MergeToTrunk(d)
    PROVE  TrunkBuilds'
<1>1. trunk' = head[d] /\ gate' = gate /\ CheckVerify(head[d])
  BY DEF MergeToTrunk, Passes
<1> DEFINE M == head[d].migrations
           models == head[d].models
           fresh == Fresh(M)
<1>2. SUFFICES ASSUME gate.database
               PROVE  fresh = [ok |-> TRUE, db |-> CatalogOf(ModelOf(models))]
  BY <1>1, Zenon DEF TrunkBuilds
<1>3. fresh.ok /\ Diff(Live(fresh.db), ModelOf(models)) = <<>>
  BY <1>1, <1>2 DEF CheckVerify
<1>4. M \in SUBSET Migration /\ IsFiniteSet(M) /\ NamesUnique(M) /\ models \in Trees
  <2>1. NamesUnique(work[d].migrations) /\ M \subseteq work[d].migrations
    BY DEF IInv, TypeOK, HistoryInv, Nested
  <2>2. head[d] \in Tree
    BY DEF IInv, TypeOK
  <2> QED
    BY <2>1, <2>2 DEF AllFinite, NamesUnique, Tree
<1>5. Good(fresh)
  BY <1>4, FreshIsGood
<1>6. fresh.db = CatalogOf(ModelOf(models))
  BY <1>3, <1>4, <1>5, GateHolds DEF Good
<1>7. fresh.ok = TRUE
  BY <1>3, <1>5 DEF Good
<1> HIDE DEF fresh
<1> QED
  BY <1>5, <1>6, <1>7 DEF Good

(* Every step keeps the migrations finite. *)
LEMMA FiniteStays ==
    ASSUME IInv, AllFinite, [Next]_vars PROVE AllFinite'
<1>0. work \in [Developers -> Tree] /\ head \in [Developers -> Tree]
  BY DEF IInv, TypeOK
<1>1. CASE UNCHANGED vars
  BY <1>1 DEF vars, AllFinite
<1>2. ASSUME NEW d \in Developers, Edit(d) \/ Snapshot(d) PROVE AllFinite'
  <2>1. \A e \in Developers : work'[e].migrations = work[e].migrations
    <3>1. CASE Edit(d)
      <4>1. PICK f \in File : \E x \in Versions[f] \ {work[d].models[f]} :
                work' = [work EXCEPT ![d].models[f] = x]
        BY <3>1 DEF Edit
      <4>2. PICK x : work' = [work EXCEPT ![d].models[f] = x]
        BY <4>1
      <4> QED
        BY <1>0, <4>2 DEF Tree
    <3>2. CASE Snapshot(d)
      BY <1>0, <3>2 DEF Snapshot, Tree
    <3> QED
      BY <1>2, <3>1, <3>2
  <2>2. trunk' = trunk /\ head' = head
    BY <1>2 DEF Edit, Snapshot
  <2> QED
    BY <2>1, <2>2 DEF AllFinite
<1>3. ASSUME NEW d \in Developers, NEW now \in Clock, Migrate(d, now) PROVE AllFinite'
  <2> DEFINE n == [id |-> NextId(work[d].migrations, now), by |-> d,
                   from |-> work[d].snapshot, to |-> work[d].models]
             t == [models |-> work[d].models, snapshot |-> work[d].models,
                   migrations |-> work[d].migrations \cup {n}]
  <2>1. work' = [work EXCEPT ![d] = t] /\ trunk' = trunk /\ head' = head
    BY <1>3 DEF Migrate
  <2> HIDE DEF n
  <2>2. IsFiniteSet(t.migrations)
    BY FS_AddElement DEF AllFinite
  <2> HIDE DEF t
  <2> QED
    BY <1>0, <2>1, <2>2 DEF AllFinite
<1>4. ASSUME NEW d \in Developers, Commit(d) PROVE AllFinite'
  BY <1>0, <1>4 DEF Commit, AllFinite
<1>5. ASSUME NEW d \in Developers, Merge(d) PROVE AllFinite'
  <2>1. PICK h, w : /\ head' = [head EXCEPT ![d] = h] /\ work' = [work EXCEPT ![d] = w]
                    /\ w.migrations = h.migrations
                    /\ \/ h.migrations = trunk.migrations
                       \/ h.migrations = head[d].migrations \cup trunk.migrations
    <3>1. trunk \in Tree
      BY DEF IInv, TypeOK
    <3>2. CASE FastForward(d)
      <4>1. PostMerge(d, trunk).migrations = trunk.migrations
        BY <3>1 DEF PostMerge, Tree
      <4> QED
        BY <3>2, <4>1 DEF FastForward
    <3>3. CASE MergeFiles(d)
      <4>1. PICK merged, snapshot :
               LET tree == [models |-> merged, snapshot |-> snapshot,
                            migrations |-> head[d].migrations \cup trunk.migrations] IN
               /\ head' = [head EXCEPT ![d] = tree]
               /\ work' = [work EXCEPT ![d] = PostMerge(d, tree)]
        BY <3>3 DEF MergeFiles
      <4> DEFINE tree == [models |-> merged, snapshot |-> snapshot,
                          migrations |-> head[d].migrations \cup trunk.migrations]
      <4>2. PostMerge(d, tree).migrations = head[d].migrations \cup trunk.migrations
        BY DEF PostMerge
      <4>3. tree.migrations = head[d].migrations \cup trunk.migrations
        OBVIOUS
      <4> HIDE DEF tree
      <4> QED
        BY <4>1, <4>2, <4>3 DEF tree
    <3>4. CASE MergeByHand(d)
      BY <3>4 DEF MergeByHand
    <3> QED
      BY <1>5, <3>2, <3>3, <3>4 DEF Merge
  <2>2. IsFiniteSet(h.migrations)
    BY <2>1, FS_Union DEF AllFinite
  <2>3. trunk' = trunk
    BY <1>5 DEF Merge
  <2> QED
    BY <1>0, <2>1, <2>2, <2>3 DEF AllFinite
<1>6. ASSUME NEW d \in Developers, MergeToTrunk(d) PROVE AllFinite'
  BY <1>6 DEF MergeToTrunk, AllFinite
<1> QED
  BY <1>1, <1>2, <1>3, <1>4, <1>5, <1>6 DEF Next

(* Every step keeps the trunk built: only CI's merge changes it. *)
LEMMA NextBuilt == FilesRead /\ IInv /\ BuiltInv /\ [Next]_vars => BuiltInv'
<1> SUFFICES ASSUME FilesRead, IInv, BuiltInv, [Next]_vars PROVE BuiltInv'
  OBVIOUS
<1>1. AllFinite'
  BY FiniteStays DEF BuiltInv
<1>2. CASE UNCHANGED <<gate, trunk>>
  BY <1>1, <1>2 DEF BuiltInv, TrunkBuilds
<1>3. CASE \E d \in Developers : MergeToTrunk(d)
  BY <1>1, <1>3, MergedIsBuilt DEF BuiltInv
<1> QED
  BY <1>2, <1>3 DEF Next, vars, Edit, Migrate, Snapshot, Commit, Merge

(* With a CI that has a database, the trunk's migrations apply to a new one   *)
(* and build, to the last index, what the trunk's models describe, however    *)
(* often they are merged and whatever is merged with them: `molde verify`     *)
(* finds no difference only where there is none, and what it has let through  *)
(* does not come undone.                                                    *)
THEOREM TrunkIsBuilt ==
    ASSUME FilesRead PROVE Spec => []TrunkBuilds
<1>1. Init => IInv /\ BuiltInv
  BY InitIInv, InitBuilt
<1>2. (IInv /\ BuiltInv) /\ [Next]_vars => (IInv /\ BuiltInv)'
  BY NextIInv, NextBuilt
<1>3. IInv /\ BuiltInv => TrunkBuilds
  BY DEF BuiltInv
<1> QED
  BY <1>1, <1>2, <1>3, PTL DEF Spec
=============================================================================
