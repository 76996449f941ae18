-------------------------- MODULE Authoring_proofs --------------------------
(***************************************************************************)
(* The migrations of a working copy, for any models, any clock and any       *)
(* number of files: they form a stack, each at its own id, and what they add *)
(* up to is what the snapshot says, if each one alone does what it has to.  *)
(***************************************************************************)
EXTENDS Authoring, FiniteSetTheorems, WellFoundedInduction, TLAPS

-----------------------------------------------------------------------------
(* Numbers and sorted files *)

(* A set of numbers has a least one. *)
LEMMA Least ==
    ASSUME NEW T \in SUBSET Nat, T # {}
    PROVE  \E x \in T : \A y \in T : x <= y
<1>1. PICK x \in T : \A y \in T : <<y, x>> \notin OpToRel(<, Nat)
  <2>1. IsWellFoundedOn(OpToRel(<, Nat), Nat)
    BY NatLessThanWellFounded, Zenon
  <2> QED
    BY <2>1, WFMin, Zenon
<1>2. \A y \in T : ~(y < x)
  BY <1>1, Zenon DEF OpToRel
<1> QED
  BY <1>2

(* Two functions that agree wherever they have agreed so far are one.       *)
LEMMA AgreeFromStart ==
    ASSUME NEW n \in Nat, NEW g, NEW h,
           \A i \in 0..n : (\A j \in 0..n : j < i => g[j] = h[j]) => g[i] = h[i]
    PROVE  \A i \in 0..n : g[i] = h[i]
<1> DEFINE Apart == {i \in 0..n : g[i] # h[i]}
<1>1. SUFFICES ASSUME Apart # {} PROVE FALSE
  OBVIOUS
<1>2. Apart \in SUBSET Nat
  OBVIOUS
<1>3. PICK i \in Apart : \A j \in Apart : i <= j
  BY <1>1, <1>2, Least
<1>4. \A j \in 0..n : j < i => g[j] = h[j]
  BY <1>3
<1> QED
  BY <1>3, <1>4

(* The files of a set from its first to its last id. *)
Sorted(s, n, S) ==
    /\ s \in [1..n -> S]
    /\ \A f \in S : \E i \in 1..n : s[i] = f
    /\ \A i, j \in 1..n : i < j => s[i].id < s[j].id

(* Ids are numbers. *)
HaveIds(S) == \A f \in S : f.id \in Nat

(* There are as many of them, and of their ids, as there are places. *)
LEMMA SortedCounts ==
    ASSUME NEW S, NEW n \in Nat, NEW s, Sorted(s, n, S), HaveIds(S)
    PROVE  /\ IsFiniteSet(S) /\ Cardinality(S) = n
           /\ Cardinality({f.id : f \in S}) = n
<1>1. \A i, j \in 1..n : i # j => s[i].id # s[j].id
  <2> TAKE i, j \in 1..n
  <2>1. s[i] \in S /\ s[j] \in S
    BY DEF Sorted
  <2>2. s[i].id \in Nat /\ s[j].id \in Nat
    BY <2>1 DEF HaveIds
  <2>3. i # j => i < j \/ j < i
    OBVIOUS
  <2> QED
    BY <2>2, <2>3 DEF Sorted
<1>2. s \in Bijection(1..n, S)
  <2>1. \A i, j \in 1..n : s[i] = s[j] => i = j
    BY <1>1
  <2> QED
    BY <2>1 DEF Sorted, Bijection, Injection, Surjection, IsInjective
<1> DEFINE ids == {f.id : f \in S}
           t == [i \in 1..n |-> s[i].id]
<1>3. t \in Bijection(1..n, ids)
  <2>1. \A i, j \in 1..n : t[i] = t[j] => i = j
    BY <1>1
  <2>2. t \in [1..n -> ids]
    BY DEF Sorted
  <2>3. \A x \in ids : \E i \in 1..n : t[i] = x
    BY DEF Sorted
  <2> HIDE DEF t, ids
  <2> QED
    BY <2>1, <2>2, <2>3 DEF Bijection, Injection, Surjection, IsInjective
<1>4. IsFiniteSet(1..n) /\ Cardinality(1..n) = n
  BY FS_Interval
<1> HIDE DEF t, ids
<1>5. IsFiniteSet(S) /\ Cardinality(S) = n
  BY <1>2, <1>4, FS_Bijection, Zenon DEF ExistsBijection
<1>6. Cardinality(ids) = n
  BY <1>3, <1>4, FS_Bijection, Zenon DEF ExistsBijection
<1> QED
  BY <1>5, <1>6 DEF ids

(* So load_dir finds them in this order. *)
LEMMA ByIdIsSorted ==
    ASSUME NEW S, NEW n \in Nat, NEW s, Sorted(s, n, S), HaveIds(S)
    PROVE  ById(S) = s
<1> DEFINE InOrder(t) ==
       \A i, j \in DOMAIN t : i < j => t[i] # t[j] /\ t[i].id <= t[j].id
<1> DEFINE t == ById(S)
<1>1. Cardinality(S) = n /\ IsFiniteSet(S)
  BY SortedCounts
<1>2. DOMAIN s = 1..n /\ \A i \in 1..n : s[i] \in S /\ s[i].id \in Nat
  BY DEF Sorted, HaveIds
<1>3. InOrder(s)
  BY <1>2 DEF Sorted
<1>4. t \in [1..n -> S] /\ InOrder(t)
  <2>1. t = CHOOSE u \in [1..n -> S] : InOrder(u)
    BY <1>1 DEF ById
  <2>2. s \in [1..n -> S]
    BY DEF Sorted
  <2> HIDE DEF InOrder, t
  <2> QED
    BY <1>3, <2>1, <2>2
<1> HIDE DEF t
<1>5. \A f \in S : \E i \in 1..n : t[i] = f
  <2>1. \A i, j \in 1..n : t[i] = t[j] => i = j
    <3> TAKE i, j \in 1..n
    <3>1. i # j => i < j \/ j < i
      OBVIOUS
    <3> QED
      BY <1>4, <3>1
  <2>2. t \in Injection(1..n, S)
    BY <1>4, <2>1 DEF Injection, IsInjective
  <2>3. Cardinality(1..n) = n
    BY FS_Interval
  <2>4. t \in Surjection(1..n, S)
    BY <1>1, <2>2, <2>3, FS_Injection
  <2> QED
    BY <2>4 DEF Surjection
<1>6. \A i \in 1..n : (\A j \in 1..n : j < i => t[j] = s[j]) => t[i] = s[i]
  <2> SUFFICES ASSUME NEW i \in 1..n, \A j \in 1..n : j < i => t[j] = s[j], t[i] # s[i]
               PROVE  FALSE
    OBVIOUS
  <2>1. PICK k \in 1..n : s[k] = t[i]
    BY <1>4 DEF Sorted
  <2>2. PICK m \in 1..n : t[m] = s[i]
    BY <1>2, <1>5
  <2>3. ~(k < i)
    <3> SUFFICES ASSUME k < i PROVE FALSE
      OBVIOUS
    <3>1. t[k] = t[i]
      BY <2>1
    <3>2. t[k] # t[i]
      BY <1>4
    <3> QED
      BY <3>1, <3>2
  <2>4. ~(m < i)
    <3> SUFFICES ASSUME m < i PROVE FALSE
      OBVIOUS
    <3>1. s[m] = s[i]
      BY <2>2
    <3>2. s[m].id < s[i].id
      BY DEF Sorted
    <3> QED
      BY <1>2, <3>1, <3>2
  <2>5. i < k /\ i < m
    BY <2>1, <2>2, <2>3, <2>4
  <2>6. s[i].id < s[k].id
    BY <2>5 DEF Sorted
  <2>7. t[i].id <= t[m].id
    BY <1>4, <2>5
  <2> QED
    BY <1>2, <2>1, <2>2, <2>6, <2>7
<1> DEFINE g == [i \in 0..n |-> IF i = 0 THEN 0 ELSE t[i]]
           h == [i \in 0..n |-> IF i = 0 THEN 0 ELSE s[i]]
<1>7. \A i \in 0..n : (\A j \in 0..n : j < i => g[j] = h[j]) => g[i] = h[i]
  <2> TAKE i \in 0..n
  <2> HAVE \A j \in 0..n : j < i => g[j] = h[j]
  <2>1. CASE i = 0
    BY <2>1
  <2>2. CASE i \in 1..n
    <3>1. \A j \in 1..n : j < i => t[j] = s[j]
      <4> TAKE j \in 1..n
      <4> HAVE j < i
      <4>1. j \in 0..n /\ g[j] = t[j] /\ h[j] = s[j]
        OBVIOUS
      <4> QED
        BY <4>1
    <3> QED
      BY <1>6, <2>2, <3>1
  <2> QED
    BY <2>1, <2>2
<1> HIDE DEF g, h
<1>8. \A i \in 0..n : g[i] = h[i]
  BY <1>7, AgreeFromStart
<1>9. \A i \in 1..n : t[i] = s[i]
  BY <1>8 DEF g, h
<1>10. t = s
  <2>1. s \in [1..n -> S]
    BY DEF Sorted
  <2> QED
    BY <1>4, <1>9, <2>1
<1> QED
  BY <1>10 DEF t

(* And so what replaying, or running, them gives is the last value of what   *)
(* they give one by one.                                                    *)
Replays(s, n, r) ==
    r = [i \in 0..n |-> IF i = 0 THEN EmptyModel ELSE Replay(r[i - 1], s[i].up)]

Runs(s, n, d) ==
    d = [i \in 0..n |-> IF i = 0 THEN Holding(EmptyModel)
                         ELSE Applied(d[i - 1], s[i].up)]

(* The model after them. *)
LEMMA RebuiltIsLast ==
    ASSUME NEW S, NEW n \in Nat, NEW s, Sorted(s, n, S), HaveIds(S),
           NEW r, Replays(s, n, r)
    PROVE  RebuildModel(S) = r[n]
<1> DEFINE after ==
       CHOOSE g : g = [i \in 0..n |->
                         IF i = 0 THEN EmptyModel ELSE Replay(g[i - 1], s[i].up)]
<1>1. RebuildModel(S) = after[n]
  BY SortedCounts, ByIdIsSorted, Zenon DEF RebuildModel
<1>2. Replays(s, n, after)
  BY Zenon DEF Replays
<1> HIDE DEF after
<1>3. \A i \in 0..n :
         /\ after[i] = IF i = 0 THEN EmptyModel ELSE Replay(after[i - 1], s[i].up)
         /\ r[i] = IF i = 0 THEN EmptyModel ELSE Replay(r[i - 1], s[i].up)
  BY <1>2, Zenon DEF Replays
<1>4. \A i \in 0..n : (\A j \in 0..n : j < i => after[j] = r[j]) => after[i] = r[i]
  <2> TAKE i \in 0..n
  <2> HAVE \A j \in 0..n : j < i => after[j] = r[j]
  <2>1. i = 0 \/ (i - 1 \in 0..n /\ i - 1 < i)
    OBVIOUS
  <2> QED
    BY <1>3, <2>1
<1>5. after[n] = r[n]
  BY <1>4, AgreeFromStart
<1> QED
  BY <1>1, <1>5

(* The database after them. *)
LEMMA DatabaseIsLast ==
    ASSUME NEW S, NEW n \in Nat, NEW s, Sorted(s, n, S), HaveIds(S),
           NEW d, Runs(s, n, d)
    PROVE  Database(S) = d[n]
<1> DEFINE after ==
       CHOOSE g : g = [i \in 0..n |->
                         IF i = 0 THEN Holding(EmptyModel)
                         ELSE Applied(g[i - 1], s[i].up)]
<1>1. Database(S) = after[n]
  BY SortedCounts, ByIdIsSorted, Zenon DEF Database
<1>2. Runs(s, n, after)
  BY Zenon DEF Runs
<1> HIDE DEF after
<1>3. \A i \in 0..n :
         /\ after[i] = IF i = 0 THEN Holding(EmptyModel)
                       ELSE Applied(after[i - 1], s[i].up)
         /\ d[i] = IF i = 0 THEN Holding(EmptyModel)
                   ELSE Applied(d[i - 1], s[i].up)
  BY <1>2, Zenon DEF Runs
<1>4. \A i \in 0..n : (\A j \in 0..n : j < i => after[j] = d[j]) => after[i] = d[i]
  <2> TAKE i \in 0..n
  <2> HAVE \A j \in 0..n : j < i => after[j] = d[j]
  <2>1. i = 0 \/ (i - 1 \in 0..n /\ i - 1 < i)
    OBVIOUS
  <2> QED
    BY <1>3, <2>1
<1>5. after[n] = d[n]
  BY <1>4, AgreeFromStart
<1> QED
  BY <1>1, <1>5

(* A file with a greater id than all others comes last, *)
Pushed(s, n, f) == [i \in 1..(n + 1) |-> IF i = n + 1 THEN f ELSE s[i]]

LEMMA PushedIsSorted ==
    ASSUME NEW S, NEW n \in Nat, NEW s, Sorted(s, n, S), NEW f,
           \A g \in S : g.id < f.id
    PROVE  Sorted(Pushed(s, n, f), n + 1, S \cup {f})
<1> DEFINE t == Pushed(s, n, f)
<1>1. \A i \in 1..n : t[i] = s[i] /\ s[i] \in S /\ i \in 1..(n + 1)
  BY DEF Pushed, Sorted
<1>2. t[n + 1] = f /\ n + 1 \in 1..(n + 1)
  BY DEF Pushed
<1>3. \A i \in 1..(n + 1) : i \in 1..n \/ i = n + 1
  OBVIOUS
<1>4. DOMAIN t = 1..(n + 1) /\ t = [i \in DOMAIN t |-> t[i]]
  BY DEF Pushed
<1> HIDE DEF t
<1>5. t \in [1..(n + 1) -> S \cup {f}]
  BY <1>1, <1>2, <1>3, <1>4
<1>6. \A g \in S \cup {f} : \E i \in 1..(n + 1) : t[i] = g
  BY <1>1, <1>2 DEF Sorted
<1>7. \A i, j \in 1..(n + 1) : i < j => t[i].id < t[j].id
  <2> SUFFICES ASSUME NEW i \in 1..(n + 1), NEW j \in 1..(n + 1), i < j
               PROVE  t[i].id < t[j].id
    OBVIOUS
  <2>1. i \in 1..n
    OBVIOUS
  <2>2. CASE j \in 1..n
    BY <1>1, <2>1, <2>2 DEF Sorted
  <2>3. CASE j = n + 1
    BY <1>1, <1>2, <2>1, <2>3
  <2> QED
    BY <1>3, <2>2, <2>3
<1> QED
  BY <1>5, <1>6, <1>7 DEF Sorted, t

(* and the last one is the newest. *)
Popped(s, n) == [i \in 1..(n - 1) |-> s[i]]

LEMMA PoppedIsSorted ==
    ASSUME NEW S, NEW n \in Nat, NEW s, Sorted(s, n, S), HaveIds(S), S # {}
    PROVE  /\ n - 1 \in Nat /\ n \in 1..n
           /\ Newest(S) = s[n]
           /\ Sorted(Popped(s, n), n - 1, S \ {Newest(S)})
<1>1. n \in 1..n /\ n - 1 \in Nat
  BY DEF Sorted
<1>2. \A i \in 1..n : s[i] \in S /\ s[i].id \in Nat
  BY DEF Sorted, HaveIds
<1>3. \A f \in S : f # s[n] => \E i \in 1..(n - 1) : s[i] = f
  <2> SUFFICES ASSUME NEW f \in S, f # s[n] PROVE \E i \in 1..(n - 1) : s[i] = f
    OBVIOUS
  <2>1. PICK i \in 1..n : s[i] = f
    BY DEF Sorted
  <2>2. i \in 1..(n - 1)
    BY <1>1, <2>1
  <2> QED
    BY <2>1, <2>2
<1>4. \A i \in 1..(n - 1) : s[i].id < s[n].id /\ i \in 1..n
  BY <1>1 DEF Sorted
<1>5. \A f \in S : f # s[n] => f.id < s[n].id
  BY <1>3, <1>4
<1>6. Newest(S) = s[n]
  <2>1. s[n] \in S /\ \A g \in S : g.id <= s[n].id
    BY <1>1, <1>2, <1>5 DEF HaveIds
  <2>2. \A f \in S : (\A g \in S : g.id <= f.id) => f = s[n]
    BY <1>1, <1>2, <1>5 DEF HaveIds
  <2>3. Newest(S) \in S /\ \A g \in S : g.id <= Newest(S).id
    BY <2>1, Zenon DEF Newest
  <2> QED
    BY <2>2, <2>3
<1>7. \A i \in 1..(n - 1) : s[i] \in S \ {s[n]}
  BY <1>1, <1>2, <1>4
<1>8. Sorted(Popped(s, n), n - 1, S \ {s[n]})
  <2>1. Popped(s, n) \in [1..(n - 1) -> S \ {s[n]}]
    BY <1>7 DEF Popped
  <2>2. \A f \in S \ {s[n]} : \E i \in 1..(n - 1) : Popped(s, n)[i] = f
    BY <1>3 DEF Popped
  <2>3. \A i, j \in 1..(n - 1) : i < j => Popped(s, n)[i].id < Popped(s, n)[j].id
    BY <1>4 DEF Popped, Sorted
  <2> QED
    BY <2>1, <2>2, <2>3 DEF Sorted
<1> QED
  BY <1>1, <1>6, <1>8

-----------------------------------------------------------------------------
(* The working copy: its files are a stack, and a new one goes on top.       *)

(* The inductive invariant of the types. *)
FilesInv ==
    /\ \A f \in files : f.id \in Nat /\ DOMAIN f = {"id", "up", "down", "clean"}
    /\ \E n \in 0..MaxFiles : \E s : Sorted(s, n, files)

SavedInv ==
    /\ model \in Models
    /\ snapshot = NoSnapshot \/ \E m : snapshot = <<m>>
    /\ \/ command = Idle
       \/ command = <<NoSnapshot>>
       \/ \E m : command = << <<m>> >>
    /\ torn \in BOOLEAN
    /\ kills \in 0..MaxKills

(* Whatever the clock says, an id is greater than those there are.           *)
LEMMA NextIdIsNew ==
    ASSUME FilesInv, NEW now \in Clock
    PROVE  NextId(now) \in Nat /\ \A f \in files : f.id < NextId(now)
<1>1. PICK n \in 0..MaxFiles : \E s : Sorted(s, n, files)
  BY DEF FilesInv
<1>2. PICK s : Sorted(s, n, files)
  BY <1>1
<1>3. HaveIds(files)
  BY DEF FilesInv, HaveIds
<1>4. n \in Nat
  BY AuthoringAssumption
<1>5. CASE \A id \in Ids : id < now
  BY <1>5, AuthoringAssumption DEF NextId, Ids
<1>6. CASE ~(\A id \in Ids : id < now)
  <2>1. files # {}
    BY <1>6 DEF Ids
  <2>2. Newest(files) = s[n] /\ n \in 1..n
    BY <1>2, <1>3, <1>4, <2>1, PoppedIsSorted
  <2>3. s[n] \in files /\ s[n].id \in Nat
    BY <1>2, <1>3, <2>2 DEF Sorted, HaveIds
  <2>4. \A f \in files : f.id <= s[n].id
    <3> TAKE f \in files
    <3>1. PICK i \in 1..n : s[i] = f
      BY <1>2 DEF Sorted
    <3>2. i = n \/ i < n
      BY <1>4
    <3>3. i < n => s[i].id < s[n].id
      BY <1>2, <2>2 DEF Sorted
    <3> QED
      BY <1>3, <2>3, <3>1, <3>2, <3>3 DEF HaveIds
  <2>5. NextId(now) = s[n].id + 1
    BY <1>6, <2>2 DEF NextId
  <2> QED
    BY <1>3, <2>3, <2>4, <2>5 DEF HaveIds
<1> QED
  BY <1>5, <1>6

(* The files stay sorted by ids of their own, and within their bound.       *)
LEMMA FilesStep == ASSUME FilesInv, [Next]_vars PROVE FilesInv'
<1>1. PICK n \in 0..MaxFiles : \E s : Sorted(s, n, files)
  BY DEF FilesInv
<1>2. PICK s : Sorted(s, n, files)
  BY <1>1
<1>3. HaveIds(files)
  BY DEF FilesInv, HaveIds
<1>4. n \in Nat
  BY AuthoringAssumption
<1>5. ASSUME NEW now \in Clock, Migrate(now) PROVE FilesInv'
  <2> DEFINE f == [id |-> NextId(now), up |-> Diff(Previous, model),
                   down |-> Diff(model, Previous), clean |-> ~torn]
  <2>1. files' = files \cup {f} /\ Cardinality(files) < MaxFiles
    BY <1>5 DEF Migrate
  <2>2. Cardinality(files) = n
    BY <1>2, <1>3, <1>4, SortedCounts
  <2>3. n + 1 \in 0..MaxFiles
    BY <1>4, <2>1, <2>2, AuthoringAssumption
  <2>4. f.id = NextId(now) /\ DOMAIN f = {"id", "up", "down", "clean"}
    OBVIOUS
  <2> HIDE DEF f
  <2>5. f.id \in Nat /\ \A g \in files : g.id < f.id
    BY <2>4, NextIdIsNew
  <2>6. Sorted(Pushed(s, n, f), n + 1, files')
    BY <1>2, <1>4, <2>1, <2>5, PushedIsSorted
  <2>7. \A g \in files' : g.id \in Nat /\ DOMAIN g = {"id", "up", "down", "clean"}
    BY <2>1, <2>4, <2>5 DEF FilesInv
  <2> QED
    BY <2>3, <2>6, <2>7 DEF FilesInv
<1>6. CASE Undo
  <2>1. files # {} /\ files' = files \ {Newest(files)}
    BY <1>6 DEF Undo
  <2>2. n - 1 \in Nat /\ Sorted(Popped(s, n), n - 1, files')
    BY <1>2, <1>3, <1>4, <2>1, PoppedIsSorted
  <2>3. n - 1 \in 0..MaxFiles
    BY <2>2, AuthoringAssumption
  <2>4. \A g \in files' : g \in files
    BY <2>1
  <2> QED
    BY <2>2, <2>3, <2>4 DEF FilesInv
<1>7. CASE UNCHANGED files
  BY <1>7 DEF FilesInv
<1> QED
  BY <1>5, <1>6, <1>7 DEF Next, vars, Edit, WriteSnapshot, Kill

(* So does what is saved, or about to be: a model at most. *)
LEMMA SavedStep == ASSUME SavedInv, [Next]_vars PROVE SavedInv'
<1>1. ASSUME NEW now \in Clock, Migrate(now) PROVE SavedInv'
  BY <1>1 DEF SavedInv, Migrate
<1>2. CASE Undo
  BY <1>2 DEF SavedInv, Undo
<1>3. CASE WriteSnapshot
  <2>1. snapshot' = command[1] /\ command # Idle /\ command' = Idle
        /\ UNCHANGED <<model, torn, kills>>
    BY <1>3 DEF WriteSnapshot
  <2>2. snapshot' = NoSnapshot \/ \E m : snapshot' = <<m>>
    BY <2>1 DEF SavedInv
  <2> QED
    BY <2>1, <2>2 DEF SavedInv
<1>4. CASE Kill
  BY <1>4, AuthoringAssumption DEF SavedInv, Kill
<1>5. CASE Edit \/ UNCHANGED vars
  BY <1>5 DEF SavedInv, Edit, vars
<1> QED
  BY <1>1, <1>2, <1>3, <1>4, <1>5 DEF Next

(* Both hold of a working copy without files. *)
LEMMA InitFiles == ASSUME Init PROVE FilesInv /\ SavedInv
<1>1. files = {} /\ SavedInv
  <2>1. torn \in BOOLEAN
    BY DEF Init
  <2>2. 0 \in 0..MaxKills
    BY AuthoringAssumption
  <2> QED
    BY <2>1, <2>2 DEF Init, SavedInv
<1>2. Sorted(<<>>, 0, files)
  BY <1>1 DEF Sorted
<1>3. 0 \in 0..MaxFiles
  BY AuthoringAssumption
<1> QED
  BY <1>1, <1>2, <1>3 DEF FilesInv

(* TypeOK: however often the clock is set back, no two migrations have one   *)
(* id, and so none overwrites another's file, nor passes for another in the  *)
(* history.                                                                 *)
THEOREM Typed == Spec => []TypeOK
<1>1. FilesInv /\ SavedInv => TypeOK
  <2> SUFFICES ASSUME FilesInv, SavedInv PROVE TypeOK
    OBVIOUS
  <2>1. PICK n \in 0..MaxFiles : \E s : Sorted(s, n, files)
    BY DEF FilesInv
  <2>2. PICK s : Sorted(s, n, files)
    BY <2>1
  <2>3. n \in Nat /\ n <= MaxFiles
    BY AuthoringAssumption
  <2>4. Cardinality(files) = n /\ Cardinality(Ids) = n
    BY <2>2, <2>3, SortedCounts DEF FilesInv, HaveIds, Ids
  <2> DEFINE IsSaved(x) == x = <<>> \/ \E m : x = <<m>>
  <2>5. \A x : IsSaved(x) => Len(x) <= 1
    <3>1. Len(<<>>) <= 1 /\ \A m : Len(<<m>>) <= 1
      OBVIOUS
    <3> QED
      BY <3>1
  <2>6. \A x : <<x>>[1] = x
    OBVIOUS
  <2>7. IsSaved(snapshot)
    BY DEF SavedInv, NoSnapshot
  <2>8. command = <<>> \/ \E x : IsSaved(x) /\ command = <<x>>
    BY DEF SavedInv, NoSnapshot, Idle
  <2> HIDE DEF IsSaved
  <2>9. Len(command) <= 1 /\ (command # Idle => Len(command[1]) <= 1)
    <3>1. CASE command = <<>>
      BY <3>1 DEF Idle
    <3>2. CASE \E x : IsSaved(x) /\ command = <<x>>
      <4>1. PICK x : IsSaved(x) /\ command = <<x>>
        BY <3>2
      <4> QED
        BY <2>5, <2>6, <4>1
    <3> QED
      BY <2>8, <3>1, <3>2
  <2> QED
    BY <2>3, <2>4, <2>5, <2>7, <2>9 DEF FilesInv, SavedInv, TypeOK
<1>2. FilesInv /\ SavedInv /\ [Next]_vars => FilesInv' /\ SavedInv'
  BY FilesStep, SavedStep
<1> QED
  BY <1>1, <1>2, InitFiles, PTL DEF Spec

-----------------------------------------------------------------------------
(* What the files add up to *)

(* The first n files were written with nothing torn. *)
Clean(s, n) == \A i \in 1..n : s[i].clean

(* A file was made between models that are the same as these. *)
Made(models, f, before, after) ==
    \E m \in models, k \in Models :
       /\ Same(before, m) /\ f.up = Diff(m, k)
       /\ Same(after, k) /\ f.down = Diff(k, m)

(* Files written with nothing torn, from the first on, each lead from a      *)
(* model that is the same as the one before them to the next.               *)
Lead(models, s, n, r, d) ==
    /\ Replays(s, n, r) /\ Runs(s, n, d)
    /\ \A i \in 0..n : Clean(s, i) =>
          r[i] \in models /\ d[i] = Holding(r[i])
    /\ \A i \in 1..n : Clean(s, i) => Made(models, s[i], r[i - 1], r[i])

(* The model a snapshot stands for. *)
ModelIn(saved) == IF saved = NoSnapshot THEN EmptyModel ELSE saved[1]

(* The snapshot, or what will be the snapshot if the command is not killed.  *)
Pending == ModelIn(IF command = Idle THEN snapshot ELSE command[1])

(* The inductive invariant: the files lead to the snapshot that is, or is    *)
(* about to be, written; a torn pair of writes suspends this until the next  *)
(* undo, and a file written meanwhile for as long as it is there.           *)
ChainInv(models) ==
    \E n \in Nat : \E s, r, d :
       /\ Sorted(s, n, files)
       /\ Lead(models, s, n, r, d)
       /\ ~torn /\ Clean(s, n) => Pending \in models /\ Same(r[n], Pending)

(* UpsLead, for one pair of the same models. *)
LEMMA UpLeads ==
    ASSUME NEW models, UpsLead(models), NEW m \in models, NEW n \in models,
           Same(m, n), NEW k \in Models
    PROVE  /\ Replay(m, Diff(n, k)) \in models
           /\ Same(Replay(m, Diff(n, k)), k)
           /\ Applied(Holding(n), Diff(n, k)) = Holding(k)
           /\ \A l \in Models : Same(Replay(m, Diff(n, k)), l) =>
                 ToSet(Diff(m, l)) = ToSet(Diff(n, k))
BY Zenon DEF UpsLead

(* A new file leads one further. *)
LEMMA PushedLeads ==
    ASSUME NEW models, UpsLead(models), NEW n \in Nat, NEW s, NEW r, NEW d,
           Lead(models, s, n, r, d), NEW f,
           Clean(s, n) /\ f.clean =>
              \E m \in models, k \in Models :
                 Same(r[n], m) /\ f.up = Diff(m, k) /\ f.down = Diff(k, m)
    PROVE  \E q, e :
              /\ Lead(models, Pushed(s, n, f), n + 1, q, e)
              /\ q[n + 1] = Replay(r[n], f.up)
              /\ Clean(Pushed(s, n, f), n + 1) => Clean(s, n) /\ f.clean
<1> DEFINE t == Pushed(s, n, f)
           q == [i \in 0..(n + 1) |-> IF i = n + 1 THEN Replay(r[n], f.up) ELSE r[i]]
           e == [i \in 0..(n + 1) |-> IF i = n + 1 THEN Applied(d[n], f.up) ELSE d[i]]
<1>1. \A i \in 1..n : t[i] = s[i] /\ i \in 1..(n + 1)
  BY DEF Pushed
<1>2. t[n + 1] = f
  BY DEF Pushed
<1>3. \A i \in 0..n : q[i] = r[i] /\ e[i] = d[i]
  OBVIOUS
<1>4. q[n + 1] = Replay(r[n], f.up) /\ e[n + 1] = Applied(d[n], f.up)
  OBVIOUS
<1>5. \A i \in 0..(n + 1) : i = n + 1 \/ i \in 0..n
  OBVIOUS
<1>6. \A i \in 0..n : Clean(t, i) <=> Clean(s, i)
  <2> TAKE i \in 0..n
  <2>1. \A j \in 1..i : t[j] = s[j]
    BY <1>1
  <2> HIDE DEF t
  <2> QED
    BY <2>1 DEF Clean
<1>7. Clean(t, n + 1) => Clean(s, n) /\ f.clean
  <2>1. n + 1 \in 1..(n + 1) /\ \A i \in 1..n : i \in 1..(n + 1)
    OBVIOUS
  <2> HIDE DEF t
  <2> QED
    BY <1>1, <1>2, <2>1 DEF Clean
<1> DEFINE Before(i) == IF i = 0 THEN EmptyModel ELSE Replay(q[i - 1], t[i].up)
           Held(i) == IF i = 0 THEN Holding(EmptyModel) ELSE Applied(e[i - 1], t[i].up)
<1>8. DOMAIN q = 0..(n + 1) /\ DOMAIN e = 0..(n + 1)
  OBVIOUS
<1>9. q = [i \in 0..(n + 1) |-> q[i]] /\ e = [i \in 0..(n + 1) |-> e[i]]
  OBVIOUS
<1> HIDE DEF t, q, e
<1>10. \A i \in 0..(n + 1) : q[i] = Before(i) /\ e[i] = Held(i)
  <2> TAKE i \in 0..(n + 1)
  <2>1. CASE i = n + 1
    <3>1. i # 0 /\ i - 1 = n /\ n \in 0..n
      BY <2>1
    <3> QED
      BY <1>2, <1>3, <1>4, <2>1, <3>1
  <2>2. CASE i \in 0..n
    <3>1. \A j \in 0..n :
             /\ r[j] = IF j = 0 THEN EmptyModel ELSE Replay(r[j - 1], s[j].up)
             /\ d[j] = IF j = 0 THEN Holding(EmptyModel)
                       ELSE Applied(d[j - 1], s[j].up)
      BY Zenon DEF Lead, Replays, Runs
    <3>2. CASE i = 0
      BY <1>3, <2>2, <3>1, <3>2
    <3>3. CASE i # 0
      <4>1. i \in 1..n /\ i - 1 \in 0..n
        BY <2>2, <3>3
      <4>2. q[i] = r[i] /\ e[i] = d[i] /\ q[i - 1] = r[i - 1] /\ e[i - 1] = d[i - 1]
        BY <1>3, <2>2, <4>1
      <4>3. t[i] = s[i]
        BY <1>1, <4>1
      <4> QED
        BY <2>2, <3>1, <3>3, <4>2, <4>3
    <3> QED
      BY <3>2, <3>3
  <2> QED
    BY <1>5, <2>1, <2>2
<1>11. Replays(t, n + 1, q) /\ Runs(t, n + 1, e)
  <2>1. q = [i \in 0..(n + 1) |-> Before(i)]
    BY <1>8, <1>9, <1>10
  <2>2. e = [i \in 0..(n + 1) |-> Held(i)]
    BY <1>8, <1>9, <1>10
  <2> QED
    BY <2>1, <2>2, Zenon DEF Replays, Runs
<1> HIDE DEF Before, Held
<1>12. ASSUME Clean(t, n + 1)
       PROVE  /\ q[n + 1] \in models /\ e[n + 1] = Holding(q[n + 1])
              /\ Made(models, f, q[n], q[n + 1])
  <2>1. Clean(s, n) /\ f.clean
    BY <1>7, <1>12
  <2>2. PICK m \in models, k \in Models :
           Same(r[n], m) /\ f.up = Diff(m, k) /\ f.down = Diff(k, m)
    BY <2>1
  <2>3. n \in 0..n
    OBVIOUS
  <2>4. r[n] \in models /\ d[n] = Holding(r[n])
    BY <2>1, <2>3 DEF Lead
  <2> DEFINE up == Diff(m, k)
             reached == Replay(r[n], up)
  <2>5. /\ reached \in models /\ Same(reached, k)
        /\ Applied(Holding(m), up) = Holding(k)
    BY <2>2, <2>4, UpLeads
  <2>6. Holding(r[n]) = Holding(m) /\ Holding(reached) = Holding(k)
    BY <2>2, <2>5, Zenon DEF Same, Holding
  <2>7. q[n + 1] = reached /\ e[n + 1] = Applied(Holding(m), up)
    BY <1>4, <2>2, <2>4, <2>6
  <2>8. q[n] = r[n]
    BY <1>3, <2>3
  <2> QED
    BY <2>2, <2>5, <2>6, <2>7, <2>8 DEF Made
<1>13. \A i \in 0..(n + 1) : Clean(t, i) => q[i] \in models /\ e[i] = Holding(q[i])
  <2> TAKE i \in 0..(n + 1)
  <2> HAVE Clean(t, i)
  <2>1. CASE i = n + 1
    BY <1>12, <2>1
  <2>2. CASE i \in 0..n
    BY <1>3, <1>6, <2>2 DEF Lead
  <2> QED
    BY <1>5, <2>1, <2>2
<1>14. \A i \in 1..(n + 1) : Clean(t, i) => Made(models, t[i], q[i - 1], q[i])
  <2> TAKE i \in 1..(n + 1)
  <2> HAVE Clean(t, i)
  <2>1. CASE i = n + 1
    <3>1. i - 1 = n
      BY <2>1
    <3> QED
      BY <1>2, <1>12, <2>1, <3>1
  <2>2. CASE i \in 1..n
    <3>1. i \in 0..n /\ i - 1 \in 0..n
      BY <2>2
    <3>2. Clean(s, i) /\ q[i - 1] = r[i - 1] /\ q[i] = r[i] /\ t[i] = s[i]
      BY <1>1, <1>3, <1>6, <2>2, <3>1
    <3> QED
      BY <2>2, <3>2 DEF Lead
  <2>3. i = n + 1 \/ i \in 1..n
    OBVIOUS
  <2> QED
    BY <2>1, <2>2, <2>3
<1>15. Lead(models, t, n + 1, q, e)
  BY <1>11, <1>13, <1>14 DEF Lead
<1> QED
  BY <1>4, <1>7, <1>15 DEF t

(* What is under the last file leads as far as it did. *)
LEMMA PoppedLeads ==
    ASSUME NEW models, NEW n \in Nat, n # 0, NEW s, NEW r, NEW d,
           Lead(models, s, n, r, d)
    PROVE  \E q, e : /\ Lead(models, Popped(s, n), n - 1, q, e)
                     /\ q[n - 1] = r[n - 1]
<1> DEFINE t == Popped(s, n)
           q == [i \in 0..(n - 1) |-> r[i]]
           e == [i \in 0..(n - 1) |-> d[i]]
<1>1. \A i \in 1..(n - 1) : t[i] = s[i] /\ i \in 1..n /\ i - 1 \in 0..(n - 1)
  BY DEF Popped
<1>2. \A i \in 0..(n - 1) : q[i] = r[i] /\ e[i] = d[i] /\ i \in 0..n
  OBVIOUS
<1>3. q = [i \in 0..(n - 1) |-> q[i]] /\ e = [i \in 0..(n - 1) |-> e[i]]
  OBVIOUS
<1>4. n - 1 \in 0..(n - 1)
  OBVIOUS
<1>5. \A i \in 0..(n - 1) : Clean(t, i) <=> Clean(s, i)
  <2> TAKE i \in 0..(n - 1)
  <2>1. \A j \in 1..i : t[j] = s[j]
    BY <1>1
  <2> HIDE DEF t
  <2> QED
    BY <2>1 DEF Clean
<1> HIDE DEF t, q, e
<1> DEFINE Before(i) == IF i = 0 THEN EmptyModel ELSE Replay(q[i - 1], t[i].up)
           Held(i) == IF i = 0 THEN Holding(EmptyModel) ELSE Applied(e[i - 1], t[i].up)
<1>6. \A i \in 0..(n - 1) : q[i] = Before(i) /\ e[i] = Held(i)
  <2> TAKE i \in 0..(n - 1)
  <2>1. \A j \in 0..n :
           /\ r[j] = IF j = 0 THEN EmptyModel ELSE Replay(r[j - 1], s[j].up)
           /\ d[j] = IF j = 0 THEN Holding(EmptyModel)
                     ELSE Applied(d[j - 1], s[j].up)
    BY Zenon DEF Lead, Replays, Runs
  <2>2. CASE i = 0
    BY <1>2, <2>1, <2>2
  <2>3. CASE i # 0
    <3>1. i \in 1..(n - 1) /\ i - 1 \in 0..(n - 1)
      BY <2>3
    <3>2. q[i] = r[i] /\ e[i] = d[i] /\ q[i - 1] = r[i - 1] /\ e[i - 1] = d[i - 1]
      BY <1>2, <3>1
    <3>3. t[i] = s[i]
      BY <1>1, <3>1
    <3> QED
      BY <1>2, <2>1, <2>3, <3>2, <3>3
  <2> QED
    BY <2>2, <2>3
<1>7. Replays(t, n - 1, q) /\ Runs(t, n - 1, e)
  <2>1. q = [i \in 0..(n - 1) |-> Before(i)]
    BY <1>3, <1>6
  <2>2. e = [i \in 0..(n - 1) |-> Held(i)]
    BY <1>3, <1>6
  <2> QED
    BY <2>1, <2>2, Zenon DEF Replays, Runs
<1>8. Lead(models, t, n - 1, q, e)
  <2>1. \A i \in 0..(n - 1) : Clean(t, i) =>
           q[i] \in models /\ e[i] = Holding(q[i])
    BY <1>2, <1>5 DEF Lead
  <2>2. \A i \in 1..(n - 1) : Clean(t, i) => Made(models, t[i], q[i - 1], q[i])
    <3> TAKE i \in 1..(n - 1)
    <3> HAVE Clean(t, i)
    <3>1. i \in 0..(n - 1)
      OBVIOUS
    <3>2. /\ Clean(s, i) /\ t[i] = s[i] /\ i \in 1..n
          /\ q[i - 1] = r[i - 1] /\ q[i] = r[i]
      BY <1>1, <1>2, <1>5, <3>1
    <3> QED
      BY <3>2 DEF Lead
  <2> QED
    BY <1>7, <2>1, <2>2 DEF Lead
<1> QED
  BY <1>2, <1>4, <1>8 DEF t

(* No files lead to the empty model, which is what no snapshot stands for.   *)
LEMMA InitChain == ASSUME NEW models, UpsLead(models), Init PROVE ChainInv(models)
<1> DEFINE r == [i \in 0..0 |-> EmptyModel]
           d == [i \in 0..0 |-> Holding(EmptyModel)]
<1>1. files = {} /\ Pending = EmptyModel
  BY DEF Init, Pending, ModelIn
<1>2. Sorted(<<>>, 0, files)
  BY <1>1 DEF Sorted
<1>3. r[0] = EmptyModel /\ d[0] = Holding(EmptyModel)
  OBVIOUS
<1>4. \A i \in 0..0 : i = 0
  OBVIOUS
<1>5. r = [i \in 0..0 |-> IF i = 0 THEN EmptyModel ELSE Replay(r[i - 1], <<>>[i].up)]
  BY <1>4
<1>6. d = [i \in 0..0 |-> IF i = 0 THEN Holding(EmptyModel)
                          ELSE Applied(d[i - 1], <<>>[i].up)]
  BY <1>4
<1>7. EmptyModel \in models /\ Same(EmptyModel, EmptyModel)
  BY DEF UpsLead
<1> HIDE DEF r, d
<1>8. Lead(models, <<>>, 0, r, d)
  <2>1. Replays(<<>>, 0, r) /\ Runs(<<>>, 0, d)
    BY <1>5, <1>6, Zenon DEF Replays, Runs
  <2>2. \A i \in 0..0 : r[i] \in models /\ d[i] = Holding(r[i])
    BY <1>3, <1>4, <1>7
  <2>3. 1..0 = {}
    OBVIOUS
  <2> QED
    BY <2>1, <2>2, <2>3 DEF Lead
<1>9. Pending \in models /\ Same(r[0], Pending)
  BY <1>1, <1>3, <1>7
<1> QED
  BY <1>2, <1>8, <1>9 DEF ChainInv

(* Each command keeps them leading, and the snapshot it is about to write    *)
(* the same as where they lead.                                             *)
LEMMA ChainStep ==
    ASSUME NEW models, UpsLead(models), FilesInv, SavedInv, ChainInv(models),
           [Next]_vars
    PROVE  ChainInv(models)'
<1>1. PICK n \in Nat : \E s, r, d :
         /\ Sorted(s, n, files)
         /\ Lead(models, s, n, r, d)
         /\ ~torn /\ Clean(s, n) => Pending \in models /\ Same(r[n], Pending)
  BY DEF ChainInv
<1>2. PICK s, r, d :
         /\ Sorted(s, n, files)
         /\ Lead(models, s, n, r, d)
         /\ ~torn /\ Clean(s, n) => Pending \in models /\ Same(r[n], Pending)
  BY <1>1
<1>3. HaveIds(files)
  BY DEF FilesInv, HaveIds
<1>4. ASSUME files' = files, torn' = torn, Pending' = Pending PROVE ChainInv(models)'
  BY <1>2, <1>4 DEF ChainInv
<1>5. ASSUME NEW now \in Clock, Migrate(now) PROVE ChainInv(models)'
  <2> DEFINE f == [id |-> NextId(now), up |-> Diff(Previous, model),
                   down |-> Diff(model, Previous), clean |-> ~torn]
  <2>1. files' = files \cup {f} /\ torn' = torn
    BY <1>5 DEF Migrate
  <2>2. /\ f.id = NextId(now) /\ (f.clean <=> ~torn)
        /\ f.up = Diff(Previous, model) /\ f.down = Diff(model, Previous)
    BY Zenon
  <2> HIDE DEF f
  <2>3. \A g \in files : g.id < f.id
    BY <2>2, NextIdIsNew
  <2>4. Sorted(Pushed(s, n, f), n + 1, files')
    BY <1>2, <2>1, <2>3, PushedIsSorted
  <2>5. Pending = Previous
    BY <1>5 DEF Migrate, Pending, Previous, ModelIn
  <2>6. model \in Models
    BY DEF SavedInv
  <2>7. Clean(s, n) /\ f.clean => Previous \in models /\ Same(r[n], Previous)
    BY <1>2, <2>2, <2>5
  <2>8. PICK q, e :
           /\ Lead(models, Pushed(s, n, f), n + 1, q, e)
           /\ q[n + 1] = Replay(r[n], f.up)
           /\ Clean(Pushed(s, n, f), n + 1) => Clean(s, n) /\ f.clean
    BY <1>2, <2>2, <2>6, <2>7, PushedLeads
  <2>9. Pending' = model
    BY <1>5 DEF Migrate, Pending, ModelIn, Idle, NoSnapshot
  <2>10. ASSUME ~torn, Clean(Pushed(s, n, f), n + 1)
         PROVE  model \in models /\ Same(q[n + 1], model)
    <3>1. Clean(s, n) /\ Previous \in models /\ Same(r[n], Previous)
      BY <2>7, <2>8, <2>10
    <3>2. n \in 0..n
      OBVIOUS
    <3>3. r[n] \in models
      BY <1>2, <3>1, <3>2 DEF Lead
    <3>4. Same(Replay(r[n], Diff(Previous, model)), model)
      BY <2>6, <3>1, <3>3, UpLeads
    <3> QED
      BY <2>2, <2>6, <2>8, <3>4 DEF UpsLead
  <2>11. n + 1 \in Nat
    OBVIOUS
  <2> QED
    BY <2>1, <2>4, <2>8, <2>9, <2>10, <2>11 DEF ChainInv
<1>6. CASE Undo
  <2>1. files # {} /\ files' = files \ {Newest(files)}
    BY <1>6 DEF Undo
  <2>2. n - 1 \in Nat /\ n # 0 /\ Sorted(Popped(s, n), n - 1, files')
    <3>1. Sorted(s, n, files)
      BY <1>2, Zenon
    <3>2. /\ n - 1 \in Nat /\ n \in 1..n
          /\ Sorted(Popped(s, n), n - 1, files \ {Newest(files)})
      BY <1>3, <2>1, <3>1, PoppedIsSorted, Zenon
    <3>3. n # 0
      BY <3>2
    <3> QED
      BY <2>1, <3>2, <3>3, Zenon
  <2>3. PICK q, e : /\ Lead(models, Popped(s, n), n - 1, q, e)
                    /\ q[n - 1] = r[n - 1]
    <3>1. n # 0 /\ Lead(models, s, n, r, d)
      BY <1>2, <2>2, Zenon
    <3> QED
      BY <3>1, PoppedLeads
  <2>4. HaveIds(files')
    BY <1>3, <2>1 DEF HaveIds
  <2>5. RebuildModel(files') = q[n - 1]
    BY <2>2, <2>3, <2>4, RebuiltIsLast DEF Lead
  <2>6. Pending' = q[n - 1]
    <3>1. CASE files' = {}
      <4>1. Pending' = EmptyModel
        BY <1>6, <3>1 DEF Undo, Pending, ModelIn, Idle, NoSnapshot
      <4>2. n - 1 = 0
        BY <2>2, <3>1 DEF Sorted
      <4>3. q[0] = EmptyModel
        <5>1. 0 \in 0..(n - 1)
          BY <2>2
        <5> QED
          BY <2>3, <5>1, Zenon DEF Lead, Replays
      <4> QED
        BY <4>1, <4>2, <4>3
    <3>2. CASE files' # {}
      <4>1. command' = << <<RebuildModel(files')>> >>
        BY <1>6, <3>2 DEF Undo
      <4> QED
        BY <2>5, <4>1 DEF Pending, ModelIn, Idle, NoSnapshot
    <3> QED
      BY <3>1, <3>2
  <2>7. n - 1 \in 0..(n - 1)
    BY <2>2
  <2>8. Clean(Popped(s, n), n - 1) =>
           q[n - 1] \in models /\ Same(q[n - 1], q[n - 1])
    BY <2>3, <2>7 DEF Lead, UpsLead
  <2> QED
    BY <2>2, <2>3, <2>6, <2>8 DEF ChainInv
<1>7. CASE WriteSnapshot
  <2>1. files' = files /\ torn' = torn
    BY <1>7 DEF WriteSnapshot
  <2>2. Pending' = Pending
    BY <1>7 DEF WriteSnapshot, Pending
  <2> QED
    BY <1>4, <2>1, <2>2
<1>8. CASE Kill
  <2>1. files' = files /\ torn'
    BY <1>8 DEF Kill
  <2> QED
    BY <1>2, <2>1 DEF ChainInv
<1>9. CASE Edit
  BY <1>4, <1>9 DEF Edit, Pending
<1>10. CASE UNCHANGED vars
  BY <1>4, <1>10 DEF vars, Pending
<1> QED
  BY <1>5, <1>6, <1>7, <1>8, <1>9, <1>10 DEF Next

(* Between commands, with nothing torn, that snapshot is written, *)
LEMMA SettledPending == ASSUME Settled PROVE Pending = Previous
BY DEF Settled, Pending, Previous, ModelIn

(* and the files lead to it from the empty model and the empty database.    *)
LEMMA SettledChain ==
    ASSUME NEW models, SavedInv, FilesInv, ChainInv(models), Settled
    PROVE  \E n \in Nat : \E s, r, d :
              /\ Sorted(s, n, files)
              /\ Lead(models, s, n, r, d)
              /\ Clean(s, n)
              /\ Previous \in models /\ Same(r[n], Previous)
              /\ r[n] \in models /\ d[n] = Holding(r[n])
              /\ RebuildModel(files) = r[n] /\ Database(files) = d[n]
<1>1. PICK n \in Nat : \E s, r, d :
         /\ Sorted(s, n, files)
         /\ Lead(models, s, n, r, d)
         /\ ~torn /\ Clean(s, n) => Pending \in models /\ Same(r[n], Pending)
  BY DEF ChainInv
<1>2. PICK s, r, d :
         /\ Sorted(s, n, files)
         /\ Lead(models, s, n, r, d)
         /\ ~torn /\ Clean(s, n) => Pending \in models /\ Same(r[n], Pending)
  BY <1>1
<1>3. HaveIds(files)
  BY DEF FilesInv, HaveIds
<1>4. Clean(s, n) /\ ~torn
  BY <1>2 DEF Settled, Clean, Sorted
<1>5. n \in 0..n
  OBVIOUS
<1>6. r[n] \in models /\ d[n] = Holding(r[n])
  BY <1>2, <1>4, <1>5 DEF Lead
<1>7. RebuildModel(files) = r[n] /\ Database(files) = d[n]
  BY <1>2, <1>3, RebuiltIsLast, DatabaseIsLast DEF Lead
<1> QED
  BY <1>2, <1>4, <1>6, <1>7, SettledPending

(* RebuildIsEquivalent: if each difference alone leads where it should, then  *)
(* the snapshot is what the files add up to, after any number of migrations, *)
(* undos, clock jumps and killed commands.                                  *)
THEOREM SnapshotIsReplay ==
    ASSUME NEW CONSTANT models, UpsLead(models) PROVE Spec => []RebuildIsEquivalent
<1>1. FilesInv /\ SavedInv /\ ChainInv(models) => RebuildIsEquivalent
  <2> SUFFICES ASSUME FilesInv, SavedInv, ChainInv(models), Settled
               PROVE  Diff(RebuildModel(files), Previous) = <<>>
    BY DEF RebuildIsEquivalent
  <2> QED
    BY SettledChain DEF Same
<1>2. FilesInv /\ SavedInv /\ ChainInv(models) /\ [Next]_vars
         => FilesInv' /\ SavedInv' /\ ChainInv(models)'
  BY FilesStep, SavedStep, ChainStep
<1>3. Init => FilesInv /\ SavedInv /\ ChainInv(models)
  BY InitFiles, InitChain
<1> QED
  BY <1>1, <1>2, <1>3, PTL DEF Spec

(* FreshApplies: and then the files there are apply to an empty database,    *)
(* one after the other, and bring it to the snapshot.                       *)
THEOREM FilesApply ==
    ASSUME NEW CONSTANT models, UpsLead(models) PROVE Spec => []FreshApplies
<1>1. FilesInv /\ SavedInv /\ ChainInv(models) => FreshApplies
  <2> SUFFICES ASSUME FilesInv, SavedInv, ChainInv(models), Settled
               PROVE  Database(files) = Holding(Previous)
    BY DEF FreshApplies
  <2>1. PICK n \in Nat : \E r, d :
           /\ Same(r[n], Previous) /\ d[n] = Holding(r[n]) /\ Database(files) = d[n]
    BY SettledChain, Zenon
  <2> QED
    BY <2>1, Zenon DEF Same, Holding
<1>2. FilesInv /\ SavedInv /\ ChainInv(models) /\ [Next]_vars
         => FilesInv' /\ SavedInv' /\ ChainInv(models)'
  BY FilesStep, SavedStep, ChainStep
<1>3. Init => FilesInv /\ SavedInv /\ ChainInv(models)
  BY InitFiles, InitChain
<1> QED
  BY <1>1, <1>2, <1>3, PTL DEF Spec

(* Of the steps, only an undo leaves fewer files.                             *)
LEMMA OnlyUndoRemoves ==
    ASSUME FilesInv, [Next]_vars, Cardinality(files') < Cardinality(files)
    PROVE  Undo
<1>1. PICK n \in 0..MaxFiles : \E s : Sorted(s, n, files)
  BY DEF FilesInv
<1>2. PICK s : Sorted(s, n, files)
  BY <1>1
<1>3. HaveIds(files)
  BY DEF FilesInv, HaveIds
<1>4. n \in Nat
  BY AuthoringAssumption
<1>5. Cardinality(files) = n /\ IsFiniteSet(files)
  BY <1>2, <1>3, <1>4, SortedCounts
<1>6. ASSUME NEW now \in Clock, Migrate(now) PROVE FALSE
  <2>1. \E f : files' = files \cup {f}
    BY <1>6 DEF Migrate
  <2>2. PICK f : files' = files \cup {f}
    BY <2>1
  <2>3. Cardinality(files') = n \/ Cardinality(files') = n + 1
    BY <1>5, <2>2, FS_AddElement
  <2> QED
    BY <1>4, <1>5, <2>3
<1>7. CASE UNCHANGED files
  BY <1>4, <1>5, <1>7
<1> QED
  BY <1>6, <1>7 DEF Next, vars, Edit, WriteSnapshot, Kill

(* UndoneComesBack: what an undo takes away of a model that was not edited    *)
(* since, the next `molde migrate` writes again, whatever replayed model the *)
(* file was made from and whatever the snapshot is regenerated to.          *)
THEOREM UndoneIsRedone ==
    ASSUME NEW CONSTANT models, UpsLead(models) PROVE Spec => UndoneComesBack
<1> DEFINE Regenerated == IF command[1] = NoSnapshot THEN EmptyModel
                          ELSE command[1][1]
           Redone ==
              Settled /\ Previous = model /\ Cardinality(files') < Cardinality(files)
                 => ToSet(Diff(Regenerated', model)) = ToSet(Newest(files).up)
<1>1. ASSUME FilesInv, SavedInv, ChainInv(models), [Next]_vars
      PROVE  Redone
  <2> SUFFICES ASSUME Settled, Previous = model,
                      Cardinality(files') < Cardinality(files)
               PROVE  ToSet(Diff(Regenerated', model)) = ToSet(Newest(files).up)
    OBVIOUS
  <2>1. Undo
    BY <1>1, OnlyUndoRemoves
  <2>2. PICK n \in Nat : \E s, r, d :
           /\ Sorted(s, n, files) /\ Lead(models, s, n, r, d) /\ Clean(s, n)
           /\ Previous \in models /\ Same(r[n], Previous)
    BY <1>1, SettledChain
  <2>3. PICK s, r, d :
           /\ Sorted(s, n, files) /\ Lead(models, s, n, r, d) /\ Clean(s, n)
           /\ Previous \in models /\ Same(r[n], Previous)
    BY <2>2
  <2>4. HaveIds(files)
    BY <1>1 DEF FilesInv, HaveIds
  <2>5. files # {} /\ files' = files \ {Newest(files)}
    BY <2>1 DEF Undo
  <2>6. /\ n - 1 \in Nat /\ n \in 1..n /\ Newest(files) = s[n]
        /\ Sorted(Popped(s, n), n - 1, files')
    BY <2>3, <2>4, <2>5, PoppedIsSorted
  <2>7. Regenerated' = r[n - 1]
    <3>1. n # 0
      BY <2>6
    <3>2. PICK q, e : /\ Lead(models, Popped(s, n), n - 1, q, e)
                      /\ q[n - 1] = r[n - 1]
      BY <2>3, <3>1, PoppedLeads
    <3>3. CASE files' = {}
      <4>1. Regenerated' = EmptyModel
        BY <2>1, <3>3 DEF Undo, NoSnapshot
      <4>2. n - 1 = 0
        BY <2>6, <3>3 DEF Sorted
      <4>3. 0 \in 0..n /\ r[0] = r[n - 1]
        BY <4>2
      <4>4. r[0] = EmptyModel
        BY <2>3, <4>3, Zenon DEF Lead, Replays
      <4> QED
        BY <4>1, <4>3, <4>4
    <3>4. CASE files' # {}
      <4>1. HaveIds(files')
        BY <2>4, <2>5 DEF HaveIds
      <4>2. RebuildModel(files') = q[n - 1]
        BY <2>6, <3>2, <4>1, RebuiltIsLast DEF Lead
      <4>3. command' = << <<RebuildModel(files')>> >>
        BY <2>1, <3>4 DEF Undo
      <4> QED
        BY <3>2, <4>2, <4>3 DEF NoSnapshot
    <3> QED
      BY <3>3, <3>4
  <2>8. n \in 0..n /\ n - 1 \in 0..n /\ n # 0
    BY <2>6
  <2>9. r[n - 1] \in models
    <3>1. Clean(s, n - 1)
      BY <2>3, <2>6 DEF Clean
    <3> QED
      BY <2>3, <2>8, <3>1 DEF Lead
  <2>10. PICK m \in models, k \in Models :
            Same(r[n - 1], m) /\ s[n].up = Diff(m, k)
    BY <2>3, <2>6 DEF Lead, Made
  <2>11. r[n] = Replay(r[n - 1], s[n].up)
    BY <2>3, <2>8, Zenon DEF Lead, Replays
  <2>12. model \in Models /\ Same(Replay(r[n - 1], Diff(m, k)), model)
    BY <1>1, <2>3, <2>10, <2>11, Zenon DEF SavedInv
  <2>13. ToSet(Diff(r[n - 1], model)) = ToSet(Diff(m, k))
    <3>1. \A l \in Models : Same(Replay(r[n - 1], Diff(m, k)), l) =>
             ToSet(Diff(r[n - 1], l)) = ToSet(Diff(m, k))
      BY <2>9, <2>10, Zenon DEF UpsLead
    <3> QED
      BY <2>12, <3>1, Zenon
  <2> QED
    BY <2>6, <2>7, <2>10, <2>13, Zenon
<1>2. FilesInv /\ SavedInv /\ ChainInv(models) /\ [Next]_vars
         => FilesInv' /\ SavedInv' /\ ChainInv(models)'
  BY FilesStep, SavedStep, ChainStep
<1>3. Init => FilesInv /\ SavedInv /\ ChainInv(models)
  BY InitFiles, InitChain
<1>4. Redone => [Settled /\ Previous = model /\ Cardinality(files') < Cardinality(files)
        => LET saved == command'[1]
               regenerated == IF saved = NoSnapshot THEN EmptyModel
                              ELSE saved[1] IN
           ToSet(Diff(regenerated, model)) = ToSet(Newest(files).up)]_vars
  BY Zenon
<1> QED
  BY <1>1, <1>2, <1>3, <1>4, PTL DEF Spec, UndoneComesBack

-----------------------------------------------------------------------------
(* The way back *)

(* What the oldest i files build is what running them one by one gives after *)
(* the i-th.                                                                *)
LEMMA OldestBuild ==
    ASSUME NEW S, NEW n \in Nat, NEW s, Sorted(s, n, S), HaveIds(S),
           NEW d, Runs(s, n, d), NEW i \in 0..n
    PROVE  Database(Oldest(S, i)) = d[i]
<1> DEFINE P == {s[j] : j \in 1..i}
           t == [j \in 1..i |-> s[j]]
           e == [j \in 0..i |-> d[j]]
           Held(j) == IF j = 0 THEN Holding(EmptyModel) ELSE Applied(e[j - 1], t[j].up)
<1>1. Oldest(S, i) = P
  BY ByIdIsSorted DEF Oldest
<1>2. i \in Nat /\ \A j \in 1..i : j \in 1..n
  OBVIOUS
<1>3. \A j \in 1..i : t[j] = s[j]
  OBVIOUS
<1>4. P \subseteq S
  BY <1>2 DEF Sorted
<1>5. Sorted(t, i, P)
  <2>1. t \in [1..i -> P]
    OBVIOUS
  <2>2. \A f \in P : \E j \in 1..i : t[j] = f
    OBVIOUS
  <2>3. \A j, k \in 1..i : j < k => t[j].id < t[k].id
    BY <1>2 DEF Sorted
  <2> HIDE DEF t, P
  <2> QED
    BY <2>1, <2>2, <2>3 DEF Sorted
<1>6. HaveIds(P)
  BY <1>4 DEF HaveIds
<1>7. \A j \in 0..i : e[j] = d[j] /\ j \in 0..n
  OBVIOUS
<1>8. e = [j \in 0..i |-> e[j]]
  OBVIOUS
<1> HIDE DEF P, t, e
<1>9. \A j \in 0..i : e[j] = Held(j)
  <2> TAKE j \in 0..i
  <2>1. \A k \in 0..n : d[k] = IF k = 0 THEN Holding(EmptyModel)
                               ELSE Applied(d[k - 1], s[k].up)
    BY Zenon DEF Runs
  <2>2. CASE j = 0
    BY <1>7, <2>1, <2>2
  <2>3. CASE j # 0
    <3>1. j \in 1..i /\ j - 1 \in 0..i
      BY <2>3
    <3>2. e[j] = d[j] /\ e[j - 1] = d[j - 1] /\ t[j] = s[j]
      BY <1>3, <1>7, <3>1
    <3> QED
      BY <1>7, <2>1, <2>3, <3>2
  <2> QED
    BY <2>2, <2>3
<1>10. Runs(t, i, e)
  <2>1. e = [j \in 0..i |-> Held(j)]
    BY <1>8, <1>9
  <2> QED
    BY <2>1, Zenon DEF Runs
<1>11. Database(P) = e[i]
  BY <1>2, <1>5, <1>6, <1>10, DatabaseIsLast
<1>12. i \in 0..i
  OBVIOUS
<1> QED
  BY <1>1, <1>7, <1>11, <1>12

(* And reverting, the last value so far of what the "down"s give one by one. *)
Unwinds(s, n, b) ==
    b = [i \in 0..n |-> IF i = 0 THEN Holding(Previous)
                         ELSE Applied(b[i - 1], s[n + 1 - i].down)]

LEMMA RevertedIsUnwound ==
    ASSUME NEW S, NEW n \in Nat, NEW s, Sorted(s, n, S), HaveIds(S),
           NEW b, Unwinds(s, n, b)
    PROVE  \A i \in 0..n : Reverted(S)[i] = b[i]
<1> DEFINE back ==
       CHOOSE g : g = [i \in 0..n |->
                         IF i = 0 THEN Holding(Previous)
                         ELSE Applied(g[i - 1], s[n + 1 - i].down)]
<1>1. Reverted(S) = back
  <2>1. Cardinality(S) = n
    BY SortedCounts
  <2>2. ById(S) = s
    BY ByIdIsSorted
  <2> QED
    BY <2>1, <2>2, Zenon DEF Reverted
<1>2. Unwinds(s, n, back)
  BY Zenon DEF Unwinds
<1> HIDE DEF back
<1>3. \A i \in 0..n :
         /\ back[i] = IF i = 0 THEN Holding(Previous)
                      ELSE Applied(back[i - 1], s[n + 1 - i].down)
         /\ b[i] = IF i = 0 THEN Holding(Previous)
                   ELSE Applied(b[i - 1], s[n + 1 - i].down)
  BY <1>2, Zenon DEF Unwinds
<1>4. \A i \in 0..n : (\A j \in 0..n : j < i => back[j] = b[j]) => back[i] = b[i]
  <2> TAKE i \in 0..n
  <2> HAVE \A j \in 0..n : j < i => back[j] = b[j]
  <2>1. i = 0 \/ (i - 1 \in 0..n /\ i - 1 < i)
    OBVIOUS
  <2> QED
    BY <1>3, <2>1
<1>5. \A i \in 0..n : back[i] = b[i]
  BY <1>4, AgreeFromStart
<1> QED
  BY <1>1, <1>5

(* RollsBack: if the difference back returns the database too, `apply --to`   *)
(* any of the migrations leaves what the files up to it build, although each *)
(* "down" was computed with another snapshot, regenerated since or not.     *)
THEOREM RollingBackReturns ==
    ASSUME NEW CONSTANT models, UpsLead(models), DownsLead(models)
    PROVE  Spec => []RollsBack
<1>1. FilesInv /\ SavedInv /\ ChainInv(models) => RollsBack
  <2> SUFFICES ASSUME FilesInv, SavedInv, ChainInv(models), Settled
               PROVE  \A i \in 0..Cardinality(files) :
                         Reverted(files)[i]
                            = Database(Oldest(files, Cardinality(files) - i))
    BY DEF RollsBack
  <2>1. PICK n \in Nat : \E s, r, d :
           /\ Sorted(s, n, files) /\ Lead(models, s, n, r, d) /\ Clean(s, n)
           /\ Same(r[n], Previous)
    BY SettledChain, Zenon
  <2>2. PICK s, r, d :
           /\ Sorted(s, n, files) /\ Lead(models, s, n, r, d) /\ Clean(s, n)
           /\ Same(r[n], Previous)
    BY <2>1
  <2>3. HaveIds(files)
    BY DEF FilesInv, HaveIds
  <2>4. \A i \in 0..n : Clean(s, i)
    BY <2>2 DEF Clean
  <2>5. \A i \in 0..n : r[i] \in models /\ d[i] = Holding(r[i])
    BY <2>2, <2>4 DEF Lead
  <2> DEFINE b == [j \in 0..n |-> d[n - j]]
             Back(j) == IF j = 0 THEN Holding(Previous)
                        ELSE Applied(b[j - 1], s[n + 1 - j].down)
  <2>6. \A j \in 0..n : b[j] = d[n - j]
    OBVIOUS
  <2>7. b = [j \in 0..n |-> b[j]]
    OBVIOUS
  <2> HIDE DEF b
  <2>8. \A j \in 0..n : b[j] = Back(j)
    <3> TAKE j \in 0..n
    <3>1. CASE j = 0
      <4>1. n \in 0..n /\ n - j = n
        BY <3>1
      <4>2. b[j] = Holding(r[n])
        BY <2>5, <2>6, <4>1
      <4> QED
        BY <2>2, <3>1, <4>2, Zenon DEF Same, Holding
    <3>2. CASE j # 0
      <4> DEFINE l == n + 1 - j
      <4>1. /\ l \in 1..n /\ l \in 0..n /\ l - 1 \in 0..n
            /\ n - j = l - 1 /\ n - (j - 1) = l /\ j - 1 \in 0..n
        BY <3>2
      <4> HIDE DEF l
      <4>2. Made(models, s[l], r[l - 1], r[l])
        BY <2>2, <2>4, <4>1 DEF Lead
      <4>3. PICK m \in models, k \in Models :
               /\ Same(r[l - 1], m) /\ Same(r[l], k) /\ s[l].down = Diff(k, m)
        BY <4>2 DEF Made
      <4>4. Holding(r[l - 1]) = Holding(m) /\ Holding(r[l]) = Holding(k)
        BY <4>3, Zenon DEF Same, Holding
      <4>5. b[j] = Holding(m) /\ b[j - 1] = Holding(k)
        BY <2>5, <2>6, <4>1, <4>4
      <4>6. Applied(Holding(k), Diff(k, m)) = Holding(m)
        BY <4>3, Zenon DEF DownsLead
      <4> QED
        BY <3>2, <4>3, <4>5, <4>6 DEF l
    <3> QED
      BY <3>1, <3>2
  <2>9. Unwinds(s, n, b)
    <3>1. b = [j \in 0..n |-> Back(j)]
      BY <2>7, <2>8
    <3> QED
      BY <3>1, Zenon DEF Unwinds
  <2>10. Cardinality(files) = n
    BY <2>2, <2>3, SortedCounts
  <2>11. \A i \in 0..n : Database(Oldest(files, i)) = d[i]
    BY <2>2, <2>3, OldestBuild DEF Lead
  <2>12. \A i \in 0..n : Reverted(files)[i] = b[i]
    BY <2>2, <2>3, <2>9, RevertedIsUnwound
  <2>13. \A i \in 0..n : n - i \in 0..n
    OBVIOUS
  <2> QED
    BY <2>6, <2>10, <2>11, <2>12, <2>13
<1>2. FilesInv /\ SavedInv /\ ChainInv(models) /\ [Next]_vars
         => FilesInv' /\ SavedInv' /\ ChainInv(models)'
  BY FilesStep, SavedStep, ChainStep
<1>3. Init => FilesInv /\ SavedInv /\ ChainInv(models)
  BY InitFiles, InitChain
<1> QED
  BY <1>1, <1>2, <1>3, PTL DEF Spec
=============================================================================
