----------------------- MODULE Evolution_accepts_proofs -----------------------
(***************************************************************************)
(* The engine refuses nothing of a smooth migration, up or down             *)
(* (SmoothIsNotRefused): diff.rs orders its operations so that each finds   *)
(* what it needs, and nothing that would be in its way.                     *)
(*                                                                         *)
(* First, that a difference names no operation twice (DiffIsOnce), so that  *)
(* one that is next has not been done.  Then what an operation finds in a   *)
(* table's lists, given what is left of them (Evolution_proofs), and that   *)
(* every table has a course, the dropped ones too: they lose their keys and *)
(* indexes, and then go.  What Accepted asks of two models is what the      *)
(* stages do not give: that they declare what they refer to, and the few    *)
(* alterations that one engine or another forbids whatever their order.     *)
(***************************************************************************)
EXTENDS Evolution_proofs

-----------------------------------------------------------------------------
(* Lists without repetition *)

(* Nothing is in the list at two places. *)
Once(list) == \A i, j \in DOMAIN list : list[i] = list[j] => i = j

(* Two lists have nothing in common. *)
Disjoint(a, b) == \A x \in ToSet(a) : x \notin ToSet(b)

(* Two such lists that have nothing in common make one. *)
LEMMA OnceJoined ==
    ASSUME NEW a, NEW b, IsList(a), IsList(b), Once(a), Once(b), Disjoint(a, b)
    PROVE  Once(a \o b)
<1>1. /\ Len(a) \in Nat /\ DOMAIN a = 1..Len(a)
      /\ Len(b) \in Nat /\ DOMAIN b = 1..Len(b)
  BY ListFacts
<1>2. PICK S, T : a \in Seq(S) /\ b \in Seq(T)
  BY DEF IsList
<1>3. /\ Len(a \o b) = Len(a) + Len(b) /\ DOMAIN (a \o b) = 1..Len(a \o b)
      /\ \A i \in DOMAIN (a \o b) :
            /\ i <= Len(a) => (a \o b)[i] = a[i]
            /\ i > Len(a) => (a \o b)[i] = b[i - Len(a)]
  BY <1>2
<1>4. \A i \in DOMAIN a : \A j \in DOMAIN b : a[i] # b[j]
  BY Zenon DEF Disjoint, ToSet
<1>5. ASSUME NEW i \in DOMAIN (a \o b), NEW j \in DOMAIN (a \o b), (a \o b)[i] = (a \o b)[j]
      PROVE  i = j
  <2>1. /\ i <= Len(a) => i \in DOMAIN a
        /\ i > Len(a) => i - Len(a) \in DOMAIN b
        /\ j <= Len(a) => j \in DOMAIN a
        /\ j > Len(a) => j - Len(a) \in DOMAIN b
    BY <1>1, <1>3
  <2>2. CASE i <= Len(a) /\ j <= Len(a)
    BY <1>3, <1>5, <2>1, <2>2 DEF Once
  <2>3. CASE i > Len(a) /\ j > Len(a)
    <3>1. i - Len(a) = j - Len(a)
      BY <1>3, <1>5, <2>1, <2>3 DEF Once
    <3> QED
      BY <1>1, <1>3, <3>1
  <2>4. CASE i <= Len(a) /\ j > Len(a)
    BY <1>3, <1>4, <1>5, <2>1, <2>4
  <2>5. CASE i > Len(a) /\ j <= Len(a)
    BY <1>3, <1>4, <1>5, <2>1, <2>5
  <2> QED
    BY <1>1, <1>3, <2>2, <2>3, <2>4, <2>5
<1> QED
  BY <1>5 DEF Once

(* Nor have the lists of a list. *)
AllDisjoint(ss) == \A i, j \in DOMAIN ss : i # j => Disjoint(ss[i], ss[j])

(* Nor does a list of such lists, joined. *)
LEMMA OnceFlattened ==
    ASSUME NEW ss, IsList(ss), \A i \in DOMAIN ss : IsList(ss[i]) /\ Once(ss[i]),
           AllDisjoint(ss)
    PROVE  Once(FlattenSeq(ss))
<1> DEFINE n == Len(ss)
           flat == CHOOSE g : g = [i \in 1..n |->
                      IF i = 1 THEN ss[i] ELSE g[i - 1] \o ss[i]]
<1>1. n \in Nat /\ DOMAIN ss = 1..n
  BY ListFacts
<1>2. CASE n = 0
  <2>1. ss = <<>>
    BY <1>2, ListFacts DEF IsList
  <2>2. FlattenSeq(ss) = <<>>
    BY <1>2, <2>1 DEF FlattenSeq
  <2> QED
    BY <2>2 DEF Once
<1>3. CASE n # 0
  <2>1. FlattenSeq(ss) = flat[n]
    BY <1>3, Zenon DEF FlattenSeq
  <2>2. Steps(flat, n, ss)
    BY <1>1, StepsExist, Zenon DEF Steps
  <2> HIDE DEF flat
  <2>3. \A i \in 1..n : flat[i] = IF i = 1 THEN ss[i] ELSE flat[i - 1] \o ss[i]
    BY <2>2, Zenon DEF Steps
  <2> DEFINE Good(i) == /\ IsList(flat[i]) /\ Once(flat[i])
                        /\ \A x \in ToSet(flat[i]) : \E j \in 1..i : x \in ToSet(ss[j])
             Bad == {i \in 1..n : ~Good(i)}
  <2>4. Bad = {}
    <3> SUFFICES ASSUME Bad # {} PROVE FALSE
      OBVIOUS
    <3>0. Bad \subseteq Nat
      BY <1>1
    <3> HIDE DEF Bad
    <3>1. PICK i \in Bad : \A j \in Bad : i <= j
      BY <3>0, LeastNumber
    <3>2. i \in 1..n /\ ~Good(i)
      BY <3>1 DEF Bad
    <3>3. CASE i = 1
      <4>1. flat[i] = ss[1]
        BY <2>3, <3>2, <3>3
      <4>2. 1 \in 1..i
        BY <3>3
      <4>3. IsList(ss[1]) /\ Once(ss[1])
        BY <1>1, <3>2, <3>3
      <4> QED
        BY <3>2, <4>1, <4>2, <4>3
    <3>4. CASE i # 1
      <4>1. i - 1 \in 1..n /\ i - 1 \notin Bad /\ i \in DOMAIN ss
        BY <1>1, <3>1, <3>2, <3>4
      <4>2. Good(i - 1)
        BY <4>1 DEF Bad
      <4>3. flat[i] = flat[i - 1] \o ss[i]
        BY <2>3, <3>2, <3>4
      <4>4. IsList(ss[i]) /\ Once(ss[i])
        BY <4>1
      <4>5. /\ i \in 1..i
            /\ \A j \in 1..(i - 1) : j \in 1..i /\ j \in DOMAIN ss /\ j # i
        BY <1>1, <3>2
      <4>6. IsList(flat[i]) /\ ToSet(flat[i]) = ToSet(flat[i - 1]) \cup ToSet(ss[i])
        BY <4>2, <4>3, <4>4, Joined
      <4>7. Disjoint(flat[i - 1], ss[i])
        <5> SUFFICES ASSUME NEW x \in ToSet(flat[i - 1]), x \in ToSet(ss[i]) PROVE FALSE
          BY Zenon DEF Disjoint
        <5>1. PICK j \in 1..(i - 1) : x \in ToSet(ss[j])
          BY <4>2
        <5>2. Disjoint(ss[j], ss[i])
          BY <4>1, <4>5, <5>1, Zenon DEF AllDisjoint
        <5> QED
          BY <5>1, <5>2, Zenon DEF Disjoint
      <4>8. Once(flat[i])
        BY <4>2, <4>3, <4>4, <4>7, OnceJoined
      <4>9. \A x \in ToSet(flat[i]) : \E j \in 1..i : x \in ToSet(ss[j])
        BY <4>2, <4>5, <4>6
      <4> QED
        BY <3>2, <4>6, <4>8, <4>9
    <3> QED
      BY <3>3, <3>4
  <2>5. n \in 1..n
    BY <1>1, <1>3
  <2> QED
    BY <2>1, <2>4, <2>5
<1> QED
  BY <1>2, <1>3

(* Lists of one, and of none. *)
LEMMA OnceOne ==
    /\ Once(<<>>)
    /\ \A x : Once(<<x>>)
<1>1. Once(<<>>)
  BY DEF Once
<1>2. ASSUME NEW x PROVE Once(<<x>>)
  <2>1. DOMAIN <<x>> = {1}
    OBVIOUS
  <2> QED
    BY <2>1 DEF Once
<1> QED
  BY <1>1, <1>2

(* A selection from a list repeats nothing that the list does not. *)
LEMMA OnceSelected ==
    ASSUME NEW list, IsList(list), Once(list), NEW S,
           NEW f, IsList(f), DOMAIN f = DOMAIN list,
           \A i \in DOMAIN list : f[i] = IF list[i] \in S THEN <<list[i]>> ELSE <<>>
    PROVE  Once(FlattenSeq(f))
<1>1. ASSUME NEW i \in DOMAIN f
      PROVE  IsList(f[i]) /\ Once(f[i]) /\ \A x \in ToSet(f[i]) : x = list[i]
  <2>1. f[i] = <<list[i]>> \/ f[i] = <<>>
    OBVIOUS
  <2> QED
    BY <2>1, OneHolds, NoneHolds, OnceOne
<1>2. AllDisjoint(f)
  <2> SUFFICES ASSUME NEW i \in DOMAIN f, NEW j \in DOMAIN f, i # j,
                      NEW x \in ToSet(f[i]), x \in ToSet(f[j])
               PROVE  FALSE
    BY Zenon DEF AllDisjoint, Disjoint
  <2>1. x = list[i] /\ x = list[j]
    BY <1>1
  <2> QED
    BY <2>1 DEF Once
<1> QED
  BY <1>1, <1>2, OnceFlattened

(* What the differ selects from a list. *)
LEMMA OnceTaken ==
    ASSUME NEW list, IsList(list), Once(list), NEW other
    PROVE  /\ Once(Absent(list, other)) /\ Once(Redefined(list, other))
           /\ Once(AbsentOrRedefined(list, other))
<1> DEFINE R == {x \in ToSet(list) : ~Has(other, x.name)}
           S == {x \in ToSet(list) : Has(other, x.name) /\ Find(other, x.name) # x}
           T == {x \in ToSet(list) : ~Has(other, x.name) \/ Find(other, x.name) # x}
           Of(U) == [i \in DOMAIN list |-> IF list[i] \in U THEN <<list[i]>> ELSE <<>>]
<1>1. Absent(list, other) = FlattenSeq(Of(R))
  <2>1. [i \in DOMAIN list |-> IF ~Has(other, list[i].name) THEN <<list[i]>> ELSE <<>>] = Of(R)
    BY DEF ToSet
  <2> QED
    BY <2>1 DEF Absent, Those
<1>2. Redefined(list, other) = FlattenSeq(Of(S))
  <2>1. [i \in DOMAIN list |->
           IF Has(other, list[i].name) /\ Find(other, list[i].name) # list[i]
           THEN <<list[i]>> ELSE <<>>] = Of(S)
    BY DEF ToSet
  <2> QED
    BY <2>1 DEF Redefined, Those
<1>3. AbsentOrRedefined(list, other) = FlattenSeq(Of(T))
  <2>1. [i \in DOMAIN list |->
           IF ~Has(other, list[i].name) \/ Find(other, list[i].name) # list[i]
           THEN <<list[i]>> ELSE <<>>] = Of(T)
    BY DEF ToSet
  <2> QED
    BY <2>1 DEF AbsentOrRedefined, Those
<1>4. ASSUME NEW U PROVE Once(FlattenSeq(Of(U)))
  <2>1. /\ Of(U) = [i \in DOMAIN list |-> Of(U)[i]] /\ DOMAIN Of(U) = DOMAIN list
        /\ \A i \in DOMAIN list : Of(U)[i] = IF list[i] \in U THEN <<list[i]>> ELSE <<>>
    OBVIOUS
  <2> HIDE DEF Of
  <2> QED
    BY <2>1, MadeOf, OnceSelected
<1> HIDE DEF Of
<1> QED
  BY <1>1, <1>2, <1>3, <1>4

(* The tables of both models. *)
LEMMA OnceKept ==
    ASSUME NEW a, NEW b, IsList(b.tables), Once(b.tables)
    PROVE  Once(Kept(a, b))
<1>1. PICK list : list = b.tables
  OBVIOUS
<1> DEFINE S == {t \in ToSet(list) : Has(a.tables, t.name)}
           f == [i \in DOMAIN list |-> IF list[i] \in S THEN <<list[i]>> ELSE <<>>]
<1>2. Kept(a, b) = FlattenSeq(f)
  <2>1. [i \in DOMAIN list |-> IF Has(a.tables, list[i].name) THEN <<list[i]>> ELSE <<>>] = f
    BY DEF ToSet
  <2> QED
    BY <1>1, <2>1 DEF Kept, Those
<1>3. /\ f = [i \in DOMAIN list |-> f[i]] /\ DOMAIN f = DOMAIN list
      /\ \A i \in DOMAIN list : f[i] = IF list[i] \in S THEN <<list[i]>> ELSE <<>>
  OBVIOUS
<1> HIDE DEF f, S
<1>4. IsList(list) /\ Once(list)
  BY <1>1
<1>5. IsList(f)
  <2>1. f = [i \in DOMAIN list |-> f[i]]
    BY <1>3, Zenon
  <2> QED
    BY <1>4, <2>1, MadeOf, Zenon
<1>6. Once(FlattenSeq(f))
  BY <1>3, <1>4, <1>5, OnceSelected
<1> QED
  BY <1>2, <1>6, Zenon

(* Operations on the elements of a list. *)
LEMMA OnceOps ==
    ASSUME NEW kind, NEW table, NEW list, IsList(list), Once(list)
    PROVE  Once(Ops(kind, table, list))
<1>1. DOMAIN Ops(kind, table, list) = DOMAIN list
  BY DEF Ops
<1>2. \A i \in DOMAIN list : Ops(kind, table, list)[i].arg = list[i]
  BY DEF Ops, Operation
<1> QED
  BY <1>1, <1>2 DEF Once

(* What is dropped, and what is added. *)
LEMMA OnceDropsAndAdds ==
    ASSUME NEW kind, NEW t, NEW new, NEW old, IsList(new), IsList(old), Once(new), Once(old)
    PROVE  /\ Once(DropsOf(kind, t, new, old)) /\ Once(AddsOf(kind, t, new, old))
           /\ Once(Ops(kind, t, Absent(new, old))) /\ Once(Ops(kind, t, new))
<1>1. /\ Once(Absent(new, old)) /\ Once(Redefined(new, old))
      /\ Once(AbsentOrRedefined(new, old)) /\ Once(Absent(old, new))
      /\ IsList(Absent(new, old)) /\ IsList(Redefined(new, old))
      /\ IsList(AbsentOrRedefined(new, old)) /\ IsList(Absent(old, new))
  BY OnceTaken, AbsentFacts, RedefinedFacts
<1>2. PICK a : a = Ops(kind, t, Redefined(new, old))
  OBVIOUS
<1>3. PICK b : b = Ops(kind, t, Absent(old, new))
  OBVIOUS
<1>4. IsList(a) /\ Once(a) /\ ToSet(a) = {Operation(kind, t, x) : x \in ToSet(Redefined(new, old))}
  BY <1>1, <1>2, OnceOps, OpsFacts
<1>5. IsList(b) /\ Once(b) /\ ToSet(b) = {Operation(kind, t, x) : x \in ToSet(Absent(old, new))}
  BY <1>1, <1>3, OnceOps, OpsFacts
<1>6. /\ \A x \in ToSet(Redefined(new, old)) : x \in ToSet(new)
      /\ \A x \in ToSet(Absent(old, new)) : ~Has(new, x.name)
  BY AbsentFacts, RedefinedFacts
<1>7. \A x \in ToSet(new) : Has(new, x.name)
  BY DEF Has, Names
<1>8. Disjoint(a, b)
  <2> SUFFICES ASSUME NEW op \in ToSet(a), op \in ToSet(b) PROVE FALSE
    BY Zenon DEF Disjoint
  <2>1. PICK x \in ToSet(Redefined(new, old)) : op = Operation(kind, t, x)
    BY <1>4
  <2>2. PICK y \in ToSet(Absent(old, new)) : op = Operation(kind, t, y)
    BY <1>5
  <2>3. op.arg = x
    BY <2>1 DEF Operation
  <2>4. op.arg = y
    BY <2>2 DEF Operation
  <2> QED
    BY <1>6, <1>7, <2>3, <2>4
<1>9. Once(a \o b)
  BY <1>4, <1>5, <1>8, OnceJoined
<1>10. DropsOf(kind, t, new, old) = a \o b
  BY <1>2, <1>3 DEF DropsOf
<1> QED
  BY <1>1, <1>9, <1>10, OnceOps DEF AddsOf

(* What is done for each of a list of tables that repeats none, and tells    *)
(* them apart by their names.                                               *)
LEMMA OnceEach ==
    ASSUME NEW tables, IsList(tables), Once(tables), ToldApart(tables), NEW work,
           \A t \in ToSet(tables) :
              IsList(work[t]) /\ Once(work[t]) /\ \A op \in ToSet(work[t]) : op.table = t.name
    PROVE  Once(Each(tables, work))
<1> DEFINE f == [i \in DOMAIN tables |-> work[tables[i]]]
<1>1. DOMAIN f = DOMAIN tables /\ f = [i \in DOMAIN tables |-> f[i]]
  OBVIOUS
<1>2. \A i \in DOMAIN tables : f[i] = work[tables[i]]
  OBVIOUS
<1>6. \A i \in DOMAIN tables : tables[i] \in ToSet(tables)
  BY Zenon DEF ToSet
<1>3. Each(tables, work) = FlattenSeq(f)
  BY DEF Each
<1> HIDE DEF f
<1>4. AllDisjoint(f)
  <2> SUFFICES ASSUME NEW i \in DOMAIN f, NEW j \in DOMAIN f, i # j,
                      NEW x \in ToSet(f[i]), x \in ToSet(f[j])
               PROVE  FALSE
    BY Zenon DEF AllDisjoint, Disjoint
  <2>1. tables[i].name = tables[j].name
    BY <1>1, <1>2, <1>6
  <2>2. tables[i] = tables[j]
    BY <1>1, <1>6, <2>1 DEF ToldApart
  <2> QED
    BY <1>1, <2>2 DEF Once
<1>5. IsList(f)
  BY <1>1, MadeOf
<1> QED
  BY <1>1, <1>2, <1>3, <1>4, <1>5, <1>6, OnceFlattened

(* A list that tells its elements apart repeats none. *)
LEMMA ToldOnce ==
    ASSUME NEW list, TellsApart(list)
    PROVE  IsList(list) /\ Once(list) /\ ToldApart(list)
BY ToldByName DEF TellsApart, Once, IsList, ToldApart

(* The column changes of one table. *)
LEMMA OnceColumns ==
    ASSUME NEW old, NEW new, IsTable(old), IsTable(new), HoldableTable(old), HoldableTable(new)
    PROVE  Once(DiffColumns(old, new))
<1> DEFINE Change(c) ==
               IF ~Has(old.columns, c.name)
               THEN <<Operation("add_column", new.name, c)>>
               ELSE IF Find(old.columns, c.name) # c
               THEN <<[kind |-> "alter_column", table |-> new.name, arg |-> c,
                       old |-> Find(old.columns, c.name)]>>
               ELSE <<>>
           f == [i \in DOMAIN new.columns |-> Change(new.columns[i])]
           gone == Ops("drop_column", new.name, Absent(old.columns, new.columns))
<1>1. DiffColumns(old, new) = FlattenSeq(f) \o gone
  BY DEF DiffColumns
<1>2. DOMAIN f = DOMAIN new.columns /\ f = [i \in DOMAIN new.columns |-> f[i]]
      /\ \A i \in DOMAIN new.columns : f[i] = Change(new.columns[i])
  OBVIOUS
<1>3. ASSUME NEW c
      PROVE  /\ IsList(Change(c)) /\ Once(Change(c))
             /\ \A op \in ToSet(Change(c)) : op.arg = c /\ op.kind # "drop_column"
  <2>1. CASE ~Has(old.columns, c.name)
    BY <2>1, OneHolds, OnceOne, OperationIs
  <2>2. CASE Has(old.columns, c.name) /\ Find(old.columns, c.name) # c
    <3>1. PICK op : op = [kind |-> "alter_column", table |-> new.name, arg |-> c,
                          old |-> Find(old.columns, c.name)]
      OBVIOUS
    <3>2. Change(c) = <<op>>
      BY <2>2, <3>1
    <3>3. op.arg = c /\ op.kind # "drop_column"
      BY <3>1
    <3> QED
      BY <3>2, <3>3, OneHolds, OnceOne
  <2>3. CASE Has(old.columns, c.name) /\ Find(old.columns, c.name) = c
    BY <2>3, NoneHolds, OnceOne
  <2> QED
    BY <2>1, <2>2, <2>3
<1> HIDE DEF f, Change, gone
<1>4. IsList(new.columns) /\ Once(new.columns) /\ IsList(old.columns) /\ Once(old.columns)
  BY ToldOnce DEF HoldableTable
<1>5. IsList(f)
  BY <1>2, <1>4, MadeOf
<1>6. AllDisjoint(f)
  <2> SUFFICES ASSUME NEW i \in DOMAIN f, NEW j \in DOMAIN f, i # j,
                      NEW x \in ToSet(f[i]), x \in ToSet(f[j])
               PROVE  FALSE
    BY Zenon DEF AllDisjoint, Disjoint
  <2>1. new.columns[i] = new.columns[j]
    BY <1>2, <1>3
  <2> QED
    BY <1>2, <1>4, <2>1 DEF Once
<1>7. Once(FlattenSeq(f)) /\ IsList(FlattenSeq(f))
      /\ ToSet(FlattenSeq(f)) = UNION {ToSet(f[i]) : i \in DOMAIN f}
  BY <1>2, <1>3, <1>5, <1>6, OnceFlattened, Flattened
<1>8. \A op \in ToSet(FlattenSeq(f)) : op.kind # "drop_column"
  BY <1>2, <1>3, <1>7
<1>9. IsList(gone) /\ Once(gone)
  BY <1>4, OnceDropsAndAdds, OpsFacts, AbsentFacts DEF gone
<1>10. \A op \in ToSet(gone) : op.kind = "drop_column"
  BY <1>4, OpsFacts, AbsentFacts, OperationIs DEF gone
<1>11. Disjoint(FlattenSeq(f), gone)
  BY <1>8, <1>10 DEF Disjoint
<1> QED
  BY <1>1, <1>7, <1>9, <1>11, OnceJoined

(* SetToSeq lists each element of a finite set once. *)
LEMMA OnceListed ==
    ASSUME NEW S, IsFiniteSet(S) PROVE Once(SetToSeq(S))
<1> DEFINE n == Cardinality(S)
<1>1. n \in Nat /\ \E f \in [1..n -> S] : IsInjective(f)
  BY FS_CardinalityType DEF ExistsBijection, Bijection, Injection
<1>2. SetToSeq(S) \in [1..n -> S] /\ IsInjective(SetToSeq(S))
  BY <1>1 DEF SetToSeq
<1> QED
  BY <1>2 DEF IsInjective, Once

-----------------------------------------------------------------------------
(* A difference has each operation once *)

(* A list that has each of its operations once, all of some kinds and on one table. *)
IsFor(list, kinds, name) ==
    /\ IsList(list) /\ Once(list)
    /\ \A op \in ToSet(list) : op.kind \in kinds /\ op.table = name

(* What the differ makes of a list is such a list. *)
LEMMA MadeOnce ==
    ASSUME NEW kind, NEW t, NEW new, NEW old, TellsApart(new), TellsApart(old)
    PROVE  /\ IsFor(DropsOf(kind, t, new, old), {kind}, t)
           /\ IsFor(AddsOf(kind, t, new, old), {kind}, t)
           /\ IsFor(Ops(kind, t, Absent(new, old)), {kind}, t)
           /\ IsFor(Ops(kind, t, new), {kind}, t)
<1>1. IsList(new) /\ IsList(old) /\ Once(new) /\ Once(old)
  BY ToldOnce
<1>2. /\ Once(DropsOf(kind, t, new, old)) /\ Once(AddsOf(kind, t, new, old))
      /\ Once(Ops(kind, t, Absent(new, old))) /\ Once(Ops(kind, t, new))
  BY <1>1, OnceDropsAndAdds
<1>3. /\ IsList(DropsOf(kind, t, new, old)) /\ IsList(AddsOf(kind, t, new, old))
      /\ IsList(Ops(kind, t, Absent(new, old))) /\ IsList(Ops(kind, t, new))
      /\ \A op \in ToSet(DropsOf(kind, t, new, old)) : IsDrop(op, kind, t, new, old)
      /\ \A op \in ToSet(AddsOf(kind, t, new, old)) : IsAdd(op, kind, t, new, old)
      /\ \A op \in ToSet(Ops(kind, t, Absent(new, old))) : IsMissing(op, kind, t, new, old)
      /\ \A op \in ToSet(Ops(kind, t, new)) : IsOneOf(op, kind, t, new)
  BY <1>1, DropsHold, AddsHold
<1>4. ASSUME NEW op, IsDrop(op, kind, t, new, old) \/ IsAdd(op, kind, t, new, old)
                     \/ IsMissing(op, kind, t, new, old) \/ IsOneOf(op, kind, t, new)
      PROVE  op.kind \in {kind} /\ op.table = t
  <2>1. \E x : op = Operation(kind, t, x)
    BY <1>4, Zenon DEF IsDrop, IsAdd, IsMissing, IsOneOf
  <2> QED
    BY <2>1 DEF Operation
<1> QED
  BY <1>2, <1>3, <1>4 DEF IsFor

(* The part of a stage that is the second: removed tables' keys and indexes   *)
(* go last, created tables' keys, indexes, triggers and rows come first.      *)
IsSecond(n, name, a, b) ==
    \/ n \in {4, 6} /\ ~Has(b.tables, name)
    \/ n \in {9, 12, 13, 15} /\ Has(a.tables, name)
Place(n, name, a, b) == IF IsSecond(n, name, a, b) THEN 2 * n + 1 ELSE 2 * n
PlaceOf(op, a, b) == Place(StageOf(op), op.table, a, b)

(* The list holds operations of place k, once each; or of places up to k. *)
PlacedAt(list, k, a, b) ==
    IsList(list) /\ Once(list) /\ \A op \in ToSet(list) : PlaceOf(op, a, b) = k
PlacedUpTo(list, k, a, b) ==
    IsList(list) /\ Once(list)
    /\ \A op \in ToSet(list) : PlaceOf(op, a, b) \in Nat /\ PlaceOf(op, a, b) <= k

(* A list of one place comes after one of earlier places. *)
LEMMA NextPlace ==
    ASSUME NEW a, NEW b, NEW m \in Nat, NEW n \in Nat, m < n, NEW p, NEW q,
           PlacedUpTo(p, m, a, b), PlacedAt(q, n, a, b)
    PROVE  PlacedUpTo(p \o q, n, a, b)
<1>1. IsList(p) /\ IsList(q) /\ Once(p) /\ Once(q)
  BY DEF PlacedUpTo, PlacedAt
<1>2. Disjoint(p, q)
  <2> SUFFICES ASSUME NEW op \in ToSet(p), op \in ToSet(q) PROVE FALSE
    BY Zenon DEF Disjoint
  <2>1. PlaceOf(op, a, b) \in Nat /\ PlaceOf(op, a, b) <= m /\ PlaceOf(op, a, b) = n
    BY DEF PlacedUpTo, PlacedAt
  <2> QED
    BY <2>1
<1>3. IsList(p \o q) /\ Once(p \o q) /\ ToSet(p \o q) = ToSet(p) \cup ToSet(q)
  BY <1>1, <1>2, Joined, OnceJoined
<1>4. ASSUME NEW op \in ToSet(p \o q)
      PROVE  PlaceOf(op, a, b) \in Nat /\ PlaceOf(op, a, b) <= n
  <2>1. op \in ToSet(p) \/ op \in ToSet(q)
    BY <1>3
  <2>2. CASE op \in ToSet(p)
    BY <2>2 DEF PlacedUpTo
  <2>3. CASE op \in ToSet(q)
    BY <2>3 DEF PlacedAt
  <2> QED
    BY <2>1, <2>2, <2>3
<1> QED
  BY <1>3, <1>4 DEF PlacedUpTo

(* What is done for each of a list of tables, all at one place. *)
LEMMA EachPlaced ==
    ASSUME NEW a, NEW b, NEW tables, IsList(tables), Once(tables), ToldApart(tables),
           NEW work, NEW kinds, NEW n \in Nat, NEW k,
           \A t \in ToSet(tables) : IsFor(work[t], kinds, t.name) /\ Place(n, t.name, a, b) = k,
           \A op : op.kind \in kinds => StageOf(op) = n
    PROVE  PlacedAt(Each(tables, work), k, a, b)
<1>1. \A t \in ToSet(tables) :
         IsList(work[t]) /\ Once(work[t]) /\ \A op \in ToSet(work[t]) : op.table = t.name
  BY DEF IsFor
<1>2. IsList(Each(tables, work))
      /\ ToSet(Each(tables, work)) = UNION {ToSet(work[t]) : t \in ToSet(tables)}
  BY <1>1, EachEmpty, EachHolds
<1>3. Once(Each(tables, work))
  BY <1>1, OnceEach
<1>4. ASSUME NEW op \in ToSet(Each(tables, work)) PROVE PlaceOf(op, a, b) = k
  <2>1. PICK t \in ToSet(tables) : op \in ToSet(work[t])
    BY <1>2
  <2>2. op.table = t.name /\ op.kind \in kinds
    BY <2>1 DEF IsFor
  <2> QED
    BY <2>2 DEF PlaceOf
<1> QED
  BY <1>2, <1>3, <1>4 DEF PlacedAt

(* And what is done for none. *)
LEMMA DatabasePlaced ==
    ASSUME NEW a, NEW b, NEW list, NEW kinds, NEW n \in {1, 2, 11, 16, 17, 19},
           IsFor(list, kinds, Everywhere), \A op : op.kind \in kinds => StageOf(op) = n
    PROVE  PlacedAt(list, 2 * n, a, b)
BY DEF IsFor, PlacedAt, PlaceOf, Place, IsSecond

(* The lists of each table's operations are such lists. *)
LEMMA KeptOnce ==
    ASSUME NEW old, NEW t, IsTable(old), IsTable(t), HoldableTable(old), HoldableTable(t),
           old.seed = <<>>, t.seed = <<>>
    PROVE  /\ IsFor(DropsOf("drop_trigger", t.name, t.triggers, old.triggers),
                    {"drop_trigger"}, t.name)
           /\ IsFor(DropsOf("drop_fk", t.name, t.fks, old.fks), {"drop_fk"}, t.name)
           /\ IsFor(DropsOf("drop_check", t.name, t.checks, old.checks), {"drop_check"}, t.name)
           /\ IsFor(Ops("drop_index", t.name, Absent(old.indexes, t.indexes)),
                    {"drop_index"}, t.name)
           /\ IsFor(DiffColumns(old, t), ColumnKinds, t.name)
           /\ IsFor(AddsOf("add_fk", t.name, t.fks, old.fks), {"add_fk"}, t.name)
           /\ IsFor(AddsOf("add_check", t.name, t.checks, old.checks), {"add_check"}, t.name)
           /\ IsFor(Ops("create_index", t.name, Absent(t.indexes, old.indexes)),
                    {"create_index"}, t.name)
           /\ IsFor(AddsOf("create_trigger", t.name, t.triggers, old.triggers),
                    {"create_trigger"}, t.name)
           /\ IsFor(Rebuild(old, t), {"rebuild_table"}, t.name)
           /\ IsFor(DiffSeedData(old, t), RowKinds, t.name)
<1>1. /\ TellsApart(t.triggers) /\ TellsApart(old.triggers) /\ TellsApart(t.fks)
      /\ TellsApart(old.fks) /\ TellsApart(t.checks) /\ TellsApart(old.checks)
      /\ TellsApart(t.indexes) /\ TellsApart(old.indexes)
  BY DEF HoldableTable
<1>2. IsFor(DiffColumns(old, t), ColumnKinds, t.name)
  <2>1. IsList(DiffColumns(old, t)) /\ Once(DiffColumns(old, t))
    BY ColumnsHold, OnceColumns
  <2>2. ASSUME NEW op \in ToSet(DiffColumns(old, t))
        PROVE  op.kind \in ColumnKinds /\ op.table = t.name
    <3>1. IsColumnChange(op, old, t)
      BY ColumnsHold
    <3> QED
      BY <3>1 DEF IsColumnChange, IsMissing, IsAlter, Operation, ColumnKinds
  <2> QED
    BY <2>1, <2>2 DEF IsFor
<1>3. IsFor(Rebuild(old, t), {"rebuild_table"}, t.name)
  <2>1. \/ Rebuild(old, t) = <<>>
        \/ \E x : Rebuild(old, t) = <<Operation("rebuild_table", t.name, x)>>
    BY DEF Rebuild
  <2>2. \A x : LET op == Operation("rebuild_table", t.name, x) IN
               op.kind = "rebuild_table" /\ op.table = t.name
    BY DEF Operation
  <2> QED
    BY <2>1, <2>2, OneHolds, NoneHolds, OnceOne DEF IsFor
<1>4. IsFor(DiffSeedData(old, t), RowKinds, t.name)
  <2>1. IsList(DiffSeedData(old, t)) /\ \A op \in ToSet(DiffSeedData(old, t)) : FALSE
    BY NoSeed, RowsHold DEF IsRowChange
  <2>2. DiffSeedData(old, t) = <<>>
    BY <2>1, ListFacts
  <2> QED
    BY <2>1, <2>2, OnceOne DEF IsFor
<1> QED
  BY <1>1, <1>2, <1>3, <1>4, MadeOnce

(* A created table's, and a removed one's. *)
LEMMA CreatedOnce ==
    ASSUME NEW t, HoldableTable(t), t.seed = <<>>
    PROVE  /\ IsFor(<<Operation("create_table", t.name, t)>>, {"create_table"}, t.name)
           /\ IsFor(<<Operation("drop_table", t.name, t)>>, {"drop_table"}, t.name)
           /\ IsFor(Ops("add_fk", t.name, t.fks), {"add_fk"}, t.name)
           /\ IsFor(Ops("drop_fk", t.name, t.fks), {"drop_fk"}, t.name)
           /\ IsFor(Ops("create_index", t.name, t.indexes), {"create_index"}, t.name)
           /\ IsFor(Ops("drop_index", t.name, t.indexes), {"drop_index"}, t.name)
           /\ IsFor(Ops("create_trigger", t.name, t.triggers), {"create_trigger"}, t.name)
           /\ IsFor(Ops("insert_data", t.name, t.seed), {"insert_data"}, t.name)
<1>1. TellsApart(t.fks) /\ TellsApart(t.indexes) /\ TellsApart(t.triggers)
  BY DEF HoldableTable
<1>2. ASSUME NEW kind PROVE IsFor(<<Operation(kind, t.name, t)>>, {kind}, t.name)
  <2>1. PICK op : op = Operation(kind, t.name, t)
    OBVIOUS
  <2>2. op.kind = kind /\ op.table = t.name
    BY <2>1 DEF Operation
  <2>3. IsFor(<<op>>, {kind}, t.name)
    BY <2>2, OneHolds, OnceOne DEF IsFor
  <2> QED
    BY <2>1, <2>3
<1>3. IsFor(Ops("insert_data", t.name, t.seed), {"insert_data"}, t.name)
  <2>1. Ops("insert_data", t.name, t.seed) = <<>>
    BY DEF Ops
  <2> QED
    BY <2>1, NoneHolds, OnceOne DEF IsFor
<1> QED
  BY <1>1, <1>2, <1>3, MadeOnce

(* No operation of a migration between models without seed rows comes twice. *)
THEOREM DiffIsOnce ==
    ASSUME NEW a, NEW b, Holdable(a), Holdable(b), Unseeded(a), Unseeded(b)
    PROVE  Once(Diff(a, b))
<1> DEFINE Old(t) == Find(a.tables, t.name)
           created == Created(a, b)
           kept == Kept(a, b)
           removed == Removed(a, b)
           extensions == SetToSeq(WantedExtensions(b) \ WantedExtensions(a))
           ensured == [i \in DOMAIN extensions |->
                            Operation("ensure_extension", "", extensions[i])]
           viewsGone == DropsOf("drop_view", "", b.views, a.views)
           keptTriggersGone == [t \in ToSet(kept) |->
               DropsOf("drop_trigger", t.name, t.triggers, Old(t).triggers)]
           keptKeysGone == [t \in ToSet(kept) |->
               DropsOf("drop_fk", t.name, t.fks, Old(t).fks)]
           oldKeys == [t \in ToSet(removed) |->
               Ops("drop_fk", t.name, t.fks)]
           keptChecksGone == [t \in ToSet(kept) |->
               DropsOf("drop_check", t.name, t.checks, Old(t).checks)]
           keptIndexesGone == [t \in ToSet(kept) |->
               Ops("drop_index", t.name, Absent(Old(t).indexes, t.indexes))]
           oldIndexes == [t \in ToSet(removed) |->
               Ops("drop_index", t.name, t.indexes)]
           newTables == [t \in ToSet(created) |->
               <<Operation("create_table", t.name, t)>>]
           keptColumns == [t \in ToSet(kept) |->
               DiffColumns(Old(t), t)]
           newKeys == [t \in ToSet(created) |->
               Ops("add_fk", t.name, t.fks)]
           keptKeys == [t \in ToSet(kept) |->
               AddsOf("add_fk", t.name, t.fks, Old(t).fks)]
           keptChecks == [t \in ToSet(kept) |->
               AddsOf("add_check", t.name, t.checks, Old(t).checks)]
           functions == AddsOf("create_function", "", b.functions, a.functions)
           newIndexes == [t \in ToSet(created) |->
               Ops("create_index", t.name, t.indexes)]
           keptIndexes == [t \in ToSet(kept) |->
               Ops("create_index", t.name, Absent(t.indexes, Old(t).indexes))]
           newTriggers == [t \in ToSet(created) |->
               Ops("create_trigger", t.name, t.triggers)]
           keptTriggers == [t \in ToSet(kept) |->
               AddsOf("create_trigger", t.name, t.triggers, Old(t).triggers)]
           keptRebuilds == [t \in ToSet(kept) |->
               Rebuild(Old(t), t)]
           newSeed == [t \in ToSet(created) |->
               Ops("insert_data", t.name, t.seed)]
           keptSeed == [t \in ToSet(kept) |->
               DiffSeedData(Old(t), t)]
           raw == Ops("raw_sql", "", Absent(b.raw, a.raw))
           views == AddsOf("create_view", "", b.views, a.views)
           oldTables == [t \in ToSet(removed) |->
               <<Operation("drop_table", t.name, t)>>]
           functionsGone == Ops("drop_function", "", Absent(a.functions, b.functions))
<1>1. IsModel(a) /\ IsModel(b)
  BY HoldableIsModel
<1>2. /\ IsList(created) /\ Once(created) /\ ToldApart(created)
      /\ ToSet(created) = {t \in ToSet(b.tables) : ~Has(a.tables, t.name)}
      /\ IsList(removed) /\ Once(removed) /\ ToldApart(removed)
      /\ ToSet(removed) = {t \in ToSet(a.tables) : ~Has(b.tables, t.name)}
      /\ IsList(kept) /\ Once(kept) /\ ToldApart(kept)
      /\ ToSet(kept) = {t \in ToSet(b.tables) : Has(a.tables, t.name)}
  <2>1. PICK old : old = a.tables
    OBVIOUS
  <2>2. PICK new : new = b.tables
    OBVIOUS
  <2>3. /\ IsList(old) /\ Once(old) /\ ToldApart(old)
        /\ IsList(new) /\ Once(new) /\ ToldApart(new)
    BY <2>1, <2>2, ToldOnce DEF Holdable
  <2>4. /\ IsList(Absent(new, old)) /\ Once(Absent(new, old))
        /\ ToSet(Absent(new, old)) = {t \in ToSet(new) : ~Has(old, t.name)}
        /\ IsList(Absent(old, new)) /\ Once(Absent(old, new))
        /\ ToSet(Absent(old, new)) = {t \in ToSet(old) : ~Has(new, t.name)}
    BY <2>3, AbsentFacts, OnceTaken
  <2>5. /\ IsList(Kept(a, b)) /\ Once(Kept(a, b))
        /\ ToSet(Kept(a, b)) = {t \in ToSet(new) : Has(old, t.name)}
    BY <2>1, <2>2, <2>3, KeptFacts, OnceKept
  <2>6. /\ ToldApart(Absent(new, old)) /\ ToldApart(Absent(old, new))
        /\ ToldApart(Kept(a, b))
    BY <2>3, <2>4, <2>5 DEF ToldApart
  <2> QED
    BY <2>1, <2>2, <2>4, <2>5, <2>6 DEF Created, Removed
<1>3. ASSUME NEW list, NEW i \in DOMAIN list PROVE list[i] \in ToSet(list)
  BY Zenon DEF ToSet
<1>4. Diff(a, b) =
         ensured \o viewsGone \o Each(kept, keptTriggersGone)
         \o Each(kept, keptKeysGone) \o Each(removed, oldKeys)
         \o Each(kept, keptChecksGone) \o Each(kept, keptIndexesGone)
         \o Each(removed, oldIndexes) \o Each(created, newTables)
         \o Each(kept, keptColumns) \o Each(created, newKeys) \o Each(kept, keptKeys)
         \o Each(kept, keptChecks) \o functions \o Each(created, newIndexes)
         \o Each(kept, keptIndexes) \o Each(created, newTriggers)
         \o Each(kept, keptTriggers) \o Each(kept, keptRebuilds)
         \o Each(created, newSeed) \o Each(kept, keptSeed) \o raw \o views
         \o Each(removed, oldTables) \o functionsGone
  BY <1>3 DEF Diff, PerTable, Each
<1>5. ASSUME NEW t \in ToSet(kept)
      PROVE  /\ IsFor(keptTriggersGone[t], {"drop_trigger"}, t.name)
             /\ IsFor(keptKeysGone[t], {"drop_fk"}, t.name)
             /\ IsFor(keptChecksGone[t], {"drop_check"}, t.name)
             /\ IsFor(keptIndexesGone[t], {"drop_index"}, t.name)
             /\ IsFor(keptColumns[t], ColumnKinds, t.name)
             /\ IsFor(keptKeys[t], {"add_fk"}, t.name)
             /\ IsFor(keptChecks[t], {"add_check"}, t.name)
             /\ IsFor(keptIndexes[t], {"create_index"}, t.name)
             /\ IsFor(keptTriggers[t], {"create_trigger"}, t.name)
             /\ IsFor(keptRebuilds[t], {"rebuild_table"}, t.name)
             /\ IsFor(keptSeed[t], RowKinds, t.name)
  <2>1. PICK old : old = Old(t)
    OBVIOUS
  <2>2. /\ keptTriggersGone[t] = DropsOf("drop_trigger", t.name, t.triggers, old.triggers)
        /\ keptKeysGone[t] = DropsOf("drop_fk", t.name, t.fks, old.fks)
        /\ keptChecksGone[t] = DropsOf("drop_check", t.name, t.checks, old.checks)
        /\ keptIndexesGone[t] = Ops("drop_index", t.name, Absent(old.indexes, t.indexes))
        /\ keptColumns[t] = DiffColumns(old, t)
        /\ keptKeys[t] = AddsOf("add_fk", t.name, t.fks, old.fks)
        /\ keptChecks[t] = AddsOf("add_check", t.name, t.checks, old.checks)
        /\ keptIndexes[t] = Ops("create_index", t.name, Absent(t.indexes, old.indexes))
        /\ keptTriggers[t] = AddsOf("create_trigger", t.name, t.triggers, old.triggers)
        /\ keptRebuilds[t] = Rebuild(old, t)
        /\ keptSeed[t] = DiffSeedData(old, t)
    BY <2>1
  <2>3. old \in ToSet(a.tables)
    BY <1>1, <1>2, <2>1, FindFacts DEF IsModel
  <2>4. /\ IsTable(old) /\ IsTable(t) /\ HoldableTable(old) /\ HoldableTable(t)
        /\ old.seed = <<>> /\ t.seed = <<>>
    BY <1>2, <2>3, HoldableIsModel DEF Unseeded
  <2> HIDE DEF Old, kept, created, removed, keptTriggersGone, keptKeysGone, keptChecksGone,
           keptIndexesGone, keptColumns, keptKeys, keptChecks, keptIndexes, keptTriggers,
           keptRebuilds, keptSeed
  <2> QED
    BY <2>2, <2>4, KeptOnce
<1>6. ASSUME NEW t \in ToSet(created)
      PROVE  /\ IsFor(newTables[t], {"create_table"}, t.name)
             /\ IsFor(newKeys[t], {"add_fk"}, t.name)
             /\ IsFor(newIndexes[t], {"create_index"}, t.name)
             /\ IsFor(newTriggers[t], {"create_trigger"}, t.name)
             /\ IsFor(newSeed[t], {"insert_data"}, t.name)
  <2>1. HoldableTable(t) /\ t.seed = <<>>
    BY <1>2, HoldableIsModel DEF Unseeded
  <2> QED
    BY <2>1, CreatedOnce
<1>7. ASSUME NEW t \in ToSet(removed)
      PROVE  /\ IsFor(oldKeys[t], {"drop_fk"}, t.name)
             /\ IsFor(oldIndexes[t], {"drop_index"}, t.name)
             /\ IsFor(oldTables[t], {"drop_table"}, t.name)
  <2>1. HoldableTable(t) /\ t.seed = <<>>
    BY <1>2, HoldableIsModel DEF Unseeded
  <2> QED
    BY <2>1, CreatedOnce
<1>8. /\ IsFor(ensured, {"ensure_extension"}, Everywhere)
      /\ IsFor(viewsGone, {"drop_view"}, Everywhere)
      /\ IsFor(functions, {"create_function"}, Everywhere)
      /\ IsFor(raw, {"raw_sql"}, Everywhere)
      /\ IsFor(views, {"create_view"}, Everywhere)
      /\ IsFor(functionsGone, {"drop_function"}, Everywhere)
  <2>1. /\ TellsApart(a.views) /\ TellsApart(b.views) /\ TellsApart(a.functions)
        /\ TellsApart(b.functions) /\ TellsApart(a.raw) /\ TellsApart(b.raw)
    BY DEF Holdable
  <2>2. ensured = Ops("ensure_extension", Everywhere, extensions)
    BY DEF Ops, Everywhere
  <2>3. IsFiniteSet(WantedExtensions(b) \ WantedExtensions(a))
    <3>1. IsFiniteSet(b.extensions) /\ IsFiniteSet({"vector"}) /\ IsFiniteSet({})
      BY FS_Singleton, FS_EmptySet DEF Holdable
    <3>2. IsFiniteSet(b.extensions \cup {"vector"})
      BY <3>1, FS_Union
    <3>3. WantedExtensions(b) \ WantedExtensions(a) \subseteq b.extensions \cup {"vector"}
      BY DEF WantedExtensions
    <3> QED
      BY <3>2, <3>3, FS_Subset
  <2>4. IsList(extensions) /\ Once(extensions)
    BY <2>3, SetToSeqFacts, OnceListed
  <2>5. /\ viewsGone = DropsOf("drop_view", Everywhere, b.views, a.views)
        /\ functions = AddsOf("create_function", Everywhere, b.functions, a.functions)
        /\ raw = Ops("raw_sql", Everywhere, Absent(b.raw, a.raw))
        /\ views = AddsOf("create_view", Everywhere, b.views, a.views)
        /\ functionsGone = Ops("drop_function", Everywhere, Absent(a.functions, b.functions))
    BY DEF Everywhere
  <2> HIDE DEF extensions, ensured, viewsGone, functions, raw, views, functionsGone
  <2>6. IsFor(ensured, {"ensure_extension"}, Everywhere)
    <3>1. Once(ensured)
      BY <2>2, <2>4, OnceOps
    <3>2. IsList(ensured) /\ \A op \in ToSet(ensured) :
                                IsOneOf(op, "ensure_extension", Everywhere, extensions)
      BY <2>2, <2>4, AddsHold
    <3> QED
      BY <3>1, <3>2 DEF IsFor, IsOneOf, Operation
  <2> QED
    BY <2>1, <2>5, <2>6, MadeOnce
<1> HIDE DEF Old, created, kept, removed, extensions, ensured,
           viewsGone, keptTriggersGone, keptKeysGone, oldKeys, keptChecksGone, keptIndexesGone,
           oldIndexes, newTables, keptColumns, newKeys, keptKeys, keptChecks,
           functions, newIndexes, keptIndexes, newTriggers, keptTriggers, keptRebuilds,
           newSeed, keptSeed, raw, views, oldTables, functionsGone
<1>9. /\ \A t \in ToSet(kept) : Has(a.tables, t.name) /\ Has(b.tables, t.name)
      /\ \A t \in ToSet(created) : ~Has(a.tables, t.name) /\ Has(b.tables, t.name)
      /\ \A t \in ToSet(removed) : Has(a.tables, t.name) /\ ~Has(b.tables, t.name)
  <2>1. \A list : \A t \in ToSet(list) : Has(list, t.name)
    BY DEF Has, Names
  <2> QED
    BY <1>2, <2>1
<1>10. PlacedAt(Each(kept, keptTriggersGone), 6, a, b)
  <2> DEFINE kinds == {"drop_trigger"}
  <2>1. /\ \A t \in ToSet(kept) : IsFor(keptTriggersGone[t], kinds, t.name)
        /\ \A op : op.kind \in kinds => StageOf(op) = 3
    BY <1>5, StageByKind
  <2>2. \A t \in ToSet(kept) : Place(3, t.name, a, b) = 6
    BY <1>9 DEF Place, IsSecond
  <2> HIDE DEF kinds
  <2> QED
    BY <1>2, <2>1, <2>2, EachPlaced
<1>11. PlacedAt(Each(kept, keptKeysGone), 8, a, b)
  <2> DEFINE kinds == {"drop_fk"}
  <2>1. /\ \A t \in ToSet(kept) : IsFor(keptKeysGone[t], kinds, t.name)
        /\ \A op : op.kind \in kinds => StageOf(op) = 4
    BY <1>5, StageByKind
  <2>2. \A t \in ToSet(kept) : Place(4, t.name, a, b) = 8
    BY <1>9 DEF Place, IsSecond
  <2> HIDE DEF kinds
  <2> QED
    BY <1>2, <2>1, <2>2, EachPlaced
<1>12. PlacedAt(Each(removed, oldKeys), 9, a, b)
  <2> DEFINE kinds == {"drop_fk"}
  <2>1. /\ \A t \in ToSet(removed) : IsFor(oldKeys[t], kinds, t.name)
        /\ \A op : op.kind \in kinds => StageOf(op) = 4
    BY <1>7, StageByKind
  <2>2. \A t \in ToSet(removed) : Place(4, t.name, a, b) = 9
    BY <1>9 DEF Place, IsSecond
  <2> HIDE DEF kinds
  <2> QED
    BY <1>2, <2>1, <2>2, EachPlaced
<1>13. PlacedAt(Each(kept, keptChecksGone), 10, a, b)
  <2> DEFINE kinds == {"drop_check"}
  <2>1. /\ \A t \in ToSet(kept) : IsFor(keptChecksGone[t], kinds, t.name)
        /\ \A op : op.kind \in kinds => StageOf(op) = 5
    BY <1>5, StageByKind
  <2>2. \A t \in ToSet(kept) : Place(5, t.name, a, b) = 10
    BY <1>9 DEF Place, IsSecond
  <2> HIDE DEF kinds
  <2> QED
    BY <1>2, <2>1, <2>2, EachPlaced
<1>14. PlacedAt(Each(kept, keptIndexesGone), 12, a, b)
  <2> DEFINE kinds == {"drop_index"}
  <2>1. /\ \A t \in ToSet(kept) : IsFor(keptIndexesGone[t], kinds, t.name)
        /\ \A op : op.kind \in kinds => StageOf(op) = 6
    BY <1>5, StageByKind
  <2>2. \A t \in ToSet(kept) : Place(6, t.name, a, b) = 12
    BY <1>9 DEF Place, IsSecond
  <2> HIDE DEF kinds
  <2> QED
    BY <1>2, <2>1, <2>2, EachPlaced
<1>15. PlacedAt(Each(removed, oldIndexes), 13, a, b)
  <2> DEFINE kinds == {"drop_index"}
  <2>1. /\ \A t \in ToSet(removed) : IsFor(oldIndexes[t], kinds, t.name)
        /\ \A op : op.kind \in kinds => StageOf(op) = 6
    BY <1>7, StageByKind
  <2>2. \A t \in ToSet(removed) : Place(6, t.name, a, b) = 13
    BY <1>9 DEF Place, IsSecond
  <2> HIDE DEF kinds
  <2> QED
    BY <1>2, <2>1, <2>2, EachPlaced
<1>16. PlacedAt(Each(created, newTables), 14, a, b)
  <2> DEFINE kinds == {"create_table"}
  <2>1. /\ \A t \in ToSet(created) : IsFor(newTables[t], kinds, t.name)
        /\ \A op : op.kind \in kinds => StageOf(op) = 7
    BY <1>6, StageByKind
  <2>2. \A t \in ToSet(created) : Place(7, t.name, a, b) = 14
    BY <1>9 DEF Place, IsSecond
  <2> HIDE DEF kinds
  <2> QED
    BY <1>2, <2>1, <2>2, EachPlaced
<1>17. PlacedAt(Each(kept, keptColumns), 16, a, b)
  <2> DEFINE kinds == ColumnKinds
  <2>1. /\ \A t \in ToSet(kept) : IsFor(keptColumns[t], kinds, t.name)
        /\ \A op : op.kind \in kinds => StageOf(op) = 8
    BY <1>5, StageByKind DEF ColumnKinds
  <2>2. \A t \in ToSet(kept) : Place(8, t.name, a, b) = 16
    BY <1>9 DEF Place, IsSecond
  <2> HIDE DEF kinds
  <2> QED
    BY <1>2, <2>1, <2>2, EachPlaced
<1>18. PlacedAt(Each(created, newKeys), 18, a, b)
  <2> DEFINE kinds == {"add_fk"}
  <2>1. /\ \A t \in ToSet(created) : IsFor(newKeys[t], kinds, t.name)
        /\ \A op : op.kind \in kinds => StageOf(op) = 9
    BY <1>6, StageByKind
  <2>2. \A t \in ToSet(created) : Place(9, t.name, a, b) = 18
    BY <1>9 DEF Place, IsSecond
  <2> HIDE DEF kinds
  <2> QED
    BY <1>2, <2>1, <2>2, EachPlaced
<1>19. PlacedAt(Each(kept, keptKeys), 19, a, b)
  <2> DEFINE kinds == {"add_fk"}
  <2>1. /\ \A t \in ToSet(kept) : IsFor(keptKeys[t], kinds, t.name)
        /\ \A op : op.kind \in kinds => StageOf(op) = 9
    BY <1>5, StageByKind
  <2>2. \A t \in ToSet(kept) : Place(9, t.name, a, b) = 19
    BY <1>9 DEF Place, IsSecond
  <2> HIDE DEF kinds
  <2> QED
    BY <1>2, <2>1, <2>2, EachPlaced
<1>20. PlacedAt(Each(kept, keptChecks), 20, a, b)
  <2> DEFINE kinds == {"add_check"}
  <2>1. /\ \A t \in ToSet(kept) : IsFor(keptChecks[t], kinds, t.name)
        /\ \A op : op.kind \in kinds => StageOf(op) = 10
    BY <1>5, StageByKind
  <2>2. \A t \in ToSet(kept) : Place(10, t.name, a, b) = 20
    BY <1>9 DEF Place, IsSecond
  <2> HIDE DEF kinds
  <2> QED
    BY <1>2, <2>1, <2>2, EachPlaced
<1>21. PlacedAt(Each(created, newIndexes), 24, a, b)
  <2> DEFINE kinds == {"create_index"}
  <2>1. /\ \A t \in ToSet(created) : IsFor(newIndexes[t], kinds, t.name)
        /\ \A op : op.kind \in kinds => StageOf(op) = 12
    BY <1>6, StageByKind
  <2>2. \A t \in ToSet(created) : Place(12, t.name, a, b) = 24
    BY <1>9 DEF Place, IsSecond
  <2> HIDE DEF kinds
  <2> QED
    BY <1>2, <2>1, <2>2, EachPlaced
<1>22. PlacedAt(Each(kept, keptIndexes), 25, a, b)
  <2> DEFINE kinds == {"create_index"}
  <2>1. /\ \A t \in ToSet(kept) : IsFor(keptIndexes[t], kinds, t.name)
        /\ \A op : op.kind \in kinds => StageOf(op) = 12
    BY <1>5, StageByKind
  <2>2. \A t \in ToSet(kept) : Place(12, t.name, a, b) = 25
    BY <1>9 DEF Place, IsSecond
  <2> HIDE DEF kinds
  <2> QED
    BY <1>2, <2>1, <2>2, EachPlaced
<1>23. PlacedAt(Each(created, newTriggers), 26, a, b)
  <2> DEFINE kinds == {"create_trigger"}
  <2>1. /\ \A t \in ToSet(created) : IsFor(newTriggers[t], kinds, t.name)
        /\ \A op : op.kind \in kinds => StageOf(op) = 13
    BY <1>6, StageByKind
  <2>2. \A t \in ToSet(created) : Place(13, t.name, a, b) = 26
    BY <1>9 DEF Place, IsSecond
  <2> HIDE DEF kinds
  <2> QED
    BY <1>2, <2>1, <2>2, EachPlaced
<1>24. PlacedAt(Each(kept, keptTriggers), 27, a, b)
  <2> DEFINE kinds == {"create_trigger"}
  <2>1. /\ \A t \in ToSet(kept) : IsFor(keptTriggers[t], kinds, t.name)
        /\ \A op : op.kind \in kinds => StageOf(op) = 13
    BY <1>5, StageByKind
  <2>2. \A t \in ToSet(kept) : Place(13, t.name, a, b) = 27
    BY <1>9 DEF Place, IsSecond
  <2> HIDE DEF kinds
  <2> QED
    BY <1>2, <2>1, <2>2, EachPlaced
<1>25. PlacedAt(Each(kept, keptRebuilds), 28, a, b)
  <2> DEFINE kinds == {"rebuild_table"}
  <2>1. /\ \A t \in ToSet(kept) : IsFor(keptRebuilds[t], kinds, t.name)
        /\ \A op : op.kind \in kinds => StageOf(op) = 14
    BY <1>5, StageByKind
  <2>2. \A t \in ToSet(kept) : Place(14, t.name, a, b) = 28
    BY <1>9 DEF Place, IsSecond
  <2> HIDE DEF kinds
  <2> QED
    BY <1>2, <2>1, <2>2, EachPlaced
<1>26. PlacedAt(Each(created, newSeed), 30, a, b)
  <2> DEFINE kinds == {"insert_data"}
  <2>1. /\ \A t \in ToSet(created) : IsFor(newSeed[t], kinds, t.name)
        /\ \A op : op.kind \in kinds => StageOf(op) = 15
    BY <1>6, StageByKind DEF RowKinds
  <2>2. \A t \in ToSet(created) : Place(15, t.name, a, b) = 30
    BY <1>9 DEF Place, IsSecond
  <2> HIDE DEF kinds
  <2> QED
    BY <1>2, <2>1, <2>2, EachPlaced
<1>27. PlacedAt(Each(kept, keptSeed), 31, a, b)
  <2> DEFINE kinds == RowKinds
  <2>1. /\ \A t \in ToSet(kept) : IsFor(keptSeed[t], kinds, t.name)
        /\ \A op : op.kind \in kinds => StageOf(op) = 15
    BY <1>5, StageByKind DEF RowKinds
  <2>2. \A t \in ToSet(kept) : Place(15, t.name, a, b) = 31
    BY <1>9 DEF Place, IsSecond
  <2> HIDE DEF kinds
  <2> QED
    BY <1>2, <2>1, <2>2, EachPlaced
<1>28. PlacedAt(Each(removed, oldTables), 36, a, b)
  <2> DEFINE kinds == {"drop_table"}
  <2>1. /\ \A t \in ToSet(removed) : IsFor(oldTables[t], kinds, t.name)
        /\ \A op : op.kind \in kinds => StageOf(op) = 18
    BY <1>7, StageByKind
  <2>2. \A t \in ToSet(removed) : Place(18, t.name, a, b) = 36
    BY <1>9 DEF Place, IsSecond
  <2> HIDE DEF kinds
  <2> QED
    BY <1>2, <2>1, <2>2, EachPlaced
<1>29. PlacedAt(ensured, 2, a, b)
  <2> DEFINE kinds == {"ensure_extension"}
  <2>1. IsFor(ensured, kinds, Everywhere) /\ \A op : op.kind \in kinds => StageOf(op) = 1
    BY <1>8, StageByKind
  <2> HIDE DEF kinds
  <2> QED
    BY <2>1, DatabasePlaced
<1>30. PlacedAt(viewsGone, 4, a, b)
  <2> DEFINE kinds == {"drop_view"}
  <2>1. IsFor(viewsGone, kinds, Everywhere) /\ \A op : op.kind \in kinds => StageOf(op) = 2
    BY <1>8, StageByKind
  <2> HIDE DEF kinds
  <2> QED
    BY <2>1, DatabasePlaced
<1>31. PlacedAt(functions, 22, a, b)
  <2> DEFINE kinds == {"create_function"}
  <2>1. IsFor(functions, kinds, Everywhere) /\ \A op : op.kind \in kinds => StageOf(op) = 11
    BY <1>8, StageByKind
  <2> HIDE DEF kinds
  <2> QED
    BY <2>1, DatabasePlaced
<1>32. PlacedAt(raw, 32, a, b)
  <2> DEFINE kinds == {"raw_sql"}
  <2>1. IsFor(raw, kinds, Everywhere) /\ \A op : op.kind \in kinds => StageOf(op) = 16
    BY <1>8, StageByKind
  <2> HIDE DEF kinds
  <2> QED
    BY <2>1, DatabasePlaced
<1>33. PlacedAt(views, 34, a, b)
  <2> DEFINE kinds == {"create_view"}
  <2>1. IsFor(views, kinds, Everywhere) /\ \A op : op.kind \in kinds => StageOf(op) = 17
    BY <1>8, StageByKind
  <2> HIDE DEF kinds
  <2> QED
    BY <2>1, DatabasePlaced
<1>34. PlacedAt(functionsGone, 38, a, b)
  <2> DEFINE kinds == {"drop_function"}
  <2>1. IsFor(functionsGone, kinds, Everywhere) /\ \A op : op.kind \in kinds => StageOf(op) = 19
    BY <1>8, StageByKind
  <2> HIDE DEF kinds
  <2> QED
    BY <2>1, DatabasePlaced
<1>35. PlacedUpTo(ensured, 2, a, b)
  BY <1>29 DEF PlacedUpTo, PlacedAt
<1>36. PICK p2 : p2 = ensured \o viewsGone
  OBVIOUS
<1>37. PlacedUpTo(p2, 4, a, b)
  BY <1>30, <1>35, <1>36, NextPlace
<1>38. PICK p3 : p3 = p2 \o Each(kept, keptTriggersGone)
  OBVIOUS
<1>39. PlacedUpTo(p3, 6, a, b)
  BY <1>10, <1>37, <1>38, NextPlace
<1>40. PICK p4 : p4 = p3 \o Each(kept, keptKeysGone)
  OBVIOUS
<1>41. PlacedUpTo(p4, 8, a, b)
  BY <1>11, <1>39, <1>40, NextPlace
<1>42. PICK p5 : p5 = p4 \o Each(removed, oldKeys)
  OBVIOUS
<1>43. PlacedUpTo(p5, 9, a, b)
  BY <1>12, <1>41, <1>42, NextPlace
<1>44. PICK p6 : p6 = p5 \o Each(kept, keptChecksGone)
  OBVIOUS
<1>45. PlacedUpTo(p6, 10, a, b)
  BY <1>13, <1>43, <1>44, NextPlace
<1>46. PICK p7 : p7 = p6 \o Each(kept, keptIndexesGone)
  OBVIOUS
<1>47. PlacedUpTo(p7, 12, a, b)
  BY <1>14, <1>45, <1>46, NextPlace
<1>48. PICK p8 : p8 = p7 \o Each(removed, oldIndexes)
  OBVIOUS
<1>49. PlacedUpTo(p8, 13, a, b)
  BY <1>15, <1>47, <1>48, NextPlace
<1>50. PICK p9 : p9 = p8 \o Each(created, newTables)
  OBVIOUS
<1>51. PlacedUpTo(p9, 14, a, b)
  BY <1>16, <1>49, <1>50, NextPlace
<1>52. PICK p10 : p10 = p9 \o Each(kept, keptColumns)
  OBVIOUS
<1>53. PlacedUpTo(p10, 16, a, b)
  BY <1>17, <1>51, <1>52, NextPlace
<1>54. PICK p11 : p11 = p10 \o Each(created, newKeys)
  OBVIOUS
<1>55. PlacedUpTo(p11, 18, a, b)
  BY <1>18, <1>53, <1>54, NextPlace
<1>56. PICK p12 : p12 = p11 \o Each(kept, keptKeys)
  OBVIOUS
<1>57. PlacedUpTo(p12, 19, a, b)
  BY <1>19, <1>55, <1>56, NextPlace
<1>58. PICK p13 : p13 = p12 \o Each(kept, keptChecks)
  OBVIOUS
<1>59. PlacedUpTo(p13, 20, a, b)
  BY <1>20, <1>57, <1>58, NextPlace
<1>60. PICK p14 : p14 = p13 \o functions
  OBVIOUS
<1>61. PlacedUpTo(p14, 22, a, b)
  BY <1>31, <1>59, <1>60, NextPlace
<1>62. PICK p15 : p15 = p14 \o Each(created, newIndexes)
  OBVIOUS
<1>63. PlacedUpTo(p15, 24, a, b)
  BY <1>21, <1>61, <1>62, NextPlace
<1>64. PICK p16 : p16 = p15 \o Each(kept, keptIndexes)
  OBVIOUS
<1>65. PlacedUpTo(p16, 25, a, b)
  BY <1>22, <1>63, <1>64, NextPlace
<1>66. PICK p17 : p17 = p16 \o Each(created, newTriggers)
  OBVIOUS
<1>67. PlacedUpTo(p17, 26, a, b)
  BY <1>23, <1>65, <1>66, NextPlace
<1>68. PICK p18 : p18 = p17 \o Each(kept, keptTriggers)
  OBVIOUS
<1>69. PlacedUpTo(p18, 27, a, b)
  BY <1>24, <1>67, <1>68, NextPlace
<1>70. PICK p19 : p19 = p18 \o Each(kept, keptRebuilds)
  OBVIOUS
<1>71. PlacedUpTo(p19, 28, a, b)
  BY <1>25, <1>69, <1>70, NextPlace
<1>72. PICK p20 : p20 = p19 \o Each(created, newSeed)
  OBVIOUS
<1>73. PlacedUpTo(p20, 30, a, b)
  BY <1>26, <1>71, <1>72, NextPlace
<1>74. PICK p21 : p21 = p20 \o Each(kept, keptSeed)
  OBVIOUS
<1>75. PlacedUpTo(p21, 31, a, b)
  BY <1>27, <1>73, <1>74, NextPlace
<1>76. PICK p22 : p22 = p21 \o raw
  OBVIOUS
<1>77. PlacedUpTo(p22, 32, a, b)
  BY <1>32, <1>75, <1>76, NextPlace
<1>78. PICK p23 : p23 = p22 \o views
  OBVIOUS
<1>79. PlacedUpTo(p23, 34, a, b)
  BY <1>33, <1>77, <1>78, NextPlace
<1>80. PICK p24 : p24 = p23 \o Each(removed, oldTables)
  OBVIOUS
<1>81. PlacedUpTo(p24, 36, a, b)
  BY <1>28, <1>79, <1>80, NextPlace
<1>82. PICK p25 : p25 = p24 \o functionsGone
  OBVIOUS
<1>83. PlacedUpTo(p25, 38, a, b)
  BY <1>34, <1>81, <1>82, NextPlace
<1>84. Diff(a, b) = p25
  BY <1>4, <1>36, <1>38, <1>40, <1>42, <1>44, <1>46, <1>48, <1>50, <1>52, <1>54, <1>56,
     <1>58, <1>60, <1>62, <1>64, <1>66, <1>68, <1>70, <1>72, <1>74, <1>76, <1>78, <1>80,
     <1>82
<1> QED
  BY <1>83, <1>84 DEF PlacedUpTo

-----------------------------------------------------------------------------
(* What an operation finds in its list *)

(* The operations D of E are done, and op is not. *)
NotYet(D, E, op) == D \subseteq E /\ op \in E /\ op \notin D

(* All operations of these kinds on n are done. *)
AllDone(D, E, n, kinds) == OfKind(E, n, kinds) \subseteq D

(* What a redefined list drops is there: what has that name is dropped by this *)
(* operation only, and nothing has been put yet.                             *)
LEMMA DroppedIsThere ==
    ASSUME NEW old, NEW new, TellsApart(old), TellsApart(new), NEW D, NEW E, NEW op,
           NotYet(D, E, op), NEW n, op.table = n, NEW drop, op.kind = drop,
           NEW drops, drops = {drop}, NEW puts,
           DropsRedefined(E, n, drops, old, new), OfKind(D, n, puts) = {}
    PROVE  In(Left(ToSet(old), D, n, drops, puts), op.arg.name)
<1> DEFINE X == ToSet(old)
           Y == ToSet(new)
           Goes(z) == \/ z \in Y /\ Has(old, z.name) /\ Find(old, z.name) # z
                      \/ z \in X /\ ~Has(new, z.name)
<1>1. ASSUME NEW o \in E, o.table = n, o.kind = drop
      PROVE  \E z : o = Operation(drop, n, z) /\ Goes(z)
  BY <1>1 DEF DropsRedefined, IsDrop
<1>2. PICK x : op = Operation(drop, n, x) /\ Goes(x)
  BY <1>1 DEF NotYet
<1>3. op.arg = x
  BY <1>2 DEF Operation
<1>4. PICK y \in X : y.name = x.name
  BY <1>2 DEF Has, Names
<1>5. ASSUME NEW o \in OfKind(D, n, drops \cup puts) PROVE o.arg.name # y.name
  <2>1. o \in D /\ o \in E /\ o.table = n /\ o.kind = drop
    BY DEF OfKind, NotYet
  <2>2. PICK z : o = Operation(drop, n, z) /\ Goes(z)
    BY <1>1, <2>1
  <2>3. o.arg = z
    BY <2>2 DEF Operation
  <2>4. z # x
    BY <1>2, <2>1, <2>2 DEF NotYet
  <2>5. z.name # x.name
    BY <1>2, <2>2, <2>4, NotIn DEF Has, Names
  <2> QED
    BY <1>4, <2>3, <2>5
<1>6. y \in Left(X, D, n, drops, puts)
  BY <1>5 DEF Left
<1> QED
  BY <1>3, <1>4, <1>6 DEF In

(* What a redefined list adds is not there: it was dropped, if it was.        *)
LEMMA AddedIsNotThere ==
    ASSUME NEW old, NEW new, TellsApart(old), TellsApart(new), NEW D, NEW E, NEW op,
           NotYet(D, E, op), NEW n, op.table = n, NEW put, op.kind = put,
           NEW drop, NEW drops, drop \in drops, NEW puts, puts = {put},
           DropsRedefined(E, n, drops, old, new), AddsRedefined(E, n, puts, old, new),
           AllDone(D, E, n, drops)
    PROVE  ~In(Left(ToSet(old), D, n, drops, puts), op.arg.name)
<1> DEFINE X == ToSet(old)
           Y == ToSet(new)
<1>1. ASSUME NEW o \in E, o.table = n, o.kind = put
      PROVE  \E z \in Y : o = Operation(put, n, z) /\ (~Has(old, z.name) \/ Find(old, z.name) # z)
  BY <1>1 DEF AddsRedefined, IsAdd
<1>2. PICK x \in Y : op = Operation(put, n, x) /\ (~Has(old, x.name) \/ Find(old, x.name) # x)
  BY <1>1 DEF NotYet
<1>3. op.arg = x
  BY <1>2 DEF Operation
<1>4. ASSUME NEW z \in X, z.name = x.name,
             \A o \in OfKind(D, n, drops \cup puts) : o.arg.name # z.name
      PROVE  FALSE
  <2>1. Has(old, x.name) /\ Find(old, x.name) # x
    BY <1>2, <1>4 DEF Has, Names
  <2>2. PICK o : o = Operation(drop, n, x)
    OBVIOUS
  <2>3. o.kind = drop /\ o.table = n /\ o.arg = x
    BY <2>2 DEF Operation
  <2>4. IsDrop(o, drop, n, new, old)
    BY <2>1, <2>2 DEF IsDrop
  <2>5. o \in E
    BY <2>3, <2>4 DEF DropsRedefined
  <2>6. o \in OfKind(D, n, drops \cup puts)
    BY <2>3, <2>5 DEF AllDone, OfKind
  <2> QED
    BY <1>4, <2>3, <2>6
<1>5. ASSUME NEW o \in OfKind(D, n, puts), o.arg.name = x.name PROVE FALSE
  <2>1. o \in D /\ o \in E /\ o.table = n /\ o.kind = put
    BY DEF OfKind, NotYet
  <2>2. PICK z \in Y : o = Operation(put, n, z)
    BY <1>1, <2>1
  <2>3. o.arg = z
    BY <2>2 DEF Operation
  <2>4. z = x
    BY <1>5, <2>3, ToldByName
  <2> QED
    BY <1>2, <2>1, <2>2, <2>4 DEF NotYet
<1>6. ASSUME NEW z \in Left(X, D, n, drops, puts), z.name = x.name PROVE FALSE
  <2>1. CASE z \in Came(D, n, puts)
    BY <1>5, <1>6, <2>1 DEF Came
  <2>2. CASE z \notin Came(D, n, puts)
    BY <1>4, <1>6, <2>2 DEF Left
  <2> QED
    BY <2>1, <2>2
<1> QED
  BY <1>3, <1>6 DEF In

(* Columns and indexes, of which none is dropped that comes back: what goes is *)
(* still there, as it was, *)
LEMMA MissingIsThere ==
    ASSUME NEW old, NEW new, TellsApart(old), TellsApart(new), NEW D, NEW E, NEW op,
           NotYet(D, E, op), NEW n, op.table = n, NEW drop, op.kind = drop,
           NEW drops, drops = {drop}, NEW puts,
           DropsMissing(E, n, drops, old, new),
           \A o \in OfKind(E, n, puts) : o.arg \in ToSet(new)
    PROVE  /\ op.arg \in ToSet(old) /\ ~Has(new, op.arg.name)
           /\ op.arg \in Left(ToSet(old), D, n, drops, puts)
<1>1. ASSUME NEW o \in E, o.table = n, o.kind = drop
      PROVE  \E z \in ToSet(old) : o = Operation(drop, n, z) /\ ~Has(new, z.name)
  BY <1>1 DEF DropsMissing, IsMissing
<1>2. PICK x \in ToSet(old) : op = Operation(drop, n, x) /\ ~Has(new, x.name)
  BY <1>1 DEF NotYet
<1>3. op.arg = x
  BY <1>2 DEF Operation
<1>4. ASSUME NEW o \in OfKind(D, n, drops \cup puts), o.arg.name = x.name PROVE FALSE
  <2>1. o \in D /\ o \in E /\ o.table = n
    BY DEF OfKind, NotYet
  <2>2. CASE o.kind = drop
    <3>1. PICK z \in ToSet(old) : o = Operation(drop, n, z)
      BY <1>1, <2>1, <2>2
    <3>2. o.arg = z
      BY <3>1 DEF Operation
    <3>3. z = x
      BY <1>4, <3>2, ToldByName
    <3> QED
      BY <1>2, <2>1, <3>1, <3>3 DEF NotYet
  <2>3. CASE o.kind # drop
    <3>1. o \in OfKind(E, n, puts)
      BY <2>1, <2>3 DEF OfKind
    <3> QED
      BY <1>2, <1>4, <3>1 DEF Has, Names
  <2> QED
    BY <2>2, <2>3
<1>5. x \in Left(ToSet(old), D, n, drops, puts)
  BY <1>4 DEF Left
<1> QED
  BY <1>2, <1>3, <1>5

(* and what comes is not there yet. *)
LEMMA MissingIsNotThere ==
    ASSUME NEW old, NEW new, TellsApart(old), TellsApart(new), NEW D, NEW E, NEW op,
           NotYet(D, E, op), NEW n, op.table = n, NEW put, op.kind = put,
           NEW drops, NEW puts,
           \A o \in E : o.table = n /\ o.kind = put => IsMissing(o, put, n, new, old),
           \A o \in OfKind(E, n, puts) : o.kind # put => Has(old, o.arg.name)
    PROVE  /\ op.arg \in ToSet(new)
           /\ ~In(Left(ToSet(old), D, n, drops, puts), op.arg.name)
<1>1. ASSUME NEW o \in E, o.table = n, o.kind = put
      PROVE  \E z \in ToSet(new) : o = Operation(put, n, z) /\ ~Has(old, z.name)
  BY <1>1 DEF IsMissing
<1>2. PICK x \in ToSet(new) : op = Operation(put, n, x) /\ ~Has(old, x.name)
  BY <1>1 DEF NotYet
<1>3. op.arg = x
  BY <1>2 DEF Operation
<1>4. ASSUME NEW o \in OfKind(D, n, puts), o.arg.name = x.name PROVE FALSE
  <2>1. o \in D /\ o \in E /\ o.table = n
    BY DEF OfKind, NotYet
  <2>2. CASE o.kind = put
    <3>1. PICK z \in ToSet(new) : o = Operation(put, n, z)
      BY <1>1, <2>1, <2>2
    <3>2. o.arg = z
      BY <3>1 DEF Operation
    <3>3. z = x
      BY <1>4, <3>2, ToldByName
    <3> QED
      BY <1>2, <2>1, <3>1, <3>3 DEF NotYet
  <2>3. CASE o.kind # put
    <3>1. o \in OfKind(E, n, puts)
      BY <2>1 DEF OfKind
    <3> QED
      BY <1>2, <1>4, <2>3, <3>1
  <2> QED
    BY <2>2, <2>3
<1>5. ASSUME NEW z \in Left(ToSet(old), D, n, drops, puts), z.name = x.name PROVE FALSE
  <2>1. CASE z \in Came(D, n, puts)
    BY <1>4, <1>5, <2>1 DEF Came
  <2>2. CASE z \notin Came(D, n, puts)
    BY <1>2, <1>5, <2>2 DEF Left, Has, Names
  <2> QED
    BY <2>1, <2>2
<1> QED
  BY <1>2, <1>3, <1>5 DEF In

(* When all of a list's operations are done, what is left is what all leave. *)
LEMMA LeftSame ==
    ASSUME NEW D, NEW E, D \subseteq E, NEW n, NEW drops, NEW puts,
           AllDone(D, E, n, drops \cup puts)
    PROVE  \A X : Left(X, D, n, drops, puts) = Left(X, E, n, drops, puts)
<1>1. OfKind(D, n, drops \cup puts) = OfKind(E, n, drops \cup puts)
  BY DEF AllDone, OfKind
<1>2. OfKind(D, n, puts) = OfKind(E, n, puts)
  BY DEF AllDone, OfKind
<1> QED
  BY <1>1, <1>2 DEF Left, Came

-----------------------------------------------------------------------------
(* What the engine takes of a table's operations *)

(* The columns that the new table has not, or has otherwise, by their names. *)
Changes(old, t) ==
   {c.name : c \in {c \in ToSet(old.columns) : c \notin ToSet(t.columns)}}

(* Nothing that stays pins column n: neither a key nor an index on it. *)
NoKeyStays(old, t, n) ==
    n \notin t.pk /\ \A f \in ToSet(old.fks) : f \in ToSet(t.fks) => f.on # n
NoIndexStays(old, t, n) ==
    \A i \in ToSet(old.indexes) : i \in ToSet(t.indexes) => i.on # n

(* Of what the engine refuses, that which is between a table and its views:  *)
(* none takes another type for a key's column (a primary key's might be       *)
(* referred to); Postgres alters no column that a view keeps reading; SQL    *)
(* Server alters and drops none with a default, none of the primary key and  *)
(* alters none with a key or an index; MySQL keeps an index on a foreign     *)
(* key's column; SQLite rebuilds no table that a view keeps reading, and     *)
(* drops no column of the primary key, nor one with a foreign key before it  *)
(* rebuilds.                                                                *)
Taken(e, old, t, views) ==
    /\ e # "sqlite" =>
          \A c \in ToSet(old.columns), x \in ToSet(t.columns) :
             c \notin ToSet(t.columns) /\ x.name = c.name /\ x.type # c.type
                => NoKeyStays(old, t, c.name)
    /\ e = "postgres" =>
          \A v \in views : v.of.table = t.name => v.of.column \notin Changes(old, t)
    /\ e = "sqlserver" =>
          \A c \in ToSet(old.columns) : c \notin ToSet(t.columns) =>
             /\ c.default = "none"
             /\ c.name \notin t.pk
             /\ \A x \in ToSet(t.columns) : x.name = c.name =>
                   x.default = "none" /\ NoIndexStays(old, t, c.name)
    /\ e = "mysql" =>
          \A i \in ToSet(old.indexes) : ~Has(t.indexes, i.name) =>
             \A f \in ToSet(old.fks) : f \in ToSet(t.fks) /\ f.on = i.on =>
                \E j \in ToSet(old.indexes) : j.on = i.on /\ Has(t.indexes, j.name)
    /\ e = "sqlite" =>
          \A c \in ToSet(old.columns) : ~Has(t.columns, c.name) => c.name \notin t.pk
    /\ e = "sqlite" /\ NeedsRebuild(old, t) =>
          /\ \A v \in views : v.of.table # t.name
          /\ \A f \in ToSet(old.fks) : Has(t.columns, f.on)

(* The columns before SQLite's rebuild: added and dropped, not altered. *)
BareColumns(old, t, D) ==
    Left(ToSet(old.columns), D, t.name, {"drop_column"}, {"add_column"})

(* A table on its way that has not been rebuilt. *)
SoFar(old, t, D, u) ==
    /\ u.pk = t.pk
    /\ u.columns = IF engine = "sqlite" THEN BareColumns(old, t, D)
                   ELSE ColumnsLeft(old, t, D)
    /\ u.indexes = IndexesLeft(old, t, D)
    /\ u.fks = FksLeft(engine, old, t, D)
    /\ u.checks = ChecksLeft(engine, old, t, D)
    /\ u.triggers = TriggersLeft(engine, old, t, D)

(* The views read columns that stay. *)
ViewsRead(t, views) ==
    \A v \in views : v.of.table = t.name => Has(t.columns, v.of.column)

(* The next operation is for a table on its way that has no rows, and the     *)
(* views there are read what stays of it.                                   *)
Ready(old, t, D, E, op, d) ==
    /\ engine \in {"postgres", "mysql", "sqlserver", "sqlite"}
    /\ Working(old, t, D, E, op) /\ op \notin D
    /\ IsCatalog(d) /\ RowLess(d.tables) /\ In(d.tables, op.table)
    /\ op.kind # "rebuild_table" => SoFar(old, t, D, Named(d, op))
    /\ ViewsRead(t, d.views) /\ Taken(engine, old, t, d.views)

(* What that says of the table. *)
LEMMA ReadyFacts ==
    ASSUME NEW old, NEW t, NEW D, NEW E, NEW op, NEW d, Ready(old, t, D, E, op, d)
    PROVE  LET u == Named(d, op) IN
           /\ IsTable(old) /\ IsTable(t) /\ HoldableTable(old) /\ HoldableTable(t)
           /\ OpsFor(engine, old, t, E) /\ CarriedTable(engine, old, t)
           /\ NotYet(D, E, op) /\ Staged(D, E, op) /\ op.table = t.name
           /\ IsHeld(u) /\ u \in d.tables /\ u.name = t.name /\ u.rows = {}
           /\ In(d.tables, op.table)
<1>1. IsCatalog(d) /\ RowLess(d.tables) /\ In(d.tables, op.table)
  BY DEF Ready
<1>2. Working(old, t, D, E, op) /\ op \notin D
  BY DEF Ready
<1>3. Named(d, op) \in d.tables /\ Named(d, op).name = op.table
  BY <1>1, Got DEF Named
<1>4. IsHeld(Named(d, op)) /\ Named(d, op).rows = {}
  BY <1>1, <1>3 DEF IsCatalog, RowLess
<1>5. NotYet(D, E, op)
  BY <1>2 DEF NotYet, Working, Staged
<1> QED
  BY <1>1, <1>2, <1>3, <1>4, <1>5 DEF Working

(* What the operations on a table's columns are. *)
LEMMA ColumnOps ==
    ASSUME NEW old, NEW t, NEW E, IsTable(old), IsTable(t), HoldableTable(old),
           HoldableTable(t), OpsFor(engine, old, t, E), NEW drops, drops = {"drop_column"}
    PROVE  /\ DropsMissing(E, t.name, drops, old.columns, t.columns)
           /\ \A o : o.table = t.name /\ o.kind = "add_column" =>
                 (o \in E <=> IsMissing(o, "add_column", t.name, t.columns, old.columns))
           /\ \A o : o.table = t.name /\ o.kind = "alter_column" =>
                 (o \in E <=> IsAlter(o, t.name, t.columns, old.columns))
           /\ \A o \in OfKind(E, t.name, {"add_column", "alter_column"}) :
                 o.arg \in ToSet(t.columns)
           /\ \A o \in OfKind(E, t.name, {"drop_column"}) : ~Has(t.columns, o.arg.name)
<1>1. \A o : o.table = t.name /\ o.kind \in drops =>
         (o \in E <=> IsMissing(o, o.kind, t.name, old.columns, t.columns))
  BY KeptByKind DEF OpsFor, TableKinds
<1>2. \A o : o.table = t.name /\ o.kind = "add_column" =>
         (o \in E <=> IsMissing(o, "add_column", t.name, t.columns, old.columns))
  BY KeptByKind DEF OpsFor, TableKinds
<1>3. \A o : o.table = t.name /\ o.kind = "alter_column" =>
         (o \in E <=> IsAlter(o, t.name, t.columns, old.columns))
  BY KeptByKind DEF OpsFor, TableKinds
<1>4. /\ \A o \in OfKind(E, t.name, {"add_column", "alter_column"}) : o.arg \in ToSet(t.columns)
      /\ \A o \in OfKind(E, t.name, {"drop_column"}) : ~Has(t.columns, o.arg.name)
  BY ColumnsDone
<1> QED
  BY <1>1, <1>2, <1>3, <1>4 DEF DropsMissing

(* An altered column is one that the old table has. *)
LEMMA AlteredIsOld ==
    ASSUME NEW op, NEW n, NEW new, NEW old, IsAlter(op, n, new, old)
    PROVE  /\ op.arg \in ToSet(new) /\ Has(old, op.arg.name) /\ Find(old, op.arg.name) # op.arg
           /\ op = [kind |-> "alter_column", table |-> n, arg |-> op.arg,
                    old |-> Find(old, op.arg.name)]
<1>1. PICK x \in ToSet(new) :
         /\ Has(old, x.name) /\ Find(old, x.name) # x
         /\ op = [kind |-> "alter_column", table |-> n, arg |-> x, old |-> Find(old, x.name)]
  BY DEF IsAlter
<1>2. op.arg = x
  BY <1>1
<1> QED
  BY <1>1, <1>2

(* A column that is added is not there yet. *)
LEMMA AddColumnTaken ==
    ASSUME NEW old, NEW t, NEW D, NEW E, NEW op, NEW d, Ready(old, t, D, E, op, d),
           op.kind = "add_column"
    PROVE  Accepts(d, op)
<1> DEFINE u == Named(d, op)
           n == t.name
           drops == {"drop_column"}
           puts == IF engine = "sqlite" THEN {"add_column"} ELSE {"add_column", "alter_column"}
<1>1. /\ IsTable(old) /\ IsTable(t) /\ HoldableTable(old) /\ HoldableTable(t)
      /\ OpsFor(engine, old, t, E) /\ NotYet(D, E, op) /\ op.table = t.name
      /\ In(d.tables, op.table)
  BY ReadyFacts
<1>2. u.columns = Left(ToSet(old.columns), D, n, drops, puts)
  BY DEF Ready, SoFar, BareColumns, ColumnsLeft
<1>3. \A o \in E : o.table = n /\ o.kind = "add_column" =>
         IsMissing(o, "add_column", n, t.columns, old.columns)
  BY <1>1, ColumnOps
<1>4. ASSUME NEW o \in OfKind(E, n, puts), o.kind # "add_column"
      PROVE  Has(old.columns, o.arg.name)
  <2>1. o \in E /\ o.table = n /\ o.kind = "alter_column"
    BY <1>4 DEF OfKind
  <2>2. IsAlter(o, n, t.columns, old.columns)
    BY <1>1, <2>1, ColumnOps
  <2> QED
    BY <2>2, AlteredIsOld
<1>5. TellsApart(old.columns) /\ TellsApart(t.columns)
  BY <1>1 DEF HoldableTable
<1> HIDE DEF drops, puts, n
<1>6. n = t.name
  BY DEF n
<1>7. ~In(Left(ToSet(old.columns), D, n, drops, puts), op.arg.name)
  BY <1>1, <1>3, <1>4, <1>5, <1>6, MissingIsNotThere
<1>8. ~In(u.columns, op.arg.name)
  BY <1>2, <1>7
<1> QED
  BY <1>1, <1>8 DEF Accepts, Named

(* When a column goes, the indexes that go are gone, and no new one has come. *)
LEMMA IndexesStaying ==
    ASSUME NEW old, NEW t, NEW D, NEW E, NEW op, Working(old, t, D, E, op),
           op.kind = "drop_column"
    PROVE  \A i \in IndexesLeft(old, t, D) : Has(t.columns, i.on)
<1>1. /\ IsTable(old) /\ IsTable(t) /\ HoldableTable(old) /\ HoldableTable(t)
      /\ OpsFor(engine, old, t, E) /\ CarriedTable(engine, old, t) /\ Staged(D, E, op)
  BY DEF Working
<1>2. ASSUME NEW i \in IndexesLeft(old, t, D) PROVE i \in ToSet(t.indexes)
  <2>1. \A o \in D : o.kind # "create_index"
    BY <1>1, StagedByKind
  <2>2. Came(D, t.name, {"create_index"}) = {}
    BY <2>1 DEF Came, OfKind
  <2>3. /\ i \in ToSet(old.indexes)
        /\ \A o \in OfKind(D, t.name, {"drop_index"} \cup {"create_index"}) :
              o.arg.name # i.name
    BY <2>2 DEF IndexesLeft, Left
  <2>4. SameIfNamed(old.indexes, t.indexes)
    BY <1>1 DEF CarriedTable
  <2>5. i \notin ToSet(t.indexes) =>
           \E o \in OfKind(E, t.name, {"drop_index"}) : o.arg.name = i.name
    BY <1>1, <2>3, <2>4, IndexesDone
  <2>6. \A o \in E : o.kind = "drop_index" => o \in D
    BY <1>1, StagedByKind
  <2> QED
    BY <2>3, <2>5, <2>6 DEF OfKind
<1> QED
  BY <1>1, <1>2 DEF CarriedTable

(* Nothing that stays is on a column that goes, whether SQLite rebuilds the    *)
(* table later or not.                                                        *)
LEMMA NothingOnIt ==
    ASSUME NEW old, NEW t, NEW D, NEW E, NEW op, NEW d, Ready(old, t, D, E, op, d),
           op.kind = "drop_column", ~Has(t.columns, op.arg.name)
    PROVE  /\ \A f \in Named(d, op).fks : f.on # op.arg.name
           /\ \A i \in Named(d, op).indexes : i.on # op.arg.name
<1> DEFINE u == Named(d, op)
<1>1. u.fks = FksLeft(engine, old, t, D) /\ u.indexes = IndexesLeft(old, t, D)
  BY DEF Ready, SoFar
<1>2. Working(old, t, D, E, op)
  BY DEF Ready
<1>3. CASE ~(engine = "sqlite" /\ NeedsRebuild(old, t))
  BY <1>1, <1>2, <1>3, NothingOnDropped
<1>4. CASE engine = "sqlite" /\ NeedsRebuild(old, t)
  <2>1. \A f \in u.fks : Has(t.columns, f.on)
    BY <1>1, <1>4 DEF FksLeft, Ready, Taken
  <2>2. \A i \in u.indexes : Has(t.columns, i.on)
    BY <1>1, <1>2, IndexesStaying
  <2> QED
    BY <2>1, <2>2
<1> QED
  BY <1>3, <1>4

(* A column that goes is there, and nothing pins it. *)
LEMMA DropColumnTaken ==
    ASSUME NEW old, NEW t, NEW D, NEW E, NEW op, NEW d, Ready(old, t, D, E, op, d),
           op.kind = "drop_column"
    PROVE  Accepts(d, op)
<1> DEFINE u == Named(d, op)
           n == t.name
           drops == {"drop_column"}
           puts == IF engine = "sqlite" THEN {"add_column"} ELSE {"add_column", "alter_column"}
<1>1. /\ IsTable(old) /\ IsTable(t) /\ HoldableTable(old) /\ HoldableTable(t)
      /\ OpsFor(engine, old, t, E) /\ NotYet(D, E, op) /\ op.table = t.name
      /\ In(d.tables, op.table) /\ IsHeld(u) /\ u.name = t.name
  BY ReadyFacts
<1>2. u.columns = Left(ToSet(old.columns), D, n, drops, puts)
  BY DEF Ready, SoFar, BareColumns, ColumnsLeft
<1>3. DropsMissing(E, n, drops, old.columns, t.columns)
  BY <1>1, ColumnOps
<1>4. \A o \in OfKind(E, n, puts) : o.arg \in ToSet(t.columns)
  BY <1>1, ColumnOps DEF OfKind
<1>5. TellsApart(old.columns) /\ TellsApart(t.columns)
  BY <1>1 DEF HoldableTable
<1>6. n = t.name /\ drops = {"drop_column"}
  OBVIOUS
<1> HIDE DEF drops, puts, n
<1>7. /\ op.arg \in ToSet(old.columns) /\ ~Has(t.columns, op.arg.name)
      /\ op.arg \in Left(ToSet(old.columns), D, n, drops, puts)
  BY <1>1, <1>3, <1>4, <1>5, <1>6, MissingIsThere
<1>8. op.arg \in u.columns
  BY <1>2, <1>7
<1>9. In(u.columns, op.arg.name) /\ Get(u.columns, op.arg.name) = op.arg
  BY <1>1, <1>8, GotOnly DEF IsHeld, Apart
<1>10. /\ {f \in u.fks : f.on = op.arg.name} = {}
       /\ {i \in u.indexes : i.on = op.arg.name} = {}
  BY <1>7, NothingOnIt
<1>11. ViewsOn(d, u.name, op.arg.name) = {}
  BY <1>1, <1>7 DEF ViewsOn, ViewsOf, Ready, ViewsRead
<1>12. engine = "sqlserver" => op.arg.default = "none" /\ op.arg.name \notin t.pk
  BY <1>7 DEF Ready, Taken, Has, Names
<1>13. engine = "sqlite" => op.arg.name \notin t.pk
  BY <1>7 DEF Ready, Taken
<1>14. u.pk = t.pk
  BY DEF Ready, SoFar
<1>15. ~Pinned(d, u, op.arg)
  BY <1>10, <1>11, <1>12, <1>13, <1>14 DEF Pinned, Ready
<1> QED
  BY <1>1, <1>9, <1>15 DEF Accepts, Named

(* When a column is altered, the keys and indexes that go have gone and none   *)
(* has come: those left are of both tables.                                  *)
LEMMA LeftOfBoth ==
    ASSUME NEW old, NEW t, NEW D, NEW E, NEW op, Working(old, t, D, E, op),
           op.kind = "alter_column", engine # "sqlite"
    PROVE  /\ \A f \in FksLeft(engine, old, t, D) : f \in ToSet(old.fks) /\ f \in ToSet(t.fks)
           /\ \A i \in IndexesLeft(old, t, D) :
                 i \in ToSet(old.indexes) /\ i \in ToSet(t.indexes)
<1>1. /\ \A o \in E : o.kind \in {"drop_fk", "drop_index"} => o \in D
      /\ \A o \in D : o.kind \notin {"add_fk", "create_index"}
  BY StagedByKind DEF Working
<1>2. Came(D, t.name, {"add_fk"}) = {} /\ Came(D, t.name, {"create_index"}) = {}
  BY <1>1 DEF Came, OfKind
<1>3. \A f \in FksLeft(engine, old, t, D) : f \in ToSet(old.fks) /\ f \in ToSet(t.fks)
  <2> TAKE f \in FksLeft(engine, old, t, D)
  <2>1. /\ f \in ToSet(old.fks)
        /\ \A o \in OfKind(D, t.name, {"drop_fk"} \cup {"add_fk"}) : o.arg.name # f.name
    BY <1>2 DEF FksLeft, Left
  <2>2. f \notin ToSet(t.fks) =>
           \E o \in OfKind(E, t.name, {"drop_fk"}) : o.arg.name = f.name
    BY <2>1, FksDone DEF Working
  <2> QED
    BY <1>1, <2>1, <2>2 DEF OfKind
<1>4. \A i \in IndexesLeft(old, t, D) :
         i \in ToSet(old.indexes) /\ i \in ToSet(t.indexes)
  <2> TAKE i \in IndexesLeft(old, t, D)
  <2>1. /\ i \in ToSet(old.indexes)
        /\ \A o \in OfKind(D, t.name, {"drop_index"} \cup {"create_index"}) :
              o.arg.name # i.name
    BY <1>2 DEF IndexesLeft, Left
  <2>2. i \notin ToSet(t.indexes) =>
           \E o \in OfKind(E, t.name, {"drop_index"}) : o.arg.name = i.name
    BY <2>1, IndexesDone DEF Working, CarriedTable
  <2> QED
    BY <1>1, <2>1, <2>2 DEF OfKind
<1> QED
  BY <1>3, <1>4

(* A column that is altered is there as it was, and neither a view, a key, an *)
(* index nor a default forbids it.                                          *)
LEMMA AlterColumnTaken ==
    ASSUME NEW old, NEW t, NEW D, NEW E, NEW op, NEW d, Ready(old, t, D, E, op, d),
           op.kind = "alter_column", engine # "sqlite"
    PROVE  Accepts(d, op)
<1> DEFINE u == Named(d, op)
           n == t.name
           x == op.arg
           c == Find(old.columns, op.arg.name)
<1>1. /\ IsTable(old) /\ IsTable(t) /\ HoldableTable(old) /\ HoldableTable(t)
      /\ OpsFor(engine, old, t, E) /\ NotYet(D, E, op) /\ op.table = t.name
      /\ In(d.tables, op.table) /\ IsHeld(u) /\ u.name = t.name
  BY ReadyFacts
<1>2. TellsApart(old.columns) /\ TellsApart(t.columns)
  BY <1>1 DEF HoldableTable
<1>3. IsAlter(op, n, t.columns, old.columns)
  BY <1>1, ColumnOps DEF NotYet
<1>4. /\ x \in ToSet(t.columns) /\ Has(old.columns, x.name) /\ c # x
      /\ op = [kind |-> "alter_column", table |-> n, arg |-> x, old |-> c]
  BY <1>3, AlteredIsOld
<1>5. IsList(old.columns)
  BY <1>1 DEF IsTable
<1>6. c \in ToSet(old.columns) /\ c.name = x.name
  BY <1>4, <1>5, FindFacts
<1>7. c \notin ToSet(t.columns)
  BY <1>2, <1>4, <1>6, ToldByName
<1>8. ASSUME NEW o \in OfKind(D, n, {"drop_column"} \cup {"add_column", "alter_column"})
      PROVE  o.arg.name # c.name
  <2>1. o \in D /\ o \in E /\ o.table = n
    BY <1>1 DEF OfKind, NotYet
  <2>2. CASE o.kind = "drop_column"
    <3>1. o \in OfKind(E, n, {"drop_column"})
      BY <2>1, <2>2 DEF OfKind
    <3>2. ~Has(t.columns, o.arg.name)
      BY <1>1, <3>1, ColumnOps
    <3> QED
      BY <1>4, <1>6, <3>2 DEF Has, Names
  <2>3. CASE o.kind = "add_column"
    <3>1. IsMissing(o, "add_column", n, t.columns, old.columns)
      BY <1>1, <2>1, <2>3, ColumnOps
    <3>2. ~Has(old.columns, o.arg.name)
      BY <3>1, OperationIs DEF IsMissing
    <3> QED
      BY <1>6, <3>2 DEF Has, Names
  <2>4. CASE o.kind = "alter_column"
    <3>1. IsAlter(o, n, t.columns, old.columns)
      BY <1>1, <2>1, <2>4, ColumnOps
    <3>2. /\ o.arg \in ToSet(t.columns)
          /\ o = [kind |-> "alter_column", table |-> n, arg |-> o.arg,
                  old |-> Find(old.columns, o.arg.name)]
      BY <3>1, AlteredIsOld
    <3>3. o.arg.name = c.name => o.arg = x
      BY <1>2, <1>4, <1>6, <3>2, ToldByName
    <3>4. o.arg = x => o = op
      BY <1>4, <3>2
    <3> QED
      BY <1>1, <2>1, <3>3, <3>4 DEF NotYet
  <2>5. o.kind \in {"drop_column", "add_column", "alter_column"}
    BY DEF OfKind
  <2> QED
    BY <2>2, <2>3, <2>4, <2>5
<1>9. u.columns = ColumnsLeft(old, t, D)
  BY DEF Ready, SoFar
<1>10. c \in u.columns
  BY <1>6, <1>8, <1>9 DEF ColumnsLeft, Left
<1>11. In(u.columns, x.name) /\ Get(u.columns, x.name) = c
  <2>1. \A y \in u.columns : y.name = c.name => y = c
    BY <1>1, <1>10 DEF IsHeld, Apart
  <2>2. In(u.columns, c.name) /\ Get(u.columns, c.name) = c
    BY <1>10, <2>1, GotOnly
  <2> QED
    BY <1>6, <2>2
<1>12. engine = "postgres" => ViewsOn(d, u.name, x.name) = {}
  <2>1. x.name \in Changes(old, t)
    BY <1>6, <1>7 DEF Changes
  <2> QED
    BY <1>1, <2>1 DEF ViewsOn, ViewsOf, Ready, Taken
<1>13. engine = "sqlserver" => c.default = "none" /\ x.default = "none"
  BY <1>4, <1>6, <1>7 DEF Ready, Taken
<1>14. u.pk = t.pk /\ u.fks = FksLeft(engine, old, t, D) /\ u.indexes = IndexesLeft(old, t, D)
  BY DEF Ready, SoFar
<1>15. /\ \A f \in u.fks : f \in ToSet(old.fks) /\ f \in ToSet(t.fks)
       /\ \A i \in u.indexes : i \in ToSet(old.indexes) /\ i \in ToSet(t.indexes)
  <2>1. Working(old, t, D, E, op)
    BY DEF Ready
  <2> QED
    BY <1>14, <2>1, LeftOfBoth
<1>16. c.type # x.type => ~InForeignKey(d, u, x.name)
  <2>1. c.type # x.type => NoKeyStays(old, t, x.name)
    BY <1>4, <1>6, <1>7 DEF Ready, Taken
  <2> QED
    BY <1>14, <1>15, <2>1 DEF InForeignKey, NoKeyStays
<1>17. engine = "sqlserver" => x.name \notin u.pk /\ \A i \in u.indexes : i.on # x.name
  <2>1. engine = "sqlserver" => x.name \notin t.pk /\ NoIndexStays(old, t, x.name)
    BY <1>4, <1>6, <1>7 DEF Ready, Taken
  <2> QED
    BY <1>14, <1>15, <2>1 DEF NoIndexStays
<1>18. Alterable(d, u, c, x)
  BY <1>12, <1>13, <1>16, <1>17 DEF Alterable
<1> QED
  BY <1>1, <1>11, <1>18 DEF Accepts, Named

(* The operations on foreign keys, checks and triggers, which redefine. *)
LEMMA RedefiningOps ==
    ASSUME NEW old, NEW t, NEW E, IsTable(old), IsTable(t), OpsFor(engine, old, t, E)
    PROVE  /\ engine # "sqlite" =>
                /\ DropsRedefined(E, t.name, {"drop_fk"}, old.fks, t.fks)
                /\ AddsRedefined(E, t.name, {"add_fk"}, old.fks, t.fks)
           /\ DropsRedefined(E, t.name, {"drop_check"}, old.checks, t.checks)
           /\ AddsRedefined(E, t.name, {"add_check"}, old.checks, t.checks)
           /\ DropsRedefined(E, t.name, {"drop_trigger"}, old.triggers, t.triggers)
           /\ AddsRedefined(E, t.name, {"create_trigger"}, old.triggers, t.triggers)
<1>1. engine # "sqlite" =>
        /\ DropsRedefined(E, t.name, {"drop_fk"}, old.fks, t.fks)
        /\ AddsRedefined(E, t.name, {"add_fk"}, old.fks, t.fks)
  BY KeptByKind DEF OpsFor, DropsRedefined, AddsRedefined
<1>2. /\ DropsRedefined(E, t.name, {"drop_check"}, old.checks, t.checks)
      /\ AddsRedefined(E, t.name, {"add_check"}, old.checks, t.checks)
  BY KeptByKind DEF OpsFor, TableKinds, DropsRedefined, AddsRedefined
<1>3. /\ DropsRedefined(E, t.name, {"drop_trigger"}, old.triggers, t.triggers)
      /\ AddsRedefined(E, t.name, {"create_trigger"}, old.triggers, t.triggers)
  BY KeptByKind DEF OpsFor, TableKinds, DropsRedefined, AddsRedefined
<1> QED
  BY <1>1, <1>2, <1>3

(* A check is dropped that is there, and added that is not. *)
LEMMA CheckTaken ==
    ASSUME NEW old, NEW t, NEW D, NEW E, NEW op, NEW d, Ready(old, t, D, E, op, d),
           op.kind \in {"drop_check", "add_check"}, engine # "sqlite"
    PROVE  Accepts(d, op)
<1> DEFINE u == Named(d, op)
           n == t.name
           drops == {"drop_check"}
           puts == {"add_check"}
<1>1. /\ IsTable(old) /\ IsTable(t) /\ HoldableTable(old) /\ HoldableTable(t)
      /\ OpsFor(engine, old, t, E) /\ NotYet(D, E, op) /\ op.table = t.name
      /\ In(d.tables, op.table) /\ Staged(D, E, op)
  BY ReadyFacts
<1>2. u.checks = Left(ToSet(old.checks), D, n, drops, puts)
  BY DEF Ready, SoFar, ChecksLeft
<1>3. /\ DropsRedefined(E, n, drops, old.checks, t.checks)
      /\ AddsRedefined(E, n, puts, old.checks, t.checks)
  BY <1>1, RedefiningOps
<1>4. TellsApart(old.checks) /\ TellsApart(t.checks)
  BY <1>1 DEF HoldableTable
<1>5. CASE op.kind = "drop_check"
  <2>1. OfKind(D, n, puts) = {}
    BY <1>1, <1>5, StagedByKind DEF OfKind
  <2>2. n = t.name /\ drops = {"drop_check"}
    OBVIOUS
  <2> HIDE DEF drops, puts, n
  <2>3. In(u.checks, op.arg.name)
    BY <1>1, <1>2, <1>3, <1>4, <1>5, <2>1, <2>2, DroppedIsThere
  <2> QED
    BY <1>1, <1>5, <2>3 DEF Accepts, Named
<1>6. CASE op.kind = "add_check"
  <2>1. AllDone(D, E, n, drops)
    BY <1>1, <1>6, StageByKind DEF Staged, AllDone, OfKind
  <2>2. n = t.name /\ puts = {"add_check"} /\ "drop_check" \in drops
    OBVIOUS
  <2> HIDE DEF drops, puts, n
  <2>3. ~In(u.checks, op.arg.name)
    BY <1>1, <1>2, <1>3, <1>4, <1>6, <2>1, <2>2, AddedIsNotThere
  <2> QED
    BY <1>1, <1>6, <2>3 DEF Accepts, Named
<1> QED
  BY <1>5, <1>6

(* The new table's columns are all there once the operations on columns are   *)
(* done, if only by name: SQLite alters none before it rebuilds.             *)
LEMMA ColumnsThere ==
    ASSUME NEW old, NEW t, NEW D, NEW E, IsTable(old), IsTable(t), HoldableTable(old),
           HoldableTable(t), OpsFor(engine, old, t, E), D \subseteq E,
           AllDone(D, E, t.name, {"drop_column", "add_column", "alter_column"}),
           NEW C, C = IF engine = "sqlite" THEN BareColumns(old, t, D)
                      ELSE ColumnsLeft(old, t, D),
           NEW m, Has(t.columns, m)
    PROVE  In(C, m)
<1> DEFINE n == t.name
           drops == {"drop_column"}
           puts == IF engine = "sqlite" THEN {"add_column"} ELSE {"add_column", "alter_column"}
<1>1. C = Left(ToSet(old.columns), D, n, drops, puts)
  BY DEF BareColumns, ColumnsLeft
<1>2. PICK y \in ToSet(t.columns) : y.name = m
  BY DEF Has, Names
<1>3. CASE ~Has(old.columns, m)
  <2>1. PICK o : o = Operation("add_column", n, y)
    OBVIOUS
  <2>2. o.kind = "add_column" /\ o.table = n /\ o.arg = y
    BY <2>1 DEF Operation
  <2>3. IsMissing(o, "add_column", n, t.columns, old.columns)
    BY <1>2, <1>3, <2>1 DEF IsMissing
  <2>4. o \in E
    BY <2>2, <2>3, ColumnOps
  <2>5. o \in D
    BY <2>2, <2>4 DEF AllDone, OfKind
  <2>6. y \in Came(D, n, puts)
    BY <2>2, <2>5 DEF Came, OfKind
  <2> QED
    BY <1>1, <1>2, <2>6 DEF Left, In
<1>4. CASE Has(old.columns, m)
  <2>1. PICK z \in ToSet(old.columns) : z.name = m
    BY <1>4 DEF Has, Names
  <2>2. CASE \A o \in OfKind(D, n, drops \cup puts) : o.arg.name # z.name
    BY <1>1, <2>1, <2>2 DEF Left, In
  <2>3. CASE \E o \in OfKind(D, n, drops \cup puts) : o.arg.name = z.name
    <3>1. PICK o \in OfKind(D, n, drops \cup puts) : o.arg.name = z.name
      BY <2>3
    <3>2. o \in D /\ o \in E /\ o.table = n
      BY <3>1 DEF OfKind
    <3>3. o.kind # "drop_column"
      <4>1. o.kind = "drop_column" => o \in OfKind(E, n, {"drop_column"})
        BY <3>2 DEF OfKind
      <4>2. o.kind = "drop_column" => ~Has(t.columns, o.arg.name)
        BY <4>1, ColumnOps
      <4> QED
        BY <2>1, <3>1, <4>2
    <3>4. o.arg \in Came(D, n, puts)
      BY <3>1, <3>3 DEF Came, OfKind
    <3> QED
      BY <1>1, <2>1, <3>1, <3>4 DEF Left, In
  <2> QED
    BY <2>2, <2>3
<1> QED
  BY <1>3, <1>4

(* All operations on columns are done before those of later stages. *)
LEMMA ColumnsBefore ==
    ASSUME NEW D, NEW E, NEW op, Staged(D, E, op), op.kind \in {"add_fk", "create_index"},
           NEW n
    PROVE  AllDone(D, E, n, {"drop_column", "add_column", "alter_column"})
  BY StageByKind DEF Staged, AllDone, OfKind

(* A foreign key is dropped that is there, and added that is not, on a column *)
(* there is, to a table there is.                                           *)
LEMMA FkTaken ==
    ASSUME NEW old, NEW t, NEW D, NEW E, NEW op, NEW d, Ready(old, t, D, E, op, d),
           op.kind \in {"drop_fk", "add_fk"}, engine # "sqlite",
           op.kind = "add_fk" => In(d.tables, op.arg.to)
    PROVE  Accepts(d, op)
<1> DEFINE u == Named(d, op)
           n == t.name
           drops == {"drop_fk"}
           puts == {"add_fk"}
<1>1. /\ IsTable(old) /\ IsTable(t) /\ HoldableTable(old) /\ HoldableTable(t)
      /\ OpsFor(engine, old, t, E) /\ NotYet(D, E, op) /\ op.table = t.name
      /\ In(d.tables, op.table) /\ Staged(D, E, op) /\ u.rows = {}
      /\ CarriedTable(engine, old, t)
  BY ReadyFacts
<1>2. u.fks = Left(ToSet(old.fks), D, n, drops, puts)
  BY DEF Ready, SoFar, FksLeft
<1>3. /\ DropsRedefined(E, n, drops, old.fks, t.fks)
      /\ AddsRedefined(E, n, puts, old.fks, t.fks)
  BY <1>1, RedefiningOps
<1>4. TellsApart(old.fks) /\ TellsApart(t.fks)
  BY <1>1 DEF HoldableTable
<1>5. CASE op.kind = "drop_fk"
  <2>1. OfKind(D, n, puts) = {}
    BY <1>1, <1>5, StagedByKind DEF OfKind
  <2>2. n = t.name /\ drops = {"drop_fk"}
    OBVIOUS
  <2> HIDE DEF drops, puts, n
  <2>3. In(u.fks, op.arg.name)
    BY <1>1, <1>2, <1>3, <1>4, <1>5, <2>1, <2>2, DroppedIsThere
  <2> QED
    BY <1>1, <1>5, <2>3 DEF Accepts, Named
<1>6. CASE op.kind = "add_fk"
  <2>1. AllDone(D, E, n, drops)
    BY <1>1, <1>6, StageByKind DEF Staged, AllDone, OfKind
  <2>2. n = t.name /\ puts = {"add_fk"} /\ "drop_fk" \in drops
    OBVIOUS
  <2>3. op \in OfKind(E, t.name, {"add_fk"})
    BY <1>1, <1>6 DEF NotYet, OfKind
  <2>4. op.arg \in ToSet(t.fks)
    BY <1>1, <2>3, FksDone
  <2>5. Has(t.columns, op.arg.on)
    BY <1>1, <2>4 DEF CarriedTable
  <2>6. u.columns = IF engine = "sqlite" THEN BareColumns(old, t, D) ELSE ColumnsLeft(old, t, D)
    BY <1>6 DEF Ready, SoFar
  <2>7. AllDone(D, E, t.name, {"drop_column", "add_column", "alter_column"})
    BY <1>1, <1>6, ColumnsBefore
  <2>8. In(u.columns, op.arg.on)
    BY <1>1, <2>5, <2>6, <2>7, ColumnsThere DEF NotYet
  <2> HIDE DEF drops, puts, n
  <2>9. ~In(u.fks, op.arg.name)
    BY <1>1, <1>2, <1>3, <1>4, <1>6, <2>1, <2>2, AddedIsNotThere
  <2> QED
    BY <1>1, <1>6, <2>8, <2>9 DEF Accepts, Named
<1> QED
  BY <1>5, <1>6

(* A trigger is created that is not there, on a function there is. *)
LEMMA TriggerTaken ==
    ASSUME NEW old, NEW t, NEW D, NEW E, NEW op, NEW d, Ready(old, t, D, E, op, d),
           op.kind = "create_trigger", engine = "postgres", In(d.functions, op.arg.calls)
    PROVE  Accepts(d, op)
<1> DEFINE u == Named(d, op)
           n == t.name
           drops == {"drop_trigger"}
           puts == {"create_trigger"}
<1>1. /\ IsTable(old) /\ IsTable(t) /\ HoldableTable(old) /\ HoldableTable(t)
      /\ OpsFor(engine, old, t, E) /\ NotYet(D, E, op) /\ op.table = t.name
      /\ In(d.tables, op.table) /\ Staged(D, E, op)
  BY ReadyFacts
<1>2. u.triggers = Left(ToSet(old.triggers), D, n, drops, puts)
  BY DEF Ready, SoFar, TriggersLeft
<1>3. /\ DropsRedefined(E, n, drops, old.triggers, t.triggers)
      /\ AddsRedefined(E, n, puts, old.triggers, t.triggers)
  BY <1>1, RedefiningOps
<1>4. TellsApart(old.triggers) /\ TellsApart(t.triggers)
  BY <1>1 DEF HoldableTable
<1>5. AllDone(D, E, n, drops)
  BY <1>1, StageByKind DEF Staged, AllDone, OfKind
<1>6. n = t.name /\ puts = {"create_trigger"} /\ "drop_trigger" \in drops
  OBVIOUS
<1> HIDE DEF drops, puts, n
<1>7. ~In(u.triggers, op.arg.name)
  BY <1>1, <1>2, <1>3, <1>4, <1>5, <1>6, AddedIsNotThere
<1> QED
  BY <1>1, <1>7 DEF Accepts, Named

(* An index is created that is not there, on a column there is. *)
LEMMA CreateIndexTaken ==
    ASSUME NEW old, NEW t, NEW D, NEW E, NEW op, NEW d, Ready(old, t, D, E, op, d),
           op.kind = "create_index"
    PROVE  Accepts(d, op)
<1> DEFINE u == Named(d, op)
           n == t.name
           drops == {"drop_index"}
           puts == {"create_index"}
<1>1. /\ IsTable(old) /\ IsTable(t) /\ HoldableTable(old) /\ HoldableTable(t)
      /\ OpsFor(engine, old, t, E) /\ NotYet(D, E, op) /\ op.table = t.name
      /\ In(d.tables, op.table) /\ Staged(D, E, op) /\ CarriedTable(engine, old, t)
  BY ReadyFacts
<1>2. u.indexes = Left(ToSet(old.indexes), D, n, drops, puts)
  BY DEF Ready, SoFar, IndexesLeft
<1>3. \A o \in E : o.table = n /\ o.kind = "create_index" =>
         IsMissing(o, "create_index", n, t.indexes, old.indexes)
  BY <1>1, KeptByKind DEF OpsFor, TableKinds
<1>4. \A o \in OfKind(E, n, puts) : o.kind # "create_index" => Has(old.indexes, o.arg.name)
  BY DEF OfKind
<1>5. TellsApart(old.indexes) /\ TellsApart(t.indexes)
  BY <1>1 DEF HoldableTable
<1>6. n = t.name
  OBVIOUS
<1> HIDE DEF drops, puts, n
<1>7. /\ op.arg \in ToSet(t.indexes)
      /\ ~In(Left(ToSet(old.indexes), D, n, drops, puts), op.arg.name)
  BY <1>1, <1>3, <1>4, <1>5, <1>6, MissingIsNotThere
<1>8. ~In(u.indexes, op.arg.name)
  BY <1>2, <1>7
<1>9. Has(t.columns, op.arg.on)
  BY <1>1, <1>7 DEF CarriedTable
<1>10. u.columns = IF engine = "sqlite" THEN BareColumns(old, t, D) ELSE ColumnsLeft(old, t, D)
  BY DEF Ready, SoFar
<1>11. AllDone(D, E, t.name, {"drop_column", "add_column", "alter_column"})
  BY <1>1, ColumnsBefore
<1>12. In(u.columns, op.arg.on)
  BY <1>1, <1>9, <1>10, <1>11, ColumnsThere DEF NotYet
<1> QED
  BY <1>1, <1>8, <1>12 DEF Accepts, Named

(* An index that goes is there, and on MySQL another one is on its column if a *)
(* foreign key is.                                                           *)
LEMMA DropIndexTaken ==
    ASSUME NEW old, NEW t, NEW D, NEW E, NEW op, NEW d, Ready(old, t, D, E, op, d),
           op.kind = "drop_index"
    PROVE  Accepts(d, op)
<1> DEFINE u == Named(d, op)
           n == t.name
           i == op.arg
           drops == {"drop_index"}
           puts == {"create_index"}
<1>1. /\ IsTable(old) /\ IsTable(t) /\ HoldableTable(old) /\ HoldableTable(t)
      /\ OpsFor(engine, old, t, E) /\ NotYet(D, E, op) /\ op.table = t.name
      /\ In(d.tables, op.table) /\ Staged(D, E, op) /\ CarriedTable(engine, old, t)
      /\ IsHeld(u)
  BY ReadyFacts
<1>2. u.indexes = Left(ToSet(old.indexes), D, n, drops, puts)
  BY DEF Ready, SoFar, IndexesLeft
<1>3. DropsMissing(E, n, drops, old.indexes, t.indexes)
  BY <1>1, KeptByKind DEF OpsFor, TableKinds, DropsMissing
<1>4. SameIfNamed(old.indexes, t.indexes)
  BY <1>1 DEF CarriedTable
<1>5. \A o \in OfKind(E, n, puts) : o.arg \in ToSet(t.indexes)
  BY <1>1, <1>4, IndexesDone
<1>6. TellsApart(old.indexes) /\ TellsApart(t.indexes)
  BY <1>1 DEF HoldableTable
<1>7. n = t.name /\ drops = {"drop_index"}
  OBVIOUS
<1>8. /\ i \in ToSet(old.indexes) /\ ~Has(t.indexes, i.name)
      /\ i \in Left(ToSet(old.indexes), D, n, drops, puts)
  <2> HIDE DEF drops, puts, n
  <2> QED
    BY <1>1, <1>3, <1>5, <1>6, <1>7, MissingIsThere
<1>9. i \in u.indexes
  BY <1>2, <1>8
<1>10. In(u.indexes, i.name) /\ Get(u.indexes, i.name) = i
  BY <1>1, <1>9, GotOnly DEF IsHeld, Apart
<1>11. ASSUME engine = "mysql", NEW f \in u.fks, f.on = i.on
       PROVE  \E j \in u.indexes \ {i} : j.on = i.on
  <2>1. u.fks = Left(ToSet(old.fks), D, t.name, {"drop_fk"}, {"add_fk"})
    BY <1>11 DEF Ready, SoFar, FksLeft
  <2>2. \A o \in E : o.kind = "drop_fk" => o \in D
    BY <1>1, StageByKind DEF Staged
  <2>3. \A o \in D : o.kind # "add_fk" /\ o.kind # "create_index"
    BY <1>1, StageByKind DEF Staged
  <2>4. Came(D, t.name, {"add_fk"}) = {} /\ Came(D, t.name, puts) = {}
    BY <2>3 DEF Came, OfKind
  <2>5. /\ f \in ToSet(old.fks)
        /\ \A o \in OfKind(D, t.name, {"drop_fk"} \cup {"add_fk"}) : o.arg.name # f.name
    BY <1>11, <2>1, <2>4 DEF Left
  <2>6. f \notin ToSet(t.fks) => \E o \in OfKind(E, t.name, {"drop_fk"}) : o.arg.name = f.name
    BY <1>1, <1>11, <2>5, FksDone
  <2>7. f \in ToSet(t.fks)
    BY <2>2, <2>5, <2>6 DEF OfKind
  <2>8. PICK j \in ToSet(old.indexes) : j.on = i.on /\ Has(t.indexes, j.name)
    BY <1>8, <1>11, <2>5, <2>7 DEF Ready, Taken
  <2>9. ASSUME NEW o \in OfKind(D, n, drops \cup puts) PROVE o.arg.name # j.name
    <3>1. o \in OfKind(E, t.name, {"drop_index"})
      BY <1>1, <2>3 DEF OfKind, NotYet
    <3>2. ~Has(t.indexes, o.arg.name)
      BY <1>1, <1>4, <3>1, IndexesDone
    <3> QED
      BY <2>8, <3>2
  <2>10. j \in u.indexes
    BY <1>2, <2>8, <2>9 DEF Left
  <2> QED
    BY <1>8, <2>8, <2>10
<1>12. IndexDroppable(u, i)
  BY <1>11 DEF IndexDroppable
<1> QED
  BY <1>1, <1>10, <1>12 DEF Accepts, Named

(* SQLite's rebuild finds a table that no view reads and no row is in. *)
LEMMA RebuildTaken ==
    ASSUME NEW old, NEW t, NEW D, NEW E, NEW op, NEW d, Ready(old, t, D, E, op, d),
           op.kind = "rebuild_table", engine = "sqlite"
    PROVE  Accepts(d, op)
<1> DEFINE u == Named(d, op)
<1>1. /\ IsTable(old) /\ IsTable(t) /\ OpsFor("sqlite", old, t, E) /\ NotYet(D, E, op)
      /\ op.table = t.name /\ In(d.tables, op.table) /\ u.rows = {}
  BY ReadyFacts
<1>2. op \in OfKind(E, t.name, {"rebuild_table"})
  BY <1>1 DEF NotYet, OfKind
<1>3. NeedsRebuild(old, t)
  BY <1>1, <1>2, RebuildDone
<1>4. ViewsOf(d, op.table) = {}
  BY <1>1, <1>3 DEF ViewsOf, Ready, Taken
<1>5. Deletable(d, u, u.rows)
  BY <1>1 DEF Deletable
<1> QED
  BY <1>1, <1>4, <1>5 DEF Accepts, Named

(* So the engine takes what is done to a table. *)
LEMMA WorkTaken ==
    ASSUME NEW old, NEW t, NEW D, NEW E, NEW op, NEW d, Ready(old, t, D, E, op, d),
           op.kind \in WorkKinds,
           op.kind = "add_fk" => In(d.tables, op.arg.to),
           op.kind = "create_trigger" /\ engine = "postgres" => In(d.functions, op.arg.calls)
    PROVE  Accepts(d, op)
<1>1. CASE op.kind \in Skipped
  BY <1>1 DEF Accepts
<1>2. CASE op.kind \notin Skipped
  <2>1. /\ op.kind \in {"alter_column", "add_fk", "drop_fk", "add_check", "drop_check"} =>
             engine # "sqlite"
        /\ op.kind \in {"create_trigger", "drop_trigger"} => engine = "postgres"
        /\ op.kind = "rebuild_table" => engine = "sqlite"
    BY <1>2 DEF Skipped, DbObjects
  <2>2. CASE op.kind = "drop_trigger"
    BY <2>2 DEF Accepts
  <2> QED
    BY <2>1, <2>2, AddColumnTaken, AlterColumnTaken, DropColumnTaken, FkTaken,
       CheckTaken, TriggerTaken, CreateIndexTaken, DropIndexTaken, RebuildTaken DEF WorkKinds
<1> QED
  BY <1>1, <1>2

-----------------------------------------------------------------------------
(* Every table's way *)

(* A dropped table loses its foreign keys and indexes first. *)
Bare(e, old) ==
    [name |-> old.name, columns |-> old.columns, pk |-> old.pk,
     fks |-> IF e = "sqlite" THEN old.fks ELSE <<>>,
     checks |-> old.checks, indexes |-> <<>>, triggers |-> old.triggers,
     seed |-> <<>>]

(* What a table comes from and what it comes to: one of the new model, or one  *)
(* of the old model only.                                                   *)
Course(e, a, b, old, t) ==
    \/ t \in ToSet(b.tables) /\ old = Base(e, a, t)
    \/ old \in ToSet(a.tables) /\ ~Has(b.tables, old.name) /\ t = Bare(e, old)

(* A model that declares what it refers to: keys and indexes have their        *)
(* columns, keys their tables, triggers their functions, views their columns; *)
(* no view has the name of a table.  SQLite's tables have no checks.         *)
Declared(e, m) ==
    /\ \A t \in ToSet(m.tables) :
          /\ \A f \in ToSet(t.fks) : Has(m.tables, f.to) /\ Has(t.columns, f.on)
          /\ \A i \in ToSet(t.indexes) : Has(t.columns, i.on)
          /\ e = "postgres" => \A g \in ToSet(t.triggers) : Has(m.functions, g.calls)
          /\ e = "sqlite" => t.checks = <<>>
    /\ \A v \in ToSet(m.views) :
          /\ ~Has(m.tables, v.name)
          /\ Has(m.tables, v.of.table)
          /\ Has(Find(m.tables, v.of.table).columns, v.of.column)

(* What the engine takes of a migration from a to b, beside that. *)
Accepted(e, a, b) ==
    /\ Declared(e, a) /\ Declared(e, b)
    /\ \A v \in ToSet(b.views) : ~Has(a.tables, v.name)
    /\ \A t \in ToSet(b.tables) : Has(a.tables, t.name) =>
          Taken(e, Find(a.tables, t.name), t, ToSet(a.views) \cap ToSet(b.views))

(* Against the empty list all goes and nothing comes. *)
LEMMA EmptiedList ==
    ASSUME NEW list, NEW op, NEW k, NEW n
    PROVE  /\ IsMissing(op, k, n, list, <<>>) <=> IsOneOf(op, k, n, list)
           /\ IsDrop(op, k, n, <<>>, list) <=> IsOneOf(op, k, n, list)
           /\ ~IsAdd(op, k, n, <<>>, list) /\ ~IsMissing(op, k, n, <<>>, list)
<1>1. ToSet(<<>>) = {}
  BY NoneHolds
<1>2. \A m : ~Has(<<>>, m)
  BY <1>1 DEF Has, Names
<1> QED
  BY <1>1, <1>2 DEF IsMissing, IsDrop, IsAdd, IsOneOf

(* What a dropped table comes to is a table, and SQLite rebuilds none for it.  *)
LEMMA BareIsTable ==
    ASSUME NEW e, NEW a, Holdable(a), Declared(e, a), NEW old \in ToSet(a.tables)
    PROVE  LET t == Bare(e, old) IN
           /\ IsTable(old) /\ HoldableTable(old) /\ IsTable(t) /\ HoldableTable(t)
           /\ CarriedTable(e, old, t)
           /\ e = "sqlite" => ~NeedsRebuild(old, t)
<1> DEFINE t == Bare(e, old)
<1>1. IsTable(old) /\ HoldableTable(old)
  BY HoldableIsModel
<1>2. /\ t.name = old.name /\ t.columns = old.columns /\ t.pk = old.pk
      /\ t.fks = IF e = "sqlite" THEN old.fks ELSE <<>>
      /\ t.checks = old.checks /\ t.indexes = <<>> /\ t.triggers = old.triggers
      /\ t.seed = <<>>
  BY DEF Bare
<1> HIDE DEF t
<1>3. IsList(<<>>) /\ ToSet(<<>>) = {} /\ TellsApart(<<>>)
  <2>1. IsList(<<>>) /\ ToSet(<<>>) = {}
    BY NoneHolds
  <2>2. <<>> \in Seq({}) /\ DOMAIN <<>> = {}
    OBVIOUS
  <2>3. <<>> \in Seq(ToSet(<<>>))
    BY <2>1, <2>2
  <2>4. \A i, j \in DOMAIN <<>> : <<>>[i].name = <<>>[j].name => i = j
    BY <2>2
  <2> QED
    BY <2>1, <2>3, <2>4 DEF TellsApart
<1>4. IsTable(t) /\ HoldableTable(t)
  BY <1>1, <1>2, <1>3 DEF IsTable, HoldableTable
<1>5. /\ \A f \in ToSet(t.fks) : Has(t.columns, f.on)
      /\ \A i \in ToSet(t.indexes) : Has(t.columns, i.on)
      /\ SameIfNamed(old.indexes, t.indexes)
      /\ e = "sqlite" => old.checks = <<>> /\ t.checks = <<>>
  BY <1>2, <1>3 DEF Declared, SameIfNamed
<1>6. ToldApart(old.columns) /\ ToldApart(old.fks)
  BY <1>1, ToldByName DEF HoldableTable, ToldApart
<1>7. /\ \A c \in ToSet(old.columns), x \in ToSet(t.columns) : c.name = x.name => c = x
      /\ e = "sqlite" => SameIfNamed(old.fks, t.fks)
  BY <1>2, <1>6 DEF ToldApart, SameIfNamed
<1>8. CarriedTable(e, old, t)
  BY <1>2, <1>5, <1>7 DEF CarriedTable
<1>9. e = "sqlite" => ~NeedsRebuild(old, t)
  <2>1. Redefined(old.columns, old.columns) = <<>>
    BY <1>1, SameList DEF HoldableTable
  <2> QED
    BY <1>2, <2>1 DEF NeedsRebuild
<1> QED
  BY <1>1, <1>4, <1>8, <1>9 DEF t

(* The operations on a dropped table are those that would bring it to that. *)
LEMMA BareOps ==
    ASSUME NEW e, NEW a, NEW b, Holdable(a), Holdable(b), Declared(e, a), NEW E,
           AllOf(E, a, b), NEW old \in ToSet(a.tables), ~Has(b.tables, old.name)
    PROVE  OpsFor(e, old, Bare(e, old), E)
<1> DEFINE t == Bare(e, old)
<1>1. /\ t.name = old.name /\ t.columns = old.columns
      /\ t.fks = IF e = "sqlite" THEN old.fks ELSE <<>>
      /\ t.checks = old.checks /\ t.indexes = <<>> /\ t.triggers = old.triggers
  BY DEF Bare
<1>2. /\ IsTable(old) /\ HoldableTable(old) /\ IsTable(t)
      /\ e = "sqlite" => ~NeedsRebuild(old, t)
  BY BareIsTable
<1> HIDE DEF t
<1>3. ASSUME NEW op, op.table = old.name,
             op.kind \in TableKinds \cup {"add_fk", "drop_fk", "rebuild_table"}
      PROVE  op \in E <=> IsForRemoved(op, old)
  <2>1. op \in E <=> IsEmitted(op, a, b)
    BY DEF AllOf
  <2>2. ~IsForDatabase(op, a, b)
    BY <1>3, DatabaseByKind DEF TableKinds
  <2>3. ASSUME NEW z \in ToSet(b.tables) PROVE op.table # z.name
    BY <1>3 DEF Has, Names
  <2>4. ASSUME NEW z \in ToSet(b.tables), Has(a.tables, z.name)
        PROVE  ~IsForKept(op, Find(a.tables, z.name), z)
    <3>1. Has(a.tables, z.name) /\ IsList(a.tables)
      BY <2>4, HoldableIsModel DEF IsModel
    <3>2. Find(a.tables, z.name) \in ToSet(a.tables)
      BY <3>1, FindFacts
    <3>3. IsTable(Find(a.tables, z.name)) /\ IsTable(z)
      BY <3>2, HoldableIsModel
    <3> QED
      BY <2>3, <3>3, KeptByKind
  <2>5. ASSUME NEW z \in ToSet(b.tables) PROVE ~IsForCreated(op, z)
    BY <2>3, OperationIs DEF IsForCreated, IsOneOf
  <2>6. ASSUME NEW z \in ToSet(a.tables), IsForRemoved(op, z) PROVE z = old
    BY <1>3, <2>6, RemovedByKind, ToldByName DEF Holdable
  <2> QED
    BY <2>1, <2>2, <2>4, <2>5, <2>6 DEF IsEmitted
<1>4. \A op : /\ op.kind = "drop_fk" =>
                    (IsForRemoved(op, old) <=> IsOneOf(op, "drop_fk", old.name, old.fks))
              /\ op.kind = "drop_index" =>
                    (IsForRemoved(op, old) <=> IsOneOf(op, "drop_index", old.name, old.indexes))
              /\ op.kind \notin {"drop_fk", "drop_index", "drop_table"} => ~IsForRemoved(op, old)
  BY OperationIs DEF IsForRemoved, IsOneOf
<1>5. /\ TellsApart(old.columns) /\ TellsApart(old.triggers) /\ TellsApart(old.checks)
  BY <1>2 DEF HoldableTable
<1>6. ASSUME NEW op, op.table = old.name, op.kind \in TableKinds
      PROVE  op \in E <=> IsForKept(op, old, t)
  <2>1. op \in E <=> IsForRemoved(op, old)
    BY <1>3, <1>6
  <2>2. CASE op.kind = "drop_index"
    <3>1. IsForKept(op, old, t) <=> IsMissing(op, "drop_index", t.name, old.indexes, t.indexes)
      BY <1>2, <2>2, KeptByKind
    <3> QED
      BY <1>1, <1>4, <2>1, <2>2, <3>1, EmptiedList
  <2>3. CASE op.kind # "drop_index"
    <3>1. ~IsForRemoved(op, old)
      BY <1>4, <1>6, <2>3 DEF TableKinds
    <3>2. CASE op.kind = "drop_trigger"
      BY <1>1, <1>2, <1>5, <2>1, <3>1, <3>2, KeptByKind, SameList
    <3>3. CASE op.kind = "drop_check"
      BY <1>1, <1>2, <1>5, <2>1, <3>1, <3>3, KeptByKind, SameList
    <3>4. CASE op.kind = "add_column"
      BY <1>1, <1>2, <1>5, <2>1, <3>1, <3>4, KeptByKind, SameList
    <3>5. CASE op.kind = "alter_column"
      BY <1>1, <1>2, <1>5, <2>1, <3>1, <3>5, KeptByKind, SameList
    <3>6. CASE op.kind = "drop_column"
      BY <1>1, <1>2, <1>5, <2>1, <3>1, <3>6, KeptByKind, SameList
    <3>7. CASE op.kind = "add_check"
      BY <1>1, <1>2, <1>5, <2>1, <3>1, <3>7, KeptByKind, SameList
    <3>8. CASE op.kind = "create_trigger"
      BY <1>1, <1>2, <1>5, <2>1, <3>1, <3>8, KeptByKind, SameList
    <3>9. CASE op.kind = "create_index"
      BY <1>1, <1>2, <2>1, <3>1, <3>9, KeptByKind, EmptiedList
    <3> QED
      BY <1>6, <2>3, <3>2, <3>3, <3>4, <3>5, <3>6, <3>7, <3>8, <3>9 DEF TableKinds
  <2> QED
    BY <2>2, <2>3
<1>7. ASSUME NEW op, op.table = old.name, op.kind \in {"add_fk", "drop_fk"}, e # "sqlite"
      PROVE  op \in E <=> IsForKept(op, old, t)
  <2>1. op \in E <=> IsForRemoved(op, old)
    BY <1>3, <1>7
  <2>2. CASE op.kind = "drop_fk"
    <3>1. IsForKept(op, old, t) <=> IsDrop(op, "drop_fk", t.name, t.fks, old.fks)
      BY <1>2, <2>2, KeptByKind
    <3> QED
      BY <1>1, <1>4, <1>7, <2>1, <2>2, <3>1, EmptiedList
  <2>3. CASE op.kind = "add_fk"
    <3>1. IsForKept(op, old, t) <=> IsAdd(op, "add_fk", t.name, t.fks, old.fks)
      BY <1>2, <2>3, KeptByKind
    <3> QED
      BY <1>1, <1>4, <1>7, <2>1, <2>3, <3>1, EmptiedList
  <2> QED
    BY <1>7, <2>2, <2>3
<1>8. ASSUME NEW op, op.table = old.name, op.kind = "rebuild_table", e = "sqlite"
      PROVE  op \in E <=> IsForKept(op, old, t)
  <2>1. op \notin E
    BY <1>3, <1>4, <1>8
  <2>2. ~IsForKept(op, old, t)
    BY <1>2, <1>8, KeptByKind DEF IsRebuild
  <2> QED
    BY <2>1, <2>2
<1> QED
  BY <1>1, <1>6, <1>7, <1>8 DEF OpsFor, t

(* On its course a table is brought from what it was to what it is to be. *)
LEMMA CourseFacts ==
    ASSUME NEW e, NEW a, NEW b, Holdable(a), Holdable(b), Carried(e, a, b), Declared(e, a),
           NEW E, AllOf(E, a, b), NEW old, NEW t, Course(e, a, b, old, t)
    PROVE  /\ IsTable(old) /\ IsTable(t) /\ HoldableTable(old) /\ HoldableTable(t)
           /\ OpsFor(e, old, t, E) /\ CarriedTable(e, old, t)
           /\ old.name = t.name
<1>1. CASE t \in ToSet(b.tables) /\ old = Base(e, a, t)
  <2>1. old.name = t.name
    <3>1. Has(a.tables, t.name) => IsList(a.tables) /\ Find(a.tables, t.name).name = t.name
      BY HoldableIsModel, FindFacts DEF IsModel
    <3> QED
      BY <1>1, <3>1 DEF Base
  <2> QED
    BY <1>1, <2>1, AllForTable DEF Carried
<1>2. CASE old \in ToSet(a.tables) /\ ~Has(b.tables, old.name) /\ t = Bare(e, old)
  BY <1>2, BareIsTable, BareOps DEF Bare
<1> QED
  BY <1>1, <1>2 DEF Course

(* Every operation on a table there is is one of a course. *)
LEMMA CourseOf ==
    ASSUME NEW e, NEW a, NEW b, Holdable(a), Holdable(b), NEW op, IsEmitted(op, a, b),
           op.kind \in WorkKinds
    PROVE  \E old, t : Course(e, a, b, old, t) /\ t.name = op.table
<1>1. ~IsForDatabase(op, a, b)
  BY DatabaseByKind DEF WorkKinds
<1>2. CASE \E t \in ToSet(b.tables) : op.table = t.name
  BY <1>2 DEF Course
<1>3. CASE \E t \in ToSet(a.tables) : ~Has(b.tables, t.name) /\ IsForRemoved(op, t)
  <2>1. PICK z \in ToSet(a.tables) : ~Has(b.tables, z.name) /\ IsForRemoved(op, z)
    BY <1>3
  <2>2. op.table = z.name
    BY <2>1, RemovedByKind
  <2>3. Bare(e, z).name = z.name
    BY DEF Bare
  <2> QED
    BY <2>1, <2>2, <2>3 DEF Course
<1>4. CASE \E t \in ToSet(b.tables) :
              Has(a.tables, t.name) /\ IsForKept(op, Find(a.tables, t.name), t)
  <2>1. PICK t \in ToSet(b.tables) :
              Has(a.tables, t.name) /\ IsForKept(op, Find(a.tables, t.name), t)
    BY <1>4
  <2>2. IsList(a.tables)
    BY HoldableIsModel DEF IsModel
  <2>3. Find(a.tables, t.name) \in ToSet(a.tables)
    BY <2>1, <2>2, FindFacts
  <2>4. IsTable(Find(a.tables, t.name)) /\ IsTable(t)
    BY <2>3, HoldableIsModel
  <2>5. op.table = t.name
    BY <2>1, <2>4, KeptByKind
  <2> QED
    BY <1>2, <2>5
<1>5. CASE \E t \in ToSet(b.tables) : ~Has(a.tables, t.name) /\ IsForCreated(op, t)
  BY <1>2, <1>5, OperationIs DEF IsForCreated, IsOneOf
<1> QED
  BY <1>1, <1>3, <1>4, <1>5 DEF IsEmitted

(* Views of both models, and what the engine takes of a table on its course. *)
LEMMA CourseTaken ==
    ASSUME NEW e, NEW a, NEW b, Holdable(a), Holdable(b), Accepted(e, a, b),
           NEW old, NEW t, Course(e, a, b, old, t),
           NEW V, V \subseteq ToSet(a.views) \cap ToSet(b.views)
    PROVE  ViewsRead(t, V) /\ Taken(e, old, t, V)
<1>1. Declared(e, b) /\ Declared(e, a)
  BY DEF Accepted
<1>2. CASE t \in ToSet(b.tables) /\ old = Base(e, a, t)
  <2>1. Find(b.tables, t.name) = t
    BY <1>2, FindApart DEF Holdable
  <2>2. ViewsRead(t, V)
    BY <1>1, <2>1 DEF ViewsRead, Declared
  <2>3. CASE Has(a.tables, t.name)
    <3>1. Taken(e, old, t, ToSet(a.views) \cap ToSet(b.views))
      BY <1>2, <2>3 DEF Accepted, Base
    <3>2. Taken(e, old, t, V)
      BY <3>1 DEF Taken
    <3> QED
      BY <2>2, <3>2
  <2>4. CASE ~Has(a.tables, t.name)
    <3>1. /\ old.columns = t.columns /\ old.checks = t.checks /\ old.indexes = <<>>
          /\ e = "sqlite" => old.fks = t.fks
          /\ \A c \in ToSet(old.columns) : Has(t.columns, c.name)
      BY <1>2, <2>4 DEF Base, Has, Names
    <3>2. HoldableTable(t)
      BY <1>2, HoldableIsModel
    <3>3. Redefined(t.columns, t.columns) = <<>>
      BY <3>2, SameList DEF HoldableTable
    <3>4. e = "sqlite" => ~NeedsRebuild(old, t)
      BY <3>1, <3>3 DEF NeedsRebuild
    <3>5. Changes(old, t) = {}
      BY <3>1 DEF Changes
    <3>6. ToSet(old.indexes) = {}
      BY <3>1, NoneHolds
    <3> QED
      BY <2>2, <3>1, <3>4, <3>5, <3>6 DEF Taken
  <2> QED
    BY <2>3, <2>4
<1>3. CASE old \in ToSet(a.tables) /\ ~Has(b.tables, old.name) /\ t = Bare(e, old)
  <2>1. /\ t.name = old.name /\ t.columns = old.columns
        /\ e # "sqlite" => t.fks = <<>>
        /\ \A c \in ToSet(old.columns) : Has(t.columns, c.name)
    BY <1>3 DEF Bare, Has, Names
  <2>2. \A v \in V : v.of.table # t.name
    BY <1>1, <1>3, <2>1 DEF Declared
  <2>3. e = "sqlite" => ~NeedsRebuild(old, t)
    BY <1>1, <1>3, BareIsTable
  <2>4. e # "sqlite" => ToSet(t.fks) = {}
    BY <2>1, NoneHolds
  <2> QED
    BY <2>1, <2>2, <2>3, <2>4 DEF ViewsRead, Taken
<1> QED
  BY <1>2, <1>3 DEF Course

-----------------------------------------------------------------------------
(* Before SQLite's rebuild *)

(* A table that is to be rebuilt has its columns added and dropped, and its    *)
(* indexes changed, in place before.                                        *)
BeforeRebuild(e, old, t, D, u) ==
    e = "sqlite" /\ NeedsRebuild(old, t) /\ ~IsRebuilt(D, t) =>
       /\ u.columns = BareColumns(old, t, D) /\ u.indexes = IndexesLeft(old, t, D)
       /\ u.fks = ToSet(old.fks)

(* So what is known of a table before its rebuild, and of one without, is the *)
(* same.                                                                    *)
LEMMA SoFarKnown ==
    ASSUME NEW old, NEW t, NEW D, NEW E, NEW op, Working(old, t, D, E, op),
           op.kind \in WorkKinds \ {"rebuild_table"}, NEW u,
           TableMidway(engine, old, t, D, u), BeforeRebuild(engine, old, t, D, u)
    PROVE  SoFar(old, t, D, u)
<1>1. /\ IsTable(old) /\ IsTable(t) /\ Staged(D, E, op) /\ D \subseteq E
      /\ engine = "sqlite" => OpsFor("sqlite", old, t, E)
  BY DEF Working, Staged
<1>2. ~IsRebuilt(D, t)
  BY <1>1, StagedByKind DEF IsRebuilt, OfKind
<1>3. /\ u.checks = ChecksLeft(engine, old, t, D) /\ u.triggers = TriggersLeft(engine, old, t, D)
      /\ u.pk = t.pk
  BY DEF TableMidway
<1>4. CASE engine # "sqlite"
  BY <1>3, <1>4 DEF TableMidway, SoFar
<1>5. CASE engine = "sqlite" /\ NeedsRebuild(old, t)
  BY <1>2, <1>3, <1>5 DEF BeforeRebuild, SoFar, FksLeft
<1>6. CASE engine = "sqlite" /\ ~NeedsRebuild(old, t)
  <2>1. OfKind(E, t.name, {"alter_column"}) = {}
    BY <1>1, <1>6, RebuildDone
  <2>2. \A o \in D : o.table = t.name => o.kind # "alter_column"
    BY <1>1, <2>1 DEF OfKind
  <2>3. OfKind(D, t.name, {"drop_column"} \cup {"add_column", "alter_column"})
          = OfKind(D, t.name, {"drop_column"} \cup {"add_column"})
    BY <2>2 DEF OfKind
  <2>4. OfKind(D, t.name, {"add_column", "alter_column"}) = OfKind(D, t.name, {"add_column"})
    BY <2>2 DEF OfKind
  <2>5. ColumnsLeft(old, t, D) = BareColumns(old, t, D)
    BY <2>3, <2>4 DEF ColumnsLeft, BareColumns, Left, Came
  <2> QED
    BY <1>3, <1>6, <2>5 DEF TableMidway, SoFar
<1> QED
  BY <1>4, <1>5, <1>6

(* Each operation on a column is one more of those before the rebuild. *)
LEMMA BareStep ==
    ASSUME NEW old, NEW t, NEW D, NEW E, NEW op, Working(old, t, D, E, op)
    PROVE  /\ op.kind = "add_column" =>
                 Put(BareColumns(old, t, D), op.arg) = BareColumns(old, t, D \cup {op})
           /\ op.kind = "drop_column" =>
                 /\ Less(BareColumns(old, t, D), op.arg.name) = BareColumns(old, t, D \cup {op})
                 /\ ~Has(t.columns, op.arg.name)
           /\ op.kind \notin {"add_column", "drop_column"} =>
                 BareColumns(old, t, D \cup {op}) = BareColumns(old, t, D)
<1> DEFINE n == t.name
           drops == {"drop_column"}
           puts == {"add_column"}
           X == ToSet(old.columns)
<1>1. /\ IsTable(old) /\ IsTable(t) /\ HoldableTable(old) /\ HoldableTable(t)
      /\ OpsFor(engine, old, t, E) /\ op \in E /\ D \subseteq E /\ op.table = n
  BY DEF Working, Staged
<1>2. \A o \in E : o.table = n /\ o.kind = "add_column" => o.arg \in ToSet(t.columns)
  BY <1>1, ColumnOps DEF OfKind
<1>3. TellsApart(t.columns)
  BY <1>1 DEF HoldableTable
<1>4. \A y \in Came(D, n, puts) : y \in ToSet(t.columns)
  BY <1>1, <1>2 DEF Came, OfKind
<1>5. CASE op.kind = "add_column"
  <2>1. OnlyItCame(D, op.table, puts, op.arg)
    BY <1>1, <1>2, <1>3, <1>4, <1>5, ToldByName DEF OnlyItCame
  <2>2. op.kind \in puts
    BY <1>5
  <2> HIDE DEF drops, puts
  <2>3. PutIsLeft(X, D, op, drops, puts)
    BY <2>1, <2>2, LeftPut
  <2> QED
    BY <1>1, <1>5, <2>3 DEF PutIsLeft, BareColumns, drops, puts
<1>6. CASE op.kind = "drop_column"
  <2>1. op \in OfKind(E, t.name, {"drop_column"})
    BY <1>1, <1>6 DEF OfKind
  <2>2. ~Has(t.columns, op.arg.name)
    BY <1>1, <2>1, ColumnOps
  <2>3. NoneCame(D, op.table, puts, op.arg.name)
    BY <1>1, <1>4, <2>2 DEF NoneCame, Has, Names
  <2>4. op.kind \in drops /\ op.kind \notin puts
    BY <1>6
  <2> HIDE DEF drops, puts
  <2>5. LessIsLeft(X, D, op, drops, puts)
    BY <2>3, <2>4, LeftLess
  <2> QED
    BY <1>1, <1>6, <2>2, <2>5 DEF LessIsLeft, BareColumns, drops, puts
<1>7. CASE op.kind \notin {"add_column", "drop_column"}
  <2>1. op.kind \notin drops \cup puts
    BY <1>7
  <2> HIDE DEF drops, puts
  <2>2. Left(X, D \cup {op}, n, drops, puts) = Left(X, D, n, drops, puts)
    BY <2>1, LeftStays
  <2> QED
    BY <1>7, <2>2 DEF BareColumns, drops, puts
<1> QED
  BY <1>5, <1>6, <1>7

(* An operation on another table, or none, leaves them. *)
LEMMA BareStays ==
    ASSUME NEW old, NEW t, NEW D, NEW op, op.table # t.name
    PROVE  BareColumns(old, t, D \cup {op}) = BareColumns(old, t, D)
<1> DEFINE drops == {"drop_column"}
           puts == {"add_column"}
<1> HIDE DEF drops, puts
<1>1. Left(ToSet(old.columns), D \cup {op}, t.name, drops, puts)
        = Left(ToSet(old.columns), D, t.name, drops, puts)
  BY LeftStays
<1> QED
  BY <1>1 DEF BareColumns, drops, puts

(* A table that an operation leaves as it is is as far before its rebuild. *)
LEMMA OtherBefore ==
    ASSUME NEW old, NEW t, NEW D, NEW op, NEW u, NEW v, Like(v, u),
           BeforeRebuild(engine, old, t, D, u),
           op.table # t.name
             \/ op.kind \notin {"add_column", "drop_column", "create_index", "drop_index"},
           BareColumns(old, t, D \cup {op}) = BareColumns(old, t, D)
    PROVE  BeforeRebuild(engine, old, t, D \cup {op}, v)
<1>1. IndexesLeft(old, t, D \cup {op}) = IndexesLeft(old, t, D)
  BY LeftsStay DEF OthersStay, IndexKinds
<1>2. IsRebuilt(D, t) => IsRebuilt(D \cup {op}, t)
  BY DEF IsRebuilt, OfKind
<1> QED
  BY <1>1, <1>2 DEF BeforeRebuild, Like

(* An operation brings a table that is to be rebuilt on. *)
LEMMA BeforeStep ==
    ASSUME NEW old, NEW t, NEW D, NEW E, NEW op, NEW d, IsCatalog(d), Shaped(op),
           NamesItsTable(op), Accepts(d, op),
           op.table = t.name => Working(old, t, D, E, op),
           op.kind \in {"create_table", "drop_table"} => op.table # t.name,
           engine = "sqlite" /\ NeedsRebuild(old, t) =>
              \A f \in ToSet(old.fks) : Has(t.columns, f.on),
           In(d.tables, t.name) => BeforeRebuild(engine, old, t, D, Get(d.tables, t.name)),
           In(Execute(d, op).tables, t.name)
    PROVE  BeforeRebuild(engine, old, t, D \cup {op}, Get(Execute(d, op).tables, t.name))
<1> DEFINE T == Execute(d, op).tables
           u == Get(d.tables, t.name)
<1> SUFFICES ASSUME engine = "sqlite", NeedsRebuild(old, t), ~IsRebuilt(D \cup {op}, t)
             PROVE  BeforeRebuild(engine, old, t, D \cup {op}, Get(T, t.name))
  BY DEF BeforeRebuild
<1>1. ~IsRebuilt(D, t)
  BY DEF IsRebuilt, OfKind
<1>2. ASSUME SameAt(d.tables, T, t.name),
             op.table # t.name
               \/ op.kind \notin {"add_column", "drop_column", "create_index", "drop_index"}
      PROVE  BeforeRebuild(engine, old, t, D \cup {op}, Get(T, t.name))
  <2>1. Like(Get(T, t.name), u) /\ In(d.tables, t.name)
    BY <1>2 DEF SameAt
  <2>2. BeforeRebuild(engine, old, t, D, u)
    BY <2>1
  <2>3. BareColumns(old, t, D \cup {op}) = BareColumns(old, t, D)
    BY <1>2, BareStep, BareStays
  <2> QED
    BY <1>2, <2>1, <2>2, <2>3, OtherBefore
<1>3. CASE op.kind \in DatabaseKinds \cup RowKinds \/ op.kind \in Skipped
  <2>1. SameAt(d.tables, T, t.name)
    BY <1>3, TablesLeft
  <2>2. op.kind \notin {"add_column", "drop_column", "create_index", "drop_index"}
    BY <1>3 DEF Skipped, DatabaseKinds, RowKinds
  <2> QED
    BY <1>2, <2>1, <2>2
<1>4. CASE op.kind = "drop_table"
  <2>1. In(d.tables, op.table)
    BY <1>4 DEF Accepts, Skipped
  <2>2. SameAt(d.tables, T, t.name)
    BY <1>4, <2>1, TableGone
  <2> QED
    BY <1>2, <1>4, <2>2
<1>5. CASE op.kind = "create_table"
  <2>1. SameAt(d.tables, T, t.name)
    BY <1>5, TableMade
  <2> QED
    BY <1>2, <1>5, <2>1
<1>6. CASE op.kind \in WorkKinds /\ op.kind \notin Skipped
  <2>1. op.kind \in {"add_column", "drop_column", "create_index", "drop_index", "rebuild_table"}
    BY <1>6 DEF WorkKinds, Skipped, DbObjects
  <2>2. In(d.tables, op.table)
    BY <1>6, <2>1 DEF Accepts
  <2>3. /\ Like(Get(T, op.table), Worked(d, op))
        /\ \A m : m # op.table => SameAt(d.tables, T, m)
    BY <1>6, <2>2, WorkDone
  <2>4. CASE op.table # t.name
    BY <1>2, <2>3, <2>4
  <2>5. CASE op.table = t.name
    <3>1. Working(old, t, D, E, op)
      BY <2>5
    <3>2. op.kind # "rebuild_table"
      BY <2>5 DEF IsRebuilt, OfKind
    <3>3. BeforeRebuild(engine, old, t, D, u)
      BY <2>2, <2>5
    <3>4. /\ u.columns = BareColumns(old, t, D) /\ u.indexes = IndexesLeft(old, t, D)
          /\ u.fks = ToSet(old.fks)
      BY <1>1, <3>3 DEF BeforeRebuild
    <3>5. IsHeld(u) /\ u = Named(d, op)
      <4>1. u \in d.tables
        BY <2>2, <2>5, Got
      <4> QED
        BY <2>5, <4>1 DEF IsCatalog, Named
    <3>6. PICK w : w = Worked(d, op)
      OBVIOUS
    <3>7. ASSUME /\ w.columns = BareColumns(old, t, D \cup {op})
                 /\ w.indexes = IndexesLeft(old, t, D \cup {op}) /\ w.fks = ToSet(old.fks)
          PROVE  BeforeRebuild(engine, old, t, D \cup {op}, Get(T, t.name))
      BY <2>3, <2>5, <3>6, <3>7 DEF Like, BeforeRebuild
    <3>8. op.kind \notin IndexKinds => IndexesLeft(old, t, D \cup {op}) = IndexesLeft(old, t, D)
      BY LeftsStay DEF OthersStay
    <3>9. CASE op.kind = "add_column"
      <4>1. w = [u EXCEPT !.columns = Put(@, op.arg)]
        BY <3>5, <3>6, <3>9 DEF Worked
      <4>2. w.columns = Put(u.columns, op.arg) /\ w.indexes = u.indexes /\ w.fks = u.fks
        BY <3>5, <4>1 DEF IsHeld
      <4>3. Put(BareColumns(old, t, D), op.arg) = BareColumns(old, t, D \cup {op})
        BY <3>1, <3>9, BareStep
      <4> QED
        BY <3>4, <3>7, <3>8, <3>9, <4>2, <4>3 DEF IndexKinds
    <3>10. CASE op.kind = "drop_column"
      <4>1. w = [u EXCEPT !.columns = Less(@, op.arg.name),
                          !.fks = {f \in @ : f.on # op.arg.name},
                          !.indexes = {i \in @ : i.on # op.arg.name}]
        BY <3>5, <3>6, <3>10 DEF Worked
      <4>2. /\ w.columns = Less(u.columns, op.arg.name)
            /\ w.fks = {f \in u.fks : f.on # op.arg.name}
            /\ w.indexes = {i \in u.indexes : i.on # op.arg.name}
        BY <3>5, <4>1 DEF IsHeld
      <4>3. /\ Less(BareColumns(old, t, D), op.arg.name) = BareColumns(old, t, D \cup {op})
            /\ ~Has(t.columns, op.arg.name)
        BY <3>1, <3>10, BareStep
      <4>4. \A i \in u.indexes : Has(t.columns, i.on)
        BY <3>1, <3>4, <3>10, IndexesStaying
      <4>5. w.indexes = u.indexes
        BY <4>2, <4>3, <4>4
      <4>6. w.fks = u.fks
        BY <3>4, <4>2, <4>3
      <4> QED
        BY <3>4, <3>7, <3>8, <3>10, <4>2, <4>3, <4>5, <4>6 DEF IndexKinds
    <3>11. CASE op.kind = "create_index"
      <4>1. w = [u EXCEPT !.indexes = Put(@, op.arg)]
        BY <3>5, <3>6, <3>11 DEF Worked
      <4>2. w.indexes = Put(u.indexes, op.arg) /\ w.columns = u.columns /\ w.fks = u.fks
        BY <3>5, <4>1 DEF IsHeld
      <4>3. Put(IndexesLeft(old, t, D), op.arg) = IndexesLeft(old, t, D \cup {op})
        BY <3>1, <3>11, IndexesStep
      <4>4. BareColumns(old, t, D \cup {op}) = BareColumns(old, t, D)
        BY <3>1, <3>11, BareStep
      <4> QED
        BY <3>4, <3>7, <4>2, <4>3, <4>4
    <3>12. CASE op.kind = "drop_index"
      <4>1. w = [u EXCEPT !.indexes = Less(@, op.arg.name)]
        BY <3>5, <3>6, <3>12 DEF Worked
      <4>2. w.indexes = Less(u.indexes, op.arg.name) /\ w.columns = u.columns /\ w.fks = u.fks
        BY <3>5, <4>1 DEF IsHeld
      <4>3. Less(IndexesLeft(old, t, D), op.arg.name) = IndexesLeft(old, t, D \cup {op})
        BY <3>1, <3>12, IndexesStep
      <4>4. BareColumns(old, t, D \cup {op}) = BareColumns(old, t, D)
        BY <3>1, <3>12, BareStep
      <4> QED
        BY <3>4, <3>7, <4>2, <4>3, <4>4
    <3> QED
      BY <2>1, <3>2, <3>9, <3>10, <3>11, <3>12
  <2> QED
    BY <2>4, <2>5
<1>7. op.kind \in DatabaseKinds \cup RowKinds \cup WorkKinds \cup {"create_table", "drop_table"}
  BY DEF Shaped, Kinds, DatabaseKinds, RowKinds, WorkKinds
<1> QED
  BY <1>3, <1>4, <1>5, <1>6, <1>7

-----------------------------------------------------------------------------
(* Every table on its course *)

(* A table that is there is as far on its course as D says. *)
CoursesMidway(e, a, b, D, d) ==
    \A old, t : Course(e, a, b, old, t) /\ In(d.tables, t.name) =>
        /\ TableMidway(e, old, t, D, Get(d.tables, t.name))
        /\ BeforeRebuild(e, old, t, D, Get(d.tables, t.name))

(* There is no table that was not there and has not been created, and none    *)
(* has gone but the dropped ones.                                           *)
TablesFrom(a, D, d) ==
    \A u \in d.tables : Has(a.tables, u.name) \/ OfKind(D, u.name, {"create_table"}) # {}
TablesStay(a, D, d) ==
    \A t \in ToSet(a.tables) : OfKind(D, t.name, {"drop_table"}) = {} => In(d.tables, t.name)

(* Raw DDL has run that was there or was to run, unless there is none to run. *)
RawMidway(a, b, D, d) ==
    \/ \A x \in ToSet(b.raw) : Has(a.raw, x.name)
    \/ d.raw \subseteq ToSet(a.raw) \cup Came(D, Everywhere, {"raw_sql"})

(* What a smooth migration finds, the operations D being done. *)
Going(e, a, b, D, d) ==
    /\ TablesMidway(e, a, b, D, d) /\ RestMidway(e, a, b, D, d)
    /\ CoursesMidway(e, a, b, D, d) /\ TablesFrom(a, D, d) /\ TablesStay(a, D, d)
    /\ RawMidway(a, b, D, d)

(* The old model has what a course starts from, if it has a table of the name. *)
LEMMA CourseOld ==
    ASSUME NEW e, NEW a, NEW b, Holdable(a), NEW old, NEW t, Course(e, a, b, old, t),
           Has(a.tables, t.name)
    PROVE  old \in ToSet(a.tables) /\ old.name = t.name
<1>1. CASE t \in ToSet(b.tables) /\ old = Base(e, a, t)
  <2>1. IsList(a.tables)
    BY HoldableIsModel DEF IsModel
  <2> QED
    BY <1>1, <2>1, FindFacts DEF Base
<1>2. CASE old \in ToSet(a.tables) /\ ~Has(b.tables, old.name) /\ t = Bare(e, old)
  BY <1>2 DEF Bare
<1> QED
  BY <1>1, <1>2 DEF Course

(* A catalog with the old model's structure is at the start of all courses. *)
LEMMA CoursesStart ==
    ASSUME NEW a, NEW b, NEW d, Holdable(a), Holdable(b), Carried(engine, a, b),
           Declared(engine, a), HasStructure(engine, d, a)
    PROVE  CoursesMidway(engine, a, b, {}, d)
<1> SUFFICES ASSUME NEW old, NEW t, Course(engine, a, b, old, t), In(d.tables, t.name)
             PROVE  /\ TableMidway(engine, old, t, {}, Get(d.tables, t.name))
                    /\ BeforeRebuild(engine, old, t, {}, Get(d.tables, t.name))
  BY DEF CoursesMidway
<1> DEFINE u == Get(d.tables, t.name)
<1>1. u \in d.tables /\ u.name = t.name
  BY Got
<1>2. Has(a.tables, t.name)
  BY <1>1 DEF HasStructure
<1>3. old \in ToSet(a.tables) /\ old.name = t.name
  BY <1>2, CourseOld
<1>4. IsAs(engine, u, old)
  BY <1>3 DEF HasStructure
<1>5. CarriedTable(engine, old, t)
  BY <1>3, BareIsTable DEF Course, Carried
<1>6. TableMidway(engine, old, t, {}, u)
  BY <1>4, <1>5, TableStarts
<1>7. /\ IndexesLeft(old, t, {}) = ToSet(old.indexes)
      /\ BareColumns(old, t, {}) = ToSet(old.columns)
  BY NothingLeft, FromNothing DEF BareColumns
<1>8. BeforeRebuild(engine, old, t, {}, u)
  BY <1>4, <1>7 DEF BeforeRebuild, IsAs
<1> QED
  BY <1>6, <1>8

(* So it is at the start of the migration. *)
LEMMA GoingStarts ==
    ASSUME NEW a, NEW b, NEW d, Holdable(a), Holdable(b), Carried(engine, a, b),
           Declared(engine, a), HasStructure(engine, d, a),
           (\A x \in ToSet(b.raw) : Has(a.raw, x.name)) \/ d.raw \subseteq ToSet(a.raw)
    PROVE  Going(engine, a, b, {}, d)
<1>1. TablesMidway(engine, a, b, {}, d) /\ RestMidway(engine, a, b, {}, d)
  BY TablesStart, RestStarts
<1>2. CoursesMidway(engine, a, b, {}, d)
  BY CoursesStart
<1>3. TablesFrom(a, {}, d) /\ TablesStay(a, {}, d)
  BY DEF HasStructure, TablesFrom, TablesStay
<1>4. RawMidway(a, b, {}, d)
  BY DEF RawMidway
<1> QED
  BY <1>1, <1>2, <1>3, <1>4 DEF Going

(* An operation brings every table on. *)
LEMMA CoursesStep ==
    ASSUME NEW a, NEW b, NEW D, NEW E, NEW op, NEW d, Underway(a, b, D, E, op, d),
           Accepted(engine, a, b), CoursesMidway(engine, a, b, D, d)
    PROVE  CoursesMidway(engine, a, b, D \cup {op}, Execute(d, op))
<1> DEFINE T == Execute(d, op).tables
<1> SUFFICES ASSUME NEW old, NEW t, Course(engine, a, b, old, t), In(T, t.name)
             PROVE  /\ TableMidway(engine, old, t, D \cup {op}, Get(T, t.name))
                    /\ BeforeRebuild(engine, old, t, D \cup {op}, Get(T, t.name))
  BY DEF CoursesMidway
<1>1. /\ Holdable(a) /\ Holdable(b) /\ IsEmitted(op, a, b) /\ IsCatalog(d)
      /\ Accepts(d, op) /\ Carried(engine, a, b) /\ AllOf(E, a, b) /\ Staged(D, E, op)
  BY DEF Underway, Staged, AllOf
<1>2. Shaped(op) /\ NamesItsTable(op)
  BY <1>1, EmittedIsShaped, EmittedTable
<1>3. Declared(engine, a)
  BY DEF Accepted
<1>4. /\ IsTable(old) /\ IsTable(t) /\ HoldableTable(old) /\ HoldableTable(t)
      /\ OpsFor(engine, old, t, E) /\ CarriedTable(engine, old, t) /\ old.name = t.name
  BY <1>1, <1>3, CourseFacts
<1>5. In(d.tables, t.name) =>
        /\ TableMidway(engine, old, t, D, Get(d.tables, t.name))
        /\ BeforeRebuild(engine, old, t, D, Get(d.tables, t.name))
  BY DEF CoursesMidway
<1>6. op.table = t.name => Working(old, t, D, E, op)
  BY <1>1, <1>4 DEF Working
<1>7. Taken(engine, old, t, {})
  BY <1>1, CourseTaken
<1>8. engine = "sqlite" /\ NeedsRebuild(old, t) => \A f \in ToSet(old.fks) : Has(t.columns, f.on)
  BY <1>7 DEF Taken
<1>9. ~(op.kind = "drop_table" /\ op.table = t.name)
  BY <1>1, <1>2, NamesKept
<1>10. CASE op.kind = "create_table" /\ op.table = t.name
  <2>1. PICK z \in ToSet(b.tables) :
           ~Has(a.tables, z.name) /\ op = Operation("create_table", z.name, z)
    BY <1>1, <1>10, EmittedTable
  <2>2. z.name = t.name
    BY <1>10, <2>1, OperationIs
  <2>3. t \in ToSet(b.tables) /\ old = Base(engine, a, t)
    BY <1>4, <2>1, <2>2 DEF Course, Has, Names
  <2>4. TableMidway(engine, old, t, D \cup {op}, Get(T, t.name))
    BY <1>5, <2>3, EachTableStep
  <2>5. engine = "sqlite" => ~NeedsRebuild(old, t)
    <3>1. old.columns = t.columns /\ old.checks = t.checks /\ (engine = "sqlite" => old.fks = t.fks)
      BY <2>1, <2>2, <2>3 DEF Base
    <3>2. Redefined(t.columns, t.columns) = <<>>
      BY <1>4, SameList DEF HoldableTable
    <3> QED
      BY <3>1, <3>2 DEF NeedsRebuild
  <2> QED
    BY <2>4, <2>5 DEF BeforeRebuild
<1>11. CASE ~(op.kind = "create_table" /\ op.table = t.name)
  <2>1. op.kind \in {"create_table", "drop_table"} => op.table # t.name
    BY <1>9, <1>11
  <2> HIDE DEF T
  <2>2. TableMidway(engine, old, t, D \cup {op}, Get(T, t.name))
    BY <1>1, <1>2, <1>5, <1>6, <2>1, OneTableStep DEF T
  <2>3. BeforeRebuild(engine, old, t, D \cup {op}, Get(T, t.name))
    BY <1>1, <1>2, <1>5, <1>6, <1>8, <2>1, BeforeStep DEF T
  <2> QED
    BY <2>2, <2>3
<1> QED
  BY <1>10, <1>11

(* Tables come with their creation and stay until they are dropped. *)
LEMMA PresenceStep ==
    ASSUME NEW a, NEW D, NEW op, NEW d, IsCatalog(d), Shaped(op), NamesItsTable(op),
           Accepts(d, op), TablesFrom(a, D, d), TablesStay(a, D, d)
    PROVE  /\ TablesFrom(a, D \cup {op}, Execute(d, op))
           /\ TablesStay(a, D \cup {op}, Execute(d, op))
<1> DEFINE T == Execute(d, op).tables
<1>1. /\ \A m : op.kind \notin {"create_table", "drop_table"} \/ m # op.table =>
            (In(T, m) <=> In(d.tables, m))
      /\ op.kind = "create_table" => In(T, op.table)
      /\ op.kind = "drop_table" => ~In(T, op.table)
  BY NamesKept
<1>2. ASSUME NEW u \in T
      PROVE  Has(a.tables, u.name) \/ OfKind(D \cup {op}, u.name, {"create_table"}) # {}
  <2>1. In(T, u.name)
    BY DEF In
  <2>2. CASE In(d.tables, u.name)
    BY <2>2 DEF TablesFrom, In, OfKind
  <2>3. CASE ~In(d.tables, u.name)
    <3>1. op.kind = "create_table" /\ op.table = u.name
      BY <1>1, <2>1, <2>3
    <3> QED
      BY <3>1 DEF OfKind
  <2> QED
    BY <2>2, <2>3
<1>3. ASSUME NEW t \in ToSet(a.tables), OfKind(D \cup {op}, t.name, {"drop_table"}) = {}
      PROVE  In(T, t.name)
  <2>1. OfKind(D, t.name, {"drop_table"}) = {} /\ ~(op.kind = "drop_table" /\ op.table = t.name)
    BY <1>3 DEF OfKind
  <2>2. In(d.tables, t.name)
    BY <2>1 DEF TablesStay
  <2> QED
    BY <1>1, <2>1, <2>2
<1> QED
  BY <1>2, <1>3 DEF TablesFrom, TablesStay

(* Raw DDL comes with its operation and no other way. *)
LEMMA RawStep ==
    ASSUME NEW a, NEW b, NEW D, NEW E, NEW op, NEW d, Underway(a, b, D, E, op, d),
           RawMidway(a, b, D, d)
    PROVE  RawMidway(a, b, D \cup {op}, Execute(d, op))
<1>1. /\ IsCatalog(d) /\ Shaped(op)
      /\ op.kind \in DatabaseKinds => op.table = Everywhere
  BY UnderwayFacts
<1>2. Came(D, Everywhere, {"raw_sql"}) \subseteq Came(D \cup {op}, Everywhere, {"raw_sql"})
  BY DEF Came, OfKind
<1>3. CASE op.kind = "raw_sql"
  <2>1. Execute(d, op).raw = d.raw \cup {op.arg}
    BY <1>1, <1>3 DEF Execute, Skipped, IsCatalog
  <2>2. op.arg \in Came(D \cup {op}, Everywhere, {"raw_sql"})
    BY <1>1, <1>3 DEF Came, OfKind, DatabaseKinds
  <2> QED
    BY <1>2, <2>1, <2>2 DEF RawMidway
<1>4. CASE op.kind # "raw_sql"
  <2>1. Execute(d, op).raw = d.raw
    <3>1. CASE op.kind \notin DatabaseKinds \/ op.kind \in Skipped
      BY <1>1, <3>1, RestKept DEF SameRest
    <3>2. CASE op.kind \in DatabaseKinds /\ op.kind \notin Skipped
      BY <1>1, <1>4, <3>2 DEF DatabaseKinds, Execute, IsCatalog
    <3> QED
      BY <3>1, <3>2
  <2> QED
    BY <1>2, <2>1 DEF RawMidway
<1> QED
  BY <1>3, <1>4

(* So each operation that the engine takes brings the migration on. *)
LEMMA GoingStep ==
    ASSUME NEW a, NEW b, NEW D, NEW E, NEW op, NEW d, Underway(a, b, D, E, op, d),
           Accepted(engine, a, b), Going(engine, a, b, D, d)
    PROVE  Going(engine, a, b, D \cup {op}, Execute(d, op))
<1>1. /\ IsCatalog(d) /\ Shaped(op) /\ IsEmitted(op, a, b) /\ Holdable(a) /\ Holdable(b)
      /\ Accepts(d, op)
  BY UnderwayFacts DEF Underway
<1>2. NamesItsTable(op)
  BY <1>1, EmittedTable
<1>3. /\ TablesMidway(engine, a, b, D \cup {op}, Execute(d, op))
      /\ RestMidway(engine, a, b, D \cup {op}, Execute(d, op))
  BY TablesStep, RestStep DEF Going
<1>4. CoursesMidway(engine, a, b, D \cup {op}, Execute(d, op))
  BY CoursesStep DEF Going
<1>5. /\ TablesFrom(a, D \cup {op}, Execute(d, op))
      /\ TablesStay(a, D \cup {op}, Execute(d, op))
  BY <1>1, <1>2, PresenceStep DEF Going
<1>6. RawMidway(a, b, D \cup {op}, Execute(d, op))
  BY RawStep DEF Going
<1> QED
  BY <1>3, <1>4, <1>5, <1>6 DEF Going

-----------------------------------------------------------------------------
(* What the engine takes of a migration *)

(* The next operation of a smooth migration. *)
Poised(a, b, D, E, op, d) ==
    /\ engine \in {"postgres", "mysql", "sqlserver", "sqlite"}
    /\ Holdable(a) /\ Holdable(b) /\ Carried(engine, a, b) /\ Accepted(engine, a, b)
    /\ AllOf(E, a, b) /\ Staged(D, E, op) /\ op \notin D
    /\ IsCatalog(d) /\ RowLess(d.tables) /\ Going(engine, a, b, D, d)

(* What that says at once. *)
LEMMA PoisedFacts ==
    ASSUME NEW a, NEW b, NEW D, NEW E, NEW op, NEW d, Poised(a, b, D, E, op, d)
    PROVE  /\ Holdable(a) /\ Holdable(b) /\ Declared(engine, a) /\ Declared(engine, b)
           /\ IsEmitted(op, a, b) /\ NotYet(D, E, op) /\ Staged(D, E, op) /\ AllOf(E, a, b)
           /\ \A o \in D : o \in E /\ IsEmitted(o, a, b)
           /\ IsCatalog(d) /\ TablesMidway(engine, a, b, D, d) /\ RestMidway(engine, a, b, D, d)
           /\ CoursesMidway(engine, a, b, D, d) /\ TablesFrom(a, D, d) /\ TablesStay(a, D, d)
           /\ RawMidway(a, b, D, d)
           /\ Shaped(op) /\ NamesItsTable(op)
<1>1. /\ Holdable(a) /\ Holdable(b) /\ Accepted(engine, a, b) /\ AllOf(E, a, b)
      /\ Staged(D, E, op) /\ op \notin D /\ IsCatalog(d) /\ Going(engine, a, b, D, d)
  BY DEF Poised
<1>2. op \in E /\ D \subseteq E
  BY <1>1 DEF Staged
<1>3. IsEmitted(op, a, b) /\ \A o \in D : o \in E /\ IsEmitted(o, a, b)
  BY <1>1, <1>2 DEF AllOf
<1>4. Shaped(op) /\ NamesItsTable(op)
  BY <1>1, <1>3, EmittedIsShaped, EmittedTable
<1>5. NotYet(D, E, op)
  BY <1>1, <1>2 DEF NotYet
<1>6. Declared(engine, a) /\ Declared(engine, b)
  BY <1>1 DEF Accepted
<1> QED
  BY <1>1, <1>3, <1>4, <1>5, <1>6 DEF Going

(* The operations on views are those that drop and add the redefined. *)
LEMMA ViewOps ==
    ASSUME NEW a, NEW b, Holdable(a), Holdable(b), NEW E, AllOf(E, a, b),
           NEW drops, drops = {"drop_view"}, NEW puts, puts = {"create_view"}
    PROVE  /\ DropsRedefined(E, Everywhere, drops, a.views, b.views)
           /\ AddsRedefined(E, Everywhere, puts, a.views, b.views)
           /\ RedefinedDone(E, Everywhere, drops, puts, a.views, b.views)
<1>1. /\ \A op : op.table = Everywhere /\ op.kind \in drops =>
            (op \in E <=> IsDrop(op, op.kind, Everywhere, b.views, a.views))
      /\ \A op : op.table = Everywhere /\ op.kind \in puts =>
            (op \in E <=> IsAdd(op, op.kind, Everywhere, b.views, a.views))
  BY DatabaseOp, DatabaseByKind DEF DatabaseKinds, AllOf
<1>2. TellsApart(a.views) /\ TellsApart(b.views)
  BY DEF Holdable
<1>3. "drop_view" \in drops /\ "create_view" \in puts
  OBVIOUS
<1>4. /\ DropsRedefined(E, Everywhere, drops, a.views, b.views)
      /\ AddsRedefined(E, Everywhere, puts, a.views, b.views)
  BY <1>1 DEF DropsRedefined, AddsRedefined
<1>5. RedefinedDone(E, Everywhere, drops, puts, a.views, b.views)
  BY <1>2, <1>3, <1>4, DropsAndAdds
<1> QED
  BY <1>4, <1>5

(* Views that go have gone after the first stages, and views that come come    *)
(* in the last.                                                             *)
LEMMA ViewsThen ==
    ASSUME NEW a, NEW b, NEW D, NEW E, NEW op, NEW d, Poised(a, b, D, E, op, d)
    PROVE  /\ op.kind \notin {"create_view", "drop_table", "drop_function"} =>
                 d.views \subseteq ToSet(a.views)
           /\ op.kind \notin {"ensure_extension", "drop_view"} =>
                 d.views \subseteq ToSet(b.views)
           /\ op.kind \in {"drop_table", "drop_function"} => d.views = ToSet(b.views)
<1> DEFINE X == ToSet(a.views)
           drops == {"drop_view"}
           puts == {"create_view"}
<1>1. /\ Holdable(a) /\ Holdable(b) /\ AllOf(E, a, b) /\ Staged(D, E, op)
      /\ Shaped(op) /\ RestMidway(engine, a, b, D, d)
  BY PoisedFacts
<1>2. d.views = Left(X, D, Everywhere, drops, puts)
  BY <1>1 DEF RestMidway, ViewsLeft
<1>3. /\ Left(X, E, Everywhere, drops, puts) = ToSet(b.views)
      /\ \A o \in OfKind(E, Everywhere, puts) : o.arg \in ToSet(b.views)
      /\ \A x \in X : x \notin ToSet(b.views) =>
            \E o \in OfKind(E, Everywhere, drops) : o.arg.name = x.name
  BY <1>1, ViewOps DEF RedefinedDone
<1>4. D \subseteq E
  BY <1>1 DEF Staged
<1>5. ASSUME op.kind \notin {"create_view", "drop_table", "drop_function"}
      PROVE  d.views \subseteq X
  <2>1. \A o \in D : o.kind # "create_view"
    BY <1>1, <1>5, StageByKind DEF Staged, Shaped, Kinds, RowKinds
  <2>2. Came(D, Everywhere, puts) = {}
    BY <2>1 DEF Came, OfKind
  <2> QED
    BY <1>2, <2>2 DEF Left
<1>6. ASSUME op.kind \notin {"ensure_extension", "drop_view"}
      PROVE  d.views \subseteq ToSet(b.views)
  <2>1. \A o \in E : o.kind = "drop_view" => o \in D
    BY <1>1, <1>6, StageByKind DEF Staged, Shaped, Kinds, RowKinds
  <2> SUFFICES ASSUME NEW v \in d.views PROVE v \in ToSet(b.views)
    OBVIOUS
  <2>2. CASE v \in Came(D, Everywhere, puts)
    BY <1>3, <1>4, <2>2 DEF Came, OfKind
  <2>3. CASE v \notin Came(D, Everywhere, puts)
    <3>1. v \in X /\ \A o \in OfKind(D, Everywhere, drops \cup puts) : o.arg.name # v.name
      BY <1>2, <2>3 DEF Left
    <3> QED
      BY <1>3, <2>1, <3>1 DEF OfKind
  <2> QED
    BY <2>2, <2>3
<1>7. ASSUME op.kind \in {"drop_table", "drop_function"}
      PROVE  d.views = ToSet(b.views)
  <2>1. \A o \in E : o.kind \in {"drop_view", "create_view"} => o \in D
    BY <1>1, <1>7, StageByKind DEF Staged
  <2>2. AllDone(D, E, Everywhere, drops \cup puts)
    BY <2>1 DEF AllDone, OfKind
  <2> HIDE DEF drops, puts
  <2>3. Left(X, D, Everywhere, drops, puts) = Left(X, E, Everywhere, drops, puts)
    BY <1>4, <2>2, LeftSame
  <2> QED
    BY <1>2, <1>3, <2>3
<1> QED
  BY <1>5, <1>6, <1>7

(* When a trigger is created, the functions of the new model are there. *)
LEMMA FunctionsThen ==
    ASSUME NEW a, NEW b, NEW D, NEW E, NEW op, NEW d, Poised(a, b, D, E, op, d),
           engine = "postgres", op.kind = "create_trigger", NEW n, Has(b.functions, n)
    PROVE  In(d.functions, n)
<1> DEFINE X == ToSet(a.functions)
           drops == {"drop_function"}
           puts == {"create_function"}
<1>1. /\ Holdable(a) /\ Holdable(b) /\ AllOf(E, a, b) /\ Staged(D, E, op)
      /\ RestMidway(engine, a, b, D, d)
  BY PoisedFacts
<1>2. d.functions = Left(X, D, Everywhere, drops, puts)
  BY <1>1 DEF RestMidway, FunctionsLeft
<1>3. Left(X, E, Everywhere, drops, puts) = ToSet(b.functions)
  BY <1>1, FunctionsDone DEF FunctionsLeft, AllOf
<1>4. D \subseteq E /\ \A o \in E : o.kind = "create_function" => o \in D
  BY <1>1, StageByKind DEF Staged
<1>5. PICK f \in ToSet(b.functions) : f.name = n
  BY DEF Has, Names
<1>6. CASE f \in Came(E, Everywhere, puts)
  <2>1. f \in Came(D, Everywhere, puts)
    BY <1>4, <1>6 DEF Came, OfKind
  <2> QED
    BY <1>2, <1>5, <2>1 DEF Left, In
<1>7. CASE f \notin Came(E, Everywhere, puts)
  <2>1. f \in X /\ \A o \in OfKind(E, Everywhere, drops \cup puts) : o.arg.name # f.name
    BY <1>3, <1>5, <1>7 DEF Left
  <2>2. f \in Left(X, D, Everywhere, drops, puts)
    BY <1>4, <2>1 DEF Left, OfKind
  <2> QED
    BY <1>2, <1>5, <2>2 DEF In
<1> QED
  BY <1>6, <1>7

(* When all tables are created, those of the new model are there. *)
LEMMA NewTablesThen ==
    ASSUME NEW a, NEW b, NEW D, NEW E, NEW op, NEW d, Poised(a, b, D, E, op, d),
           op.kind \notin {"ensure_extension", "drop_view", "drop_trigger", "drop_fk",
                           "drop_check", "drop_index", "create_table"},
           NEW n, Has(b.tables, n)
    PROVE  In(d.tables, n)
<1>1. /\ Holdable(a) /\ Holdable(b) /\ AllOf(E, a, b) /\ Staged(D, E, op)
      /\ Shaped(op) /\ TablesMidway(engine, a, b, D, d)
  BY PoisedFacts
<1>2. PICK t \in ToSet(b.tables) : t.name = n
  BY DEF Has, Names
<1>3. CASE Has(a.tables, n)
  BY <1>1, <1>2, <1>3 DEF TablesMidway
<1>4. CASE ~Has(a.tables, n)
  <2>1. PICK o : o = Operation("create_table", t.name, t)
    OBVIOUS
  <2>2. o.kind = "create_table" /\ o.table = t.name
    BY <2>1, OperationIs
  <2>3. IsEmitted(o, a, b)
    BY <1>1, <1>2, <1>4, <2>1, <2>2, ForTable
  <2>4. o \in E
    BY <1>1, <2>3 DEF AllOf
  <2>5. StageOf(o) < StageOf(op)
    BY <1>1, <2>2, StageByKind DEF Shaped, Kinds, RowKinds
  <2>6. o \in OfKind(D, t.name, {"create_table"})
    BY <1>1, <2>2, <2>4, <2>5 DEF Staged, OfKind
  <2> QED
    BY <1>1, <1>2, <2>6 DEF TablesMidway
<1> QED
  BY <1>3, <1>4

(* Until the first is dropped, those of the old model are. *)
LEMMA OldTablesThen ==
    ASSUME NEW a, NEW b, NEW D, NEW E, NEW op, NEW d, Poised(a, b, D, E, op, d),
           op.kind \notin {"drop_table", "drop_function"}, NEW n, Has(a.tables, n)
    PROVE  In(d.tables, n)
<1>1. Staged(D, E, op) /\ Shaped(op) /\ TablesStay(a, D, d)
  BY PoisedFacts
<1>2. \A o \in D : o.kind # "drop_table"
  BY <1>1, StageByKind DEF Staged, Shaped, Kinds, RowKinds
<1>3. OfKind(D, n, {"drop_table"}) = {}
  BY <1>2 DEF OfKind
<1> QED
  BY <1>1, <1>3 DEF TablesStay, Has, Names

(* The table of an operation on a table is there. *)
LEMMA TableThere ==
    ASSUME NEW a, NEW b, NEW D, NEW E, NEW op, NEW d, Poised(a, b, D, E, op, d),
           op.kind \in WorkKinds
    PROVE  In(d.tables, op.table)
<1>1. /\ Holdable(a) /\ Holdable(b) /\ IsEmitted(op, a, b)
  BY PoisedFacts
<1>2. op.kind \notin {"drop_table", "drop_function", "create_table"}
  BY DEF WorkKinds
<1>3. CASE Has(a.tables, op.table)
  BY <1>2, <1>3, OldTablesThen
<1>4. CASE ~Has(a.tables, op.table)
  <2>1. ~IsForDatabase(op, a, b)
    BY DatabaseByKind DEF WorkKinds
  <2>2. ASSUME NEW z \in ToSet(a.tables) PROVE ~IsForRemoved(op, z)
    BY <1>4, RemovedByKind DEF Has, Names
  <2>3. ASSUME NEW t \in ToSet(b.tables), Has(a.tables, t.name)
        PROVE  ~IsForKept(op, Find(a.tables, t.name), t)
    <3>1. Has(a.tables, t.name) /\ IsList(a.tables)
      BY <1>1, <2>3, HoldableIsModel DEF IsModel
    <3>2. Find(a.tables, t.name) \in ToSet(a.tables)
      BY <3>1, FindFacts
    <3>3. IsTable(Find(a.tables, t.name)) /\ IsTable(t)
      BY <1>1, <3>2, HoldableIsModel
    <3> QED
      BY <1>4, <3>1, <3>3, KeptByKind
  <2>4. PICK t \in ToSet(b.tables) : ~Has(a.tables, t.name) /\ IsForCreated(op, t)
    BY <1>1, <2>1, <2>2, <2>3 DEF IsEmitted
  <2>5. /\ op.table = t.name
        /\ op.kind \in {"create_table", "add_fk", "create_index", "create_trigger", "insert_data"}
    BY <2>4, OperationIs DEF IsForCreated, IsOneOf
  <2>6. Has(b.tables, op.table)
    BY <2>5 DEF Has, Names
  <2> QED
    BY <1>2, <2>5, <2>6, NewTablesThen
<1> QED
  BY <1>3, <1>4

(* What is done to a table on its course, *)
LEMMA TableWorkTaken ==
    ASSUME NEW a, NEW b, NEW D, NEW E, NEW op, NEW d, Poised(a, b, D, E, op, d),
           op.kind \in WorkKinds
    PROVE  Accepts(d, op)
<1>1. /\ Holdable(a) /\ Holdable(b) /\ Declared(engine, a) /\ Declared(engine, b)
      /\ IsEmitted(op, a, b) /\ NotYet(D, E, op) /\ Staged(D, E, op) /\ AllOf(E, a, b)
      /\ IsCatalog(d) /\ CoursesMidway(engine, a, b, D, d)
  BY PoisedFacts
<1>2. /\ engine \in {"postgres", "mysql", "sqlserver", "sqlite"}
      /\ Carried(engine, a, b) /\ Accepted(engine, a, b) /\ RowLess(d.tables)
      /\ op \notin D /\ op \in E
  BY <1>1 DEF Poised, NotYet
<1>3. PICK old, t : Course(engine, a, b, old, t) /\ t.name = op.table
  BY <1>1, CourseOf
<1>4. /\ IsTable(old) /\ IsTable(t) /\ HoldableTable(old) /\ HoldableTable(t)
      /\ OpsFor(engine, old, t, E) /\ CarriedTable(engine, old, t)
  BY <1>1, <1>2, <1>3, CourseFacts
<1>5. Working(old, t, D, E, op)
  BY <1>1, <1>3, <1>4 DEF Working
<1>6. In(d.tables, op.table)
  BY TableThere
<1>7. d.views \subseteq ToSet(a.views) \cap ToSet(b.views)
  <2>1. op.kind \notin {"create_view", "drop_table", "drop_function", "ensure_extension",
                        "drop_view"}
    BY DEF WorkKinds
  <2> QED
    BY <2>1, ViewsThen
<1>8. ViewsRead(t, d.views) /\ Taken(engine, old, t, d.views)
  BY <1>1, <1>2, <1>3, <1>7, CourseTaken
<1>9. op.kind # "rebuild_table" => SoFar(old, t, D, Named(d, op))
  <2>1. /\ TableMidway(engine, old, t, D, Named(d, op))
        /\ BeforeRebuild(engine, old, t, D, Named(d, op))
    BY <1>1, <1>3, <1>6 DEF CoursesMidway, Named
  <2> QED
    BY <1>5, <2>1, SoFarKnown
<1>10. Ready(old, t, D, E, op, d)
  BY <1>1, <1>2, <1>5, <1>6, <1>8, <1>9 DEF Ready
<1>11. CASE op.kind \in Skipped
  BY <1>11 DEF Accepts
<1>12. CASE op.kind \notin Skipped
  <2>1. ASSUME op.kind = "add_fk" PROVE In(d.tables, op.arg.to)
    <3>1. engine # "sqlite"
      BY <1>12, <2>1 DEF Skipped
    <3>2. op \in OfKind(E, t.name, {"add_fk"})
      BY <1>2, <1>3, <2>1 DEF OfKind
    <3>3. op.arg \in ToSet(t.fks)
      BY <1>4, <3>1, <3>2, FksDone
    <3>4. t \in ToSet(b.tables)
      <4>1. Bare(engine, old).fks = <<>>
        BY <3>1 DEF Bare
      <4> QED
        BY <1>3, <3>3, <4>1, NoneHolds DEF Course
    <3>5. Has(b.tables, op.arg.to)
      BY <1>1, <3>3, <3>4 DEF Declared
    <3> QED
      BY <2>1, <3>5, NewTablesThen
  <2>2. ASSUME op.kind = "create_trigger", engine = "postgres"
        PROVE  In(d.functions, op.arg.calls)
    <3>1. op \in OfKind(E, t.name, {"create_trigger"})
      BY <1>2, <1>3, <2>2 DEF OfKind
    <3>2. op.arg \in ToSet(t.triggers)
      BY <1>4, <3>1, TriggersDone
    <3>3. t \in ToSet(b.tables)
      <4>1. ASSUME t.triggers = old.triggers PROVE FALSE
        <5>1. IsForKept(op, old, t)
          BY <1>2, <1>3, <1>4, <2>2 DEF OpsFor, TableKinds
        <5>2. IsAdd(op, op.kind, t.name, t.triggers, old.triggers)
          BY <1>4, <2>2, <5>1, KeptByKind
        <5>3. TellsApart(t.triggers)
          BY <1>4 DEF HoldableTable
        <5> QED
          BY <4>1, <5>2, <5>3, SameList
      <4>2. Bare(engine, old).triggers = old.triggers
        BY DEF Bare
      <4> QED
        BY <1>3, <4>1, <4>2 DEF Course
    <3>4. Has(b.functions, op.arg.calls)
      BY <1>1, <2>2, <3>2, <3>3 DEF Declared
    <3> QED
      BY <2>2, <3>4, FunctionsThen
  <2> QED
    BY <1>10, <2>1, <2>2, WorkTaken
<1> QED
  BY <1>11, <1>12

(* A table that is created is not there yet, nor is a view of its name. *)
LEMMA CreateTableTaken ==
    ASSUME NEW a, NEW b, NEW D, NEW E, NEW op, NEW d, Poised(a, b, D, E, op, d),
           op.kind = "create_table"
    PROVE  Accepts(d, op)
<1>1. /\ Holdable(a) /\ Holdable(b) /\ Declared(engine, b) /\ IsEmitted(op, a, b)
      /\ NotYet(D, E, op) /\ \A o \in D : IsEmitted(o, a, b)
      /\ TablesFrom(a, D, d)
  BY PoisedFacts
<1>2. PICK t \in ToSet(b.tables) :
         ~Has(a.tables, t.name) /\ op = Operation("create_table", t.name, t)
  BY <1>1, EmittedTable
<1>3. op.table = t.name
  BY <1>2, OperationIs
<1>4. ~In(d.tables, op.table)
  <2> SUFFICES ASSUME NEW u \in d.tables, u.name = t.name PROVE FALSE
    BY <1>3 DEF In
  <2>1. PICK o \in D : o.kind = "create_table" /\ o.table = t.name
    BY <1>1, <1>2 DEF TablesFrom, OfKind
  <2>2. PICK z \in ToSet(b.tables) : o = Operation("create_table", z.name, z)
    BY <1>1, <2>1, EmittedTable
  <2>3. z.name = t.name
    BY <2>1, <2>2, OperationIs
  <2>4. z = t
    BY <1>1, <2>3, ToldByName DEF Holdable
  <2> QED
    BY <1>1, <1>2, <2>2, <2>4 DEF NotYet
<1>5. ~In(d.views, op.table)
  <2>1. d.views \subseteq ToSet(b.views)
    BY ViewsThen
  <2>2. Has(b.tables, t.name)
    BY DEF Has, Names
  <2> QED
    BY <1>1, <1>3, <2>1, <2>2 DEF Declared, In
<1> QED
  BY <1>4, <1>5 DEF Accepts

(* Every table there is is on a course. *)
LEMMA CourseForEach ==
    ASSUME NEW a, NEW b, NEW D, NEW d, NEW e, TablesMidway(e, a, b, D, d), NEW u \in d.tables
    PROVE  \E old, t : Course(e, a, b, old, t) /\ t.name = u.name
<1>1. CASE Has(b.tables, u.name)
  <2>1. PICK t \in ToSet(b.tables) : t.name = u.name
    BY <1>1 DEF Has, Names
  <2> QED
    BY <2>1 DEF Course
<1>2. CASE ~Has(b.tables, u.name)
  <2>1. PICK old \in ToSet(a.tables) : old.name = u.name
    BY <1>2 DEF TablesMidway, Has, Names
  <2>2. Bare(e, old).name = old.name
    BY DEF Bare
  <2> QED
    BY <1>2, <2>1, <2>2 DEF Course
<1> QED
  BY <1>1, <1>2

(* When tables go, the foreign keys are those of the new model, and of the      *)
(* tables that go there are none.                                           *)
LEMMA KeysThen ==
    ASSUME NEW a, NEW b, NEW D, NEW E, NEW op, NEW d, Poised(a, b, D, E, op, d),
           op.kind = "drop_table", engine # "sqlite",
           NEW u \in d.tables, NEW f \in u.fks
    PROVE  Has(b.tables, f.to)
<1>1. /\ Holdable(a) /\ Holdable(b) /\ Declared(engine, a) /\ Declared(engine, b)
      /\ Staged(D, E, op) /\ AllOf(E, a, b) /\ IsCatalog(d) /\ CoursesMidway(engine, a, b, D, d)
      /\ TablesMidway(engine, a, b, D, d) /\ D \subseteq E
  BY PoisedFacts DEF NotYet
<1>2. PICK old, t : Course(engine, a, b, old, t) /\ t.name = u.name
  BY <1>1, CourseForEach
<1>3. /\ IsTable(old) /\ IsTable(t) /\ HoldableTable(old) /\ HoldableTable(t)
      /\ OpsFor(engine, old, t, E)
  BY <1>1, <1>2, CourseFacts DEF Poised
<1>4. In(d.tables, t.name) /\ Get(d.tables, t.name) = u
  <2>1. \A y \in d.tables : y.name = u.name => y = u
    BY <1>1 DEF IsCatalog, Apart
  <2> QED
    BY <1>2, <2>1, GotOnly
<1>5. u.fks = FksLeft(engine, old, t, D)
  BY <1>1, <1>2, <1>4 DEF CoursesMidway, TableMidway
<1>6. FksLeft(engine, old, t, D) = FksLeft(engine, old, t, E)
  <2> DEFINE drops == {"drop_fk"}
             puts == {"add_fk"}
  <2>1. \A o \in E : o.kind \in {"drop_fk", "add_fk"} => o \in D
    BY <1>1, StageByKind DEF Staged
  <2>2. AllDone(D, E, t.name, drops \cup puts)
    BY <2>1 DEF AllDone, OfKind
  <2> HIDE DEF drops, puts
  <2>3. Left(ToSet(old.fks), D, t.name, drops, puts) = Left(ToSet(old.fks), E, t.name, drops, puts)
    BY <1>1, <2>2, LeftSame
  <2> QED
    BY <2>3 DEF FksLeft, drops, puts
<1>7. f \in ToSet(t.fks)
  BY <1>3, <1>5, <1>6, FksDone
<1>8. t \in ToSet(b.tables)
  <2>1. Bare(engine, old).fks = <<>>
    BY DEF Bare
  <2> QED
    BY <1>2, <1>7, <2>1, NoneHolds DEF Course
<1> QED
  BY <1>1, <1>7, <1>8 DEF Declared

(* What a DROP TABLE that is emitted names. *)
LEMMA DroppedTable ==
    ASSUME NEW a, NEW b, Holdable(a), Holdable(b), NEW op, IsEmitted(op, a, b),
           op.kind = "drop_table"
    PROVE  \E t \in ToSet(a.tables) :
              ~Has(b.tables, t.name) /\ op = Operation("drop_table", t.name, t)
<1>1. ~IsForDatabase(op, a, b)
  BY DatabaseByKind
<1>2. ASSUME NEW t \in ToSet(b.tables), Has(a.tables, t.name)
      PROVE  ~IsForKept(op, Find(a.tables, t.name), t)
  <2>1. Has(a.tables, t.name) /\ IsList(a.tables)
    BY <1>2, HoldableIsModel DEF IsModel
  <2>2. Find(a.tables, t.name) \in ToSet(a.tables)
    BY <2>1, FindFacts
  <2>3. IsTable(Find(a.tables, t.name)) /\ IsTable(t)
    BY <2>2, HoldableIsModel
  <2> QED
    BY <2>3, KeptByKind
<1>3. ASSUME NEW t \in ToSet(b.tables) PROVE ~IsForCreated(op, t)
  BY OperationIs DEF IsForCreated, IsOneOf
<1>4. PICK t \in ToSet(a.tables) : ~Has(b.tables, t.name) /\ IsForRemoved(op, t)
  BY <1>1, <1>2, <1>3 DEF IsEmitted
<1>5. op = Operation("drop_table", t.name, t)
  BY <1>4, OperationIs DEF IsForRemoved, IsOneOf
<1> QED
  BY <1>4, <1>5

(* A table that goes is there, and no view and no foreign key needs it. *)
LEMMA DropTableTaken ==
    ASSUME NEW a, NEW b, NEW D, NEW E, NEW op, NEW d, Poised(a, b, D, E, op, d),
           op.kind = "drop_table"
    PROVE  Accepts(d, op)
<1>1. /\ Holdable(a) /\ Holdable(b) /\ Declared(engine, b) /\ IsEmitted(op, a, b)
      /\ NotYet(D, E, op) /\ \A o \in D : IsEmitted(o, a, b)
      /\ TablesStay(a, D, d) /\ IsCatalog(d) /\ RowLess(d.tables)
  BY PoisedFacts DEF Poised
<1>2. PICK z \in ToSet(a.tables) :
         ~Has(b.tables, z.name) /\ op = Operation("drop_table", z.name, z)
  BY <1>1, DroppedTable
<1>3. op.table = z.name
  BY <1>2, OperationIs
<1>4. In(d.tables, op.table)
  <2>1. ASSUME NEW o \in OfKind(D, z.name, {"drop_table"}) PROVE FALSE
    <3>1. o \in D /\ o.kind = "drop_table" /\ o.table = z.name
      BY DEF OfKind
    <3>2. PICK y \in ToSet(a.tables) : o = Operation("drop_table", y.name, y)
      BY <1>1, <3>1, DroppedTable
    <3>3. y.name = z.name
      BY <3>1, <3>2, OperationIs
    <3>4. y = z
      BY <1>1, <3>3, ToldByName DEF Holdable
    <3> QED
      BY <1>1, <1>2, <3>1, <3>2, <3>4 DEF NotYet
  <2>2. OfKind(D, z.name, {"drop_table"}) = {}
    BY <2>1
  <2> QED
    BY <1>1, <1>3, <2>2 DEF TablesStay
<1>5. PICK t : t = Get(d.tables, op.table)
  OBVIOUS
<1>6. t \in d.tables /\ t.name = z.name /\ t.rows = {}
  BY <1>1, <1>3, <1>4, <1>5, Got DEF RowLess
<1>7. ViewsOf(d, t.name) = {}
  <2>1. d.views \subseteq ToSet(b.views)
    BY ViewsThen
  <2> QED
    BY <1>1, <1>2, <1>6, <2>1 DEF ViewsOf, Declared
<1>8. engine = "sqlite" => Deletable(d, t, t.rows)
  BY <1>6 DEF Deletable
<1>9. engine # "sqlite" => \A u \in d.tables \ {t} : \A f \in u.fks : f.to # t.name
  BY <1>2, <1>6, KeysThen
<1>10. TableDroppable(d, t)
  BY <1>7, <1>8, <1>9 DEF TableDroppable
<1> QED
  BY <1>4, <1>5, <1>10 DEF Accepts

(* When functions go, the tables there are have the new model's triggers. *)
LEMMA DropFunctionTaken ==
    ASSUME NEW a, NEW b, NEW D, NEW E, NEW op, NEW d, Poised(a, b, D, E, op, d),
           op.kind = "drop_function"
    PROVE  Accepts(d, op)
<1>1. /\ Holdable(a) /\ Holdable(b) /\ Declared(engine, b) /\ IsEmitted(op, a, b)
      /\ Staged(D, E, op) /\ AllOf(E, a, b) /\ IsCatalog(d)
      /\ TablesMidway(engine, a, b, D, d) /\ D \subseteq E
  BY PoisedFacts DEF NotYet
<1>2. CASE engine # "postgres"
  BY <1>2 DEF Accepts, Skipped, DbObjects
<1>3. CASE engine = "postgres"
  <2>1. IsMissing(op, "drop_function", Everywhere, a.functions, b.functions)
    BY <1>1, DatabaseOp, DatabaseByKind DEF DatabaseKinds
  <2>2. ~Has(b.functions, op.arg.name)
    BY <2>1, OperationIs DEF IsMissing
  <2>3. ASSUME NEW u \in d.tables, NEW g \in u.triggers
        PROVE  g.calls # op.arg.name
    <3>1. Has(b.tables, u.name)
      <4> SUFFICES ASSUME Has(a.tables, u.name), ~Has(b.tables, u.name),
                          OfKind(D, u.name, {"drop_table"}) = {}
                   PROVE  FALSE
        BY <1>1 DEF TablesMidway
      <4>1. PICK z \in ToSet(a.tables) : z.name = u.name
        BY DEF Has, Names
      <4>2. PICK o : o = Operation("drop_table", z.name, z)
        OBVIOUS
      <4>3. o.kind = "drop_table" /\ o.table = u.name
        BY <4>1, <4>2, OperationIs
      <4>4. IsEmitted(o, a, b)
        BY <4>1, <4>2 DEF IsEmitted, IsForRemoved
      <4>5. o \in E /\ StageOf(o) < StageOf(op)
        BY <1>1, <4>3, <4>4, StageByKind DEF AllOf
      <4> QED
        BY <1>1, <4>3, <4>5 DEF Staged, OfKind
    <3>2. PICK t \in ToSet(b.tables) : t.name = u.name
      BY <3>1 DEF Has, Names
    <3>3. In(d.tables, t.name) /\ Get(d.tables, t.name) = u
      <4>1. \A y \in d.tables : y.name = u.name => y = u
        BY <1>1 DEF IsCatalog, Apart
      <4> QED
        BY <3>2, <4>1, GotOnly
    <3>4. PICK old : old = Base(engine, a, t)
      OBVIOUS
    <3>5. u.triggers = TriggersLeft(engine, old, t, D)
      BY <1>1, <3>2, <3>3, <3>4 DEF TablesMidway, TableMidway
    <3>6. /\ IsTable(old) /\ IsTable(t) /\ HoldableTable(old) /\ HoldableTable(t)
          /\ OpsFor(engine, old, t, E)
      BY <1>1, <3>2, <3>4, AllForTable
    <3>7. TriggersLeft(engine, old, t, D) = TriggersLeft(engine, old, t, E)
      <4> DEFINE drops == {"drop_trigger"}
                 puts == {"create_trigger"}
      <4>1. \A o \in E : o.kind \in {"drop_trigger", "create_trigger"} => o \in D
        BY <1>1, StageByKind DEF Staged
      <4>2. AllDone(D, E, t.name, drops \cup puts)
        BY <4>1 DEF AllDone, OfKind
      <4> HIDE DEF drops, puts
      <4>3. Left(ToSet(old.triggers), D, t.name, drops, puts)
              = Left(ToSet(old.triggers), E, t.name, drops, puts)
        BY <1>1, <4>2, LeftSame
      <4> QED
        BY <4>3 DEF TriggersLeft, drops, puts
    <3>8. g \in ToSet(t.triggers)
      BY <1>3, <3>5, <3>6, <3>7, TriggersDone
    <3> QED
      BY <1>1, <1>3, <2>2, <3>2, <3>8 DEF Declared
  <2> QED
    BY <2>3 DEF Accepts
<1> QED
  BY <1>2, <1>3

(* When views come, the columns of the new model's tables are there. *)
LEMMA ColumnsThen ==
    ASSUME NEW a, NEW b, NEW D, NEW E, NEW op, NEW d, Poised(a, b, D, E, op, d),
           op.kind = "create_view", NEW t \in ToSet(b.tables)
    PROVE  /\ In(d.tables, t.name)
           /\ Get(d.tables, t.name).columns = ToSet(t.columns)
<1>1. /\ Holdable(a) /\ Holdable(b) /\ Staged(D, E, op) /\ AllOf(E, a, b)
      /\ TablesMidway(engine, a, b, D, d) /\ D \subseteq E
  BY PoisedFacts DEF NotYet
<1>2. In(d.tables, t.name)
  BY NewTablesThen DEF Has, Names
<1>3. PICK old : old = Base(engine, a, t)
  OBVIOUS
<1>4. PICK u : u = Get(d.tables, t.name)
  OBVIOUS
<1>5. TableMidway(engine, old, t, D, u)
  BY <1>1, <1>2, <1>3, <1>4 DEF TablesMidway
<1>6. /\ IsTable(old) /\ IsTable(t) /\ HoldableTable(old) /\ HoldableTable(t)
      /\ OpsFor(engine, old, t, E)
  BY <1>1, <1>3, AllForTable
<1>7. \A o \in E : o.kind \in {"drop_column", "add_column", "alter_column", "rebuild_table"}
                      => o \in D
  BY <1>1, StageByKind DEF Staged
<1>8. CASE engine = "sqlite" /\ NeedsRebuild(old, t)
  <2>1. IsRebuilt(E, t)
    BY <1>6, <1>8, RebuildDone
  <2>2. IsRebuilt(D, t)
    BY <1>7, <2>1 DEF IsRebuilt, OfKind
  <2> QED
    BY <1>2, <1>4, <1>5, <1>8, <2>2 DEF TableMidway
<1>9. CASE ~(engine = "sqlite" /\ NeedsRebuild(old, t))
  <2>1. u.columns = ColumnsLeft(old, t, D)
    BY <1>5, <1>9 DEF TableMidway
  <2>2. ColumnsLeft(old, t, D) = ColumnsLeft(old, t, E)
    <3> DEFINE drops == {"drop_column"}
               puts == {"add_column", "alter_column"}
    <3>1. AllDone(D, E, t.name, drops \cup puts)
      BY <1>7 DEF AllDone, OfKind
    <3> HIDE DEF drops, puts
    <3>2. Left(ToSet(old.columns), D, t.name, drops, puts)
            = Left(ToSet(old.columns), E, t.name, drops, puts)
      BY <1>1, <3>1, LeftSame
    <3> QED
      BY <3>2 DEF ColumnsLeft, drops, puts
  <2> QED
    BY <1>2, <1>4, <1>6, <2>1, <2>2, ColumnsDone
<1> QED
  BY <1>8, <1>9

(* A view that comes is not there, has no table's name, and finds its column. *)
LEMMA CreateViewTaken ==
    ASSUME NEW a, NEW b, NEW D, NEW E, NEW op, NEW d, Poised(a, b, D, E, op, d),
           op.kind = "create_view"
    PROVE  Accepts(d, op)
<1> DEFINE drops == {"drop_view"}
           puts == {"create_view"}
           v == op.arg
<1>1. /\ Holdable(a) /\ Holdable(b) /\ Declared(engine, b) /\ IsEmitted(op, a, b)
      /\ NotYet(D, E, op) /\ Staged(D, E, op) /\ AllOf(E, a, b)
      /\ TablesMidway(engine, a, b, D, d) /\ RestMidway(engine, a, b, D, d)
      /\ Accepted(engine, a, b)
  BY PoisedFacts DEF Poised
<1>2. IsAdd(op, "create_view", Everywhere, b.views, a.views)
  BY <1>1, DatabaseOp, DatabaseByKind DEF DatabaseKinds
<1>3. op.table = Everywhere /\ v \in ToSet(b.views)
  BY <1>2, OperationIs DEF IsAdd
<1>4. d.views = Left(ToSet(a.views), D, Everywhere, drops, puts)
  BY <1>1 DEF RestMidway, ViewsLeft
<1>5. /\ DropsRedefined(E, Everywhere, drops, a.views, b.views)
      /\ AddsRedefined(E, Everywhere, puts, a.views, b.views)
  BY <1>1, ViewOps
<1>6. AllDone(D, E, Everywhere, drops)
  BY <1>1, StageByKind DEF Staged, AllDone, OfKind
<1>7. TellsApart(a.views) /\ TellsApart(b.views)
  BY <1>1 DEF Holdable
<1>8. puts = {"create_view"} /\ "drop_view" \in drops
  OBVIOUS
<1>9. ~In(d.views, v.name)
  <2> HIDE DEF drops, puts
  <2> QED
    BY <1>1, <1>3, <1>4, <1>5, <1>6, <1>7, <1>8, AddedIsNotThere
<1>10. ~Has(a.tables, v.name) /\ ~Has(b.tables, v.name) /\ Has(b.tables, v.of.table)
       /\ Has(Find(b.tables, v.of.table).columns, v.of.column)
  BY <1>1, <1>3 DEF Declared, Accepted
<1>11. ~In(d.tables, v.name)
  BY <1>1, <1>10 DEF TablesMidway, In
<1>12. PICK t : t = Find(b.tables, v.of.table)
  OBVIOUS
<1>13. t \in ToSet(b.tables) /\ t.name = v.of.table
  <2>1. IsList(b.tables)
    BY <1>1, HoldableIsModel DEF IsModel
  <2> QED
    BY <1>10, <1>12, <2>1, FindFacts
<1>14. In(d.tables, v.of.table) /\ Get(d.tables, v.of.table).columns = ToSet(t.columns)
  BY <1>13, ColumnsThen
<1>15. In(Get(d.tables, v.of.table).columns, v.of.column)
  BY <1>10, <1>12, <1>14 DEF Has, Names, In
<1> QED
  BY <1>9, <1>11, <1>14, <1>15 DEF Accepts

(* A view that goes is read by no other. *)
LEMMA DropViewTaken ==
    ASSUME NEW a, NEW b, NEW D, NEW E, NEW op, NEW d, Poised(a, b, D, E, op, d),
           op.kind = "drop_view"
    PROVE  Accepts(d, op)
<1>1. /\ Holdable(a) /\ Holdable(b) /\ Declared(engine, a) /\ IsEmitted(op, a, b)
  BY PoisedFacts
<1>2. IsDrop(op, "drop_view", Everywhere, b.views, a.views)
  BY <1>1, DatabaseOp, DatabaseByKind DEF DatabaseKinds
<1>3. Has(a.views, op.arg.name)
  BY <1>2, OperationIs DEF IsDrop, Has, Names
<1>4. ~Has(a.tables, op.arg.name)
  BY <1>1, <1>3 DEF Has, Names, Declared
<1>5. d.views \subseteq ToSet(a.views)
  BY ViewsThen
<1>6. ViewsOf(d, op.arg.name) = {}
  BY <1>1, <1>4, <1>5 DEF ViewsOf, Declared
<1> QED
  BY <1>6 DEF Accepts

(* Raw DDL that comes has not run before. *)
LEMMA RawTaken ==
    ASSUME NEW a, NEW b, NEW D, NEW E, NEW op, NEW d, Poised(a, b, D, E, op, d),
           op.kind = "raw_sql"
    PROVE  Accepts(d, op)
<1>1. /\ Holdable(a) /\ Holdable(b) /\ IsEmitted(op, a, b) /\ NotYet(D, E, op)
      /\ \A o \in D : IsEmitted(o, a, b)
      /\ RawMidway(a, b, D, d)
  BY PoisedFacts
<1>2. ASSUME NEW o, IsEmitted(o, a, b), o.kind = "raw_sql"
      PROVE  \E x \in ToSet(b.raw) :
                o = Operation("raw_sql", Everywhere, x) /\ ~Has(a.raw, x.name)
  BY <1>1, <1>2, DatabaseOp, DatabaseByKind DEF DatabaseKinds, IsMissing
<1>3. PICK x \in ToSet(b.raw) :
         op = Operation("raw_sql", Everywhere, x) /\ ~Has(a.raw, x.name)
  BY <1>1, <1>2
<1>4. op.arg = x
  BY <1>3, OperationIs
<1>5. d.raw \subseteq ToSet(a.raw) \cup Came(D, Everywhere, {"raw_sql"})
  BY <1>1, <1>3 DEF RawMidway
<1>6. ASSUME NEW y \in Came(D, Everywhere, {"raw_sql"}), y.name = x.name
      PROVE  FALSE
  <2>1. PICK o \in D : o.kind = "raw_sql" /\ o.arg = y
    BY <1>6 DEF Came, OfKind
  <2>2. PICK z \in ToSet(b.raw) : o = Operation("raw_sql", Everywhere, z)
    BY <1>1, <1>2, <2>1
  <2>3. z = y
    BY <2>1, <2>2, OperationIs
  <2>4. z = x
    BY <1>1, <1>6, <2>3, ToldByName DEF Holdable
  <2> QED
    BY <1>1, <1>3, <2>1, <2>2, <2>4 DEF NotYet
<1>7. ~In(d.raw, op.arg.name)
  BY <1>3, <1>4, <1>5, <1>6 DEF In, Has, Names
<1> QED
  BY <1>7 DEF Accepts

(* So the engine takes the next operation, whatever it is. *)
LEMMA NextTaken ==
    ASSUME NEW a, NEW b, NEW D, NEW E, NEW op, NEW d, Poised(a, b, D, E, op, d),
           Unseeded(a), Unseeded(b)
    PROVE  Accepts(d, op)
<1>1. /\ Holdable(a) /\ Holdable(b) /\ IsEmitted(op, a, b) /\ Shaped(op)
  BY PoisedFacts
<1>2. op.kind \notin RowKinds
  BY <1>1, NoRowOps
<1>3. CASE op.kind \in {"ensure_extension", "create_function"}
  BY <1>3 DEF Accepts
<1>4. op.kind \in WorkKinds \cup DatabaseKinds \cup {"create_table", "drop_table"}
  BY <1>1, <1>2 DEF Shaped, Kinds, WorkKinds, DatabaseKinds, RowKinds
<1> QED
  BY <1>3, <1>4, TableWorkTaken, CreateTableTaken, DropTableTaken, DropFunctionTaken,
     CreateViewTaken, DropViewTaken, RawTaken DEF DatabaseKinds

-----------------------------------------------------------------------------
(* A smooth migration *)

(* From a model without seed rows to another, with what diff compares, the      *)
(* generators emit and the engine takes.                                     *)
Smooth(e, a, b) == Unseeded(a) /\ Unseeded(b) /\ Carried(e, a, b) /\ Accepted(e, a, b)

(* It comes to the operations of the list, each of them for the first time.   *)
Comes(e, a, b, d, list) ==
    \E D : /\ Pending(D, ToSet(Diff(a, b)), list) /\ Going(e, a, b, D, d)
           /\ Once(list) /\ \A o \in ToSet(list) : o \notin D

(* The first of a list without repetition is not in the rest of it. *)
LEMMA OnceTail ==
    ASSUME NEW s, IsList(s), s # <<>>, Once(s)
    PROVE  Once(Tail(s)) /\ Head(s) \notin ToSet(Tail(s))
<1>1. PICK S : s \in Seq(S)
  BY DEF IsList
<1>2. /\ Len(s) \in Nat /\ Len(s) # 0 /\ DOMAIN s = 1..Len(s)
      /\ Head(s) = s[1] /\ DOMAIN Tail(s) = 1..(Len(s) - 1)
      /\ \A i \in 1..(Len(s) - 1) : Tail(s)[i] = s[i + 1]
  BY <1>1
<1>3. ASSUME NEW i \in DOMAIN Tail(s), NEW j \in DOMAIN Tail(s), Tail(s)[i] = Tail(s)[j]
      PROVE  i = j
  <2>1. i + 1 \in DOMAIN s /\ j + 1 \in DOMAIN s /\ s[i + 1] = s[j + 1]
    BY <1>2, <1>3
  <2>2. i + 1 = j + 1
    BY <2>1 DEF Once
  <2> QED
    BY <1>2, <2>2
<1>4. ASSUME NEW i \in DOMAIN Tail(s), Tail(s)[i] = Head(s) PROVE FALSE
  <2>1. i + 1 \in DOMAIN s /\ 1 \in DOMAIN s /\ s[i + 1] = s[1]
    BY <1>2, <1>4
  <2>2. i + 1 = 1
    BY <2>1 DEF Once
  <2> QED
    BY <1>2, <2>2
<1> QED
  BY <1>3, <1>4 DEF Once, ToSet

(* It starts with its whole difference. *)
LEMMA ComesStart ==
    ASSUME NEW a, NEW b, NEW d, Holdable(a), Holdable(b), Smooth(engine, a, b),
           HasStructure(engine, d, a),
           (\A x \in ToSet(b.raw) : Has(a.raw, x.name)) \/ d.raw \subseteq ToSet(a.raw)
    PROVE  Comes(engine, a, b, d, Diff(a, b))
<1>1. /\ Unseeded(a) /\ Unseeded(b) /\ Carried(engine, a, b) /\ Declared(engine, a)
  BY DEF Smooth, Accepted
<1>2. Going(engine, a, b, {}, d)
  BY <1>1, GoingStarts
<1>3. Pending({}, ToSet(Diff(a, b)), Diff(a, b))
  BY PendingDiff
<1>4. Once(Diff(a, b))
  BY <1>1, DiffIsOnce
<1> QED
  BY <1>2, <1>3, <1>4 DEF Comes

(* What is next is one that the engine takes ... *)
LEMMA ComesTaken ==
    ASSUME NEW a, NEW b, NEW d, NEW list, Holdable(a), Holdable(b), Smooth(engine, a, b),
           engine \in {"postgres", "mysql", "sqlserver", "sqlite"},
           IsCatalog(d), RowLess(d.tables), list # <<>>, Comes(engine, a, b, d, list)
    PROVE  Accepts(d, Head(list))
<1>1. PICK D : /\ Pending(D, ToSet(Diff(a, b)), list) /\ Going(engine, a, b, D, d)
               /\ Once(list) /\ \A o \in ToSet(list) : o \notin D
  BY DEF Comes
<1> DEFINE E == ToSet(Diff(a, b))
           op == Head(list)
<1>2. AllOf(E, a, b)
  BY PendingDiff DEF AllOf
<1>3. Staged(D, E, op)
  BY <1>1, PendingStaged
<1>4. op \notin D
  <2>1. IsList(list)
    BY <1>1 DEF Pending, UpToStage
  <2>2. op \in ToSet(list)
    BY <2>1, TailFacts
  <2> QED
    BY <1>1, <2>2
<1>5. Unseeded(a) /\ Unseeded(b) /\ Carried(engine, a, b) /\ Accepted(engine, a, b)
  BY DEF Smooth
<1>6. Poised(a, b, D, E, op, d)
  <2> HIDE DEF E, op
  <2> QED
    BY <1>1, <1>2, <1>3, <1>4, <1>5 DEF Poised
<1> QED
  BY <1>5, <1>6, NextTaken

(* ... and brings it to the rest. *)
LEMMA ComesStep ==
    ASSUME NEW a, NEW b, NEW d, NEW list, Holdable(a), Holdable(b), Smooth(engine, a, b),
           IsCatalog(d), list # <<>>, Accepts(d, Head(list)), Comes(engine, a, b, d, list)
    PROVE  Comes(engine, a, b, Execute(d, Head(list)), Tail(list))
<1>1. PICK D : /\ Pending(D, ToSet(Diff(a, b)), list) /\ Going(engine, a, b, D, d)
               /\ Once(list) /\ \A o \in ToSet(list) : o \notin D
  BY DEF Comes
<1>2. PICK E : E = ToSet(Diff(a, b))
  OBVIOUS
<1>3. PICK op : op = Head(list)
  OBVIOUS
<1>4. AllOf(E, a, b)
  BY <1>2, PendingDiff DEF AllOf
<1>5. Staged(D, E, op) /\ Pending(D \cup {op}, E, Tail(list))
  BY <1>1, <1>2, <1>3, PendingStaged, PendingStep
<1>6. Carried(engine, a, b) /\ Accepted(engine, a, b)
  BY DEF Smooth
<1>7. Underway(a, b, D, E, op, d)
  BY <1>3, <1>4, <1>5, <1>6 DEF Underway, AllOf
<1>8. Going(engine, a, b, D \cup {op}, Execute(d, op))
  BY <1>1, <1>6, <1>7, GoingStep
<1>9. IsList(list)
  BY <1>1 DEF Pending, UpToStage
<1>10. Once(Tail(list)) /\ op \notin ToSet(Tail(list))
  BY <1>1, <1>3, <1>9, OnceTail
<1>11. \A o \in ToSet(Tail(list)) : o \in ToSet(list)
  BY <1>9, TailFacts
<1>12. \A o \in ToSet(Tail(list)) : o \notin D \cup {op}
  BY <1>1, <1>10, <1>11
<1> QED
  BY <1>2, <1>3, <1>5, <1>8, <1>10, <1>12 DEF Comes

(* At its end the new model's structure is there. *)
LEMMA ComesEnd ==
    ASSUME NEW a, NEW b, NEW d, Holdable(a), Holdable(b), Smooth(engine, a, b),
           Comes(engine, a, b, d, <<>>)
    PROVE  HasStructure(engine, d, b)
<1>1. Travels(engine, a, b, d, <<>>)
  BY DEF Comes, Travels, Going
<1> QED
  BY <1>1, TravelsEnd DEF Smooth

-----------------------------------------------------------------------------
(* The engine takes it *)

(* "up" is smooth; so is "down", which has no raw DDL to run: what "up" found    *)
(* is still there, and would be refused a second time.                       *)
UpIsSmooth == Smooth(engine, from, to)
DownIsSmooth ==
    /\ Smooth(engine, from, to) /\ Smooth(engine, to, from)
    /\ \A x \in ToSet(from.raw) : Has(to.raw, x.name)

(* Where a smooth migration is. *)
Smoothly ==
    /\ phase = "up" /\ UpIsSmooth => Comes(engine, from, to, db, todo)
    /\ phase = "down" /\ DownIsSmooth => Comes(engine, to, from, db, todo)

(* Every step keeps it there. *)
LEMMA SmoothlyInvariant == Spec => []Smoothly
<1>1. Init => Smoothly
  <2> SUFFICES ASSUME Init PROVE Smoothly
    OBVIOUS
  <2>1. Holdable(from) /\ Holdable(to)
    BY FamiliesAssumption DEF Init
  <2>2. phase = "up" /\ todo = Diff(from, to) /\ db = CatalogOf(from)
    BY DEF Init
  <2>3. HasStructure(engine, db, from)
    BY <2>1, <2>2, StructureStarts
  <2>4. db.raw \subseteq ToSet(from.raw)
    BY <2>2 DEF CatalogOf
  <2>5. UpIsSmooth => Comes(engine, from, to, db, todo)
    BY <2>1, <2>2, <2>3, <2>4, ComesStart DEF UpIsSmooth
  <2> QED
    BY <2>2, <2>5 DEF Smoothly
<1>2. Typed /\ OnTheWay /\ Smoothly /\ [Next]_vars => Smoothly'
  <2> SUFFICES ASSUME Typed, OnTheWay, Smoothly, [Next]_vars PROVE Smoothly'
    OBVIOUS
  <2>1. Holdable(from) /\ Holdable(to) /\ IsCatalog(db)
    BY TypedIsHoldable DEF Typed
  <2>2. CASE RunOperation
    <3>1. /\ todo # <<>> /\ Accepts(db, Head(todo))
          /\ db' = Execute(db, Head(todo)) /\ todo' = Tail(todo)
          /\ engine' = engine /\ from' = from /\ to' = to /\ phase' = phase
      BY <2>2 DEF RunOperation
    <3>2. phase = "up" /\ UpIsSmooth => Comes(engine, from, to, db', todo')
      BY <2>1, <3>1, ComesStep DEF Smoothly, UpIsSmooth
    <3>3. phase = "down" /\ DownIsSmooth => Comes(engine, to, from, db', todo')
      BY <2>1, <3>1, ComesStep DEF Smoothly, DownIsSmooth
    <3> QED
      BY <3>1, <3>2, <3>3 DEF Smoothly, UpIsSmooth, DownIsSmooth
  <2>3. CASE Revert
    <3>1. /\ phase = "up" /\ todo = <<>> /\ phase' = "down" /\ todo' = Diff(to, from)
          /\ engine' = engine /\ from' = from /\ to' = to /\ db' = db
      BY <2>3 DEF Revert
    <3>2. DownIsSmooth => Comes(engine, to, from, db, Diff(to, from))
      <4> SUFFICES ASSUME DownIsSmooth PROVE Comes(engine, to, from, db, Diff(to, from))
        OBVIOUS
      <4>1. Comes(engine, from, to, db, <<>>)
        BY <3>1 DEF Smoothly, UpIsSmooth, DownIsSmooth
      <4>2. HasStructure(engine, db, to)
        BY <2>1, <4>1, ComesEnd DEF DownIsSmooth
      <4> QED
        BY <2>1, <4>2, ComesStart DEF DownIsSmooth
    <3> QED
      BY <3>1, <3>2 DEF Smoothly, UpIsSmooth, DownIsSmooth
  <2>4. CASE Reverted
    <3>1. phase' = "done"
      BY <2>4 DEF Reverted
    <3> QED
      BY <3>1 DEF Smoothly
  <2>5. CASE UNCHANGED vars
    BY <2>5 DEF vars, Smoothly, UpIsSmooth, DownIsSmooth
  <2> QED
    BY <2>2, <2>3, <2>4, <2>5 DEF Next
<1> QED
  BY <1>1, <1>2, TypedInvariant, OnTheWayInvariant, PTL DEF Spec

(* Whatever a smooth migration has next, the engine takes it, on the way up    *)
(* and down: diff.rs's stages bring what an operation needs before it comes,  *)
(* and what is in its way has gone by then.                                  *)
THEOREM SmoothIsNotRefused ==
    Spec => []((phase = "up" => UpIsSmooth) /\ (phase = "down" => DownIsSmooth)
                  => NeverRefused)
<1>1. Typed /\ OnTheWay /\ WithoutRows /\ Smoothly
        => ((phase = "up" => UpIsSmooth) /\ (phase = "down" => DownIsSmooth)
               => NeverRefused)
  <2> SUFFICES ASSUME Typed, OnTheWay, WithoutRows, Smoothly, todo # <<>>,
                      phase = "up" => UpIsSmooth, phase = "down" => DownIsSmooth
               PROVE  Accepts(db, Head(todo))
    BY DEF NeverRefused
  <2>1. /\ Holdable(from) /\ Holdable(to) /\ IsCatalog(db)
        /\ engine \in {"postgres", "mysql", "sqlserver", "sqlite"}
    BY TypedIsHoldable, FamiliesAssumption DEF Typed
  <2>2. phase \in {"up", "down"}
    BY DEF Typed, OnTheWay
  <2>3. RowLess(db.tables)
    BY <2>2 DEF WithoutRows, Plain, UpIsSmooth, DownIsSmooth, Smooth
  <2>4. CASE phase = "up"
    BY <2>1, <2>3, <2>4, ComesTaken DEF Smoothly, UpIsSmooth
  <2>5. CASE phase = "down"
    BY <2>1, <2>3, <2>5, ComesTaken DEF Smoothly, DownIsSmooth
  <2> QED
    BY <2>2, <2>4, <2>5
<1> QED
  BY <1>1, TypedInvariant, OnTheWayInvariant, WithoutRowsInvariant, SmoothlyInvariant, PTL
=============================================================================
