-------------------------- MODULE SchemaDiff_proofs --------------------------
(***************************************************************************)
(* What the differ says of any two models, whatever they hold: when it says *)
(* nothing, and what it may take away.  Diff is made of lists that are      *)
(* selected, mapped and joined; the first part says what such lists hold.   *)
(***************************************************************************)
EXTENDS SchemaDiff, FiniteSetTheorems, WellFoundedInduction, TLAPS

-----------------------------------------------------------------------------
(* Lists *)

IsList(s) == \E S : s \in Seq(S)

(* A list is empty if it holds nothing. *)
LEMMA ListFacts ==
    ASSUME NEW s, IsList(s)
    PROVE  /\ Len(s) \in Nat /\ DOMAIN s = 1..Len(s)
           /\ s \in Seq(ToSet(s))
           /\ s = <<>> <=> ToSet(s) = {}
<1>1. PICK S : s \in Seq(S)
  BY DEF IsList
<1>2. Len(s) \in Nat /\ DOMAIN s = 1..Len(s)
  BY <1>1
<1>3. s \in Seq(ToSet(s))
  BY <1>1, <1>2 DEF ToSet
<1>4. ToSet(s) = {} => Len(s) = 0
  <2>1. Len(s) # 0 => 1 \in DOMAIN s
    BY <1>2
  <2> QED
    BY <2>1 DEF ToSet
<1> QED
  BY <1>1, <1>2, <1>3, <1>4 DEF ToSet

(* A function on the first n numbers is a list of n. *)
LEMMA Mapped ==
    ASSUME NEW n \in Nat, NEW f, DOMAIN f = 1..n, f = [i \in 1..n |-> f[i]]
    PROVE  IsList(f) /\ Len(f) = n
<1> DEFINE S == {f[i] : i \in 1..n}
<1>1. f \in [1..n -> S]
  OBVIOUS
<1> HIDE DEF S
<1>2. f \in Seq(S)
  BY <1>1
<1> QED
  BY <1>2 DEF IsList

(* What two lists hold, joined. *)
LEMMA Joined ==
    ASSUME NEW a, NEW b, IsList(a), IsList(b)
    PROVE  IsList(a \o b) /\ ToSet(a \o b) = ToSet(a) \cup ToSet(b)
<1>1. PICK S : a \in Seq(S)
  BY DEF IsList
<1>2. PICK T : b \in Seq(T)
  BY DEF IsList
<1>3. a \o b \in Seq(S \cup T)
  BY <1>1, <1>2
<1>4. /\ DOMAIN a = 1..Len(a) /\ DOMAIN b = 1..Len(b)
      /\ DOMAIN (a \o b) = 1..(Len(a) + Len(b))
      /\ Len(a) \in Nat /\ Len(b) \in Nat
  BY <1>1, <1>2, <1>3
<1>5. /\ \A i \in 1..Len(a) : (a \o b)[i] = a[i]
      /\ \A i \in 1..Len(b) : (a \o b)[Len(a) + i] = b[i]
  BY <1>1, <1>2
<1>6. \A i \in 1..(Len(a) + Len(b)) :
         i \in 1..Len(a) \/ \E j \in 1..Len(b) : i = Len(a) + j
  <2> TAKE i \in 1..(Len(a) + Len(b))
  <2>1. CASE i <= Len(a)
    BY <1>4, <2>1
  <2>2. CASE ~(i <= Len(a))
    <3>1. i - Len(a) \in 1..Len(b) /\ i = Len(a) + (i - Len(a))
      BY <1>4, <2>2
    <3> QED
      BY <3>1
  <2> QED
    BY <2>1, <2>2
<1>7. ToSet(a \o b) \subseteq ToSet(a) \cup ToSet(b)
  <2> SUFFICES ASSUME NEW i \in 1..(Len(a) + Len(b))
               PROVE  (a \o b)[i] \in ToSet(a) \cup ToSet(b)
    BY <1>4 DEF ToSet
  <2>1. CASE i \in 1..Len(a)
    BY <1>4, <1>5, <2>1 DEF ToSet
  <2>2. ASSUME NEW j \in 1..Len(b), i = Len(a) + j
        PROVE  (a \o b)[i] \in ToSet(b)
    BY <1>4, <1>5, <2>2 DEF ToSet
  <2> QED
    BY <1>6, <2>1, <2>2
<1>8. ToSet(a) \cup ToSet(b) \subseteq ToSet(a \o b)
  <2>1. \A i \in 1..Len(a) : i \in DOMAIN (a \o b)
    BY <1>4
  <2>2. \A i \in 1..Len(b) : Len(a) + i \in DOMAIN (a \o b)
    BY <1>4
  <2> QED
    BY <1>4, <1>5, <2>1, <2>2 DEF ToSet
<1> QED
  BY <1>3, <1>7, <1>8 DEF IsList

(* A set of numbers has a least one. *)
LEMMA LeastNumber ==
    ASSUME NEW T \in SUBSET Nat, T # {}
    PROVE  \E x \in T : \A y \in T : x <= y
<1>1. PICK x \in T : \A y \in T : <<y, x>> \notin OpToRel(<, Nat)
  <2>1. IsWellFoundedOn(OpToRel(<, Nat), Nat)
    BY NatLessThanWellFounded, Zenon
  <2> QED
    BY <2>1, WFMin, Zenon
<1>2. \A y \in T : ~(y < x)
  BY <1>1, Zenon DEF OpToRel
<1> QED
  BY <1>2

(* The lists ss joined, one after another: g[i] is what the first i come to. *)
Steps(g, n, ss) ==
    g = [i \in 1..n |-> IF i = 1 THEN ss[i] ELSE g[i - 1] \o ss[i]]

(* Such a function exists, whatever the lists. *)
LEMMA StepsExist ==
    ASSUME NEW n \in Nat, NEW ss PROVE \E g : Steps(g, n, ss)
<1> DEFINE Without == {m \in Nat : ~\E g : Steps(g, m, ss)}
<1>1. SUFFICES ASSUME Without # {} PROVE FALSE
  OBVIOUS
<1>2. PICK m \in Without : \A k \in Without : m <= k
  BY <1>1, LeastNumber
<1>3. CASE m = 0
  <2> DEFINE g == [i \in 1..0 |-> ss]
  <2>1. g = [i \in 1..0 |-> IF i = 1 THEN ss[i] ELSE g[i - 1] \o ss[i]]
    OBVIOUS
  <2> HIDE DEF g
  <2> QED
    BY <1>2, <1>3, <2>1, Zenon DEF Steps
<1>4. CASE m # 0
  <2>1. m \in Nat /\ m - 1 \in Nat /\ m - 1 \notin Without
    BY <1>2, <1>4
  <2>2. PICK g : Steps(g, m - 1, ss)
    BY <2>1
  <2> DEFINE last == IF m = 1 THEN ss[m] ELSE g[m - 1] \o ss[m]
             h == [i \in 1..m |-> IF i = m THEN last ELSE g[i]]
             Step(i) == IF i = 1 THEN ss[i] ELSE h[i - 1] \o ss[i]
  <2> HIDE DEF last
  <2>3. /\ \A i \in 1..(m - 1) : h[i] = g[i]
        /\ h[m] = last
        /\ h = [i \in 1..m |-> h[i]]
    <3>1. m \in 1..m /\ \A i \in 1..(m - 1) : i \in 1..m /\ i # m
      BY <2>1, <1>4
    <3> QED
      BY <3>1
  <2>4. \A i \in 1..(m - 1) : g[i] = IF i = 1 THEN ss[i] ELSE g[i - 1] \o ss[i]
    BY <2>2, Zenon DEF Steps
  <2> HIDE DEF h
  <2>5. \A i \in 1..m : h[i] = Step(i)
    <3> TAKE i \in 1..m
    <3>1. CASE i = m
      <4>1. i # 1 => i - 1 \in 1..(m - 1) /\ i - 1 = m - 1
        BY <2>1, <3>1
      <4> QED
        BY <2>3, <3>1, <4>1 DEF last
    <3>2. CASE i # m
      <4>1. i \in 1..(m - 1) /\ (i # 1 => i - 1 \in 1..(m - 1))
        BY <2>1, <3>2
      <4> QED
        BY <2>3, <2>4, <4>1
    <3> QED
      BY <3>1, <3>2
  <2>6. h = [i \in 1..m |-> Step(i)]
    BY <2>3, <2>5
  <2>7. Steps(h, m, ss)
    BY <2>6, Zenon DEF Steps
  <2> QED
    BY <1>2, <2>7
<1> QED
  BY <1>3, <1>4

(* And those of a list of lists, one after the other. *)
LEMMA Flattened ==
    ASSUME NEW ss, IsList(ss), \A i \in DOMAIN ss : IsList(ss[i])
    PROVE  /\ IsList(FlattenSeq(ss))
           /\ ToSet(FlattenSeq(ss)) = UNION {ToSet(ss[i]) : i \in DOMAIN ss}
<1> DEFINE n == Len(ss)
           flat == CHOOSE g : g = [i \in 1..n |->
                      IF i = 1 THEN ss[i] ELSE g[i - 1] \o ss[i]]
<1>1. n \in Nat /\ DOMAIN ss = 1..n
  BY ListFacts
<1>2. CASE n = 0
  <2>1. ss = <<>>
    BY <1>2, ListFacts DEF IsList
  <2>2. FlattenSeq(ss) = <<>>
    BY <1>2, <2>1 DEF FlattenSeq
  <2>3. 1..n = {}
    BY <1>2
  <2>4. IsList(<<>>) /\ ToSet(<<>>) = {}
    BY DEF IsList, ToSet
  <2> QED
    BY <1>1, <2>2, <2>3, <2>4
<1>3. CASE n # 0
  <2>1. FlattenSeq(ss) = flat[n]
    BY <1>3, Zenon DEF FlattenSeq
  <2>2. Steps(flat, n, ss)
    BY <1>1, StepsExist, Zenon DEF Steps
  <2> HIDE DEF flat
  <2>3. \A i \in 1..n : flat[i] = IF i = 1 THEN ss[i] ELSE flat[i - 1] \o ss[i]
    BY <2>2, Zenon DEF Steps
  <2> DEFINE Good(i) == /\ IsList(flat[i])
                        /\ ToSet(flat[i]) = UNION {ToSet(ss[j]) : j \in 1..i}
             Bad == {i \in 1..n : ~Good(i)}
  <2>4. Bad = {}
    <3> SUFFICES ASSUME Bad # {} PROVE FALSE
      OBVIOUS
    <3>0. Bad \subseteq Nat
      BY <1>1
    <3> HIDE DEF Bad
    <3>1. PICK i \in Bad : \A j \in Bad : i <= j
      BY <3>0, LeastNumber
    <3>2. i \in 1..n /\ ~Good(i)
      BY <3>1 DEF Bad
    <3>3. CASE i = 1
      <4>1. flat[i] = ss[1]
        BY <2>3, <3>2, <3>3
      <4>2. 1..i = {1}
        BY <3>3
      <4>3. IsList(ss[1])
        BY <1>1, <3>2, <3>3
      <4> QED
        BY <3>2, <4>1, <4>2, <4>3
    <3>4. CASE i # 1
      <4>1. i - 1 \in 1..n /\ i - 1 \notin Bad
        BY <1>1, <3>1, <3>2, <3>4
      <4>2. Good(i - 1)
        BY <4>1 DEF Bad
      <4>3. flat[i] = flat[i - 1] \o ss[i]
        BY <2>3, <3>2, <3>4
      <4>4. IsList(ss[i])
        BY <1>1, <3>2
      <4>5. 1..i = (1..(i - 1)) \cup {i}
        BY <1>1, <3>2
      <4>6. IsList(flat[i]) /\ ToSet(flat[i]) = ToSet(flat[i - 1]) \cup ToSet(ss[i])
        BY <4>2, <4>3, <4>4, Joined
      <4>7. UNION {ToSet(ss[j]) : j \in 1..i}
               = (UNION {ToSet(ss[j]) : j \in 1..(i - 1)}) \cup ToSet(ss[i])
        BY <4>5, Zenon
      <4> QED
        BY <3>2, <4>2, <4>6, <4>7
    <3> QED
      BY <3>3, <3>4
  <2>5. n \in 1..n
    BY <1>1, <1>3
  <2> QED
    BY <1>1, <2>1, <2>4, <2>5
<1> QED
  BY <1>1, <1>2, <1>3
-----------------------------------------------------------------------------
(* What the differ takes from lists *)

(* What is in a list of one. *)
LEMMA OneHolds ==
    ASSUME NEW x PROVE IsList(<<x>>) /\ ToSet(<<x>>) = {x}
<1>1. <<x>> \in Seq({x})
  OBVIOUS
<1>2. DOMAIN <<x>> = {1} /\ <<x>>[1] = x
  OBVIOUS
<1> QED
  BY <1>1, <1>2 DEF IsList, ToSet

(* Nothing is in a list of none. *)
LEMMA NoneHolds == IsList(<<>>) /\ ToSet(<<>>) = {}
<1>1. <<>> \in Seq({}) /\ DOMAIN <<>> = {}
  OBVIOUS
<1> QED
  BY <1>1 DEF IsList, ToSet

(* A selection from a list holds what is selected. *)
LEMMA Selected ==
    ASSUME NEW list, IsList(list), NEW S,
           NEW f, IsList(f), DOMAIN f = DOMAIN list,
           \A i \in DOMAIN list : f[i] = IF list[i] \in S THEN <<list[i]>> ELSE <<>>
    PROVE  IsList(FlattenSeq(f)) /\ ToSet(FlattenSeq(f)) = ToSet(list) \cap S
<1>1. ASSUME NEW i \in DOMAIN f
      PROVE  /\ IsList(f[i])
             /\ list[i] \in S => ToSet(f[i]) = {list[i]}
             /\ list[i] \notin S => ToSet(f[i]) = {}
  <2>1. f[i] = IF list[i] \in S THEN <<list[i]>> ELSE <<>>
    OBVIOUS
  <2> QED
    BY <2>1, OneHolds, NoneHolds
<1>2. \A i \in DOMAIN f : IsList(f[i])
  BY <1>1
<1>3. /\ IsList(FlattenSeq(f))
      /\ ToSet(FlattenSeq(f)) = UNION {ToSet(f[i]) : i \in DOMAIN f}
  BY <1>2, Flattened, Zenon
<1>4. ASSUME NEW x
      PROVE  x \in UNION {ToSet(f[i]) : i \in DOMAIN f} <=> x \in ToSet(list) \cap S
  <2>1. x \in UNION {ToSet(f[i]) : i \in DOMAIN f}
           <=> \E i \in DOMAIN f : x \in ToSet(f[i])
    BY Zenon
  <2>2. (\E i \in DOMAIN f : x \in ToSet(f[i]))
           <=> \E i \in DOMAIN list : list[i] \in S /\ x = list[i]
    BY <1>1
  <2>3. x \in ToSet(list) <=> \E i \in DOMAIN list : x = list[i]
    BY Zenon DEF ToSet
  <2> QED
    BY <2>1, <2>2, <2>3, Zenon
<1> QED
  BY <1>3, <1>4, Zenon

(* A list made of another, element by element. *)
LEMMA MadeOf ==
    ASSUME NEW list, IsList(list), NEW f, f = [i \in DOMAIN list |-> f[i]]
    PROVE  IsList(f) /\ DOMAIN f = DOMAIN list /\ Len(f) = Len(list)
<1>1. Len(list) \in Nat /\ DOMAIN list = 1..Len(list)
  BY ListFacts
<1>2. DOMAIN f = DOMAIN list
  OBVIOUS
<1> QED
  BY <1>1, <1>2, Mapped

(* Absent holds the elements whose name the other list lacks. *)
LEMMA AbsentFacts ==
    ASSUME NEW list, IsList(list), NEW other
    PROVE  /\ IsList(Absent(list, other))
           /\ ToSet(Absent(list, other)) = {x \in ToSet(list) : ~Has(other, x.name)}
<1> DEFINE S == {x \in ToSet(list) : ~Has(other, x.name)}
           f == [i \in DOMAIN list |-> IF list[i] \in S THEN <<list[i]>> ELSE <<>>]
<1>1. Absent(list, other) = FlattenSeq(f)
  <2>1. [i \in DOMAIN list |-> IF ~Has(other, list[i].name) THEN <<list[i]>> ELSE <<>>] = f
    BY DEF ToSet
  <2> QED
    BY <2>1 DEF Absent, Those
<1>2. ToSet(list) \cap S = S
  OBVIOUS
<1>3. IsList(FlattenSeq(f)) /\ ToSet(FlattenSeq(f)) = ToSet(list) \cap S
  <2>1. /\ f = [i \in DOMAIN list |-> f[i]] /\ DOMAIN f = DOMAIN list
        /\ \A i \in DOMAIN list : f[i] = IF list[i] \in S THEN <<list[i]>> ELSE <<>>
    OBVIOUS
  <2> HIDE DEF f, S
  <2> QED
    BY <2>1, MadeOf, Selected
<1> QED
  BY <1>1, <1>2, <1>3, Zenon

(* Redefined holds the elements that the other list defines otherwise; *)
(* AbsentOrRedefined also those that it lacks. *)
LEMMA RedefinedFacts ==
    ASSUME NEW new, IsList(new), NEW old
    PROVE  /\ IsList(Redefined(new, old))
           /\ ToSet(Redefined(new, old)) =
                {x \in ToSet(new) : Has(old, x.name) /\ Find(old, x.name) # x}
           /\ IsList(AbsentOrRedefined(new, old))
           /\ ToSet(AbsentOrRedefined(new, old)) =
                {x \in ToSet(new) : ~Has(old, x.name) \/ Find(old, x.name) # x}
<1> DEFINE S == {x \in ToSet(new) : Has(old, x.name) /\ Find(old, x.name) # x}
           T == {x \in ToSet(new) : ~Has(old, x.name) \/ Find(old, x.name) # x}
           Of(U) == [i \in DOMAIN new |-> IF new[i] \in U THEN <<new[i]>> ELSE <<>>]
<1>1. Redefined(new, old) = FlattenSeq(Of(S))
  <2>1. [i \in DOMAIN new |->
           IF Has(old, new[i].name) /\ Find(old, new[i].name) # new[i]
           THEN <<new[i]>> ELSE <<>>] = Of(S)
    BY DEF ToSet
  <2> QED
    BY <2>1 DEF Redefined, Those
<1>2. AbsentOrRedefined(new, old) = FlattenSeq(Of(T))
  <2>1. [i \in DOMAIN new |->
           IF ~Has(old, new[i].name) \/ Find(old, new[i].name) # new[i]
           THEN <<new[i]>> ELSE <<>>] = Of(T)
    BY DEF ToSet
  <2> QED
    BY <2>1 DEF AbsentOrRedefined, Those
<1>3. ToSet(new) \cap S = S /\ ToSet(new) \cap T = T
  OBVIOUS
<1>4. ASSUME NEW U
      PROVE  /\ IsList(FlattenSeq(Of(U)))
             /\ ToSet(FlattenSeq(Of(U))) = ToSet(new) \cap U
  <2>1. /\ Of(U) = [i \in DOMAIN new |-> Of(U)[i]] /\ DOMAIN Of(U) = DOMAIN new
        /\ \A i \in DOMAIN new : Of(U)[i] = IF new[i] \in U THEN <<new[i]>> ELSE <<>>
    OBVIOUS
  <2> HIDE DEF Of
  <2> QED
    BY <2>1, MadeOf, Selected
<1> HIDE DEF Of
<1> QED
  BY <1>1, <1>2, <1>3, <1>4

(* Kept holds the tables that were there before. *)
LEMMA KeptFacts ==
    ASSUME NEW from, NEW to, IsList(to.tables)
    PROVE  /\ IsList(Kept(from, to))
           /\ ToSet(Kept(from, to)) =
                {t \in ToSet(to.tables) : Has(from.tables, t.name)}
<1> DEFINE S == {t \in ToSet(to.tables) : Has(from.tables, t.name)}
           f == [i \in DOMAIN to.tables |->
                    IF to.tables[i] \in S THEN <<to.tables[i]>> ELSE <<>>]
<1>1. Kept(from, to) = FlattenSeq(f)
  <2>1. [i \in DOMAIN to.tables |->
           IF Has(from.tables, to.tables[i].name) THEN <<to.tables[i]>> ELSE <<>>] = f
    BY DEF ToSet
  <2> QED
    BY <2>1 DEF Kept, Those
<1>2. ToSet(to.tables) \cap S = S
  OBVIOUS
<1>3. IsList(FlattenSeq(f)) /\ ToSet(FlattenSeq(f)) = ToSet(to.tables) \cap S
  <2>1. /\ f = [i \in DOMAIN to.tables |-> f[i]] /\ DOMAIN f = DOMAIN to.tables
        /\ \A i \in DOMAIN to.tables :
              f[i] = IF to.tables[i] \in S THEN <<to.tables[i]>> ELSE <<>>
    OBVIOUS
  <2> HIDE DEF f, S
  <2> QED
    BY <2>1, MadeOf, Selected
<1> QED
  BY <1>1, <1>2, <1>3, Zenon

(* Operations on the elements of a list. *)
LEMMA OpsFacts ==
    ASSUME NEW kind, NEW table, NEW list, IsList(list)
    PROVE  /\ IsList(Ops(kind, table, list))
           /\ ToSet(Ops(kind, table, list)) =
                {Operation(kind, table, x) : x \in ToSet(list)}
<1>1. Len(list) \in Nat /\ DOMAIN list = 1..Len(list)
  BY ListFacts
<1>2. IsList(Ops(kind, table, list))
  BY <1>1, Mapped DEF Ops
<1> QED
  BY <1>2 DEF Ops, ToSet

(* Nothing is left of a list when nothing is left of its parts. *)
LEMMA JoinedEmpty ==
    ASSUME NEW a, NEW b, IsList(a), IsList(b)
    PROVE  IsList(a \o b) /\ (a \o b = <<>> <=> a = <<>> /\ b = <<>>)
<1>1. IsList(a \o b) /\ ToSet(a \o b) = ToSet(a) \cup ToSet(b)
  BY Joined
<1>2. /\ a \o b = <<>> <=> ToSet(a \o b) = {}
      /\ a = <<>> <=> ToSet(a) = {}
      /\ b = <<>> <=> ToSet(b) = {}
  BY <1>1, ListFacts
<1> QED
  BY <1>1, <1>2

(* A list of lists comes to nothing when each of them is empty. *)
LEMMA FlattenedEmpty ==
    ASSUME NEW f, IsList(f), NEW places, DOMAIN f = places,
           \A i \in places : IsList(f[i])
    PROVE  /\ IsList(FlattenSeq(f))
           /\ FlattenSeq(f) = <<>> <=> \A i \in places : f[i] = <<>>
<1>1. /\ IsList(FlattenSeq(f))
      /\ ToSet(FlattenSeq(f)) = UNION {ToSet(f[i]) : i \in DOMAIN f}
  BY Flattened, Zenon
<1>2. \A i \in places : f[i] = <<>> <=> ToSet(f[i]) = {}
  BY ListFacts
<1>3. FlattenSeq(f) = <<>> <=> ToSet(FlattenSeq(f)) = {}
  BY <1>1, ListFacts
<1>4. UNION {ToSet(f[i]) : i \in DOMAIN f} = {}
         <=> \A i \in places : ToSet(f[i]) = {}
  <2>1. \A x : x \in UNION {ToSet(f[i]) : i \in DOMAIN f}
                  <=> \E i \in places : x \in ToSet(f[i])
    BY Zenon
  <2> QED
    BY <2>1, Zenon
<1> QED
  BY <1>1, <1>2, <1>3, <1>4

(* A lookup finds an element of that name. *)
LEMMA FindFacts ==
    ASSUME NEW list, IsList(list), NEW n, Has(list, n)
    PROVE  Find(list, n) \in ToSet(list) /\ Find(list, n).name = n
<1> DEFINE I == {i \in 1..Len(list) : list[i].name = n}
<1>1. Len(list) \in Nat /\ DOMAIN list = 1..Len(list)
  BY ListFacts
<1>2. I # {} /\ I \in SUBSET Nat
  BY <1>1 DEF Has, Names, ToSet
<1>3. Find(list, n) = list[Min(I)]
  BY <1>2 DEF Find, SelectInSeq
<1>4. Min(I) \in I
  <2> HIDE DEF I
  <2>1. PICK x \in I : \A y \in I : x <= y
    BY <1>2, LeastNumber
  <2> QED
    BY <2>1 DEF Min
<1>5. list[Min(I)] \in ToSet(list) /\ list[Min(I)].name = n
  BY <1>1, <1>4 DEF ToSet
<1> QED
  BY <1>3, <1>5

(* There are no operations when there are no elements. *)
LEMMA OpsEmpty ==
    ASSUME NEW kind, NEW table, NEW list, IsList(list)
    PROVE  IsList(Ops(kind, table, list)) /\ (Ops(kind, table, list) = <<>> <=> list = <<>>)
<1>1. /\ IsList(Ops(kind, table, list))
      /\ ToSet(Ops(kind, table, list)) = {Operation(kind, table, x) : x \in ToSet(list)}
  BY OpsFacts
<1>2. /\ Ops(kind, table, list) = <<>> <=> ToSet(Ops(kind, table, list)) = {}
      /\ list = <<>> <=> ToSet(list) = {}
  BY <1>1, ListFacts
<1> QED
  BY <1>1, <1>2, Zenon

(* Names of one list that another lacks. *)
LEMMA AbsentEmpty ==
    ASSUME NEW list, IsList(list), NEW other
    PROVE  /\ IsList(Absent(list, other))
           /\ Absent(list, other) = <<>> <=> Names(list) \subseteq Names(other)
<1>1. /\ IsList(Absent(list, other))
      /\ ToSet(Absent(list, other)) = {x \in ToSet(list) : ~Has(other, x.name)}
  BY AbsentFacts
<1>2. Absent(list, other) = <<>> <=> \A x \in ToSet(list) : Has(other, x.name)
  BY <1>1, ListFacts
<1> QED
  BY <1>1, <1>2, Zenon DEF Has, Names

(* What is dropped, and what is added. *)
LEMMA DropsEmpty ==
    ASSUME NEW kind, NEW t, NEW new, NEW old, IsList(new), IsList(old)
    PROVE  /\ IsList(DropsOf(kind, t, new, old))
           /\ DropsOf(kind, t, new, old) = <<>>
                <=> /\ Names(old) \subseteq Names(new)
                    /\ \A x \in ToSet(new) : Has(old, x.name) => Find(old, x.name) = x
<1>1. /\ IsList(Redefined(new, old))
      /\ ToSet(Redefined(new, old)) =
            {x \in ToSet(new) : Has(old, x.name) /\ Find(old, x.name) # x}
  BY RedefinedFacts
<1>2. Redefined(new, old) = <<>>
         <=> \A x \in ToSet(new) : Has(old, x.name) => Find(old, x.name) = x
  BY <1>1, ListFacts
<1>3. /\ IsList(Absent(old, new))
      /\ Absent(old, new) = <<>> <=> Names(old) \subseteq Names(new)
  BY AbsentEmpty
<1>4. /\ IsList(Ops(kind, t, Redefined(new, old)))
      /\ Ops(kind, t, Redefined(new, old)) = <<>> <=> Redefined(new, old) = <<>>
      /\ IsList(Ops(kind, t, Absent(old, new)))
      /\ Ops(kind, t, Absent(old, new)) = <<>> <=> Absent(old, new) = <<>>
  BY <1>1, <1>3, OpsEmpty
<1>5. /\ IsList(DropsOf(kind, t, new, old))
      /\ DropsOf(kind, t, new, old) = <<>>
           <=> /\ Ops(kind, t, Redefined(new, old)) = <<>>
               /\ Ops(kind, t, Absent(old, new)) = <<>>
  BY <1>4, JoinedEmpty DEF DropsOf
<1> QED
  BY <1>2, <1>3, <1>4, <1>5

(* Nothing is added when every element is there as it is. *)
LEMMA AddsEmpty ==
    ASSUME NEW kind, NEW t, NEW new, NEW old, IsList(new), IsList(old)
    PROVE  /\ IsList(AddsOf(kind, t, new, old))
           /\ AddsOf(kind, t, new, old) = <<>>
                <=> \A x \in ToSet(new) : Has(old, x.name) /\ Find(old, x.name) = x
<1>1. /\ IsList(AbsentOrRedefined(new, old))
      /\ ToSet(AbsentOrRedefined(new, old)) =
            {x \in ToSet(new) : ~Has(old, x.name) \/ Find(old, x.name) # x}
  BY RedefinedFacts
<1>2. AbsentOrRedefined(new, old) = <<>>
         <=> \A x \in ToSet(new) : Has(old, x.name) /\ Find(old, x.name) = x
  BY <1>1, ListFacts
<1> QED
  BY <1>1, <1>2, OpsEmpty DEF AddsOf

(* Two lists have the same elements, as far as lookups by name tell. *)
SameByName(old, new) ==
    /\ Names(old) = Names(new)
    /\ \A x \in ToSet(new) : Find(old, x.name) = x

(* Nothing is dropped and nothing is added between lists that are the same. *)
LEMMA NothingByName ==
    ASSUME NEW kind, NEW added, NEW t, NEW new, NEW old, IsList(new), IsList(old)
    PROVE  /\ IsList(DropsOf(kind, t, new, old)) /\ IsList(AddsOf(added, t, new, old))
           /\ DropsOf(kind, t, new, old) = <<>> /\ AddsOf(added, t, new, old) = <<>>
                <=> SameByName(old, new)
<1>1. Names(new) \subseteq Names(old) <=> \A x \in ToSet(new) : Has(old, x.name)
  BY Zenon DEF Names, Has
<1> QED
  BY <1>1, DropsEmpty, AddsEmpty DEF SameByName
-----------------------------------------------------------------------------
(* What the differ finds in a table that both models have *)

IsTable(t) ==
    /\ IsList(t.columns) /\ IsList(t.fks) /\ IsList(t.indexes)
    /\ IsList(t.checks) /\ IsList(t.triggers) /\ IsList(t.seed)

(* No column is added, altered or dropped when the columns are the same. *)
LEMMA NoColumns ==
    ASSUME NEW old, NEW new, IsTable(old), IsTable(new)
    PROVE  /\ IsList(DiffColumns(old, new))
           /\ DiffColumns(old, new) = <<>> <=> SameByName(old.columns, new.columns)
<1> DEFINE Of(c) ==
               IF ~Has(old.columns, c.name)
               THEN <<Operation("add_column", new.name, c)>>
               ELSE IF Find(old.columns, c.name) # c
               THEN <<[kind |-> "alter_column", table |-> new.name, arg |-> c,
                       old |-> Find(old.columns, c.name)]>>
               ELSE <<>>
           f == [i \in DOMAIN new.columns |-> Of(new.columns[i])]
           gone == Ops("drop_column", new.name, Absent(old.columns, new.columns))
<1>1. IsList(new.columns) /\ IsList(old.columns)
  BY DEF IsTable
<1>2. DiffColumns(old, new) = FlattenSeq(f) \o gone
  BY DEF DiffColumns
<1>3. ASSUME NEW c
      PROVE  /\ IsList(Of(c))
             /\ Of(c) = <<>> <=> Has(old.columns, c.name) /\ Find(old.columns, c.name) = c
  <2>1. \A x : IsList(<<x>>) /\ <<x>> # <<>>
    BY OneHolds
  <2>2. IsList(<<>>)
    BY NoneHolds
  <2>3. PICK x, y : Of(c) = IF ~Has(old.columns, c.name) THEN <<x>>
                            ELSE IF Find(old.columns, c.name) # c THEN <<y>> ELSE <<>>
    OBVIOUS
  <2> HIDE DEF Of
  <2> QED
    BY <2>1, <2>2, <2>3
<1> HIDE DEF Of
<1>0. f = [i \in DOMAIN new.columns |-> f[i]]
  OBVIOUS
<1>4. DOMAIN f = DOMAIN new.columns /\ \A i \in DOMAIN new.columns : f[i] = Of(new.columns[i])
  OBVIOUS
<1> HIDE DEF f
<1>5. IsList(f)
  BY <1>0, <1>1, MadeOf
<1>6. /\ IsList(FlattenSeq(f))
      /\ FlattenSeq(f) = <<>> <=> \A i \in DOMAIN new.columns : Of(new.columns[i]) = <<>>
  <2>1. \A i \in DOMAIN new.columns : IsList(f[i])
    BY <1>3, <1>4
  <2> QED
    BY <1>4, <1>5, <2>1, FlattenedEmpty
<1>7. FlattenSeq(f) = <<>>
         <=> \A c \in ToSet(new.columns) :
                Has(old.columns, c.name) /\ Find(old.columns, c.name) = c
  <2>1. \A c \in ToSet(new.columns) : \E i \in DOMAIN new.columns : c = new.columns[i]
    BY Zenon DEF ToSet
  <2>2. \A i \in DOMAIN new.columns : new.columns[i] \in ToSet(new.columns)
    BY Zenon DEF ToSet
  <2> QED
    BY <1>3, <1>6, <2>1, <2>2, Zenon
<1>8. /\ IsList(gone)
      /\ gone = <<>> <=> Names(old.columns) \subseteq Names(new.columns)
  BY <1>1, AbsentEmpty, OpsEmpty
<1> HIDE DEF gone
<1>9. Names(new.columns) \subseteq Names(old.columns)
         <=> \A c \in ToSet(new.columns) : Has(old.columns, c.name)
  BY Zenon DEF Names, Has
<1>10. /\ IsList(DiffColumns(old, new))
       /\ DiffColumns(old, new) = <<>> <=> FlattenSeq(f) = <<>> /\ gone = <<>>
  BY <1>2, <1>6, <1>8, JoinedEmpty
<1> QED
  BY <1>7, <1>8, <1>9, <1>10 DEF SameByName

(* A table is rebuilt when SQLite needs it. *)
LEMMA NoRebuild ==
    ASSUME NEW old, NEW new
    PROVE  /\ IsList(Rebuild(old, new))
           /\ Rebuild(old, new) = <<>> <=> ~NeedsRebuild(old, new)
<1>1. PICK x : Rebuild(old, new) = IF NeedsRebuild(old, new) THEN <<x>> ELSE <<>>
  BY DEF Rebuild
<1> QED
  BY <1>1, OneHolds, NoneHolds

(* Each row is found in the other, by its key, as it is. *)
SameSeed(old, new) ==
    LET cols == MatchKey(new)
        Place(rows, row) == RowWithKey(rows, SeedKey(row, cols), cols) IN
    /\ \A row \in ToSet(new.seed) :
          /\ Place(old.seed, row) # 0
          /\ old.seed[Place(old.seed, row)] = row
    /\ \A row \in ToSet(old.seed) : Place(new.seed, row) # 0

(* No row is inserted, updated or deleted when the rows are the same. *)
LEMMA NoSeed ==
    ASSUME NEW old, NEW new, IsTable(old), IsTable(new)
    PROVE  /\ IsList(DiffSeedData(old, new))
           /\ DiffSeedData(old, new) = <<>> <=> SameSeed(old, new)
<1> DEFINE cols == MatchKey(new)
           Place(rows, row) == RowWithKey(rows, SeedKey(row, cols), cols)
           Of(row) ==
             LET key == SeedKey(row, cols)
                 i == RowWithKey(old.seed, key, cols) IN
             IF i = 0 THEN <<Operation("insert_data", new.name, row)>>
             ELSE IF old.seed[i] # row
             THEN <<Operation("update_data", new.name,
                      [key |-> key,
                       values |-> [c \in DOMAIN row \ cols |-> row[c]]])>>
             ELSE <<>>
           f == [i \in DOMAIN new.seed |-> Of(new.seed[i])]
           S == {r \in ToSet(old.seed) : Place(new.seed, r) = 0}
           g == [i \in DOMAIN old.seed |->
                    IF old.seed[i] \in S THEN <<old.seed[i]>> ELSE <<>>]
           gone == FlattenSeq(g)
           deletes == [i \in DOMAIN gone |->
                          Operation("delete_data", new.name, SeedKey(gone[i], cols))]
<1>1. IsList(new.seed) /\ IsList(old.seed)
  BY DEF IsTable
<1>2. DiffSeedData(old, new) = FlattenSeq(f) \o deletes
  <2>1. [i \in DOMAIN old.seed |->
           IF RowWithKey(new.seed, SeedKey(old.seed[i], cols), cols) = 0
           THEN <<old.seed[i]>> ELSE <<>>] = g
    BY DEF ToSet
  <2> QED
    BY <2>1 DEF DiffSeedData, Those
<1>3. ASSUME NEW row
      PROVE  /\ IsList(Of(row))
             /\ Of(row) = <<>>
                  <=> Place(old.seed, row) # 0 /\ old.seed[Place(old.seed, row)] = row
  <2>1. \A x : IsList(<<x>>) /\ <<x>> # <<>>
    BY OneHolds
  <2>2. IsList(<<>>)
    BY NoneHolds
  <2>3. PICK x, y : Of(row) = IF Place(old.seed, row) = 0 THEN <<x>>
                              ELSE IF old.seed[Place(old.seed, row)] # row THEN <<y>>
                              ELSE <<>>
    OBVIOUS
  <2> HIDE DEF Of, Place
  <2> QED
    BY <2>1, <2>2, <2>3
<1> HIDE DEF Of, Place
<1>0. f = [i \in DOMAIN new.seed |-> f[i]]
  OBVIOUS
<1>4. DOMAIN f = DOMAIN new.seed /\ \A i \in DOMAIN new.seed : f[i] = Of(new.seed[i])
  OBVIOUS
<1>5. /\ g = [i \in DOMAIN old.seed |-> g[i]] /\ DOMAIN g = DOMAIN old.seed
      /\ \A i \in DOMAIN old.seed :
            g[i] = IF old.seed[i] \in S THEN <<old.seed[i]>> ELSE <<>>
  OBVIOUS
<1> HIDE DEF f, g
<1>6. /\ IsList(FlattenSeq(f))
      /\ FlattenSeq(f) = <<>> <=> \A i \in DOMAIN new.seed : Of(new.seed[i]) = <<>>
  <2>1. IsList(f)
    BY <1>0, <1>1, MadeOf
  <2>2. \A i \in DOMAIN new.seed : IsList(f[i])
    BY <1>3, <1>4
  <2> QED
    BY <1>4, <2>1, <2>2, FlattenedEmpty
<1>7. FlattenSeq(f) = <<>>
         <=> \A row \in ToSet(new.seed) :
                Place(old.seed, row) # 0 /\ old.seed[Place(old.seed, row)] = row
  <2>1. \A r \in ToSet(new.seed) : \E i \in DOMAIN new.seed : r = new.seed[i]
    BY Zenon DEF ToSet
  <2>2. \A i \in DOMAIN new.seed : new.seed[i] \in ToSet(new.seed)
    BY Zenon DEF ToSet
  <2> QED
    BY <1>3, <1>6, <2>1, <2>2, Zenon
<1>8. IsList(gone) /\ ToSet(gone) = ToSet(old.seed) \cap S
  <2> HIDE DEF S
  <2> QED
    BY <1>1, <1>5, MadeOf, Selected
<1>9. gone = <<>> <=> \A row \in ToSet(old.seed) : Place(new.seed, row) # 0
  <2>1. gone = <<>> <=> ToSet(old.seed) \cap S = {}
    <3> HIDE DEF gone, S
    <3> QED
      BY <1>8, ListFacts
  <2> HIDE DEF gone
  <2> QED
    BY <2>1
<1> HIDE DEF gone, S
<1>10. IsList(deletes) /\ (deletes = <<>> <=> gone = <<>>)
  <2>1. deletes = [i \in DOMAIN gone |-> deletes[i]] /\ DOMAIN deletes = DOMAIN gone
    OBVIOUS
  <2> HIDE DEF deletes
  <2>2. IsList(deletes) /\ Len(deletes) = Len(gone)
    BY <1>8, <2>1, MadeOf
  <2>3. /\ Len(gone) = 0 <=> gone = <<>>
        /\ Len(deletes) = 0 <=> deletes = <<>>
    BY <1>8, <2>2 DEF IsList
  <2> QED
    BY <2>2, <2>3
<1> HIDE DEF deletes
<1>11. /\ IsList(DiffSeedData(old, new))
       /\ DiffSeedData(old, new) = <<>> <=> FlattenSeq(f) = <<>> /\ deletes = <<>>
  BY <1>2, <1>6, <1>10, JoinedEmpty
<1>12. SameSeed(old, new)
          <=> /\ \A row \in ToSet(new.seed) :
                    Place(old.seed, row) # 0 /\ old.seed[Place(old.seed, row)] = row
              /\ \A row \in ToSet(old.seed) : Place(new.seed, row) # 0
  BY Zenon DEF SameSeed, Place
<1> QED
  BY <1>7, <1>9, <1>10, <1>11, <1>12
-----------------------------------------------------------------------------
(* What is lost *)

(* The operations that delete rows or values of them. *)
DropKinds == {"drop_table", "drop_column", "delete_data"}
Harmless(list) == \A op \in ToSet(list) : op.kind \notin DropKinds

(* A joined list is harmless when its parts are. *)
LEMMA JoinedHarmless ==
    ASSUME NEW a, NEW b, IsList(a), IsList(b), Harmless(a), Harmless(b)
    PROVE  Harmless(a \o b)
BY Joined DEF Harmless

(* The operations on a list are, when their kind is. *)
LEMMA OpsHarmless ==
    ASSUME NEW kind, kind \notin DropKinds, NEW table, NEW list, IsList(list)
    PROVE  Harmless(Ops(kind, table, list))
<1>1. ToSet(Ops(kind, table, list)) = {Operation(kind, table, x) : x \in ToSet(list)}
  BY OpsFacts
<1>2. \A x : Operation(kind, table, x).kind = kind
  BY DEF Operation
<1> QED
  BY <1>1, <1>2 DEF Harmless

(* So are a redefinition's. *)
LEMMA DropsAndAddsHarmless ==
    ASSUME NEW kind, kind \notin DropKinds, NEW t, NEW new, NEW old,
           IsList(new), IsList(old)
    PROVE  Harmless(DropsOf(kind, t, new, old)) /\ Harmless(AddsOf(kind, t, new, old))
<1>1. /\ IsList(Redefined(new, old)) /\ IsList(AbsentOrRedefined(new, old))
      /\ IsList(Absent(old, new))
  BY RedefinedFacts, AbsentFacts
<1>2. /\ Harmless(Ops(kind, t, Redefined(new, old)))
      /\ Harmless(Ops(kind, t, Absent(old, new)))
      /\ Harmless(Ops(kind, t, AbsentOrRedefined(new, old)))
  BY <1>1, OpsHarmless
<1>3. /\ IsList(Ops(kind, t, Redefined(new, old)))
      /\ IsList(Ops(kind, t, Absent(old, new)))
  BY <1>1, OpsFacts
<1> QED
  BY <1>2, <1>3, JoinedHarmless DEF DropsOf, AddsOf

(* A column is dropped when the old table has it and the new one does not. *)
ColumnsGone(op, old, new) ==
    /\ op.kind \in DropKinds => op.kind = "drop_column"
    /\ op.kind = "drop_column" =>
          /\ op.table = new.name
          /\ op.arg \in ToSet(old.columns) /\ ~Has(new.columns, op.arg.name)

(* That is what DiffColumns drops. *)
LEMMA ColumnsDropped ==
    ASSUME NEW old, NEW new, IsTable(old), IsTable(new),
           NEW op \in ToSet(DiffColumns(old, new))
    PROVE  ColumnsGone(op, old, new)
<1> DEFINE add(c) == Operation("add_column", new.name, c)
           alter(c) == [kind |-> "alter_column", table |-> new.name, arg |-> c,
                          old |-> Find(old.columns, c.name)]
           Of(c) == IF ~Has(old.columns, c.name) THEN <<add(c)>>
                    ELSE IF Find(old.columns, c.name) # c THEN <<alter(c)>>
                    ELSE <<>>
           f == [i \in DOMAIN new.columns |-> Of(new.columns[i])]
           gone == Ops("drop_column", new.name, Absent(old.columns, new.columns))
<1>1. IsList(new.columns) /\ IsList(old.columns)
  BY DEF IsTable
<1>2. DiffColumns(old, new) = FlattenSeq(f) \o gone
  BY DEF DiffColumns
<1>3. ASSUME NEW c PROVE add(c).kind = "add_column" /\ alter(c).kind = "alter_column"
  BY DEF Operation
<1> HIDE DEF add, alter
<1>4. ASSUME NEW c PROVE IsList(Of(c)) /\ Harmless(Of(c))
  <2>1. /\ IsList(<<add(c)>>) /\ ToSet(<<add(c)>>) = {add(c)}
        /\ IsList(<<alter(c)>>) /\ ToSet(<<alter(c)>>) = {alter(c)}
        /\ IsList(<<>>) /\ ToSet(<<>>) = {}
    BY OneHolds, NoneHolds
  <2>2. "add_column" \notin DropKinds /\ "alter_column" \notin DropKinds
    BY DEF DropKinds
  <2>3. Harmless(<<add(c)>>) /\ Harmless(<<alter(c)>>) /\ Harmless(<<>>)
    BY <1>3, <2>1, <2>2 DEF Harmless
  <2> QED
    BY <2>1, <2>3
<1> HIDE DEF Of
<1>5. f = [i \in DOMAIN new.columns |-> f[i]]
  OBVIOUS
<1>6. DOMAIN f = DOMAIN new.columns /\ \A i \in DOMAIN new.columns : f[i] = Of(new.columns[i])
  OBVIOUS
<1> HIDE DEF f
<1>7. IsList(f)
  BY <1>1, <1>5, MadeOf
<1>8. \A i \in DOMAIN f : IsList(f[i]) /\ Harmless(f[i])
  BY <1>4, <1>6
<1>9. IsList(FlattenSeq(f)) /\ ToSet(FlattenSeq(f)) = UNION {ToSet(f[i]) : i \in DOMAIN f}
  BY <1>7, <1>8, Flattened
<1>10. Harmless(FlattenSeq(f))
  BY <1>8, <1>9 DEF Harmless
<1>11. /\ IsList(Absent(old.columns, new.columns))
       /\ ToSet(Absent(old.columns, new.columns)) =
            {x \in ToSet(old.columns) : ~Has(new.columns, x.name)}
  BY <1>1, AbsentFacts
<1>12. /\ IsList(gone)
       /\ ToSet(gone) = {Operation("drop_column", new.name, x) :
                            x \in ToSet(Absent(old.columns, new.columns))}
  BY <1>11, OpsFacts
<1>13. op \in ToSet(FlattenSeq(f)) \/ op \in ToSet(gone)
  BY <1>2, <1>9, <1>12, Joined
<1>14. CASE op \in ToSet(FlattenSeq(f))
  BY <1>10, <1>14 DEF Harmless, ColumnsGone, DropKinds
<1>15. CASE op \in ToSet(gone)
  <2>1. PICK x \in ToSet(old.columns) :
           ~Has(new.columns, x.name) /\ op = Operation("drop_column", new.name, x)
    BY <1>11, <1>12, <1>15
  <2> QED
    BY <2>1 DEF ColumnsGone, Operation
<1> QED
  BY <1>13, <1>14, <1>15

(* A seed row is deleted when the old table has it and the new one has no row *)
(* of its key.                                                               *)
RowsGone(op, old, new) ==
    /\ op.kind \in DropKinds => op.kind = "delete_data"
    /\ op.kind = "delete_data" =>
          /\ op.table = new.name
          /\ \E row \in ToSet(old.seed) : op.arg = SeedKey(row, MatchKey(new))
          /\ RowWithKey(new.seed, op.arg, MatchKey(new)) = 0

(* That is what DiffSeedData deletes. *)
LEMMA RowsDeleted ==
    ASSUME NEW old, NEW new, IsTable(old), IsTable(new),
           NEW op \in ToSet(DiffSeedData(old, new))
    PROVE  RowsGone(op, old, new)
<1> DEFINE cols == MatchKey(new)
           Place(rows, row) == RowWithKey(rows, SeedKey(row, cols), cols)
           insert(row) == Operation("insert_data", new.name, row)
           update(row) == Operation("update_data", new.name,
                              [key |-> SeedKey(row, cols),
                               values |-> [c \in DOMAIN row \ cols |-> row[c]]])
           delete(row) == Operation("delete_data", new.name, SeedKey(row, cols))
           Of(row) == IF Place(old.seed, row) = 0 THEN <<insert(row)>>
                      ELSE IF old.seed[Place(old.seed, row)] # row THEN <<update(row)>>
                      ELSE <<>>
           f == [i \in DOMAIN new.seed |-> Of(new.seed[i])]
           S == {r \in ToSet(old.seed) : Place(new.seed, r) = 0}
           g == [i \in DOMAIN old.seed |->
                    IF old.seed[i] \in S THEN <<old.seed[i]>> ELSE <<>>]
           gone == FlattenSeq(g)
           deletes == [i \in DOMAIN gone |-> delete(gone[i])]
<1>1. IsList(new.seed) /\ IsList(old.seed)
  BY DEF IsTable
<1>2. DiffSeedData(old, new) = FlattenSeq(f) \o deletes
  <2>1. [i \in DOMAIN old.seed |->
           IF RowWithKey(new.seed, SeedKey(old.seed[i], cols), cols) = 0
           THEN <<old.seed[i]>> ELSE <<>>] = g
    BY DEF ToSet
  <2> QED
    BY <2>1 DEF DiffSeedData, Those
<1>3. ASSUME NEW row
      PROVE  insert(row).kind = "insert_data" /\ update(row).kind = "update_data"
  BY DEF Operation
<1>4. ASSUME NEW row
      PROVE  /\ delete(row).kind = "delete_data" /\ delete(row).table = new.name
             /\ delete(row).arg = SeedKey(row, cols)
  BY DEF Operation
<1> HIDE DEF insert, update, delete
<1>5. ASSUME NEW row PROVE IsList(Of(row)) /\ Harmless(Of(row))
  <2>1. /\ IsList(<<insert(row)>>) /\ ToSet(<<insert(row)>>) = {insert(row)}
        /\ IsList(<<update(row)>>) /\ ToSet(<<update(row)>>) = {update(row)}
        /\ IsList(<<>>) /\ ToSet(<<>>) = {}
    BY OneHolds, NoneHolds
  <2>2. "insert_data" \notin DropKinds /\ "update_data" \notin DropKinds
    BY DEF DropKinds
  <2>3. Harmless(<<insert(row)>>) /\ Harmless(<<update(row)>>) /\ Harmless(<<>>)
    BY <1>3, <2>1, <2>2 DEF Harmless
  <2> HIDE DEF Place
  <2> QED
    BY <2>1, <2>3
<1> HIDE DEF Of
<1>6. f = [i \in DOMAIN new.seed |-> f[i]]
  OBVIOUS
<1>7. DOMAIN f = DOMAIN new.seed /\ \A i \in DOMAIN new.seed : f[i] = Of(new.seed[i])
  OBVIOUS
<1>8. /\ g = [i \in DOMAIN old.seed |-> g[i]] /\ DOMAIN g = DOMAIN old.seed
      /\ \A i \in DOMAIN old.seed :
            g[i] = IF old.seed[i] \in S THEN <<old.seed[i]>> ELSE <<>>
  OBVIOUS
<1> HIDE DEF f, g
<1>9. IsList(f)
  BY <1>1, <1>6, MadeOf
<1>10. \A i \in DOMAIN f : IsList(f[i]) /\ Harmless(f[i])
  BY <1>5, <1>7
<1>11. IsList(FlattenSeq(f)) /\ ToSet(FlattenSeq(f)) = UNION {ToSet(f[i]) : i \in DOMAIN f}
  BY <1>9, <1>10, Flattened
<1>12. Harmless(FlattenSeq(f))
  BY <1>10, <1>11 DEF Harmless
<1>13. IsList(gone) /\ ToSet(gone) = ToSet(old.seed) \cap S
  <2> HIDE DEF S
  <2> QED
    BY <1>1, <1>8, MadeOf, Selected
<1> HIDE DEF gone
<1>14. IsList(deletes) /\ ToSet(deletes) = {delete(row) : row \in ToSet(gone)}
  <2>1. deletes = [i \in DOMAIN gone |-> deletes[i]]
    OBVIOUS
  <2>2. IsList(deletes)
    <3> HIDE DEF deletes
    <3> QED
      BY <1>13, <2>1, MadeOf
  <2> QED
    BY <2>2 DEF ToSet
<1>15. op \in ToSet(FlattenSeq(f)) \/ op \in ToSet(deletes)
  <2> HIDE DEF deletes
  <2> QED
    BY <1>2, <1>11, <1>14, Joined
<1>16. CASE op \in ToSet(FlattenSeq(f))
  BY <1>12, <1>16 DEF Harmless, RowsGone, DropKinds
<1>17. CASE op \in ToSet(deletes)
  <2>1. PICK row \in ToSet(old.seed) : Place(new.seed, row) = 0 /\ op = delete(row)
    BY <1>13, <1>14, <1>17
  <2> QED
    BY <1>4, <2>1 DEF RowsGone
<1> QED
  BY <1>15, <1>16, <1>17
-----------------------------------------------------------------------------
(* What the differ says *)

IsModel(model) ==
    /\ IsList(model.tables) /\ IsList(model.functions)
    /\ IsList(model.views) /\ IsList(model.raw)
    /\ IsFiniteSet(model.extensions)
    /\ \A t \in ToSet(model.tables) : IsTable(t)

(* Two tables are one to the differ if all of these are.  Of indexes it sees *)
(* the names; the primary key it does not see.                              *)
SameTable(old, new) ==
    /\ SameByName(old.columns, new.columns)
    /\ SameByName(old.fks, new.fks)
    /\ SameByName(old.checks, new.checks) /\ old.checks = new.checks
    /\ SameByName(old.triggers, new.triggers)
    /\ Names(old.indexes) = Names(new.indexes)
    /\ SameSeed(old, new)

(* And two models.  Of raw DDL and extensions it sees what is new.          *)
LooksSame(from, to) ==
    /\ WantedExtensions(to) \subseteq WantedExtensions(from)
    /\ Names(from.tables) = Names(to.tables)
    /\ \A t \in ToSet(to.tables) : SameTable(Find(from.tables, t.name), t)
    /\ SameByName(from.functions, to.functions)
    /\ SameByName(from.views, to.views)
    /\ Names(to.raw) \subseteq Names(from.raw)

(* A table that was kept and is the same has nothing of any kind to do.      *)
LEMMA NothingForTable ==
    ASSUME NEW old, NEW t, IsTable(old), IsTable(t)
    PROVE  LET DropTriggers == DropsOf("drop_trigger", t.name, t.triggers, old.triggers)
               DropKeys == DropsOf("drop_fk", t.name, t.fks, old.fks)
               DropChecks == DropsOf("drop_check", t.name, t.checks, old.checks)
               DropIndexes == Ops("drop_index", t.name, Absent(old.indexes, t.indexes))
               Keys == AddsOf("add_fk", t.name, t.fks, old.fks)
               Checks == AddsOf("add_check", t.name, t.checks, old.checks)
               Indexes == Ops("create_index", t.name, Absent(t.indexes, old.indexes))
               Triggers == AddsOf("create_trigger", t.name, t.triggers, old.triggers)
           IN
           /\ IsList(DropTriggers) /\ IsList(DropKeys) /\ IsList(DropChecks)
           /\ IsList(DropIndexes) /\ IsList(DiffColumns(old, t)) /\ IsList(Keys)
           /\ IsList(Checks) /\ IsList(Indexes) /\ IsList(Triggers)
           /\ IsList(Rebuild(old, t)) /\ IsList(DiffSeedData(old, t))
           /\ SameTable(old, t) <=>
                 /\ DropTriggers = <<>> /\ DropKeys = <<>> /\ DropChecks = <<>>
                 /\ DropIndexes = <<>> /\ DiffColumns(old, t) = <<>> /\ Keys = <<>>
                 /\ Checks = <<>> /\ Indexes = <<>> /\ Triggers = <<>>
                 /\ Rebuild(old, t) = <<>> /\ DiffSeedData(old, t) = <<>>
<1>1. /\ IsList(t.columns) /\ IsList(t.fks) /\ IsList(t.indexes)
      /\ IsList(t.checks) /\ IsList(t.triggers)
      /\ IsList(old.columns) /\ IsList(old.fks) /\ IsList(old.indexes)
      /\ IsList(old.checks) /\ IsList(old.triggers)
  BY DEF IsTable
<1>2. /\ IsList(DropsOf("drop_trigger", t.name, t.triggers, old.triggers))
      /\ IsList(AddsOf("create_trigger", t.name, t.triggers, old.triggers))
      /\ SameByName(old.triggers, t.triggers) <=>
            /\ DropsOf("drop_trigger", t.name, t.triggers, old.triggers) = <<>>
            /\ AddsOf("create_trigger", t.name, t.triggers, old.triggers) = <<>>
  BY <1>1, NothingByName
<1>3. /\ IsList(DropsOf("drop_fk", t.name, t.fks, old.fks))
      /\ IsList(AddsOf("add_fk", t.name, t.fks, old.fks))
      /\ SameByName(old.fks, t.fks) <=>
            /\ DropsOf("drop_fk", t.name, t.fks, old.fks) = <<>>
            /\ AddsOf("add_fk", t.name, t.fks, old.fks) = <<>>
  BY <1>1, NothingByName
<1>4. /\ IsList(DropsOf("drop_check", t.name, t.checks, old.checks))
      /\ IsList(AddsOf("add_check", t.name, t.checks, old.checks))
      /\ SameByName(old.checks, t.checks) <=>
            /\ DropsOf("drop_check", t.name, t.checks, old.checks) = <<>>
            /\ AddsOf("add_check", t.name, t.checks, old.checks) = <<>>
  BY <1>1, NothingByName
<1>5. /\ IsList(Ops("drop_index", t.name, Absent(old.indexes, t.indexes)))
      /\ IsList(Ops("create_index", t.name, Absent(t.indexes, old.indexes)))
      /\ Names(old.indexes) = Names(t.indexes) <=>
            /\ Ops("drop_index", t.name, Absent(old.indexes, t.indexes)) = <<>>
            /\ Ops("create_index", t.name, Absent(t.indexes, old.indexes)) = <<>>
  <2>1. /\ IsList(Absent(old.indexes, t.indexes))
        /\ Absent(old.indexes, t.indexes) = <<>> <=> Names(old.indexes) \subseteq Names(t.indexes)
        /\ IsList(Absent(t.indexes, old.indexes))
        /\ Absent(t.indexes, old.indexes) = <<>> <=> Names(t.indexes) \subseteq Names(old.indexes)
    BY <1>1, AbsentEmpty
  <2>2. PICK gone, came : gone = Absent(old.indexes, t.indexes)
                          /\ came = Absent(t.indexes, old.indexes)
    OBVIOUS
  <2>3. /\ IsList(Ops("drop_index", t.name, gone))
        /\ Ops("drop_index", t.name, gone) = <<>> <=> gone = <<>>
        /\ IsList(Ops("create_index", t.name, came))
        /\ Ops("create_index", t.name, came) = <<>> <=> came = <<>>
    BY <2>1, <2>2, OpsEmpty
  <2> QED
    BY <2>1, <2>2, <2>3
<1>6. /\ IsList(DiffColumns(old, t))
      /\ DiffColumns(old, t) = <<>> <=> SameByName(old.columns, t.columns)
  BY NoColumns
<1>7. /\ IsList(Rebuild(old, t))
      /\ Rebuild(old, t) = <<>> <=> ~NeedsRebuild(old, t)
  BY NoRebuild
<1>8. /\ IsList(DiffSeedData(old, t))
      /\ DiffSeedData(old, t) = <<>> <=> SameSeed(old, t)
  BY NoSeed
<1>9. SameByName(old.columns, t.columns) /\ SameByName(old.fks, t.fks) =>
         (NeedsRebuild(old, t) <=> old.checks # t.checks)
  <2>1. SameByName(old.columns, t.columns) => Redefined(t.columns, old.columns) = <<>>
    <3>1. /\ IsList(Redefined(t.columns, old.columns))
          /\ ToSet(Redefined(t.columns, old.columns)) =
                {x \in ToSet(t.columns) :
                    Has(old.columns, x.name) /\ Find(old.columns, x.name) # x}
      BY <1>1, RedefinedFacts
    <3> QED
      BY <3>1, ListFacts DEF SameByName
  <2> QED
    BY <2>1 DEF NeedsRebuild, SameByName
<1> QED
  BY <1>2, <1>3, <1>4, <1>5, <1>6, <1>7, <1>8, <1>9 DEF SameTable

(* One operation for each extension. *)
LEMMA NoExtensions ==
    ASSUME NEW S, IsFiniteSet(S)
    PROVE  LET extensions == SetToSeq(S)
               ensured == [i \in DOMAIN extensions |->
                              Operation("ensure_extension", "", extensions[i])] IN
           IsList(ensured) /\ (ensured = <<>> <=> S = {})
<1> DEFINE extensions == SetToSeq(S)
           ensured == [i \in DOMAIN extensions |->
                          Operation("ensure_extension", "", extensions[i])]
<1>1. /\ Cardinality(S) \in Nat
      /\ \E f \in [1..Cardinality(S) -> S] : IsInjective(f)
  BY FS_CardinalityType DEF ExistsBijection, Bijection, Injection
<1>2. extensions \in [1..Cardinality(S) -> S]
  BY <1>1 DEF SetToSeq
<1>3. Cardinality(S) = 0 <=> S = {}
  BY FS_EmptySet
<1>4. ensured = [i \in 1..Cardinality(S) |-> ensured[i]] /\ DOMAIN ensured = 1..Cardinality(S)
  BY <1>2
<1> HIDE DEF ensured
<1>5. IsList(ensured) /\ Len(ensured) = Cardinality(S)
  BY <1>1, <1>4, Mapped
<1>6. Len(ensured) = 0 <=> ensured = <<>>
  BY <1>5 DEF IsList
<1> QED
  BY <1>3, <1>5, <1>6 DEF ensured

(* The table that operations on other things name. *)
Everywhere == ""

(* What is done for each table of a list. *)
Each(tables, todo) == FlattenSeq([i \in DOMAIN tables |-> todo[tables[i]]])

(* Nothing is done when there is nothing to do for any of the tables. *)
LEMMA EachEmpty ==
    ASSUME NEW tables, IsList(tables), NEW todo, \A t \in ToSet(tables) : IsList(todo[t])
    PROVE  /\ IsList(Each(tables, todo))
           /\ Each(tables, todo) = <<>> <=> \A t \in ToSet(tables) : todo[t] = <<>>
<1> DEFINE f == [i \in DOMAIN tables |-> todo[tables[i]]]
<1>1. f = [i \in DOMAIN tables |-> f[i]]
  OBVIOUS
<1>2. DOMAIN f = DOMAIN tables /\ \A i \in DOMAIN tables : f[i] = todo[tables[i]]
  OBVIOUS
<1>3. Each(tables, todo) = FlattenSeq(f)
  BY Zenon DEF Each
<1> HIDE DEF f
<1>4. IsList(f)
  BY <1>1, MadeOf
<1>5. \A i \in DOMAIN tables : tables[i] \in ToSet(tables)
  BY Zenon DEF ToSet
<1>6. \A t \in ToSet(tables) : \E i \in DOMAIN tables : t = tables[i]
  BY Zenon DEF ToSet
<1>7. \A i \in DOMAIN tables : IsList(f[i])
  BY <1>2, <1>5, Zenon
<1>8. /\ IsList(FlattenSeq(f))
      /\ FlattenSeq(f) = <<>> <=> \A i \in DOMAIN tables : f[i] = <<>>
  BY <1>2, <1>4, <1>7, FlattenedEmpty
<1> QED
  BY <1>2, <1>3, <1>5, <1>6, <1>8, Zenon

(* The lists that Diff is made of, seven at a time. *)
LEMMA SevenEmpty ==
    ASSUME NEW a, NEW b, NEW c, NEW d, NEW e, NEW f, NEW g,
           IsList(a), IsList(b), IsList(c), IsList(d), IsList(e), IsList(f), IsList(g)
    PROVE  LET all == a \o b \o c \o d \o e \o f \o g IN
           /\ IsList(all)
           /\ all = <<>> <=> /\ a = <<>> /\ b = <<>> /\ c = <<>> /\ d = <<>>
                            /\ e = <<>> /\ f = <<>> /\ g = <<>>
<1>1. PICK ab : ab = a \o b
  OBVIOUS
<1>2. PICK abc : abc = ab \o c
  OBVIOUS
<1>3. PICK abcd : abcd = abc \o d
  OBVIOUS
<1>4. PICK abcde : abcde = abcd \o e
  OBVIOUS
<1>5. PICK abcdef : abcdef = abcde \o f
  OBVIOUS
<1>6. IsList(ab) /\ (ab = <<>> <=> a = <<>> /\ b = <<>>)
  BY <1>1, JoinedEmpty
<1>7. IsList(abc) /\ (abc = <<>> <=> ab = <<>> /\ c = <<>>)
  BY <1>2, <1>6, JoinedEmpty
<1>8. IsList(abcd) /\ (abcd = <<>> <=> abc = <<>> /\ d = <<>>)
  BY <1>3, <1>7, JoinedEmpty
<1>9. IsList(abcde) /\ (abcde = <<>> <=> abcd = <<>> /\ e = <<>>)
  BY <1>4, <1>8, JoinedEmpty
<1>10. IsList(abcdef) /\ (abcdef = <<>> <=> abcde = <<>> /\ f = <<>>)
  BY <1>5, <1>9, JoinedEmpty
<1>11. IsList(abcdef \o g) /\ (abcdef \o g = <<>> <=> abcdef = <<>> /\ g = <<>>)
  BY <1>10, JoinedEmpty
<1>12. a \o b \o c \o d \o e \o f \o g = abcdef \o g
  BY <1>1, <1>2, <1>3, <1>4, <1>5
<1> QED
  BY <1>6, <1>7, <1>8, <1>9, <1>10, <1>11, <1>12

(* What is done for the tables of a list. *)
LEMMA EachHolds ==
    ASSUME NEW tables, IsList(tables), NEW todo, \A t \in ToSet(tables) : IsList(todo[t])
    PROVE  ToSet(Each(tables, todo)) = UNION {ToSet(todo[t]) : t \in ToSet(tables)}
<1> DEFINE f == [i \in DOMAIN tables |-> todo[tables[i]]]
<1>1. f = [i \in DOMAIN tables |-> f[i]]
  OBVIOUS
<1>2. DOMAIN f = DOMAIN tables /\ \A i \in DOMAIN tables : f[i] = todo[tables[i]]
  OBVIOUS
<1>3. Each(tables, todo) = FlattenSeq(f)
  BY Zenon DEF Each
<1> HIDE DEF f
<1>4. IsList(f)
  BY <1>1, MadeOf
<1>5. \A i \in DOMAIN tables : tables[i] \in ToSet(tables)
  BY Zenon DEF ToSet
<1>6. \A t \in ToSet(tables) : \E i \in DOMAIN tables : t = tables[i]
  BY Zenon DEF ToSet
<1>7. \A i \in DOMAIN f : IsList(f[i])
  BY <1>2, <1>5, Zenon
<1>8. ToSet(FlattenSeq(f)) = UNION {ToSet(f[i]) : i \in DOMAIN f}
  BY <1>4, <1>7, Flattened
<1>9. ASSUME NEW x
      PROVE  x \in UNION {ToSet(f[i]) : i \in DOMAIN f}
                <=> x \in UNION {ToSet(todo[t]) : t \in ToSet(tables)}
  <2>1. /\ x \in UNION {ToSet(f[i]) : i \in DOMAIN f} <=> \E i \in DOMAIN f : x \in ToSet(f[i])
        /\ x \in UNION {ToSet(todo[t]) : t \in ToSet(tables)}
              <=> \E t \in ToSet(tables) : x \in ToSet(todo[t])
    BY Zenon
  <2>2. ASSUME NEW i \in DOMAIN f, x \in ToSet(f[i])
        PROVE  \E t \in ToSet(tables) : x \in ToSet(todo[t])
    <3>1. i \in DOMAIN tables /\ f[i] = todo[tables[i]] /\ tables[i] \in ToSet(tables)
      BY <1>2, <1>5
    <3> QED
      BY <2>2, <3>1
  <2>3. ASSUME NEW t \in ToSet(tables), x \in ToSet(todo[t])
        PROVE  \E i \in DOMAIN f : x \in ToSet(f[i])
    <3>1. PICK i \in DOMAIN tables : t = tables[i]
      BY <1>6
    <3>2. i \in DOMAIN f /\ f[i] = todo[t]
      BY <1>2, <3>1
    <3> QED
      BY <2>3, <3>2
  <2> QED
    BY <2>1, <2>2, <2>3, Zenon
<1> QED
  BY <1>3, <1>8, <1>9, Zenon

(* It is harmless when it is for each of them. *)
LEMMA EachHarmless ==
    ASSUME NEW tables, IsList(tables), NEW todo,
           \A t \in ToSet(tables) : IsList(todo[t]) /\ Harmless(todo[t])
    PROVE  Harmless(Each(tables, todo))
<1>1. ToSet(Each(tables, todo)) = UNION {ToSet(todo[t]) : t \in ToSet(tables)}
  BY EachHolds
<1> QED
  BY <1>1, Zenon DEF Harmless

(* What is in seven lists, joined. *)
LEMMA SevenHold ==
    ASSUME NEW a, NEW b, NEW c, NEW d, NEW e, NEW f, NEW g,
           IsList(a), IsList(b), IsList(c), IsList(d), IsList(e), IsList(f), IsList(g),
           NEW x \in ToSet(a \o b \o c \o d \o e \o f \o g)
    PROVE  \/ x \in ToSet(a) \/ x \in ToSet(b) \/ x \in ToSet(c) \/ x \in ToSet(d)
           \/ x \in ToSet(e) \/ x \in ToSet(f) \/ x \in ToSet(g)
<1>1. PICK ab : ab = a \o b
  OBVIOUS
<1>2. PICK abc : abc = ab \o c
  OBVIOUS
<1>3. PICK abcd : abcd = abc \o d
  OBVIOUS
<1>4. PICK abcde : abcde = abcd \o e
  OBVIOUS
<1>5. PICK abcdef : abcdef = abcde \o f
  OBVIOUS
<1>6. IsList(ab) /\ ToSet(ab) = ToSet(a) \cup ToSet(b)
  BY <1>1, Joined
<1>7. IsList(abc) /\ ToSet(abc) = ToSet(ab) \cup ToSet(c)
  BY <1>2, <1>6, Joined
<1>8. IsList(abcd) /\ ToSet(abcd) = ToSet(abc) \cup ToSet(d)
  BY <1>3, <1>7, Joined
<1>9. IsList(abcde) /\ ToSet(abcde) = ToSet(abcd) \cup ToSet(e)
  BY <1>4, <1>8, Joined
<1>10. IsList(abcdef) /\ ToSet(abcdef) = ToSet(abcde) \cup ToSet(f)
  BY <1>5, <1>9, Joined
<1>11. ToSet(abcdef \o g) = ToSet(abcdef) \cup ToSet(g)
  BY <1>10, Joined
<1>12. a \o b \o c \o d \o e \o f \o g = abcdef \o g
  BY <1>1, <1>2, <1>3, <1>4, <1>5
<1> QED
  BY <1>6, <1>7, <1>8, <1>9, <1>10, <1>11, <1>12

(* What is done for a table of both models loses only columns and rows.      *)
LEMMA HarmlessForTable ==
    ASSUME NEW old, NEW t, IsTable(old), IsTable(t)
    PROVE  /\ Harmless(DropsOf("drop_trigger", t.name, t.triggers, old.triggers))
           /\ Harmless(DropsOf("drop_fk", t.name, t.fks, old.fks))
           /\ Harmless(DropsOf("drop_check", t.name, t.checks, old.checks))
           /\ Harmless(Ops("drop_index", t.name, Absent(old.indexes, t.indexes)))
           /\ Harmless(AddsOf("add_fk", t.name, t.fks, old.fks))
           /\ Harmless(AddsOf("add_check", t.name, t.checks, old.checks))
           /\ Harmless(Ops("create_index", t.name, Absent(t.indexes, old.indexes)))
           /\ Harmless(AddsOf("create_trigger", t.name, t.triggers, old.triggers))
           /\ Harmless(Rebuild(old, t))
<1>1. /\ IsList(t.fks) /\ IsList(t.indexes) /\ IsList(t.checks) /\ IsList(t.triggers)
      /\ IsList(old.fks) /\ IsList(old.indexes)
      /\ IsList(old.checks) /\ IsList(old.triggers)
  BY DEF IsTable
<1>2. {"drop_trigger", "drop_fk", "drop_check", "drop_index", "add_fk", "add_check",
       "create_index", "create_trigger", "rebuild_table"} \cap DropKinds = {}
  BY DEF DropKinds
<1>3. /\ Harmless(DropsOf("drop_trigger", t.name, t.triggers, old.triggers))
      /\ Harmless(DropsOf("drop_fk", t.name, t.fks, old.fks))
      /\ Harmless(DropsOf("drop_check", t.name, t.checks, old.checks))
      /\ Harmless(AddsOf("add_fk", t.name, t.fks, old.fks))
      /\ Harmless(AddsOf("add_check", t.name, t.checks, old.checks))
      /\ Harmless(AddsOf("create_trigger", t.name, t.triggers, old.triggers))
  BY <1>1, <1>2, DropsAndAddsHarmless
<1>4. /\ Harmless(Ops("drop_index", t.name, Absent(old.indexes, t.indexes)))
      /\ Harmless(Ops("create_index", t.name, Absent(t.indexes, old.indexes)))
  <2>1. IsList(Absent(old.indexes, t.indexes)) /\ IsList(Absent(t.indexes, old.indexes))
    BY <1>1, AbsentFacts
  <2> QED
    BY <1>2, <2>1, OpsHarmless
<1>5. Harmless(Rebuild(old, t))
  <2>1. PICK op : /\ op.kind = "rebuild_table"
                  /\ Rebuild(old, t) = IF NeedsRebuild(old, t) THEN <<op>> ELSE <<>>
    BY DEF Rebuild, Operation
  <2> QED
    BY <1>2, <2>1, OneHolds, NoneHolds DEF Harmless
<1> QED
  BY <1>3, <1>4, <1>5

(* A destructive operation names what only the old model has: a table, a     *)
(* column of a table of both, a seed row of one.                            *)
OnlyWhatIsGone(op, from, to) ==
    op.kind \in DropKinds =>
      \/ \E t \in ToSet(from.tables) :
            ~Has(to.tables, t.name) /\ op = Operation("drop_table", t.name, t)
      \/ \E t \in ToSet(to.tables) :
            /\ Has(from.tables, t.name)
            /\ \/ ColumnsGone(op, Find(from.tables, t.name), t)
               \/ RowsGone(op, Find(from.tables, t.name), t)

(* When Diff is empty, and what is in it, from the lists it is made of. *)
LEMMA DiffFacts ==
    ASSUME NEW from, NEW to, IsModel(from), IsModel(to)
    PROVE  /\ Diff(from, to) = <<>> <=> LooksSame(from, to)
           /\ \A op \in ToSet(Diff(from, to)) : OnlyWhatIsGone(op, from, to)
<1> DEFINE Old(t) == Find(from.tables, t.name)
           created == Created(from, to)
           kept == Kept(from, to)
           removed == Removed(from, to)
           extensions == SetToSeq(WantedExtensions(to) \ WantedExtensions(from))
           ensured == [i \in DOMAIN extensions |->
                            Operation("ensure_extension", "", extensions[i])]
           viewsGone == DropsOf("drop_view", "", to.views, from.views)
           keptTriggersGone == [t \in ToSet(kept) |->
               DropsOf("drop_trigger", t.name, t.triggers, Old(t).triggers)]
           keptKeysGone == [t \in ToSet(kept) |->
               DropsOf("drop_fk", t.name, t.fks, Old(t).fks)]
           oldKeys == [t \in ToSet(removed) |->
               Ops("drop_fk", t.name, t.fks)]
           keptChecksGone == [t \in ToSet(kept) |->
               DropsOf("drop_check", t.name, t.checks, Old(t).checks)]
           keptIndexesGone == [t \in ToSet(kept) |->
               Ops("drop_index", t.name, Absent(Old(t).indexes, t.indexes))]
           oldIndexes == [t \in ToSet(removed) |->
               Ops("drop_index", t.name, t.indexes)]
           newTables == [t \in ToSet(created) |->
               <<Operation("create_table", t.name, t)>>]
           keptColumns == [t \in ToSet(kept) |->
               DiffColumns(Old(t), t)]
           newKeys == [t \in ToSet(created) |->
               Ops("add_fk", t.name, t.fks)]
           keptKeys == [t \in ToSet(kept) |->
               AddsOf("add_fk", t.name, t.fks, Old(t).fks)]
           keptChecks == [t \in ToSet(kept) |->
               AddsOf("add_check", t.name, t.checks, Old(t).checks)]
           functions == AddsOf("create_function", "", to.functions, from.functions)
           newIndexes == [t \in ToSet(created) |->
               Ops("create_index", t.name, t.indexes)]
           keptIndexes == [t \in ToSet(kept) |->
               Ops("create_index", t.name, Absent(t.indexes, Old(t).indexes))]
           newTriggers == [t \in ToSet(created) |->
               Ops("create_trigger", t.name, t.triggers)]
           keptTriggers == [t \in ToSet(kept) |->
               AddsOf("create_trigger", t.name, t.triggers, Old(t).triggers)]
           keptRebuilds == [t \in ToSet(kept) |->
               Rebuild(Old(t), t)]
           newSeed == [t \in ToSet(created) |->
               Ops("insert_data", t.name, t.seed)]
           keptSeed == [t \in ToSet(kept) |->
               DiffSeedData(Old(t), t)]
           raw == Ops("raw_sql", "", Absent(to.raw, from.raw))
           views == AddsOf("create_view", "", to.views, from.views)
           oldTables == [t \in ToSet(removed) |->
               <<Operation("drop_table", t.name, t)>>]
           functionsGone == Ops("drop_function", "", Absent(from.functions, to.functions))
<1>1. /\ IsList(created)
      /\ ToSet(created) = {t \in ToSet(to.tables) : ~Has(from.tables, t.name)}
      /\ IsList(removed)
      /\ ToSet(removed) = {t \in ToSet(from.tables) : ~Has(to.tables, t.name)}
      /\ IsList(kept)
      /\ ToSet(kept) = {t \in ToSet(to.tables) : Has(from.tables, t.name)}
  BY AbsentFacts, KeptFacts DEF IsModel, Created, Removed
<1>2. ASSUME NEW list, NEW i \in DOMAIN list PROVE list[i] \in ToSet(list)
  BY Zenon DEF ToSet
<1>3. Diff(from, to) =
         ensured \o viewsGone \o Each(kept, keptTriggersGone)
         \o Each(kept, keptKeysGone) \o Each(removed, oldKeys) \o Each(kept, keptChecksGone)
         \o Each(kept, keptIndexesGone) \o Each(removed, oldIndexes) \o Each(created, newTables)
         \o Each(kept, keptColumns) \o Each(created, newKeys) \o Each(kept, keptKeys)
         \o Each(kept, keptChecks) \o functions \o Each(created, newIndexes)
         \o Each(kept, keptIndexes) \o Each(created, newTriggers) \o Each(kept, keptTriggers)
         \o Each(kept, keptRebuilds) \o Each(created, newSeed) \o Each(kept, keptSeed)
         \o raw \o views \o Each(removed, oldTables)
         \o functionsGone
  BY <1>2 DEF Diff, PerTable, Each
<1>4. ASSUME NEW t \in ToSet(kept)
      PROVE  /\ IsList(keptTriggersGone[t]) /\ IsList(keptKeysGone[t])
             /\ IsList(keptChecksGone[t]) /\ IsList(keptIndexesGone[t])
             /\ IsList(keptColumns[t]) /\ IsList(keptKeys[t])
             /\ IsList(keptChecks[t]) /\ IsList(keptIndexes[t])
             /\ IsList(keptTriggers[t]) /\ IsList(keptRebuilds[t])
             /\ IsList(keptSeed[t])
             /\ SameTable(Old(t), t) <=>
                   /\ keptTriggersGone[t] = <<>> /\ keptKeysGone[t] = <<>>
                   /\ keptChecksGone[t] = <<>> /\ keptIndexesGone[t] = <<>>
                   /\ keptColumns[t] = <<>> /\ keptKeys[t] = <<>>
                   /\ keptChecks[t] = <<>> /\ keptIndexes[t] = <<>>
                   /\ keptTriggers[t] = <<>> /\ keptRebuilds[t] = <<>>
                   /\ keptSeed[t] = <<>>
  <2>1. IsTable(t) /\ IsTable(Old(t))
    BY <1>1, FindFacts DEF IsModel
  <2> HIDE DEF Old
  <2> QED
    BY <2>1, NothingForTable
<1>5. ASSUME NEW t \in ToSet(created)
      PROVE  /\ IsList(newTables[t]) /\ IsList(newKeys[t])
             /\ IsList(newIndexes[t]) /\ IsList(newTriggers[t])
             /\ IsList(newSeed[t]) /\ newTables[t] # <<>>
  <2>1. IsTable(t)
    BY <1>1 DEF IsModel
  <2> QED
    BY <2>1, OneHolds, OpsEmpty DEF IsTable
<1>6. ASSUME NEW t \in ToSet(removed)
      PROVE  /\ IsList(oldKeys[t]) /\ IsList(oldIndexes[t])
             /\ IsList(oldTables[t]) /\ oldTables[t] # <<>>
  <2>1. IsTable(t)
    BY <1>1 DEF IsModel
  <2> QED
    BY <2>1, OneHolds, OpsEmpty DEF IsTable
<1> HIDE DEF ensured, viewsGone, keptTriggersGone, keptKeysGone, oldKeys, keptChecksGone,
         keptIndexesGone, oldIndexes, newTables, keptColumns, newKeys, keptKeys,
         keptChecks, functions, newIndexes, keptIndexes, newTriggers, keptTriggers,
         keptRebuilds, newSeed, keptSeed, raw, views, oldTables,
         functionsGone,
         created, kept, removed, Old
<1>7. /\ IsList(ensured)
      /\ ensured = <<>> <=> WantedExtensions(to) \subseteq WantedExtensions(from)
  <2>1. IsFiniteSet(WantedExtensions(to) \ WantedExtensions(from))
    <3>1. IsFiniteSet({"vector"}) /\ IsFiniteSet({})
      BY FS_Singleton, FS_EmptySet
    <3>2. IsFiniteSet(WantedExtensions(to))
      BY <3>1, FS_Union DEF WantedExtensions, IsModel
    <3> QED
      BY <3>2, FS_Difference
  <2>2. IsList(ensured) /\ (ensured = <<>> <=> WantedExtensions(to) \ WantedExtensions(from) = {})
    BY <2>1, NoExtensions, Zenon DEF ensured
  <2> QED
    BY <2>2
<1>8. /\ IsList(viewsGone) /\ IsList(views)
      /\ viewsGone = <<>> /\ views = <<>> <=> SameByName(from.views, to.views)
  BY NothingByName DEF IsModel, views, viewsGone
<1>9. /\ IsList(functions) /\ IsList(functionsGone)
      /\ functions = <<>> /\ functionsGone = <<>>
           <=> SameByName(from.functions, to.functions)
  <2>1. IsList(from.functions) /\ IsList(to.functions)
    BY DEF IsModel
  <2>2. PICK gone : gone = Absent(from.functions, to.functions)
    OBVIOUS
  <2>3. IsList(gone) /\ (gone = <<>> <=> Names(from.functions) \subseteq Names(to.functions))
    BY <2>1, <2>2, AbsentEmpty
  <2>4. IsList(functionsGone) /\ (functionsGone = <<>> <=> gone = <<>>)
    <3>1. functionsGone = Ops("drop_function", Everywhere, gone)
      BY <2>2, Zenon DEF functionsGone, Everywhere
    <3> QED
      BY <2>3, <3>1, OpsEmpty
  <2>5. /\ IsList(functions)
        /\ functions = <<>> <=> \A x \in ToSet(to.functions) :
               Has(from.functions, x.name) /\ Find(from.functions, x.name) = x
    <3>1. functions = AddsOf("create_function", Everywhere, to.functions, from.functions)
      BY Zenon DEF functions, Everywhere
    <3> QED
      BY <2>1, <3>1, AddsEmpty
  <2>6. Names(to.functions) \subseteq Names(from.functions)
           <=> \A x \in ToSet(to.functions) : Has(from.functions, x.name)
    BY Zenon DEF Names, Has
  <2> QED
    BY <2>3, <2>4, <2>5, <2>6 DEF SameByName
<1>10. IsList(raw) /\ (raw = <<>> <=> Names(to.raw) \subseteq Names(from.raw))
  <2>1. PICK came : came = Absent(to.raw, from.raw)
    OBVIOUS
  <2>2. IsList(came) /\ (came = <<>> <=> Names(to.raw) \subseteq Names(from.raw))
    BY <2>1, AbsentEmpty DEF IsModel
  <2>3. raw = Ops("raw_sql", Everywhere, came)
    BY <2>1, Zenon DEF raw, Everywhere
  <2> QED
    BY <2>2, <2>3, OpsEmpty
<1>11. /\ created = <<>> /\ removed = <<>> <=> Names(from.tables) = Names(to.tables)
       /\ created = <<>> => ToSet(kept) = ToSet(to.tables)
  <2>1. /\ created = <<>> <=> ToSet(created) = {}
        /\ removed = <<>> <=> ToSet(removed) = {}
    BY <1>1, ListFacts
  <2>2. /\ ToSet(created) = {} <=> \A t \in ToSet(to.tables) : Has(from.tables, t.name)
        /\ ToSet(removed) = {} <=> \A t \in ToSet(from.tables) : Has(to.tables, t.name)
    BY <1>1
  <2>3. Names(from.tables) = Names(to.tables)
           <=> /\ \A t \in ToSet(to.tables) : Has(from.tables, t.name)
               /\ \A t \in ToSet(from.tables) : Has(to.tables, t.name)
    BY Zenon DEF Names, Has
  <2> QED
    BY <1>1, <2>1, <2>2, <2>3
<1>12. /\ IsList(Each(kept, keptTriggersGone)) /\ IsList(Each(kept, keptKeysGone))
       /\ IsList(Each(kept, keptChecksGone)) /\ IsList(Each(kept, keptIndexesGone))
       /\ IsList(Each(kept, keptColumns)) /\ IsList(Each(kept, keptKeys))
       /\ IsList(Each(kept, keptChecks)) /\ IsList(Each(kept, keptIndexes))
       /\ IsList(Each(kept, keptTriggers)) /\ IsList(Each(kept, keptRebuilds))
       /\ IsList(Each(kept, keptSeed))
  BY <1>1, <1>4, EachEmpty
<1>13. (/\ Each(kept, keptTriggersGone) = <<>> /\ Each(kept, keptKeysGone) = <<>>
        /\ Each(kept, keptChecksGone) = <<>> /\ Each(kept, keptIndexesGone) = <<>>
        /\ Each(kept, keptColumns) = <<>> /\ Each(kept, keptKeys) = <<>>
        /\ Each(kept, keptChecks) = <<>> /\ Each(kept, keptIndexes) = <<>>
        /\ Each(kept, keptTriggers) = <<>> /\ Each(kept, keptRebuilds) = <<>>
        /\ Each(kept, keptSeed) = <<>>)
         <=> \A t \in ToSet(kept) : SameTable(Old(t), t)
  <2>1. /\ IsList(Each(kept, keptTriggersGone))
        /\ Each(kept, keptTriggersGone) = <<>> <=> \A t \in ToSet(kept) : keptTriggersGone[t] = <<>>
    BY <1>1, <1>4, EachEmpty
  <2>2. /\ IsList(Each(kept, keptKeysGone))
        /\ Each(kept, keptKeysGone) = <<>> <=> \A t \in ToSet(kept) : keptKeysGone[t] = <<>>
    BY <1>1, <1>4, EachEmpty
  <2>3. /\ IsList(Each(kept, keptChecksGone))
        /\ Each(kept, keptChecksGone) = <<>> <=> \A t \in ToSet(kept) : keptChecksGone[t] = <<>>
    BY <1>1, <1>4, EachEmpty
  <2>4. /\ IsList(Each(kept, keptIndexesGone))
        /\ Each(kept, keptIndexesGone) = <<>> <=> \A t \in ToSet(kept) : keptIndexesGone[t] = <<>>
    BY <1>1, <1>4, EachEmpty
  <2>5. /\ IsList(Each(kept, keptColumns))
        /\ Each(kept, keptColumns) = <<>> <=> \A t \in ToSet(kept) : keptColumns[t] = <<>>
    BY <1>1, <1>4, EachEmpty
  <2>6. /\ IsList(Each(kept, keptKeys))
        /\ Each(kept, keptKeys) = <<>> <=> \A t \in ToSet(kept) : keptKeys[t] = <<>>
    BY <1>1, <1>4, EachEmpty
  <2>7. /\ IsList(Each(kept, keptChecks))
        /\ Each(kept, keptChecks) = <<>> <=> \A t \in ToSet(kept) : keptChecks[t] = <<>>
    BY <1>1, <1>4, EachEmpty
  <2>8. /\ IsList(Each(kept, keptIndexes))
        /\ Each(kept, keptIndexes) = <<>> <=> \A t \in ToSet(kept) : keptIndexes[t] = <<>>
    BY <1>1, <1>4, EachEmpty
  <2>9. /\ IsList(Each(kept, keptTriggers))
        /\ Each(kept, keptTriggers) = <<>> <=> \A t \in ToSet(kept) : keptTriggers[t] = <<>>
    BY <1>1, <1>4, EachEmpty
  <2>10. /\ IsList(Each(kept, keptRebuilds))
        /\ Each(kept, keptRebuilds) = <<>> <=> \A t \in ToSet(kept) : keptRebuilds[t] = <<>>
    BY <1>1, <1>4, EachEmpty
  <2>11. /\ IsList(Each(kept, keptSeed))
        /\ Each(kept, keptSeed) = <<>> <=> \A t \in ToSet(kept) : keptSeed[t] = <<>>
    BY <1>1, <1>4, EachEmpty
  <2>12. ASSUME Each(kept, keptTriggersGone) = <<>>, Each(kept, keptKeysGone) = <<>>,
                Each(kept, keptChecksGone) = <<>>, Each(kept, keptIndexesGone) = <<>>,
                Each(kept, keptColumns) = <<>>, Each(kept, keptKeys) = <<>>,
                Each(kept, keptChecks) = <<>>, Each(kept, keptIndexes) = <<>>,
                Each(kept, keptTriggers) = <<>>, Each(kept, keptRebuilds) = <<>>,
                Each(kept, keptSeed) = <<>>,
                NEW t \in ToSet(kept)
         PROVE  SameTable(Old(t), t)
    BY <1>4, <2>12, <2>1, <2>2, <2>3, <2>4, <2>5, <2>6, <2>7, <2>8, <2>9, <2>10, <2>11
  <2>13. ASSUME \A t \in ToSet(kept) : SameTable(Old(t), t)
         PROVE  /\ Each(kept, keptTriggersGone) = <<>> /\ Each(kept, keptKeysGone) = <<>>
                /\ Each(kept, keptChecksGone) = <<>> /\ Each(kept, keptIndexesGone) = <<>>
                /\ Each(kept, keptColumns) = <<>> /\ Each(kept, keptKeys) = <<>>
                /\ Each(kept, keptChecks) = <<>> /\ Each(kept, keptIndexes) = <<>>
                /\ Each(kept, keptTriggers) = <<>> /\ Each(kept, keptRebuilds) = <<>>
                /\ Each(kept, keptSeed) = <<>>
    BY <1>4, <2>13, <2>1, <2>2, <2>3, <2>4, <2>5, <2>6, <2>7, <2>8, <2>9, <2>10, <2>11
  <2> QED
    BY <2>12, <2>13, Zenon
<1>14. /\ IsList(Each(created, newTables)) /\ IsList(Each(created, newKeys))
       /\ IsList(Each(created, newIndexes)) /\ IsList(Each(created, newTriggers))
       /\ IsList(Each(created, newSeed))
       /\ (/\ Each(created, newTables) = <<>> /\ Each(created, newKeys) = <<>>
           /\ Each(created, newIndexes) = <<>> /\ Each(created, newTriggers) = <<>>
           /\ Each(created, newSeed) = <<>>)
            <=> created = <<>>
  <2>1. /\ IsList(Each(created, newTables))
        /\ Each(created, newTables) = <<>> <=> \A t \in ToSet(created) : newTables[t] = <<>>
    BY <1>1, <1>5, EachEmpty
  <2>2. /\ IsList(Each(created, newKeys))
        /\ Each(created, newKeys) = <<>> <=> \A t \in ToSet(created) : newKeys[t] = <<>>
    BY <1>1, <1>5, EachEmpty
  <2>3. /\ IsList(Each(created, newIndexes))
        /\ Each(created, newIndexes) = <<>> <=> \A t \in ToSet(created) : newIndexes[t] = <<>>
    BY <1>1, <1>5, EachEmpty
  <2>4. /\ IsList(Each(created, newTriggers))
        /\ Each(created, newTriggers) = <<>> <=> \A t \in ToSet(created) : newTriggers[t] = <<>>
    BY <1>1, <1>5, EachEmpty
  <2>5. /\ IsList(Each(created, newSeed))
        /\ Each(created, newSeed) = <<>> <=> \A t \in ToSet(created) : newSeed[t] = <<>>
    BY <1>1, <1>5, EachEmpty
  <2>6. created = <<>> <=> ToSet(created) = {}
    BY <1>1, ListFacts
  <2> QED
    BY <1>5, <2>1, <2>2, <2>3, <2>4, <2>5, <2>6, Zenon
<1>15. /\ IsList(Each(removed, oldKeys)) /\ IsList(Each(removed, oldIndexes))
       /\ IsList(Each(removed, oldTables))
       /\ (/\ Each(removed, oldKeys) = <<>> /\ Each(removed, oldIndexes) = <<>>
           /\ Each(removed, oldTables) = <<>>)
            <=> removed = <<>>
  <2>1. /\ IsList(Each(removed, oldKeys))
        /\ Each(removed, oldKeys) = <<>> <=> \A t \in ToSet(removed) : oldKeys[t] = <<>>
    BY <1>1, <1>6, EachEmpty
  <2>2. /\ IsList(Each(removed, oldIndexes))
        /\ Each(removed, oldIndexes) = <<>> <=> \A t \in ToSet(removed) : oldIndexes[t] = <<>>
    BY <1>1, <1>6, EachEmpty
  <2>3. /\ IsList(Each(removed, oldTables))
        /\ Each(removed, oldTables) = <<>> <=> \A t \in ToSet(removed) : oldTables[t] = <<>>
    BY <1>1, <1>6, EachEmpty
  <2>4. removed = <<>> <=> ToSet(removed) = {}
    BY <1>1, ListFacts
  <2> QED
    BY <1>6, <2>1, <2>2, <2>3, <2>4, Zenon
<1>16. PICK one : one =
         ensured \o viewsGone \o Each(kept, keptTriggersGone)
         \o Each(kept, keptKeysGone) \o Each(removed, oldKeys) \o Each(kept, keptChecksGone)
         \o Each(kept, keptIndexesGone)
  OBVIOUS
<1>17. PICK two : two =
         one \o Each(removed, oldIndexes) \o Each(created, newTables)
         \o Each(kept, keptColumns) \o Each(created, newKeys) \o Each(kept, keptKeys)
         \o Each(kept, keptChecks)
  OBVIOUS
<1>18. PICK three : three =
         two \o functions \o Each(created, newIndexes)
         \o Each(kept, keptIndexes) \o Each(created, newTriggers) \o Each(kept, keptTriggers)
         \o Each(kept, keptRebuilds)
  OBVIOUS
<1>19. PICK four : four =
         three \o Each(created, newSeed) \o Each(kept, keptSeed)
         \o raw \o views \o Each(removed, oldTables)
         \o functionsGone
  OBVIOUS
<1>20. /\ IsList(one)
       /\ one = <<>> <=>
            /\ ensured = <<>> /\ viewsGone = <<>>
            /\ Each(kept, keptTriggersGone) = <<>> /\ Each(kept, keptKeysGone) = <<>>
            /\ Each(removed, oldKeys) = <<>> /\ Each(kept, keptChecksGone) = <<>>
            /\ Each(kept, keptIndexesGone) = <<>>
  BY <1>16, <1>7, <1>8, <1>9, <1>10, <1>12, <1>14, <1>15, SevenEmpty
<1>21. /\ IsList(two)
       /\ two = <<>> <=>
            /\ one = <<>> /\ Each(removed, oldIndexes) = <<>>
            /\ Each(created, newTables) = <<>> /\ Each(kept, keptColumns) = <<>>
            /\ Each(created, newKeys) = <<>> /\ Each(kept, keptKeys) = <<>>
            /\ Each(kept, keptChecks) = <<>>
  BY <1>17, <1>20, <1>7, <1>8, <1>9, <1>10, <1>12, <1>14, <1>15, SevenEmpty
<1>22. /\ IsList(three)
       /\ three = <<>> <=>
            /\ two = <<>> /\ functions = <<>>
            /\ Each(created, newIndexes) = <<>> /\ Each(kept, keptIndexes) = <<>>
            /\ Each(created, newTriggers) = <<>> /\ Each(kept, keptTriggers) = <<>>
            /\ Each(kept, keptRebuilds) = <<>>
  BY <1>18, <1>21, <1>7, <1>8, <1>9, <1>10, <1>12, <1>14, <1>15, SevenEmpty
<1>23. /\ IsList(four)
       /\ four = <<>> <=>
            /\ three = <<>> /\ Each(created, newSeed) = <<>>
            /\ Each(kept, keptSeed) = <<>> /\ raw = <<>>
            /\ views = <<>> /\ Each(removed, oldTables) = <<>>
            /\ functionsGone = <<>>
  BY <1>19, <1>22, <1>7, <1>8, <1>9, <1>10, <1>12, <1>14, <1>15, SevenEmpty
<1>24. Diff(from, to) = four
  BY <1>3, <1>16, <1>17, <1>18, <1>19
<1>25. Diff(from, to) = <<>> <=> LooksSame(from, to)
  BY <1>7, <1>8, <1>9, <1>10, <1>11, <1>12, <1>13, <1>14, <1>15, <1>20, <1>21, <1>22,
     <1>23, <1>24, Zenon DEF LooksSame, Old
<1>26. ASSUME NEW t \in ToSet(kept)
       PROVE  /\ Harmless(keptTriggersGone[t]) /\ Harmless(keptKeysGone[t])
              /\ Harmless(keptChecksGone[t]) /\ Harmless(keptIndexesGone[t])
              /\ Harmless(keptKeys[t]) /\ Harmless(keptChecks[t])
              /\ Harmless(keptIndexes[t]) /\ Harmless(keptTriggers[t])
              /\ Harmless(keptRebuilds[t])
              /\ \A op \in ToSet(keptColumns[t]) : ColumnsGone(op, Old(t), t)
              /\ \A op \in ToSet(keptSeed[t]) : RowsGone(op, Old(t), t)
  <2>1. IsTable(t) /\ IsTable(Old(t))
    BY <1>1, FindFacts DEF IsModel, kept, Old
  <2>2. /\ \A op \in ToSet(DiffColumns(Old(t), t)) : ColumnsGone(op, Old(t), t)
        /\ \A op \in ToSet(DiffSeedData(Old(t), t)) : RowsGone(op, Old(t), t)
    BY <2>1, ColumnsDropped, RowsDeleted
  <2> QED
    BY <2>1, <2>2, HarmlessForTable
       DEF keptTriggersGone, keptKeysGone, keptChecksGone, keptIndexesGone, keptKeys,
           keptChecks, keptIndexes, keptTriggers, keptRebuilds, keptColumns, keptSeed
<1>27. {"create_table", "add_fk", "create_index", "create_trigger", "insert_data",
        "drop_fk", "drop_index", "ensure_extension", "drop_view", "create_view",
        "create_function", "drop_function", "raw_sql"} \cap DropKinds = {}
  BY DEF DropKinds
<1>28. ASSUME NEW t \in ToSet(created)
       PROVE  /\ Harmless(newTables[t]) /\ Harmless(newKeys[t]) /\ Harmless(newIndexes[t])
              /\ Harmless(newTriggers[t]) /\ Harmless(newSeed[t])
  <2>1. IsTable(t)
    BY <1>1 DEF IsModel, created
  <2>2. Harmless(newTables[t])
    <3>1. PICK op : op.kind = "create_table" /\ newTables[t] = <<op>>
      BY DEF newTables, Operation
    <3> QED
      BY <1>27, <3>1, OneHolds DEF Harmless
  <2> QED
    BY <1>27, <2>1, <2>2, OpsHarmless
       DEF IsTable, newKeys, newIndexes, newTriggers, newSeed
<1>29. ASSUME NEW t \in ToSet(removed)
       PROVE  /\ Harmless(oldKeys[t]) /\ Harmless(oldIndexes[t])
              /\ ToSet(oldTables[t]) = {Operation("drop_table", t.name, t)}
  <2>1. IsTable(t)
    BY <1>1 DEF IsModel, removed
  <2> QED
    BY <1>27, <2>1, OneHolds, OpsHarmless DEF IsTable, oldKeys, oldIndexes, oldTables
<1>30. /\ Harmless(ensured) /\ Harmless(viewsGone) /\ Harmless(views)
       /\ Harmless(functions) /\ Harmless(functionsGone) /\ Harmless(raw)
  <2>1. /\ IsList(from.views) /\ IsList(to.views) /\ IsList(from.functions)
        /\ IsList(to.functions) /\ IsList(to.raw)
    BY DEF IsModel
  <2>2. /\ viewsGone = DropsOf("drop_view", Everywhere, to.views, from.views)
        /\ views = AddsOf("create_view", Everywhere, to.views, from.views)
        /\ functions = AddsOf("create_function", Everywhere, to.functions, from.functions)
    BY Zenon DEF viewsGone, views, functions, Everywhere
  <2>3. PICK gone, came : /\ gone = Absent(from.functions, to.functions)
                          /\ came = Absent(to.raw, from.raw)
    OBVIOUS
  <2>4. /\ functionsGone = Ops("drop_function", Everywhere, gone)
        /\ raw = Ops("raw_sql", Everywhere, came)
    BY <2>3, Zenon DEF functionsGone, raw, Everywhere
  <2>5. IsList(gone) /\ IsList(came)
    BY <2>1, <2>3, AbsentFacts
  <2>6. Harmless(ensured)
    <3>1. \A x : Operation("ensure_extension", Everywhere, x).kind = "ensure_extension"
      BY DEF Operation
    <3>2. \A op \in ToSet(ensured) : \E x : op = Operation("ensure_extension", Everywhere, x)
      BY Zenon DEF ToSet, ensured, Everywhere
    <3> QED
      BY <1>27, <3>1, <3>2 DEF Harmless
  <2> QED
    BY <1>27, <2>1, <2>2, <2>4, <2>5, <2>6, DropsAndAddsHarmless, OpsHarmless
<1>31. /\ Harmless(Each(kept, keptTriggersGone)) /\ Harmless(Each(kept, keptKeysGone))
       /\ Harmless(Each(kept, keptChecksGone)) /\ Harmless(Each(kept, keptIndexesGone))
       /\ Harmless(Each(kept, keptKeys)) /\ Harmless(Each(kept, keptChecks))
       /\ Harmless(Each(kept, keptIndexes)) /\ Harmless(Each(kept, keptTriggers))
       /\ Harmless(Each(kept, keptRebuilds))
  BY <1>1, <1>4, <1>26, EachHarmless
<1>32. /\ Harmless(Each(created, newTables)) /\ Harmless(Each(created, newKeys))
       /\ Harmless(Each(created, newIndexes)) /\ Harmless(Each(created, newTriggers))
       /\ Harmless(Each(created, newSeed))
       /\ Harmless(Each(removed, oldKeys)) /\ Harmless(Each(removed, oldIndexes))
  BY <1>1, <1>5, <1>6, <1>28, <1>29, EachHarmless
<1>33. ASSUME NEW op \in ToSet(Each(removed, oldTables)) PROVE OnlyWhatIsGone(op, from, to)
  <2>1. ToSet(Each(removed, oldTables)) = UNION {ToSet(oldTables[t]) : t \in ToSet(removed)}
    BY <1>1, <1>6, EachHolds
  <2>2. PICK t \in ToSet(removed) : op \in ToSet(oldTables[t])
    BY <2>1, Zenon
  <2>3. /\ t \in ToSet(from.tables) /\ ~Has(to.tables, t.name)
        /\ op = Operation("drop_table", t.name, t)
    BY <1>1, <1>29, <2>2
  <2> QED
    BY <2>3, Zenon DEF OnlyWhatIsGone
<1>34. ASSUME NEW op, op \in ToSet(Each(kept, keptColumns)) \/ op \in ToSet(Each(kept, keptSeed))
       PROVE  OnlyWhatIsGone(op, from, to)
  <2>1. /\ ToSet(Each(kept, keptColumns)) = UNION {ToSet(keptColumns[t]) : t \in ToSet(kept)}
        /\ ToSet(Each(kept, keptSeed)) = UNION {ToSet(keptSeed[t]) : t \in ToSet(kept)}
    BY <1>1, <1>4, EachHolds
  <2>2. PICK t \in ToSet(kept) : op \in ToSet(keptColumns[t]) \/ op \in ToSet(keptSeed[t])
    BY <1>34, <2>1, Zenon
  <2>3. t \in ToSet(to.tables) /\ Has(from.tables, t.name)
    BY <1>1, <2>2
  <2>4. ColumnsGone(op, Old(t), t) \/ RowsGone(op, Old(t), t)
    BY <1>26, <2>2
  <2> QED
    BY <2>3, <2>4, Zenon DEF OnlyWhatIsGone, Old
<1>35. ASSUME NEW op, NEW list, op \in ToSet(list), Harmless(list)
       PROVE  OnlyWhatIsGone(op, from, to)
  BY <1>35, Zenon DEF Harmless, OnlyWhatIsGone
<1>36. ASSUME NEW op \in ToSet(one) PROVE OnlyWhatIsGone(op, from, to)
  <2>1. \/ op \in ToSet(ensured) \/ op \in ToSet(viewsGone)
        \/ op \in ToSet(Each(kept, keptTriggersGone)) \/ op \in ToSet(Each(kept, keptKeysGone))
        \/ op \in ToSet(Each(removed, oldKeys)) \/ op \in ToSet(Each(kept, keptChecksGone))
        \/ op \in ToSet(Each(kept, keptIndexesGone))
    BY <1>7, <1>8, <1>12, <1>15, <1>16, SevenHold
  <2> QED
    BY <1>30, <1>31, <1>32, <1>35, <2>1, Zenon
<1>37. ASSUME NEW op \in ToSet(two) PROVE OnlyWhatIsGone(op, from, to)
  <2>1. \/ op \in ToSet(one) \/ op \in ToSet(Each(removed, oldIndexes))
        \/ op \in ToSet(Each(created, newTables)) \/ op \in ToSet(Each(kept, keptColumns))
        \/ op \in ToSet(Each(created, newKeys)) \/ op \in ToSet(Each(kept, keptKeys))
        \/ op \in ToSet(Each(kept, keptChecks))
    BY <1>12, <1>14, <1>15, <1>17, <1>20, SevenHold
  <2> QED
    BY <1>31, <1>32, <1>34, <1>35, <1>36, <2>1, Zenon
<1>38. ASSUME NEW op \in ToSet(three) PROVE OnlyWhatIsGone(op, from, to)
  <2>1. \/ op \in ToSet(two) \/ op \in ToSet(functions)
        \/ op \in ToSet(Each(created, newIndexes)) \/ op \in ToSet(Each(kept, keptIndexes))
        \/ op \in ToSet(Each(created, newTriggers)) \/ op \in ToSet(Each(kept, keptTriggers))
        \/ op \in ToSet(Each(kept, keptRebuilds))
    BY <1>9, <1>12, <1>14, <1>18, <1>21, SevenHold
  <2> QED
    BY <1>30, <1>31, <1>32, <1>35, <1>37, <2>1, Zenon
<1>39. ASSUME NEW op \in ToSet(four) PROVE OnlyWhatIsGone(op, from, to)
  <2>1. \/ op \in ToSet(three) \/ op \in ToSet(Each(created, newSeed))
        \/ op \in ToSet(Each(kept, keptSeed)) \/ op \in ToSet(raw)
        \/ op \in ToSet(views) \/ op \in ToSet(Each(removed, oldTables))
        \/ op \in ToSet(functionsGone)
    BY <1>8, <1>9, <1>10, <1>12, <1>14, <1>15, <1>19, <1>22, SevenHold
  <2> QED
    BY <1>30, <1>32, <1>33, <1>34, <1>35, <1>38, <2>1, Zenon
<1> QED
  BY <1>24, <1>25, <1>39

(* `molde migrate` has nothing to say, and `molde verify` no drift to        *)
(* report, exactly when the two models look the same: whatever differs in    *)
(* any of these respects makes an operation, and nothing else does.          *)
THEOREM DiffIsSilent ==
    ASSUME NEW from, NEW to, IsModel(from), IsModel(to)
    PROVE  Diff(from, to) = <<>> <=> LooksSame(from, to)
BY DiffFacts

(* A migration drops no table and no column that the new model still has,    *)
(* and deletes no seed row whose key is still there.                        *)
THEOREM NothingKeptIsLost ==
    ASSUME NEW from, NEW to, IsModel(from), IsModel(to),
           NEW op \in ToSet(Diff(from, to))
    PROVE  OnlyWhatIsGone(op, from, to)
BY DiffFacts

(* The names of a list tell its elements apart. *)
ToldApart(list) ==
    \A x \in ToSet(list) : \A y \in ToSet(list) : x.name = y.name => x = y

(* So do those of a model, and the match keys of its seed rows. *)
ModelToldApart(model) ==
    /\ ToldApart(model.tables) /\ ToldApart(model.functions)
    /\ ToldApart(model.views)
    /\ \A t \in ToSet(model.tables) :
          /\ ToldApart(t.columns) /\ ToldApart(t.fks)
          /\ ToldApart(t.checks) /\ ToldApart(t.triggers)
          /\ \A r \in ToSet(t.seed) : \A s \in ToSet(t.seed) :
                SeedKey(r, MatchKey(t)) = SeedKey(s, MatchKey(t)) => r = s

(* A list is the same as itself when its names tell its elements apart. *)
LEMMA SameAsItself ==
    ASSUME NEW list, IsList(list), ToldApart(list)
    PROVE  SameByName(list, list)
<1> SUFFICES ASSUME NEW x \in ToSet(list) PROVE Find(list, x.name) = x
  BY DEF SameByName
<1>1. Has(list, x.name)
  BY DEF Has, Names
<1>2. Find(list, x.name) \in ToSet(list) /\ Find(list, x.name).name = x.name
  BY <1>1, FindFacts
<1> QED
  BY <1>2 DEF ToldApart

(* A row's place is where a row of its key is. *)
LEMMA RowFacts ==
    ASSUME NEW rows, IsList(rows), NEW cols, NEW row \in ToSet(rows)
    PROVE  LET i == RowWithKey(rows, SeedKey(row, cols), cols) IN
           /\ i # 0 /\ rows[i] \in ToSet(rows)
           /\ SeedKey(rows[i], cols) = SeedKey(row, cols)
<1> DEFINE I == {i \in 1..Len(rows) : SeedKey(rows[i], cols) = SeedKey(row, cols)}
<1>1. Len(rows) \in Nat /\ DOMAIN rows = 1..Len(rows)
  BY ListFacts
<1>2. I # {} /\ I \in SUBSET Nat
  BY <1>1 DEF ToSet
<1>3. RowWithKey(rows, SeedKey(row, cols), cols) = Min(I)
  BY <1>2 DEF RowWithKey, SelectInSeq
<1>4. Min(I) \in I
  <2> HIDE DEF I
  <2>1. PICK x \in I : \A y \in I : x <= y
    BY <1>2, LeastNumber
  <2> QED
    BY <2>1 DEF Min
<1>5. PICK i \in I : i = Min(I)
  BY <1>4, Zenon
<1>6. /\ i # 0 /\ i \in DOMAIN rows
      /\ SeedKey(rows[i], cols) = SeedKey(row, cols)
  BY <1>1
<1>7. rows[i] \in ToSet(rows)
  BY <1>6, Zenon DEF ToSet
<1> QED
  BY <1>3, <1>5, <1>6, <1>7, Zenon

(* A model is no migration away from itself, provided that its names tell    *)
(* its elements apart and the match keys of its seed rows tell them apart:   *)
(* after a `molde migrate` that wrote the snapshot, another has nothing.     *)
THEOREM SameModelIsSilent ==
    ASSUME NEW model, IsModel(model), ModelToldApart(model)
    PROVE  Diff(model, model) = <<>>
<1>1. /\ SameByName(model.functions, model.functions)
      /\ SameByName(model.views, model.views)
  BY SameAsItself DEF IsModel, ModelToldApart
<1>2. ASSUME NEW t \in ToSet(model.tables)
      PROVE  SameTable(Find(model.tables, t.name), t)
  <2>1. Find(model.tables, t.name) = t
    BY SameAsItself DEF SameByName, IsModel, ModelToldApart
  <2>2. /\ SameByName(t.columns, t.columns) /\ SameByName(t.fks, t.fks)
        /\ SameByName(t.checks, t.checks) /\ SameByName(t.triggers, t.triggers)
    BY SameAsItself DEF IsModel, IsTable, ModelToldApart
  <2>3. SameSeed(t, t)
    <3> DEFINE cols == MatchKey(t)
               Place(row) == RowWithKey(t.seed, SeedKey(row, cols), cols)
    <3>1. IsList(t.seed)
      BY DEF IsModel, IsTable
    <3>2. \A row \in ToSet(t.seed) :
             /\ Place(row) # 0 /\ t.seed[Place(row)] \in ToSet(t.seed)
             /\ SeedKey(t.seed[Place(row)], cols) = SeedKey(row, cols)
      BY <3>1, RowFacts
    <3>3. \A row \in ToSet(t.seed) : t.seed[Place(row)] = row
      BY <3>2 DEF ModelToldApart
    <3> QED
      BY <3>2, <3>3, Zenon DEF SameSeed
  <2> QED
    BY <2>1, <2>2, <2>3 DEF SameTable
<1>3. LooksSame(model, model)
  BY <1>1, <1>2 DEF LooksSame
<1> QED
  BY <1>3, DiffIsSilent
-----------------------------------------------------------------------------
(* What is in a difference, and in which order *)

(* An operation that drops what `new` redefines or lacks. *)
IsDrop(op, kind, table, new, old) ==
    \E x : /\ op = Operation(kind, table, x)
           /\ \/ x \in ToSet(new) /\ Has(old, x.name) /\ Find(old, x.name) # x
              \/ x \in ToSet(old) /\ ~Has(new, x.name)

(* One that adds what `old` lacks or defines otherwise; and what it lacks. *)
IsAdd(op, kind, table, new, old) ==
    \E x \in ToSet(new) : /\ op = Operation(kind, table, x)
                          /\ ~Has(old, x.name) \/ Find(old, x.name) # x
IsMissing(op, kind, table, new, old) ==
    \E x \in ToSet(new) : op = Operation(kind, table, x) /\ ~Has(old, x.name)

(* One of a list's. *)
IsOneOf(op, kind, table, list) ==
    \E x \in ToSet(list) : op = Operation(kind, table, x)

IsAlter(op, table, new, old) ==
    \E x \in ToSet(new) :
        /\ Has(old, x.name) /\ Find(old, x.name) # x
        /\ op = [kind |-> "alter_column", table |-> table, arg |-> x,
                 old |-> Find(old, x.name)]

IsColumnChange(op, old, new) ==
    \/ IsMissing(op, "add_column", new.name, new.columns, old.columns)
    \/ IsAlter(op, new.name, new.columns, old.columns)
    \/ IsMissing(op, "drop_column", new.name, old.columns, new.columns)

IsRebuild(op, old, new) ==
    /\ NeedsRebuild(old, new)
    /\ op = Operation("rebuild_table", new.name,
              [table |-> new,
               copy |-> Names(new.columns) \cap Names(old.columns)])

(* Of the rows' operations only that much. *)
IsRowChange(op, old, new) ==
    /\ op.kind \in {"insert_data", "update_data", "delete_data"}
    /\ \E x : op = Operation(op.kind, new.name, x)
    /\ old.seed # <<>> \/ new.seed # <<>>

(* The drops of a list: what the new one redefines or lacks. *)
LEMMA DropsHold ==
    ASSUME NEW kind, NEW t, NEW new, NEW old, IsList(new), IsList(old)
    PROVE  /\ IsList(DropsOf(kind, t, new, old))
           /\ \A op : op \in ToSet(DropsOf(kind, t, new, old))
                        <=> IsDrop(op, kind, t, new, old)
<1> DEFINE redefined == Redefined(new, old)
           absent == Absent(old, new)
<1>1. /\ IsList(redefined) /\ IsList(absent)
      /\ \A x : x \in ToSet(redefined)
                  <=> x \in ToSet(new) /\ Has(old, x.name) /\ Find(old, x.name) # x
      /\ \A x : x \in ToSet(absent) <=> x \in ToSet(old) /\ ~Has(new, x.name)
  BY RedefinedFacts, AbsentFacts
<1> HIDE DEF redefined, absent
<1>2. /\ IsList(Ops(kind, t, redefined)) /\ IsList(Ops(kind, t, absent))
      /\ ToSet(Ops(kind, t, redefined)) = {Operation(kind, t, x) : x \in ToSet(redefined)}
      /\ ToSet(Ops(kind, t, absent)) = {Operation(kind, t, x) : x \in ToSet(absent)}
  BY <1>1, OpsFacts
<1>3. /\ IsList(DropsOf(kind, t, new, old))
      /\ ToSet(DropsOf(kind, t, new, old)) =
            ToSet(Ops(kind, t, redefined)) \cup ToSet(Ops(kind, t, absent))
  BY <1>2, Joined DEF DropsOf, redefined, absent
<1>4. ASSUME NEW op
      PROVE  op \in ToSet(DropsOf(kind, t, new, old)) <=> IsDrop(op, kind, t, new, old)
  <2>1. op \in ToSet(DropsOf(kind, t, new, old))
           <=> \E x : /\ op = Operation(kind, t, x)
                      /\ x \in ToSet(redefined) \/ x \in ToSet(absent)
    BY <1>2, <1>3, Zenon
  <2> QED
    BY <1>1, <2>1, Zenon DEF IsDrop
<1> QED
  BY <1>3, <1>4

(* The additions, and the lists that have no drops before them. *)
LEMMA AddsHold ==
    ASSUME NEW kind, NEW t, NEW new, NEW old, IsList(new)
    PROVE  /\ IsList(AddsOf(kind, t, new, old))
           /\ \A op : op \in ToSet(AddsOf(kind, t, new, old))
                        <=> IsAdd(op, kind, t, new, old)
           /\ IsList(Ops(kind, t, Absent(new, old)))
           /\ \A op : op \in ToSet(Ops(kind, t, Absent(new, old)))
                        <=> IsMissing(op, kind, t, new, old)
           /\ IsList(Ops(kind, t, new))
           /\ \A op : op \in ToSet(Ops(kind, t, new)) <=> IsOneOf(op, kind, t, new)
<1> DEFINE came == AbsentOrRedefined(new, old)
           absent == Absent(new, old)
<1>1. /\ IsList(came) /\ IsList(absent)
      /\ \A x : x \in ToSet(came)
                  <=> x \in ToSet(new) /\ (~Has(old, x.name) \/ Find(old, x.name) # x)
      /\ \A x : x \in ToSet(absent) <=> x \in ToSet(new) /\ ~Has(old, x.name)
  BY RedefinedFacts, AbsentFacts
<1>2. AddsOf(kind, t, new, old) = Ops(kind, t, came)
  BY DEF AddsOf
<1> HIDE DEF came, absent
<1>3. /\ IsList(Ops(kind, t, came)) /\ IsList(Ops(kind, t, absent))
      /\ IsList(Ops(kind, t, new))
      /\ ToSet(Ops(kind, t, came)) = {Operation(kind, t, x) : x \in ToSet(came)}
      /\ ToSet(Ops(kind, t, absent)) = {Operation(kind, t, x) : x \in ToSet(absent)}
      /\ ToSet(Ops(kind, t, new)) = {Operation(kind, t, x) : x \in ToSet(new)}
  BY <1>1, OpsFacts
<1>4. ASSUME NEW op
      PROVE  /\ op \in ToSet(Ops(kind, t, came)) <=> IsAdd(op, kind, t, new, old)
             /\ op \in ToSet(Ops(kind, t, absent)) <=> IsMissing(op, kind, t, new, old)
             /\ op \in ToSet(Ops(kind, t, new)) <=> IsOneOf(op, kind, t, new)
  <2>1. op \in ToSet(Ops(kind, t, came)) <=> IsAdd(op, kind, t, new, old)
    BY <1>1, <1>3, Zenon DEF IsAdd
  <2>2. op \in ToSet(Ops(kind, t, absent)) <=> IsMissing(op, kind, t, new, old)
    BY <1>1, <1>3, Zenon DEF IsMissing
  <2>3. op \in ToSet(Ops(kind, t, new)) <=> IsOneOf(op, kind, t, new)
    BY <1>1, <1>3, Zenon DEF IsOneOf
  <2> QED
    BY <2>1, <2>2, <2>3
<1> QED
  BY <1>2, <1>3, <1>4, Zenon DEF absent

(* The column changes of one table. *)
LEMMA ColumnsHold ==
    ASSUME NEW old, NEW new, IsTable(old), IsTable(new)
    PROVE  /\ IsList(DiffColumns(old, new))
           /\ \A op : op \in ToSet(DiffColumns(old, new)) <=> IsColumnChange(op, old, new)
<1> DEFINE add(c) == Operation("add_column", new.name, c)
           alter(c) == [kind |-> "alter_column", table |-> new.name, arg |-> c,
                          old |-> Find(old.columns, c.name)]
           Of(c) == IF ~Has(old.columns, c.name) THEN <<add(c)>>
                    ELSE IF Find(old.columns, c.name) # c THEN <<alter(c)>>
                    ELSE <<>>
           f == [i \in DOMAIN new.columns |-> Of(new.columns[i])]
           gone == Ops("drop_column", new.name, Absent(old.columns, new.columns))
<1>1. IsList(new.columns) /\ IsList(old.columns)
  BY DEF IsTable
<1>2. DiffColumns(old, new) = FlattenSeq(f) \o gone
  BY DEF DiffColumns
<1>3. ASSUME NEW op
      PROVE  op \in ToSet(gone)
                <=> IsMissing(op, "drop_column", new.name, old.columns, new.columns)
  BY <1>1, AddsHold
<1>4. IsList(gone)
  BY <1>1, AddsHold
<1> HIDE DEF gone
<1>5. ASSUME NEW op
      PROVE  /\ IsMissing(op, "add_column", new.name, new.columns, old.columns)
                   <=> \E c \in ToSet(new.columns) :
                          ~Has(old.columns, c.name) /\ op = add(c)
             /\ IsAlter(op, new.name, new.columns, old.columns)
                   <=> \E c \in ToSet(new.columns) :
                          /\ Has(old.columns, c.name) /\ Find(old.columns, c.name) # c
                          /\ op = alter(c)
  BY Zenon DEF IsMissing, IsAlter
<1> HIDE DEF add, alter
<1>6. ASSUME NEW c, NEW op
      PROVE  /\ IsList(Of(c))
             /\ op \in ToSet(Of(c)) <=>
                   \/ ~Has(old.columns, c.name) /\ op = add(c)
                   \/ /\ Has(old.columns, c.name) /\ Find(old.columns, c.name) # c
                      /\ op = alter(c)
  <2>1. /\ IsList(<<add(c)>>) /\ ToSet(<<add(c)>>) = {add(c)}
        /\ IsList(<<alter(c)>>) /\ ToSet(<<alter(c)>>) = {alter(c)}
        /\ IsList(<<>>) /\ ToSet(<<>>) = {}
    BY OneHolds, NoneHolds
  <2>2. CASE ~Has(old.columns, c.name)
    BY <2>1, <2>2
  <2>3. CASE Has(old.columns, c.name) /\ Find(old.columns, c.name) # c
    BY <2>1, <2>3
  <2>4. CASE Has(old.columns, c.name) /\ Find(old.columns, c.name) = c
    BY <2>1, <2>4
  <2> QED
    BY <2>2, <2>3, <2>4
<1> HIDE DEF Of
<1>7. f = [i \in DOMAIN new.columns |-> f[i]]
  OBVIOUS
<1>8. DOMAIN f = DOMAIN new.columns /\ \A i \in DOMAIN new.columns : f[i] = Of(new.columns[i])
  OBVIOUS
<1> HIDE DEF f
<1>9. IsList(f)
  BY <1>1, <1>7, MadeOf
<1>10. \A i \in DOMAIN f : IsList(f[i])
  BY <1>6, <1>8
<1>11. IsList(FlattenSeq(f)) /\ ToSet(FlattenSeq(f)) = UNION {ToSet(f[i]) : i \in DOMAIN f}
  BY <1>9, <1>10, Flattened
<1>12. ASSUME NEW op
       PROVE  op \in ToSet(FlattenSeq(f))
                 <=> \E c \in ToSet(new.columns) : op \in ToSet(Of(c))
  <2>1. op \in ToSet(FlattenSeq(f)) <=> \E i \in DOMAIN f : op \in ToSet(f[i])
    BY <1>11, Zenon
  <2>2. (\E i \in DOMAIN f : op \in ToSet(f[i]))
           <=> \E i \in DOMAIN new.columns : op \in ToSet(Of(new.columns[i]))
    BY <1>8
  <2>3. \A c : c \in ToSet(new.columns) <=> \E i \in DOMAIN new.columns : c = new.columns[i]
    BY Zenon DEF ToSet
  <2> QED
    BY <2>1, <2>2, <2>3, Zenon
<1>13. /\ IsList(DiffColumns(old, new))
       /\ ToSet(DiffColumns(old, new)) = ToSet(FlattenSeq(f)) \cup ToSet(gone)
  BY <1>2, <1>4, <1>11, Joined
<1>14. ASSUME NEW op
       PROVE  op \in ToSet(DiffColumns(old, new)) <=> IsColumnChange(op, old, new)
  <2>1. op \in ToSet(FlattenSeq(f)) <=>
           \/ IsMissing(op, "add_column", new.name, new.columns, old.columns)
           \/ IsAlter(op, new.name, new.columns, old.columns)
    <3>1. op \in ToSet(FlattenSeq(f)) <=>
             \E c \in ToSet(new.columns) :
                \/ ~Has(old.columns, c.name) /\ op = add(c)
                \/ /\ Has(old.columns, c.name) /\ Find(old.columns, c.name) # c
                   /\ op = alter(c)
      BY <1>6, <1>12
    <3> QED
      BY <1>5, <3>1
  <2> QED
    BY <1>3, <1>13, <2>1 DEF IsColumnChange
<1> QED
  BY <1>13, <1>14

(* And SQLite's rebuild, at most one for a table. *)
LEMMA RebuildHolds ==
    ASSUME NEW old, NEW new
    PROVE  /\ IsList(Rebuild(old, new))
           /\ \A op : op \in ToSet(Rebuild(old, new)) <=> IsRebuild(op, old, new)
<1> DEFINE rebuild == Operation("rebuild_table", new.name,
                        [table |-> new,
                         copy |-> Names(new.columns) \cap Names(old.columns)])
<1>1. Rebuild(old, new) = IF NeedsRebuild(old, new) THEN <<rebuild>> ELSE <<>>
  BY DEF Rebuild
<1>2. \A op : IsRebuild(op, old, new) <=> NeedsRebuild(old, new) /\ op = rebuild
  BY DEF IsRebuild
<1> HIDE DEF rebuild
<1>3. /\ IsList(<<rebuild>>) /\ ToSet(<<rebuild>>) = {rebuild}
      /\ IsList(<<>>) /\ ToSet(<<>>) = {}
  BY OneHolds, NoneHolds
<1> QED
  BY <1>1, <1>2, <1>3
(* The rows' operations change rows: there are none where neither model has one. *)
LEMMA RowsHold ==
    ASSUME NEW old, NEW new, IsTable(old), IsTable(new),
           NEW op \in ToSet(DiffSeedData(old, new))
    PROVE  IsRowChange(op, old, new)
<1> DEFINE cols == MatchKey(new)
           Place(rows, row) == RowWithKey(rows, SeedKey(row, cols), cols)
           insert(row) == Operation("insert_data", new.name, row)
           update(row) == Operation("update_data", new.name,
                              [key |-> SeedKey(row, cols),
                               values |-> [c \in DOMAIN row \ cols |-> row[c]]])
           delete(row) == Operation("delete_data", new.name, SeedKey(row, cols))
           Of(row) == IF Place(old.seed, row) = 0 THEN <<insert(row)>>
                      ELSE IF old.seed[Place(old.seed, row)] # row THEN <<update(row)>>
                      ELSE <<>>
           f == [i \in DOMAIN new.seed |-> Of(new.seed[i])]
           S == {r \in ToSet(old.seed) : Place(new.seed, r) = 0}
           g == [i \in DOMAIN old.seed |->
                    IF old.seed[i] \in S THEN <<old.seed[i]>> ELSE <<>>]
           gone == FlattenSeq(g)
           deletes == [i \in DOMAIN gone |-> delete(gone[i])]
           Changes(o) == /\ o.kind \in {"insert_data", "update_data", "delete_data"}
                         /\ \E x : o = Operation(o.kind, new.name, x)
<1>1. IsList(new.seed) /\ IsList(old.seed)
  BY DEF IsTable
<1>2. DiffSeedData(old, new) = FlattenSeq(f) \o deletes
  <2>1. [i \in DOMAIN old.seed |->
           IF RowWithKey(new.seed, SeedKey(old.seed[i], cols), cols) = 0
           THEN <<old.seed[i]>> ELSE <<>>] = g
    BY DEF ToSet
  <2> QED
    BY <2>1 DEF DiffSeedData, Those
<1>3. ASSUME NEW row
      PROVE  Changes(insert(row)) /\ Changes(update(row)) /\ Changes(delete(row))
  BY DEF Operation
<1> HIDE DEF insert, update, delete, Changes
<1>4. ASSUME NEW row PROVE IsList(Of(row)) /\ \A o \in ToSet(Of(row)) : Changes(o)
  <2>1. /\ IsList(<<insert(row)>>) /\ ToSet(<<insert(row)>>) = {insert(row)}
        /\ IsList(<<update(row)>>) /\ ToSet(<<update(row)>>) = {update(row)}
        /\ IsList(<<>>) /\ ToSet(<<>>) = {}
    BY OneHolds, NoneHolds
  <2>2. \/ Of(row) = <<insert(row)>>
        \/ Of(row) = <<update(row)>>
        \/ Of(row) = <<>>
    BY Zenon
  <2> HIDE DEF Of, Place
  <2> QED
    BY <1>3, <2>1, <2>2
<1> HIDE DEF Of
<1>5. f = [i \in DOMAIN new.seed |-> f[i]]
  OBVIOUS
<1>6. DOMAIN f = DOMAIN new.seed /\ \A i \in DOMAIN new.seed : f[i] = Of(new.seed[i])
  OBVIOUS
<1>7. /\ g = [i \in DOMAIN old.seed |-> g[i]] /\ DOMAIN g = DOMAIN old.seed
      /\ \A i \in DOMAIN old.seed :
            g[i] = IF old.seed[i] \in S THEN <<old.seed[i]>> ELSE <<>>
  OBVIOUS
<1> HIDE DEF f, g
<1>8. IsList(f)
  BY <1>1, <1>5, MadeOf
<1>9. \A i \in DOMAIN f : IsList(f[i]) /\ \A o \in ToSet(f[i]) : Changes(o)
  BY <1>4, <1>6
<1>10. IsList(FlattenSeq(f)) /\ ToSet(FlattenSeq(f)) = UNION {ToSet(f[i]) : i \in DOMAIN f}
  BY <1>8, <1>9, Flattened
<1>11. IsList(gone)
  <2> HIDE DEF S
  <2> QED
    BY <1>1, <1>7, MadeOf, Selected
<1> HIDE DEF gone
<1>12. IsList(deletes) /\ ToSet(deletes) = {delete(row) : row \in ToSet(gone)}
  <2>1. deletes = [i \in DOMAIN gone |-> deletes[i]]
    OBVIOUS
  <2>2. IsList(deletes)
    <3> HIDE DEF deletes
    <3> QED
      BY <1>11, <2>1, MadeOf
  <2> QED
    BY <2>2 DEF ToSet
<1>13. op \in ToSet(FlattenSeq(f)) \/ op \in ToSet(deletes)
  <2> HIDE DEF deletes
  <2> QED
    BY <1>2, <1>10, <1>12, Joined
<1>14. Changes(op)
  <2>1. CASE op \in ToSet(FlattenSeq(f))
    BY <1>9, <1>10, <2>1
  <2>2. CASE op \in ToSet(deletes)
    BY <1>3, <1>12, <2>2
  <2> QED
    BY <1>13, <2>1, <2>2
<1>15. old.seed # <<>> \/ new.seed # <<>>
  <2> SUFFICES ASSUME old.seed = <<>>, new.seed = <<>> PROVE FALSE
    OBVIOUS
  <2>1. SameSeed(old, new)
    BY NoneHolds DEF SameSeed
  <2>2. DiffSeedData(old, new) = <<>>
    BY <2>1, NoSeed
  <2> QED
    BY <2>2, NoneHolds
<1> QED
  BY <1>14, <1>15 DEF IsRowChange, Changes

-----------------------------------------------------------------------------
(* Stages *)

(* The order of a migration's operations: what others may need goes last,     *)
(* what needs others goes first.                                              *)
StageOf(op) ==
    CASE op.kind = "ensure_extension" -> 1
      [] op.kind = "drop_view" -> 2
      [] op.kind = "drop_trigger" -> 3
      [] op.kind = "drop_fk" -> 4
      [] op.kind = "drop_check" -> 5
      [] op.kind = "drop_index" -> 6
      [] op.kind = "create_table" -> 7
      [] op.kind \in {"add_column", "alter_column", "drop_column"} -> 8
      [] op.kind = "add_fk" -> 9
      [] op.kind = "add_check" -> 10
      [] op.kind = "create_function" -> 11
      [] op.kind = "create_index" -> 12
      [] op.kind = "create_trigger" -> 13
      [] op.kind = "rebuild_table" -> 14
      [] op.kind \in {"insert_data", "update_data", "delete_data"} -> 15
      [] op.kind = "raw_sql" -> 16
      [] op.kind = "create_view" -> 17
      [] op.kind = "drop_table" -> 18
      [] op.kind = "drop_function" -> 19

AtStage(list, n) == IsList(list) /\ \A op \in ToSet(list) : StageOf(op) = n

UpToStage(list, n) ==
    /\ IsList(list)
    /\ \A op \in ToSet(list) : StageOf(op) \in Nat /\ StageOf(op) <= n
    /\ \A i, j \in DOMAIN list : i <= j => StageOf(list[i]) <= StageOf(list[j])

(* A list of one stage comes after one of earlier stages. *)
LEMMA NextStage ==
    ASSUME NEW m \in Nat, NEW n \in Nat, m <= n, NEW a, NEW b,
           UpToStage(a, m), AtStage(b, n)
    PROVE  /\ UpToStage(a \o b, n)
           /\ ToSet(a \o b) = ToSet(a) \cup ToSet(b)
<1>1. IsList(a) /\ IsList(b)
  BY DEF UpToStage, AtStage
<1>2. IsList(a \o b) /\ ToSet(a \o b) = ToSet(a) \cup ToSet(b)
  BY <1>1, Joined
<1>3. \A op \in ToSet(a \o b) : StageOf(op) \in Nat /\ StageOf(op) <= n
  BY <1>2 DEF UpToStage, AtStage
<1>4. /\ Len(a) \in Nat /\ DOMAIN a = 1..Len(a)
      /\ Len(b) \in Nat /\ DOMAIN b = 1..Len(b)
      /\ Len(a \o b) \in Nat /\ DOMAIN (a \o b) = 1..Len(a \o b)
  BY <1>1, <1>2, ListFacts
<1>5. PICK S, T : a \in Seq(S) /\ b \in Seq(T)
  BY <1>1 DEF IsList
<1>6. /\ Len(a \o b) = Len(a) + Len(b)
      /\ \A i \in DOMAIN (a \o b) :
            /\ i <= Len(a) => (a \o b)[i] = a[i]
            /\ i > Len(a) => (a \o b)[i] = b[i - Len(a)]
  BY <1>5
<1>7. ASSUME NEW i \in DOMAIN (a \o b), NEW j \in DOMAIN (a \o b), i <= j
      PROVE  StageOf((a \o b)[i]) <= StageOf((a \o b)[j])
  <2>1. CASE j <= Len(a)
    <3>1. i \in DOMAIN a /\ j \in DOMAIN a /\ (a \o b)[i] = a[i] /\ (a \o b)[j] = a[j]
      BY <1>4, <1>6, <1>7, <2>1
    <3> QED
      BY <1>7, <3>1 DEF UpToStage
  <2>2. CASE j > Len(a)
    <3>1. (a \o b)[j] = b[j - Len(a)] /\ j - Len(a) \in DOMAIN b
      BY <1>4, <1>6, <2>2
    <3>2. StageOf((a \o b)[j]) = n
      BY <3>1 DEF AtStage, ToSet
    <3>3. (a \o b)[i] \in ToSet(a \o b)
      BY Zenon DEF ToSet
    <3> QED
      BY <1>3, <3>2, <3>3
  <2> QED
    BY <1>4, <2>1, <2>2
<1> QED
  BY <1>2, <1>3, <1>7 DEF UpToStage

(* What is done for each of a list of tables, all at one stage. *)
LEMMA EachStage ==
    ASSUME NEW n \in Nat, NEW tables, IsList(tables), NEW todo,
           \A t \in ToSet(tables) : AtStage(todo[t], n)
    PROVE  /\ AtStage(Each(tables, todo), n)
           /\ \A op : op \in ToSet(Each(tables, todo))
                        <=> \E t \in ToSet(tables) : op \in ToSet(todo[t])
<1>1. \A t \in ToSet(tables) : IsList(todo[t])
  BY DEF AtStage
<1>2. /\ IsList(Each(tables, todo))
      /\ ToSet(Each(tables, todo)) = UNION {ToSet(todo[t]) : t \in ToSet(tables)}
  BY <1>1, EachEmpty, EachHolds
<1>3. ASSUME NEW op
      PROVE  op \in ToSet(Each(tables, todo))
                <=> \E t \in ToSet(tables) : op \in ToSet(todo[t])
  BY <1>2, Zenon
<1> QED
  BY <1>2, <1>3 DEF AtStage

-----------------------------------------------------------------------------
(* What Diff holds *)

IsForKept(op, old, t) ==
    \/ IsDrop(op, "drop_trigger", t.name, t.triggers, old.triggers)
    \/ IsDrop(op, "drop_fk", t.name, t.fks, old.fks)
    \/ IsDrop(op, "drop_check", t.name, t.checks, old.checks)
    \/ IsMissing(op, "drop_index", t.name, old.indexes, t.indexes)
    \/ IsColumnChange(op, old, t)
    \/ IsAdd(op, "add_fk", t.name, t.fks, old.fks)
    \/ IsAdd(op, "add_check", t.name, t.checks, old.checks)
    \/ IsMissing(op, "create_index", t.name, t.indexes, old.indexes)
    \/ IsAdd(op, "create_trigger", t.name, t.triggers, old.triggers)
    \/ IsRebuild(op, old, t)
    \/ op \in ToSet(DiffSeedData(old, t))

IsForCreated(op, t) ==
    \/ op = Operation("create_table", t.name, t)
    \/ IsOneOf(op, "add_fk", t.name, t.fks)
    \/ IsOneOf(op, "create_index", t.name, t.indexes)
    \/ IsOneOf(op, "create_trigger", t.name, t.triggers)
    \/ IsOneOf(op, "insert_data", t.name, t.seed)

IsForRemoved(op, t) ==
    \/ IsOneOf(op, "drop_fk", t.name, t.fks)
    \/ IsOneOf(op, "drop_index", t.name, t.indexes)
    \/ op = Operation("drop_table", t.name, t)

IsForDatabase(op, from, to) ==
    \/ \E x \in WantedExtensions(to) \ WantedExtensions(from) :
          op = Operation("ensure_extension", Everywhere, x)
    \/ IsDrop(op, "drop_view", Everywhere, to.views, from.views)
    \/ IsAdd(op, "create_function", Everywhere, to.functions, from.functions)
    \/ IsMissing(op, "raw_sql", Everywhere, to.raw, from.raw)
    \/ IsAdd(op, "create_view", Everywhere, to.views, from.views)
    \/ IsMissing(op, "drop_function", Everywhere, from.functions, to.functions)

IsEmitted(op, from, to) ==
    \/ IsForDatabase(op, from, to)
    \/ \E t \in ToSet(to.tables) :
          Has(from.tables, t.name) /\ IsForKept(op, Find(from.tables, t.name), t)
    \/ \E t \in ToSet(to.tables) : ~Has(from.tables, t.name) /\ IsForCreated(op, t)
    \/ \E t \in ToSet(from.tables) : ~Has(to.tables, t.name) /\ IsForRemoved(op, t)

(* A list of operations of one kind is of that kind's stage. *)
LEMMA StagesOfKinds ==
    /\ \A t, x : /\ StageOf(Operation("ensure_extension", t, x)) = 1
                 /\ StageOf(Operation("drop_view", t, x)) = 2
                 /\ StageOf(Operation("drop_trigger", t, x)) = 3
                 /\ StageOf(Operation("drop_fk", t, x)) = 4
                 /\ StageOf(Operation("drop_check", t, x)) = 5
                 /\ StageOf(Operation("drop_index", t, x)) = 6
                 /\ StageOf(Operation("create_table", t, x)) = 7
                 /\ StageOf(Operation("add_column", t, x)) = 8
                 /\ StageOf(Operation("drop_column", t, x)) = 8
                 /\ StageOf(Operation("add_fk", t, x)) = 9
                 /\ StageOf(Operation("add_check", t, x)) = 10
                 /\ StageOf(Operation("create_function", t, x)) = 11
                 /\ StageOf(Operation("create_index", t, x)) = 12
                 /\ StageOf(Operation("create_trigger", t, x)) = 13
                 /\ StageOf(Operation("rebuild_table", t, x)) = 14
                 /\ StageOf(Operation("insert_data", t, x)) = 15
                 /\ StageOf(Operation("raw_sql", t, x)) = 16
                 /\ StageOf(Operation("create_view", t, x)) = 17
                 /\ StageOf(Operation("drop_table", t, x)) = 18
                 /\ StageOf(Operation("drop_function", t, x)) = 19
    /\ \A t, x, y : StageOf([kind |-> "alter_column", table |-> t, arg |-> x, old |-> y]) = 8
    /\ \A op : op.kind \in {"insert_data", "update_data", "delete_data"} => StageOf(op) = 15
BY DEF StageOf, Operation

(* SetToSeq lists a finite set. *)
LEMMA SetToSeqFacts ==
    ASSUME NEW S, IsFiniteSet(S)
    PROVE  IsList(SetToSeq(S)) /\ ToSet(SetToSeq(S)) = S
<1> DEFINE n == Cardinality(S)
<1>1. n \in Nat /\ \E f \in [1..n -> S] : IsInjective(f)
  BY FS_CardinalityType DEF ExistsBijection, Bijection, Injection
<1>2. SetToSeq(S) \in [1..n -> S] /\ IsInjective(SetToSeq(S))
  BY <1>1 DEF SetToSeq
<1>3. PICK list : list = SetToSeq(S)
  OBVIOUS
<1>4. list \in Injection(1..n, S)
  BY <1>2, <1>3 DEF Injection
<1>5. Cardinality(1..n) = n
  BY <1>1, FS_Interval
<1>6. list \in Surjection(1..n, S)
  BY <1>4, <1>5, FS_Injection
<1>7. DOMAIN list = 1..n /\ (\A i \in 1..n : list[i] \in S) /\ \A x \in S : \E i \in 1..n : list[i] = x
  BY <1>2, <1>3, <1>6 DEF Surjection
<1>8. ToSet(list) = S
  BY <1>7 DEF ToSet
<1>9. list \in Seq(S)
  BY <1>1, <1>2, <1>3
<1> QED
  BY <1>3, <1>8, <1>9 DEF IsList

(* Diff holds the operations above and no others, stage after stage. *)
LEMMA DiffHolds ==
    ASSUME NEW from, NEW to, IsModel(from), IsModel(to)
    PROVE  /\ UpToStage(Diff(from, to), 19)
           /\ \A op : op \in ToSet(Diff(from, to)) <=> IsEmitted(op, from, to)
<1> DEFINE Old(t) == Find(from.tables, t.name)
           created == Created(from, to)
           kept == Kept(from, to)
           removed == Removed(from, to)
           extensions == SetToSeq(WantedExtensions(to) \ WantedExtensions(from))
           ensured == [i \in DOMAIN extensions |->
                            Operation("ensure_extension", "", extensions[i])]
           viewsGone == DropsOf("drop_view", "", to.views, from.views)
           keptTriggersGone == [t \in ToSet(kept) |->
               DropsOf("drop_trigger", t.name, t.triggers, Old(t).triggers)]
           keptKeysGone == [t \in ToSet(kept) |->
               DropsOf("drop_fk", t.name, t.fks, Old(t).fks)]
           oldKeys == [t \in ToSet(removed) |->
               Ops("drop_fk", t.name, t.fks)]
           keptChecksGone == [t \in ToSet(kept) |->
               DropsOf("drop_check", t.name, t.checks, Old(t).checks)]
           keptIndexesGone == [t \in ToSet(kept) |->
               Ops("drop_index", t.name, Absent(Old(t).indexes, t.indexes))]
           oldIndexes == [t \in ToSet(removed) |->
               Ops("drop_index", t.name, t.indexes)]
           newTables == [t \in ToSet(created) |->
               <<Operation("create_table", t.name, t)>>]
           keptColumns == [t \in ToSet(kept) |->
               DiffColumns(Old(t), t)]
           newKeys == [t \in ToSet(created) |->
               Ops("add_fk", t.name, t.fks)]
           keptKeys == [t \in ToSet(kept) |->
               AddsOf("add_fk", t.name, t.fks, Old(t).fks)]
           keptChecks == [t \in ToSet(kept) |->
               AddsOf("add_check", t.name, t.checks, Old(t).checks)]
           functions == AddsOf("create_function", "", to.functions, from.functions)
           newIndexes == [t \in ToSet(created) |->
               Ops("create_index", t.name, t.indexes)]
           keptIndexes == [t \in ToSet(kept) |->
               Ops("create_index", t.name, Absent(t.indexes, Old(t).indexes))]
           newTriggers == [t \in ToSet(created) |->
               Ops("create_trigger", t.name, t.triggers)]
           keptTriggers == [t \in ToSet(kept) |->
               AddsOf("create_trigger", t.name, t.triggers, Old(t).triggers)]
           keptRebuilds == [t \in ToSet(kept) |->
               Rebuild(Old(t), t)]
           newSeed == [t \in ToSet(created) |->
               Ops("insert_data", t.name, t.seed)]
           keptSeed == [t \in ToSet(kept) |->
               DiffSeedData(Old(t), t)]
           raw == Ops("raw_sql", "", Absent(to.raw, from.raw))
           views == AddsOf("create_view", "", to.views, from.views)
           oldTables == [t \in ToSet(removed) |->
               <<Operation("drop_table", t.name, t)>>]
           functionsGone == Ops("drop_function", "", Absent(from.functions, to.functions))
<1>1. /\ IsList(created)
      /\ ToSet(created) = {t \in ToSet(to.tables) : ~Has(from.tables, t.name)}
      /\ IsList(removed)
      /\ ToSet(removed) = {t \in ToSet(from.tables) : ~Has(to.tables, t.name)}
      /\ IsList(kept)
      /\ ToSet(kept) = {t \in ToSet(to.tables) : Has(from.tables, t.name)}
  BY AbsentFacts, KeptFacts DEF IsModel, Created, Removed
<1>2. ASSUME NEW list, NEW i \in DOMAIN list PROVE list[i] \in ToSet(list)
  BY Zenon DEF ToSet
<1>3. Diff(from, to) =
         ensured \o viewsGone \o Each(kept, keptTriggersGone)
         \o Each(kept, keptKeysGone) \o Each(removed, oldKeys) \o Each(kept, keptChecksGone)
         \o Each(kept, keptIndexesGone) \o Each(removed, oldIndexes) \o Each(created, newTables)
         \o Each(kept, keptColumns) \o Each(created, newKeys) \o Each(kept, keptKeys)
         \o Each(kept, keptChecks) \o functions \o Each(created, newIndexes)
         \o Each(kept, keptIndexes) \o Each(created, newTriggers) \o Each(kept, keptTriggers)
         \o Each(kept, keptRebuilds) \o Each(created, newSeed) \o Each(kept, keptSeed)
         \o raw \o views \o Each(removed, oldTables)
         \o functionsGone
  BY <1>2 DEF Diff, PerTable, Each
<1>4. ASSUME NEW t \in ToSet(kept)
      PROVE  /\ AtStage(keptTriggersGone[t], 3) /\ AtStage(keptKeysGone[t], 4)
             /\ AtStage(keptChecksGone[t], 5) /\ AtStage(keptIndexesGone[t], 6)
             /\ AtStage(keptColumns[t], 8) /\ AtStage(keptKeys[t], 9)
             /\ AtStage(keptChecks[t], 10) /\ AtStage(keptIndexes[t], 12)
             /\ AtStage(keptTriggers[t], 13) /\ AtStage(keptRebuilds[t], 14)
             /\ AtStage(keptSeed[t], 15)
             /\ \A op : IsForKept(op, Old(t), t) <=>
                   \/ op \in ToSet(keptTriggersGone[t]) \/ op \in ToSet(keptKeysGone[t])
                   \/ op \in ToSet(keptChecksGone[t]) \/ op \in ToSet(keptIndexesGone[t])
                   \/ op \in ToSet(keptColumns[t]) \/ op \in ToSet(keptKeys[t])
                   \/ op \in ToSet(keptChecks[t]) \/ op \in ToSet(keptIndexes[t])
                   \/ op \in ToSet(keptTriggers[t]) \/ op \in ToSet(keptRebuilds[t])
                   \/ op \in ToSet(keptSeed[t])
  <2>1. IsTable(t) /\ IsTable(Old(t))
    BY <1>1, FindFacts DEF IsModel
  <2>2. PICK old : old = Old(t)
    OBVIOUS
  <2>3. /\ keptTriggersGone[t] = DropsOf("drop_trigger", t.name, t.triggers, old.triggers)
        /\ keptKeysGone[t] = DropsOf("drop_fk", t.name, t.fks, old.fks)
        /\ keptChecksGone[t] = DropsOf("drop_check", t.name, t.checks, old.checks)
        /\ keptIndexesGone[t] = Ops("drop_index", t.name, Absent(old.indexes, t.indexes))
        /\ keptColumns[t] = DiffColumns(old, t)
        /\ keptKeys[t] = AddsOf("add_fk", t.name, t.fks, old.fks)
        /\ keptChecks[t] = AddsOf("add_check", t.name, t.checks, old.checks)
        /\ keptIndexes[t] = Ops("create_index", t.name, Absent(t.indexes, old.indexes))
        /\ keptTriggers[t] = AddsOf("create_trigger", t.name, t.triggers, old.triggers)
        /\ keptRebuilds[t] = Rebuild(old, t)
        /\ keptSeed[t] = DiffSeedData(old, t)
    BY <2>2
  <2> HIDE DEF Old, keptTriggersGone, keptKeysGone, keptChecksGone, keptIndexesGone,
           keptColumns, keptKeys, keptChecks, keptIndexes, keptTriggers, keptRebuilds,
           keptSeed
  <2>4. IsTable(old)
    BY <2>1, <2>2
  <2>5. /\ IsList(t.fks) /\ IsList(t.indexes) /\ IsList(t.checks) /\ IsList(t.triggers)
        /\ IsList(old.fks) /\ IsList(old.indexes)
        /\ IsList(old.checks) /\ IsList(old.triggers)
    BY <2>1, <2>4 DEF IsTable
  <2>6. \A op : /\ op \in ToSet(keptTriggersGone[t])
                       <=> IsDrop(op, "drop_trigger", t.name, t.triggers, old.triggers)
                /\ op \in ToSet(keptKeysGone[t])
                       <=> IsDrop(op, "drop_fk", t.name, t.fks, old.fks)
                /\ op \in ToSet(keptChecksGone[t])
                       <=> IsDrop(op, "drop_check", t.name, t.checks, old.checks)
    BY <2>3, <2>5, DropsHold
  <2>7. \A op : /\ op \in ToSet(keptKeys[t]) <=> IsAdd(op, "add_fk", t.name, t.fks, old.fks)
                /\ op \in ToSet(keptChecks[t])
                       <=> IsAdd(op, "add_check", t.name, t.checks, old.checks)
                /\ op \in ToSet(keptTriggers[t])
                       <=> IsAdd(op, "create_trigger", t.name, t.triggers, old.triggers)
                /\ op \in ToSet(keptIndexesGone[t])
                       <=> IsMissing(op, "drop_index", t.name, old.indexes, t.indexes)
                /\ op \in ToSet(keptIndexes[t])
                       <=> IsMissing(op, "create_index", t.name, t.indexes, old.indexes)
    BY <2>3, <2>5, AddsHold
  <2>8. \A op : /\ op \in ToSet(keptColumns[t]) <=> IsColumnChange(op, old, t)
                /\ op \in ToSet(keptRebuilds[t]) <=> IsRebuild(op, old, t)
    BY <2>1, <2>3, <2>4, ColumnsHold, RebuildHolds
  <2>9. /\ IsList(keptTriggersGone[t]) /\ IsList(keptKeysGone[t])
        /\ IsList(keptChecksGone[t]) /\ IsList(keptIndexesGone[t])
        /\ IsList(keptColumns[t]) /\ IsList(keptKeys[t])
        /\ IsList(keptChecks[t]) /\ IsList(keptIndexes[t])
        /\ IsList(keptTriggers[t]) /\ IsList(keptRebuilds[t]) /\ IsList(keptSeed[t])
    BY <2>1, <2>3, <2>4, <2>5, DropsHold, AddsHold, ColumnsHold, RebuildHolds, NoSeed
  <2>10. /\ \A op \in ToSet(keptTriggersGone[t]) : StageOf(op) = 3
         /\ \A op \in ToSet(keptKeysGone[t]) : StageOf(op) = 4
         /\ \A op \in ToSet(keptChecksGone[t]) : StageOf(op) = 5
         /\ \A op \in ToSet(keptIndexesGone[t]) : StageOf(op) = 6
    BY <2>6, <2>7, StagesOfKinds DEF IsDrop, IsMissing
  <2>11. /\ \A op \in ToSet(keptColumns[t]) : StageOf(op) = 8
    BY <2>8, StagesOfKinds DEF IsColumnChange, IsMissing, IsAlter
  <2>12. /\ \A op \in ToSet(keptKeys[t]) : StageOf(op) = 9
         /\ \A op \in ToSet(keptChecks[t]) : StageOf(op) = 10
         /\ \A op \in ToSet(keptIndexes[t]) : StageOf(op) = 12
         /\ \A op \in ToSet(keptTriggers[t]) : StageOf(op) = 13
    BY <2>7, StagesOfKinds DEF IsAdd, IsMissing
  <2>13. /\ \A op \in ToSet(keptRebuilds[t]) : StageOf(op) = 14
    BY <2>8, StagesOfKinds DEF IsRebuild
  <2>14. /\ \A op \in ToSet(keptSeed[t]) : StageOf(op) = 15
    BY <2>1, <2>3, <2>4, StagesOfKinds, RowsHold DEF IsRowChange
  <2>15. \A op : IsForKept(op, old, t) <=>
            \/ op \in ToSet(keptTriggersGone[t]) \/ op \in ToSet(keptKeysGone[t])
            \/ op \in ToSet(keptChecksGone[t]) \/ op \in ToSet(keptIndexesGone[t])
            \/ op \in ToSet(keptColumns[t]) \/ op \in ToSet(keptKeys[t])
            \/ op \in ToSet(keptChecks[t]) \/ op \in ToSet(keptIndexes[t])
            \/ op \in ToSet(keptTriggers[t]) \/ op \in ToSet(keptRebuilds[t])
            \/ op \in ToSet(keptSeed[t])
    <3>1. keptSeed[t] = DiffSeedData(old, t)
      BY <2>3
    <3> QED
      BY <3>1, <2>6, <2>7, <2>8 DEF IsForKept
  <2> QED
    BY <2>2, <2>9, <2>10, <2>11, <2>12, <2>13, <2>14, <2>15 DEF AtStage
<1>5. ASSUME NEW t \in ToSet(created)
      PROVE  /\ AtStage(newTables[t], 7) /\ AtStage(newKeys[t], 9)
             /\ AtStage(newIndexes[t], 12) /\ AtStage(newTriggers[t], 13)
             /\ AtStage(newSeed[t], 15)
             /\ \A op : IsForCreated(op, t) <=>
                   \/ op \in ToSet(newTables[t]) \/ op \in ToSet(newKeys[t])
                   \/ op \in ToSet(newIndexes[t]) \/ op \in ToSet(newTriggers[t])
                   \/ op \in ToSet(newSeed[t])
  <2>1. /\ IsList(t.fks) /\ IsList(t.indexes) /\ IsList(t.triggers) /\ IsList(t.seed)
    BY <1>1 DEF IsModel, IsTable
  <2>2. /\ IsList(newTables[t])
        /\ ToSet(newTables[t]) = {Operation("create_table", t.name, t)}
    BY OneHolds
  <2>3. /\ IsList(newKeys[t])
        /\ \A op : op \in ToSet(newKeys[t]) <=> IsOneOf(op, "add_fk", t.name, t.fks)
    BY <2>1, AddsHold
  <2>4. /\ IsList(newIndexes[t])
        /\ \A op : op \in ToSet(newIndexes[t])
                     <=> IsOneOf(op, "create_index", t.name, t.indexes)
    BY <2>1, AddsHold
  <2>5. /\ IsList(newTriggers[t])
        /\ \A op : op \in ToSet(newTriggers[t])
                     <=> IsOneOf(op, "create_trigger", t.name, t.triggers)
    BY <2>1, AddsHold
  <2>6. /\ IsList(newSeed[t])
        /\ \A op : op \in ToSet(newSeed[t]) <=> IsOneOf(op, "insert_data", t.name, t.seed)
    BY <2>1, AddsHold
  <2> HIDE DEF newTables, newKeys, newIndexes, newTriggers, newSeed
  <2>7. /\ AtStage(newTables[t], 7) /\ AtStage(newKeys[t], 9)
        /\ AtStage(newIndexes[t], 12) /\ AtStage(newTriggers[t], 13)
        /\ AtStage(newSeed[t], 15)
    BY <2>2, <2>3, <2>4, <2>5, <2>6, StagesOfKinds DEF AtStage, IsOneOf
  <2> QED
    BY <2>2, <2>3, <2>4, <2>5, <2>6, <2>7 DEF IsForCreated
<1>6. ASSUME NEW t \in ToSet(removed)
      PROVE  /\ AtStage(oldKeys[t], 4) /\ AtStage(oldIndexes[t], 6)
             /\ AtStage(oldTables[t], 18)
             /\ \A op : IsForRemoved(op, t) <=>
                   \/ op \in ToSet(oldKeys[t]) \/ op \in ToSet(oldIndexes[t])
                   \/ op \in ToSet(oldTables[t])
  <2>1. /\ IsList(t.fks) /\ IsList(t.indexes)
    BY <1>1 DEF IsModel, IsTable
  <2>2. /\ IsList(oldTables[t])
        /\ ToSet(oldTables[t]) = {Operation("drop_table", t.name, t)}
    BY OneHolds
  <2>3. /\ IsList(oldKeys[t])
        /\ \A op : op \in ToSet(oldKeys[t]) <=> IsOneOf(op, "drop_fk", t.name, t.fks)
    BY <2>1, AddsHold
  <2>4. /\ IsList(oldIndexes[t])
        /\ \A op : op \in ToSet(oldIndexes[t])
                     <=> IsOneOf(op, "drop_index", t.name, t.indexes)
    BY <2>1, AddsHold
  <2> HIDE DEF oldTables, oldKeys, oldIndexes
  <2>5. AtStage(oldKeys[t], 4) /\ AtStage(oldIndexes[t], 6) /\ AtStage(oldTables[t], 18)
    BY <2>2, <2>3, <2>4, StagesOfKinds DEF AtStage, IsOneOf
  <2> QED
    BY <2>2, <2>3, <2>4, <2>5 DEF IsForRemoved
<1> HIDE DEF ensured, viewsGone, keptTriggersGone, keptKeysGone, oldKeys, keptChecksGone,
         keptIndexesGone, oldIndexes, newTables, keptColumns, newKeys, keptKeys,
         keptChecks, functions, newIndexes, keptIndexes, newTriggers, keptTriggers,
         keptRebuilds, newSeed, keptSeed, raw, views, oldTables,
         functionsGone,
         created, kept, removed, Old
<1>7. /\ AtStage(ensured, 1)
      /\ \A op : op \in ToSet(ensured) <=>
            \E x \in WantedExtensions(to) \ WantedExtensions(from) :
                op = Operation("ensure_extension", Everywhere, x)
  <2>1. IsFiniteSet(WantedExtensions(to) \ WantedExtensions(from))
    <3>1. IsFiniteSet({"vector"}) /\ IsFiniteSet({})
      BY FS_Singleton, FS_EmptySet
    <3>2. IsFiniteSet(WantedExtensions(to))
      BY <3>1, FS_Union DEF WantedExtensions, IsModel
    <3> QED
      BY <3>2, FS_Difference
  <2>2. PICK wanted : wanted = WantedExtensions(to) \ WantedExtensions(from)
    OBVIOUS
  <2>3. IsList(SetToSeq(wanted)) /\ ToSet(SetToSeq(wanted)) = wanted
    BY <2>1, <2>2, SetToSeqFacts
  <2>4. ensured = Ops("ensure_extension", Everywhere, SetToSeq(wanted))
    BY <2>2, Zenon DEF ensured, Ops, Everywhere
  <2>5. /\ IsList(ensured)
        /\ \A op : op \in ToSet(ensured)
                     <=> IsOneOf(op, "ensure_extension", Everywhere, SetToSeq(wanted))
    BY <2>3, <2>4, AddsHold
  <2>6. \A op \in ToSet(ensured) : StageOf(op) = 1
    BY <2>5, StagesOfKinds DEF IsOneOf
  <2> QED
    BY <2>2, <2>3, <2>5, <2>6, Zenon DEF AtStage, IsOneOf
<1>8. /\ AtStage(viewsGone, 2) /\ AtStage(views, 17)
      /\ AtStage(functions, 11) /\ AtStage(functionsGone, 19) /\ AtStage(raw, 16)
      /\ \A op : IsForDatabase(op, from, to) <=>
            \/ op \in ToSet(ensured) \/ op \in ToSet(viewsGone) \/ op \in ToSet(functions)
            \/ op \in ToSet(raw) \/ op \in ToSet(views) \/ op \in ToSet(functionsGone)
  <2>1. /\ IsList(from.views) /\ IsList(to.views) /\ IsList(from.functions)
        /\ IsList(to.functions) /\ IsList(to.raw)
    BY DEF IsModel
  <2>2. PICK gone, came : /\ gone = Absent(from.functions, to.functions)
                          /\ came = Absent(to.raw, from.raw)
    OBVIOUS
  <2>3. /\ viewsGone = DropsOf("drop_view", Everywhere, to.views, from.views)
        /\ views = AddsOf("create_view", Everywhere, to.views, from.views)
        /\ functions = AddsOf("create_function", Everywhere, to.functions, from.functions)
        /\ functionsGone = Ops("drop_function", Everywhere, gone)
        /\ raw = Ops("raw_sql", Everywhere, came)
    BY <2>2, Zenon DEF viewsGone, views, functions, functionsGone, raw, Everywhere
  <2>4. /\ IsList(viewsGone) /\ IsList(views) /\ IsList(functions)
        /\ IsList(functionsGone) /\ IsList(raw)
    BY <2>1, <2>2, <2>3, DropsHold, AddsHold
  <2>5. \A op : /\ op \in ToSet(viewsGone)
                      <=> IsDrop(op, "drop_view", Everywhere, to.views, from.views)
                /\ op \in ToSet(views)
                      <=> IsAdd(op, "create_view", Everywhere, to.views, from.views)
                /\ op \in ToSet(functions) <=>
                      IsAdd(op, "create_function", Everywhere, to.functions, from.functions)
                /\ op \in ToSet(functionsGone) <=>
                      IsMissing(op, "drop_function", Everywhere,
                                from.functions, to.functions)
                /\ op \in ToSet(raw)
                      <=> IsMissing(op, "raw_sql", Everywhere, to.raw, from.raw)
    BY <2>1, <2>2, <2>3, DropsHold, AddsHold
  <2>6. /\ \A op \in ToSet(viewsGone) : StageOf(op) = 2
        /\ \A op \in ToSet(views) : StageOf(op) = 17
        /\ \A op \in ToSet(functions) : StageOf(op) = 11
        /\ \A op \in ToSet(functionsGone) : StageOf(op) = 19
        /\ \A op \in ToSet(raw) : StageOf(op) = 16
    BY <2>5, StagesOfKinds DEF IsDrop, IsAdd, IsMissing
  <2> QED
    BY <1>7, <2>4, <2>5, <2>6 DEF AtStage, IsForDatabase
<1>9. /\ AtStage(Each(kept, keptTriggersGone), 3) /\ AtStage(Each(kept, keptKeysGone), 4)
      /\ AtStage(Each(kept, keptChecksGone), 5) /\ AtStage(Each(kept, keptIndexesGone), 6)
      /\ AtStage(Each(kept, keptColumns), 8) /\ AtStage(Each(kept, keptKeys), 9)
      /\ AtStage(Each(kept, keptChecks), 10) /\ AtStage(Each(kept, keptIndexes), 12)
      /\ AtStage(Each(kept, keptTriggers), 13) /\ AtStage(Each(kept, keptRebuilds), 14)
      /\ AtStage(Each(kept, keptSeed), 15)
      /\ \A op : (\E t \in ToSet(kept) : IsForKept(op, Old(t), t)) <=>
            \/ op \in ToSet(Each(kept, keptTriggersGone))
            \/ op \in ToSet(Each(kept, keptKeysGone))
            \/ op \in ToSet(Each(kept, keptChecksGone))
            \/ op \in ToSet(Each(kept, keptIndexesGone))
            \/ op \in ToSet(Each(kept, keptColumns)) \/ op \in ToSet(Each(kept, keptKeys))
            \/ op \in ToSet(Each(kept, keptChecks)) \/ op \in ToSet(Each(kept, keptIndexes))
            \/ op \in ToSet(Each(kept, keptTriggers))
            \/ op \in ToSet(Each(kept, keptRebuilds)) \/ op \in ToSet(Each(kept, keptSeed))
  <2>1. /\ AtStage(Each(kept, keptTriggersGone), 3)
        /\ \A op : op \in ToSet(Each(kept, keptTriggersGone))
                     <=> \E t \in ToSet(kept) : op \in ToSet(keptTriggersGone[t])
    BY <1>1, <1>4, EachStage
  <2>2. /\ AtStage(Each(kept, keptKeysGone), 4)
        /\ \A op : op \in ToSet(Each(kept, keptKeysGone))
                     <=> \E t \in ToSet(kept) : op \in ToSet(keptKeysGone[t])
    BY <1>1, <1>4, EachStage
  <2>3. /\ AtStage(Each(kept, keptChecksGone), 5)
        /\ \A op : op \in ToSet(Each(kept, keptChecksGone))
                     <=> \E t \in ToSet(kept) : op \in ToSet(keptChecksGone[t])
    BY <1>1, <1>4, EachStage
  <2>4. /\ AtStage(Each(kept, keptIndexesGone), 6)
        /\ \A op : op \in ToSet(Each(kept, keptIndexesGone))
                     <=> \E t \in ToSet(kept) : op \in ToSet(keptIndexesGone[t])
    BY <1>1, <1>4, EachStage
  <2>5. /\ AtStage(Each(kept, keptColumns), 8)
        /\ \A op : op \in ToSet(Each(kept, keptColumns))
                     <=> \E t \in ToSet(kept) : op \in ToSet(keptColumns[t])
    BY <1>1, <1>4, EachStage
  <2>6. /\ AtStage(Each(kept, keptKeys), 9)
        /\ \A op : op \in ToSet(Each(kept, keptKeys))
                     <=> \E t \in ToSet(kept) : op \in ToSet(keptKeys[t])
    BY <1>1, <1>4, EachStage
  <2>7. /\ AtStage(Each(kept, keptChecks), 10)
        /\ \A op : op \in ToSet(Each(kept, keptChecks))
                     <=> \E t \in ToSet(kept) : op \in ToSet(keptChecks[t])
    BY <1>1, <1>4, EachStage
  <2>8. /\ AtStage(Each(kept, keptIndexes), 12)
        /\ \A op : op \in ToSet(Each(kept, keptIndexes))
                     <=> \E t \in ToSet(kept) : op \in ToSet(keptIndexes[t])
    BY <1>1, <1>4, EachStage
  <2>9. /\ AtStage(Each(kept, keptTriggers), 13)
        /\ \A op : op \in ToSet(Each(kept, keptTriggers))
                     <=> \E t \in ToSet(kept) : op \in ToSet(keptTriggers[t])
    BY <1>1, <1>4, EachStage
  <2>10. /\ AtStage(Each(kept, keptRebuilds), 14)
         /\ \A op : op \in ToSet(Each(kept, keptRebuilds))
                      <=> \E t \in ToSet(kept) : op \in ToSet(keptRebuilds[t])
    BY <1>1, <1>4, EachStage
  <2>11. /\ AtStage(Each(kept, keptSeed), 15)
         /\ \A op : op \in ToSet(Each(kept, keptSeed))
                      <=> \E t \in ToSet(kept) : op \in ToSet(keptSeed[t])
    BY <1>1, <1>4, EachStage
  <2> QED
    BY <1>4, <2>1, <2>2, <2>3, <2>4, <2>5, <2>6, <2>7, <2>8, <2>9, <2>10, <2>11
<1>10. /\ AtStage(Each(created, newTables), 7) /\ AtStage(Each(created, newKeys), 9)
       /\ AtStage(Each(created, newIndexes), 12) /\ AtStage(Each(created, newTriggers), 13)
       /\ AtStage(Each(created, newSeed), 15)
       /\ \A op : (\E t \in ToSet(created) : IsForCreated(op, t)) <=>
             \/ op \in ToSet(Each(created, newTables))
             \/ op \in ToSet(Each(created, newKeys))
             \/ op \in ToSet(Each(created, newIndexes))
             \/ op \in ToSet(Each(created, newTriggers))
             \/ op \in ToSet(Each(created, newSeed))
  <2>1. /\ AtStage(Each(created, newTables), 7)
        /\ \A op : op \in ToSet(Each(created, newTables))
                     <=> \E t \in ToSet(created) : op \in ToSet(newTables[t])
    BY <1>1, <1>5, EachStage
  <2>2. /\ AtStage(Each(created, newKeys), 9)
        /\ \A op : op \in ToSet(Each(created, newKeys))
                     <=> \E t \in ToSet(created) : op \in ToSet(newKeys[t])
    BY <1>1, <1>5, EachStage
  <2>3. /\ AtStage(Each(created, newIndexes), 12)
        /\ \A op : op \in ToSet(Each(created, newIndexes))
                     <=> \E t \in ToSet(created) : op \in ToSet(newIndexes[t])
    BY <1>1, <1>5, EachStage
  <2>4. /\ AtStage(Each(created, newTriggers), 13)
        /\ \A op : op \in ToSet(Each(created, newTriggers))
                     <=> \E t \in ToSet(created) : op \in ToSet(newTriggers[t])
    BY <1>1, <1>5, EachStage
  <2>5. /\ AtStage(Each(created, newSeed), 15)
        /\ \A op : op \in ToSet(Each(created, newSeed))
                     <=> \E t \in ToSet(created) : op \in ToSet(newSeed[t])
    BY <1>1, <1>5, EachStage
  <2> QED
    BY <1>5, <2>1, <2>2, <2>3, <2>4, <2>5
<1>11. /\ AtStage(Each(removed, oldKeys), 4) /\ AtStage(Each(removed, oldIndexes), 6)
       /\ AtStage(Each(removed, oldTables), 18)
       /\ \A op : (\E t \in ToSet(removed) : IsForRemoved(op, t)) <=>
             \/ op \in ToSet(Each(removed, oldKeys))
             \/ op \in ToSet(Each(removed, oldIndexes))
             \/ op \in ToSet(Each(removed, oldTables))
  <2>1. /\ AtStage(Each(removed, oldKeys), 4)
        /\ \A op : op \in ToSet(Each(removed, oldKeys))
                     <=> \E t \in ToSet(removed) : op \in ToSet(oldKeys[t])
    BY <1>1, <1>6, EachStage
  <2>2. /\ AtStage(Each(removed, oldIndexes), 6)
        /\ \A op : op \in ToSet(Each(removed, oldIndexes))
                     <=> \E t \in ToSet(removed) : op \in ToSet(oldIndexes[t])
    BY <1>1, <1>6, EachStage
  <2>3. /\ AtStage(Each(removed, oldTables), 18)
        /\ \A op : op \in ToSet(Each(removed, oldTables))
                     <=> \E t \in ToSet(removed) : op \in ToSet(oldTables[t])
    BY <1>1, <1>6, EachStage
  <2> QED
    BY <1>6, <2>1, <2>2, <2>3
<1>12. UpToStage(ensured, 1)
  BY <1>7 DEF UpToStage, AtStage, ToSet
<1>13. PICK p2 : p2 = ensured \o viewsGone
  OBVIOUS
<1>14. UpToStage(p2, 2) /\ ToSet(p2) = ToSet(ensured) \cup ToSet(viewsGone)
  BY <1>8, <1>12, <1>13, NextStage
<1>15. PICK p3 : p3 = p2 \o Each(kept, keptTriggersGone)
  OBVIOUS
<1>16. UpToStage(p3, 3) /\ ToSet(p3) = ToSet(p2) \cup ToSet(Each(kept, keptTriggersGone))
  BY <1>9, <1>14, <1>15, NextStage
<1>17. PICK p4 : p4 = p3 \o Each(kept, keptKeysGone)
  OBVIOUS
<1>18. UpToStage(p4, 4) /\ ToSet(p4) = ToSet(p3) \cup ToSet(Each(kept, keptKeysGone))
  BY <1>9, <1>16, <1>17, NextStage
<1>19. PICK p5 : p5 = p4 \o Each(removed, oldKeys)
  OBVIOUS
<1>20. UpToStage(p5, 4) /\ ToSet(p5) = ToSet(p4) \cup ToSet(Each(removed, oldKeys))
  BY <1>11, <1>18, <1>19, NextStage
<1>21. PICK p6 : p6 = p5 \o Each(kept, keptChecksGone)
  OBVIOUS
<1>22. UpToStage(p6, 5) /\ ToSet(p6) = ToSet(p5) \cup ToSet(Each(kept, keptChecksGone))
  BY <1>9, <1>20, <1>21, NextStage
<1>23. PICK p7 : p7 = p6 \o Each(kept, keptIndexesGone)
  OBVIOUS
<1>24. UpToStage(p7, 6) /\ ToSet(p7) = ToSet(p6) \cup ToSet(Each(kept, keptIndexesGone))
  BY <1>9, <1>22, <1>23, NextStage
<1>25. PICK p8 : p8 = p7 \o Each(removed, oldIndexes)
  OBVIOUS
<1>26. UpToStage(p8, 6) /\ ToSet(p8) = ToSet(p7) \cup ToSet(Each(removed, oldIndexes))
  BY <1>11, <1>24, <1>25, NextStage
<1>27. PICK p9 : p9 = p8 \o Each(created, newTables)
  OBVIOUS
<1>28. UpToStage(p9, 7) /\ ToSet(p9) = ToSet(p8) \cup ToSet(Each(created, newTables))
  BY <1>10, <1>26, <1>27, NextStage
<1>29. PICK p10 : p10 = p9 \o Each(kept, keptColumns)
  OBVIOUS
<1>30. UpToStage(p10, 8) /\ ToSet(p10) = ToSet(p9) \cup ToSet(Each(kept, keptColumns))
  BY <1>9, <1>28, <1>29, NextStage
<1>31. PICK p11 : p11 = p10 \o Each(created, newKeys)
  OBVIOUS
<1>32. UpToStage(p11, 9) /\ ToSet(p11) = ToSet(p10) \cup ToSet(Each(created, newKeys))
  BY <1>10, <1>30, <1>31, NextStage
<1>33. PICK p12 : p12 = p11 \o Each(kept, keptKeys)
  OBVIOUS
<1>34. UpToStage(p12, 9) /\ ToSet(p12) = ToSet(p11) \cup ToSet(Each(kept, keptKeys))
  BY <1>9, <1>32, <1>33, NextStage
<1>35. PICK p13 : p13 = p12 \o Each(kept, keptChecks)
  OBVIOUS
<1>36. UpToStage(p13, 10) /\ ToSet(p13) = ToSet(p12) \cup ToSet(Each(kept, keptChecks))
  BY <1>9, <1>34, <1>35, NextStage
<1>37. PICK p14 : p14 = p13 \o functions
  OBVIOUS
<1>38. UpToStage(p14, 11) /\ ToSet(p14) = ToSet(p13) \cup ToSet(functions)
  BY <1>8, <1>36, <1>37, NextStage
<1>39. PICK p15 : p15 = p14 \o Each(created, newIndexes)
  OBVIOUS
<1>40. UpToStage(p15, 12) /\ ToSet(p15) = ToSet(p14) \cup ToSet(Each(created, newIndexes))
  BY <1>10, <1>38, <1>39, NextStage
<1>41. PICK p16 : p16 = p15 \o Each(kept, keptIndexes)
  OBVIOUS
<1>42. UpToStage(p16, 12) /\ ToSet(p16) = ToSet(p15) \cup ToSet(Each(kept, keptIndexes))
  BY <1>9, <1>40, <1>41, NextStage
<1>43. PICK p17 : p17 = p16 \o Each(created, newTriggers)
  OBVIOUS
<1>44. UpToStage(p17, 13) /\ ToSet(p17) = ToSet(p16) \cup ToSet(Each(created, newTriggers))
  BY <1>10, <1>42, <1>43, NextStage
<1>45. PICK p18 : p18 = p17 \o Each(kept, keptTriggers)
  OBVIOUS
<1>46. UpToStage(p18, 13) /\ ToSet(p18) = ToSet(p17) \cup ToSet(Each(kept, keptTriggers))
  BY <1>9, <1>44, <1>45, NextStage
<1>47. PICK p19 : p19 = p18 \o Each(kept, keptRebuilds)
  OBVIOUS
<1>48. UpToStage(p19, 14) /\ ToSet(p19) = ToSet(p18) \cup ToSet(Each(kept, keptRebuilds))
  BY <1>9, <1>46, <1>47, NextStage
<1>49. PICK p20 : p20 = p19 \o Each(created, newSeed)
  OBVIOUS
<1>50. UpToStage(p20, 15) /\ ToSet(p20) = ToSet(p19) \cup ToSet(Each(created, newSeed))
  BY <1>10, <1>48, <1>49, NextStage
<1>51. PICK p21 : p21 = p20 \o Each(kept, keptSeed)
  OBVIOUS
<1>52. UpToStage(p21, 15) /\ ToSet(p21) = ToSet(p20) \cup ToSet(Each(kept, keptSeed))
  BY <1>9, <1>50, <1>51, NextStage
<1>53. PICK p22 : p22 = p21 \o raw
  OBVIOUS
<1>54. UpToStage(p22, 16) /\ ToSet(p22) = ToSet(p21) \cup ToSet(raw)
  BY <1>8, <1>52, <1>53, NextStage
<1>55. PICK p23 : p23 = p22 \o views
  OBVIOUS
<1>56. UpToStage(p23, 17) /\ ToSet(p23) = ToSet(p22) \cup ToSet(views)
  BY <1>8, <1>54, <1>55, NextStage
<1>57. PICK p24 : p24 = p23 \o Each(removed, oldTables)
  OBVIOUS
<1>58. UpToStage(p24, 18) /\ ToSet(p24) = ToSet(p23) \cup ToSet(Each(removed, oldTables))
  BY <1>11, <1>56, <1>57, NextStage
<1>59. PICK p25 : p25 = p24 \o functionsGone
  OBVIOUS
<1>60. UpToStage(p25, 19) /\ ToSet(p25) = ToSet(p24) \cup ToSet(functionsGone)
  BY <1>8, <1>58, <1>59, NextStage
<1>61. Diff(from, to) = p25
  BY <1>3, <1>13, <1>15, <1>17, <1>19, <1>21, <1>23, <1>25, <1>27, <1>29, <1>31, <1>33,
     <1>35, <1>37, <1>39, <1>41, <1>43, <1>45, <1>47, <1>49, <1>51, <1>53, <1>55, <1>57, <1>59
<1>62. ASSUME NEW op
       PROVE  /\ (\E t \in ToSet(kept) : IsForKept(op, Old(t), t)) <=>
                   \E t \in ToSet(to.tables) :
                       /\ Has(from.tables, t.name)
                       /\ IsForKept(op, Find(from.tables, t.name), t)
              /\ (\E t \in ToSet(created) : IsForCreated(op, t)) <=>
                   \E t \in ToSet(to.tables) :
                       ~Has(from.tables, t.name) /\ IsForCreated(op, t)
              /\ (\E t \in ToSet(removed) : IsForRemoved(op, t)) <=>
                   \E t \in ToSet(from.tables) :
                       ~Has(to.tables, t.name) /\ IsForRemoved(op, t)
  BY <1>1 DEF Old
<1>63. ASSUME NEW op
       PROVE  op \in ToSet(p25) <=>
                 \/ op \in ToSet(ensured)
                 \/ op \in ToSet(viewsGone)
                 \/ op \in ToSet(Each(kept, keptTriggersGone))
                 \/ op \in ToSet(Each(kept, keptKeysGone))
                 \/ op \in ToSet(Each(removed, oldKeys))
                 \/ op \in ToSet(Each(kept, keptChecksGone))
                 \/ op \in ToSet(Each(kept, keptIndexesGone))
                 \/ op \in ToSet(Each(removed, oldIndexes))
                 \/ op \in ToSet(Each(created, newTables))
                 \/ op \in ToSet(Each(kept, keptColumns))
                 \/ op \in ToSet(Each(created, newKeys))
                 \/ op \in ToSet(Each(kept, keptKeys))
                 \/ op \in ToSet(Each(kept, keptChecks))
                 \/ op \in ToSet(functions)
                 \/ op \in ToSet(Each(created, newIndexes))
                 \/ op \in ToSet(Each(kept, keptIndexes))
                 \/ op \in ToSet(Each(created, newTriggers))
                 \/ op \in ToSet(Each(kept, keptTriggers))
                 \/ op \in ToSet(Each(kept, keptRebuilds))
                 \/ op \in ToSet(Each(created, newSeed))
                 \/ op \in ToSet(Each(kept, keptSeed))
                 \/ op \in ToSet(raw)
                 \/ op \in ToSet(views)
                 \/ op \in ToSet(Each(removed, oldTables))
                 \/ op \in ToSet(functionsGone)
  BY <1>14, <1>16, <1>18, <1>20, <1>22, <1>24, <1>26, <1>28, <1>30, <1>32, <1>34,
     <1>36, <1>38, <1>40, <1>42, <1>44, <1>46, <1>48, <1>50, <1>52, <1>54, <1>56, <1>58, <1>60
<1>64. ASSUME NEW op PROVE op \in ToSet(p25) <=> IsEmitted(op, from, to)
  BY <1>8, <1>9, <1>10, <1>11, <1>62, <1>63 DEF IsEmitted
<1> QED
  BY <1>60, <1>61, <1>64

(* A migration's operations come stage after stage, whatever the models:      *)
(* what a view, a trigger, a foreign key or an index needs is there when it   *)
(* is made, and they are gone before a column or a table they need goes.      *)
THEOREM DiffIsStaged ==
    ASSUME NEW from, NEW to, IsModel(from), IsModel(to),
           NEW i \in DOMAIN Diff(from, to), NEW j \in DOMAIN Diff(from, to), i <= j
    PROVE  StageOf(Diff(from, to)[i]) <= StageOf(Diff(from, to)[j])
BY DiffHolds DEF UpToStage
=============================================================================
