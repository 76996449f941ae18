----------------------------- MODULE Sync_proofs -----------------------------
(***************************************************************************)
(* What holds of `molde sync` on every engine and for any databases, under   *)
(* the assumptions of Sync.  The invariant has a part for each thing the     *)
(* command holds: SourceInv for the source, QueueInv for the queries to      *)
(* come, SeenInv and HadInv for the two readings, ScriptInv for the          *)
(* statements to execute.  What a reading that was not torn holds is Sound:  *)
(* each object with all it refers to, each history row with all it stands    *)
(* for; what is still to be executed Covers the rest of it.                  *)
(***************************************************************************)
EXTENDS Sync, TLAPS

-----------------------------------------------------------------------------
(* The engines *)

(* Queries share no kind, and those that read what comes with a table read  *)
(* the tables.                                                              *)
Disjoint(q) == \A i, j \in 1..Len(q) : i # j => q[i] \cap q[j] = {}

InlineWith(q, e) ==
    \A i \in 1..Len(q) :
        /\ "column" \in q[i] => "table" \in q[i]
        /\ e = "mysql" /\ "index" \in q[i] => "table" \in q[i]

(* A sequence is one over its elements. *)
LEMMA SeqOfItsElements ==
    ASSUME NEW S, NEW s \in Seq(S) PROVE s \in Seq(ToSet(s))
BY DEF ToSet

(* What is known of each engine's queries. *)
LEMMA QueriesFacts ==
    ASSUME NEW e \in DOMAIN Queries
    PROVE  /\ Queries[e] \in Seq(ToSet(Queries[e]))
           /\ Queries[e] # <<>>
           /\ Disjoint(Queries[e])
           /\ InlineWith(Queries[e], e)
<1>1. e \in {"postgres", "sqlserver", "sqlite", "mysql"}
  BY DEF Queries
<1>2. CASE e = "postgres"
  <2> DEFINE S == {{"extension"}, {"table", "column"}, {"constraint", "foreign_key"},
             {"index"}, {"function"}, {"trigger"}, {"view"}, {"row"}}
  <2>1. Queries[e] = PostgresQueries
    BY <1>2 DEF Queries
  <2>2. PostgresQueries \in Seq(S) /\ PostgresQueries # <<>>
    BY DEF PostgresQueries
  <2> HIDE DEF S
  <2>3. PostgresQueries \in Seq(ToSet(PostgresQueries))
    BY <2>2, SeqOfItsElements
  <2>4. Disjoint(PostgresQueries)
    BY DEF PostgresQueries, Disjoint
  <2>5. InlineWith(PostgresQueries, e)
    BY <1>2 DEF PostgresQueries, InlineWith
  <2> QED
    BY <2>1, <2>2, <2>3, <2>4, <2>5
<1>3. CASE e = "sqlserver"
  <2> DEFINE S == {{"table", "column"}, {"constraint", "foreign_key"}, {"index"},
             {"function"}, {"trigger"}, {"view"}, {"row"}}
  <2>1. Queries[e] = SqlServerQueries
    BY <1>3 DEF Queries
  <2>2. SqlServerQueries \in Seq(S) /\ SqlServerQueries # <<>>
    BY DEF SqlServerQueries
  <2> HIDE DEF S
  <2>3. SqlServerQueries \in Seq(ToSet(SqlServerQueries))
    BY <2>2, SeqOfItsElements
  <2>4. Disjoint(SqlServerQueries)
    BY DEF SqlServerQueries, Disjoint
  <2>5. InlineWith(SqlServerQueries, e)
    BY <1>3 DEF SqlServerQueries, InlineWith
  <2> QED
    BY <2>1, <2>2, <2>3, <2>4, <2>5
<1>4. CASE e = "sqlite"
  <2> DEFINE S == {{"table", "column"}, {"index"}, {"trigger"}, {"view"}, {"row"}}
  <2>1. Queries[e] = SqliteQueries
    BY <1>4 DEF Queries
  <2>2. SqliteQueries \in Seq(S) /\ SqliteQueries # <<>>
    BY DEF SqliteQueries
  <2> HIDE DEF S
  <2>3. SqliteQueries \in Seq(ToSet(SqliteQueries))
    BY <2>2, SeqOfItsElements
  <2>4. Disjoint(SqliteQueries)
    BY DEF SqliteQueries, Disjoint
  <2>5. InlineWith(SqliteQueries, e)
    BY <1>4 DEF SqliteQueries, InlineWith
  <2> QED
    BY <2>1, <2>2, <2>3, <2>4, <2>5
<1>5. CASE e = "mysql"
  <2> DEFINE S == {{"table", "column", "index"}, {"view"}, {"row"}}
  <2>1. Queries[e] = MysqlQueries
    BY <1>5 DEF Queries
  <2>2. MysqlQueries \in Seq(S) /\ MysqlQueries # <<>>
    BY DEF MysqlQueries
  <2> HIDE DEF S
  <2>3. MysqlQueries \in Seq(ToSet(MysqlQueries))
    BY <2>2, SeqOfItsElements
  <2>4. Disjoint(MysqlQueries)
    BY DEF MysqlQueries, Disjoint
  <2>5. InlineWith(MysqlQueries, e)
    BY <1>5 DEF MysqlQueries, InlineWith
  <2> QED
    BY <2>1, <2>2, <2>3, <2>4, <2>5
<1> QED
  BY <1>1, <1>2, <1>3, <1>4, <1>5

(* Where a sequence has no element twice, CHOOSE finds its place. *)
LEMMA IndexOf ==
    ASSUME NEW s, NEW i \in DOMAIN s,
           \A j, k \in DOMAIN s : s[j] = s[k] => j = k
    PROVE  (CHOOSE j \in DOMAIN s : s[j] = s[i]) = i
OBVIOUS

(* In every engine's script what a kind refers to comes first, and the rows *)
(* last.                                                                    *)
Ordered(s) ==
    \A i, j \in DOMAIN s :
        /\ s[i] = s[j] => i = j
        /\ s[i] \in Refers[s[j]] => i < j
        /\ s[j] = "row" => i <= j

(* The order of each engine's script; except on MySQL, a script covers all  *)
(* that is read.                                                            *)
LEMMA SectionsFacts ==
    ASSUME NEW e \in DOMAIN Queries
    PROVE  /\ Ordered(Sections[e])
           /\ DOMAIN Sections[e] \subseteq Nat
           /\ ToSet(Sections[e]) \subseteq KindsRead(e)
           /\ e # "mysql" => KindsRead(e) \subseteq ToSet(Sections[e])
           /\ {"table", "column", "row"} \subseteq ToSet(Sections[e])
<1>1. e \in {"postgres", "sqlserver", "sqlite", "mysql"}
  BY DEF Queries
<1>2. CASE e = "postgres"
  <2> DEFINE K == {"extension", "function", "table", "column", "constraint",
             "foreign_key", "index", "trigger", "view", "row"}
  <2>1. Sections[e] = PostgresSections /\ Queries[e] = PostgresQueries
    BY <1>2 DEF Sections, Queries
  <2>2. Ordered(PostgresSections) /\ DOMAIN PostgresSections \subseteq Nat
    BY DEF Ordered, PostgresSections, Refers
  <2>3. ToSet(PostgresSections) = K
    BY DEF ToSet, PostgresSections
  <2>4. UNION ToSet(PostgresQueries) = K
    BY DEF ToSet, PostgresQueries
  <2> QED
    BY <2>1, <2>2, <2>3, <2>4 DEF KindsRead
<1>3. CASE e = "sqlserver"
  <2> DEFINE K == {"function", "table", "column", "constraint",
             "foreign_key", "index", "trigger", "view", "row"}
  <2>1. Sections[e] = SqlServerSections /\ Queries[e] = SqlServerQueries
    BY <1>3 DEF Sections, Queries
  <2>2. Ordered(SqlServerSections) /\ DOMAIN SqlServerSections \subseteq Nat
    BY DEF Ordered, SqlServerSections, Refers
  <2>3. ToSet(SqlServerSections) = K
    BY DEF ToSet, SqlServerSections
  <2>4. UNION ToSet(SqlServerQueries) = K
    BY DEF ToSet, SqlServerQueries
  <2> QED
    BY <2>1, <2>2, <2>3, <2>4 DEF KindsRead
<1>4. CASE e = "sqlite"
  <2> DEFINE K == {"table", "column", "index", "trigger", "view", "row"}
  <2>1. Sections[e] = SqliteSections /\ Queries[e] = SqliteQueries
    BY <1>4 DEF Sections, Queries
  <2>2. Ordered(SqliteSections) /\ DOMAIN SqliteSections \subseteq Nat
    BY DEF Ordered, SqliteSections, Refers
  <2>3. ToSet(SqliteSections) = K
    BY DEF ToSet, SqliteSections
  <2>4. UNION ToSet(SqliteQueries) = K
    BY DEF ToSet, SqliteQueries
  <2> QED
    BY <2>1, <2>2, <2>3, <2>4 DEF KindsRead
<1>5. CASE e = "mysql"
  <2>1. Sections[e] = MysqlSections /\ Queries[e] = MysqlQueries
    BY <1>5 DEF Sections, Queries
  <2>2. Ordered(MysqlSections) /\ DOMAIN MysqlSections \subseteq Nat
    BY DEF Ordered, MysqlSections, Refers
  <2>3. ToSet(MysqlSections) = {"table", "column", "view", "row"}
    BY DEF ToSet, MysqlSections
  <2>4. UNION ToSet(MysqlQueries) = {"table", "column", "index", "view", "row"}
    BY DEF ToSet, MysqlQueries
  <2> QED
    BY <1>5, <2>1, <2>2, <2>3, <2>4 DEF KindsRead
<1> QED
  BY <1>1, <1>2, <1>3, <1>4, <1>5

(* Refers says what each kind that is read refers to. *)
LEMMA KindsKnown ==
    ASSUME NEW e \in DOMAIN Queries PROVE KindsRead(e) \subseteq DOMAIN Refers
<1>1. e \in {"postgres", "sqlserver", "sqlite", "mysql"}
  BY DEF Queries
<1> QED
  BY <1>1 DEF KindsRead, ToSet, Refers, Queries, PostgresQueries, SqlServerQueries,
          SqliteQueries, MysqlQueries

(* The same, by rank. *)
LEMMA RankFacts ==
    ASSUME engine \in DOMAIN Queries,
           NEW a \in Compared, NEW b \in Compared
    PROVE  /\ a \in Refers[b] => Rank(a) < Rank(b)
           /\ a # "row" /\ b = "row" => Rank(a) < Rank(b)
           /\ Rank(a) \in Nat
<1> DEFINE s == Sections[engine]
<1>1. PICK i \in DOMAIN s, j \in DOMAIN s : s[i] = a /\ s[j] = b
  BY DEF Compared, ToSet
<1>2. Ordered(s) /\ DOMAIN s \subseteq Nat
  BY SectionsFacts
<1> HIDE DEF s
<1>3. \A k, l \in DOMAIN s : s[k] = s[l] => k = l
  BY <1>2 DEF Ordered
<1>4. (CHOOSE k \in DOMAIN s : s[k] = a) = i /\ (CHOOSE k \in DOMAIN s : s[k] = b) = j
  BY <1>1, <1>3
<1>5. Rank(a) = i /\ Rank(b) = j
  BY <1>4 DEF Rank, s
<1>6. i \in Nat /\ j \in Nat
  BY <1>2
<1> QED
  BY <1>1, <1>2, <1>5, <1>6 DEF Ordered

-----------------------------------------------------------------------------
(* Queues of queries *)

(* What is left when the first query has been made. *)
LEMMA TailOfQueries ==
    ASSUME NEW S, NEW q \in Seq(S), q # <<>>, Disjoint(q), NEW e, InlineWith(q, e)
    PROVE  /\ Tail(q) \in Seq(S)
           /\ Disjoint(Tail(q)) /\ InlineWith(Tail(q), e)
           /\ Tail(q) = <<>> <=> Len(q) = 1
           /\ UNION ToSet(q) = Head(q) \cup UNION ToSet(Tail(q))
           /\ Head(q) \cap UNION ToSet(Tail(q)) = {}
           /\ "column" \in Head(q) => "table" \in Head(q)
           /\ e = "mysql" /\ "index" \in Head(q) => "table" \in Head(q)
<1>1. /\ Tail(q) \in Seq(S) /\ Len(Tail(q)) = Len(q) - 1 /\ Len(q) \in Nat
      /\ Len(q) # 0 /\ Head(q) = q[1]
      /\ \A i \in 1..Len(Tail(q)) : Tail(q)[i] = q[i + 1]
      /\ DOMAIN q = 1..Len(q) /\ DOMAIN Tail(q) = 1..Len(Tail(q))
  OBVIOUS
<1>2. Disjoint(Tail(q))
  BY <1>1 DEF Disjoint
<1>3. InlineWith(Tail(q), e)
  BY <1>1 DEF InlineWith
<1>4. Tail(q) = <<>> <=> Len(q) = 1
  <2>1. \A r \in Seq(S) : r = <<>> <=> Len(r) = 0
    OBVIOUS
  <2>2. Tail(q) = <<>> <=> Len(Tail(q)) = 0
    BY <1>1, <2>1
  <2> QED
    BY <1>1, <2>2
<1>5. ToSet(q) = {Head(q)} \cup ToSet(Tail(q))
  <2>1. ASSUME NEW x \in ToSet(q) PROVE x = Head(q) \/ x \in ToSet(Tail(q))
    <3>1. PICK i \in 1..Len(q) : x = q[i]
      BY <1>1 DEF ToSet
    <3>2. CASE i = 1
      BY <1>1, <3>1, <3>2
    <3>3. CASE i # 1
      <4>1. i - 1 \in 1..Len(Tail(q)) /\ Tail(q)[i - 1] = q[i]
        BY <1>1, <3>3
      <4> QED
        BY <1>1, <3>1, <4>1 DEF ToSet
    <3> QED
      BY <3>2, <3>3
  <2>2. ASSUME NEW x \in ToSet(Tail(q)) PROVE x \in ToSet(q)
    <3>1. PICK i \in 1..Len(Tail(q)) : x = Tail(q)[i]
      BY <1>1 DEF ToSet
    <3>2. i + 1 \in 1..Len(q) /\ Tail(q)[i] = q[i + 1]
      BY <1>1
    <3> QED
      BY <1>1, <3>1, <3>2 DEF ToSet
  <2>3. Head(q) \in ToSet(q)
    <3>1. 1 \in DOMAIN q
      BY <1>1
    <3> QED
      BY <1>1, <3>1 DEF ToSet
  <2> QED
    BY <2>1, <2>2, <2>3
<1>6. UNION ToSet(q) = Head(q) \cup UNION ToSet(Tail(q))
  BY <1>5
<1>7. Head(q) \cap UNION ToSet(Tail(q)) = {}
  <2> SUFFICES ASSUME NEW i \in DOMAIN Tail(q) PROVE Head(q) \cap Tail(q)[i] = {}
    BY DEF ToSet
  <2>1. i + 1 \in 1..Len(q) /\ 1 \in 1..Len(q) /\ 1 # i + 1 /\ Tail(q)[i] = q[i + 1]
    BY <1>1
  <2> QED
    BY <1>1, <2>1 DEF Disjoint
<1>8. 1 \in 1..Len(q)
  BY <1>1
<1>9. /\ "column" \in Head(q) => "table" \in Head(q)
      /\ e = "mysql" /\ "index" \in Head(q) => "table" \in Head(q)
  BY <1>1, <1>8 DEF InlineWith
<1> QED
  BY <1>1, <1>2, <1>3, <1>4, <1>6, <1>7, <1>9

-----------------------------------------------------------------------------
(* The invariant *)

(* The source is what it began as and the migrations it has. *)
SourceInv ==
    \E s \in Starts : /\ s.engine = engine
                      /\ DOMAIN source = Objects(s, migrated)
                      /\ migrated \in 0..Len(Migrations[engine])

(* The objects of what comes with a table have their table. *)
Closed(keys) == \A k \in keys : k.kind \in Inline => TableOf(k) \in keys

(* What was read of a source that stood still: objects with all they refer  *)
(* to, rows with all they stand for.                                        *)
Sound(keys) ==
    /\ \A k \in keys : /\ k.kind \in KindsRead(engine)
                       /\ Needs[engine][k] \subseteq keys
    /\ \A i \in DOMAIN Migrations[engine] :
          LET made == DOMAIN Migrations[engine][i] IN
          (\E k \in made : k.kind = "row" /\ k \in keys)
              => \A k \in made : k.kind \in KindsRead(engine) => k \in keys

QueueInv ==
    /\ queries \in Seq(ToSet(Queries[engine]))
    /\ Disjoint(queries) /\ InlineWith(queries, engine)
    /\ pc \in {"source", "target"} => queries # <<>>
    /\ pc \in {"compare", "confirm", "apply"} => queries = <<>>
    /\ \A kind : Asked(kind) => kind \in KindsRead(engine)

SeenInv ==
    /\ DOMAIN seen \subseteq DOMAIN source
    /\ pc = "source" =>
          /\ had = Nothing
          /\ \A k \in DOMAIN seen : ~Asked(k.kind) /\ k.kind \in KindsRead(engine)
          /\ ~torn => \A k \in DOMAIN source :
                         k.kind \in KindsRead(engine) /\ ~Asked(k.kind) => k \in DOMAIN seen
    /\ pc \notin {"idle", "source"} /\ ~torn => Sound(DOMAIN seen)

HadInv ==
    /\ DOMAIN had \subseteq DOMAIN target
    /\ Closed(DOMAIN target) /\ Closed(DOMAIN had)
    /\ pc = "target" => \A k \in DOMAIN had : ~Asked(k.kind)
    /\ pc \in {"target", "compare", "confirm"} /\ ~torn /\ ~Asked("table") =>
          \A k \in DOMAIN target : k.kind = "table" => k \in DOMAIN had

(* What is still to do brings the rest of what was read. *)
Covers(statements) ==
    \A k \in DOMAIN seen :
        k.kind \in Compared =>
            k \in DOMAIN target \/ \E s \in statements : k \in DOMAIN s.puts

ScriptInv ==
    /\ pc \in {"confirm", "apply"} => script \subseteq Script /\ script # {}
    /\ pc = "confirm" \/ (pc = "apply" /\ Transactional) => script = Script
    /\ pc \in {"confirm", "apply"} /\ ~torn =>
          /\ Covers(script)
          /\ \A s \in script : s.key.kind = "table" => s.key \notin DOMAIN target

TypeInv ==
    /\ engine \in DOMAIN Queries
    /\ migrated \in 0..Len(Migrations[engine])
    /\ pc \in Resting \cup {"source", "target", "compare", "confirm", "apply"}
    /\ torn \in BOOLEAN

IInv ==
    /\ TypeInv /\ SourceInv /\ QueueInv /\ SeenInv /\ HadInv /\ ScriptInv
    /\ Delivered /\ RowsHold

-----------------------------------------------------------------------------
(* What is known of keys, statements and outcomes *)

(* The engine's part of it. *)
LEMMA EngineFacts ==
    ASSUME IInv
    PROVE  /\ engine \in DOMAIN Queries
           /\ Inline \subseteq {"column", "index"} /\ "column" \in Inline
           /\ "index" \in Inline => engine = "mysql"
           /\ Compared \subseteq KindsRead(engine)
           /\ Transactional => KindsRead(engine) = Compared
           /\ {"table", "column", "row"} \subseteq Compared
<1>1. engine \in DOMAIN Queries
  BY DEF IInv, TypeInv
<1> QED
  BY <1>1, SectionsFacts DEF Inline, Compared, Transactional

(* An object of the source refers to its table, and as its kind may. *)
LEMMA KeyFacts ==
    ASSUME SourceInv, NEW k \in DOMAIN source \cup OwnWork[engine]
    PROVE  /\ k.kind = "table" => k = TableOf(k)
           /\ k.kind \in {"column", "index"} => TableOf(k) \in Needs[engine][k]
           /\ k.kind \in KindsRead(engine) =>
                 \A j \in Needs[engine][k] : j.kind \in Refers[k.kind] \cap KindsRead(engine)
<1>1. PICK s \in Starts : /\ s.engine = engine
                         /\ DOMAIN source = Objects(s, migrated)
                         /\ migrated \in 0..Len(Migrations[engine])
  BY DEF SourceInv
<1> DEFINE last == Len(Migrations[engine])
<1>2. last \in Nat
  BY <1>1, SourceAssumption
<1>3. 1..migrated \subseteq 1..last
  BY <1>1, <1>2
<1>4. Objects(s, migrated) \subseteq Objects(s, last)
  BY <1>1, <1>3 DEF Objects
<1>5. k \in Objects(s, last) \cup OwnWork[engine]
  BY <1>1, <1>4
<1> QED
  BY <1>1, <1>5, SourceAssumption

(* The source itself is sound, in the kinds that are read. *)
LEMMA SourceIsSound ==
    ASSUME SourceInv
    PROVE  Sound({k \in DOMAIN source : k.kind \in KindsRead(engine)})
<1>1. PICK s \in Starts : /\ s.engine = engine
                         /\ DOMAIN source = Objects(s, migrated)
                         /\ migrated \in 0..Len(Migrations[engine])
  BY DEF SourceInv
<1> DEFINE keys == {k \in DOMAIN source : k.kind \in KindsRead(engine)}
           made(i) == DOMAIN Migrations[engine][i]
<1>2. ASSUME NEW k \in keys PROVE Needs[engine][k] \subseteq keys
  <2>1. Needs[engine][k] \subseteq DOMAIN source
    BY <1>1, SourceAssumption
  <2>2. \A j \in Needs[engine][k] : j.kind \in KindsRead(engine)
    BY KeyFacts
  <2> QED
    BY <2>1, <2>2
<1>3. ASSUME NEW i \in DOMAIN Migrations[engine], NEW k \in made(i),
             k.kind = "row", k \in keys
      PROVE  made(i) \subseteq DOMAIN source
  <2>1. k \notin DOMAIN s.source /\ \A j \in DOMAIN Migrations[engine] \ {i} : k \notin made(j)
    <3>1. PICK r \in made(i) :
            /\ \A l \in made(i) : l.kind = "row" <=> l = r
            /\ r \notin DOMAIN s.source
            /\ \A j \in DOMAIN Migrations[engine] \ {i} : r \notin made(j)
      BY <1>1, RowAssumption, Zenon
    <3>2. k = r
      BY <1>3, <3>1, Zenon
    <3> QED
      BY <3>1, <3>2, Zenon
  <2>2. PICK j \in 1..migrated : k \in made(j)
    BY <1>1, <1>3, <2>1 DEF Objects
  <2>3. j \in DOMAIN Migrations[engine]
    <3>1. Len(Migrations[engine]) \in Nat /\ DOMAIN Migrations[engine] = 1..Len(Migrations[engine])
      BY <1>1, SourceAssumption
    <3> QED
      BY <1>1, <2>2, <3>1
  <2>4. j = i
    BY <2>1, <2>2, <2>3
  <2> QED
    BY <1>1, <2>2, <2>4 DEF Objects
<1> QED
  BY <1>2, <1>3 DEF Sound

(* A statement is for what the target as read lacks; only a new table's      *)
(* brings more than its own object.                                         *)
LEMMA AddedFacts ==
    ASSUME NEW s \in Script
    PROVE  /\ s = Statement(s.key)
           /\ s.key \in DOMAIN seen /\ s.key \notin DOMAIN had
           /\ s.key.kind \in Compared
           /\ s.key \in DOMAIN s.puts
           /\ DOMAIN s.puts \subseteq DOMAIN seen
           /\ \A k \in DOMAIN s.puts \ {s.key} :
                 /\ s.key.kind = "table" /\ k.table = s.key.table
                 /\ k.kind \in Inline
<1>1. PICK k \in Additions(seen, had) : s = Statement(k)
  BY DEF Script
<1>2. s.key = k /\ DOMAIN s.puts =
         {k} \cup {j \in DOMAIN seen : /\ k.kind = "table"
                                     /\ j.table = k.table /\ j.kind \in Inline}
  BY <1>1 DEF Statement
<1> QED
  BY <1>1, <1>2 DEF Additions

(* A statement that does not skip puts its key and, for a table, what comes *)
(* with it; nothing of that was in the target as read.                      *)
LEMMA PutsAreNew ==
    ASSUME IInv, NEW s \in Script, NEW k \in DOMAIN s.puts
    PROVE  /\ k # s.key => s.key = TableOf(k)
           /\ k \notin DOMAIN had
<1>1. k # s.key => s.key = TableOf(k) /\ k.kind \in Inline
  <2> SUFFICES ASSUME k # s.key PROVE s.key = TableOf(k) /\ k.kind \in Inline
    OBVIOUS
  <2>1. s.key.kind = "table" /\ k.table = s.key.table /\ k.kind \in Inline
    BY AddedFacts
  <2>2. s.key \in DOMAIN source
    BY AddedFacts DEF IInv, SeenInv
  <2>3. s.key = TableOf(s.key)
    BY <2>1, <2>2, KeyFacts DEF IInv
  <2> QED
    BY <2>1, <2>3 DEF TableOf
<1>2. s.key \notin DOMAIN had
  BY AddedFacts
<1> QED
  BY <1>1, <1>2 DEF IInv, HadInv, Closed

(* A reading begins empty. *)
LEMMA NothingIsEmpty == DOMAIN Nothing = {}
BY DEF Nothing

-----------------------------------------------------------------------------
(* The initial state *)

(* The initial states. *)
LEMMA InitIInv == Init => IInv
<1> SUFFICES ASSUME Init PROVE IInv
  OBVIOUS
<1>1. PICK s \in Starts : engine = s.engine /\ source = s.source /\ target = s.target
  BY DEF Init
<1>2. /\ migrated = 0 /\ pc = "idle" /\ queries = <<>> /\ seen = Nothing
      /\ had = Nothing /\ script = {} /\ torn = FALSE
  BY DEF Init
<1>3. /\ engine \in DOMAIN Queries /\ Len(Migrations[engine]) \in Nat
  BY <1>1, SourceAssumption
<1>4. TypeInv
  <2>1. migrated \in 0..Len(Migrations[engine])
    BY <1>2, <1>3
  <2>2. torn \in BOOLEAN
    BY <1>2
  <2> QED
    BY <1>2, <1>3, <2>1, <2>2 DEF TypeInv, Resting
<1>5. SourceInv
  <2>1. Objects(s, 0) = DOMAIN s.source
    BY DEF Objects
  <2> QED
    BY <1>1, <1>2, <1>3, <2>1 DEF SourceInv
<1>6. QueueInv
  <2>1. queries \in Seq(ToSet(Queries[engine])) /\ Len(queries) = 0 /\ ToSet(queries) = {}
    BY <1>2 DEF ToSet
  <2> QED
    BY <1>2, <2>1 DEF QueueInv, Disjoint, InlineWith, Asked
<1>7. SeenInv
  BY <1>2, NothingIsEmpty DEF SeenInv
<1>8. HadInv
  <2>1. Inline \subseteq {"column", "index"}
    BY DEF Inline
  <2>2. Closed(DOMAIN target)
    BY <1>1, <2>1, TargetAssumption DEF Closed
  <2> QED
    BY <1>2, <2>2, NothingIsEmpty DEF HadInv, Closed
<1>9. ScriptInv /\ Delivered
  BY <1>2 DEF ScriptInv, Delivered
<1>10. RowsHold
  <2> SUFFICES ASSUME NEW i \in DOMAIN Migrations[engine],
                      NEW k \in DOMAIN Migrations[engine][i],
                      k.kind = "row", k \in DOMAIN target,
                      NEW j \in DOMAIN Migrations[engine][i], j.kind \in Compared
               PROVE  j \in DOMAIN target
    BY DEF RowsHold
  <2> QED
    BY <1>1, RowAssumption DEF Compared
<1> QED
  BY <1>4, <1>5, <1>6, <1>7, <1>8, <1>9, <1>10 DEF IInv

-----------------------------------------------------------------------------
(* Reading *)

(* A run begins with empty readings and all its queries to make. *)
LEMMA BeginStep == ASSUME IInv, Begin PROVE IInv'
<1>1. /\ pc' = "source" /\ queries' = Queries[engine]
      /\ seen' = Nothing /\ had' = Nothing /\ script' = {}
      /\ UNCHANGED <<engine, source, target, migrated, torn>>
  BY DEF Begin
<1>2. TypeInv' /\ SourceInv'
  BY <1>1 DEF IInv, TypeInv, SourceInv
<1>3. engine \in DOMAIN Queries
  BY DEF IInv, TypeInv
<1>4. \A kind : Asked(kind)' <=> kind \in KindsRead(engine)
  BY <1>1 DEF Asked, KindsRead
<1>5. QueueInv'
  BY <1>1, <1>3, <1>4, QueriesFacts DEF QueueInv
<1>6. SeenInv'
  BY <1>1, <1>4, NothingIsEmpty DEF SeenInv
<1>7. HadInv'
  BY <1>1, NothingIsEmpty DEF IInv, HadInv, Closed, Inline
<1>8. ScriptInv' /\ Delivered'
  BY <1>1 DEF ScriptInv, Delivered
<1>9. RowsHold'
  BY <1>1 DEF IInv, RowsHold, Compared
<1> QED
  BY <1>2, <1>5, <1>6, <1>7, <1>8, <1>9 DEF IInv

(* One query more, of either reading. *)
LEMMA QueryFacts ==
    ASSUME IInv, queries # <<>>
    PROVE  /\ Tail(queries) \in Seq(ToSet(Queries[engine]))
           /\ Disjoint(Tail(queries)) /\ InlineWith(Tail(queries), engine)
           /\ Tail(queries) = <<>> <=> Len(queries) = 1
           /\ \A kind : Asked(kind) <=>
                  kind \in Head(queries) \/ kind \in UNION ToSet(Tail(queries))
           /\ \A kind \in Head(queries) : kind \notin UNION ToSet(Tail(queries))
           /\ \A kind \in Head(queries) : kind \in Inline => "table" \in Head(queries)
<1>1. /\ queries \in Seq(ToSet(Queries[engine])) /\ Disjoint(queries)
      /\ InlineWith(queries, engine)
  BY DEF IInv, QueueInv
<1>2. Inline \subseteq {"column", "index"} /\ ("index" \in Inline => engine = "mysql")
  BY EngineFacts
<1> DEFINE S == ToSet(Queries[engine])
           H == Head(queries)
           T == Tail(queries)
<1>3. /\ T \in Seq(S) /\ Disjoint(T) /\ InlineWith(T, engine)
      /\ T = <<>> <=> Len(queries) = 1
      /\ UNION ToSet(queries) = H \cup UNION ToSet(T)
      /\ H \cap UNION ToSet(T) = {}
      /\ "column" \in H => "table" \in H
      /\ engine = "mysql" /\ "index" \in H => "table" \in H
  <2> HIDE DEF S
  <2>1. queries \in Seq(S)
    BY <1>1 DEF S
  <2> QED
    BY <1>1, <2>1, TailOfQueries, Zenon
<1> HIDE DEF S, H, T
<1>4. \A kind : Asked(kind) <=> kind \in H \/ kind \in UNION ToSet(T)
  BY <1>3 DEF Asked
<1>5. \A kind \in H : kind \notin UNION ToSet(T)
  BY <1>3
<1>6. \A kind \in H : kind \in Inline => "table" \in H
  BY <1>2, <1>3
<1> QED
  BY <1>3, <1>4, <1>5, <1>6 DEF S, H, T

(* After the last query, unless torn, the reading is what the source has in  *)
(* the kinds that are read.                                                 *)
LEMMA ReadSourceStep == ASSUME IInv, ReadSource PROVE IInv'
<1>1. /\ pc = "source" /\ UNCHANGED <<engine, source, target, migrated, had, script, torn>>
      /\ seen' = Over(OfKinds(source, Head(queries)), seen)
  BY DEF ReadSource
<1>2. queries # <<>>
  BY <1>1 DEF IInv, QueueInv
<1>3. DOMAIN seen' = DOMAIN seen \cup {k \in DOMAIN source : k.kind \in Head(queries)}
  BY <1>1 DEF Over, OfKinds
<1>4. engine \in DOMAIN Queries /\ DOMAIN had = {} /\ had = Nothing
  BY <1>1, NothingIsEmpty DEF IInv, TypeInv, SeenInv
<1>5. DOMAIN seen \subseteq {k \in DOMAIN source : k.kind \in KindsRead(engine)}
  BY <1>1 DEF IInv, SeenInv
<1>6. \A kind \in Head(queries) : Asked(kind) /\ kind \in KindsRead(engine)
  BY <1>2, QueryFacts DEF IInv, QueueInv
<1>7. SourceInv' /\ RowsHold'
  BY <1>1 DEF IInv, SourceInv, RowsHold, Compared
<1>8. CASE Len(queries) = 1
  <2>1. pc' = "target" /\ queries' = Queries[engine]
    BY <1>8 DEF ReadSource
  <2>2. TypeInv'
    BY <1>1, <2>1 DEF IInv, TypeInv
  <2>3. \A kind : Asked(kind)' <=> kind \in KindsRead(engine)
    BY <2>1 DEF Asked, KindsRead
  <2>4. QueueInv'
    BY <1>1, <1>4, <2>1, <2>3, QueriesFacts DEF QueueInv
  <2>5. ~torn => Sound(DOMAIN seen)'
    <3> SUFFICES ASSUME ~torn PROVE Sound(DOMAIN seen)'
      OBVIOUS
    <3>1. UNION ToSet(Tail(queries)) = {}
      BY <1>2, <1>8, QueryFacts DEF ToSet
    <3>2. \A kind : Asked(kind) <=> kind \in Head(queries)
      BY <1>2, <3>1, QueryFacts
    <3>3. DOMAIN seen' = {k \in DOMAIN source : k.kind \in KindsRead(engine)}
      BY <1>1, <1>3, <1>5, <1>6, <3>2 DEF IInv, SeenInv
    <3>4. Sound(DOMAIN seen')
      BY <3>3, SourceIsSound DEF IInv
    <3> QED
      BY <1>1, <3>4 DEF Sound
  <2>6. SeenInv'
    BY <1>1, <1>3, <1>5, <2>1, <2>5 DEF SeenInv
  <2>7. Asked("table")'
    BY <2>3, EngineFacts
  <2>8. HadInv'
    BY <1>1, <1>4, <2>1, <2>7 DEF IInv, HadInv, Closed, Inline
  <2> QED
    BY <1>1, <1>7, <2>1, <2>2, <2>4, <2>6, <2>8 DEF IInv, ScriptInv, Delivered
<1>9. CASE Len(queries) # 1
  <2>1. pc' = "source" /\ queries' = Tail(queries)
    BY <1>9 DEF ReadSource
  <2>2. TypeInv'
    BY <1>1, <2>1 DEF IInv, TypeInv
  <2>3. \A kind : Asked(kind)' <=> kind \in UNION ToSet(Tail(queries))
    BY <2>1 DEF Asked
  <2>4. QueueInv'
    BY <1>1, <1>2, <1>9, <2>1, <2>3, QueryFacts DEF IInv, QueueInv
  <2>5. SeenInv'
    <3>1. DOMAIN seen' \subseteq DOMAIN source
      BY <1>3, <1>5
    <3>2. ASSUME NEW k \in DOMAIN seen' PROVE ~Asked(k.kind)' /\ k.kind \in KindsRead(engine)
      BY <1>1, <1>2, <1>3, <1>6, <2>3, QueryFacts DEF IInv, SeenInv
    <3>3. ASSUME ~torn, NEW k \in DOMAIN source, k.kind \in KindsRead(engine), ~Asked(k.kind)'
          PROVE  k \in DOMAIN seen'
      BY <1>1, <1>2, <1>3, <2>3, <3>3, QueryFacts DEF IInv, SeenInv
    <3> QED
      BY <1>1, <1>4, <2>1, <3>1, <3>2, <3>3 DEF SeenInv
  <2>6. HadInv'
    BY <1>1, <1>4, <2>1 DEF IInv, HadInv, Closed, Inline
  <2> QED
    BY <1>1, <1>7, <2>1, <2>2, <2>4, <2>5, <2>6 DEF IInv, ScriptInv, Delivered
<1> QED
  BY <1>8, <1>9

(* Tables are read before, or with, what belongs to them. *)
LEMMA ReadTargetStep == ASSUME IInv, ReadTarget PROVE IInv'
<1>1. /\ pc = "target" /\ UNCHANGED <<engine, source, target, migrated, seen, script, torn>>
      /\ had' = Over(OfKinds(target, Head(queries)), had)
      /\ queries' = Tail(queries)
      /\ pc' = IF Len(queries) = 1 THEN "compare" ELSE "target"
  BY DEF ReadTarget
<1>2. queries # <<>>
  BY <1>1 DEF IInv, QueueInv
<1>3. DOMAIN had' = DOMAIN had \cup {k \in DOMAIN target : k.kind \in Head(queries)}
  BY <1>1 DEF Over, OfKinds
<1>4. \A kind : Asked(kind)' <=> kind \in UNION ToSet(Tail(queries))
  BY <1>1 DEF Asked
<1>5. TypeInv' /\ SourceInv' /\ RowsHold'
  BY <1>1 DEF IInv, TypeInv, SourceInv, RowsHold, Compared
<1>6. QueueInv'
  BY <1>1, <1>2, <1>4, QueryFacts DEF IInv, QueueInv
<1>7. SeenInv'
  BY <1>1 DEF IInv, SeenInv, Sound
<1>8. HadInv'
  <2>1. DOMAIN had' \subseteq DOMAIN target' /\ Closed(DOMAIN target)'
    BY <1>1, <1>3 DEF IInv, HadInv, Closed, Inline
  <2>2. ASSUME NEW k \in DOMAIN had', k.kind \in Inline PROVE TableOf(k) \in DOMAIN had'
    <3>1. CASE k \in DOMAIN had
      BY <1>3, <2>2, <3>1 DEF IInv, HadInv, Closed
    <3>2. CASE k \in DOMAIN target /\ k.kind \in Head(queries)
      <4>1. TableOf(k) \in DOMAIN target
        BY <2>2, <3>2 DEF IInv, HadInv, Closed
      <4>2. "table" \in Head(queries) /\ TableOf(k).kind = "table"
        BY <1>2, <2>2, <3>2, QueryFacts DEF TableOf
      <4> QED
        BY <1>3, <4>1, <4>2
    <3> QED
      BY <1>3, <3>1, <3>2
  <2>3. Closed(DOMAIN had)'
    BY <1>1, <2>2 DEF Closed, Inline
  <2>4. \A k \in DOMAIN had' : ~Asked(k.kind)'
    BY <1>1, <1>2, <1>3, <1>4, QueryFacts DEF IInv, HadInv
  <2>5. ASSUME ~torn, ~Asked("table")', NEW k \in DOMAIN target, k.kind = "table"
        PROVE  k \in DOMAIN had'
    <3>1. CASE Asked("table")
      BY <1>2, <1>3, <1>4, <2>5, <3>1, QueryFacts
    <3>2. CASE ~Asked("table")
      BY <1>1, <1>3, <2>5, <3>2 DEF IInv, HadInv
    <3> QED
      BY <3>1, <3>2
  <2> QED
    BY <1>1, <2>1, <2>3, <2>4, <2>5 DEF HadInv
<1> QED
  BY <1>1, <1>5, <1>6, <1>7, <1>8 DEF IInv, ScriptInv, Delivered

-----------------------------------------------------------------------------
(* Comparing and confirming *)

(* The script is that of the two readings. *)
LEMMA SameScript ==
    ASSUME UNCHANGED <<engine, seen, had>> PROVE Script' = Script
BY DEF Script, Additions, Statement, Compared, Inline

(* Where the command stops, the databases stay as they are. *)
LEMMA StopStep ==
    ASSUME IInv, pc' = "idle",
           UNCHANGED <<engine, source, target, migrated, reading, script, torn>>
    PROVE  IInv'
<1>1. UNCHANGED <<queries, seen, had>>
  BY DEF reading
<1>2. TypeInv' /\ SourceInv' /\ RowsHold' /\ Delivered' /\ ScriptInv'
  BY DEF IInv, TypeInv, SourceInv, RowsHold, Compared, Delivered, ScriptInv, Resting
<1>3. QueueInv'
  BY <1>1 DEF IInv, QueueInv, Asked
<1>4. SeenInv' /\ HadInv'
  BY <1>1 DEF IInv, SeenInv, HadInv, Closed, Inline
<1> QED
  BY <1>2, <1>3, <1>4 DEF IInv

(* The script covers what was read of the source and the target lacks; none  *)
(* of the tables it creates is there.                                       *)
LEMMA CompareStep == ASSUME IInv, Compare PROVE IInv'
<1>1. /\ pc = "compare" /\ pc' = "confirm" /\ script' = Script
      /\ Additions(seen, had) # {}
      /\ UNCHANGED <<engine, source, target, migrated, queries, seen, had, torn>>
  BY DEF Compare, reading
<1>2. TypeInv' /\ SourceInv' /\ RowsHold' /\ Delivered'
  BY <1>1 DEF IInv, TypeInv, SourceInv, RowsHold, Compared, Delivered
<1>3. QueueInv'
  BY <1>1 DEF IInv, QueueInv, Asked
<1>4. SeenInv'
  BY <1>1 DEF IInv, SeenInv, Sound
<1>5. HadInv'
  BY <1>1 DEF IInv, HadInv, Closed, Inline, Asked
<1> DEFINE new == Additions(seen, had)
           inNewTable ==
              {k \in new : k.kind = "column" /\
                 \E t \in new : t.kind = "table" /\ t.table = k.table}
<1>6. Script = {Statement(k) : k \in new \ inNewTable}
  BY DEF Script
<1> HIDE DEF new
<1>7. ASSUME NEW k \in inNewTable
      PROVE  \E t \in new \ inNewTable : t.kind = "table" /\ t.table = k.table
  <2>1. PICK t \in new : t.kind = "table" /\ t.table = k.table
    OBVIOUS
  <2> QED
    BY <2>1
<1>8. Script # {}
  <2>1. new \ inNewTable # {}
    BY <1>1, <1>7 DEF new
  <2> QED
    BY <1>6, <2>1
<1>9. ASSUME NEW k \in DOMAIN seen, k.kind \in Compared, k \notin DOMAIN target
      PROVE  \E s \in Script : k \in DOMAIN s.puts
  <2>1. k \in new
    BY <1>9 DEF new, Additions, IInv, HadInv
  <2>2. CASE k \notin inNewTable
    <3>1. Statement(k) \in Script
      BY <1>6, <2>1, <2>2
    <3>2. k \in DOMAIN Statement(k).puts
      BY DEF Statement
    <3> QED
      BY <3>1, <3>2
  <2>3. CASE k \in inNewTable
    <3>1. PICK t \in new \ inNewTable : t.kind = "table" /\ t.table = k.table
      BY <1>7, <2>3
    <3>2. k.kind = "column" /\ "column" \in Inline
      BY <2>3, EngineFacts
    <3>3. k \in DOMAIN Statement(t).puts
      BY <1>9, <3>1, <3>2 DEF Statement
    <3> QED
      BY <1>6, <3>1, <3>3
  <2> QED
    BY <2>2, <2>3
<1>10. ASSUME ~torn, NEW s \in Script, s.key.kind = "table"
       PROVE  s.key \notin DOMAIN target
  <2>1. ~Asked("table")
    <3>1. queries = <<>>
      BY <1>1 DEF IInv, QueueInv
    <3> QED
      BY <3>1 DEF Asked, ToSet
  <2>2. s.key \notin DOMAIN had
    BY AddedFacts
  <2> QED
    BY <1>1, <1>10, <2>1, <2>2 DEF IInv, HadInv
<1>11. Covers(Script)
  BY <1>9 DEF Covers
<1>12. Script' = Script
  BY <1>1, SameScript
<1>13. Covers(script)'
  BY <1>1, <1>11 DEF Covers, Compared
<1>14. ScriptInv'
  BY <1>1, <1>8, <1>10, <1>12, <1>13 DEF ScriptInv
<1> QED
  BY <1>2, <1>3, <1>4, <1>5, <1>14 DEF IInv

(* The user says yes. *)
LEMMA ConfirmStep == ASSUME IInv, Confirm PROVE IInv'
<1>1. /\ pc = "confirm" /\ pc' = "apply"
      /\ UNCHANGED <<engine, source, target, migrated, queries, seen, had, script, torn>>
  BY DEF Confirm, reading
<1>2. TypeInv' /\ SourceInv' /\ RowsHold' /\ Delivered'
  BY <1>1 DEF IInv, TypeInv, SourceInv, RowsHold, Compared, Delivered
<1>3. QueueInv'
  BY <1>1 DEF IInv, QueueInv, Asked
<1>4. SeenInv' /\ HadInv'
  BY <1>1 DEF IInv, SeenInv, Sound, HadInv, Closed, Inline
<1>5. Script' = Script
  BY <1>1, SameScript
<1>6. Covers(script) => Covers(script)'
  BY <1>1 DEF Covers, Compared
<1>7. ScriptInv'
  BY <1>1, <1>5, <1>6 DEF IInv, ScriptInv
<1> QED
  BY <1>2, <1>3, <1>4, <1>7 DEF IInv

-----------------------------------------------------------------------------
(* Applying *)

(* What an accepted part of the script leaves has its tables. *)
LEMMA ClosedOutcome ==
    ASSUME IInv, NEW statements \in SUBSET Script, Accepts(target, statements)
    PROVE  Closed(DOMAIN Outcome(target, statements))
<1> DEFINE done == Effective(statements, target)
           after == DOMAIN target \cup Put(done)
<1>1. DOMAIN Outcome(target, statements) = after
  BY DEF Outcome
<1> SUFFICES ASSUME NEW k \in after, k.kind \in Inline PROVE TableOf(k) \in after
  BY <1>1 DEF Closed
<1>2. CASE k \in DOMAIN target
  BY <1>2 DEF IInv, HadInv, Closed
<1>3. CASE k \in Put(done)
  <2>1. PICK s \in done : k \in DOMAIN s.puts
    BY <1>3 DEF Put
  <2>2. s \in statements /\ s \in Script /\ ~Skips(target, s)
    BY <2>1 DEF Effective
  <2>3. CASE k # s.key
    <3>1. TableOf(k) = s.key /\ s.key \in DOMAIN s.puts
      BY <2>1, <2>2, <2>3, PutsAreNew, AddedFacts
    <3> QED
      BY <2>1, <3>1 DEF Put
  <2>4. CASE k = s.key
    <3>1. k \in DOMAIN source
      BY <2>2, <2>4, AddedFacts DEF IInv, SeenInv
    <3>2. k.kind \in {"column", "index"}
      BY EngineFacts
    <3>3. TableOf(k) \in Needs[engine][k]
      BY <3>1, <3>2, KeyFacts DEF IInv
    <3> DEFINE before == Effective({t \in statements : Precedes(t, s)}, target)
    <3>4. Needs[engine][k] \subseteq DOMAIN target \cup Put(before)
      BY <2>2, <2>4 DEF Accepts
    <3>5. Put(before) \subseteq Put(done)
      BY DEF Put, Effective
    <3> QED
      BY <3>3, <3>4, <3>5
  <2> QED
    BY <2>3, <2>4
<1> QED
  BY <1>2, <1>3

(* What a statement puts is there when it has run. *)
LEMMA PutIsThere ==
    ASSUME IInv, pc = "apply", ~torn, NEW statements \in SUBSET script,
           NEW s \in statements, NEW k \in DOMAIN s.puts
    PROVE  k \in DOMAIN Outcome(target, statements)
<1>1. s \in Script
  BY DEF IInv, ScriptInv
<1>2. DOMAIN Outcome(target, statements) =
         DOMAIN target \cup Put(Effective(statements, target))
  BY DEF Outcome
<1>3. CASE Skips(target, s)
  <2>1. s.key \in DOMAIN target
    BY <1>3 DEF Skips
  <2>2. s.key.kind # "table"
    BY <2>1 DEF IInv, ScriptInv
  <2>3. k = s.key
    BY <1>1, <2>2, AddedFacts
  <2> QED
    BY <1>2, <2>1, <2>3
<1>4. CASE ~Skips(target, s)
  BY <1>2, <1>4 DEF Put, Effective
<1> QED
  BY <1>3, <1>4

(* All of the script in one transaction. *)
LEMMA ApplyScriptStep == ASSUME IInv, ApplyScript PROVE IInv'
<1>1. /\ pc = "apply" /\ pc' = "applied" /\ Transactional
      /\ Accepts(target, script) /\ target' = Outcome(target, script)
      /\ UNCHANGED <<engine, source, migrated, queries, seen, had, script, torn>>
  BY DEF ApplyScript, reading
<1>2. script = Script
  BY <1>1 DEF IInv, ScriptInv
<1>3. DOMAIN target' = DOMAIN target \cup Put(Effective(script, target))
  BY <1>1 DEF Outcome
<1>4. TypeInv' /\ SourceInv' /\ ScriptInv'
  BY <1>1 DEF IInv, TypeInv, SourceInv, ScriptInv, Resting
<1>5. QueueInv'
  BY <1>1 DEF IInv, QueueInv, Asked
<1>6. SeenInv'
  BY <1>1 DEF IInv, SeenInv, Sound
<1>7. HadInv'
  <2>1. Closed(DOMAIN target')
    BY <1>1, <1>2, ClosedOutcome
  <2> QED
    BY <1>1, <1>3, <2>1 DEF IInv, HadInv, Closed, Inline
<1>8. ASSUME ~torn, NEW k \in DOMAIN seen, k.kind \in Compared
      PROVE  k \in DOMAIN target'
  <2>1. k \in DOMAIN target \/ \E s \in script : k \in DOMAIN s.puts
    BY <1>1, <1>8 DEF IInv, ScriptInv, Covers
  <2> QED
    BY <1>1, <1>3, <1>8, <2>1, PutIsThere
<1>9. Delivered'
  BY <1>1, <1>8 DEF Delivered, OfKinds, Compared
<1>10. RowsHold'
  <2> SUFFICES ASSUME ~torn, NEW i \in DOMAIN Migrations[engine],
                      NEW k \in DOMAIN Migrations[engine][i],
                      k.kind = "row", k \in DOMAIN target',
                      NEW j \in DOMAIN Migrations[engine][i], j.kind \in Compared
               PROVE  j \in DOMAIN target'
    BY <1>1 DEF RowsHold, Compared
  <2>1. CASE k \in DOMAIN target
    BY <1>3, <2>1 DEF IInv, RowsHold
  <2>2. CASE k \notin DOMAIN target
    <3>1. PICK s \in script : k \in DOMAIN s.puts
      BY <1>3, <2>2 DEF Put, Effective
    <3>2. k \in DOMAIN seen
      BY <1>2, <3>1, AddedFacts
    <3>3. j \in DOMAIN seen
      BY <1>1, <3>2, EngineFacts DEF IInv, SeenInv, Sound
    <3> QED
      BY <1>8, <3>3
  <2> QED
    BY <2>1, <2>2
<1> QED
  BY <1>4, <1>5, <1>6, <1>7, <1>9, <1>10 DEF IInv

(* The first statement of what is left: a row's comes when nothing else is   *)
(* left to do.                                                              *)
LEMMA ApplyStatementStep == ASSUME IInv, ApplyStatement PROVE IInv'
<1>1. PICK s \in script :
         /\ First(s, script) /\ Accepts(target, {s})
         /\ target' = Outcome(target, {s}) /\ script' = script \ {s}
  BY DEF ApplyStatement
<1>2. /\ pc = "apply" /\ ~Transactional
      /\ pc' = IF script' = {} THEN "applied" ELSE "apply"
      /\ UNCHANGED <<engine, source, migrated, queries, seen, had, torn>>
  BY DEF ApplyStatement, reading
<1>3. script \subseteq Script /\ s \in Script
  BY <1>2 DEF IInv, ScriptInv
<1>4. /\ DOMAIN target' = DOMAIN target \cup Put(Effective({s}, target))
      /\ Put(Effective({s}, target)) \subseteq DOMAIN s.puts
  BY <1>1 DEF Outcome, Put, Effective
<1>5. TypeInv' /\ SourceInv'
  BY <1>2 DEF IInv, TypeInv, SourceInv, Resting
<1>6. QueueInv'
  BY <1>2 DEF IInv, QueueInv, Asked
<1>7. SeenInv'
  BY <1>2 DEF IInv, SeenInv, Sound
<1>8. HadInv'
  <2>1. Closed(DOMAIN target')
    BY <1>1, <1>3, ClosedOutcome
  <2> QED
    BY <1>2, <1>4, <2>1 DEF IInv, HadInv, Closed, Inline
<1>9. ASSUME ~torn PROVE Covers(script)'
  <2> SUFFICES ASSUME NEW k \in DOMAIN seen, k.kind \in Compared, k \notin DOMAIN target'
               PROVE  \E t \in script' : k \in DOMAIN t.puts
    BY <1>2 DEF Covers, Compared
  <2>1. PICK t \in script : k \in DOMAIN t.puts
    BY <1>2, <1>4, <1>9 DEF IInv, ScriptInv, Covers
  <2>2. t # s
    BY <1>1, <1>2, <1>9, <2>1, PutIsThere
  <2> QED
    BY <1>1, <2>1, <2>2
<1>10. ASSUME ~torn, NEW t \in script', t.key.kind = "table"
       PROVE  t.key \notin DOMAIN target'
  <2>1. t.key \notin DOMAIN target
    BY <1>1, <1>2, <1>10 DEF IInv, ScriptInv
  <2>2. t.key # s.key
    <3>1. t \in Script /\ t # s
      BY <1>1, <1>3
    <3>2. t = Statement(t.key) /\ s = Statement(s.key)
      BY <1>3, <3>1, AddedFacts
    <3> QED
      BY <3>1, <3>2
  <2>3. ASSUME t.key \in DOMAIN s.puts PROVE FALSE
    <3>1. t.key.kind \in Inline
      BY <1>3, <2>2, <2>3, AddedFacts
    <3> QED
      BY <1>10, <3>1, EngineFacts
  <2> QED
    BY <1>4, <2>1, <2>3
<1>11. ScriptInv'
  <2>1. Script' = Script
    BY <1>2, SameScript
  <2>2. ~Transactional'
    BY <1>2 DEF Transactional
  <2> QED
    BY <1>1, <1>2, <1>3, <1>9, <1>10, <2>1, <2>2 DEF ScriptInv
<1>12. Delivered'
  <2> SUFFICES ASSUME pc' = "applied", ~torn, NEW k \in DOMAIN seen, k.kind \in Compared
               PROVE  k \in DOMAIN target'
    BY <1>2 DEF Delivered, OfKinds, Compared
  <2>1. script' = {}
    BY <1>2
  <2> QED
    BY <1>2, <1>9, <2>1 DEF Covers, Compared
<1>13. RowsHold'
  <2> SUFFICES ASSUME ~torn, NEW i \in DOMAIN Migrations[engine],
                      NEW k \in DOMAIN Migrations[engine][i],
                      k.kind = "row", k \in DOMAIN target',
                      NEW j \in DOMAIN Migrations[engine][i], j.kind \in Compared
               PROVE  j \in DOMAIN target'
    BY <1>2 DEF RowsHold, Compared
  <2>1. CASE k \in DOMAIN target
    BY <1>4, <2>1 DEF IInv, RowsHold
  <2>2. CASE k \notin DOMAIN target
    <3>1. k \in DOMAIN s.puts
      BY <1>4, <2>2
    <3>2. k \in DOMAIN seen /\ k = s.key
      <4>1. "row" \notin Inline
        BY EngineFacts
      <4> QED
        BY <1>3, <3>1, <4>1, AddedFacts
    <3>3. j \in DOMAIN seen
      BY <1>2, <3>2, EngineFacts DEF IInv, SeenInv, Sound
    <3>4. CASE j.kind = "row"
      <4>1. j = k
        <5>1. PICK start \in Starts : start.engine = engine
          BY DEF IInv, SourceInv
        <5>2. \E row \in DOMAIN Migrations[start.engine][i] :
                 \A l \in DOMAIN Migrations[start.engine][i] : l.kind = "row" <=> l = row
          <6>1. i \in DOMAIN Migrations[start.engine]
            BY <5>1
          <6> QED
            BY <6>1, RowAssumption
        <5>3. \E row \in DOMAIN Migrations[engine][i] :
                 \A l \in DOMAIN Migrations[engine][i] : l.kind = "row" <=> l = row
          BY <5>1, <5>2
        <5> QED
          BY <3>4, <5>3
      <4> QED
        BY <4>1
    <3>5. CASE j.kind # "row"
      <4>1. CASE j \in DOMAIN target
        BY <1>4, <4>1
      <4>2. CASE j \notin DOMAIN target
        <5>1. PICK t \in script : j \in DOMAIN t.puts
          BY <1>2, <3>3, <4>2 DEF IInv, ScriptInv, Covers
        <5>2. t.key.kind # "row" /\ t.key.kind \in Compared
          BY <1>3, <3>5, <5>1, AddedFacts
        <5>3. s.key.kind = "row" /\ "row" \in Compared /\ engine \in DOMAIN Queries
          BY <3>2, EngineFacts
        <5>4. /\ Rank(t.key.kind) < Rank("row") /\ Rank(t.key.kind) \in Nat
              /\ Rank("row") \in Nat
          BY <5>2, <5>3, RankFacts
        <5>5. Precedes(s, t)
          BY <1>1, <5>1, <5>2, <5>3 DEF First
        <5> QED
          BY <5>2, <5>3, <5>4, <5>5 DEF Precedes
      <4> QED
        BY <4>1, <4>2
    <3> QED
      BY <3>4, <3>5
  <2> QED
    BY <2>1, <2>2
<1> QED
  BY <1>5, <1>6, <1>7, <1>8, <1>11, <1>12, <1>13 DEF IInv

-----------------------------------------------------------------------------
(* The others *)

(* A migration arrives in the source; between two queries it tears the       *)
(* reading.                                                                 *)
LEMMA MigrateSourceStep == ASSUME IInv, MigrateSource PROVE IInv'
<1>1. /\ migrated < Len(Migrations[engine]) /\ migrated' = migrated + 1
      /\ source' = Over(Migrations[engine][migrated + 1], source)
      /\ torn' = (torn \/ (pc = "source" /\ queries # Queries[engine]))
      /\ UNCHANGED <<engine, target, pc, queries, seen, had, script>>
  BY DEF MigrateSource, reading
<1>2. DOMAIN source' = DOMAIN source \cup DOMAIN Migrations[engine][migrated + 1]
  BY <1>1 DEF Over
<1>3. PICK s \in Starts : /\ s.engine = engine
                         /\ DOMAIN source = Objects(s, migrated)
                         /\ migrated \in 0..Len(Migrations[engine])
  BY DEF IInv, SourceInv
<1>4. Len(Migrations[engine]) \in Nat
  BY <1>3, SourceAssumption
<1>5. migrated' \in 0..Len(Migrations[engine])
  BY <1>1, <1>3, <1>4
<1>6. 1..migrated' = (1..migrated) \cup {migrated + 1}
  BY <1>1, <1>3, <1>4
<1>7. DOMAIN source' = Objects(s, migrated')
  BY <1>1, <1>2, <1>3, <1>6 DEF Objects
<1>8. SourceInv'
  BY <1>1, <1>3, <1>5, <1>7 DEF SourceInv
<1>9. torn' \in BOOLEAN /\ (~torn' => ~torn)
  BY <1>1 DEF IInv, TypeInv
<1>10. TypeInv'
  BY <1>1, <1>5, <1>9 DEF IInv, TypeInv
<1>11. QueueInv'
  BY <1>1 DEF IInv, QueueInv, Asked
<1>12. SeenInv'
  <2>1. ASSUME pc = "source", ~torn', NEW k
        PROVE  k.kind \in KindsRead(engine) => Asked(k.kind)
    <3>1. queries = Queries[engine]
      BY <1>1, <2>1
    <3> QED
      BY <3>1 DEF Asked, KindsRead
  <2>2. DOMAIN seen \subseteq DOMAIN source'
    BY <1>2 DEF IInv, SeenInv
  <2>3. \A kind : Asked(kind)' <=> Asked(kind)
    BY <1>1 DEF Asked
  <2>4. pc \notin {"idle", "source"} /\ ~torn' => Sound(DOMAIN seen)'
    BY <1>1, <1>9 DEF IInv, SeenInv, Sound
  <2> QED
    BY <1>1, <2>1, <2>2, <2>3, <2>4 DEF IInv, SeenInv
<1>13. HadInv'
  <2>1. \A kind : Asked(kind)' <=> Asked(kind)
    BY <1>1 DEF Asked
  <2> QED
    BY <1>1, <1>9, <2>1 DEF IInv, HadInv, Closed, Inline
<1>14. ScriptInv'
  <2>1. Script' = Script
    BY <1>1, SameScript
  <2>2. Covers(script) => Covers(script)'
    BY <1>1 DEF Covers, Compared
  <2> QED
    BY <1>1, <1>9, <2>1, <2>2 DEF IInv, ScriptInv, Transactional
<1>15. Delivered' /\ RowsHold'
  BY <1>1, <1>9 DEF IInv, Delivered, RowsHold, OfKinds, Compared
<1> QED
  BY <1>8, <1>10, <1>11, <1>12, <1>13, <1>14, <1>15 DEF IInv

(* The developer's own work in the target. *)
LEMMA WorkLocallyStep == ASSUME IInv, WorkLocally PROVE IInv'
<1>1. PICK k \in OwnWork[engine] :
         /\ Needs[engine][k] \subseteq DOMAIN target
         /\ target' = Over([j \in {k} |-> Own], target)
         /\ torn' = (torn \/ (k.kind = "table" /\ pc \notin Resting))
  BY DEF WorkLocally
<1>2. UNCHANGED <<engine, source, migrated, pc, queries, seen, had, script>>
  BY DEF WorkLocally, reading
<1>3. DOMAIN target' = DOMAIN target \cup {k}
  BY <1>1 DEF Over
<1>4. torn' \in BOOLEAN /\ (~torn' => ~torn)
  BY <1>1 DEF IInv, TypeInv
<1>5. ~torn' /\ pc \notin Resting => k.kind # "table"
  BY <1>1
<1>6. TypeInv' /\ SourceInv'
  BY <1>2, <1>4 DEF IInv, TypeInv, SourceInv
<1>7. \A kind : Asked(kind)' <=> Asked(kind)
  BY <1>2 DEF Asked
<1>8. QueueInv'
  BY <1>2, <1>7 DEF IInv, QueueInv
<1>9. SeenInv'
  <2>1. ~torn' => (Sound(DOMAIN seen) => Sound(DOMAIN seen)')
    BY <1>2 DEF Sound
  <2> QED
    BY <1>2, <1>4, <1>7, <2>1 DEF IInv, SeenInv
<1>10. HadInv'
  <2>1. Closed(DOMAIN target')
    <3>1. k.kind \in Inline => TableOf(k) \in DOMAIN target
      BY <1>1, EngineFacts, KeyFacts DEF IInv
    <3> QED
      BY <1>3, <3>1 DEF IInv, HadInv, Closed
  <2>2. Closed(DOMAIN target)' /\ Closed(DOMAIN had)'
    BY <1>2, <2>1 DEF IInv, HadInv, Closed, Inline
  <2> QED
    BY <1>2, <1>3, <1>4, <1>5, <1>7, <2>2 DEF IInv, HadInv, Resting
<1>11. ScriptInv'
  <2>1. Script' = Script
    BY <1>2, SameScript
  <2>2. Covers(script) => Covers(script)'
    BY <1>2, <1>3 DEF Covers, Compared
  <2> QED
    BY <1>2, <1>3, <1>4, <1>5, <2>1, <2>2 DEF IInv, ScriptInv, Transactional, Resting
<1>12. Delivered'
  BY <1>2, <1>3, <1>4 DEF IInv, Delivered, OfKinds, Compared
<1>13. RowsHold'
  <2>1. k.kind # "row"
    BY RowAssumption DEF IInv, SourceInv
  <2> QED
    BY <1>2, <1>3, <1>4, <2>1 DEF IInv, RowsHold, Compared
<1> QED
  BY <1>6, <1>8, <1>9, <1>10, <1>11, <1>12, <1>13 DEF IInv

(* All steps. *)
LEMMA NextIInv == IInv /\ [Next]_vars => IInv'
<1> SUFFICES ASSUME IInv, [Next]_vars PROVE IInv'
  OBVIOUS
<1>1. CASE UNCHANGED vars
  <2>1. UNCHANGED <<engine, source, target, migrated, pc, queries, seen, had, script, torn>>
    BY <1>1 DEF vars, reading
  <2>2. TypeInv' /\ SourceInv' /\ RowsHold' /\ Delivered'
    BY <2>1 DEF IInv, TypeInv, SourceInv, RowsHold, Compared, Delivered
  <2>3. \A kind : Asked(kind)' <=> Asked(kind)
    BY <2>1 DEF Asked
  <2>4. QueueInv' /\ HadInv'
    BY <2>1, <2>3 DEF IInv, QueueInv, HadInv, Closed, Inline
  <2>5. Sound(DOMAIN seen) => Sound(DOMAIN seen)'
    BY <2>1 DEF Sound
  <2>6. SeenInv'
    BY <2>1, <2>3, <2>5 DEF IInv, SeenInv
  <2>7. Script' = Script
    BY <2>1, SameScript
  <2>8. Covers(script) => Covers(script)'
    BY <2>1 DEF Covers, Compared
  <2>9. ScriptInv'
    BY <2>1, <2>7, <2>8 DEF IInv, ScriptInv, Transactional
  <2> QED
    BY <2>2, <2>4, <2>6, <2>9 DEF IInv
<1>2. ASSUME UpToDate \/ ScriptFails \/ StatementFails \/ Decline \/ Fault PROVE IInv'
  <2>1. /\ pc' = "idle"
        /\ UNCHANGED <<engine, source, target, migrated, reading, script, torn>>
    BY <1>2 DEF UpToDate, ScriptFails, StatementFails, Decline, Fault
  <2> QED
    BY <2>1, StopStep
<1> QED
  BY <1>1, <1>2, BeginStep, ReadSourceStep, ReadTargetStep, CompareStep, ConfirmStep,
     ApplyScriptStep, ApplyStatementStep, MigrateSourceStep, WorkLocallyStep
     DEF Next, SyncStep

-----------------------------------------------------------------------------
(* Theorems *)

(* TypeOK: a reading holds what its queries have asked for so far and       *)
(* nothing of an earlier run, and a script that is run is not empty.        *)
THEOREM Typed == Spec => []TypeOK
<1>1. IInv => TypeOK
  BY DEF IInv, TypeInv, SeenInv, HadInv, ScriptInv, TypeOK
<1> QED
  BY <1>1, InitIInv, NextIInv, PTL DEF Spec

(* Delivered: whatever the developer does in the target between the reading  *)
(* and the script, what sync read of the source is there when it has run.    *)
THEOREM WhatWasReadIsThere == Spec => []Delivered
<1>1. IInv => Delivered
  BY DEF IInv
<1> QED
  BY <1>1, InitIInv, NextIInv, PTL DEF Spec

(* RowsHold: wherever a script stops, on MySQL after any of its statements,   *)
(* no history row is there without what it stands for.                       *)
THEOREM RowsComeLast == Spec => []RowsHold
<1>1. IInv => RowsHold
  BY DEF IInv
<1> QED
  BY <1>1, InitIInv, NextIInv, PTL DEF Spec

(* What of the script's statements a target can lose. *)
LEMMA KeepsWhatWasRead ==
    ASSUME IInv, NEW statements \in SUBSET Script, target' = Outcome(target, statements)
    PROVE  \A k \in DOMAIN target : /\ k \in DOMAIN target'
                                    /\ k \in DOMAIN had => target'[k] = target[k]
<1> SUFFICES ASSUME NEW k \in DOMAIN target
             PROVE  /\ k \in DOMAIN target'
                    /\ k \in DOMAIN had => target'[k] = target[k]
  OBVIOUS
<1>1. k \in DOMAIN had => k \notin Put(Effective(statements, target))
  BY PutsAreNew DEF Put, Effective
<1> QED
  BY <1>1 DEF Outcome

(* Additive: the script drops nothing, and redefines nothing that was there   *)
(* when the target was read.                                                *)
THEOREM OnlyAdds == Spec => Additive
<1> DEFINE Keeps == \A k \in DOMAIN target :
                       /\ k \in DOMAIN target'
                       /\ k \in DOMAIN had => target'[k] = target[k]
<1>1. IInv /\ ApplyScript => Keeps
  BY KeepsWhatWasRead DEF ApplyScript, IInv, ScriptInv
<1>2. IInv /\ ApplyStatement => Keeps
  <2> SUFFICES ASSUME IInv, ApplyStatement PROVE Keeps
    OBVIOUS
  <2>1. PICK s \in script : target' = Outcome(target, {s})
    BY DEF ApplyStatement
  <2>2. script \subseteq Script
    BY DEF ApplyStatement, IInv, ScriptInv
  <2> QED
    BY <2>1, <2>2, KeepsWhatWasRead
<1> HIDE DEF Keeps
<1>3. IInv /\ [Next]_vars => [ApplyScript \/ ApplyStatement => Keeps]_vars
  BY <1>1, <1>2
<1>4. [][ApplyScript \/ ApplyStatement => Keeps]_vars => Additive
  BY PTL DEF Additive, Keeps
<1> QED
  BY <1>3, <1>4, InitIInv, NextIInv, PTL DEF Spec

(* The script is accepted by the target it was computed for. *)
LEMMA AcceptedAsRead ==
    ASSUME IInv, pc = "apply", Transactional, ~torn,
           OfKinds(target, KindsRead(engine)) = had
    PROVE  Accepts(target, script)
<1>1. script = Script /\ engine \in DOMAIN Queries
  BY EngineFacts DEF IInv, ScriptInv
<1>2. \A k \in DOMAIN target : k.kind \in KindsRead(engine) => k \in DOMAIN had
  BY DEF OfKinds
<1>3. KindsRead(engine) = Compared
  BY EngineFacts
<1> SUFFICES ASSUME NEW s \in Script,
                    NEW j \in Needs[engine][s.key], j \notin DOMAIN target
             PROVE  /\ s.key \notin DOMAIN target
                    /\ j \in Put(Effective({t \in Script : Precedes(t, s)}, target))
  <2>1. \A s \in Script : s.key \notin DOMAIN target
    BY <1>2, <1>3, AddedFacts
  <2> QED
    BY <1>1, <2>1 DEF Accepts
<1>4. s.key \in DOMAIN seen /\ s.key.kind \in Compared /\ s.key \notin DOMAIN target
  BY <1>2, <1>3, AddedFacts
<1>5. j \in DOMAIN seen /\ j.kind \in Compared
  BY <1>3, <1>4 DEF IInv, SeenInv, Sound
<1>6. j.kind \in Refers[s.key.kind]
  <2>1. s.key \in DOMAIN source
    BY <1>4 DEF IInv, SeenInv
  <2> QED
    BY <1>3, <1>4, <2>1, KeyFacts DEF IInv
<1>7. PICK t \in Script : j \in DOMAIN t.puts
  BY <1>1, <1>5 DEF IInv, ScriptInv, Covers
<1>8. t.key \notin DOMAIN target /\ t.key.kind \in Compared
  BY <1>2, <1>3, <1>7, AddedFacts
<1>9. t.key.kind \in Refers[s.key.kind]
  <2>1. CASE t.key = j
    BY <1>6, <2>1
  <2>2. CASE t.key # j
    <3>1. t.key.kind = "table" /\ j.kind \in {"column", "index"}
      BY <1>7, <2>2, AddedFacts, EngineFacts
    <3>2. s.key.kind \in DOMAIN Refers
      <4>1. s.key.kind \in KindsRead(engine)
        BY <1>3, <1>4
      <4> QED
        BY <4>1, KindsKnown, <1>1
    <3> QED
      BY <1>6, <3>1, <3>2 DEF Refers
  <2> QED
    BY <2>1, <2>2
<1>10. Precedes(t, s)
  BY <1>1, <1>4, <1>8, <1>9, RankFacts DEF Precedes
<1>11. ~Skips(target, t)
  BY <1>8 DEF Skips
<1> QED
  BY <1>4, <1>7, <1>10, <1>11 DEF Put, Effective

(* ScriptAccepted: on a target as it was read, no statement of the script    *)
(* meets an object that is there or misses one it refers to.                 *)
THEOREM AcceptedAsComputed == Spec => ScriptAccepted
<1>1. IInv /\ [Next]_vars =>
        [ScriptFails =>
           torn \/ OfKinds(target, UNION ToSet(Queries[engine])) # had]_vars
  <2> SUFFICES ASSUME IInv, ScriptFails, ~torn,
                      OfKinds(target, UNION ToSet(Queries[engine])) = had
               PROVE  FALSE
    OBVIOUS
  <2>1. pc = "apply" /\ Transactional /\ ~Accepts(target, script)
    BY DEF ScriptFails
  <2> QED
    BY <2>1, AcceptedAsRead DEF KindsRead
<1> QED
  BY <1>1, InitIInv, NextIInv, PTL DEF Spec, ScriptAccepted
=============================================================================
