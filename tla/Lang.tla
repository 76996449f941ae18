-------------------------------- MODULE Lang --------------------------------
(***************************************************************************)
(* molde-lang: from the text of a .model file to the table or the globals  *)
(* it declares, and back to canonical text.                                *)
(*                                                                         *)
(* A text is a sequence of lines [indent, key, value]: the text before and *)
(* after the first ":".  A list item stands without its dash, a blank line  *)
(* has the key "" and a comment the key "#"; a line of SQL is a key alone.  *)
(* Values are tagged records, as the tokens and literals of value.rs are;   *)
(* quoting is left out.  A table's lists are sequences, as its Vecs are:    *)
(*   table   [name, schema, columns, pk, fks, indexes, checks, triggers,    *)
(*            seed, seedKey]                    pk      [name, columns]     *)
(*   column  [name, clr, type, nullable, identity, maxlen, default,         *)
(*            computed]: "type" is the store type, "" for none, as for clr  *)
(*   fk      [name, columns, to, toColumns, action]                         *)
(*   index   [name, columns, unique, method]   check   [name, expr]         *)
(*   trigger [name, timing, calls, sql]                                     *)
(* Collations, precisions, comments and the product version are left out; a *)
(* method stands for whatever makes an index more than its columns, and raw *)
(* statements have names.                                                   *)
(***************************************************************************)
EXTENDS Naturals, Sequences, SequencesExt

NoValue == [is |-> "nothing"]
BlockMark == [is |-> "block"]
Scalar(s) == [is |-> "scalar", text |-> s]
List(items) == [is |-> "list", items |-> items]
Object(map) == [is |-> "object", map |-> map]
(* `int? pk maxlen=5`; and `{a: int, b: text}`, a list of [name, value].    *)
Field(type, nullable, facets) ==
    [is |-> "field", type |-> type, nullable |-> nullable, facets |-> facets]
Fields(list) == [is |-> "fields", list |-> list]

Line(indent, key, value) == [indent |-> indent, key |-> key, value |-> value]
Item(n, value) == [name |-> n, value |-> value]

Map(F(_), seq) == [i \in DOMAIN seq |-> F(seq[i])]
Get(map, key, otherwise) == IF key \in DOMAIN map THEN map[key] ELSE otherwise

Parsed(x) == [ok |-> TRUE, value |-> x]
Failed(line) == [ok |-> FALSE, line |-> line]

-----------------------------------------------------------------------------
(* tree.rs: the nodes a text's indentation makes *)

Scan(text) ==
    SelectSeq([i \in DOMAIN text |-> ("no" :> i) @@ text[i]],
              LAMBDA l : l.key \notin {"", "#"})

(* Lines indented more than a line that ends in "|" are its block. *)
InBlockOf(lines, j, i) ==
    /\ j < i
    /\ lines[j].value = BlockMark
    /\ \A k \in (j + 1)..i : lines[k].indent > lines[j].indent

(* A file ends before the first line left of its first one.                 *)
Reached(lines) ==
    LET left == {i \in DOMAIN lines : lines[i].indent < lines[1].indent} IN
    IF left = {} THEN lines ELSE SubSeq(lines, 1, Min(left) - 1)

NodesOf(lines) ==
    {i \in DOMAIN lines : ~\E j \in DOMAIN lines : InBlockOf(lines, j, i)}

(* A node's parent is the last node before it that is indented less.        *)
ParentOf(lines, nodes) ==
    [i \in nodes |-> Max({0} \cup
        {j \in nodes : j < i /\ lines[j].indent < lines[i].indent})]

(* The children of a node follow it at one indentation, the first one's.    *)
Unexpected(lines, up) ==
    {i \in DOMAIN up :
        up[i] # 0 /\ lines[i].indent # lines[up[i] + 1].indent}

Linked(lines, up) ==
    LET those(P(_)) == SelectSeq([i \in DOMAIN lines |-> i], P)
        node[i \in DOMAIN up] ==
            [no |-> lines[i].no, key |-> lines[i].key,
             value |-> lines[i].value,
             block |-> Map(LAMBDA k : lines[k].key,
                           those(LAMBDA k : InBlockOf(lines, i, k))),
             children |-> Map(LAMBDA k : node[k],
                              those(LAMBDA k : k \in DOMAIN up /\ up[k] = i))]
    IN Map(LAMBDA k : node[k], those(LAMBDA k : k \in DOMAIN up /\ up[k] = 0))

TreeOf(lines, up) ==
    IF Unexpected(lines, up) # {}
    THEN Failed(lines[Min(Unexpected(lines, up))].no)
    ELSE Parsed(Linked(lines, up))

ParseLines(lines) == TreeOf(lines, ParentOf(lines, NodesOf(lines)))
ParseTree(text) == ParseLines(Reached(Scan(text)))

(* The children of every section with the key; those, and the value, of the *)
(* last one.                                                                *)
Under(nodes, key) ==
    FlattenSeq([i \in DOMAIN nodes |->
        IF nodes[i].key = key THEN nodes[i].children ELSE <<>>])
LastUnder(nodes, key) ==
    LET S == {i \in DOMAIN nodes : nodes[i].key = key} IN
    IF S = {} THEN <<>> ELSE nodes[Max(S)].children
ValueOf(nodes, key, otherwise) ==
    LET S == {i \in DOMAIN nodes : nodes[i].key = key} IN
    IF S = {} THEN otherwise ELSE nodes[Max(S)].value

-----------------------------------------------------------------------------
(* conventions.rs and types.rs *)

PkName(table) == "pk_" \o table
FkName(table, to) == "fk_" \o table \o "_" \o to
IndexName(table, columns) ==
    FoldLeft(LAMBDA s, c : s \o "_" \o c, "ix_" \o table, columns)

LogicalToClr ==
    [int |-> "Int32", long |-> "Int64", short |-> "Int16", byte |-> "Byte",
     bool |-> "Boolean", string |-> "String", decimal |-> "Decimal",
     double |-> "Double", float |-> "Single", datetime |-> "DateTime",
     datetimeoffset |-> "DateTimeOffset", date |-> "DateOnly",
     time |-> "TimeOnly", guid |-> "Guid", bytes |-> "Byte[]",
     json |-> "String"]

(* `json` is a name for input only. *)
Logicals(clr) ==
    {l \in DOMAIN LogicalToClr \ {"json"} : LogicalToClr[l] = clr}

-----------------------------------------------------------------------------
(* fk_index.rs: every foreign key has an index, unless it opts out *)

StartsWith(s, prefix) == IsPrefix(prefix, s)

ColumnsCovered(t, columns) ==
    \/ StartsWith(t.pk.columns, columns)
    \/ \E ix \in ToSet(t.indexes) : StartsWith(ix.columns, columns)

IsConventionalFkIndex(t, ix) ==
    /\ ~ix.unique
    /\ ix.method = ""
    /\ ix.name = IndexName(t.name, ix.columns)
    /\ \E fk \in ToSet(t.fks) : fk.columns = ix.columns

Synthesize(t, optedOut) ==
    LET wants(i) == i \notin optedOut /\ ~ColumnsCovered(t, t.fks[i].columns)
        first(i) == \A j \in 1..(i - 1) :
                        wants(j) => t.fks[j].columns # t.fks[i].columns
        new == SelectSeq([i \in DOMAIN t.fks |-> i],
                         LAMBDA i : wants(i) /\ first(i)) IN
    [t EXCEPT !.indexes = @ \o Map(LAMBDA i :
        [name |-> IndexName(t.name, t.fks[i].columns),
         columns |-> t.fks[i].columns, unique |-> FALSE, method |-> ""], new)]

-----------------------------------------------------------------------------
(* parse.rs *)

Facets == {"pk", "identity", "unique", "stored", "maxlen", "default",
           "computed", "dbtype", "clr", "as"}
Actions == {"no_action", "restrict", "cascade", "set_null", "set_default"}
Timings == {"before", "after", "instead_of"}

(* A column to be, with its "pk" and "unique" facets. *)
ParseColumn(n, v, forceNullable) ==
    LET type == IF v.type = "enum" THEN Get(v.facets, "as", "string")
                ELSE v.type
        logical == type \in DOMAIN LogicalToClr IN
    [column |->
        [name |-> n,
         clr |-> Get(v.facets, "clr",
                     IF logical THEN LogicalToClr[type] ELSE ""),
         type |-> Get(v.facets, "dbtype", IF logical THEN "" ELSE type),
         nullable |-> v.nullable \/ forceNullable,
         identity |-> "identity" \in DOMAIN v.facets,
         maxlen |-> Get(v.facets, "maxlen", 0),
         default |-> Get(v.facets, "default", "none"),
         computed |-> Get(v.facets, "computed", "none")],
     pk |-> Get(v.facets, "pk", "no"),     \* "" is the conventional name
     unique |-> "unique" \in DOMAIN v.facets]

(* An owned type gives a column for each of its fields. *)
ParseField(n, v, forceNullable) ==
    IF v.is = "fields"
    THEN Map(LAMBDA f : ParseColumn(n \o "_" \o f.name, f.value, FALSE),
             v.list)
    ELSE <<ParseColumn(n, v, forceNullable)>>

BadField(v) ==
    IF v.is = "fields"
    THEN \E f \in ToSet(v.list) : DOMAIN f.value.facets \ Facets # {}
    ELSE v.is # "field" \/ DOMAIN v.facets \ Facets # {}

BadForeignKey(v) ==
    \/ v.is # "object"
    \/ ~({"fk", "references"} \subseteq DOMAIN v.map)
    \/ Get(v.map, "onDelete", "no_action") \notin Actions

(* A node's children of the key; the first one's value. *)
Child(node, key) == SelectSeq(node.children, LAMBDA c : c.key = key)
ChildValue(node, key, otherwise) ==
    IF Child(node, key) = <<>> THEN otherwise ELSE Child(node, key)[1].value

(* A trigger without a timing is refused at its line, a timing at its own.   *)
BadTrigger(node) ==
    LET timing == Child(node, "timing") IN
    IF timing = <<>> THEN {node.no}
    ELSE IF timing[1].value.text \in Timings THEN {} ELSE {timing[1].no}

Sections ==
    {"clr", "schema", "comment", "discriminator", "fields", "key",
     "belongs-to", "indexes", "triggers", "checks", "seed", "seed-key",
     "subtypes"}

(* The lines an entity's sections are refused at. *)
BadLines(header) ==
    {s.no : s \in {x \in ToSet(header.children) :
        x.key \notin Sections \/ (x.key = "key" /\ x.value.is # "object")}}
    \cup {n.no : n \in {x \in ToSet(Under(header.children, "fields")) :
                            BadField(x.value)}}
    \cup {n.no : n \in {x \in ToSet(Under(header.children, "belongs-to")) :
                            BadForeignKey(x.value)}}
    \cup {n.no : n \in {x \in ToSet(Under(header.children, "indexes")
                                    \o Under(header.children, "seed")) :
                            x.value.is # "object"}}
    \cup UNION {BadTrigger(n) : n \in ToSet(Under(header.children, "triggers"))}

(* The lines the subtypes' fields are, when all sections have been read. *)
BadSubtypes(header) ==
    {n.no : n \in {x \in ToSet(LastUnder(header.children, "subtypes")) :
                      \E f \in ToSet(x.value.list) : BadField(f.value)}}

ParseFk(table, node) ==
    LET map == node.value.map IN
    [name |-> Get(map, "name", FkName(table, map.references.table)),
     columns |-> map.fk,
     to |-> map.references.table,
     toColumns |-> map.references.columns,
     action |-> Get(map, "onDelete", "no_action")]

ParseIndex(node) ==
    [name |-> node.key, columns |-> Get(node.value.map, "on", <<>>),
     unique |-> Get(node.value.map, "unique", FALSE),
     method |-> Get(node.value.map, "method", "")]

ParseTrigger(node) ==
    LET sql == Child(node, "sql") IN
    [name |-> node.key,
     timing |-> ChildValue(node, "timing", NoValue).text,
     calls |-> ChildValue(node, "function", Scalar("")).text,
     sql |-> IF sql = <<>> THEN <<>> ELSE sql[1].block]

ColumnsNamed(builds) == {b.column.name : b \in ToSet(builds)}

WithDiscriminator(builds, d) ==
    IF d \in {""} \cup ColumnsNamed(builds) THEN builds
    ELSE Append(builds, ParseColumn(d, Field("string", FALSE, <<>>), FALSE))

(* The columns of the fields, the discriminator and the subtypes.           *)
ColumnsOf(sections) ==
    FoldLeft(LAMBDA builds, b :
                 IF b.column.name \in ColumnsNamed(builds) THEN builds
                 ELSE Append(builds, b),
        WithDiscriminator(
            FlattenSeq(Map(LAMBDA n : ParseField(n.key, n.value, FALSE),
                           Under(sections, "fields"))),
            ValueOf(sections, "discriminator", Scalar("")).text),
        FlattenSeq(Map(LAMBDA n :
            Map(LAMBDA f : ParseColumn(f.name, f.value, TRUE), n.value.list),
            LastUnder(sections, "subtypes"))))

(* The key's section, or the columns with a "pk" facet. *)
PrimaryKey(table, key, keyed) ==
    LET named == SelectSeq(keyed, LAMBDA b : b.pk # "") IN
    IF key # NoValue
    THEN [name |-> Get(key.map, "name", PkName(table)),
          columns |-> key.map.columns]
    ELSE [name |-> IF named = <<>> THEN PkName(table) ELSE Last(named).pk,
          columns |-> Map(LAMBDA b : b.column.name, keyed)]

UniqueIndexes(table, builds) ==
    Map(LAMBDA b : [name |-> IndexName(table, <<b.column.name>>),
                    columns |-> <<b.column.name>>, unique |-> TRUE,
                    method |-> ""],
        SelectSeq(builds, LAMBDA b : b.unique))

BuildTable(table, s, builds) ==
    [name |-> table,
     schema |-> ValueOf(s, "schema", Scalar("")).text,
     columns |-> Map(LAMBDA b : b.column, builds),
     pk |-> PrimaryKey(table, ValueOf(s, "key", NoValue),
                       SelectSeq(builds, LAMBDA b : b.pk # "no")),
     fks |-> Map(LAMBDA n : ParseFk(table, n), Under(s, "belongs-to")),
     indexes |-> Map(ParseIndex, Under(s, "indexes"))
                 \o UniqueIndexes(table, builds),
     checks |-> Map(LAMBDA n : [name |-> n.key, expr |-> n.value.text],
                    Under(s, "checks")),
     triggers |-> Map(ParseTrigger, Under(s, "triggers")),
     seed |-> Map(LAMBDA n : n.value.map, Under(s, "seed")),
     seedKey |-> ValueOf(s, "seed-key", List(<<>>)).items]

OptedOut(belongs) ==
    {i \in DOMAIN belongs : ~Get(belongs[i].value.map, "index", TRUE)}

TableOf(header) ==
    Synthesize(
        BuildTable(IF header.value.is = "scalar" THEN header.value.text
                   ELSE header.key,
                   header.children, ColumnsOf(header.children)),
        OptedOut(Under(header.children, "belongs-to")))

EntityOf(tree) ==
    IF ~tree.ok THEN tree
    ELSE IF tree.value = <<>> THEN Failed(0)
    ELSE IF Len(tree.value) > 1 THEN Failed(tree.value[2].no)
    ELSE IF BadLines(tree.value[1]) # {}
    THEN Failed(Min(BadLines(tree.value[1])))
    ELSE IF BadSubtypes(tree.value[1]) # {}
    THEN Failed(Min(BadSubtypes(tree.value[1])))
    ELSE Parsed(TableOf(tree.value[1]))

ParseEntity(text) == EntityOf(ParseTree(text))

NoGlobals ==
    [schema |-> "", extensions |-> <<>>, functions |-> <<>>, raw |-> <<>>,
     views |-> <<>>]

GlobalsOf(tree) ==
    LET bad == {n.no : n \in {x \in ToSet(tree.value) :
                                 x.key \notin DOMAIN NoGlobals}}
        blocks(key) == Map(LAMBDA n : [name |-> n.key, sql |-> n.block],
                           Under(tree.value, key)) IN
    IF ~tree.ok THEN tree
    ELSE IF bad # {} THEN Failed(Min(bad))
    ELSE Parsed(
        [schema |-> ValueOf(tree.value, "schema", Scalar("")).text,
         extensions |-> ValueOf(tree.value, "extensions", List(<<>>)).items,
         functions |-> blocks("functions"), raw |-> blocks("raw"),
         views |-> blocks("views")])

ParseDatabase(text) == GlobalsOf(ParseTree(text))

-----------------------------------------------------------------------------
(* emit.rs *)

Section(key, lines) ==
    IF lines = <<>> THEN <<>> ELSE <<Line(2, key, NoValue)>> \o lines
Optional(key, text) ==
    IF text = "" THEN <<>> ELSE <<Line(2, key, Scalar(text))>>
Block(indent, sql) == Map(LAMBDA s : Line(indent, s, NoValue), sql)

When(cond, key, value) == IF cond THEN key :> value ELSE <<>>

(* Represented as a `unique` facet on its column. *)
IsInlineUnique(t, ix) ==
    /\ ix.unique
    /\ Len(ix.columns) = 1
    /\ ix.method = ""
    /\ ix.name = IndexName(t.name, ix.columns)

EmitField(t, c) ==
    LET logical == Logicals(c.clr)
        isPk == t.pk.columns = <<c.name>>
        unique == \E ix \in ToSet(t.indexes) :
                      IsInlineUnique(t, ix) /\ ix.columns[1] = c.name
        type == IF logical # {} THEN CHOOSE l \in logical : TRUE
                ELSE IF c.type # "" THEN c.type ELSE "string" IN
    Line(4, c.name, Field(type, c.nullable,
        When(isPk, "pk", IF t.pk.name = PkName(t.name) THEN "" ELSE t.pk.name)
        @@ When(c.identity, "identity", "")
        @@ When(unique, "unique", "")
        @@ When(c.maxlen # 0, "maxlen", c.maxlen)
        @@ When(c.default # "none", "default", c.default)
        @@ When(c.computed # "none", "computed", c.computed)
        @@ When(logical # {} /\ c.type # "", "dbtype", c.type)
        @@ When(logical = {} /\ c.clr # "", "clr", c.clr)))

(* Mutant: an opt-out is not written. *)
EmitFkBare(t, fk) ==
    Line(4, fk.to, Object(
        "fk" :> fk.columns
        @@ "references" :> [table |-> fk.to, columns |-> fk.toColumns]
        @@ When(fk.action # "no_action", "onDelete", fk.action)
        @@ When(fk.name # FkName(t.name, fk.to), "name", fk.name)))

EmitFk(t, fk) ==
    Line(4, fk.to, Object(
        "fk" :> fk.columns
        @@ "references" :> [table |-> fk.to, columns |-> fk.toColumns]
        @@ When(fk.action # "no_action", "onDelete", fk.action)
        @@ When(fk.name # FkName(t.name, fk.to), "name", fk.name)
        @@ When(~ColumnsCovered(t, fk.columns), "index", FALSE)))

EmitIndex(ix) ==
    Line(4, ix.name, Object("on" :> ix.columns
        @@ When(ix.unique, "unique", TRUE)
        @@ When(ix.method # "", "method", ix.method)))

EmitTrigger(g) ==
    <<Line(4, g.name, NoValue), Line(8, "timing", Scalar(g.timing))>>
    \o (IF g.calls = "" THEN <<>>
        ELSE <<Line(8, "function", Scalar(g.calls))>>)
    \o <<Line(8, "sql", BlockMark)>> \o Block(10, g.sql)

EmitEntity(t) ==
    <<Line(0, t.name, NoValue)>>
    \o Optional("schema", t.schema)
    \o <<Line(2, "fields", NoValue)>>
    \o Map(LAMBDA c : EmitField(t, c), t.columns)
    \o (IF Len(t.pk.columns) <= 1 THEN <<>>
        ELSE <<Line(2, "key", Object("columns" :> t.pk.columns
                 @@ When(t.pk.name # PkName(t.name), "name", t.pk.name)))>>)
    \o Section("belongs-to", Map(LAMBDA fk : EmitFk(t, fk), t.fks))
    \o Section("indexes",
         Map(EmitIndex, SelectSeq(t.indexes, LAMBDA ix :
            ~IsInlineUnique(t, ix) /\ ~IsConventionalFkIndex(t, ix))))
    \o Section("checks",
         Map(LAMBDA ck : Line(4, ck.name, Scalar(ck.expr)), t.checks))
    \o Section("triggers", FlattenSeq(Map(EmitTrigger, t.triggers)))
    \o (IF t.seedKey = <<>> THEN <<>>
        ELSE <<Line(2, "seed-key", List(t.seedKey))>>)
    \o Section("seed", Map(LAMBDA r : Line(4, "-", Object(r)), t.seed))

EmitDatabase(g) ==
    LET blocks(key, list) ==
            IF list = <<>> THEN <<>>
            ELSE <<Line(0, key, NoValue)>>
                 \o FlattenSeq(Map(LAMBDA f :
                        <<Line(2, f.name, BlockMark)>> \o Block(6, f.sql),
                        list)) IN
    (IF g.schema = "" THEN <<>> ELSE <<Line(0, "schema", Scalar(g.schema))>>)
    \o (IF g.extensions = <<>> THEN <<>>
        ELSE <<Line(0, "extensions", List(g.extensions))>>)
    \o blocks("functions", g.functions)
    \o blocks("raw", g.raw)
    \o blocks("views", g.views)

-----------------------------------------------------------------------------
(* fmt.rs, and what a file means *)

DatabaseFile == "database"

Meaning(file, text) ==
    IF file = DatabaseFile THEN ParseDatabase(text) ELSE ParseEntity(text)

(* The globals are copied one by one into the model that is emitted.        *)
Emitted(file, read) ==
    IF ~read.ok THEN read
    ELSE Parsed(
        IF file = DatabaseFile THEN EmitDatabase([read.value EXCEPT !.views = <<>>])
        ELSE EmitEntity(read.value))

FormatModel(file, text) == Emitted(file, Meaning(file, text))
=============================================================================
