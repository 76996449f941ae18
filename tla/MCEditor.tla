------------------------------- MODULE MCEditor -------------------------------
(***************************************************************************)
(* Corpora for TLC: what the files of a models directory may hold.          *)
(***************************************************************************)
EXTENDS LanguageServer

Number == Field("int", FALSE, <<>>)
IntPk == Field("int", FALSE, "pk" :> "")
Text == Field("string", FALSE, <<>>)
Fk(columns, to, more) ==
    Line(4, to, Object(
        ("fk" :> columns
         @@ "references" :> [table |-> to, columns |-> <<"Id">>]) @@ more))

-----------------------------------------------------------------------------
(* Every sugar of the grammar, lines that do not parse (the second one is   *)
(* the first to be reported), and globals.                                  *)

Sugar ==
    <<Line(0, "#", NoValue),
      Line(0, "Client", NoValue),
      Line(2, "discriminator", Scalar("Kind")),
      Line(2, "fields", NoValue),
      Line(6, "Id", Field("int", FALSE, "pk" :> "key" @@ "identity" :> "")),
      Line(6, "Email", Field("string", TRUE, "unique" :> "" @@ "maxlen" :> 9)),
      Line(0, "", NoValue),
      Line(6, "Address", Fields(<<Item("City", Text), Item("Zip", Number)>>)),
      Line(6, "State", Field("enum", FALSE, "default" :> "'new'")),
      Line(6, "Spot", Field("point", FALSE, "clr" :> "Point")),
      Line(6, "Paid", Field("datetime", FALSE, "dbtype" :> "timestamp")),
      Line(2, "subtypes", NoValue),
      Line(4, "Firm", Fields(<<Item("Vat", Text), Item("Email", Text)>>)),
      Line(2, "triggers", NoValue),
      Line(4, "trg", NoValue),
      Line(8, "timing", Scalar("after")),
      Line(8, "sql", BlockMark),
      Line(12, "perform f()", NoValue),
      Line(2, "checks", NoValue),
      Line(4, "ck", Scalar("Id > 0")),
      Line(2, "seed", NoValue),
      Line(4, "-", Object("Id" :> 1))>>

Broken ==
    <<Line(0, "Client", NoValue),
      Line(2, "fields", NoValue),
      Line(4, "Id", IntPk),
      Line(2, "subtypes", NoValue),
      Line(4, "Firm",
           Fields(<<Item("Vat", Field("string", TRUE, "uniqe" :> ""))>>)),
      Line(2, "triggers", NoValue),
      Line(4, "trg", NoValue),
      Line(8, "timing", Scalar("afterwards"))>>

Globals ==
    <<Line(0, "functions", NoValue),
      Line(2, "f", BlockMark), Line(4, "select 1", NoValue),
      Line(0, "schema", Scalar("public")),
      Line(0, "extensions", List(<<"pg_trgm">>)),
      Line(0, "raw", NoValue),
      Line(2, "grants", BlockMark),
      Line(4, "grant all", NoValue), Line(4, "revoke all", NoValue)>>

SugarCorpus == "client" :> {Sugar, Broken} @@ DatabaseFile :> {Globals}

(* Foreign keys: opted out, covered by an index of another name or by the   *)
(* primary key, unique, indexed by convention, two on one column.           *)
LinesOf(more) ==
    <<Line(0, "Line", NoValue),
      Line(2, "fields", NoValue),
      Line(4, "OrderId", Number), Line(4, "No", Number),
      Line(4, "ItemId", more)>>

Keyed ==
    LinesOf(Number) \o
    <<Line(2, "key", Object("columns" :> <<"OrderId", "No">>)),
      Line(2, "belongs-to", NoValue),
      Fk(<<"OrderId">>, "Order", "onDelete" :> "cascade"),
      Fk(<<"ItemId">>, "Item", "index" :> FALSE),
      Fk(<<"No">>, "Numbers", "name" :> "fk_no"),
      Fk(<<"No">>, "Serial", <<>>)>>

Unique ==
    LinesOf(Field("int", TRUE, "unique" :> "")) \o
    <<Line(2, "belongs-to", NoValue),
      Fk(<<"ItemId">>, "Item", <<>>),
      Fk(<<"No">>, "Numbers", <<>>),
      Line(2, "indexes", NoValue),
      Line(4, "ix_no",
           Object("on" :> <<"No", "OrderId">> @@ "method" :> "gin"))>>

KeyCorpus == "line" :> {Keyed, Unique} @@ "item" :>
    {<<Line(0, "Item", NoValue), Line(2, "fields", NoValue),
       Line(4, "Id", IntPk), Line(2, "comment", Scalar("of a line")),
       Line(0, "Item", NoValue)>>}

(* A file is named as another one's table is. *)
TableIn(name, column) ==
    <<Line(0, name, NoValue), Line(2, "fields", NoValue),
      Line(4, column, IntPk)>>

AliasCorpus ==
    "a" :> {TableIn("t", "x"), TableIn("u", "x")}
    @@ "b" :> {TableIn("a", "y")}

MCCorpora == {SugarCorpus, KeyCorpus, AliasCorpus}

(* Globals with a view. *)
ViewCorpora ==
    {DatabaseFile :>
        {Globals,
         <<Line(0, "views", NoValue),
           Line(2, "v", BlockMark), Line(4, "select 2", NoValue)>>}}
=============================================================================
