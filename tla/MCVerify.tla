------------------------------- MODULE MCVerify -------------------------------
(***************************************************************************)
(* Families of models for TLC, one for each engine.  What an engine does     *)
(* not give back as it got it is left out of its family: the README lists it.*)
(***************************************************************************)
EXTENDS Verify

MCTableOrder == <<"a", "b">>

Col(n, clr) ==
    [name |-> n, clr |-> clr, type |-> "", nullable |-> FALSE,
     identity |-> FALSE, maxlen |-> 0, default |-> "none",
     computed |-> "none"]

(* `int pk identity`: PostgreSQL and SQL Server store an identity column of   *)
(* any other type as an integer too, and verify reports it for ever.        *)
Id == [Col("id", "Int32") EXCEPT !.identity = TRUE]

Table(n, columns) ==
    [name |-> n, schema |-> "", columns |-> columns,
     pk |-> [name |-> PkName(n), columns |-> <<"id">>],
     fks |-> <<>>, indexes |-> <<>>, checks |-> <<>>, triggers |-> <<>>,
     seed |-> <<>>, seedKey |-> <<>>]

Ix(n, columns, unique, method) ==
    [name |-> n, columns |-> columns, unique |-> unique, method |-> method]
Referrer(action, optedOut) ==
    Synthesize([Table("b", <<Id, Col("pid", "Int32")>>) EXCEPT
        !.fks = <<[name |-> FkName("b", "a"), columns |-> <<"pid">>,
                   to |-> "a", toColumns |-> <<"id">>, action |-> action]>>],
        optedOut)

ModelOf(tables) ==
    [schema |-> "", tables |-> tables, functions |-> <<>>,
     extensions |-> <<>>, views |-> <<>>, raw |-> <<>>]

Name(maxlen, nullable) ==
    [Col("x", "String") EXCEPT !.maxlen = maxlen, !.nullable = nullable]

(* One column of each type the engine gives back. *)
Typed(clrs) ==
    ModelOf(<<Table("a", <<Id>> \o Map(LAMBDA c : Col(c, c), clrs))>>)

Lossless ==
    [postgres |-> <<"Int16", "Int32", "Int64", "Boolean", "Single", "Double",
                   "Decimal", "DateTime", "DateTimeOffset", "DateOnly",
                   "TimeOnly", "Guid", "Byte[]">>,
     mysql |-> <<"Int16", "Int32", "Int64", "Boolean", "Single", "Double",
                "Decimal", "DateTime", "DateTimeOffset", "Byte[]">>,
     sqlserver |-> <<"Int16", "Int32", "Int64", "Boolean", "Single", "Double",
                    "Decimal", "DateTime", "DateTimeOffset", "Guid", "Byte[]">>,
     sqlite |-> <<"Int16", "Int32", "Int64", "Boolean", "Single", "Double",
                 "Decimal", "DateTime", "DateOnly", "Guid", "Byte[]">>]

Default(engine) == IF engine = "sqlserver" THEN "none" ELSE "0"

(* Tables, columns, keys and indexes come and go; a column's type changes.   *)
Plain(engine) ==
    <<ModelOf(<<Table("a", <<Id, Name(0, FALSE)>>)>>),
     ModelOf(<<Table("a", <<Id, Name(9, TRUE)>>), Referrer("cascade", {})>>),
     ModelOf(<<[Table("a", <<Id, [Col("x", "Int32") EXCEPT
                                   !.default = Default(engine)]>>) EXCEPT
                 !.indexes = <<Ix("ix_a_x", <<"x">>, TRUE, "")>>],
             Referrer("no_action", IF engine = "mysql" THEN {} ELSE {1})>>)>>

(* What PostgreSQL alone reads back. *)
Objects(expr, sql) ==
    [ModelOf(<<[Table("a", <<Id, Name(0, FALSE)>>) EXCEPT
                 !.indexes = <<Ix("ix_a", <<"x", "id">>, FALSE, "gin")>>,
                 !.checks = <<[name |-> "ck_a", expr |-> expr]>>,
                 !.triggers = <<[name |-> "trg", timing |-> "after",
                                 calls |-> "public.f",
                                 sql |-> <<"CREATE TRIGGER", sql>>]>>]>>)
        EXCEPT !.functions = <<[name |-> "public.f", sql |-> <<sql>>]>>,
               !.views = <<[name |-> "public.v", sql |-> <<sql>>]>>,
               !.extensions = <<"pg_trgm">>]

Engines == <<"postgres", "mysql", "sqlserver", "sqlite">>

MCFamilies ==
    Map(LAMBDA e : [engine |-> e, models |-> Plain(e)], Engines)
    \o Map(LAMBDA e : [engine |-> e, models |->
                         <<ModelOf(<<>>), Typed(Lossless[e])>>], Engines)
    \o <<[engine |-> "postgres", models |->
            <<ModelOf(<<>>), Objects("x > 0", "s1"), Objects("x > 1", "s2")>>]>>
=============================================================================
