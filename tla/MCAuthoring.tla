---------------------------- MODULE MCAuthoring -----------------------------
(***************************************************************************)
(* Instances of Authoring for TLC.                                          *)
(***************************************************************************)
EXTENDS Authoring

Col(n, type) == [name |-> n, type |-> type, default |-> "none"]

Table(n, columns) ==
    [name |-> n, columns |-> columns, pk |-> {"id"}, seedKey |-> {},
     fks |-> <<>>, indexes |-> <<>>, checks |-> <<>>, triggers |-> <<>>,
     seed |-> <<>>]

Model(tables) == [EmptyModel EXCEPT !.tables = tables]

A(type, rows) ==
    [Table("a", <<Col("id", "int"), Col("x", type)>>) EXCEPT !.seed = rows]
B == Table("b", <<Col("id", "int")>>)

(* Tables, columns, rows, a function with its trigger, a view. *)
MCModels ==
    {Model(<<A("int", <<>>)>>),
     Model(<<A("text", <<>>), B>>),
     Model(<<A("int", <<[id |-> 1, x |-> 1]>>)>>),
     [Model(<<[A("int", <<[id |-> 1, x |-> 2], [id |-> 2, x |-> 1]>>) EXCEPT
                  !.triggers = <<[name |-> "trg", calls |-> "f"]>>], B>>)
        EXCEPT !.functions = <<[name |-> "f", body |-> 1]>>],
     [Model(<<B>>) EXCEPT
        !.functions = <<[name |-> "f", body |-> 2]>>,
        !.views = <<[name |-> "v", of |-> [table |-> "b", column |-> "id"]]>>]}

(* These models, and what replaying the differences between them makes.     *)
MCReplays ==
    LET More(models) ==
            models \cup
            {Replay(p[1], Diff(p[2], k)) :
                p \in {q \in models \X models : Same(q[1], q[2])},
                k \in MCModels}
        start == MCModels \cup {EmptyModel} IN
    More(More(More(start)))

ASSUME ReplayAssumption == UpsLead(MCReplays) /\ DownsLead(MCReplays)
=============================================================================
