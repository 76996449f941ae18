-------------------------------- MODULE MCTeam --------------------------------
(***************************************************************************)
(* Two developers and two tables, for TLC.                                  *)
(***************************************************************************)
EXTENDS TeamWorkflow

Col(n, type, nullable) ==
    [name |-> n, type |-> type, default |-> "none", nullable |-> nullable,
     identity |-> FALSE]
Id == [Col("id", "int", FALSE) EXCEPT !.identity = TRUE]

Table(n, columns) ==
    [name |-> n, columns |-> columns, pk |-> {"id"}, seedKey |-> {},
     fks |-> <<>>, indexes |-> <<>>, checks |-> <<>>, triggers |-> <<>>,
     seed |-> <<>>]

(* b refers to a, or does not. *)
Child == Table("b", <<Id, Col("pid", "int", TRUE)>>)

MCFileOrder == <<"a", "b">>
MCVersions ==
    [a |-> {NoFile, Table("a", <<Id>>),
            Table("a", <<Id, Col("x", "int", TRUE)>>),
            Table("a", <<Id, Col("x", "text", FALSE)>>)},
     b |-> {NoFile, Child,
            [Child EXCEPT
                !.fks = <<[name |-> "fk_b", on |-> "pid", to |-> "a",
                           action |-> "no_action"]>>,
                !.indexes = <<[name |-> "ux_b", on |-> "pid",
                               unique |-> TRUE]>>]}]

Gate(lint, strict, database) ==
    [lint |-> lint, strict |-> strict, database |-> database]

(* `molde ci` as it is, with all that can be asked of it, and the workflow   *)
(* that `molde init-team --ci github` writes.                               *)
MCGates ==
    {Gate("all", FALSE, FALSE), Gate("since", TRUE, TRUE),
     Gate("latest", FALSE, TRUE)}

ASSUME LintAssumption == LintCatches
ASSUME FilesAssumption == FilesRead
=============================================================================
