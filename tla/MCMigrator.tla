----------------------------- MODULE MCMigrator -----------------------------
(***************************************************************************)
(* Instances of Migrator for TLC.  Migration 1 creates table t1, migration *)
(* 2 alters it, migration 3 creates t2; both statements of 2 and the       *)
(* second of the others are guarded (IF [NOT] EXISTS).                     *)
(***************************************************************************)
EXTENDS Migrator, TLC

CONSTANTS t1, t2, la, lb, lc

MCId == 1..3
MCGuarded == {<<1, 2>>, <<2, 1>>, <<2, 2>>, <<3, 2>>}
MCTableOf == 1 :> t1 @@ 2 :> t1 @@ 3 :> t2
MCCreators == {1, 3}
MCNameOf == 1 :> la @@ 2 :> lb @@ 3 :> la

(* Working copies: everyone on the trunk, at different commits ... *)
TrunkClones == {{}, {1}, {1, 2}, {1, 2, 3}}
(* ... or everyone with every file. *)
FullClone == {{1, 2, 3}}

ApplyOnly == {<<Latest>>}
(* apply, apply --to 0, --to <id>, --to <name>, --to <unknown>, and fresh *)
EveryCommand ==
    {<<Latest>>, <<Zero>>, <<2>>, <<la>>, <<lc>>, <<Zero, Latest>>}
ApplyAndFresh == {<<Latest>>, <<Zero, Latest>>}
=============================================================================
