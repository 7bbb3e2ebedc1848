----------------------------- MODULE MCMigrations -----------------------------
(* Instance of Migrations for TLC.  Release 1 has migrations 2 and 4; release *)
(* 2 merges a branch with migration 3 and an edited 2; release 3 has squashed *)
(* all three into migration 1.                                                *)
EXTENDS Migrations, TLC

MCReleases == <<(2 :> 1) @@ (4 :> 1), (2 :> 2) @@ (3 :> 1) @@ (4 :> 1), 1 :> 1>>
MCContent == (1 :> <<"a", "b", "c", "d">>) @@ (2 :> <<"a", "b">>) @@ (3 :> <<"c">>) @@ (4 :> <<"d">>)
MCReplaces == (1 :> {2, 3, 4}) @@ [m \in 2..4 |-> {}]
=============================================================================
