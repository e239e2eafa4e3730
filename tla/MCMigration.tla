----------------------------- MODULE MCMigration -----------------------------
(* Migration with every pair of scripts and two releases of the new server, *)
(* one before and one after the settings of 3.1.4.                          *)
EXTENDS Migration

MCReleases == AllReleases
MCOldVersions == {230, 243, 244, 300, 312}
MCOxVersions == {243, 244, 300, 312, 313, 314}
=============================================================================
