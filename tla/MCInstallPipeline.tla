-------------------------- MODULE MCInstallPipeline --------------------------
(* InstallPipeline with one service per way of installing it: the           *)
(* distribution has casa.war, and in the second set the oxd package too.   *)
EXTENDS InstallPipeline

MCOffered == {"scim", Casa, Passport, Radius}
MCOfferedWithOxd == {Oxd, Casa, Radius}
=============================================================================
