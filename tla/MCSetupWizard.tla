---------------------------- MODULE MCSetupWizard ----------------------------
(* SetupWizard with one check box per way a service is treated, and a       *)
(* backend of every family.                                                *)
EXTENDS SetupWizard

MCServices == {Saml, Oxd, Casa, "installScimServer"}
MCEnableAttrs == {Saml, "installScimServer"}
MCBackendList == {"Local OpenDj", "Remote Couchbase", "Local MySQL", "Cloud Spanner"}
MCModes == {"fresh", "loaded", "installed"}
=============================================================================
