------------------------- MODULE MCInstallStepsForm -------------------------
(* The wizard installing a small machine, or adding casa to one.            *)
EXTENDS InstallStepsForm

MCRegistered == <<
    Entry("jre", "APPLICATION"), Entry("opendj", "SERVICE"), Entry("oxauth", "SERVICE"),
    Entry("casa", "SERVICE"), Entry("gluu-radius", "SERVICE"),
    Entry("post-setup", "APPLICATION") >>

MCRuns ==
    { [wanted |-> {"jre", "opendj", "oxauth"},
       script |-> << Message("gluu"), Message("jre"), Register("gluu"), Message("gluu"),
                     Message("opendj"), Message("oxauth"), Message("gluu-radius") >>],
      [wanted |-> {"casa"}, script |-> << Message("gluu"), Message("casa") >>] }
=============================================================================
