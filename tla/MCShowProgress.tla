--------------------------- MODULE MCShowProgress ---------------------------
(* The console with two runs: a fresh installation in which two services    *)
(* are installed in another order than they registered and gluu-radius only *)
(* has its base installed, and services added to an installed machine.     *)
EXTENDS ShowProgress

MCRegistered == <<
    Entry("jre", "APPLICATION"), Entry("jetty", "APPLICATION"),
    Entry("jython", "APPLICATION"), Entry("node", "APPLICATION"),
    Entry("opendj", "SERVICE"), Entry("oxauth", "SERVICE"),
    Entry("oxd-server", "SERVICE"), Entry("idp", "SERVICE"), Entry("casa", "SERVICE"),
    Entry("gluu-radius", "SERVICE"), Entry("post-setup", "APPLICATION") >>

MCFresh ==
    [wanted |-> {"jre", "jetty", "jython", "node", "opendj", "oxauth", "oxd-server", "idp"},
     script |-> << Message("gluu"), Message("jre"), Message("jetty"), Message("jython"),
                   Message("node"), Register("gluu"), Message("gluu"), Message("opendj"),
                   Message("oxauth"), Message("idp"),
                   Message("oxd-server"), Message("gluu-radius") >>]

MCAdding ==
    [wanted |-> {"casa", "gluu-radius"},
     script |-> << Message("gluu"), Message("casa"), Message("gluu-radius") >>]

MCRuns == {MCFresh, MCAdding}
=============================================================================
