--------------------------- MODULE InstallPipeline ---------------------------
(***************************************************************************)
(* What runs of setup.py leave on the machine, one after the other: the     *)
(* first installs Gluu, the later ones find gluu.properties and add         *)
(* services.  A run may fail between any two steps of an installer, and the *)
(* next one only sees what is on the disk and in the database: whether a    *)
(* service is installed is judged by a file (installed()), and what the     *)
(* configuration is by reading the entries of oxAuth and oxTrust.           *)
(*                                                                         *)
(* A step that fails half way is the same to later runs as one that fails  *)
(* at its end.                                                             *)
(***************************************************************************)
EXTENDS Naturals, Sequences

CONSTANTS
    Profile,      \* CE, or the hardened DISA_STIG
    Offered,      \* services the profile and the distribution offer
    MaxRuns,      \* at most so many runs
    MaxFailures   \* at most so many of them fail

oxAuth     == "oxauth"
oxTrust    == "identity"
Oxd        == "oxd-server"
Casa       == "casa"
Passport   == "passport"
RadiusBase == "radius-base"
Radius     == "gluu-radius"

\* Mistake: oxTrust is installed with the other web applications.
OrderOxTrustLate ==
    <<"httpd", oxAuth, "fido2", "scim", "idp", oxTrust, Oxd, Casa, Passport,
      RadiusBase, Radius>>

\* The order of install_services; the base of Radius is an installation of its
\* own, of every fresh machine.
Order ==
    <<"httpd", oxAuth, oxTrust, "fido2", "scim", "idp", Oxd, Casa, Passport,
      RadiusBase, Radius>>

CE        == "ce"
DISA_STIG == "disa-stig"

Installers == {"httpd", oxAuth, oxTrust, "fido2", "scim", "idp", Oxd, Casa, Passport,
               RadiusBase, Radius}

ASSUME OfferedAssumption == Offered \subseteq Installers \ {oxAuth, oxTrust, RadiusBase}
ASSUME ProfileAssumption == Profile \in {CE, DISA_STIG}
ASSUME BoundsAssumption  == MaxRuns \in Nat /\ MaxFailures \in Nat

VARIABLES
    gluu_properties,     \* gluu.properties is on the disk
    base_ldif,           \* the base entries are in the database
    files,               \* the services installed() answers True for
    imported,            \* how often the entries of an installer were imported
    enabled,             \* the services switched on in the database
    oxTrustConf,         \* the services whose settings the entry of oxTrust has
    oxAuthConf,          \* those whose settings oxAuth has, in its entry or oxauth.xml
    pc,                  \* "off" or where do_installation is
    installed_instance,
    asked,               \* what the user asked for at the prompts or in the form
    forced,              \* the --install-... arguments
    picked,              \* what install_services installs
    at,                  \* the installer it is at, as a position in Order
    stage,               \* the next stage of that installer
    runs, failures

machineVars == <<gluu_properties, base_ldif, files, imported, enabled, oxTrustConf,
                 oxAuthConf>>
programVars == <<installed_instance, asked, forced, picked>>
vars == <<machineVars, pc, programVars, at, stage, runs, failures>>

Init ==
    /\ gluu_properties = FALSE
    /\ base_ldif = FALSE
    /\ files = {}
    /\ imported = [s \in Installers |-> 0]
    /\ enabled = {} /\ oxTrustConf = {} /\ oxAuthConf = {}
    /\ pc = "off"
    /\ installed_instance = FALSE
    /\ asked = {} /\ forced = {} /\ picked = {}
    /\ at = 1 /\ stage = 1
    /\ runs = 0 /\ failures = 0

-----------------------------------------------------------------------------
(* The start of a run.                                                     *)

\* Mistake: the entries are imported before the files are unpacked.
StagesImportFirst(s) ==
    CASE s \in {"httpd", Oxd} -> <<"files">>
      [] s \in {oxAuth, oxTrust, "fido2", Radius} -> <<"import", "files">>
      [] s = Casa -> <<"oxauth", "import", "files">>
      [] s = RadiusBase -> <<"oxauth", "import", "files", "enable">>
      [] s = "scim" -> <<"import", "files", "oxtrust", "enable">>
      [] s \in {"idp", Passport} -> <<"import", "files", "enable", "oxtrust">>

\* Mistake: a service is switched on before its entries are imported.
StagesEnableEarly(s) ==
    CASE s \in {"httpd", Oxd} -> <<"files">>
      [] s \in {oxAuth, oxTrust, "fido2"} -> <<"files", "import">>
      [] s = Casa -> <<"files", "oxauth", "import">>
      [] s = RadiusBase -> <<"files", "oxauth", "enable", "import">>
      [] s \in {"scim", "idp", Passport} -> <<"files", "enable", "import", "oxtrust">>
      [] s = Radius -> <<"import", "files">>

\* Mistake: what a service needs of oxAuth is written in update_backend.
RadiusBaseStagesOxAuthLast == <<"files", "import", "enable", "oxauth">>

\* The stages of start_installation, and of install_gluu_radius, that leave
\* something: the file installed() looks for, what install() of Casa and of
\* Radius adds to oxauth.xml or to the entry of oxAuth, the entries of
\* render_import_templates, and what update_backend does: it switches the
\* service on and writes its settings into the entry of oxTrust.  An installer
\* without templates or without update_backend has fewer of them.
HttpdStages      == <<"files">>
OxauthStages     == <<"files", "import">>
OxtrustStages    == <<"files", "import">>
FidoStages       == <<"files", "import">>
ScimStages       == <<"files", "import", "oxtrust", "enable">>
SamlStages       == <<"files", "import", "enable", "oxtrust">>
OxdStages        == <<"files">>
CasaStages       == <<"files", "oxauth", "import">>
PassportStages   == <<"files", "import", "enable", "oxtrust">>
RadiusBaseStages == <<"files", "oxauth", "import", "enable">>
RadiusStages     == <<"import", "files">>

StagesOf(s) ==
    CASE s = "httpd"    -> HttpdStages
      [] s = oxAuth     -> OxauthStages
      [] s = oxTrust    -> OxtrustStages
      [] s = "fido2"    -> FidoStages
      [] s = "scim"     -> ScimStages
      [] s = "idp"      -> SamlStages
      [] s = Oxd        -> OxdStages
      [] s = Casa       -> CasaStages
      [] s = Passport   -> PassportStages
      [] s = RadiusBase -> RadiusBaseStages
      [] s = Radius     -> RadiusStages

HasStage(s, st) == \E i \in DOMAIN StagesOf(s) : StagesOf(s)[i] = st

\* The home directory of the user radius, created with the base, is the very
\* directory RadiusInstaller.installed looks for.
SeenAs(s) == IF s = RadiusBase THEN Radius ELSE s

BeginRun(fresh, a, f, p, label) ==
    /\ pc = "off" /\ runs < MaxRuns
    /\ runs' = runs + 1
    /\ installed_instance' = ~fresh
    /\ asked' = a /\ forced' = f /\ picked' = p
    /\ pc' = label
    /\ at' = 1 /\ stage' = 1
    /\ UNCHANGED <<machineVars, failures>>

\* Without gluu.properties everything is installed; oxTrust can be left out.
StartFresh ==
    /\ ~gluu_properties
    /\ \E optional \in SUBSET Offered, core \in {{oxAuth}, {oxAuth, oxTrust}} :
          BeginRun(TRUE, optional \cup core, {}, optional \cup core, "prepare")

\* Mistake: entries that are not found are passed over.
CollectableWithoutEntries == base_ldif

\* collect() reads the base entries and those of oxAuth and oxTrust, and dies
\* of any it does not find.
Collectable == base_ldif /\ imported[oxAuth] > 0 /\ imported[oxTrust] > 0

\* Mistake: Radius brings its base, as Casa brings oxd.
PickedWithRadiusBase(a, f) ==
    a \cup f \cup (IF Casa \in a \cup f /\ Oxd \notin files THEN {Oxd} ELSE {})
            \cup (IF Radius \in a \cup f THEN {RadiusBase} ELSE {})

\* What the console makes of the answers and of the arguments.  An argument is
\* taken whether or not its service is installed; Casa brings oxd.
PickedOnConsole(a, f) ==
    a \cup f \cup (IF Casa \in a \cup f /\ Oxd \notin files THEN {Oxd} ELSE {})

\* With gluu.properties services are added.  Only what installed() does not see
\* is asked for.  With nothing picked the program ends.
StartOnConsole ==
    /\ gluu_properties /\ Collectable
    /\ \E a \in SUBSET (Offered \ files), f \in SUBSET Offered :
          /\ a \cup f # {}
          /\ BeginRun(FALSE, a, f, PickedOnConsole(a, f), "services")

\* The wizard adds what is ticked (see SetupWizard), and reads no argument.
StartInWizard ==
    /\ gluu_properties /\ Collectable
    /\ \E a \in SUBSET (Offered \ files) :
          /\ a # {}
          /\ BeginRun(FALSE, a, {}, a, "services")

-----------------------------------------------------------------------------
(* prepare_for_installation.                                               *)

\* copy_output writes gluu.properties before any database is there.
CopyOutput ==
    /\ pc = "prepare"
    /\ gluu_properties' = TRUE
    /\ pc' = "backend"
    /\ UNCHANGED <<base_ldif, files, imported, enabled, oxTrustConf, oxAuthConf,
                   programVars, at, stage, runs, failures>>

InstallBackend ==
    /\ pc = "backend"
    /\ base_ldif' = TRUE
    /\ pc' = "services"
    /\ UNCHANGED <<gluu_properties, files, imported, enabled, oxTrustConf, oxAuthConf,
                   programVars, at, stage, runs, failures>>

-----------------------------------------------------------------------------
(* install_services.                                                       *)

Selected(s) ==
    \/ s \in picked
    \/ s = RadiusBase /\ ~installed_instance /\ Profile # DISA_STIG

Here == Order[at]
AtStage(st) ==
    /\ pc = "services" /\ at <= Len(Order)
    /\ Selected(Here)
    /\ stage <= Len(StagesOf(Here)) /\ StagesOf(Here)[stage] = st

\* Mistake: update_backend is left out, an installer ends with its entries.
AdvanceToImport ==
    IF stage < Len(StagesOf(Here)) /\ StagesOf(Here)[stage] # "import"
    THEN stage' = stage + 1 /\ at' = at
    ELSE stage' = 1 /\ at' = at + 1

Advance ==
    IF stage < Len(StagesOf(Here))
    THEN stage' = stage + 1 /\ at' = at
    ELSE stage' = 1 /\ at' = at + 1

SkipInstaller ==
    /\ pc = "services" /\ at <= Len(Order)
    /\ ~Selected(Here)
    /\ at' = at + 1
    /\ UNCHANGED <<machineVars, pc, programVars, stage, runs, failures>>

InstallFiles ==
    /\ AtStage("files")
    /\ files' = files \cup {SeenAs(Here)}
    /\ Advance
    /\ UNCHANGED <<gluu_properties, base_ldif, imported, enabled, oxTrustConf, oxAuthConf,
                   pc, programVars, runs, failures>>

ImportEntries ==
    /\ AtStage("import")
    /\ imported' = [imported EXCEPT ![Here] = @ + 1]
    /\ Advance
    /\ UNCHANGED <<gluu_properties, base_ldif, files, enabled, oxTrustConf, oxAuthConf,
                   pc, programVars, runs, failures>>

EnableService ==
    /\ AtStage("enable")
    /\ enabled' = enabled \cup {Here}
    /\ Advance
    /\ UNCHANGED <<gluu_properties, base_ldif, files, imported, oxTrustConf, oxAuthConf,
                   pc, programVars, runs, failures>>

\* get_oxTrustConfApplication finds no entry when oxTrust was left out: then
\* this cannot be done and the run can only fail.
UpdateOxTrust ==
    /\ AtStage("oxtrust")
    /\ imported[oxTrust] > 0
    /\ oxTrustConf' = oxTrustConf \cup {Here}
    /\ Advance
    /\ UNCHANGED <<gluu_properties, base_ldif, files, imported, enabled, oxAuthConf, pc,
                   programVars, runs, failures>>

\* Casa adds its libraries to the class path in oxauth.xml, Radius two settings
\* to the entry of oxAuth.
UpdateOxAuth ==
    /\ AtStage("oxauth")
    /\ IF Here = Casa THEN oxAuth \in files ELSE imported[oxAuth] > 0
    /\ oxAuthConf' = oxAuthConf \cup {Here}
    /\ Advance
    /\ UNCHANGED <<gluu_properties, base_ldif, files, imported, enabled, oxTrustConf, pc,
                   programVars, runs, failures>>

ServicesInstalled ==
    /\ pc = "services" /\ at > Len(Order)
    /\ pc' = "post_install"
    /\ UNCHANGED <<machineVars, programVars, at, stage, runs, failures>>

-----------------------------------------------------------------------------
(* The end of a run: nothing of the program is left.                       *)

ProgramEnds ==
    /\ pc' = "off"
    /\ installed_instance' = FALSE
    /\ asked' = {} /\ forced' = {} /\ picked' = {}
    /\ at' = 1 /\ stage' = 1
    /\ UNCHANGED <<machineVars, runs>>

PostInstall ==
    /\ pc = "post_install"
    /\ ProgramEnds
    /\ UNCHANGED failures

Fail ==
    /\ pc # "off" /\ failures < MaxFailures
    /\ failures' = failures + 1
    /\ ProgramEnds

Next ==
    \/ StartFresh
    \/ StartOnConsole
    \/ StartInWizard
    \/ CopyOutput
    \/ InstallBackend
    \/ SkipInstaller
    \/ InstallFiles
    \/ ImportEntries
    \/ EnableService
    \/ UpdateOxTrust
    \/ UpdateOxAuth
    \/ ServicesInstalled
    \/ PostInstall
    \/ Fail

Spec == Init /\ [][Next]_vars

-----------------------------------------------------------------------------
(* Properties.                                                             *)

\* Every variable keeps the values the code gives it.
TypeOK ==
    /\ gluu_properties \in BOOLEAN
    /\ base_ldif \in BOOLEAN
    /\ files \subseteq Installers
    /\ imported \in [Installers -> Nat]
    /\ enabled \subseteq Installers
    /\ oxTrustConf \subseteq Installers
    /\ oxAuthConf \subseteq Installers
    /\ pc \in {"off", "prepare", "backend", "services", "post_install"}
    /\ installed_instance \in BOOLEAN
    /\ asked \subseteq Installers
    /\ forced \subseteq Offered
    /\ picked \subseteq Installers \ {RadiusBase}
    /\ at \in 1..(Len(Order) + 1)
    /\ stage \in 1..4
    /\ runs \in 0..MaxRuns
    /\ failures \in 0..MaxFailures

\* However runs fail and are repeated, the entries of a service are imported a
\* second time only when an argument asks for the service: the file that
\* installed() looks for is there before the entries are.  install_gluu_radius
\* goes the other way round and is left out.
ImportedAgainOnlyIfForced ==
    [][\A s \in Installers \ {Radius} :
          imported[s] > 0 /\ imported'[s] # imported[s] => s \in forced]_vars

\* A service that is switched on in the database has its entries there, also
\* after a run that failed.
EnabledHasEntries == \A s \in enabled : imported[s] > 0

\* The order of install_services: when the update_backend of a service changes
\* the entry of oxTrust, oxTrust is installed, unless the user left it out.
OxTrustReady ==
    AtStage("oxtrust") /\ (oxTrust \in picked \/ installed_instance)
        => imported[oxTrust] > 0

\* What Casa and Radius need of oxAuth is there before any entry of theirs, also
\* after a run that failed.  Nothing would make up for it: the base of Radius is
\* only installed by the first run, and Casa is not offered twice.
OxAuthPrepared ==
    \A s \in Installers : HasStage(s, "oxauth") /\ imported[s] > 0 => s \in oxAuthConf

\* What a later run, and the user, take for installed.
Complete(s) ==
    /\ s \in files
    /\ HasStage(s, "import") => imported[s] > 0
    /\ HasStage(s, "enable") => s \in enabled
    /\ HasStage(s, "oxtrust") => s \in oxTrustConf
    /\ HasStage(s, "oxauth") => s \in oxAuthConf

\* When install_services returns, everything that was picked is complete.
PickedComplete == pc = "post_install" => \A s \in picked : Complete(s)

=============================================================================
