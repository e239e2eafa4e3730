----------------------------- MODULE SetupWizard -----------------------------
(***************************************************************************)
(* The installation wizard: the forms of setup_app/utils/tui.py and        *)
(* PropertiesUtils.check_properties, which the last form calls.            *)
(*                                                                         *)
(* Every form writes its answers into the one mutable Config object, and   *)
(* the user may go Back and Next any number of times, so what is installed *)
(* at the end is the residue of every visit to every form.  One action     *)
(* stands for one press of a button; the text fields and the connection    *)
(* tests behind a press are abstracted to whether the press is refused.    *)
(*                                                                         *)
(* The program is started in one of three modes:                           *)
(*   "fresh"      nothing is installed, the wizard starts at MAIN          *)
(*   "loaded"     a setup.properties file was read, the wizard starts at   *)
(*                the summary, whose Back button is hidden                 *)
(*   "installed"  gluu.properties exists, the wizard starts at             *)
(*                ServicesForm and only adds services                      *)
(***************************************************************************)

CONSTANTS
    Services,        \* the check boxes of ServicesForm
    EnableAttrs,     \* the services named in service_enable_dict
    BackendList,     \* what get_backend_list offers
    Modes            \* the modes a run starts in

Saml == "installSaml"
Oxd  == "installOxd"
Casa == "installCasa"

OpenDj    == {"Local OpenDj", "Remote OpenDj"}
Couchbase == {"Local Couchbase", "Remote Couchbase"}
MySql     == {"Local MySQL", "Remote MySQL"}
PgSql     == {"Local PgSQL", "Remote PgSQL"}
Spanner   == {"Cloud Spanner", "Spanner Emulator"}
BackendStrings == OpenDj \cup Couchbase \cup MySql \cup PgSql \cup Spanner

ASSUME ServicesAssumption == {Saml, Oxd, Casa} \subseteq Services
ASSUME AttrsAssumption    == EnableAttrs \subseteq Services
ASSUME BackendAssumption  == BackendList \subseteq BackendStrings
ASSUME ModesAssumption    == Modes \subseteq {"fresh", "loaded", "installed"}

InstallTypes == {"NONE", "LOCAL", "REMOTE"}
RdbmTypes    == {"mysql", "pgsql", "spanner"}
Locations    == {"ldap", "couchbase", "rdbm"}
PersistenceTypes == {"ldap", "couchbase", "sql", "spanner", "hybrid"}

InstallType(b) ==
    IF b \in {"Local OpenDj", "Local Couchbase", "Local MySQL", "Local PgSQL"}
    THEN "LOCAL" ELSE "REMOTE"

DBForms == {"DBLDAPForm", "DBCBForm", "DBRDBMForm", "DBSpannerForm"}
Forms == {"MAIN", "HostForm", "ServicesForm", "DBBackendForm",
          "DisplaySummaryForm", "InstallStepsForm", "Exit"} \cup DBForms

VARIABLES
    mode,               \* how the program was started
    form,               \* the form on the screen
    present,            \* services found installed when the program started
    config,             \* services whose install flag is true in Config
    locked,             \* ServicesForm.services_before_this_form, not editable
    addPostSetupService,
    enabled,            \* services whose service_enable_dict attributes are 'true'
    oxd_server_https,   \* "none", "local" (this host) or "checked" (a tested URL)
    oxd_use_gluu_storage,
    backend_type_str,   \* the last backend chosen in DBBackendForm
    ldap_install, cb_install, rdbm_install, rdbm_install_type, rdbm_type,
    mappingLocations,   \* the set of locations some group of entries maps to
    persistence_type

serviceVars == <<config, locked, addPostSetupService, enabled,
                 oxd_server_https, oxd_use_gluu_storage>>
backendVars == <<ldap_install, cb_install, rdbm_install, rdbm_install_type, rdbm_type>>
storageVars == <<mappingLocations, persistence_type>>
vars == <<mode, form, present, serviceVars, backend_type_str, backendVars, storageVars>>

installed_instance == mode = "installed"

-----------------------------------------------------------------------------
(* The states the program starts in.                                       *)

Backend(ldap, cb, rdbm, rkind, rtype, locs, ptype) ==
    [ldap |-> ldap, cb |-> cb, rdbm |-> rdbm, rkind |-> rkind, rtype |-> rtype,
     locs |-> locs, ptype |-> ptype]

\* get_setup_options: no argument, --local-couchbase, --remote-couchbase, a
\* local or a remote rdbm; Config keeps its default mapping and persistence.
ArgumentBackends ==
    { Backend("LOCAL", "NONE",   FALSE, "NONE",   "mysql",   {"ldap"}, "ldap"),
      Backend("LOCAL", "LOCAL",  FALSE, "NONE",   "mysql",   {"ldap"}, "ldap"),
      Backend("NONE",  "REMOTE", FALSE, "NONE",   "mysql",   {"ldap"}, "ldap"),
      Backend("NONE",  "NONE",   TRUE,  "LOCAL",  "pgsql",   {"ldap"}, "ldap"),
      Backend("NONE",  "NONE",   TRUE,  "REMOTE", "spanner", {"ldap"}, "ldap") }

\* What collect() finds on an installed machine.
InstalledBackends ==
    { Backend("LOCAL", "NONE",   FALSE, "NONE",   "mysql",   {"ldap"},      "ldap"),
      Backend("NONE",  "LOCAL",  FALSE, "NONE",   "mysql",   {"couchbase"}, "couchbase"),
      Backend("NONE",  "NONE",   TRUE,  "LOCAL",  "pgsql",   {"rdbm"},      "sql"),
      Backend("NONE",  "NONE",   TRUE,  "REMOTE", "spanner", {"rdbm"},      "spanner") }

\* What load_properties leaves: a saved installation of any kind.
LoadedBackends == InstalledBackends \cup
    { Backend("LOCAL", "LOCAL",  FALSE, "NONE",   "mysql", {"ldap", "couchbase"}, "hybrid") }

InitialBackends(m) ==
    CASE m = "fresh"     -> ArgumentBackends
      [] m = "installed" -> InstalledBackends
      [] m = "loaded"    -> LoadedBackends

FirstForm(m) ==
    CASE m = "fresh"     -> "MAIN"
      [] m = "installed" -> "ServicesForm"
      [] m = "loaded"    -> "DisplaySummaryForm"

\* The flags of Config come from the arguments or the file; on an installed
\* machine each is overwritten with installer.installed().  get_setup_options
\* drops --install-shib next to a remote Spanner.
Init ==
    /\ mode \in Modes
    /\ form = FirstForm(mode)
    /\ config \in SUBSET Services
    /\ \E b \in InitialBackends(mode) :
          /\ ldap_install = b.ldap
          /\ cb_install = b.cb
          /\ rdbm_install = b.rdbm
          /\ rdbm_install_type = b.rkind
          /\ rdbm_type = b.rtype
          /\ mappingLocations = b.locs
          /\ persistence_type = b.ptype
          /\ (mode = "fresh" /\ b.rtype = "spanner") => Saml \notin config
    /\ present = (IF mode = "installed" THEN config ELSE {})
    /\ locked = present
    /\ addPostSetupService = {}
    /\ enabled = {}
    /\ oxd_server_https = "none"
    /\ oxd_use_gluu_storage = FALSE
    /\ backend_type_str = "none"

-----------------------------------------------------------------------------
(* MAIN and HostForm: the license box and the host data.                   *)

Goto(f) == form' = f

MainNext ==
    /\ form = "MAIN"
    /\ Goto("HostForm")
    /\ UNCHANGED <<mode, present, serviceVars, backend_type_str, backendVars, storageVars>>

\* Mistake: entering the form starts a new list of services to add.
EnterServicesFormAnew ==
    /\ Goto("ServicesForm")
    /\ locked' = IF installed_instance THEN locked \cup config ELSE locked
    /\ addPostSetupService' = {}
    /\ UNCHANGED config

\* ServicesForm.do_beforeEditing: on an installed machine the boxes of the
\* services whose flag is true can no longer be edited.
EnterServicesForm ==
    /\ Goto("ServicesForm")
    /\ locked' = IF installed_instance THEN locked \cup config ELSE locked
    /\ UNCHANGED <<config, addPostSetupService>>

\* nextButtonPressed of HostForm, once its fields are valid.
HostNext ==
    /\ form = "HostForm"
    /\ EnterServicesForm
    /\ UNCHANGED <<mode, present, enabled, oxd_server_https, oxd_use_gluu_storage,
                   backend_type_str, backendVars, storageVars>>

HostBack ==
    /\ form = "HostForm"
    /\ Goto("MAIN")
    /\ UNCHANGED <<mode, present, serviceVars, backend_type_str, backendVars, storageVars>>

-----------------------------------------------------------------------------
(* ServicesForm.                                                           *)

\* Mistake: every box stays editable.
TickableUnlocked == SUBSET Services

\* The boxes the user can have ticked: locked ones stay ticked, and with
\* Spanner behind an installed machine the box of the IDP is not editable.
Tickable ==
    { t \in SUBSET Services :
        /\ locked \subseteq t
        /\ (installed_instance /\ rdbm_type = "spanner" /\ Saml \in t) => Saml \in locked }

\* The first loop of nextButtonPressed: it runs before any check of the form.
RecordTicks(t) ==
    /\ addPostSetupService' =
          IF installed_instance THEN addPostSetupService \cup (t \ config)
                                ELSE addPostSetupService
    /\ config' = t
    /\ enabled' = enabled \cup (t \cap EnableAttrs)

NeedsOxdUrl(t) == Casa \in t /\ Oxd \notin t

\* Nothing to add on an installed machine: the user is asked whether to leave.
ServicesNothingPicked ==
    /\ form = "ServicesForm"
    /\ \E t \in Tickable :
          /\ RecordTicks(t)
          /\ installed_instance /\ addPostSetupService' = {}
    /\ form' \in {"ServicesForm", "Exit"}
    /\ UNCHANGED <<mode, present, locked, oxd_server_https, oxd_use_gluu_storage,
                   backend_type_str, backendVars, storageVars>>

\* Casa without oxd, and no URL, or a URL that does not answer or whose
\* certificate does not match: a warning, and the form stays.
ServicesCasaRefused ==
    /\ form = "ServicesForm"
    /\ \E t \in Tickable :
          /\ RecordTicks(t)
          /\ ~(installed_instance /\ addPostSetupService' = {})
          /\ NeedsOxdUrl(t)
    /\ UNCHANGED <<mode, form, present, locked, oxd_server_https, oxd_use_gluu_storage,
                   backend_type_str, backendVars, storageVars>>

\* calculate_selected_aplications_memory returns True whatever the selection,
\* so the memory warning is not a guard here.
ServicesNext ==
    /\ form = "ServicesForm"
    /\ \E t \in Tickable, checkedUrl, gluuStorage \in BOOLEAN :
          /\ RecordTicks(t)
          /\ ~(installed_instance /\ addPostSetupService' = {})
          /\ NeedsOxdUrl(t) => checkedUrl
          /\ oxd_server_https' =
                IF NeedsOxdUrl(t) THEN "checked"
                ELSE IF Oxd \in t \/ oxd_server_https = "none" THEN "local"
                ELSE oxd_server_https
          /\ oxd_use_gluu_storage' =
                (oxd_use_gluu_storage \/ (Oxd \in t \ locked /\ gluuStorage))
    /\ Goto(IF installed_instance THEN "DisplaySummaryForm" ELSE "DBBackendForm")
    /\ UNCHANGED <<mode, present, locked, backend_type_str, backendVars, storageVars>>

ServicesBack ==
    /\ form = "ServicesForm" /\ ~installed_instance
    /\ Goto("HostForm")
    /\ UNCHANGED <<mode, present, serviceVars, backend_type_str, backendVars, storageVars>>

-----------------------------------------------------------------------------
(* DBBackendForm: one action per branch of nextButtonPressed.              *)

Chosen(b) ==
    /\ form = "DBBackendForm"
    /\ backend_type_str' = b
    /\ UNCHANGED <<mode, present, serviceVars, storageVars>>

\* A local OpenDJ needs its ports; otherwise a warning, and the form stays.
OpenDjPortsUsed ==
    /\ "Local OpenDj" \in BackendList
    /\ Chosen("Local OpenDj")
    /\ UNCHANGED <<form, backendVars>>

ChooseOpenDj(b) ==
    /\ Chosen(b)
    /\ ldap_install' = InstallType(b)
    /\ cb_install' = "NONE"
    /\ rdbm_install' = FALSE
    /\ Goto("DBLDAPForm")
    /\ UNCHANGED <<rdbm_install_type, rdbm_type>>

ChooseCouchbase(b) ==
    /\ Chosen(b)
    /\ ldap_install' = "NONE"
    /\ cb_install' = InstallType(b)
    /\ rdbm_install' = FALSE
    /\ Goto("DBCBForm")
    /\ UNCHANGED <<rdbm_install_type, rdbm_type>>

\* cb_install is left as it was.
ChooseRdbm(b) ==
    /\ Chosen(b)
    /\ ldap_install' = "NONE"
    /\ rdbm_install' = TRUE
    /\ rdbm_install_type' = InstallType(b)
    /\ rdbm_type' = IF b \in MySql THEN "mysql" ELSE "pgsql"
    /\ Goto("DBRDBMForm")
    /\ UNCHANGED cb_install

\* Mistake: the warning about the IDP does not stop the user.
SpannerAlwaysAllowed == TRUE

SpannerAllowed == Saml \notin config

ChooseSpanner(b) ==
    /\ Chosen(b)
    /\ SpannerAllowed
    /\ ldap_install' = "NONE"
    /\ rdbm_install' = TRUE
    /\ rdbm_install_type' = "REMOTE"
    /\ rdbm_type' = "spanner"
    /\ Goto("DBSpannerForm")
    /\ UNCHANGED cb_install

SpannerRefused(b) ==
    /\ Chosen(b)
    /\ ~SpannerAllowed
    /\ UNCHANGED <<form, backendVars>>

DBBackendNext ==
    \/ \E b \in BackendList \cap OpenDj : ChooseOpenDj(b)
    \/ \E b \in BackendList \cap Couchbase : ChooseCouchbase(b)
    \/ \E b \in BackendList \cap (MySql \cup PgSql) : ChooseRdbm(b)
    \/ \E b \in BackendList \cap Spanner : ChooseSpanner(b)
    \/ \E b \in BackendList \cap Spanner : SpannerRefused(b)
    \/ OpenDjPortsUsed

DBBackendBack ==
    /\ form = "DBBackendForm"
    /\ EnterServicesForm
    /\ UNCHANGED <<mode, present, enabled, oxd_server_https, oxd_use_gluu_storage,
                   backend_type_str, backendVars, storageVars>>

-----------------------------------------------------------------------------
(* DBLDAPForm, DBCBForm, DBRDBMForm and DBSpannerForm: fields and a         *)
(* connection test.  A refused press leaves everything here as it is.      *)

DBFormNext ==
    /\ form \in DBForms
    /\ Goto("DisplaySummaryForm")
    /\ UNCHANGED <<mode, present, serviceVars, backend_type_str, backendVars, storageVars>>

DBFormBack ==
    /\ form \in DBForms
    /\ Goto("DBBackendForm")
    /\ UNCHANGED <<mode, present, serviceVars, backend_type_str, backendVars, storageVars>>

-----------------------------------------------------------------------------
(* DisplaySummaryForm: Back is hidden when a file was loaded.  The branch   *)
(* to StorageSelectionForm needs LDAP next to Couchbase, which no choice of *)
(* DBBackendForm leaves.                                                    *)

SummaryBackFresh ==
    /\ form = "DisplaySummaryForm" /\ mode = "fresh"
    /\ ~(ldap_install # "NONE" /\ cb_install # "NONE")
    /\ Goto("DBBackendForm")
    /\ UNCHANGED <<mode, present, serviceVars, backend_type_str, backendVars, storageVars>>

\* On an installed machine the form registered as MAIN is ServicesForm.
SummaryBackInstalled ==
    /\ form = "DisplaySummaryForm" /\ installed_instance
    /\ EnterServicesForm
    /\ UNCHANGED <<mode, present, enabled, oxd_server_https, oxd_use_gluu_storage,
                   backend_type_str, backendVars, storageVars>>

\* Mistake: only Couchbase moves the entries away from LDAP.
MappingIgnoresRdbm ==
    IF ldap_install = "NONE" /\ cb_install # "NONE" THEN {"couchbase"} ELSE mappingLocations

\* check_properties: where each group of entries is stored.
Mapping ==
    IF ldap_install # "NONE" THEN mappingLocations
    ELSE IF rdbm_install THEN {"rdbm"}
    ELSE IF cb_install # "NONE" THEN {"couchbase"}
    ELSE mappingLocations

\* Mistake: the branch of sql names the location instead of the type.
PersistenceNamedAsLocation ==
    IF ldap_install = "NONE" /\ rdbm_install /\ cb_install = "NONE" /\ rdbm_type # "spanner"
    THEN "rdbm" ELSE persistence_type

\* Mistake: the branch of Spanner comes first, whatever is installed.
PersistenceSpannerFirst ==
    IF rdbm_type = "spanner" THEN "spanner"
    ELSE IF ldap_install # "NONE" /\ cb_install = "NONE" /\ ~rdbm_install THEN "ldap"
    ELSE IF ldap_install = "NONE" /\ ~rdbm_install THEN "couchbase"
    ELSE IF ldap_install = "NONE" /\ cb_install = "NONE" THEN "sql"
    ELSE IF ldap_install # "NONE" /\ cb_install # "NONE" THEN "hybrid"
    ELSE persistence_type

\* Mistake: Spanner is one more sql database.
PersistenceWithoutSpanner ==
    IF ldap_install = "NONE" /\ rdbm_install /\ cb_install = "NONE" THEN "sql"
    ELSE persistence_type

\* set_persistence_type: the first branch that applies.
PersistenceType ==
    LET ldap == ldap_install # "NONE"
        cb   == cb_install # "NONE"
    IN  IF ldap /\ ~cb /\ ~rdbm_install THEN "ldap"
        ELSE IF ~ldap /\ ~rdbm_install /\ cb THEN "couchbase"
        ELSE IF rdbm_type = "spanner" THEN "spanner"
        ELSE IF ~ldap /\ rdbm_install /\ ~cb THEN "sql"
        ELSE IF ldap /\ cb THEN "hybrid"
        ELSE persistence_type

\* check_properties exits when a new local OpenDJ finds its ports in use.
SummaryPortsUsed ==
    /\ form = "DisplaySummaryForm"
    /\ ldap_install = "LOCAL" /\ ~installed_instance
    /\ Goto("Exit")
    /\ mappingLocations' = Mapping
    /\ UNCHANGED <<mode, present, serviceVars, backend_type_str, backendVars,
                   persistence_type>>

SummaryNext ==
    /\ form = "DisplaySummaryForm"
    /\ Goto("InstallStepsForm")
    /\ mappingLocations' = Mapping
    /\ persistence_type' = PersistenceType
    /\ oxd_server_https' = IF oxd_server_https = "none" THEN "local" ELSE oxd_server_https
    /\ UNCHANGED <<mode, present, config, locked, addPostSetupService, enabled,
                   oxd_use_gluu_storage, backend_type_str, backendVars>>

\* The Quit button, on every form.
Quit ==
    /\ form # "Exit"
    /\ Goto("Exit")
    /\ UNCHANGED <<mode, present, serviceVars, backend_type_str, backendVars, storageVars>>

Next ==
    \/ MainNext
    \/ HostNext
    \/ HostBack
    \/ ServicesNothingPicked
    \/ ServicesCasaRefused
    \/ ServicesNext
    \/ ServicesBack
    \/ DBBackendNext
    \/ DBBackendBack
    \/ DBFormNext
    \/ DBFormBack
    \/ SummaryBackFresh
    \/ SummaryBackInstalled
    \/ SummaryPortsUsed
    \/ SummaryNext
    \/ Quit

Spec == Init /\ [][Next]_vars

-----------------------------------------------------------------------------
(* Properties.                                                             *)

\* Every variable keeps the values the code gives it.
TypeOK ==
    /\ mode \in Modes
    /\ form \in Forms
    /\ present \subseteq Services
    /\ config \subseteq Services
    /\ locked \subseteq Services
    /\ addPostSetupService \subseteq Services
    /\ enabled \subseteq Services
    /\ oxd_server_https \in {"none", "local", "checked"}
    /\ oxd_use_gluu_storage \in BOOLEAN
    /\ backend_type_str \in BackendStrings \cup {"none"}
    /\ ldap_install \in InstallTypes
    /\ cb_install \in InstallTypes
    /\ rdbm_install \in BOOLEAN
    /\ rdbm_install_type \in InstallTypes
    /\ rdbm_type \in RdbmTypes
    /\ mappingLocations \subseteq Locations
    /\ persistence_type \in PersistenceTypes

\* A service found on an installed machine is never put on the list of the
\* services to add, however often the user leaves and returns to the form:
\* installing it again would import its entries a second time.
NoReinstall == installed_instance => addPostSetupService \cap present = {}

\* What the summary of an installed machine shows as new is on the list that
\* install_services walks, and its service_enable_dict attributes are set.
PickedServicesInstalled ==
    installed_instance /\ form \in {"DisplaySummaryForm", "InstallStepsForm"} =>
        /\ config \ present \subseteq addPostSetupService
        /\ (config \ present) \cap EnableAttrs \subseteq enabled

\* Shibboleth and Spanner never meet through the forms: a fresh installation
\* does not start with both, and an installed machine on Spanner is not given
\* the IDP, although services and backend are chosen on different forms that
\* can be revisited in any order.
NoSamlOnSpanner ==
    form = "InstallStepsForm" /\ rdbm_install /\ rdbm_type = "spanner" =>
        /\ mode = "fresh" => Saml \notin config
        /\ mode = "installed" => Saml \notin addPostSetupService

\* Past ServicesForm, Casa that is ticked has its oxd: one installed with it
\* or one at a URL that was tested.
CasaHasOxd ==
    mode # "loaded" /\ Casa \in config
        /\ form \in {"DBBackendForm", "DisplaySummaryForm", "InstallStepsForm"} \cup DBForms
    => Oxd \in config \/ oxd_server_https = "checked"

\* When the installation starts, every location some group of entries maps to
\* has a backend that is installed or reached.
LocationsServed ==
    form = "InstallStepsForm" =>
        /\ "ldap" \in mappingLocations => ldap_install # "NONE"
        /\ "couchbase" \in mappingLocations => cb_install # "NONE"
        /\ "rdbm" \in mappingLocations => rdbm_install

\* The backends that will be installed.
InstallTargets ==
    { l \in Locations : \/ l = "ldap" /\ ldap_install # "NONE"
                        \/ l = "couchbase" /\ cb_install # "NONE"
                        \/ l = "rdbm" /\ rdbm_install }

\* The persistence type written to gluu.properties is that of the backend the
\* user ended with, whatever was chosen before and abandoned with Back.  The
\* branches of the relational databases leave cb_install as an earlier choice
\* set it, so that two backends may be left: then nothing is said.
PersistenceMatchesBackend ==
    form = "InstallStepsForm" =>
        /\ InstallTargets = {"ldap"} => persistence_type = "ldap"
        /\ InstallTargets = {"couchbase"} => persistence_type = "couchbase"
        /\ InstallTargets = {"rdbm"} =>
              persistence_type = IF rdbm_type = "spanner" THEN "spanner" ELSE "sql"

\* The summary lists the relational database by rdbm_install_type but the
\* installers go by rdbm_install: what is installed is always listed.
SummaryShowsDatabase ==
    form = "DisplaySummaryForm" /\ rdbm_install => rdbm_install_type # "NONE"

\* Adding services to an installed machine never moves its data: neither the
\* backends, nor the mapping, nor the persistence type changes in any step.
PostSetupKeepsStorage == [][installed_instance => UNCHANGED <<backendVars, storageVars>>]_vars

=============================================================================
