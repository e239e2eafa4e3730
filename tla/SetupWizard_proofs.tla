------------------------- MODULE SetupWizard_proofs -------------------------
(***************************************************************************)
(* Proofs of the properties of SetupWizard, for every set of check boxes,   *)
(* of backends and of modes.                                               *)
(*                                                                         *)
(* IInv is the inductive invariant.  Each of its parts says what the user   *)
(* cannot have undone on the way to the form that is on the screen: which   *)
(* forms a mode can show, what is true of the lists of services whenever    *)
(* ServicesForm may be entered again, and which backends a mode can have.   *)
(***************************************************************************)
EXTENDS SetupWizard, TLAPS

USE DEF installed_instance

\* The forms a mode can show.
FormsOfMode ==
    /\ mode = "installed" =>
          form \in {"ServicesForm", "DisplaySummaryForm", "InstallStepsForm", "Exit"}
    /\ mode = "loaded" => form \in {"DisplaySummaryForm", "InstallStepsForm", "Exit"}

\* On an installed machine: what was found stays locked and ticked, everything
\* else that is ticked is on the list of the services to add with its
\* attributes set, and the IDP is not newly ticked on Spanner.
ListsOfInstalled ==
    mode = "installed" =>
        /\ present \subseteq locked
        /\ locked \subseteq config
        /\ config \ present \subseteq addPostSetupService
        /\ addPostSetupService \cap present = {}
        /\ addPostSetupService \cap EnableAttrs \subseteq enabled
        /\ rdbm_type = "spanner" => Saml \notin addPostSetupService

\* Once a backend has been chosen on a fresh machine, Spanner excludes the IDP.
SpannerWithoutSaml ==
    mode = "fresh" /\ form \in {"DisplaySummaryForm", "InstallStepsForm"} \cup DBForms
        /\ rdbm_install /\ rdbm_type = "spanner"
    => Saml \notin config

\* There is always a backend; a database always has a kind of installation.
SomeBackend ==
    /\ ldap_install # "NONE" \/ cb_install # "NONE" \/ rdbm_install
    /\ rdbm_install => rdbm_install_type # "NONE"

\* The mapping is that of the mode until the summary is confirmed.
MappingServed ==
    /\ mode = "fresh" /\ form \notin {"InstallStepsForm", "Exit"} =>
          mappingLocations = {"ldap"}
    /\ mode # "fresh" \/ form = "InstallStepsForm" =>
          /\ "ldap" \in mappingLocations => ldap_install # "NONE"
          /\ "couchbase" \in mappingLocations => cb_install # "NONE"
          /\ "rdbm" \in mappingLocations => rdbm_install

\* An installed machine has one of four kinds of storage.
StorageOfInstalled ==
    mode = "installed" =>
        \/ /\ ldap_install = "LOCAL" /\ cb_install = "NONE" /\ ~rdbm_install
           /\ rdbm_type = "mysql"
           /\ mappingLocations = {"ldap"} /\ persistence_type = "ldap"
        \/ /\ ldap_install = "NONE" /\ cb_install = "LOCAL" /\ ~rdbm_install
           /\ rdbm_type = "mysql"
           /\ mappingLocations = {"couchbase"} /\ persistence_type = "couchbase"
        \/ /\ ldap_install = "NONE" /\ cb_install = "NONE" /\ rdbm_install
           /\ rdbm_type = "pgsql"
           /\ mappingLocations = {"rdbm"} /\ persistence_type = "sql"
        \/ /\ ldap_install = "NONE" /\ cb_install = "NONE" /\ rdbm_install
           /\ rdbm_type = "spanner"
           /\ mappingLocations = {"rdbm"} /\ persistence_type = "spanner"

IInv ==
    /\ TypeOK
    /\ FormsOfMode
    /\ ListsOfInstalled
    /\ SpannerWithoutSaml
    /\ SomeBackend
    /\ MappingServed
    /\ StorageOfInstalled
    /\ CasaHasOxd
    /\ PersistenceMatchesBackend

LEMMA InitIInv == Init => IInv
<1> SUFFICES ASSUME Init PROVE IInv
  OBVIOUS
<1>1. PICK b \in InitialBackends(mode) :
        /\ ldap_install = b.ldap
        /\ cb_install = b.cb
        /\ rdbm_install = b.rdbm
        /\ rdbm_install_type = b.rkind
        /\ rdbm_type = b.rtype
        /\ mappingLocations = b.locs
        /\ persistence_type = b.ptype
        /\ (mode = "fresh" /\ b.rtype = "spanner") => Saml \notin config
  BY DEF Init
<1>2. mode \in {"fresh", "loaded", "installed"}
  BY ModesAssumption DEF Init
<1>3. TypeOK
  <2>1. b \in ArgumentBackends \cup LoadedBackends
    BY <1>2 DEF InitialBackends, LoadedBackends
  <2>2. /\ ldap_install \in InstallTypes
        /\ cb_install \in InstallTypes
        /\ rdbm_install_type \in InstallTypes
        /\ rdbm_type \in RdbmTypes
        /\ mappingLocations \subseteq Locations
        /\ persistence_type \in PersistenceTypes
    BY <1>1, <2>1 DEF ArgumentBackends, InstalledBackends, LoadedBackends, Backend,
       InstallTypes, RdbmTypes, Locations, PersistenceTypes
  <2>3. rdbm_install \in BOOLEAN
    <3>1. b.rdbm = TRUE \/ b.rdbm = FALSE
      BY <2>1 DEF ArgumentBackends, InstalledBackends, LoadedBackends, Backend
    <3> QED
      BY <1>1, <3>1, Zenon
  <2>4. /\ mode \in Modes
        /\ form \in Forms
        /\ present \subseteq Services /\ config \subseteq Services /\ locked \subseteq Services
        /\ addPostSetupService \subseteq Services /\ enabled \subseteq Services
        /\ oxd_server_https \in {"none", "local", "checked"}
        /\ oxd_use_gluu_storage \in BOOLEAN
        /\ backend_type_str \in BackendStrings \cup {"none"}
    BY <1>2 DEF Init, FirstForm, Forms
  <2> QED
    BY <2>2, <2>3, <2>4 DEF TypeOK
<1>4. FormsOfMode /\ ListsOfInstalled /\ SpannerWithoutSaml /\ CasaHasOxd
        /\ PersistenceMatchesBackend
  BY <1>2 DEF Init, FormsOfMode, ListsOfInstalled, SpannerWithoutSaml, CasaHasOxd,
     PersistenceMatchesBackend, FirstForm, DBForms
<1>5. SomeBackend /\ MappingServed /\ StorageOfInstalled
  BY <1>1, <1>2 DEF Init, SomeBackend, MappingServed, StorageOfInstalled, InitialBackends,
     ArgumentBackends, InstalledBackends, LoadedBackends, Backend, FirstForm
<1> QED
  BY <1>3, <1>4, <1>5 DEF IInv

-----------------------------------------------------------------------------
(* Every step keeps IInv.                                                  *)

LEMMA NextTypeOK == TypeOK /\ [Next]_vars => TypeOK'
<1> SUFFICES ASSUME TypeOK, [Next]_vars PROVE TypeOK'
  OBVIOUS
<1> USE DEF TypeOK, Forms, DBForms, Goto, serviceVars, backendVars, storageVars
<1>1. CASE MainNext \/ HostBack \/ ServicesBack \/ DBFormNext \/ DBFormBack
             \/ SummaryBackFresh \/ Quit
  BY <1>1 DEF MainNext, HostBack, ServicesBack, DBFormNext, DBFormBack, SummaryBackFresh, Quit
<1>2. CASE HostNext \/ DBBackendBack \/ SummaryBackInstalled
  BY <1>2 DEF HostNext, DBBackendBack, SummaryBackInstalled, EnterServicesForm
<1>3. CASE ServicesNothingPicked \/ ServicesCasaRefused \/ ServicesNext
  BY <1>3 DEF ServicesNothingPicked, ServicesCasaRefused, ServicesNext, RecordTicks, Tickable
<1>4. ASSUME NEW b \in BackendList, ChooseOpenDj(b) \/ ChooseCouchbase(b) PROVE TypeOK'
  BY <1>4, BackendAssumption DEF ChooseOpenDj, ChooseCouchbase, Chosen, InstallType, InstallTypes
<1>5. ASSUME NEW b \in BackendList, ChooseRdbm(b) PROVE TypeOK'
  BY <1>5, BackendAssumption DEF ChooseRdbm, Chosen, InstallType, InstallTypes, RdbmTypes
<1>6. ASSUME NEW b \in BackendList, ChooseSpanner(b) \/ SpannerRefused(b) PROVE TypeOK'
  BY <1>6, BackendAssumption DEF ChooseSpanner, SpannerRefused, Chosen, InstallTypes, RdbmTypes
<1>7. CASE OpenDjPortsUsed
  BY <1>7, BackendAssumption DEF OpenDjPortsUsed, Chosen, BackendStrings, OpenDj
<1>8. CASE SummaryPortsUsed
  BY <1>8 DEF SummaryPortsUsed, Mapping, Locations
<1>9. CASE SummaryNext
  BY <1>9 DEF SummaryNext, Mapping, Locations, PersistenceType, PersistenceTypes
<1>10. CASE UNCHANGED vars
  BY <1>10 DEF vars
<1> QED
  BY <1>1, <1>2, <1>3, <1>4, <1>5, <1>6, <1>7, <1>8, <1>9, <1>10 DEF Next, DBBackendNext

\* Forms, lists and storage of the modes that cannot choose a backend.
LEMMA NextInstalled ==
    ASSUME IInv, [Next]_vars
    PROVE  FormsOfMode' /\ ListsOfInstalled' /\ StorageOfInstalled'
<1> USE DEF IInv, TypeOK, FormsOfMode, ListsOfInstalled, StorageOfInstalled, Goto,
            serviceVars, backendVars, storageVars, DBForms
<1>1. CASE MainNext \/ HostBack \/ ServicesBack \/ DBFormNext \/ DBFormBack
             \/ SummaryBackFresh \/ Quit
  BY <1>1 DEF MainNext, HostBack, ServicesBack, DBFormNext, DBFormBack, SummaryBackFresh, Quit
<1>2. CASE HostNext \/ DBBackendBack \/ SummaryBackInstalled
  BY <1>2 DEF HostNext, DBBackendBack, SummaryBackInstalled, EnterServicesForm
<1>3. CASE ServicesNothingPicked \/ ServicesCasaRefused \/ ServicesNext
  <2>1. PICK t \in Tickable : RecordTicks(t)
    BY <1>3 DEF ServicesNothingPicked, ServicesCasaRefused, ServicesNext
  <2>2. UNCHANGED <<mode, present, locked, backendVars, storageVars>>
    BY <1>3 DEF ServicesNothingPicked, ServicesCasaRefused, ServicesNext
  <2>3. form = "ServicesForm"
          /\ (mode = "installed" => form' \in {"ServicesForm", "DisplaySummaryForm", "Exit"})
    BY <1>3 DEF ServicesNothingPicked, ServicesCasaRefused, ServicesNext
  <2>4. FormsOfMode'
    BY <2>2, <2>3
  <2>5. StorageOfInstalled'
    BY <2>2
  <2>6. ListsOfInstalled'
    BY <2>1, <2>2 DEF RecordTicks, Tickable
  <2> QED
    BY <2>4, <2>5, <2>6
<1>4. CASE DBBackendNext
  BY <1>4 DEF DBBackendNext, ChooseOpenDj, ChooseCouchbase, ChooseRdbm, ChooseSpanner,
     SpannerRefused, OpenDjPortsUsed, Chosen
<1>5. CASE SummaryPortsUsed
  BY <1>5 DEF SummaryPortsUsed, Mapping
<1>6. CASE SummaryNext
  BY <1>6 DEF SummaryNext, Mapping, PersistenceType
<1>7. CASE UNCHANGED vars
  BY <1>7 DEF vars
<1> QED
  BY <1>1, <1>2, <1>3, <1>4, <1>5, <1>6, <1>7 DEF Next

\* What a fresh machine may choose, and what the choice leads to.
LEMMA NextBackends ==
    ASSUME IInv, [Next]_vars
    PROVE  SpannerWithoutSaml' /\ SomeBackend' /\ MappingServed' /\ PersistenceMatchesBackend'
<1> USE DEF IInv, TypeOK, FormsOfMode, SpannerWithoutSaml, SomeBackend, MappingServed, Goto,
            PersistenceMatchesBackend, InstallTargets, Locations,
            serviceVars, backendVars, storageVars, DBForms
<1>0. form = "DBBackendForm" => mode = "fresh"
  BY ModesAssumption
<1>1. CASE MainNext \/ HostBack \/ ServicesBack \/ DBFormNext \/ DBFormBack
             \/ SummaryBackFresh \/ Quit
  BY <1>1 DEF MainNext, HostBack, ServicesBack, DBFormNext, DBFormBack, SummaryBackFresh, Quit
<1>2. CASE HostNext \/ DBBackendBack \/ SummaryBackInstalled
  BY <1>2 DEF HostNext, DBBackendBack, SummaryBackInstalled, EnterServicesForm
<1>3. CASE ServicesNothingPicked \/ ServicesCasaRefused \/ ServicesNext
  BY <1>3 DEF ServicesNothingPicked, ServicesCasaRefused, ServicesNext
<1>4. ASSUME NEW b \in BackendList, ChooseOpenDj(b) \/ ChooseCouchbase(b)
      PROVE  SpannerWithoutSaml' /\ SomeBackend' /\ MappingServed' /\ PersistenceMatchesBackend'
  BY <1>0, <1>4 DEF ChooseOpenDj, ChooseCouchbase, Chosen, InstallType
<1>5. ASSUME NEW b \in BackendList, ChooseRdbm(b)
      PROVE  SpannerWithoutSaml' /\ SomeBackend' /\ MappingServed' /\ PersistenceMatchesBackend'
  BY <1>0, <1>5 DEF ChooseRdbm, Chosen, InstallType
<1>6. ASSUME NEW b \in BackendList, ChooseSpanner(b) \/ SpannerRefused(b)
      PROVE  SpannerWithoutSaml' /\ SomeBackend' /\ MappingServed' /\ PersistenceMatchesBackend'
  BY <1>0, <1>6 DEF ChooseSpanner, SpannerRefused, SpannerAllowed, Chosen
<1>7. CASE OpenDjPortsUsed
  BY <1>7 DEF OpenDjPortsUsed, Chosen
<1>8. CASE SummaryPortsUsed
  BY <1>8 DEF SummaryPortsUsed, Mapping
<1>9. CASE SummaryNext
  BY <1>9 DEF SummaryNext, Mapping, PersistenceType
<1>10. CASE UNCHANGED vars
  BY <1>10 DEF vars
<1> QED
  BY <1>1, <1>2, <1>3, <1>4, <1>5, <1>6, <1>7, <1>8, <1>9, <1>10 DEF Next, DBBackendNext

\* Casa keeps its oxd on every way through the forms.
LEMMA NextCasaHasOxd == ASSUME IInv, [Next]_vars PROVE CasaHasOxd'
<1> USE DEF IInv, FormsOfMode, CasaHasOxd, Goto, serviceVars, backendVars, storageVars, DBForms
<1>1. CASE MainNext \/ HostBack \/ ServicesBack \/ DBFormNext \/ DBFormBack
             \/ SummaryBackFresh \/ Quit
  BY <1>1 DEF MainNext, HostBack, ServicesBack, DBFormNext, DBFormBack, SummaryBackFresh, Quit
<1>2. CASE HostNext \/ DBBackendBack \/ SummaryBackInstalled
  BY <1>2 DEF HostNext, DBBackendBack, SummaryBackInstalled, EnterServicesForm
<1>3. CASE ServicesNothingPicked \/ ServicesCasaRefused
  BY <1>3 DEF ServicesNothingPicked, ServicesCasaRefused
<1>4. CASE ServicesNext
  BY <1>4 DEF ServicesNext, RecordTicks, NeedsOxdUrl
<1>5. CASE DBBackendNext
  BY <1>5 DEF DBBackendNext, ChooseOpenDj, ChooseCouchbase, ChooseRdbm, ChooseSpanner,
     SpannerRefused, OpenDjPortsUsed, Chosen
<1>6. CASE SummaryPortsUsed \/ SummaryNext
  BY <1>6 DEF SummaryPortsUsed, SummaryNext
<1>7. CASE UNCHANGED vars
  BY <1>7 DEF vars
<1> QED
  BY <1>1, <1>2, <1>3, <1>4, <1>5, <1>6, <1>7 DEF Next

LEMMA NextIInv == IInv /\ [Next]_vars => IInv'
  BY NextTypeOK, NextInstalled, NextBackends, NextCasaHasOxd DEF IInv

THEOREM Invariance == Spec => []IInv
<1>1. Init => IInv
  BY InitIInv
<1>2. IInv /\ [Next]_vars => IInv'
  BY NextIInv
<1> QED
  BY <1>1, <1>2, PTL DEF Spec

-----------------------------------------------------------------------------
(* The theorems.                                                           *)

\* Every variable keeps the values that tui.py and properties_utils.py give it.
THEOREM TypeCorrect == Spec => []TypeOK
<1>1. IInv => TypeOK
  BY DEF IInv
<1> QED
  BY <1>1, Invariance, PTL

\* No sequence of forms of an installed machine puts a service that was found
\* there on the list of the services to add.
THEOREM NothingReinstalled == Spec => []NoReinstall
<1>1. IInv => NoReinstall
  BY DEF IInv, ListsOfInstalled, NoReinstall
<1> QED
  BY <1>1, Invariance, PTL

\* What the summary of an installed machine shows as new is what install_services
\* installs, with its service_enable_dict attributes set.
THEOREM PickedAreInstalled == Spec => []PickedServicesInstalled
<1>1. IInv => PickedServicesInstalled
  BY DEF IInv, TypeOK, ListsOfInstalled, PickedServicesInstalled
<1> QED
  BY <1>1, Invariance, PTL

\* The forms never lead to an installation of Shibboleth on Spanner.
THEOREM SamlAndSpannerApart == Spec => []NoSamlOnSpanner
<1>1. IInv => NoSamlOnSpanner
  BY DEF IInv, SpannerWithoutSaml, ListsOfInstalled, NoSamlOnSpanner
<1> QED
  BY <1>1, Invariance, PTL

\* Casa that is ticked when ServicesForm is left has an oxd.
THEOREM CasaAlwaysHasOxd == Spec => []CasaHasOxd
<1>1. IInv => CasaHasOxd
  BY DEF IInv
<1> QED
  BY <1>1, Invariance, PTL

\* Every location the entries map to has a backend when the installation starts.
THEOREM EveryLocationServed == Spec => []LocationsServed
<1>1. IInv => LocationsServed
  BY DEF IInv, MappingServed, LocationsServed
<1> QED
  BY <1>1, Invariance, PTL

\* The persistence type is that of the backend the user ended with.
THEOREM PersistenceOfBackend == Spec => []PersistenceMatchesBackend
<1>1. IInv => PersistenceMatchesBackend
  BY DEF IInv
<1> QED
  BY <1>1, Invariance, PTL

\* The summary never hides a relational database that will be installed.
THEOREM DatabaseShown == Spec => []SummaryShowsDatabase
<1>1. IInv => SummaryShowsDatabase
  BY DEF IInv, SomeBackend, SummaryShowsDatabase
<1> QED
  BY <1>1, Invariance, PTL

\* Adding services never changes the backends, the mapping or the persistence
\* type of an installed machine.
THEOREM StorageKept == Spec => PostSetupKeepsStorage
<1> DEFINE Kept == installed_instance => UNCHANGED <<backendVars, storageVars>>
<1>1. IInv /\ [Next]_vars => [Kept]_vars
  <2> SUFFICES ASSUME IInv, [Next]_vars, mode = "installed"
               PROVE  UNCHANGED <<backendVars, storageVars>> \/ UNCHANGED vars
    OBVIOUS
  <2> USE DEF IInv, FormsOfMode, backendVars, storageVars
  <2>1. CASE MainNext \/ HostNext \/ HostBack \/ ServicesNothingPicked \/ ServicesCasaRefused
               \/ ServicesNext \/ ServicesBack \/ DBBackendBack \/ DBFormNext \/ DBFormBack
               \/ SummaryBackFresh \/ SummaryBackInstalled \/ Quit
    BY <2>1 DEF MainNext, HostNext, HostBack, ServicesNothingPicked, ServicesCasaRefused,
       ServicesNext, ServicesBack, DBBackendBack, DBFormNext, DBFormBack, SummaryBackFresh,
       SummaryBackInstalled, Quit
  <2>2. CASE DBBackendNext
    BY <2>2 DEF DBBackendNext, ChooseOpenDj, ChooseCouchbase, ChooseRdbm, ChooseSpanner,
       SpannerRefused, OpenDjPortsUsed, Chosen
  <2>3. CASE SummaryPortsUsed \/ SummaryNext
    BY <2>3 DEF StorageOfInstalled, SummaryPortsUsed, SummaryNext, Mapping, PersistenceType
  <2>4. CASE UNCHANGED vars
    BY <2>4
  <2> QED
    BY <2>1, <2>2, <2>3, <2>4 DEF Next
<1> QED
  BY <1>1, Invariance, PTL DEF Spec, PostSetupKeepsStorage
=============================================================================
