---------------------------- MODULE DirectoryStore ----------------------------
(***************************************************************************)
(* The directory of Gluu as the installers of SCIM and Passport and the     *)
(* loader of test data write it through DBUtils, in each of the databases   *)
(* it may live in, over several runs of setup.py that may fail between any  *)
(* two calls of the database.                                              *)
(*                                                                         *)
(* The installers make up identifiers of clients, UMA resources and scopes  *)
(* and leave them in three places: the entries, the entry of oxTrust, and   *)
(* the scripts that list allowed clients.  A later run has nothing but      *)
(* these to find them again.  An identifier is the number of the run that   *)
(* made it up; 0 stands for none.  The ten scopes of SCIM are taken as one. *)
(* oxAuth and oxTrust have been installed.                                 *)
(***************************************************************************)
EXTENDS Naturals, Sequences

CONSTANTS
    Backends,     \* the databases the directory may be in
    MaxRuns,      \* at most so many runs
    MaxFailures   \* at most so many of them fail

SQL == {"mysql", "pgsql"}
KnownBackends == SQL \cup {"ldap", "spanner", "couchbase"}

ASSUME BackendsAssumption == Backends \subseteq KnownBackends
ASSUME BoundsAssumption   == MaxRuns \in Nat /\ MaxFailures \in Nat

Jobs == {"scim", "passport", "testdata"}

ClientVars ==
    {"scim_rs_client_id", "scim_rp_client_id",
     "passport_rs_client_id", "passport_rp_client_id", "passport_rp_ii_client_id"}
ResourceVars == {"scim_resource_oxid", "passport_resource_id"}
IdVars == ClientVars \cup ResourceVars \cup {"scim_scopes"}

\* Scripts of scripts.ldif, of Passport, and the one of Casa.
UmaPolicies     == {"2DAF-F9A5", "2DAF-F995"}
PassportScripts == {"D40C-1CA4", "2FDB-CF02"}
CasaScript      == "DAA9-F7F8"
Scripts == UmaPolicies \cup PassportScripts \cup {CasaScript}

\* The identifiers a service checks.
IdsOf(job) ==
    IF job = "scim"
    THEN {"scim_rs_client_id", "scim_rp_client_id", "scim_resource_oxid"}
    ELSE {"passport_rs_client_id", "passport_rp_client_id", "passport_rp_ii_client_id",
          "passport_resource_id"}

\* The identifiers the settings of a service put into the entry of oxTrust.
SettingsOf(job) ==
    IF job = "scim" THEN {"scim_rs_client_id", "scim_resource_oxid"}
                    ELSE {"passport_rs_client_id", "passport_resource_id"}
SettingVars == SettingsOf("scim") \cup SettingsOf("passport")

Ids     == 1..MaxRuns
Names   == IdVars \cup PassportScripts
Clients == [name : ClientVars, id : Ids]

VARIABLES
    backend,
    installCasa,        \* Casa is on the machine
    entries,            \* the identifiers of the entries imported, by what they are
    edited,             \* those of them the administrator has changed since
    oxTrustConf,        \* the identifiers in oxTrustConfApplication
    allowed,            \* the allowed_clients properties of the two policies
    scriptOn,           \* the scripts with oxEnabled
    serviceOn,          \* the services enabled in ou=configuration
    warFiles,           \* the services installed() answers True for
    pc,
    installed_instance,
    picked,             \* the jobs of this run
    todo,               \* the calls still to come
    Config,             \* the identifiers the program knows
    removed,            \* an LDAP value deleted and not yet added again
    runs, failures

directoryVars == <<entries, edited, oxTrustConf, allowed, scriptOn, serviceOn>>
programVars   == <<installed_instance, picked, todo, Config, removed>>
vars == <<backend, installCasa, directoryVars, warFiles, pc, programVars, runs, failures>>

Nothing == [v \in IdVars |-> 0]

\* The policies come with an empty list.
Init ==
    /\ backend \in Backends
    /\ entries = [n \in Names |-> {}] /\ edited = [n \in Names |-> {}]
    /\ oxTrustConf = [v \in SettingVars |-> 0]
    /\ allowed = [s \in UmaPolicies |-> <<{}>>]
    /\ installCasa \in BOOLEAN
    /\ scriptOn = IF installCasa THEN {CasaScript} ELSE {}
    /\ serviceOn = {}
    /\ warFiles = {}
    /\ pc = "off"
    /\ installed_instance = FALSE
    /\ picked = {} /\ todo = <<>> /\ Config = Nothing /\ removed = <<>>
    /\ runs = 0 /\ failures = 0

-----------------------------------------------------------------------------
(* The calls an installer makes, in order.                                 *)

Call(do, on)       == [do |-> do, on |-> on, client |-> "none"]
Allow(script, var) == [do |-> "allow", on |-> script, client |-> var]

\* Mistake: the settings are written before the entries are imported.
ScimCallsSettingsFirst ==
    <<Call("files", "scim"),
      Call("configure", "scim"), Call("scopes", "scim_scopes"),
      Call("settings", "scim"),
      Call("import", "scim_resource_oxid"), Call("import", "scim_rs_client_id"),
      Call("import", "scim_rp_client_id"), Call("import", "scim_scopes"),
      Allow("2DAF-F9A5", "scim_rp_client_id"), Allow("2DAF-F995", "scim_rp_client_id"),
      Call("script", "2DAF-F9A5"), Call("service", "scim")>>

ScimCalls ==
    <<Call("files", "scim"),
      Call("configure", "scim"), Call("scopes", "scim_scopes"),
      Call("import", "scim_resource_oxid"), Call("import", "scim_rs_client_id"),
      Call("import", "scim_rp_client_id"), Call("import", "scim_scopes"),
      Call("settings", "scim"),
      Allow("2DAF-F9A5", "scim_rp_client_id"), Allow("2DAF-F995", "scim_rp_client_id"),
      Call("script", "2DAF-F9A5"), Call("service", "scim")>>

\* Mistake: the second policy is forgotten.
PassportCallsOnePolicy ==
    <<Call("files", "passport"),
      Call("configure", "passport"),
      Call("import", "D40C-1CA4"), Call("import", "2FDB-CF02"),
      Call("import", "passport_resource_id"), Call("import", "passport_rp_ii_client_id"),
      Call("import", "passport_rs_client_id"), Call("import", "passport_rp_client_id"),
      Call("service", "passport"),
      Call("script", "2FDB-CF02"), Call("script", "D40C-1CA4"), Call("script", "2DAF-F9A5"),
      Call("settings", "passport"), Call("service", "passport"),
      Allow("2DAF-F9A5", "passport_rp_client_id")>>

PassportCalls ==
    <<Call("files", "passport"),
      Call("configure", "passport"),
      Call("import", "D40C-1CA4"), Call("import", "2FDB-CF02"),
      Call("import", "passport_resource_id"), Call("import", "passport_rp_ii_client_id"),
      Call("import", "passport_rs_client_id"), Call("import", "passport_rp_client_id"),
      Call("service", "passport"),
      Call("script", "2FDB-CF02"), Call("script", "D40C-1CA4"), Call("script", "2DAF-F9A5"),
      Call("settings", "passport"), Call("service", "passport"),
      Allow("2DAF-F9A5", "passport_rp_client_id"),
      Allow("2DAF-F995", "passport_rp_client_id")>>

\* Without Passport its configuration is generated for the templates.  The
\* other scripts that are enabled are like 2DAF-F995.
TestDataCalls(passport) ==
    (IF passport THEN <<>> ELSE <<Call("configure", "passport")>>)
    \o <<Call("script", "2DAF-F995"), Call("casa", CasaScript)>>

\* SCIM, then Passport, and the test data when everything is installed.
CallsOf(jobs) ==
    (IF "scim" \in jobs THEN ScimCalls ELSE <<>>)
    \o (IF "passport" \in jobs THEN PassportCalls ELSE <<>>)
    \o (IF "testdata" \in jobs THEN <<Call("load", "testdata")>> ELSE <<>>)

-----------------------------------------------------------------------------
(* What a search finds.                                                    *)

\* Clients are found under ou=clients,o=gluu.  Resources are looked for under
\* ou=resources,o=gluu, where there are none, and scopes under o=jans: only
\* Couchbase finds them, which ignores the base of a search.
InReach(v) == v \in ClientVars \/ backend = "couchbase"

\* A search returns one entry of several: the oldest or the newest.
Found(v, newest) ==
    IF InReach(v) /\ entries[v] # {}
    THEN CHOOSE a \in entries[v] :
            \A b \in entries[v] : IF newest THEN a >= b ELSE a <= b
    ELSE 0

\* check_clients: what the program knows already is kept, what the directory has
\* is taken, otherwise an identifier is made up.
Checked(cfg, v, made, newest) ==
    IF cfg[v] # 0 THEN cfg[v]
    ELSE IF Found(v, newest) # 0 THEN Found(v, newest) ELSE made

-----------------------------------------------------------------------------
(* The start and the end of a run.                                         *)

BeginRun(jobs, installed, cfg) ==
    /\ pc = "off" /\ runs < MaxRuns /\ jobs # {}
    /\ runs' = runs + 1
    /\ installed_instance' = installed
    /\ picked' = jobs /\ todo' = CallsOf(jobs)
    /\ Config' = cfg
    /\ pc' = "running"
    /\ UNCHANGED <<backend, installCasa, directoryVars, warFiles, removed, failures>>

StartFresh ==
    /\ runs = 0
    /\ \E jobs \in SUBSET Jobs : BeginRun(jobs, FALSE, Nothing)

\* Mistake: the settings of oxTrust are not read again.
CollectWithoutSettings(newest, made) ==
    [v \in IdVars |->
        CASE v \in ClientVars \ {"scim_rs_client_id"} -> Checked(Nothing, v, made, newest)
          [] v = "passport_resource_id" -> made
          [] OTHER -> 0]

\* collect(): two identifiers of SCIM are read from the settings of oxTrust, the
\* clients are searched for, and the resource of Passport is searched for among
\* the clients, so that it is never found.
Collect(newest, made) ==
    [v \in IdVars |->
        CASE v \in SettingsOf("scim") -> oxTrustConf[v]
          [] v \in ClientVars \ SettingsOf("scim") -> Checked(Nothing, v, made, newest)
          [] v = "passport_resource_id" -> made
          [] v = "scim_scopes" -> 0]

\* Any job can be repeated: the arguments --install-... ask for it.
StartOnInstalled ==
    /\ runs > 0
    /\ \E jobs \in SUBSET Jobs, newest \in BOOLEAN :
          BeginRun(jobs, TRUE, Collect(newest, runs + 1))

\* Mistake: what was taken out is remembered by the next run.
ProgramEndsRemembering ==
    /\ pc' = "off"
    /\ installed_instance' = FALSE
    /\ picked' = {} /\ todo' = <<>> /\ Config' = Nothing
    /\ UNCHANGED <<backend, installCasa, directoryVars, warFiles, removed, runs>>

ProgramEnds ==
    /\ pc' = "off"
    /\ installed_instance' = FALSE
    /\ picked' = {} /\ todo' = <<>> /\ Config' = Nothing /\ removed' = <<>>
    /\ UNCHANGED <<backend, installCasa, directoryVars, warFiles, runs>>

Finished == pc = "running" /\ todo = <<>>

EndRun ==
    /\ Finished
    /\ ProgramEnds
    /\ UNCHANGED failures

Fail ==
    /\ pc = "running" /\ failures < MaxFailures
    /\ failures' = failures + 1
    /\ ProgramEnds

-----------------------------------------------------------------------------
(* The calls.                                                              *)

AtCall(do) == pc = "running" /\ todo # <<>> /\ Head(todo).do = do
On   == Head(todo).on
Goes == todo' = Tail(todo)

runVars == <<backend, installCasa, pc, installed_instance, picked, runs, failures>>

\* install(): what installed() looks for comes first.
InstallFiles ==
    /\ AtCall("files")
    /\ warFiles' = warFiles \cup {On}
    /\ Goes
    /\ UNCHANGED <<runVars, directoryVars, Config, removed>>

\* Mistake: the directory is not asked.
GenerateConfigurationUnasked ==
    /\ AtCall("configure")
    /\ Config' = [v \in IdVars |->
                     IF v \in IdsOf(On) /\ Config[v] = 0 THEN runs ELSE Config[v]]
    /\ Goes
    /\ UNCHANGED <<runVars, directoryVars, warFiles, removed>>

\* generate_configuration checks the identifiers of its service, one after the
\* other, and changes nothing else.
GenerateConfiguration ==
    /\ AtCall("configure")
    /\ \E newest \in BOOLEAN :
          Config' = [v \in IdVars |->
                        IF v \in IdsOf(On) THEN Checked(Config, v, runs, newest)
                                           ELSE Config[v]]
    /\ Goes
    /\ UNCHANGED <<runVars, directoryVars, warFiles, removed>>

\* The scopes are made up anew unless this is an installed instance that has them.
ScimScopes ==
    /\ AtCall("scopes")
    /\ Config' = [Config EXCEPT ![On] =
                     IF installed_instance /\ Found(On, TRUE) # 0 THEN 0 ELSE runs]
    /\ Goes
    /\ UNCHANGED <<runVars, directoryVars, warFiles, removed>>

\* Passport's scripts have fixed names and come enabled.  No scopes made up, no
\* entry of them.
ImportedId == IF On \in IdVars THEN Config[On] ELSE 0
NothingToImport == On = "scim_scopes" /\ Config[On] = 0

\* Mistake: it is not asked whether the entry is there.
AddBlindly ==
    /\ entries' = [entries EXCEPT ![On] = @ \cup {ImportedId}]
    /\ edited' = [edited EXCEPT ![On] = @ \ {ImportedId}]
    /\ scriptOn' = scriptOn \cup ({On} \cap Scripts)

\* A new entry is added; one that is there stays as it is.
AddIfAbsent ==
    /\ entries' = [entries EXCEPT ![On] = @ \cup {ImportedId}]
    /\ edited' = edited
    /\ scriptOn' = IF ImportedId \in entries[On] THEN scriptOn
                                                  ELSE scriptOn \cup ({On} \cap Scripts)

AtImport(backends) == AtCall("import") /\ backend \in backends /\ ~NothingToImport

Imported ==
    /\ Goes
    /\ UNCHANGED <<runVars, oxTrustConf, allowed, serviceOn, warFiles, Config, removed>>

AddEntryLdap == AtImport({"ldap"}) /\ AddIfAbsent /\ Imported
AddEntrySql  == AtImport(SQL) /\ AddIfAbsent /\ Imported

\* Spanner is not asked, but it refuses the second insert, and nobody looks at
\* the answer.
AddEntrySpanner == AtImport({"spanner"}) /\ AddIfAbsent /\ Imported

\* Couchbase writes over the document there is.
UpsertEntry ==
    /\ AtImport({"couchbase"})
    /\ entries' = [entries EXCEPT ![On] = @ \cup {ImportedId}]
    /\ edited' = [edited EXCEPT ![On] = @ \ {ImportedId}]
    /\ scriptOn' = scriptOn \cup ({On} \cap Scripts)
    /\ Imported

ImportNothing ==
    /\ AtCall("import") /\ NothingToImport
    /\ Goes
    /\ UNCHANGED <<runVars, directoryVars, warFiles, Config, removed>>

\* set_oxTrustConfApplication: the settings of this service are laid over those
\* that are there.
SetOxTrustConf ==
    /\ AtCall("settings")
    /\ oxTrustConf' = [v \in SettingVars |->
                          IF v \in SettingsOf(On) THEN Config[v] ELSE oxTrustConf[v]]
    /\ Goes
    /\ UNCHANGED <<runVars, entries, edited, allowed, scriptOn, serviceOn, warFiles, Config, removed>>

EnableService ==
    /\ AtCall("service")
    /\ serviceOn' = serviceOn \cup {On}
    /\ Goes
    /\ UNCHANGED <<runVars, entries, edited, oxTrustConf, allowed, scriptOn, warFiles, Config, removed>>

EnableScript ==
    /\ AtCall("script")
    /\ scriptOn' = scriptOn \cup {On}
    /\ Goes
    /\ UNCHANGED <<runVars, entries, edited, oxTrustConf, allowed, serviceOn, warFiles, Config, removed>>

\* enable_script(..., enable=False), when Casa is there.  For SQL the argument is
\* not looked at: the script is enabled.
DisableCasaScript ==
    /\ AtCall("casa")
    /\ scriptOn' = IF ~installCasa THEN scriptOn
                   ELSE IF backend \in SQL THEN scriptOn \cup {On}
                   ELSE scriptOn \ {On}
    /\ Goes
    /\ UNCHANGED <<runVars, entries, edited, oxTrustConf, allowed, serviceOn, warFiles, Config, removed>>

\* The test data need SCIM, which is installed on the way.
LoadTestData ==
    /\ AtCall("load")
    /\ todo' = (IF "scim" \in warFiles THEN <<>> ELSE ScimCalls)
               \o TestDataCalls("passport" \in warFiles) \o Tail(todo)
    /\ UNCHANGED <<runVars, directoryVars, warFiles, Config, removed>>

-----------------------------------------------------------------------------
(* add_client2script.  The value of allowed_clients is a list of clients,   *)
(* taken as a set; what there can be several of are the properties.         *)

NewClient == [name |-> Head(todo).client, id |-> Config[Head(todo).client]]

\* The first property that does not have the client yet, if any.
Lacking(list, c) == {i \in DOMAIN list : c \notin list[i]}
FirstOf(I)       == CHOOSE i \in I : \A j \in I : i <= j
WithClient(list, i, c) == [list EXCEPT ![i] = @ \cup {c}]
Without(list, i) == SubSeq(list, 1, i - 1) \o SubSeq(list, i + 1, Len(list))

AllowIn(list) ==
    /\ allowed' = [allowed EXCEPT ![On] = list]
    /\ Goes
    /\ UNCHANGED <<runVars, entries, edited, oxTrustConf, scriptOn, serviceOn, warFiles, Config, removed>>

\* Over LDAP the old value is deleted, and the new one added by a second call.
DeleteAllowedLdap ==
    /\ AtCall("allow") /\ backend = "ldap" /\ removed = <<>>
    /\ Lacking(allowed[On], NewClient) # {}
    /\ LET i == FirstOf(Lacking(allowed[On], NewClient))
       IN /\ removed' = <<allowed[On][i]>>
          /\ allowed' = [allowed EXCEPT ![On] = Without(@, i)]
    /\ UNCHANGED <<runVars, entries, edited, oxTrustConf, scriptOn, serviceOn, warFiles, todo, Config>>

\* Mistake: the new value holds the new client only.
AddAllowedLdapAlone ==
    /\ AtCall("allow") /\ backend = "ldap" /\ removed # <<>>
    /\ allowed' = [allowed EXCEPT ![On] = Append(@, {NewClient})]
    /\ removed' = <<>>
    /\ UNCHANGED <<runVars, entries, edited, oxTrustConf, scriptOn, serviceOn, warFiles, todo, Config>>

AddAllowedLdap ==
    /\ AtCall("allow") /\ backend = "ldap" /\ removed # <<>>
    /\ allowed' = [allowed EXCEPT ![On] = Append(@, removed[1] \cup {NewClient})]
    /\ removed' = <<>>
    /\ UNCHANGED <<runVars, entries, edited, oxTrustConf, scriptOn, serviceOn, warFiles, todo, Config>>

AllowedLdapDone ==
    /\ AtCall("allow") /\ backend = "ldap" /\ removed = <<>>
    /\ Lacking(allowed[On], NewClient) = {}
    /\ AllowIn(allowed[On])

\* With no property to extend, also when all of them have the client, SQL gets
\* a property more.
AllowSql ==
    /\ AtCall("allow") /\ backend \in SQL
    /\ LET list == allowed[On]  lacking == Lacking(list, NewClient)
       IN AllowIn(IF lacking # {} THEN WithClient(list, FirstOf(lacking), NewClient)
                                  ELSE Append(list, {NewClient}))

\* Spanner decides by the first property.
AllowSpanner ==
    /\ AtCall("allow") /\ backend = "spanner"
    /\ LET list == allowed[On]
       IN AllowIn(IF list = <<>> THEN <<{NewClient}>> ELSE WithClient(list, 1, NewClient))

AllowCouchbase ==
    /\ AtCall("allow") /\ backend = "couchbase"
    /\ LET list == allowed[On]  lacking == Lacking(list, NewClient)
       IN AllowIn(IF lacking # {} THEN WithClient(list, FirstOf(lacking), NewClient) ELSE list)

-----------------------------------------------------------------------------
\* Between two runs the administrator changes entries; as what happens to one
\* does not depend on the others, all of them.
AdminEdits ==
    /\ pc = "off"
    /\ edited # entries
    /\ edited' = entries
    /\ UNCHANGED <<backend, installCasa, entries, oxTrustConf, allowed, scriptOn, serviceOn, warFiles,
                   pc, programVars, runs, failures>>

Next ==
    \/ StartFresh
    \/ StartOnInstalled
    \/ InstallFiles
    \/ GenerateConfiguration
    \/ ScimScopes
    \/ AddEntryLdap
    \/ AddEntrySql
    \/ AddEntrySpanner
    \/ UpsertEntry
    \/ ImportNothing
    \/ SetOxTrustConf
    \/ EnableService
    \/ EnableScript
    \/ DisableCasaScript
    \/ LoadTestData
    \/ DeleteAllowedLdap
    \/ AddAllowedLdap
    \/ AllowedLdapDone
    \/ AllowSql
    \/ AllowSpanner
    \/ AllowCouchbase
    \/ EndRun
    \/ Fail
    \/ AdminEdits

Spec == Init /\ [][Next]_vars

-----------------------------------------------------------------------------
(* Properties.                                                             *)

\* Every variable keeps the values the code gives it, and nothing of a run is
\* left in the program when it is over.
TypeOK ==
    /\ backend \in Backends /\ installCasa \in BOOLEAN
    /\ entries \in [Names -> SUBSET (0..MaxRuns)]
    /\ edited \in [Names -> SUBSET (0..MaxRuns)]
    /\ \A n \in Names : edited[n] \subseteq entries[n]
    /\ oxTrustConf \in [SettingVars -> {0} \cup Ids]
    /\ \A s \in UmaPolicies : \A i \in DOMAIN allowed[s] : allowed[s][i] \subseteq Clients
    /\ scriptOn \subseteq Scripts
    /\ serviceOn \subseteq Jobs /\ warFiles \subseteq Jobs
    /\ pc \in {"off", "running"}
    /\ picked \subseteq Jobs
    /\ Config \in [IdVars -> {0} \cup Ids]
    /\ Len(removed) <= 1
    /\ pc = "off" => programVars = <<FALSE, {}, <<>>, Nothing, <<>>>>
    /\ runs \in 0..MaxRuns /\ failures \in 0..MaxFailures

\* check_clients, over all runs and failures: no service ever has two clients
\* for the same purpose, in any database.  In Couchbase this also holds of the
\* resource and the scopes of SCIM.
OneEntryEach ==
    \A v \in ClientVars \cup
            (IF backend = "couchbase" THEN {"scim_resource_oxid", "scim_scopes"} ELSE {}) :
        \A a, b \in entries[v] : a = b

\* "dn: oxId=%(scim_resource_oxid)s,ou=resources,ou=uma,o=gluu" (scim.ldif):
\* check_clients, which is there to find the resource again, looks for it under
\* ou=resources,o=gluu, so that an installation that is repeated because it
\* failed before it wrote the settings of oxTrust adds a second one.
OneScimResource == \A a, b \in entries["scim_resource_oxid"] : a = b

\* Whatever oxTrust or a policy refers to is in the directory, also after a run
\* that failed: entries are imported before anything names them.
ReferencesExist ==
    /\ \A v \in SettingVars :
          oxTrustConf[v] # 0 => oxTrustConf[v] \in entries[v]
    /\ \A s \in UmaPolicies : \A i \in DOMAIN allowed[s] : \A c \in allowed[s][i] :
          c.id \in entries[c.name]

\* The identifiers oxTrust has been configured with are never replaced by a
\* repeated installation; that of the resource of Passport is.
ConfiguredIdsStable ==
    [][\A v \in SettingVars \ {"passport_resource_id"} :
          oxTrustConf[v] # 0 => oxTrustConf'[v] = oxTrustConf[v]]_vars

\* The clients a policy allows; over LDAP, together with the value that is being
\* changed.
AllowedBy(s) ==
    (UNION {allowed[s][i] : i \in DOMAIN allowed[s]})
    \cup (IF AtCall("allow") /\ On = s /\ removed # <<>> THEN removed[1] ELSE {})

Interrupted == removed # <<>> /\ pc' = "off"

\* add_client2script keeps the clients of the other services, except when it is
\* interrupted between the two calls over LDAP.
AllowedKept ==
    [][~Interrupted => \A s \in UmaPolicies : AllowedBy(s) \subseteq AllowedBy(s)']_vars

\* Importing the entries of a service again leaves them as the administrator
\* has changed them, except in Couchbase.
AdminChangesKept ==
    [][backend # "couchbase" => \A n \in Names : edited[n] \subseteq edited'[n]]_vars

\* The program of LDAP has nothing to extend when an interrupted run has taken
\* the property away.
PropertyLost(s) == backend = "ldap" /\ allowed[s] = <<>>

RpClient(job) == LET v == IF job = "scim" THEN "scim_rp_client_id" ELSE "passport_rp_client_id"
                 IN [name |-> v, id |-> Config[v]]

\* When a run comes to its end, the services it installed can be used: enabled,
\* known to oxTrust, their clients allowed by both policies, whatever earlier runs
\* that failed have left.
InstalledIsUsable ==
    Finished =>
        \A job \in picked \ {"testdata"} :
            /\ job \in serviceOn
            /\ "2DAF-F9A5" \in scriptOn
            /\ \A v \in SettingsOf(job) : oxTrustConf[v] = Config[v] /\ Config[v] # 0
            /\ \A s \in UmaPolicies : RpClient(job) \in AllowedBy(s) \/ PropertyLost(s)

=============================================================================
