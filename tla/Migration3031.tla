---------------------------- MODULE Migration3031 ----------------------------
(***************************************************************************)
(* export3031.py, run on the old server, and import3031.py, run on the     *)
(* new one: from 3.0 or 3.1 to 3.1.                                        *)
(***************************************************************************)
EXTENDS MigrationServers

(* The password is taken from setup.properties.last.  The sample search    *)
(* that is to test it is only the inum of the organisation, so the         *)
(* operator is never asked for another one.                                *)
prepareLdapPW ==
    /\ \E right \in BOOLEAN : work' = [work EXCEPT !.bound = right]
    /\ UNCHANGED <<backup, host>>
    /\ Go

(* Mistake: the folder of the backup is taken to be there.                 *)
makeFoldersNot == Same /\ Go

makeFolders == Backup([backup EXCEPT !.made = TRUE]) /\ Go

backupFiles ==
    /\ Backup([backup EXCEPT !.files = {"certs", "conf", "idp", "pages"},
                             !.schema = IF setting.from = "openldap"
                                        THEN "custom.schema" ELSE "opendj"])
    /\ Go

(* The conversions for servers before 3.1.2. *)
doClientsChangesForUMA2(ldif) ==
    Restrict(ldif, {e \in DOMAIN ldif :
                        FileOf(e) = "clients" => "name" \in DOMAIN ldif[e]})

doUmaResourcesChangesForUma2(ldif) ==
    [e \in (DOMAIN ldif \ {"resource"}) \cup (IF "resource" \in DOMAIN ldif
                                              THEN {"resource_oxId"} ELSE {}) |->
        CASE e = "resource_oxId" -> ldif["resource"]
          [] e = "uma_access" -> Setting(ldif[e], "name", "converted")
          [] OTHER -> ldif[e]]

doOxTrustChanges(entry) == Setting(entry, "json", "converted")
dooxAuthChangesFor31(entry) == Setting(entry, "json", "converted")
doApplinceChanges(entry) == Setting(entry, "idp", "converted")

changePassportConfigJson(files) ==
    IF "conf" \in files THEN files \cup {"passport"} ELSE files

(* A conversion takes the first or the last entry of its file, and raises  *)
(* an exception when the search has left the file empty.                   *)
getLdif ==
    \E failed \in Failures :
        LET ldif == Searched(failed)
            renamed == doUmaResourcesChangesForUma2(doClientsChangesForUMA2(ldif))
            files == changePassportConfigJson(backup.files)
            converted == [e \in DOMAIN renamed |->
                             CASE e = "config" ->
                                      dooxAuthChangesFor31(doOxTrustChanges(renamed[e]))
                               [] e = "appliance" -> doApplinceChanges(renamed[e])
                               [] OTHER -> renamed[e]]
        IN  \/ /\ setting.oldVersion >= 312
               /\ Backup([backup EXCEPT !.ldif = ldif]) /\ Go
            \/ /\ setting.oldVersion < 312
               /\ failed \cap {"config", "appliance"} = {}
               /\ Backup([backup EXCEPT !.ldif = converted, !.files = files]) /\ Go
            \/ /\ setting.oldVersion < 312
               /\ failed \cap {"config", "appliance"} # {}
               /\ Backup([backup EXCEPT !.ldif = renamed, !.files = files]) /\ Stop

(* The properties of the backup name OpenDJ, whatever the old server has;  *)
(* the operator may edit them before the new server is installed.          *)
genProperties ==
    Backup([backup EXCEPT !.properties = setting.ldap]) /\ Go

(* It edits the configuration of OpenDJ, which a server with OpenLDAP may  *)
(* not have.                                                               *)
removeLdapConfig ==
    \/ Same /\ Go
    \/ setting.from = "openldap" /\ Same /\ Stop

fixLdapBindDN ==
    LET rebound(e) == CASE e = "appliance" -> Setting(backup.ldif[e], "idp", "rebound")
                        [] e = "config" -> Setting(backup.ldif[e], "json", "rebound")
                        [] OTHER -> backup.ldif[e]
    IN  IF setting.from = "openldap"
        THEN Backup([backup EXCEPT !.ldif = [e \in DOMAIN @ |-> rebound(e)]]) /\ Go
        ELSE Same /\ Go

export == <<"prepareLdapPW", "makeFolders", "backupFiles", "getLdif",
            "genProperties", "removeLdapConfig", "fixLdapBindDN">>

Export ==
    \/ At(export, "prepareLdapPW") /\ prepareLdapPW
    \/ At(export, "makeFolders") /\ makeFolders
    \/ At(export, "backupFiles") /\ backupFiles
    \/ At(export, "getLdif") /\ getLdif
    \/ At(export, "genProperties") /\ genProperties
    \/ At(export, "removeLdapConfig") /\ removeLdapConfig
    \/ At(export, "fixLdapBindDN") /\ fixLdapBindDN

-----------------------------------------------------------------------------
(* import3031.py.  The directory server is the one setup.properties of the *)
(* backup names; without that file the script stops.                       *)
getLDAPServerTypeChoice ==
    \/ backup.properties # "none" /\ Same /\ Go
    \/ backup.properties = "none" /\ Same /\ Stop

(* The answer is setting.idp; any other answer ends the script. *)
getLDAPServerType == Same /\ (Go \/ Stop)

verifyBackupData ==
    \/ backup.made /\ Same /\ Go
    \/ ~backup.made /\ Same /\ Stop

setupWorkDirectory ==
    /\ Work([work EXCEPT !.current = NoEntries, !.processed = NoEntries])
    /\ Go

stopWebapps == TryTo("webapps", "stopped")

stopSolserver == setting.ldap = "openldap" /\ Must("ldap", "stopped")
(* Mistake: OpenDJ that does not stop is only logged.                      *)
stopOpenDJLogged == setting.ldap = "opendj" /\ TryTo("ldap", "stopped")

stopOpenDJ == setting.ldap = "opendj" /\ Must("ldap", "stopped")
stopLDAPServer == stopSolserver \/ stopOpenDJ

copyCertificates == Copied(backup.files \cap {"certs", "conf"})

(* The folders under /opt are skipped. *)
copyCustomFiles == Copied({"photos"})

copyIDPFiles ==
    IF setting.saml THEN Copied(backup.files \cap {"idp"}) ELSE Copied({})

copyCustomSchema ==
    LET copied == setting.ldap = "openldap" /\ backup.schema = "custom.schema"
    IN  Host([host EXCEPT !.schema = IF copied THEN 1 ELSE @]) /\ Go

exportInstallData == ExportData

(* A script that was enabled stays so; F995 and F9A5 have changed places.  *)
enabled_scripts ==
    LET inum(e) == CASE e = "F995" -> "F9A5" [] e = "F9A5" -> "F995" [] OTHER -> e
    IN  {inum(e) : e \in {s \in DOMAIN backup.ldif :
                              /\ FileOf(s) = "scripts"
                              /\ backup.ldif[s].status = "true"}}

getOldEntryMap == OldEntryMap({"admin"})

ignoreList == {"class"} \cup (IF setting.idp THEN {} ELSE {"idp"})

(* Settings that 3.1.4 and later releases need. *)
Adapted(e, entry) ==
    IF setting.oxVersion < 314 THEN entry
    ELSE CASE e = "config" -> Setting(entry, "json", "adapted")
           [] e = "appliance" -> With(entry, "smtp", "old")
           [] e = "login" -> With(entry, "logout", "new")
           [] OTHER -> entry

(* The scopes for access to SCIM and Passport stay as the new server has   *)
(* them.                                                                   *)
Unchanged(e) == e = "uma_access" /\ "policy" \in DOMAIN work.current[e]

Rewritten(e) ==
    LET new == work.current[e]
        old == getOldEntryMap
    IN  IF "code" \in DOMAIN new
        THEN IF e \in enabled_scripts THEN With(new, "status", "true") ELSE new
        ELSE IF ~Unchanged(e) /\ e \in DOMAIN old
        THEN Adapted(e, Merged(new, old[e], ignoreList)) ELSE new

(* An entry of the old server only.  What is not a list is not kept.       *)
LeftOut(e) ==
    LET entry == ListValues(getOldEntryMap[e], FALSE)
    IN  Setting(entry, "uid", "passport")

(* With 3.1.3 the DN of a sector identifier is made of its oxId. *)
NewName(e) == IF e = "sector" /\ setting.oxVersion = 313 THEN ById(e) ELSE e

(* Every line of the result is looked at once more, and some are left out.   *)
(* The first line of the cache configuration becomes a constant without an *)
(* end of line, to which the rest of the old value is joined.              *)
Line(entry) ==
    LET moded == Setting(Setting(entry, "mode", "auth_ldap_server"), "cache", "spoilt")
    IN  Without(IF "class" \in DOMAIN moded /\ moded.class = "ox"
                THEN With(moded, "class", "gluu") ELSE moded,
                {"type"})

processBackupData ==
    LET current == DOMAIN work.current
        left == DOMAIN getOldEntryMap \ current
        entries == Over([e \in current |-> Line(Rewritten(e))],
                        [n \in {NewName(e) : e \in left} |->
                            Line(LeftOut(CHOOSE e \in left : NewName(e) = n))])
    IN  Work([work EXCEPT !.processed = entries]) /\ Go

(* The data file is moved away before slapadd -c fills a new one.          *)
importDataIntoOpenldap == setting.ldap = "openldap" /\ ReplaceData
importDataIntoOpenDJ == setting.ldap = "opendj" /\ ReplaceData
importProcessedData == importDataIntoOpenldap \/ importDataIntoOpenDJ

fixPermissions == Host([host EXCEPT !.owner = "ldap"]) /\ Go

startSolserver == setting.ldap = "openldap" /\ Must("ldap", "running")
startOpenDJ == setting.ldap = "opendj" /\ TryTo("ldap", "running")
startLDAPServer == startSolserver \/ startOpenDJ

(* The client of the Shibboleth IDP.  Its inum is a new random one when    *)
(* setup.properties.last names none; a client that is named but not there, *)
(* or no directory to ask, is an exception.                                *)
NewClient == IF run.times = 1 THEN "idp_1" ELSE "idp_2"

idpResolved ==
    LET data == Restrict(host.data, DOMAIN host.data \ {"idp_none"})
        answers == host.ldap = "running" /\ "config" \in DOMAIN host.data
    IN  \/ ~answers /\ Same /\ Stop
        \/ /\ answers /\ host.idpClient = "none"
           /\ Host([host EXCEPT
                        !.data = Over(data, [e \in {NewClient} |-> [name |-> "new"]])])
           /\ Go
        \/ /\ answers /\ host.idpClient \notin {"none"} \cup DOMAIN data
           /\ Host([host EXCEPT !.data = data]) /\ Stop
        \/ /\ answers /\ host.idpClient \in DOMAIN data
           /\ Host([host EXCEPT !.data = data]) /\ Go

(* Mistake: the new client is not written to setup.properties.last.        *)
idpClientIdForgotten == Same /\ Go

idpClientIdWritten ==
    IF host.idpClient = "none"
    THEN Host([host EXCEPT !.idpClient = NewClient]) /\ Go
    ELSE Same /\ Go

oxIDPFixed ==
    \/ /\ "oxidp" \in DOMAIN host.data
       /\ Host([host EXCEPT !.data["oxidp"].client = host.idpClient]) /\ Go
    \/ "oxidp" \notin DOMAIN host.data /\ Same /\ Stop

fixPassportConfig == Copied({"passport"})

migrate == <<"getLDAPServerTypeChoice", "getLDAPServerType", "verifyBackupData",
             "setupWorkDirectory", "stopWebapps", "stopLDAPServer",
             "copyCertificates", "copyCustomFiles", "copyIDPFiles",
             "copyCustomSchema", "exportInstallData", "processBackupData",
             "importProcessedData", "fixPermissions", "startLDAPServer",
             "idpResolved", "idpClientIdWritten", "oxIDPFixed",
             "fixPassportConfig">>

Import ==
    \/ At(migrate, "getLDAPServerTypeChoice") /\ getLDAPServerTypeChoice
    \/ At(migrate, "getLDAPServerType") /\ getLDAPServerType
    \/ At(migrate, "verifyBackupData") /\ verifyBackupData
    \/ At(migrate, "setupWorkDirectory") /\ setupWorkDirectory
    \/ At(migrate, "stopWebapps") /\ stopWebapps
    \/ At(migrate, "stopLDAPServer") /\ stopLDAPServer
    \/ At(migrate, "copyCertificates") /\ copyCertificates
    \/ At(migrate, "copyCustomFiles") /\ copyCustomFiles
    \/ At(migrate, "copyIDPFiles") /\ copyIDPFiles
    \/ At(migrate, "copyCustomSchema") /\ copyCustomSchema
    \/ At(migrate, "exportInstallData") /\ exportInstallData
    \/ At(migrate, "processBackupData") /\ processBackupData
    \/ At(migrate, "importProcessedData") /\ importProcessedData
    \/ At(migrate, "fixPermissions") /\ fixPermissions
    \/ At(migrate, "startLDAPServer") /\ startLDAPServer
    \/ At(migrate, "idpResolved") /\ idpResolved
    \/ At(migrate, "idpClientIdWritten") /\ idpClientIdWritten
    \/ At(migrate, "oxIDPFixed") /\ oxIDPFixed
    \/ At(migrate, "fixPassportConfig") /\ fixPassportConfig
=============================================================================
