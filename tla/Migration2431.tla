---------------------------- MODULE Migration2431 ----------------------------
(***************************************************************************)
(* export2431.py, run on the old server, and import2431.py, run on the new *)
(* one: from 2.4 to 3.1.                                                   *)
(***************************************************************************)
EXTENDS MigrationServers

makeFolders == Backup([backup EXCEPT !.made = TRUE]) /\ Go

(* The sample search is the inum of the organisation: the password of      *)
(* setup.properties.last is never found to be wrong.                       *)
prepareLdapPW ==
    /\ \E right \in BOOLEAN : work' = [work EXCEPT !.bound = right]
    /\ UNCHANGED <<backup, host>>
    /\ Go

backupFiles ==
    /\ Backup([backup EXCEPT !.files = {"certs", "conf", "idp", "pages"},
                             !.schema = "opendj"])
    /\ Go

(* Both write only the entries that have a displayName. *)
removeDeprecatedScripts(ldif) ==
    Restrict(ldif, {e \in DOMAIN ldif :
                        FileOf(e) = "scripts" => e # "uma_script" /\ "name" \in DOMAIN ldif[e]})
doClientsChangesForUMA2(ldif) ==
    Restrict(ldif, {e \in DOMAIN ldif :
                        FileOf(e) = "clients" => "name" \in DOMAIN ldif[e]})

doOxTrustChanges(entry) == Setting(entry, "json", "converted")
dooxAuthChangesFor31(entry) == Setting(entry, "json", "converted")
doApplinceChanges(entry) == Setting(entry, "idp", "converted")
doUmaResourcesChangesForUma2(entry) == Setting(entry, "name", "converted")
doAttributeChange(entry) == Setting(entry, "name", "converted")

changePassportConfigJson(files) ==
    IF "conf" \in files THEN files \cup {"passport"} ELSE files

(* A conversion of a configuration raises an exception when the search has *)
(* left its file empty.  The configuration of the IDP is not exported.     *)
getLdif ==
    \E failed \in Failures :
        LET ldif == doClientsChangesForUMA2(removeDeprecatedScripts(
                        Searched(failed \cup {"oxidp"})))
            converted == [e \in DOMAIN ldif |->
                             CASE e = "config" ->
                                      dooxAuthChangesFor31(doOxTrustChanges(ldif[e]))
                               [] e = "appliance" -> doApplinceChanges(ldif[e])
                               [] FileOf(e) = "resource" ->
                                      doUmaResourcesChangesForUma2(ldif[e])
                               [] e = "gluuStatus" -> doAttributeChange(ldif[e])
                               [] OTHER -> ldif[e]]
            files == changePassportConfigJson(backup.files)
        IN  \/ /\ failed \cap {"config", "appliance"} = {}
               /\ Backup([backup EXCEPT !.ldif = converted, !.files = files]) /\ Go
            \/ /\ failed \cap {"config", "appliance"} # {}
               /\ Backup([backup EXCEPT !.ldif = ldif, !.files = files]) /\ Stop

genProperties ==
    Backup([backup EXCEPT !.properties = setting.ldap]) /\ Go

export == <<"makeFolders", "prepareLdapPW", "backupFiles", "getLdif",
            "genProperties">>

Export ==
    \/ At(export, "makeFolders") /\ makeFolders
    \/ At(export, "prepareLdapPW") /\ prepareLdapPW
    \/ At(export, "backupFiles") /\ backupFiles
    \/ At(export, "getLdif") /\ getLdif
    \/ At(export, "genProperties") /\ genProperties

-----------------------------------------------------------------------------
getLDAPServerType ==
    \/ backup.properties # "none" /\ Same /\ Go
    \/ backup.properties = "none" /\ Same /\ Stop

verifyBackupData ==
    \/ backup.made /\ Same /\ Go
    \/ ~backup.made /\ Same /\ Stop

setupWorkDirectory ==
    /\ Work([work EXCEPT !.current = NoEntries, !.processed = NoEntries])
    /\ Go

stopWebapps == TryTo("webapps", "stopped")

copyCertificates == Copied(backup.files \cap {"certs", "conf"})
copyCustomFiles == Copied((backup.files \cap {"pages"}) \cup {"photos"})
copyIDPFiles ==
    IF setting.saml THEN Copied(backup.files \cap {"idp"}) ELSE Copied({})

(* The attributes and classes of the old schema that the new one lacks are *)
(* added to that of OpenDJ; with OpenLDAP nothing is done.                 *)
copyCustomSchema ==
    IF setting.ldap = "opendj" THEN Host([host EXCEPT !.schema = 1]) /\ Go
    ELSE Same /\ Go

stopSolserver == setting.ldap = "openldap" /\ Must("ldap", "stopped")
stopOpenDJ == setting.ldap = "opendj" /\ Must("ldap", "stopped")
stopLDAPServer == stopSolserver \/ stopOpenDJ

(* It stops the directory server before it exports the data.               *)
exportInstallData == ExportData

getOldEntryMap == OldEntryMap({"admin"})

ignoreList == {"class"} \cup (IF setting.ldap = "opendj" THEN {} ELSE {"idp"})

enabled_scripts ==
    LET inum(e) == IF e = "F995" THEN "F9A5" ELSE e
    IN  {inum(e) : e \in {s \in DOMAIN backup.ldif :
                              /\ FileOf(s) = "scripts"
                              /\ backup.ldif[s].status = "true"}}

(* Settings that 3.1.4 and later releases need. *)
Adapted(e, entry) ==
    CASE e = "config" -> Setting(entry, "json", "adapted")
      [] e = "appliance" /\ setting.oxVersion >= 314 -> With(entry, "smtp", "old")
      [] e = "login" /\ setting.oxVersion >= 314 -> With(entry, "logout", "new")
      [] OTHER -> entry

(* An entry of the new server.  The directory to authenticate with gets    *)
(* the key of the old one.                                                 *)
Rewritten(e) ==
    LET new == Setting(work.current[e], "idp", "rekeyed")
        old == getOldEntryMap
    IN  IF "code" \in DOMAIN new
        THEN IF e \in enabled_scripts THEN With(new, "status", "true") ELSE new
        ELSE IF e \in DOMAIN old
        THEN Adapted(e, Merged(new, old[e], ignoreList)) ELSE new

(* An entry of the old server only.  A client is allowed the grant         *)
(* client_credentials; from 3.1.3 on the same loop then looks for the      *)
(* attribute under a second name, which no entry has, and overwrites it.   *)
Granted(e, entry) ==
    IF FileOf(e) # "clients" THEN entry
    ELSE IF setting.oxVersion >= 313 THEN With(entry, "grants", "authorization_code")
    ELSE Setting(entry, "grants", "client_credentials")

LeftOut(e) ==
    LET entry == ListValues(getOldEntryMap[e], TRUE)
    IN  Granted(e, IF "class" \in DOMAIN entry THEN With(entry, "class", "gluu")
                   ELSE entry)

NewName(e) == IF e = "resource" /\ setting.oxVersion >= 313 THEN ById(e) ELSE e

(* Every line of the result is looked at once more, and some are left out. *)
Line(entry) == Without(Setting(entry, "mode", "auth_ldap_server"), {"type"})

(* "Do not import guuStatus": the attribute of that name is left out where *)
(* the new server has none.                                                *)
NotImported == {"gluuStatus"}

(* The key is read from the backup of the appliance.                       *)
processBackupData ==
    LET current == DOMAIN work.current
        left == DOMAIN getOldEntryMap \ (current \cup NotImported)
        entries == Over([e \in current |-> Line(Rewritten(e))],
                        [n \in {NewName(e) : e \in left} |->
                            Line(LeftOut(CHOOSE e \in left : NewName(e) = n))])
    IN  IF "appliance" \in DOMAIN backup.ldif \/ "appliance" \notin current
        THEN Work([work EXCEPT !.processed = entries]) /\ Go
        ELSE Same /\ Stop

importDataIntoOpenldap == setting.ldap = "openldap" /\ ReplaceData
importDataIntoOpenDJ == setting.ldap = "opendj" /\ ReplaceData
importProcessedData == importDataIntoOpenldap \/ importDataIntoOpenDJ

fixPermissions == Host([host EXCEPT !.owner = "ldap"]) /\ Go

startSolserver == setting.ldap = "openldap" /\ Must("ldap", "running")

(* Without systemctl any output of the service is taken for a failure.     *)
startOpenDJ ==
    /\ setting.ldap = "opendj"
    /\ \/ TryTo("ldap", "running")
       \/ Host([host EXCEPT !.ldap = "running"]) /\ Stop
startLDAPServer == startSolserver \/ startOpenDJ

(* The client of the Shibboleth IDP, and before it the secret of oxAuth's  *)
(* own client, which must be in the directory.                             *)
NewClient == IF run.times = 1 THEN "idp_1" ELSE "idp_2"

idpResolved ==
    LET data == Restrict(host.data, DOMAIN host.data \ {"idp_none"})
        answers == host.ldap = "running" /\ {"login", "config"} \subseteq DOMAIN data
    IN  \/ ~answers /\ Same /\ Stop
        \/ /\ answers /\ host.idpClient = "none"
           /\ Host([host EXCEPT
                        !.data = Over(data, [e \in {NewClient} |-> [name |-> "new"]])])
           /\ Go
        \/ /\ answers /\ host.idpClient \notin {"none"} \cup DOMAIN data
           /\ Host([host EXCEPT !.data = data]) /\ Stop
        \/ /\ answers /\ host.idpClient \in DOMAIN data
           /\ Host([host EXCEPT !.data = data]) /\ Go

idpClientIdWritten ==
    IF host.idpClient = "none"
    THEN Host([host EXCEPT !.idpClient = NewClient]) /\ Go
    ELSE Same /\ Go

oxIDPFixed ==
    \/ /\ "oxidp" \in DOMAIN host.data
       /\ Host([host EXCEPT !.data["oxidp"] = With(@, "client", host.idpClient)]) /\ Go
    \/ "oxidp" \notin DOMAIN host.data /\ Same /\ Stop

migrate == <<"getLDAPServerType", "verifyBackupData", "setupWorkDirectory",
             "stopWebapps", "copyCertificates", "copyCustomFiles",
             "copyIDPFiles", "copyCustomSchema", "stopLDAPServer",
             "exportInstallData", "processBackupData", "importProcessedData",
             "fixPermissions", "startLDAPServer", "idpResolved",
             "idpClientIdWritten", "oxIDPFixed">>

Import ==
    \/ At(migrate, "getLDAPServerType") /\ getLDAPServerType
    \/ At(migrate, "verifyBackupData") /\ verifyBackupData
    \/ At(migrate, "setupWorkDirectory") /\ setupWorkDirectory
    \/ At(migrate, "stopWebapps") /\ stopWebapps
    \/ At(migrate, "copyCertificates") /\ copyCertificates
    \/ At(migrate, "copyCustomFiles") /\ copyCustomFiles
    \/ At(migrate, "copyIDPFiles") /\ copyIDPFiles
    \/ At(migrate, "copyCustomSchema") /\ copyCustomSchema
    \/ At(migrate, "stopLDAPServer") /\ stopLDAPServer
    \/ At(migrate, "exportInstallData") /\ exportInstallData
    \/ At(migrate, "processBackupData") /\ processBackupData
    \/ At(migrate, "importProcessedData") /\ importProcessedData
    \/ At(migrate, "fixPermissions") /\ fixPermissions
    \/ At(migrate, "startLDAPServer") /\ startLDAPServer
    \/ At(migrate, "idpResolved") /\ idpResolved
    \/ At(migrate, "idpClientIdWritten") /\ idpClientIdWritten
    \/ At(migrate, "oxIDPFixed") /\ oxIDPFixed
=============================================================================
