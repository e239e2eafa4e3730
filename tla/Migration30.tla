----------------------------- MODULE Migration30 -----------------------------
(***************************************************************************)
(* export30.py and import30.py: to 3.0, from a backup of 3.0 or, with the  *)
(* script of 2.4, of an older release.                                     *)
(***************************************************************************)
EXTENDS MigrationServers

(* The sample search asks the directory: with a wrong password it is       *)
(* empty, and the operator is asked for another one.                       *)
prepareLdapPW ==
    /\ \E right \in BOOLEAN : work' = [work EXCEPT !.bound = right]
    /\ UNCHANGED <<backup, host>>
    /\ Go

makeFolders == Backup([backup EXCEPT !.made = TRUE]) /\ Go

backupFiles ==
    /\ Backup([backup EXCEPT !.files = {"certs", "conf", "idp", "pages"},
                             !.schema = setting.from])
    /\ Go

getLdif ==
    \E failed \in Failures :
        Backup([backup EXCEPT !.ldif = Searched(failed \cup {"oxidp"})]) /\ Go

genProperties == Backup([backup EXCEPT !.properties = "version"]) /\ Go

export == <<"prepareLdapPW", "makeFolders", "backupFiles", "getLdif",
            "genProperties">>

Export ==
    \/ At(export, "prepareLdapPW") /\ prepareLdapPW
    \/ At(export, "makeFolders") /\ makeFolders
    \/ At(export, "backupFiles") /\ backupFiles
    \/ At(export, "getLdif") /\ getLdif
    \/ At(export, "genProperties") /\ genProperties

-----------------------------------------------------------------------------
(* The operator names the directory server; what is no choice is an end.   *)
getLDAPServerType == Same /\ (Go \/ Stop)

verifyBackupData ==
    \/ backup.made /\ Same /\ Go
    \/ ~backup.made /\ Same /\ Stop

setupWorkDirectory ==
    /\ Work([work EXCEPT !.current = NoEntries, !.processed = NoEntries])
    /\ Go

stopWebapps == TryTo("webapps", "stopped")

stopSolserver == setting.ldap = "openldap" /\ Must("ldap", "stopped")
stopOpenDJ == setting.ldap = "opendj" /\ Must("ldap", "stopped")
stopLDAPServer == stopSolserver \/ stopOpenDJ

copyCertificates == Copied(backup.files \cap {"certs", "conf"})

(* For a backup of 2.x the pages are taken from /var/gluu/webapps of the   *)
(* server the script runs on; copy_tree raises an exception without it.    *)
copyCustomFiles ==
    \/ setting.oldVersion >= 300 /\ Copied(backup.files \cap {"pages"})
    \/ setting.oldVersion < 300 /\ (Copied({"pages"}) \/ (Same /\ Stop))

copyIDPFiles == Copied(backup.files \cap {"idp"})

(* 99-user.ldif and 100-user.ldif are copied into OpenDJ; for OpenLDAP     *)
(* they are converted, and appended to custom.schema once more whenever    *)
(* the script is run.                                                      *)
copyCustomSchema ==
    CASE setting.ldap = "opendj" /\ backup.schema = "opendj" ->
             Host([host EXCEPT !.schema = 1]) /\ Go
      [] setting.ldap = "openldap" /\ setting.oldVersion < 300 ->
             Host([host EXCEPT !.schema = @ + 1]) /\ Go
      [] OTHER -> Same /\ Go

exportInstallData == ExportData

getOldEntryMap == OldEntryMap({"admin"})

ignoreList == {"class", "idp"}

Rewritten(e) ==
    LET new == work.current[e]
    IN  IF e \notin DOMAIN getOldEntryMap THEN new
        ELSE Merged(new, getOldEntryMap[e], ignoreList)

LeftOut(e) == ListValues(getOldEntryMap[e], FALSE)

Line(entry) ==
    IF "mode" \in DOMAIN entry /\ entry.mode = "internal"
    THEN With(entry, "mode", "auth_ldap_server") ELSE entry

processBackupData ==
    LET current == DOMAIN work.current
        entries == Over([e \in current |-> Line(Rewritten(e))],
                        [e \in DOMAIN getOldEntryMap \ current |-> Line(LeftOut(e))])
    IN  Work([work EXCEPT !.processed = entries]) /\ Go

importDataIntoOpenldap == setting.ldap = "openldap" /\ ReplaceData
importDataIntoOpenDJ == setting.ldap = "opendj" /\ ReplaceData
importProcessedData == importDataIntoOpenldap \/ importDataIntoOpenDJ

(* Only the data files of OpenLDAP are given back to their owner.          *)
fixPermissions ==
    IF setting.ldap = "openldap" THEN Host([host EXCEPT !.owner = "ldap"]) /\ Go
    ELSE Same /\ Go

startSolserver == setting.ldap = "openldap" /\ Must("ldap", "running")
startOpenDJ == setting.ldap = "opendj" /\ TryTo("ldap", "running")
startLDAPServer == startSolserver \/ startOpenDJ

migrate == <<"getLDAPServerType", "verifyBackupData", "setupWorkDirectory",
             "stopWebapps", "stopLDAPServer", "copyCertificates",
             "copyCustomFiles", "copyIDPFiles", "copyCustomSchema",
             "exportInstallData", "processBackupData", "importProcessedData",
             "fixPermissions", "startLDAPServer">>

Import ==
    \/ At(migrate, "getLDAPServerType") /\ getLDAPServerType
    \/ At(migrate, "verifyBackupData") /\ verifyBackupData
    \/ At(migrate, "setupWorkDirectory") /\ setupWorkDirectory
    \/ At(migrate, "stopWebapps") /\ stopWebapps
    \/ At(migrate, "stopLDAPServer") /\ stopLDAPServer
    \/ At(migrate, "copyCertificates") /\ copyCertificates
    \/ At(migrate, "copyCustomFiles") /\ copyCustomFiles
    \/ At(migrate, "copyIDPFiles") /\ copyIDPFiles
    \/ At(migrate, "copyCustomSchema") /\ copyCustomSchema
    \/ At(migrate, "exportInstallData") /\ exportInstallData
    \/ At(migrate, "processBackupData") /\ processBackupData
    \/ At(migrate, "importProcessedData") /\ importProcessedData
    \/ At(migrate, "fixPermissions") /\ fixPermissions
    \/ At(migrate, "startLDAPServer") /\ startLDAPServer
=============================================================================
