----------------------------- MODULE Migration24 -----------------------------
(***************************************************************************)
(* export24.py, and import24.py, which changes the directory of the new    *)
(* server while it runs: to 2.4 before 2.4.4.                              *)
(***************************************************************************)
EXTENDS MigrationServers

(* A sample search that is empty makes the script ask for the password.    *)
prepareLdapPW ==
    /\ \E right \in BOOLEAN : work' = [work EXCEPT !.bound = right]
    /\ UNCHANGED <<backup, host>>
    /\ Go

makeFolders == Backup([backup EXCEPT !.made = TRUE]) /\ Go

(* A folder that is in the backup already is not copied again. *)
backupFiles ==
    /\ Backup([backup EXCEPT !.files = @ \cup {"certs", "conf", "idp"},
                             !.schema = "opendj"])
    /\ Go

getLdif ==
    \E failed \in Failures :
        Backup([backup EXCEPT !.ldif = Searched(failed \cup {"oxidp"})]) /\ Go

(* A second run appends to the file, of which the first lines count.       *)
genProperties == Backup([backup EXCEPT !.properties = "version"]) /\ Go

backupCustomizations == Backup([backup EXCEPT !.files = @ \cup {"pages"}]) /\ Go

export == <<"prepareLdapPW", "makeFolders", "backupFiles", "getLdif",
            "genProperties", "backupCustomizations">>

Export ==
    \/ At(export, "prepareLdapPW") /\ prepareLdapPW
    \/ At(export, "makeFolders") /\ makeFolders
    \/ At(export, "backupFiles") /\ backupFiles
    \/ At(export, "getLdif") /\ getLdif
    \/ At(export, "genProperties") /\ genProperties
    \/ At(export, "backupCustomizations") /\ backupCustomizations

-----------------------------------------------------------------------------
verifyBackupFolder ==
    \/ backup.made /\ backup.properties # "none" /\ Same /\ Go
    \/ (~backup.made \/ backup.properties = "none") /\ Same /\ Stop

stopTomcat == TryTo("webapps", "stopped")
startTomcat == TryTo("webapps", "running")

(* Whether the directory takes the password in setup.properties.last.      *)
preparePasswordFile ==
    \E right \in BOOLEAN : Work([work EXCEPT !.bound = right]) /\ Go

stopOpenDJ == Must("ldap", "stopped")

(* The folder of OpenDJ, and with it the schema, is left out where its     *)
(* layout has changed.                                                     *)
copyFiles ==
    LET skipped == setting.oxVersion >= 243 /\ setting.oldVersion < 243
    IN  Host([host EXCEPT !.files = @ \cup backup.files,
                          !.schema = IF skipped THEN @ ELSE 1]) /\ Go

(* The certificate of the new OpenDJ is trusted in place of the old one.   *)
updateCertKeystore ==
    \/ Host([host EXCEPT !.files = @ \cup {"keystore"}]) /\ Go
    \/ Same /\ Stop

startOpenDJ == Must("ldap", "running")

getNewConfig ==
    Work([work EXCEPT !.current = IF work.bound THEN host.data ELSE NoEntries]) /\ Go

getOldEntryMap ==
    OldEntryMap({"admin"} \cup (IF setting.oldVersion < 240 THEN {"appliance"} ELSE {}))

ignoreList == {"class", "jwks"}

(* A file that adds an entry, and one that changes attributes of it. *)
addEntry(entry) ==
    [add |-> TRUE,
     values |-> IF setting.oxVersion >= 244 /\ setting.oldVersion < 244
                THEN ListValues(entry, TRUE) ELSE entry]

writeMod(new, from) ==
    LET merged == Merged(new, from, ignoreList)
        changed == {a \in DOMAIN merged : a \in DOMAIN new => merged[a] # new[a]}
    IN  [add |-> FALSE, values |-> Restrict(merged, changed)]

(* The files an earlier run has written are never removed.                 *)
restoreConfig ==
    LET old == getOldEntryMap
        ForEntry(e) == IF e \in DOMAIN work.current
                       THEN writeMod(work.current[e], old[e])
                       ELSE addEntry(old[e])
    IN  Work([work EXCEPT !.mods = @ \cup {<<e, ForEntry(e)>> : e \in DOMAIN old}]) /\ Go

(* The names of the files begin with the length of the DN, so that an      *)
(* entry is added before those below it.  A file the server refuses is     *)
(* only named in the log, and the next one follows.  (Bound: the script is *)
(* interrupted, if it is, between the files of two lengths.)               *)
uploadLDIF ==
    /\ UploadMods({"device", "config"}, ~run.cut)
    /\ run' = IF run.cut THEN [run EXCEPT !.cut = FALSE, !.step = @ + 1]
              ELSE [run EXCEPT !.cut = TRUE]

setPermissions == Host([host EXCEPT !.owner = "ldap"]) /\ Go

migrate == <<"verifyBackupFolder", "stopTomcat", "preparePasswordFile",
             "stopOpenDJ", "copyFiles", "updateCertKeystore", "startOpenDJ",
             "getNewConfig", "restoreConfig", "uploadLDIF", "setPermissions",
             "startTomcat">>

Import ==
    \/ At(migrate, "verifyBackupFolder") /\ verifyBackupFolder
    \/ At(migrate, "stopTomcat") /\ stopTomcat
    \/ At(migrate, "preparePasswordFile") /\ preparePasswordFile
    \/ At(migrate, "stopOpenDJ") /\ stopOpenDJ
    \/ At(migrate, "copyFiles") /\ copyFiles
    \/ At(migrate, "updateCertKeystore") /\ updateCertKeystore
    \/ At(migrate, "startOpenDJ") /\ startOpenDJ
    \/ At(migrate, "getNewConfig") /\ getNewConfig
    \/ At(migrate, "restoreConfig") /\ restoreConfig
    \/ At(migrate, "uploadLDIF") /\ uploadLDIF
    \/ At(migrate, "setPermissions") /\ setPermissions
    \/ At(migrate, "startTomcat") /\ startTomcat
=============================================================================
