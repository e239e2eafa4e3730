----------------------------- MODULE Migration23 -----------------------------
(***************************************************************************)
(* export23.py and import23.py: from 2.3 to 2.4.  The password is in       *)
(* /root/.pw, which the operator has written on both servers.              *)
(***************************************************************************)
EXTENDS MigrationServers

makeFolders == Backup([backup EXCEPT !.made = TRUE]) /\ Go

backupFiles ==
    /\ Backup([backup EXCEPT !.files = @ \cup {"certs", "conf", "idp"},
                             !.schema = "opendj"])
    /\ Go

(* /root/.pw holds the password of the directory or it does not.           *)
getLdif ==
    \E right \in BOOLEAN :
        \E failed \in IF right THEN {{}, {"people"}, {"clients"}, {"appliance"}}
                      ELSE {OldFiles} :
            /\ backup' = [backup EXCEPT !.ldif = Searched(failed \cup {"oxidp"})]
            /\ UNCHANGED <<host, work>>
            /\ Go

genProperties == Backup([backup EXCEPT !.properties = "inums"]) /\ Go
backupCustomizations == Backup([backup EXCEPT !.files = @ \cup {"pages"}]) /\ Go
backupTrustStores == Backup([backup EXCEPT !.files = @ \cup {"keystore"}]) /\ Go

export == <<"makeFolders", "backupFiles", "getLdif", "genProperties",
            "backupCustomizations", "backupTrustStores">>

Export ==
    \/ At(export, "makeFolders") /\ makeFolders
    \/ At(export, "backupFiles") /\ backupFiles
    \/ At(export, "getLdif") /\ getLdif
    \/ At(export, "genProperties") /\ genProperties
    \/ At(export, "backupCustomizations") /\ backupCustomizations
    \/ At(export, "backupTrustStores") /\ backupTrustStores

-----------------------------------------------------------------------------
(* The password that import23.py takes is right on the new server or not.  *)
verifyBackupFolder ==
    \/ /\ backup.made
       /\ \E right \in BOOLEAN : Work([work EXCEPT !.bound = right])
       /\ Go
    \/ ~backup.made /\ Same /\ Stop

stopOpenDJ == Must("ldap", "stopped")

(* The target is the path without its first character, which is the file   *)
(* on this server only if the backup was named as ./backup23; else the     *)
(* first folder cannot be made, and the script ends.                       *)
copyFiles ==
    \/ Host([host EXCEPT !.files = @ \cup backup.files, !.schema = 1]) /\ Go
    \/ Same /\ Stop

startOpenDJ == Must("ldap", "running")

getNewConfig ==
    Work([work EXCEPT !.current = IF work.bound THEN host.data ELSE NoEntries]) /\ Go

people == {e \in DOMAIN backup.ldif : FileOf(e) = "people"}
getOldEntryMap == OldEntryMap(people)

ignoreList == {"class"}

addEntry(entry) == [add |-> TRUE, values |-> entry]

writeMod(new, from) ==
    LET merged == Merged(new, from, ignoreList)
        changed == {a \in DOMAIN merged : a \in DOMAIN new => merged[a] # new[a]}
    IN  [add |-> FALSE, values |-> Restrict(merged, changed)]

restoreConfig ==
    LET old == getOldEntryMap
        ForEntry(e) == IF e \in DOMAIN work.current
                       THEN writeMod(work.current[e], old[e])
                       ELSE addEntry(old[e])
    IN  Work([work EXCEPT !.mods = @ \cup {<<e, ForEntry(e)>> : e \in DOMAIN old}]) /\ Go

(* The files are sent in the order of the folder.  Then the administrator  *)
(* of the new server is deleted, and people.ldif added, in its own order:  *)
(* what is there already, or cannot be, is passed over.                    *)
uploadConfig ==
    /\ UploadMods({"config", "appliance", "client"}, ~run.cut)
    /\ run' = IF run.cut THEN [run EXCEPT !.cut = FALSE, !.step = @ + 1]
              ELSE [run EXCEPT !.cut = TRUE]

deleteEntries ==
    IF work.bound
    THEN Host([host EXCEPT !.data = Restrict(@, DOMAIN @ \ {"admin"})]) /\ Go
    ELSE Same /\ Go

addPeople ==
    LET added == Accepted(Restrict(backup.ldif, people))
    IN  /\ IF work.bound
           THEN /\ host' = [host EXCEPT !.data = Over(@, Restrict(backup.ldif, added))]
                /\ work' = [work EXCEPT !.rejected = @ \cup (people \ added)]
           ELSE /\ work' = [work EXCEPT !.rejected = @ \cup people]
                /\ UNCHANGED host
        /\ UNCHANGED backup
        /\ Go

migrate == <<"verifyBackupFolder", "stopOpenDJ", "copyFiles", "startOpenDJ",
             "getNewConfig", "restoreConfig", "uploadConfig", "deleteEntries",
             "addPeople">>

Import ==
    \/ At(migrate, "verifyBackupFolder") /\ verifyBackupFolder
    \/ At(migrate, "stopOpenDJ") /\ stopOpenDJ
    \/ At(migrate, "copyFiles") /\ copyFiles
    \/ At(migrate, "startOpenDJ") /\ startOpenDJ
    \/ At(migrate, "getNewConfig") /\ getNewConfig
    \/ At(migrate, "restoreConfig") /\ restoreConfig
    \/ At(migrate, "uploadConfig") /\ uploadConfig
    \/ At(migrate, "deleteEntries") /\ deleteEntries
    \/ At(migrate, "addPeople") /\ addPeople
=============================================================================
