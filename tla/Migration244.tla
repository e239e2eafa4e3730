---------------------------- MODULE Migration244 ----------------------------
(***************************************************************************)
(* import244.py: to 2.4.4, from a backup made by export24.py.  The LDIF of *)
(* the directory is exported, merged and imported while OpenDJ is stopped. *)
(***************************************************************************)
EXTENDS MigrationServers

verifyBackupFolder ==
    \/ backup.made /\ backup.properties # "none" /\ Same /\ Go
    \/ (~backup.made \/ backup.properties = "none") /\ Same /\ Stop

stopTomcat == TryTo("webapps", "stopped")
startTomcat == TryTo("webapps", "running")

stopOpenDJ == Must("ldap", "stopped")
startOpenDJ == TryTo("ldap", "running")

(* The folders of OpenDJ are left out.                                     *)
copyFiles == Copied(backup.files)

updateCertKeystore ==
    \/ Host([host EXCEPT !.files = @ \cup {"keystore"}]) /\ Go
    \/ Same /\ Stop

copyCustomLDAPSchema == Host([host EXCEPT !.schema = 1]) /\ Go

(* The directory is never cleaned: where nothing can be exported, the LDIF *)
(* of an earlier run may be there.                                         *)
exportLDIF ==
    \/ Work([work EXCEPT !.current = host.data]) /\ Go
    \/ /\ host.data = NoEntries
       /\ Same
       /\ IF work.current = NoEntries THEN Stop ELSE Go

(* The attribute is looked for in every line, but the line with its new    *)
(* name is not the one that is written.                                    *)
processPeople == Same /\ Go

getOldEntryMap ==
    OldEntryMap({"admin"} \cup (IF setting.oldVersion < 240 THEN {"appliance"} ELSE {}))

ignoreList == {"class", "jwks"}

Rewritten(e) ==
    LET new == work.current[e]
    IN  IF e \in DOMAIN getOldEntryMap
        THEN Merged(new, getOldEntryMap[e], ignoreList) ELSE new

(* What is not a list is dropped, as in import30.                          *)
LeftOut(e) == ListValues(getOldEntryMap[e], FALSE)

processLDIF ==
    LET current == DOMAIN work.current
        entries == Over([e \in current |-> Rewritten(e)],
                        [e \in DOMAIN getOldEntryMap \ current |-> LeftOut(e)])
    IN  Work([work EXCEPT !.processed = entries]) /\ Go

importLDIF == ReplaceData

setPermissions == Host([host EXCEPT !.owner = "ldap"]) /\ Go

migrate == <<"verifyBackupFolder", "stopTomcat", "stopOpenDJ", "copyFiles",
             "updateCertKeystore", "copyCustomLDAPSchema", "exportLDIF",
             "processPeople", "processLDIF", "importLDIF", "startOpenDJ",
             "setPermissions", "startTomcat">>

Import ==
    \/ At(migrate, "verifyBackupFolder") /\ verifyBackupFolder
    \/ At(migrate, "stopTomcat") /\ stopTomcat
    \/ At(migrate, "stopOpenDJ") /\ stopOpenDJ
    \/ At(migrate, "copyFiles") /\ copyFiles
    \/ At(migrate, "updateCertKeystore") /\ updateCertKeystore
    \/ At(migrate, "copyCustomLDAPSchema") /\ copyCustomLDAPSchema
    \/ At(migrate, "exportLDIF") /\ exportLDIF
    \/ At(migrate, "processPeople") /\ processPeople
    \/ At(migrate, "processLDIF") /\ processLDIF
    \/ At(migrate, "importLDIF") /\ importLDIF
    \/ At(migrate, "startOpenDJ") /\ startOpenDJ
    \/ At(migrate, "setPermissions") /\ setPermissions
    \/ At(migrate, "startTomcat") /\ startTomcat
=============================================================================
