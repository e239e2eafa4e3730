------------------------------ MODULE Migration ------------------------------
(***************************************************************************)
(* A migration: the export script on the old server, then the import       *)
(* script on the new one, whose applications go on writing to its          *)
(* directory while both run.  Either script may be interrupted, and run    *)
(* again.                                                                  *)
(***************************************************************************)
EXTENDS MigrationServers

M23 == INSTANCE Migration23
M24 == INSTANCE Migration24
M244 == INSTANCE Migration244
M30 == INSTANCE Migration30
M2431 == INSTANCE Migration2431
M3031 == INSTANCE Migration3031

(* The backup for import244 is the one of export24.                        *)
exportSteps == CASE setting.release = "23" -> M23!export
                 [] setting.release \in {"24", "244"} -> M24!export
                 [] setting.release = "30" -> M30!export
                 [] setting.release = "2431" -> M2431!export
                 [] setting.release = "3031" -> M3031!export
importSteps == CASE setting.release = "23" -> M23!migrate
                 [] setting.release = "24" -> M24!migrate
                 [] setting.release = "244" -> M244!migrate
                 [] setting.release = "30" -> M30!migrate
                 [] setting.release = "2431" -> M2431!migrate
                 [] setting.release = "3031" -> M3031!migrate

Init ==
    /\ setting \in {c \in Settings : Real(c)}
    /\ backup = [made |-> FALSE, ldif |-> NoEntries, files |-> {},
                 schema |-> "none", properties |-> "none"]
    /\ host = [webapps |-> "running", ldap |-> "running",
               data |-> NewEntries(setting), schema |-> 0,
               owner |-> "ldap", files |-> {},
               idpClient |-> IF setting.saml THEN "idp" ELSE "none"]
    /\ work = [bound |-> FALSE, current |-> NoEntries,
               processed |-> NoEntries, mods |-> {}, rejected |-> {}]
    /\ run = [phase |-> "export", step |-> 1, times |-> 1, state |-> "going",
              cut |-> FALSE, lost |-> FALSE, wrote |-> FALSE]

Export ==
    /\ run.phase = "export"
    /\ \/ setting.release = "23" /\ M23!Export
       \/ setting.release \in {"24", "244"} /\ M24!Export
       \/ setting.release = "30" /\ M30!Export
       \/ setting.release = "2431" /\ M2431!Export
       \/ setting.release = "3031" /\ M3031!Export

Import ==
    /\ run.phase = "import"
    /\ \/ setting.release = "23" /\ M23!Import
       \/ setting.release = "24" /\ M24!Import
       \/ setting.release = "244" /\ M244!Import
       \/ setting.release = "30" /\ M30!Import
       \/ setting.release = "2431" /\ M2431!Import
       \/ setting.release = "3031" /\ M3031!Import

steps == IF run.phase = "export" THEN exportSteps ELSE importSteps

Finish ==
    /\ run.state = "going" /\ run.step > Len(steps)
    /\ run' = [run EXCEPT !.state = "done"]
    /\ Same

(* Between any two steps the script may be interrupted. *)
Interrupted ==
    /\ run.state = "going" /\ run.step \in DOMAIN steps /\ run.times < MaxRuns
    /\ Stop /\ Same

(* It is run again after the services have been started, or as they are.   *)
RunAgain ==
    /\ run.state = "stopped" /\ run.times < MaxRuns
    /\ run' = [run EXCEPT !.state = "going", !.step = 1, !.times = @ + 1,
                          !.cut = FALSE, !.lost = @ \/ run.cut]
    /\ \/ Same
       \/ Host([host EXCEPT !.webapps = "running", !.ldap = "running"])

(* A finished import is run once more. *)
ImportAgain ==
    /\ run.phase = "import" /\ run.state = "done" /\ run.times < MaxRuns
    /\ run' = [run EXCEPT !.state = "going", !.step = 1, !.times = @ + 1]
    /\ Same

StartImport ==
    /\ run.phase = "export" /\ run.state = "done"
    /\ run' = [run EXCEPT !.phase = "import", !.step = 1, !.times = 1,
                          !.state = "going"]
    /\ Same

(* An application of the new server stores an entry. *)
ApplicationWrites ==
    /\ run.phase = "import" /\ ~run.wrote
    /\ host.webapps = "running" /\ host.ldap = "running"
    /\ Host([host EXCEPT !.data = Over(@, [e \in {"late"} |-> [name |-> "new"]])])
    /\ run' = [run EXCEPT !.wrote = TRUE]

Next ==
    /\ \/ Export \/ Import \/ Finish \/ Interrupted \/ RunAgain \/ ImportAgain
       \/ StartImport \/ ApplicationWrites
    /\ UNCHANGED setting

Spec == Init /\ [][Next]_state

-----------------------------------------------------------------------------
(* The variables have their types. *)
TypeOK ==
    /\ setting \in Settings /\ Real(setting)
    /\ run.step \in 1..(Len(steps) + 1) /\ run.times \in 1..MaxRuns
    /\ run.state \in {"going", "stopped", "done"}
    /\ host.webapps \in {"running", "stopped"}
    /\ host.ldap \in {"running", "stopped"}
    /\ DOMAIN host.data \subseteq
           DOMAIN OldEntries(setting) \cup DOMAIN NewEntries(setting)
           \cup {"idp_1", "idp_2", "late"} \cup {ById(e) : e \in OldFiles}
    /\ backup.ldif # NoEntries => backup.made
    /\ run.phase = "export" => work.current = NoEntries

Imported == run.phase = "import" /\ run.state = "done"

(* What an import does not take over, because the code says so or, as for  *)
(* idp, jwks, list and cache, because of how it goes about it: entries, and *)
(* attributes of an entry.                                                 *)
Skipped ==
    {"admin"}
    \cup (IF setting.release \in {"24", "244"} /\ setting.oldVersion < 240
          THEN {"appliance"} ELSE {})
    \cup (IF setting.release = "2431" THEN {"gluuStatus"} ELSE {})

NotTaken(e) ==
    {"class"}
    \cup (IF FileOf(e) = "scripts" /\ setting.release \in {"2431", "3031"}
          THEN {"name", "code", "status"} ELSE {})
    \cup (IF e = "appliance" /\ setting.release \in {"30", "2431", "3031"} /\ ~setting.idp
          THEN {"idp"} ELSE {})
    \cup (IF setting.release \in {"24", "244"} THEN {"jwks"} ELSE {})
    \cup (IF setting.release \in {"2431", "3031"} THEN {"type"} ELSE {})
    \cup (IF setting.release = "3031"
          THEN {"cache"} \cup (IF e = "uma_access" THEN {"name", "policy"} ELSE {})
          ELSE {})
    \cup (IF setting.release \in {"244", "30", "3031"} /\ setting.oldVersion >= 244
          THEN {"list"} ELSE {})

(* When an import is done, whatever has been interrupted before and        *)
(* however often it has been run, every entry of the backup but those      *)
(* Skipped is in the directory, under its DN or the one with oxId, with    *)
(* nothing of it but what is NotTaken replaced by what the new server had  *)
(* been installed with, or the server has rejected it (processBackupData,  *)
(* importProcessedData, migrate).                                          *)
OldDataKept ==
    Imported =>
        \A e \in DOMAIN backup.ldif \ (Skipped \cup work.rejected) :
            LET names == {e, ById(e)} \cap DOMAIN host.data
            IN  /\ names # {}
                /\ \A n \in names, a \in DOMAIN backup.ldif[e] \ NotTaken(e) :
                      /\ a \in DOMAIN host.data[n]
                      /\ host.data[n][a] # "new"

(* The client of a Shibboleth that is not there is removed by idpResolved, *)
(* and import23 deletes the administrator to add the people of the backup. *)
Replaced == {"idp_none"} \cup (IF setting.release = "23" THEN {"admin"} ELSE {})

(* When an import is done, the other entries of the new server that the    *)
(* old one did not have, and what its applications have stored while the scripts   *)
(* ran, are still there, unless a run of it has been interrupted between   *)
(* the emptying and the filling of the directory (exportInstallData,       *)
(* stopLDAPServer, stopWebapps, importProcessedData).                      *)
NewEntriesKept ==
    Imported /\ ~run.lost =>
        /\ DOMAIN NewEntries(setting) \ Replaced \subseteq DOMAIN host.data
        /\ run.wrote => "late" \in DOMAIN host.data

(* After import2431 and import3031 Shibboleth is configured with a client  *)
(* that is in the directory and named in setup.properties.last             *)
(* (idpResolved).                                                          *)
IdpClientKnown ==
    Imported /\ setting.release \in {"2431", "3031"} =>
        /\ host.idpClient \in DOMAIN host.data
        /\ host.data["oxidp"].client = host.idpClient

(* "Add client_credentials to oxAuthGrantType if client is custom client": *)
(* what import2431 is to do with the clients of the organisation's own.    *)
CustomClientCredentials ==
    Imported /\ setting.release = "2431" /\ "client" \in DOMAIN host.data =>
        host.data["client"].grants = "client_credentials"
=============================================================================
