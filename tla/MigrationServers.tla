--------------------------- MODULE MigrationServers ---------------------------
(***************************************************************************)
(* What the migration scripts of static/scripts share.  An old server is   *)
(* exported into a backup directory (exportNN.py); a new server has been   *)
(* installed with the properties of the old one, and importNN.py merges    *)
(* the backup into its directory.                                          *)
(*                                                                         *)
(* An entry is a function from the attributes it has to what they hold:    *)
(*   name   a plain value                 json   one JSON document         *)
(*   many   several values                list   SCIM values in JSON       *)
(*   class  objectClass                   idp    oxIDPAuthentication       *)
(*   code, status  oxScript, gluuStatus   mode   oxTrustAuthenticationMode *)
(*   grants oxAuthGrantType               uid    oxExternalUid             *)
(*   jwks   oxAuthConfWebKeys             custom of the organisation's own *)
(*   client openIdClientId of oxIDP       schema                           *)
(*   policy oxPolicyScriptDn              cache  oxCacheConfiguration      *)
(*   type   oxType and other attributes that later releases do not have    *)
(* Until 2.4.4 the SCIM values of a person were one JSON list.             *)
(* Values are "old" and "new" after the server they come from, "both" for  *)
(* a merged document, or name the form a script has given them.  The       *)
(* entries of o=site, which a cache refresh fills again, are left out.     *)
(***************************************************************************)
EXTENDS Naturals, Sequences, FiniteSets, Functions, FiniteSetsExt

CONSTANTS
    Releases,     \* the pairs of scripts, named after the import script
    OldVersions,  \* the releases of the old server
    OxVersions,   \* the releases of the new one
    MaxRuns       \* bound: times the import script is run

AllReleases == {"23", "24", "244", "30", "2431", "3031"}

ASSUME MigrationAssumption == /\ Releases \subseteq AllReleases
                              /\ OldVersions \subseteq Nat
                              /\ OxVersions \subseteq Nat
                              /\ MaxRuns \in Nat \ {0}

VARIABLES
    setting,      \* release, directory server, answers and versions
    backup,       \* the entries in backup/ldif, and the schema beside them
    host,         \* the new server
    work,         \* the working directory of the import script
    run           \* where the scripts are

state == <<setting, backup, host, work, run>>

(* The new server's directory server is ldap, the old one's was from; saml  *)
(* says that setup.properties.last of the new one names an IDP client, idp  *)
(* is the answer of the operator to "Migrate LDAP Server details".          *)
Settings ==
    [release : Releases, ldap : {"openldap", "opendj"},
     from : {"openldap", "opendj"}, idp : BOOLEAN, saml : BOOLEAN,
     oldVersion : OldVersions, oxVersion : OxVersions]

(* The combinations that exist.  OpenLDAP came with 3.0, and the client of *)
(* Shibboleth with 3.1; only import3031 asks about idp.                    *)
Real(c) ==
    /\ c.oldVersion < 300 => c.from = "opendj"
    /\ c.oxVersion < 300 => c.ldap = "opendj"
    /\ c.idp => c.release = "3031"
    /\ c.saml => c.release \in {"2431", "3031"}
    /\ CASE c.release = "23" -> c.oldVersion < 240 /\ c.oxVersion < 300
         [] c.release = "24" -> c.oldVersion <= c.oxVersion /\ c.oxVersion < 300
         [] c.release = "244" -> c.oldVersion <= 244 /\ c.oxVersion = 244
         [] c.release = "30" -> c.oldVersion \in 240..300 /\ c.oxVersion = 300
         [] c.release = "2431" -> c.oldVersion \in 240..299 /\ c.oxVersion > 310
         [] c.release = "3031" -> c.oldVersion >= 300 /\ c.oxVersion > 312

NoEntries == [e \in {} |-> <<>>]

(* The entries, or attributes, of f, and of g those that f has not; @@ of  *)
(* module TLC, for which the provers have no definition.                   *)
Over(f, g) == [x \in DOMAIN f \cup DOMAIN g |-> IF x \in DOMAIN f THEN f[x] ELSE g[x]]

(* uma_access is a scope for access to SCIM or Passport, gluuStatus the       *)
(* definition of that attribute; the other names speak for themselves.     *)
OldEntries(c) ==
    LET objectClass == IF c.oldVersion < 300 THEN "ox" ELSE "gluu"
    IN  [admin |-> [name |-> "old", class |-> objectClass],
         person |-> [name |-> "old", uid |-> "old", class |-> objectClass,
                     list |-> IF c.oldVersion < 244 THEN "list" ELSE "object"],
         device |-> [name |-> "old"],
         employee |-> [name |-> "old", custom |-> "old", class |-> objectClass],
         client |-> [name |-> "old", grants |-> "old"],
         unnamed |-> [grants |-> "old"],
         login |-> [name |-> "old", many |-> "old"],
         F995 |-> [name |-> "old", code |-> "old", status |-> "true"],
         own_script |-> [name |-> "old", code |-> "old", status |-> "true"],
         uma_script |-> [name |-> "old", code |-> "old", status |-> "true"],
         appliance |-> [name |-> "old", idp |-> "old", mode |-> "internal",
                        cache |-> "old"],
         config |-> [json |-> "old", jwks |-> "old"],
         oxidp |-> [json |-> "old", client |-> "old"],
         resource |-> [name |-> "old", type |-> "old"],
         uma_access |-> [name |-> "old", policy |-> "old"],
         gluuStatus |-> [name |-> "old"],
         sector |-> [name |-> "old"]]

OldFiles == {"people", "clients", "scripts", "appliance", "config", "oxidp",
             "resource", "gluuStatus", "sector"}

NewEntries(c) ==
    Over([admin |-> [name |-> "new",
                     class |-> IF c.oxVersion < 300 THEN "ox" ELSE "gluu"],
          login |-> [name |-> "new", many |-> "new"],
          F995 |-> [name |-> "new", code |-> "new", status |-> "false"],
          F9A5 |-> [name |-> "new", code |-> "new", status |-> "false"],
          appliance |-> [name |-> "new", idp |-> "new", mode |-> "new",
                         cache |-> "new"],
          uma_access |-> [name |-> "new", policy |-> "new"],
          config |-> [json |-> "new", jwks |-> "new"],
          oxidp |-> [json |-> "new", client |-> IF c.saml THEN "idp" ELSE "none"]],
         IF c.saml THEN [idp |-> [name |-> "new"]] ELSE [idp_none |-> [name |-> "new"]])

FileOf(e) ==
    CASE e \in {"admin", "person", "device", "employee"} -> "people"
      [] e \in {"client", "unnamed", "login"} -> "clients"
      [] e \in {"F995", "F9A5", "own_script", "uma_script"} -> "scripts"
      [] e \in {"resource", "uma_access"} -> "resource"
      [] OTHER -> e

(* device is an entry below person. *)
Orphan(e, data) == e = "device" /\ "person" \notin DOMAIN data

(* Entries that are given another DN, with oxId in place of inum. *)
ById(e) == CASE e = "resource" -> "resource_oxId"
             [] e = "sector" -> "sector_oxId"
             [] OTHER -> e

-----------------------------------------------------------------------------
(* The next step of the running script, or its end by sys.exit or by an    *)
(* exception.                                                              *)
At(steps, name) ==
    run.state = "going" /\ run.step \in DOMAIN steps /\ steps[run.step] = name
Go == run' = [run EXCEPT !.step = @ + 1]
Stop == run' = [run EXCEPT !.state = "stopped"]

Host(h) == host' = h /\ UNCHANGED <<backup, work>>
Work(w) == work' = w /\ UNCHANGED <<backup, host>>
Backup(b) == backup' = b /\ UNCHANGED <<host, work>>
Same == UNCHANGED <<backup, host, work>>

(* What an export cannot search: all of it when the password is not the    *)
(* one of the directory any more, else at most one of three files.  The    *)
(* error is only logged, and the file of the backup is empty.              *)
Failures ==
    IF work.bound THEN {{}, {"people"}, {"clients"}, {"appliance"}}
    ELSE {OldFiles}
Searched(failed) ==
    LET old == OldEntries(setting)
    IN  Restrict(old, {e \in DOMAIN old : FileOf(e) \notin failed})

Copied(what) == Host([host EXCEPT !.files = @ \cup what]) /\ Go

(* Stopping and starting a service, when a failure is only logged and when *)
(* it ends the script.                                                     *)
TryTo(service, s) ==
    (Host([host EXCEPT ![service] = s]) \/ Same) /\ Go
Must(service, s) ==
    \/ Host([host EXCEPT ![service] = s]) /\ Go
    \/ Same /\ Stop

(* LDIF is exported from the data files: with none there, or a schema that *)
(* defines an attribute twice, no file may be written, and the script      *)
(* fails when it opens it.                                                 *)
ExportData ==
    \/ /\ host.schema <= 1
       /\ Work([work EXCEPT !.current = host.data]) /\ Go
    \/ /\ host.data = NoEntries \/ host.schema > 1
       /\ Same /\ Stop

(* The import empties the directory, and then fills it; an entry with an   *)
(* attribute or a class that the schema lacks is only named in a log.      *)
EmptyData ==
    /\ ~run.cut
    /\ Host([host EXCEPT !.data = NoEntries, !.owner = "root"])
    /\ run' = [run EXCEPT !.cut = TRUE]

Known(entry) ==
    /\ "custom" \notin DOMAIN entry
    /\ "class" \in DOMAIN entry /\ entry.class = "ox" => setting.oxVersion < 300

Accepted(data) ==
    {e \in DOMAIN data : \/ host.schema > 0
                         \/ Known(data[e])}
FillData ==
    /\ run.cut
    /\ host' = [host EXCEPT !.data = Restrict(work.processed,
                                              Accepted(work.processed))]
    /\ work' = [work EXCEPT !.rejected = DOMAIN work.processed
                                             \ Accepted(work.processed)]
    /\ UNCHANGED backup
    /\ run' = [run EXCEPT !.cut = FALSE, !.step = @ + 1]
ReplaceData == EmptyData \/ FillData

(* ldapmodify with the files of the entries that are, or are not, in some  *)
(* set.  A change of an entry that is not there and an entry that is there *)
(* already are refused, and so is all of it with another password.         *)
Take(data, file) ==
    LET e == file[1]
        entry == IF e \in DOMAIN data THEN data[e] ELSE <<>>
        taken == Over(file[2].values, entry)
    IN  IF \/ ~work.bound
           \/ file[2].add = (e \in DOMAIN data)
           \/ Orphan(e, data)
           \/ host.schema = 0 /\ ~Known(file[2].values)
        THEN data
        ELSE [d \in DOMAIN data \cup {e} |-> IF d = e THEN taken ELSE data[d]]

UploadMods(deep, first) ==
    LET files == {f \in work.mods : (f[1] \in deep) # first}
        data == FoldSet(LAMBDA f, d : Take(d, f), host.data, files)
    IN  /\ host' = [host EXCEPT !.data = data]
        /\ work' = [work EXCEPT !.rejected =
               (IF first THEN {} ELSE @)
               \cup {f[1] : f \in {g \in files : ~work.bound
                                               \/ g[1] \notin DOMAIN data}}]
        /\ UNCHANGED backup

-----------------------------------------------------------------------------
(* The entries of the backup, without those the script does not take.      *)
OldEntryMap(skipped) ==
    Restrict(backup.ldif, DOMAIN backup.ldif \ skipped)

(* Mistake: an attribute both have is left as the new server has it.       *)
MergedMissing(new, from, ignored) == Over(new, Restrict(from, DOMAIN from \ ignored))

(* An entry both servers have.  An attribute is kept if it is ignored,     *)
(* taken from the old server if the new one lacks it, merged if both hold  *)
(* one JSON document, and else taken from the old server.                  *)
Merged(new, from, ignored) ==
    LET take == DOMAIN from \ ignored
        Value(a) == IF a \notin take THEN new[a]
                    ELSE IF a = "json" /\ a \in DOMAIN new /\ new[a] # from[a]
                    THEN "both"
                    ELSE from[a]
    IN  [a \in DOMAIN new \cup take |-> Value(a)]

(* Lines of these attributes are not written.                              *)
Without(entry, attributes) == Restrict(entry, DOMAIN entry \ attributes)

With(entry, a, value) ==
    [b \in DOMAIN entry \cup {a} |-> IF b = a THEN value ELSE entry[b]]
Setting(entry, a, value) ==
    IF a \in DOMAIN entry THEN With(entry, a, value) ELSE entry

(* Lists of JSON values become the values; keeps says whether a value that *)
(* is not a list is kept, as it must be where there are no lists any more. *)
ListValues(entry, keeps) ==
    IF "list" \notin DOMAIN entry THEN entry
    ELSE IF entry.list = "list" THEN With(entry, "list", "object")
    ELSE IF keeps THEN entry
    ELSE Restrict(entry, DOMAIN entry \ {"list"})
=============================================================================
