-------------------------- MODULE Migration_proofs --------------------------
(***************************************************************************)
(* Proofs about Migration, for every set of releases and versions and      *)
(* every number of runs.  What an import does to the entries is followed   *)
(* through its steps: what the exported, merged and stored entries are at  *)
(* each place of the script, until it is done.                             *)
(***************************************************************************)
EXTENDS Migration, FiniteSetTheorems, TLAPS

-----------------------------------------------------------------------------
(* Where the scripts are.                                                  *)

Replacing == setting.release \in {"244", "30", "2431", "3031"}
Uploading == setting.release \in {"23", "24"}

Place(in244, in30, in2431, in3031) ==
    CASE setting.release = "244" -> in244
      [] setting.release = "30" -> in30
      [] setting.release = "2431" -> in2431
      [] OTHER -> in3031

\* The steps that stop the directory server, export its entries, merge them
\* with the backup, fill the directory again, and look for the IDP client.
Stops    == Place(3, 5, 9, 6)
Exports  == Place(7, 10, 10, 11)
Merges   == Place(9, 11, 11, 12)
Fills    == Merges + 1
Resolves == Place(0, 0, 15, 16)

\* The steps of the first two scripts that read the entries of the running
\* directory, and that send the files.
Reads   == IF setting.release = "23" THEN 5 ELSE 8
Uploads == Reads + 2

\* The step of an export that makes the folders.
Folders == IF setting.release \in {"23", "2431"} THEN 1 ELSE 2

\* The entries of the files that are sent second.
Deep == IF setting.release = "23" THEN {"config", "appliance", "client"}
        ELSE {"device", "config"}

-----------------------------------------------------------------------------
(* The entries.                                                            *)

OldNames ==
    {"admin", "person", "device", "employee", "client", "unnamed", "login",
     "F995", "own_script", "uma_script", "appliance", "config", "oxidp",
     "resource", "uma_access", "gluuStatus", "sector"}
NewNames ==
    {"admin", "login", "F995", "F9A5", "appliance", "uma_access", "config", "oxidp"}
ByIds == {"resource_oxId", "sector_oxId"}

AllNames ==
    OldNames \cup NewNames \cup ByIds \cup {"idp_1", "idp_2", "late"}
    \cup {IF setting.saml THEN "idp" ELSE "idp_none"}

OldAttributes(e) ==
    CASE e = "admin" -> {"name", "class"}
      [] e = "person" -> {"name", "uid", "list", "class"}
      [] e = "employee" -> {"name", "custom", "class"}
      [] e = "client" -> {"name", "grants"}
      [] e = "unnamed" -> {"grants"}
      [] e = "login" -> {"name", "many"}
      [] e \in {"F995", "own_script", "uma_script"} -> {"name", "code", "status"}
      [] e = "appliance" -> {"name", "idp", "mode", "cache"}
      [] e \in {"resource", "resource_oxId"} -> {"name", "type"}
      [] e = "uma_access" -> {"name", "policy"}
      [] e = "config" -> {"json", "jwks"}
      [] e = "oxidp" -> {"json", "client"}
      [] OTHER -> {"name"}

\* The attributes that two of the imports write for no entry.
Lost == IF setting.release \in {"2431", "3031"} THEN {"type"} ELSE {}

\* What is known of an entry wherever it is kept.
SoundEntry(n, x) ==
    /\ n = "oxidp" => "client" \in DOMAIN x
    /\ "code" \in DOMAIN x => FileOf(n) = "scripts"
    /\ n \in NewNames \cup ByIds \cup {"idp", "idp_none", "late"} => Known(x)
    /\ n \in ByIds => "name" \in DOMAIN x /\ x["name"] # "new"
    /\ n = "resource_oxId" /\ Lost = {} => "type" \in DOMAIN x /\ x["type"] # "new"
    /\ setting.release = "24" /\ n = "employee" =>
           "custom" \in DOMAIN x /\ x["custom"] = "old"

SoundData(d) == DOMAIN d \subseteq AllNames /\ \A n \in DOMAIN d : SoundEntry(n, d[n])

\* The backup holds entries of the old server with the attributes they had.
SoundBackup(ldif) ==
    /\ DOMAIN ldif \subseteq OldNames \cup {"resource_oxId"}
    /\ "resource_oxId" \in DOMAIN ldif =>
           setting.release = "3031" /\ "resource" \notin DOMAIN ldif
    /\ \A e \in DOMAIN ldif :
          /\ DOMAIN ldif[e] = OldAttributes(e)
          /\ \A a \in OldAttributes(e) : ldif[e][a] # "new"
    /\ "employee" \in DOMAIN ldif => ldif["employee"]["custom"] = "old"
    /\ "person" \in DOMAIN ldif =>
          ldif["person"]["list"] = IF setting.oldVersion < 244 THEN "list" ELSE "object"

\* What the backup has of e, and the import takes, is in the entry x.
Complete(e, x) ==
    \A a \in DOMAIN backup.ldif[e] \ NotTaken(e) : a \in DOMAIN x /\ x[a] # "new"

InPlace(e, d) ==
    /\ {e, ById(e)} \cap DOMAIN d # {}
    /\ \A n \in {e, ById(e)} \cap DOMAIN d : Complete(e, d[n])

Stored(e, d) == e \in DOMAIN d /\ Complete(e, d[e])

-----------------------------------------------------------------------------
(* The inductive invariant, in parts.                                      *)

\* The variables have their fields, and the small ones their types.
Shapes ==
    /\ DOMAIN host = {"webapps", "ldap", "data", "schema", "owner", "files", "idpClient"}
    /\ DOMAIN work = {"bound", "current", "processed", "mods", "rejected"}
    /\ DOMAIN backup = {"made", "ldif", "files", "schema", "properties"}
    /\ DOMAIN run = {"phase", "step", "times", "state", "cut", "lost", "wrote"}
    /\ host.webapps \in {"running", "stopped"} /\ host.ldap \in {"running", "stopped"}
    /\ host.idpClient \in {"none", "idp", "idp_1", "idp_2"}
    /\ work.bound \in BOOLEAN
    /\ run.phase \in {"export", "import"} /\ run.state \in {"going", "stopped", "done"}
    /\ run.times \in 1..MaxRuns /\ run.step \in 1..(Len(steps) + 1)
    /\ run.cut \in BOOLEAN /\ run.lost \in BOOLEAN /\ run.wrote \in BOOLEAN
    /\ run.state = "done" => run.step = Len(steps) + 1
    /\ setting \in Settings /\ Real(setting)

Exporting ==
    /\ backup.ldif # NoEntries => backup.made
    /\ run.phase = "export" =>
          /\ host.data = NewEntries(setting)
          /\ work.current = NoEntries /\ work.mods = {}
          /\ ~run.cut /\ ~run.wrote
          /\ run.step > Folders => backup.made

Sounds ==
    /\ SoundBackup(backup.ldif) /\ SoundData(host.data)
    /\ SoundData(work.current) /\ SoundData(work.processed)

\* What the import must not lose: the entries of the new server, and the one
\* an application has stored meanwhile.
ToKeep ==
    (DOMAIN NewEntries(setting) \ Replaced) \cup (IF run.wrote THEN {"late"} ELSE {})

Keeping ==
    /\ Uploading \/ (~run.lost /\ ~run.cut) => ToKeep \subseteq DOMAIN host.data
    /\ Replacing /\ ~run.lost /\ run.phase = "import" =>
          /\ run.step \in (Exports + 1)..Merges => ToKeep \subseteq DOMAIN work.current
          /\ run.step = Fills => ToKeep \subseteq DOMAIN work.processed
    /\ Replacing /\ run.phase = "import" /\ run.step \in (Stops + 1)..Fills =>
          host.ldap = "stopped"
    /\ run.cut =>
          run.phase = "import" /\ run.step = (IF Replacing THEN Fills ELSE Uploads)

\* The entries of the backup where the directory is emptied and filled again.
Merging ==
    Replacing /\ run.phase = "import" =>
        /\ run.step = Fills =>
              \A e \in DOMAIN backup.ldif \ Skipped : InPlace(e, work.processed)
        /\ run.step > Fills =>
              \A e \in DOMAIN backup.ldif \ (Skipped \cup work.rejected) :
                  InPlace(e, host.data)

People == {e \in DOMAIN backup.ldif : FileOf(e) = "people"}
Changed == IF setting.release = "23" THEN DOMAIN backup.ldif \ People
           ELSE DOMAIN backup.ldif \ Skipped

\* A file of changes to the running directory.
SoundFile(f) ==
    /\ f[1] \in Changed /\ f[2].add \in BOOLEAN
    /\ DOMAIN f[2].values \subseteq OldAttributes(f[1])
    /\ \A a \in DOMAIN f[2].values : f[2].values[a] # "new"
    /\ f[2].add => DOMAIN f[2].values = OldAttributes(f[1])
    /\ f[2].add /\ f[1] = "employee" => f[2].values["custom"] = "old"
    /\ ~f[2].add => DOMAIN f[2].values \cap {"custom", "class"} = {}

Filed == IsFiniteSet(work.mods) /\ \A f \in work.mods : SoundFile(f)

\* What is still the new server's in an entry will be changed by a file.
Covered(e, d) ==
    \A a \in DOMAIN backup.ldif[e] \ NotTaken(e) :
        \/ a \in DOMAIN d[e] /\ d[e][a] # "new"
        \/ \E f \in work.mods : f[1] = e /\ ~f[2].add /\ a \in DOMAIN f[2].values

\* The entries of the backup where files of changes are sent.
Sending ==
    Uploading /\ run.phase = "import" =>
        /\ run.step = Reads + 1 /\ work.bound =>
              \A e \in Changed :
                 /\ e \in DOMAIN host.data <=> e \in DOMAIN work.current
                 /\ e \in DOMAIN host.data => host.data[e] = work.current[e]
        /\ run.step = Uploads =>
              \A e \in Changed :
                 /\ \E f \in work.mods : f[1] = e
                 /\ run.cut /\ e \notin Deep =>
                        e \in work.rejected \/ Stored(e, host.data)
                 /\ (~run.cut \/ e \in Deep) /\ work.bound /\ e \in DOMAIN host.data =>
                        Covered(e, host.data)
        /\ run.step > Uploads =>
              \A e \in Changed : e \in work.rejected \/ Stored(e, host.data)
        /\ setting.release = "24" /\ "device" \in DOMAIN host.data =>
              "person" \in DOMAIN host.data

\* The people of a backup of 2.3, which are added last.
Adding ==
    setting.release = "23" /\ run.phase = "import" =>
        /\ run.step > 9 =>
              \A e \in People \ {"admin"} : e \in work.rejected \/ Stored(e, host.data)
        /\ \A e \in (People \ {"admin"}) \cap DOMAIN host.data : Stored(e, host.data)

\* The client of Shibboleth.
NewIdpClient == IF run.times = 1 THEN "idp_1" ELSE "idp_2"

Resolving ==
    setting.release \in {"2431", "3031"} /\ run.phase = "import" =>
        /\ run.step > Resolves =>
              (IF host.idpClient = "none" THEN NewIdpClient ELSE host.idpClient)
                  \in DOMAIN host.data
        /\ run.step > Resolves + 1 => host.idpClient # "none"
        /\ run.step > Resolves + 2 =>
              /\ "oxidp" \in DOMAIN host.data
              /\ host.data["oxidp"].client = host.idpClient

IInv == /\ Shapes /\ Exporting /\ Sounds /\ Keeping /\ Merging
        /\ Filed /\ Sending /\ Adding /\ Resolving

-----------------------------------------------------------------------------
(* The fold of an upload.                                                  *)

\* A set of subsets of a finite set has a member from which no element can be
\* taken without leaving the set.
LEMMA LeastSubset ==
    ASSUME NEW S, IsFiniteSet(S), NEW T \in SUBSET (SUBSET S), T # {}
    PROVE  \E s \in T : \A x \in s : s \ {x} \notin T
<1> DEFINE R == {ss \in (SUBSET S) \X (SUBSET S) : ss[1] \subseteq ss[2] /\ ss[1] # ss[2]}
<1>1. IsWellFoundedOn(R, SUBSET S)
  <2>1. FiniteSubsetsOf(S) = SUBSET S
    BY FS_Subset DEF FiniteSubsetsOf
  <2>2. IsWellFoundedOn(StrictSubsetOrdering(S), FiniteSubsetsOf(S))
    BY FS_StrictSubsetOrderingWellFounded
  <2>3. StrictSubsetOrdering(S) = R
    BY DEF StrictSubsetOrdering
  <2>4. QED BY <2>1, <2>2, <2>3
<1>2. T \subseteq SUBSET S  OBVIOUS
<1>3. \E x \in T : \A y \in T : ~(<<y, x>> \in R)
  <2> HIDE DEF R
  <2>1. QED BY <1>1, <1>2, WFMin
<1>4. QED BY <1>3

\* The fold over the files of an upload, as a function from the files sent so
\* far, in any order, to the directory they leave.
ByFile(s) == CHOOSE x \in s : TRUE

Sent(g, data, sets) ==
    g = [s \in sets |-> IF s = {} THEN data ELSE Take(g[s \ {ByFile(s)}], ByFile(s))]

\* There is such a function over the parts of any finite set of files.
LEMMA SentExists ==
    ASSUME NEW files, IsFiniteSet(files), NEW data
    PROVE  \E g : Sent(g, data, SUBSET files)
<1> DEFINE Small(n) == {s \in SUBSET files : Cardinality(s) <= n}
           Bad == {n \in Nat : ~\E g : Sent(g, data, Small(n))}
<1>1. \A s \in SUBSET files : IsFiniteSet(s) /\ Cardinality(s) \in Nat
  BY FS_Subset, FS_CardinalityType
<1>2. \A s \in SUBSET files : s # {} =>
          /\ ByFile(s) \in s
          /\ s \ {ByFile(s)} \in SUBSET files
          /\ Cardinality(s \ {ByFile(s)}) = Cardinality(s) - 1
  BY <1>1, FS_RemoveElement DEF ByFile
<1>3. \A s \in SUBSET files : Cardinality(s) = 0 <=> s = {}
  BY <1>1, FS_EmptySet
<1>4. 0 \notin Bad
  <2>1. Small(0) = {{}}
    BY <1>1, <1>3, FS_EmptySet
  <2> DEFINE g == [s \in {{}} |-> data]
  <2>2. Sent(g, data, {{}})
    BY DEF Sent
  <2> QED
    BY <2>1, <2>2
<1>5. ASSUME NEW n \in Nat, n \notin Bad
      PROVE  n + 1 \notin Bad
  <2>1. PICK h : Sent(h, data, Small(n))
    BY <1>5
  <2> DEFINE g == [s \in Small(n + 1) |->
                      IF s = {} THEN data ELSE Take(h[s \ {ByFile(s)}], ByFile(s))]
  <2>2. \A s \in Small(n) : s \in Small(n + 1) /\ g[s] = h[s]
    <3>1. \A s \in Small(n) : s \in Small(n + 1)
      BY <1>1
    <3>2. \A s \in Small(n) :
              h[s] = IF s = {} THEN data ELSE Take(h[s \ {ByFile(s)}], ByFile(s))
      <4> HIDE DEF Small
      <4>1. QED BY <2>1 DEF Sent
    <3> QED
      BY <3>1, <3>2
  <2>3. \A s \in Small(n + 1) : s # {} => s \ {ByFile(s)} \in Small(n)
    BY <1>1, <1>2
  <2>4. \A s \in Small(n + 1) : s # {} => g[s \ {ByFile(s)}] = h[s \ {ByFile(s)}]
    BY <2>2, <2>3
  <2>5. Sent(g, data, Small(n + 1))
    BY <2>4 DEF Sent
  <2> QED
    BY <2>5
<1>6. Bad = {}
  <2>1. SUFFICES ASSUME Bad # {}  PROVE FALSE
    OBVIOUS
  <2> HIDE DEF Bad
  <2>2. Bad \subseteq Nat
    BY DEF Bad
  <2>3. \E i \in Bad : \A j \in Bad : ~(<<j, i>> \in OpToRel(<, Nat))
    BY <2>1, <2>2, NatLessThanWellFounded, WFMin
  <2>4. \A i, j \in Nat : ~(<<j, i>> \in OpToRel(<, Nat)) => i <= j
    BY DEF OpToRel
  <2>5. PICK i \in Bad : \A j \in Bad : i <= j
    BY <2>2, <2>3, <2>4
  <2>6. i \in Nat /\ i # 0
    BY <1>4, <2>2
  <2>7. i - 1 \in Nat /\ i - 1 \notin Bad
    BY <2>5, <2>6
  <2>8. (i - 1) + 1 \notin Bad
    BY <1>5, <2>7
  <2>9. (i - 1) + 1 = i
    BY <2>6
  <2> QED
    BY <2>5, <2>8, <2>9
<1>7. Cardinality(files) \in Nat
  BY <1>1
<1>8. \A s \in SUBSET files : Cardinality(s) <= Cardinality(files)
  BY FS_Subset
<1>9. Small(Cardinality(files)) = SUBSET files
  BY <1>8
<1> QED
  BY <1>6, <1>7, <1>9

\* The fold of an upload over its files is the last value of that function.
LEMMA UploadIsSent ==
    ASSUME NEW files, IsFiniteSet(files), NEW data
    PROVE  \E g : /\ Sent(g, data, SUBSET files)
                  /\ FoldSet(LAMBDA f, d : Take(d, f), data, files) = g[files]
<1> DEFINE g == CHOOSE iter : Sent(iter, data, SUBSET files)
<1>1. Sent(g, data, SUBSET files)
  BY SentExists
<1>2. FoldSet(LAMBDA f, d : Take(d, f), data, files) = g[files]
  BY DEF FoldSet, MapThenFoldSet, Sent, ByFile
<1> QED
  BY <1>1, <1>2

-----------------------------------------------------------------------------
(* The entries of the two servers.                                         *)

\* Over(f, g) prefers f.
LEMMA Prefers ==
    ASSUME NEW f, NEW g
    PROVE  /\ DOMAIN Over(f, g) = DOMAIN f \cup DOMAIN g
           /\ \A x \in DOMAIN f : Over(f, g)[x] = f[x]
           /\ \A x \in DOMAIN g \ DOMAIN f : Over(f, g)[x] = g[x]
  BY DEF Over

\* What the old server had.
LEMMA OldServer ==
    ASSUME NEW c
    PROVE  /\ DOMAIN OldEntries(c) = OldNames
           /\ \A e \in OldNames :
                 /\ DOMAIN OldEntries(c)[e] = OldAttributes(e)
                 /\ \A a \in OldAttributes(e) : OldEntries(c)[e][a] # "new"
           /\ OldEntries(c)["employee"]["custom"] = "old"
           /\ OldEntries(c)["person"]["list"] =
                 IF c.oldVersion < 244 THEN "list" ELSE "object"
  BY DEF OldEntries, OldNames, OldAttributes

\* What the new server had been installed with.
LEMMA NewServer ==
    ASSUME setting \in Settings, Real(setting)
    PROVE  /\ DOMAIN NewEntries(setting)
                 = NewNames \cup (IF setting.saml THEN {"idp"} ELSE {"idp_none"})
           /\ SoundData(NewEntries(setting))
<1> DEFINE new == NewEntries(setting)
           first ==
              [admin |-> [name |-> "new",
                          class |-> IF setting.oxVersion < 300 THEN "ox" ELSE "gluu"],
               login |-> [name |-> "new", many |-> "new"],
               F995 |-> [name |-> "new", code |-> "new", status |-> "false"],
               F9A5 |-> [name |-> "new", code |-> "new", status |-> "false"],
               appliance |-> [name |-> "new", idp |-> "new", mode |-> "new",
                              cache |-> "new"],
               uma_access |-> [name |-> "new", policy |-> "new"],
               config |-> [json |-> "new", jwks |-> "new"],
               oxidp |-> [json |-> "new",
                          client |-> IF setting.saml THEN "idp" ELSE "none"]]
           second == IF setting.saml THEN [idp |-> [name |-> "new"]]
                     ELSE [idp_none |-> [name |-> "new"]]
<1>1. new = Over(first, second)
  BY DEF NewEntries
<1>2. DOMAIN first = NewNames
  BY DEF NewNames
<1>3. DOMAIN second = IF setting.saml THEN {"idp"} ELSE {"idp_none"}
  OBVIOUS
<1>4. \A n \in NewNames : SoundEntry(n, first[n])
  <2>1. \A n \in NewNames \ {"F995", "F9A5"} : "code" \notin DOMAIN first[n]
    BY DEF NewNames
  <2>2. \A n \in NewNames : Known(first[n])
    BY DEF NewNames, Known
  <2>3. "client" \in DOMAIN first["oxidp"]
    OBVIOUS
  <2> HIDE DEF first
  <2> QED
    BY <2>1, <2>2, <2>3 DEF NewNames, SoundEntry, FileOf, ByIds
<1>5. \A n \in {"idp", "idp_none"} : n \in DOMAIN second => SoundEntry(n, second[n])
  BY <1>3 DEF SoundEntry, Known, ByIds
<1> HIDE DEF new, first, second
<1>6. /\ DOMAIN Over(first, second) = DOMAIN first \cup DOMAIN second
      /\ \A x \in DOMAIN first : Over(first, second)[x] = first[x]
      /\ \A x \in DOMAIN second \ DOMAIN first : Over(first, second)[x] = second[x]
  BY Prefers
<1>7. \A n \in DOMAIN new :
          \/ n \in NewNames /\ new[n] = first[n]
          \/ n \in DOMAIN second /\ new[n] = second[n]
  BY <1>1, <1>2, <1>3, <1>6 DEF NewNames
<1>8. DOMAIN new = NewNames \cup (IF setting.saml THEN {"idp"} ELSE {"idp_none"})
  BY <1>1, <1>2, <1>3, <1>6
<1>9. \A n \in DOMAIN new : SoundEntry(n, new[n])
  BY <1>3, <1>4, <1>5, <1>7
<1> QED
  BY <1>8, <1>9 DEF new, SoundData, AllNames

-----------------------------------------------------------------------------
(* What a merge makes of an entry.                                         *)

\* y is the entry x with attributes rewritten, added or, if they are in
\* drop, left out.
Follows(y, x, drop) ==
    /\ DOMAIN x \ drop \subseteq DOMAIN y
    /\ DOMAIN y \subseteq DOMAIN x \cup {"smtp", "logout", "status", "grants"}
    /\ \A a \in DOMAIN x \cap DOMAIN y :
          \/ y[a] = x[a]
          \/ a = "logout"
          \/ y[a] # "new" /\ y[a] # "ox" /\ a \notin {"name", "client", "custom"}

\* An entry follows itself, and what follows it follows what it follows.
LEMMA FollowsItself ==
    ASSUME NEW x
    PROVE  Follows(x, x, {})
  BY DEF Follows

\* What follows an entry that follows a third follows the third.
LEMMA FollowsTwice ==
    ASSUME NEW x, NEW y, NEW z, NEW drop \in SUBSET {"list", "type"},
           NEW first \in SUBSET drop, NEW second \in SUBSET drop,
           Follows(y, x, first), Follows(z, y, second)
    PROVE  Follows(z, x, drop)
<1>1. \A a \in DOMAIN x \cap DOMAIN z : a \in DOMAIN y
  BY DEF Follows
<1> QED
  BY <1>1 DEF Follows

\* Without leaves attributes out.
LEMMA FollowsWithout ==
    ASSUME NEW x, NEW drop
    PROVE  Follows(Without(x, drop), x, drop)
  BY DEF Follows, Without, Restrict

\* With and Setting give one attribute another value.
LEMMA FollowsWith ==
    ASSUME NEW x, NEW v, NEW a,
           a \in DOMAIN x \/ a \in {"smtp", "logout", "status", "grants"},
           a \notin {"name", "client", "custom"},
           a = "logout" \/ (v # "new" /\ v # "ox")
    PROVE  Follows(With(x, a, v), x, {})
  BY DEF Follows, With

\* Setting changes an attribute only where the entry has it.
LEMMA FollowsSetting ==
    ASSUME NEW x, NEW v, NEW a,
           a \notin {"name", "client", "custom"}, v # "new" /\ v # "ox"
    PROVE  Follows(Setting(x, a, v), x, {})
<1>1. CASE a \in DOMAIN x
  BY <1>1, FollowsWith DEF Setting
<1>2. CASE a \notin DOMAIN x
  BY <1>2, FollowsItself DEF Setting
<1> QED
  BY <1>1, <1>2

\* ListValues drops what is not a list where the script does not keep it.
LEMMA FollowsListValues ==
    ASSUME NEW x, NEW keeps \in BOOLEAN, NEW drop,
           keeps \/ "list" \in drop \/ ("list" \in DOMAIN x => x["list"] = "list")
    PROVE  Follows(ListValues(x, keeps), x, drop)
<1>1. CASE "list" \notin DOMAIN x
  BY <1>1 DEF ListValues, Follows
<1>2. CASE "list" \in DOMAIN x /\ x["list"] = "list"
  <2>1. ListValues(x, keeps) = With(x, "list", "object")
    BY <1>2 DEF ListValues
  <2> QED
    BY <1>2, <2>1 DEF Follows, With
<1>3. CASE "list" \in DOMAIN x /\ x["list"] # "list" /\ keeps
  BY <1>3 DEF ListValues, Follows
<1>4. CASE "list" \in DOMAIN x /\ x["list"] # "list" /\ ~keeps
  <2>1. ListValues(x, keeps) = Restrict(x, DOMAIN x \ {"list"})
    BY <1>4 DEF ListValues
  <2> QED
    BY <1>4, <2>1 DEF Follows, Restrict
<1> QED
  BY <1>1, <1>2, <1>3, <1>4

\* What follows a sound entry is one.
LEMMA FollowsSound ==
    ASSUME NEW n, NEW x, NEW y, NEW drop \in SUBSET ({"list"} \cup Lost),
           SoundEntry(n, x), Follows(y, x, drop)
    PROVE  SoundEntry(n, y)
<1>1. "custom" \in DOMAIN x <=> "custom" \in DOMAIN y
  BY DEF Follows, Lost
<1>2. "class" \in DOMAIN y =>
          "class" \in DOMAIN x /\ (y["class"] = "ox" => x["class"] = "ox")
  BY DEF Follows
<1>3. "code" \in DOMAIN y => "code" \in DOMAIN x
  BY DEF Follows
<1>4. \A a \in {"name", "client", "custom"} :
          a \in DOMAIN x => a \in DOMAIN y /\ y[a] = x[a]
  BY DEF Follows, Lost
<1>5. Known(x) => Known(y)
  BY <1>1, <1>2 DEF Known
<1>6. Lost = {} /\ "type" \in DOMAIN x /\ x["type"] # "new" =>
          "type" \in DOMAIN y /\ y["type"] # "new"
  BY DEF Follows
<1> QED
  BY <1>3, <1>4, <1>5, <1>6 DEF SoundEntry

\* What follows a complete entry is one, if what may be left out is not taken.
LEMMA FollowsComplete ==
    ASSUME SoundBackup(backup.ldif), NEW e \in DOMAIN backup.ldif, NEW x, NEW y,
           NEW drop, drop \subseteq NotTaken(e), Complete(e, x), Follows(y, x, drop)
    PROVE  Complete(e, y)
<1>1. "logout" \notin DOMAIN backup.ldif[e]
  BY DEF SoundBackup, OldAttributes
<1> SUFFICES ASSUME NEW a \in DOMAIN backup.ldif[e] \ NotTaken(e)
             PROVE  a \in DOMAIN y /\ y[a] # "new"
  BY DEF Complete
<1>2. a \in DOMAIN x /\ x[a] # "new" /\ a # "logout" /\ a \notin drop
  BY <1>1 DEF Complete
<1> QED
  BY <1>2 DEF Follows

-----------------------------------------------------------------------------
(* The entries of the backup.                                              *)

\* An entry with the attributes it had on the old server is sound.
LEMMA OldAttributesSound ==
    ASSUME NEW e \in (OldNames \cup ByIds) \ {"admin"}, NEW x,
           DOMAIN x = OldAttributes(e), \A a \in OldAttributes(e) : x[a] # "new",
           e = "employee" => x["custom"] = "old"
    PROVE  SoundEntry(e, x)
<1>1. e = "oxidp" => "client" \in DOMAIN x
  BY DEF OldAttributes
<1>2. "code" \in DOMAIN x => FileOf(e) = "scripts"
  BY DEF OldAttributes, FileOf
<1>3. e \in NewNames \cup ByIds \cup {"idp", "idp_none", "late"} => Known(x)
  BY DEF OldAttributes, NewNames, ByIds, Known, OldNames
<1>4. e \in ByIds => "name" \in DOMAIN x /\ x["name"] # "new"
  BY DEF OldAttributes, ByIds
<1>5. e = "employee" => "custom" \in DOMAIN x /\ x["custom"] = "old"
  BY DEF OldAttributes
<1>6. e = "resource_oxId" => "type" \in DOMAIN x /\ x["type"] # "new"
  BY DEF OldAttributes
<1> QED
  BY <1>1, <1>2, <1>3, <1>4, <1>5, <1>6 DEF SoundEntry

\* An entry of the backup is sound under either name, and complete.
LEMMA OldEntrySound ==
    ASSUME SoundBackup(backup.ldif), NEW e \in DOMAIN backup.ldif, e # "admin"
    PROVE  /\ SoundEntry(e, backup.ldif[e]) /\ SoundEntry(ById(e), backup.ldif[e])
           /\ Complete(e, backup.ldif[e])
           /\ e \in AllNames /\ ById(e) \in AllNames
<1> DEFINE x == backup.ldif[e]
<1>1. /\ e \in OldNames \cup ByIds
      /\ DOMAIN x = OldAttributes(e)
      /\ \A a \in OldAttributes(e) : x[a] # "new"
      /\ e = "employee" => x["custom"] = "old"
  BY DEF SoundBackup, ByIds
<1> HIDE DEF x
<1>2. Complete(e, x)
  BY <1>1 DEF Complete, x
<1>3. e \in AllNames /\ ById(e) \in AllNames
  BY <1>1 DEF AllNames, ById, OldNames, ByIds
<1>4. SoundEntry(e, x)
  BY <1>1, OldAttributesSound
<1>5. CASE e \in {"resource", "sector"}
  <2>1. ById(e) \in ByIds /\ OldAttributes(ById(e)) = OldAttributes(e)
    BY <1>5 DEF ById, ByIds, OldAttributes
  <2>2. ById(e) # "admin" /\ ById(e) # "employee"
    BY <1>5 DEF ById
  <2>3. SoundEntry(ById(e), x)
    BY <1>1, <2>1, <2>2, OldAttributesSound
  <2> QED
    BY <1>2, <1>3, <1>4, <2>3 DEF x
<1>6. CASE e \notin {"resource", "sector"}
  BY <1>2, <1>3, <1>4, <1>6 DEF x, ById
<1> QED
  BY <1>5, <1>6

\* A merge of an entry both servers have is sound, and complete if the script
\* ignores nothing else than what it does not take.
LEMMA MergedSound ==
    ASSUME SoundBackup(backup.ldif), NEW e \in DOMAIN backup.ldif, e # "admin",
           NEW x, SoundEntry(e, x), NEW ignored, "class" \in ignored,
           OldAttributes(e) \cap ignored \subseteq NotTaken(e)
    PROVE  /\ SoundEntry(e, Merged(x, backup.ldif[e], ignored))
           /\ Complete(e, Merged(x, backup.ldif[e], ignored))
<1> DEFINE old == backup.ldif[e]
           y == Merged(x, old, ignored)
<1>1. /\ DOMAIN old = OldAttributes(e)
      /\ \A a \in OldAttributes(e) : old[a] # "new"
      /\ e = "employee" => old["custom"] = "old"
  BY DEF SoundBackup
<1>2. SoundEntry(e, old)
  BY OldEntrySound
<1> HIDE DEF old
<1>3. DOMAIN y = DOMAIN x \cup (DOMAIN old \ ignored)
  BY DEF Merged
<1>4. \A a \in DOMAIN old \ ignored : y[a] = "both" \/ y[a] = old[a]
  BY DEF Merged
<1>5. \A a \in DOMAIN x : a \notin DOMAIN old \ ignored => y[a] = x[a]
  BY DEF Merged
<1>6. \A a \in DOMAIN old \ ignored : a # "json" => y[a] = old[a]
  BY DEF Merged
<1> HIDE DEF y
<1>7. Complete(e, y)
  <2> SUFFICES ASSUME NEW a \in DOMAIN old \ NotTaken(e)
               PROVE  a \in DOMAIN y /\ y[a] # "new"
    BY DEF Complete, old
  <2>1. a \in DOMAIN old \ ignored
    BY <1>1
  <2> QED
    BY <1>1, <1>3, <1>4, <2>1
<1>8. SoundEntry(e, y)
  <2>1. e = "oxidp" => "client" \in DOMAIN y
    BY <1>3 DEF SoundEntry
  <2>2. "code" \in DOMAIN y => FileOf(e) = "scripts"
    BY <1>2, <1>3 DEF SoundEntry
  <2>3. e \in NewNames \cup ByIds \cup {"idp", "idp_none", "late"} => Known(y)
    <3>1. "class" \in DOMAIN y => "class" \in DOMAIN x /\ y["class"] = x["class"]
      BY <1>3, <1>5
    <3>2. "custom" \in DOMAIN y => "custom" \in DOMAIN x \/ "custom" \in DOMAIN old
      BY <1>3
    <3> QED
      BY <1>2, <3>1, <3>2 DEF SoundEntry, Known
  <2>4. e \in ByIds => "name" \in DOMAIN y /\ y["name"] # "new"
    BY <1>1, <1>3, <1>5, <1>6 DEF SoundEntry
  <2>5. setting.release = "24" /\ e = "employee" =>
            "custom" \in DOMAIN y /\ y["custom"] = "old"
    BY <1>1, <1>3, <1>5, <1>6 DEF SoundEntry
  <2>6. e = "resource_oxId" /\ Lost = {} => "type" \in DOMAIN y /\ y["type"] # "new"
    BY <1>1, <1>3, <1>5, <1>6 DEF SoundEntry
  <2> QED
    BY <2>1, <2>2, <2>3, <2>4, <2>5, <2>6 DEF SoundEntry
<1> QED
  BY <1>7, <1>8 DEF y, old

-----------------------------------------------------------------------------
(* The merge of the exported entries with those of the backup.             *)

\* The entries of the backup an import takes, and what it may drop of one.
Taken == DOMAIN backup.ldif \ Skipped
Dropped(e) == NotTaken(e) \cap {"list", "type"}

\* What a script drops is a list, or lost.
LEMMA DroppedIs ==
    ASSUME NEW e
    PROVE  /\ Dropped(e) \in SUBSET ({"list"} \cup Lost)
           /\ Dropped(e) \in SUBSET {"list", "type"}
           /\ Lost \in SUBSET Dropped(e) /\ {} \in SUBSET Dropped(e)
           /\ Dropped(e) \subseteq NotTaken(e)
  BY DEF Dropped, NotTaken, Lost

\* The entries of the backup without the administrator, of which import2431
\* takes one less.
Held == DOMAIN backup.ldif \ {"admin"}

\* What becomes of an exported entry.
MergedEntry(n, y, ignored) ==
    \/ n \notin Taken /\ Follows(y, work.current[n], Lost)
    \/ /\ \/ "code" \in DOMAIN work.current[n]
          \/ n = "uma_access" /\ setting.release = "3031"
       /\ setting.release \in {"2431", "3031"}
       /\ Follows(y, work.current[n], Lost)
    \/ /\ n \in Held
       /\ \E x : /\ Follows(x, work.current[n], {})
                 /\ Follows(y, Merged(x, backup.ldif[n], ignored), Lost)

\* The entry n that only the backup has.
LeftEntry(n, y) ==
    \E e \in Taken \ DOMAIN work.current :
        n \in {e, ById(e)} /\ Follows(y, backup.ldif[e], Dropped(e))

\* What a merge has to be: sound, with every entry of both sides.
MergedData(d) ==
    /\ SoundData(d) /\ DOMAIN work.current \subseteq DOMAIN d
    /\ \A e \in Taken : InPlace(e, d)

\* Two entries of the backup never share a name.
LEMMA NamesApart ==
    ASSUME SoundBackup(backup.ldif), NEW e \in DOMAIN backup.ldif,
           NEW f \in DOMAIN backup.ldif, {e, ById(e)} \cap {f, ById(f)} # {}
    PROVE  e = f
  BY DEF SoundBackup, ById, OldNames

\* A list is dropped only where it is not taken.
LEMMA ListTaken ==
    ASSUME setting.oldVersion \in Nat, SoundBackup(backup.ldif),
           NEW e \in DOMAIN backup.ldif, NEW keeps \in BOOLEAN,
           keeps \/ setting.release \in {"244", "30", "3031"}
    PROVE  Follows(ListValues(backup.ldif[e], keeps), backup.ldif[e], Dropped(e))
<1>1. Dropped(e) \in SUBSET {"list", "type"}
  BY DroppedIs
<1>2. CASE keeps
  BY <1>1, <1>2, FollowsListValues
<1>3. CASE ~keeps /\ setting.oldVersion >= 244
  <2>1. "list" \in Dropped(e)
    BY <1>3 DEF Dropped, NotTaken
  <2> QED
    BY <1>1, <2>1, FollowsListValues
<1>4. CASE ~keeps /\ setting.oldVersion < 244
  <2>1. "list" \in DOMAIN backup.ldif[e] => e = "person"
    BY DEF SoundBackup, OldAttributes
  <2>2. "list" \in DOMAIN backup.ldif[e] => backup.ldif[e]["list"] = "list"
    BY <1>4, <2>1 DEF SoundBackup
  <2> QED
    BY <1>1, <2>2, FollowsListValues
<1> QED
  BY <1>2, <1>3, <1>4

\* An exported entry stays sound, and is complete if the backup has it.
LEMMA MergedEntrySound ==
    ASSUME SoundBackup(backup.ldif), SoundData(work.current),
           NEW ignored, "class" \in ignored,
           \A e \in DOMAIN backup.ldif :
              OldAttributes(e) \cap ignored \subseteq NotTaken(e),
           NEW n \in DOMAIN work.current, NEW y, MergedEntry(n, y, ignored)
    PROVE  SoundEntry(n, y) /\ (n \in Taken => Complete(n, y))
<1> DEFINE x0 == work.current[n]
<1>1. SoundEntry(n, x0)
  BY DEF SoundData
<1> HIDE DEF x0
<1>2. CASE n \notin Taken /\ Follows(y, x0, Lost)
  BY <1>1, <1>2, FollowsSound
<1>3. CASE /\ n \in Taken
           /\ "code" \in DOMAIN x0 \/ (n = "uma_access" /\ setting.release = "3031")
           /\ setting.release \in {"2431", "3031"} /\ Follows(y, x0, Lost)
  <2>1. FileOf(n) = "scripts" \/ (n = "uma_access" /\ setting.release = "3031")
    BY <1>1, <1>3 DEF SoundEntry
  <2>2. n \in OldNames \cup {"resource_oxId"} /\ DOMAIN backup.ldif[n] = OldAttributes(n)
    BY <1>3 DEF SoundBackup, Taken
  <2>3. DOMAIN backup.ldif[n] \ NotTaken(n) = {}
    BY <1>3, <2>1, <2>2 DEF OldAttributes, NotTaken, FileOf, OldNames
  <2>4. Complete(n, y)
    BY <2>3 DEF Complete
  <2> QED
    BY <1>1, <1>3, <2>4, FollowsSound
<1>4. ASSUME n \in Held,
             NEW x, Follows(x, x0, {}), Follows(y, Merged(x, backup.ldif[n], ignored), Lost)
      PROVE  SoundEntry(n, y) /\ Complete(n, y)
  <2>1. SoundEntry(n, x)
    BY <1>1, <1>4, FollowsSound
  <2>2. n \in DOMAIN backup.ldif /\ n # "admin"
    BY <1>4 DEF Held
  <2>3. /\ SoundEntry(n, Merged(x, backup.ldif[n], ignored))
        /\ Complete(n, Merged(x, backup.ldif[n], ignored))
    BY <2>1, <2>2, MergedSound
  <2>4. SoundEntry(n, y)
    BY <1>4, <2>3, FollowsSound
  <2>5. Complete(n, y)
    <3>1. Lost \subseteq NotTaken(n)
      BY DEF Lost, NotTaken
    <3> QED
      BY <1>4, <2>2, <2>3, <3>1, FollowsComplete
  <2> QED
    BY <2>4, <2>5
<1> QED
  BY <1>2, <1>3, <1>4 DEF MergedEntry, x0

\* A merge in which each exported entry and each entry only the backup has
\* becomes what it should has nothing missing.
LEMMA MergeKeeps ==
    ASSUME SoundBackup(backup.ldif), SoundData(work.current),
           NEW ignored, "class" \in ignored,
           \A e \in DOMAIN backup.ldif :
              OldAttributes(e) \cap ignored \subseteq NotTaken(e),
           NEW d, DOMAIN work.current \subseteq DOMAIN d,
           \A n \in DOMAIN work.current : MergedEntry(n, d[n], ignored),
           \A n \in DOMAIN d \ DOMAIN work.current : LeftEntry(n, d[n]),
           \A e \in Taken \ DOMAIN work.current : {e, ById(e)} \cap DOMAIN d # {}
    PROVE  MergedData(d)
<1>1. \A n \in DOMAIN work.current :
          n \in AllNames /\ SoundEntry(n, work.current[n])
  BY DEF SoundData
<1>2. \A n \in DOMAIN work.current :
          SoundEntry(n, d[n]) /\ (n \in Taken => Complete(n, d[n]))
  BY MergedEntrySound
<1>3. \A e \in Taken : e \in DOMAIN backup.ldif /\ e # "admin"
  BY DEF Taken, Skipped
<1>4. ASSUME NEW n, NEW y, NEW e \in Taken, n \in {e, ById(e)},
             Follows(y, backup.ldif[e], Dropped(e))
      PROVE  n \in AllNames /\ SoundEntry(n, y) /\ Complete(e, y)
  <2>1. /\ SoundEntry(n, backup.ldif[e]) /\ n \in AllNames
        /\ Complete(e, backup.ldif[e])
    BY <1>3, <1>4, OldEntrySound
  <2>2. /\ Dropped(e) \in SUBSET ({"list"} \cup Lost)
        /\ Dropped(e) \subseteq NotTaken(e)
    BY DroppedIs
  <2>3. SoundEntry(n, y)
    BY <1>4, <2>1, <2>2, FollowsSound
  <2>4. Complete(e, y)
    BY <1>3, <1>4, <2>1, <2>2, FollowsComplete
  <2> QED
    BY <2>1, <2>3, <2>4
<1>5. SoundData(d)
  <2> SUFFICES ASSUME NEW n \in DOMAIN d  PROVE n \in AllNames /\ SoundEntry(n, d[n])
    BY DEF SoundData
  <2>1. CASE n \in DOMAIN work.current
    BY <1>1, <1>2, <2>1
  <2>2. CASE n \notin DOMAIN work.current
    <3>1. PICK e \in Taken \ DOMAIN work.current :
              n \in {e, ById(e)} /\ Follows(d[n], backup.ldif[e], Dropped(e))
      BY <2>2 DEF LeftEntry
    <3> QED
      BY <1>4, <3>1
  <2> QED
    BY <2>1, <2>2
<1>6. ASSUME NEW e \in Taken, NEW n \in {e, ById(e)} \cap DOMAIN d
      PROVE  Complete(e, d[n])
  <2>1. CASE n \in DOMAIN work.current /\ n = e
    BY <1>2, <2>1
  <2>2. CASE n \in DOMAIN work.current /\ n # e
    <3>1. e \in {"resource", "sector"} /\ n = ById(e) /\ n \in ByIds
      BY <1>6, <2>2 DEF ById, ByIds
    <3>2. n \notin Held
      BY <1>3, <3>1 DEF Held, SoundBackup, OldNames, ById, ByIds
    <3>3. Follows(d[n], work.current[n], Lost)
      BY <2>2, <3>2 DEF MergedEntry
    <3>4. SoundEntry(n, d[n])
      BY <1>2, <2>2
    <3>5. /\ DOMAIN backup.ldif[e] \subseteq {"name", "type"}
          /\ "type" \in DOMAIN backup.ldif[e] => n = "resource_oxId"
      BY <1>3, <3>1 DEF SoundBackup, OldAttributes, ById
    <3>6. "name" \in DOMAIN d[n] /\ d[n]["name"] # "new"
      BY <3>1, <3>4 DEF SoundEntry
    <3>7. Lost # {} => "type" \in NotTaken(e)
      BY DEF Lost, NotTaken
    <3>8. n = "resource_oxId" /\ Lost = {} =>
              "type" \in DOMAIN d[n] /\ d[n]["type"] # "new"
      BY <3>4 DEF SoundEntry
    <3> QED
      BY <3>5, <3>6, <3>7, <3>8 DEF Complete
  <2>3. CASE n \notin DOMAIN work.current
    <3>1. PICK f \in Taken \ DOMAIN work.current :
              n \in {f, ById(f)} /\ Follows(d[n], backup.ldif[f], Dropped(f))
      BY <2>3 DEF LeftEntry
    <3>2. e = f
      BY <1>3, <1>6, <3>1, NamesApart
    <3> QED
      BY <1>4, <3>1, <3>2
  <2> QED
    BY <2>1, <2>2, <2>3
<1>7. \A e \in Taken : {e, ById(e)} \cap DOMAIN d # {}
  OBVIOUS
<1> QED
  BY <1>5, <1>6, <1>7 DEF MergedData, InPlace

\* The step that merges, of each import script that has one.
Merge == \E d : MergedData(d) /\ Work([work EXCEPT !.processed = d]) /\ Go

\* The versions are numbers.
LEMMA Versions ==
    ASSUME setting \in Settings
    PROVE  setting.oldVersion \in Nat /\ setting.oxVersion \in Nat
  BY MigrationAssumption DEF Settings

\* processLDIF of import244.py merges.
LEMMA Merge244 ==
    ASSUME Shapes, setting.release = "244", SoundBackup(backup.ldif),
           SoundData(work.current), M244!processLDIF
    PROVE  Merge
<1> DEFINE current == DOMAIN work.current
           ignored == {"class", "jwks"}
           left == [e \in DOMAIN M244!getOldEntryMap \ current |-> M244!LeftOut(e)]
           rewritten == [e \in current |-> M244!Rewritten(e)]
           d == Over(rewritten, left)
<1>0. Lost = {} /\ Taken \subseteq Held
  BY DEF Lost, Taken, Skipped, Held
<1>1. /\ DOMAIN M244!getOldEntryMap = Taken
      /\ \A e \in Taken : M244!getOldEntryMap[e] = backup.ldif[e]
  BY DEF M244!getOldEntryMap, M244!OldEntryMap, M244!Restrict, Taken, Skipped
<1>2. /\ DOMAIN d = current \cup Taken
      /\ \A n \in current : d[n] = M244!Rewritten(n)
      /\ \A n \in Taken \ current : d[n] = M244!LeftOut(n)
  BY <1>1 DEF Over
<1>6. Work([work EXCEPT !.processed = d]) /\ Go
  BY DEF M244!processLDIF, M244!Work, Work, M244!Go, Go, M244!Over, Over
<1> HIDE DEF d, left, rewritten
<1>3. \A n \in current : MergedEntry(n, d[n], ignored)
  <2> SUFFICES ASSUME NEW n \in current  PROVE MergedEntry(n, d[n], ignored)
    OBVIOUS
  <2>1. CASE n \in Taken
    <3>1. d[n] = Merged(work.current[n], backup.ldif[n], ignored)
      <4>1. d[n] = M244!Merged(work.current[n], backup.ldif[n], ignored)
        BY <1>1, <1>2, <2>1 DEF M244!Rewritten, M244!ignoreList
      <4> QED
        BY <4>1 DEF M244!Merged, Merged
    <3>2. /\ Follows(work.current[n], work.current[n], {})
          /\ Follows(d[n], d[n], {})
      BY FollowsItself
    <3> QED
      BY <1>0, <2>1, <3>1, <3>2 DEF MergedEntry
  <2>2. CASE n \notin Taken
    <3>1. d[n] = work.current[n]
      BY <1>1, <1>2, <2>2 DEF M244!Rewritten
    <3> QED
      BY <1>0, <2>2, <3>1, FollowsItself DEF MergedEntry
  <2> QED
    BY <2>1, <2>2
<1>4. \A n \in Taken \ current : LeftEntry(n, d[n])
  <2> SUFFICES ASSUME NEW n \in Taken \ current  PROVE LeftEntry(n, d[n])
    OBVIOUS
  <2>1. d[n] = ListValues(backup.ldif[n], FALSE)
    <3>1. d[n] = M244!ListValues(backup.ldif[n], FALSE)
      BY <1>1, <1>2 DEF M244!LeftOut
    <3> QED
      BY <3>1
      DEF M244!ListValues, ListValues, M244!With, With, M244!Restrict, Restrict
  <2>2. Follows(d[n], backup.ldif[n], Dropped(n))
    <3>1. setting.oldVersion \in Nat /\ n \in DOMAIN backup.ldif
      BY Versions DEF Taken, Shapes
    <3> QED
      BY <2>1, <3>1, ListTaken
  <2> QED
    BY <2>2 DEF LeftEntry
<1>5. \A e \in DOMAIN backup.ldif : OldAttributes(e) \cap ignored \subseteq NotTaken(e)
  BY DEF NotTaken
<1>7. MergedData(d)
  BY <1>2, <1>3, <1>4, <1>5, MergeKeeps
<1> QED
  BY <1>6, <1>7 DEF Merge

\* processBackupData of import30.py merges.
LEMMA Merge30 ==
    ASSUME Shapes, setting.release = "30", SoundBackup(backup.ldif),
           SoundData(work.current), M30!processBackupData
    PROVE  Merge
<1> DEFINE current == DOMAIN work.current
           ignored == {"class", "idp"}
           left == [e \in DOMAIN M30!getOldEntryMap \ current |->
                        M30!Line(M30!LeftOut(e))]
           rewritten == [e \in current |-> M30!Line(M30!Rewritten(e))]
           d == Over(rewritten, left)
<1>0. Lost = {} /\ Taken \subseteq Held
  BY DEF Lost, Taken, Skipped, Held
<1>1. /\ DOMAIN M30!getOldEntryMap = Taken
      /\ \A e \in Taken : M30!getOldEntryMap[e] = backup.ldif[e]
  BY DEF M30!getOldEntryMap, M30!OldEntryMap, M30!Restrict, Taken, Skipped
<1>2. /\ DOMAIN d = current \cup Taken
      /\ \A n \in current : d[n] = M30!Line(M30!Rewritten(n))
      /\ \A n \in Taken \ current : d[n] = M30!Line(M30!LeftOut(n))
  BY <1>1 DEF Over
<1>3. Work([work EXCEPT !.processed = d]) /\ Go
  BY DEF M30!processBackupData, M30!Work, Work, M30!Go, Go, M30!Over, Over
<1>4. ASSUME NEW x  PROVE Follows(M30!Line(x), x, {})
  <2>1. CASE "mode" \in DOMAIN x /\ x.mode = "internal"
    <3>1. M30!Line(x) = With(x, "mode", "auth_ldap_server")
      BY <2>1 DEF M30!Line, M30!With, With
    <3> QED
      BY <2>1, <3>1, FollowsWith
  <2>2. CASE ~("mode" \in DOMAIN x /\ x.mode = "internal")
    BY <2>2, FollowsItself DEF M30!Line
  <2> QED
    BY <2>1, <2>2
<1> HIDE DEF d, left, rewritten
<1>5. \A n \in current : MergedEntry(n, d[n], ignored)
  <2> SUFFICES ASSUME NEW n \in current  PROVE MergedEntry(n, d[n], ignored)
    OBVIOUS
  <2>1. CASE n \in Taken
    <3>1. d[n] = M30!Line(Merged(work.current[n], backup.ldif[n], ignored))
      <4>1. d[n] = M30!Line(M30!Merged(work.current[n], backup.ldif[n], ignored))
        BY <1>1, <1>2, <2>1 DEF M30!Rewritten, M30!ignoreList
      <4>2. M30!Merged(work.current[n], backup.ldif[n], ignored)
                = Merged(work.current[n], backup.ldif[n], ignored)
        BY DEF M30!Merged, Merged
      <4> QED
        BY <4>1, <4>2
    <3>2. Follows(work.current[n], work.current[n], {})
      BY FollowsItself
    <3>3. Follows(d[n], Merged(work.current[n], backup.ldif[n], ignored), {})
      BY <1>4, <3>1
    <3> QED
      BY <1>0, <2>1, <3>2, <3>3 DEF MergedEntry
  <2>2. CASE n \notin Taken
    <3>1. d[n] = M30!Line(work.current[n])
      BY <1>1, <1>2, <2>2 DEF M30!Rewritten
    <3>2. Follows(d[n], work.current[n], {})
      BY <1>4, <3>1
    <3> QED
      BY <1>0, <2>2, <3>2 DEF MergedEntry
  <2> QED
    BY <2>1, <2>2
<1>6. \A n \in Taken \ current : LeftEntry(n, d[n])
  <2> SUFFICES ASSUME NEW n \in Taken \ current  PROVE LeftEntry(n, d[n])
    OBVIOUS
  <2> DEFINE listed == ListValues(backup.ldif[n], FALSE)
  <2>1. d[n] = M30!Line(listed)
    <3>1. d[n] = M30!Line(M30!ListValues(backup.ldif[n], FALSE))
      BY <1>1, <1>2 DEF M30!LeftOut
    <3>2. M30!ListValues(backup.ldif[n], FALSE) = listed
      BY DEF M30!ListValues, ListValues, M30!With, With, M30!Restrict, Restrict
    <3> QED
      BY <3>1, <3>2
  <2>2. Follows(listed, backup.ldif[n], Dropped(n))
    <3>1. setting.oldVersion \in Nat /\ n \in DOMAIN backup.ldif
      BY Versions DEF Taken, Shapes
    <3> QED
      BY <3>1, ListTaken
  <2>3. Follows(M30!Line(listed), listed, {})
    BY <1>4
  <2>4. Dropped(n) \in SUBSET {"list", "type"} /\ {} \in SUBSET Dropped(n)
    BY DroppedIs
  <2> HIDE DEF listed
  <2>5. Follows(d[n], backup.ldif[n], Dropped(n))
    BY <2>1, <2>2, <2>3, <2>4, FollowsTwice
  <2> QED
    BY <2>5 DEF LeftEntry
<1>7. \A e \in DOMAIN backup.ldif : OldAttributes(e) \cap ignored \subseteq NotTaken(e)
  <2>1. setting.idp = FALSE
    BY DEF Shapes, Real, Settings
  <2> QED
    BY <2>1 DEF NotTaken, OldAttributes
<1>8. MergedData(d)
  BY <1>2, <1>5, <1>6, <1>7, MergeKeeps
<1> QED
  BY <1>3, <1>8 DEF Merge

\* processBackupData of import2431.py merges, or the script ends there.
LEMMA Merge2431 ==
    ASSUME Shapes, setting.release = "2431", SoundBackup(backup.ldif),
           SoundData(work.current), M2431!processBackupData
    PROVE  Merge \/ (Same /\ Stop)
<1> DEFINE current == DOMAIN work.current
           ignored == M2431!ignoreList
           source == DOMAIN M2431!getOldEntryMap \ (current \cup M2431!NotImported)
           Source(n) == CHOOSE e \in source : M2431!NewName(e) = n
           left == [n \in {M2431!NewName(e) : e \in source} |->
                        M2431!Line(M2431!LeftOut(Source(n)))]
           rewritten == [e \in current |-> M2431!Line(M2431!Rewritten(e))]
           d == Over(rewritten, left)
<1>0. /\ DOMAIN M2431!getOldEntryMap = Held
      /\ \A e \in Held : M2431!getOldEntryMap[e] = backup.ldif[e]
  BY DEF M2431!getOldEntryMap, M2431!OldEntryMap, M2431!Restrict, Held
<1>1. Taken \subseteq Held /\ source = Taken \ current
  BY <1>0 DEF Held, Taken, Skipped, M2431!NotImported
<1>2. /\ DOMAIN d = current \cup {M2431!NewName(e) : e \in Taken \ current}
      /\ \A n \in current : d[n] = M2431!Line(M2431!Rewritten(n))
      /\ \A n \in DOMAIN d \ current : d[n] = M2431!Line(M2431!LeftOut(Source(n)))
      /\ \A n \in DOMAIN d \ current :
            Source(n) \in Taken \ current /\ M2431!NewName(Source(n)) = n
  BY <1>1 DEF Over
<1>3. \/ Work([work EXCEPT !.processed = d]) /\ Go
      \/ Same /\ Stop
  BY DEF M2431!processBackupData, M2431!Work, Work, M2431!Go, Go, M2431!Over, Over,
         M2431!Same, Same, M2431!Stop, Stop
<1>4. ASSUME NEW x, NEW a, NEW v
      PROVE  /\ M2431!Setting(x, a, v) = Setting(x, a, v)
             /\ M2431!With(x, a, v) = With(x, a, v)
  BY DEF M2431!Setting, Setting, M2431!With, With
<1>5. ASSUME NEW x  PROVE Follows(M2431!Line(x), x, Lost)
  <2> DEFINE moded == Setting(x, "mode", "auth_ldap_server")
  <2>1. Follows(moded, x, {})
    BY FollowsSetting
  <2>2. M2431!Line(x) = Without(moded, Lost)
    <3>1. M2431!Setting(x, "mode", "auth_ldap_server") = moded
      BY <1>4
    <3> HIDE DEF moded
    <3> QED
      BY <3>1 DEF M2431!Line, M2431!Without, Without, M2431!Restrict, Restrict, Lost
  <2> HIDE DEF moded
  <2>3. Follows(Without(moded, Lost), moded, Lost)
    BY FollowsWithout
  <2>4. Lost \in SUBSET {"list", "type"} /\ {} \in SUBSET Lost
    BY DEF Lost
  <2> QED
    BY <2>1, <2>2, <2>3, <2>4, FollowsTwice
<1>6. ASSUME NEW e, NEW x  PROVE Follows(M2431!Adapted(e, x), x, {})
  <2>1. CASE e = "config"
    BY <1>4, <2>1, FollowsSetting DEF M2431!Adapted
  <2>2. CASE e = "appliance" /\ setting.oxVersion >= 314
    BY <1>4, <2>2, FollowsWith DEF M2431!Adapted
  <2>3. CASE e = "login" /\ setting.oxVersion >= 314
    BY <1>4, <2>3, FollowsWith DEF M2431!Adapted
  <2>4. CASE /\ e # "config" /\ ~(e = "appliance" /\ setting.oxVersion >= 314)
             /\ ~(e = "login" /\ setting.oxVersion >= 314)
    BY <2>4, FollowsItself DEF M2431!Adapted
  <2> QED
    BY <2>1, <2>2, <2>3, <2>4
<1>7. ASSUME NEW e, NEW x  PROVE Follows(M2431!Granted(e, x), x, {})
  <2>0. M2431!FileOf(e) = FileOf(e)
    BY DEF M2431!FileOf, FileOf
  <2>1. CASE FileOf(e) = "clients" /\ setting.oxVersion >= 313
    <3>1. M2431!Granted(e, x) = With(x, "grants", "authorization_code")
      BY <1>4, <2>0, <2>1 DEF M2431!Granted
    <3> QED
      BY <3>1, FollowsWith
  <2>2. CASE FileOf(e) = "clients" /\ ~(setting.oxVersion >= 313)
    <3>1. M2431!Granted(e, x) = Setting(x, "grants", "client_credentials")
      BY <1>4, <2>0, <2>2 DEF M2431!Granted
    <3> QED
      BY <3>1, FollowsSetting
  <2>3. CASE FileOf(e) # "clients"
    <3>1. M2431!Granted(e, x) = x
      BY <2>0, <2>3 DEF M2431!Granted
    <3> QED
      BY <3>1, FollowsItself
  <2> QED
    BY <2>1, <2>2, <2>3
<1> HIDE DEF d, left, rewritten, Source, source, ignored
<1>15. Lost \in SUBSET {"list", "type"} /\ Lost \in SUBSET Lost /\ {} \in SUBSET Lost
  BY DEF Lost
<1>8. \A n \in current : MergedEntry(n, d[n], ignored)
  <2> SUFFICES ASSUME NEW n \in current  PROVE MergedEntry(n, d[n], ignored)
    OBVIOUS
  <2> DEFINE x == work.current[n]
             new == Setting(x, "idp", "rekeyed")
             moved == M2431!Rewritten(n)
  <2>1. M2431!Setting(work.current[n], "idp", "rekeyed") = new
    BY <1>4
  <2>2. Follows(new, x, {})
    BY FollowsSetting
  <2>3. Follows(d[n], moved, Lost)
    BY <1>2, <1>5
  <2>4. "code" \in DOMAIN new => "code" \in DOMAIN x
    BY <2>2 DEF Follows
  <2> HIDE DEF new, moved
  <2>5. CASE "code" \in DOMAIN new /\ n \in M2431!enabled_scripts
    <3>1. moved = With(new, "status", "true")
      <4>1. moved = M2431!With(new, "status", "true")
        BY <2>1, <2>5 DEF M2431!Rewritten, moved
      <4> QED
        BY <1>4, <4>1
    <3>2. Follows(moved, new, {})
      BY <3>1, FollowsWith
    <3>3. Follows(moved, x, {})
      BY <2>2, <3>2, FollowsTwice
    <3>4. Follows(d[n], x, Lost)
      BY <1>15, <2>3, <3>3, FollowsTwice
    <3> QED
      BY <2>4, <2>5, <3>4 DEF MergedEntry, x
  <2>6. CASE "code" \in DOMAIN new /\ n \notin M2431!enabled_scripts
    <3>1. moved = new
      BY <2>1, <2>6 DEF M2431!Rewritten, moved
    <3>2. Follows(d[n], x, Lost)
      BY <1>15, <2>2, <2>3, <3>1, FollowsTwice
    <3> QED
      BY <2>4, <2>6, <3>2 DEF MergedEntry, x
  <2>7. CASE "code" \notin DOMAIN new /\ n \notin Held
    <3>1. moved = new
      BY <1>0, <2>1, <2>7 DEF M2431!Rewritten, moved
    <3>2. Follows(d[n], x, Lost)
      BY <1>15, <2>2, <2>3, <3>1, FollowsTwice
    <3> QED
      BY <1>1, <2>7, <3>2 DEF MergedEntry, x
  <2>8. CASE "code" \notin DOMAIN new /\ n \in Held
    <3> DEFINE y == Merged(new, backup.ldif[n], ignored)
    <3>1. moved = M2431!Adapted(n, y)
      <4>1. moved = M2431!Adapted(n, M2431!Merged(new, backup.ldif[n], ignored))
        BY <1>0, <2>1, <2>8 DEF M2431!Rewritten, moved, ignored
      <4>2. M2431!Merged(new, backup.ldif[n], ignored) = y
        BY DEF M2431!Merged, Merged
      <4> QED
        BY <4>1, <4>2
    <3>2. Follows(moved, y, {})
      BY <1>6, <3>1
    <3>3. Follows(d[n], y, Lost)
      BY <1>15, <2>3, <3>2, FollowsTwice
    <3> QED
      BY <2>2, <2>8, <3>3 DEF MergedEntry, x
  <2> QED
    BY <2>5, <2>6, <2>7, <2>8
<1>9. \A e : M2431!NewName(e) \in {e, ById(e)}
  BY DEF M2431!NewName, M2431!ById, ById
<1>10. \A n \in DOMAIN d \ current : LeftEntry(n, d[n])
  <2> SUFFICES ASSUME NEW n \in DOMAIN d \ current  PROVE LeftEntry(n, d[n])
    OBVIOUS
  <2> DEFINE e == Source(n)
             x == backup.ldif[e]
             listed == ListValues(x, TRUE)
             classed == IF "class" \in DOMAIN listed THEN With(listed, "class", "gluu")
                        ELSE listed
  <2>1. e \in Taken \ current /\ n \in {e, ById(e)} /\ e \in DOMAIN backup.ldif
    BY <1>2, <1>9 DEF Taken
  <2>2. d[n] = M2431!Line(M2431!Granted(e, classed))
    <3>1. d[n] = M2431!Line(M2431!LeftOut(e))
      BY <1>2
    <3>2. M2431!ListValues(x, TRUE) = listed
      BY DEF M2431!ListValues, ListValues, M2431!With, With, M2431!Restrict, Restrict
    <3>3. M2431!getOldEntryMap[e] = x
      BY <1>0, <1>1, <2>1
    <3> HIDE DEF e, x, listed
    <3>4. M2431!LeftOut(e) = M2431!Granted(e, classed)
      BY <1>4, <3>2, <3>3 DEF M2431!LeftOut
    <3> QED
      BY <3>1, <3>4
  <2>3. Follows(listed, x, Dropped(e))
    <3>1. setting.oldVersion \in Nat
      BY Versions DEF Shapes
    <3> QED
      BY <2>1, <3>1, ListTaken
  <2> HIDE DEF e, x, listed
  <2>4. Follows(classed, listed, {})
    BY FollowsWith, FollowsItself
  <2> HIDE DEF classed
  <2>5. Follows(M2431!Granted(e, classed), classed, {})
    BY <1>7
  <2>6. Follows(d[n], M2431!Granted(e, classed), Lost)
    BY <1>5, <2>2
  <2>7. /\ Dropped(e) \in SUBSET {"list", "type"} /\ Dropped(e) \in SUBSET Dropped(e)
        /\ Lost \in SUBSET Dropped(e) /\ {} \in SUBSET Dropped(e)
    BY DroppedIs
  <2>8. Follows(classed, x, Dropped(e))
    BY <2>3, <2>4, <2>7, FollowsTwice
  <2>9. Follows(M2431!Granted(e, classed), x, Dropped(e))
    BY <2>5, <2>7, <2>8, FollowsTwice
  <2>10. Follows(d[n], x, Dropped(e))
    BY <2>6, <2>7, <2>9, FollowsTwice
  <2> QED
    BY <2>1, <2>10 DEF LeftEntry, x
<1>11. \A e \in Taken \ current : {e, ById(e)} \cap DOMAIN d # {}
  BY <1>2, <1>9
<1>12. \A e \in DOMAIN backup.ldif : OldAttributes(e) \cap ignored \subseteq NotTaken(e)
  <2>1. setting.idp = FALSE
    BY DEF Shapes, Real, Settings
  <2> QED
    BY <2>1 DEF NotTaken, OldAttributes, ignored, M2431!ignoreList
<1>13. "class" \in ignored
  BY DEF ignored, M2431!ignoreList
<1>14. MergedData(d)
  BY <1>2, <1>8, <1>10, <1>11, <1>12, <1>13, MergeKeeps
<1> QED
  BY <1>3, <1>14 DEF Merge

\* processBackupData of import3031.py merges, or the script ends there.
LEMMA Merge3031 ==
    ASSUME Shapes, setting.release = "3031", SoundBackup(backup.ldif),
           SoundData(work.current), M3031!processBackupData
    PROVE  Merge
<1> DEFINE current == DOMAIN work.current
           ignored == M3031!ignoreList
           source == DOMAIN M3031!getOldEntryMap \ current
           Source(n) == CHOOSE e \in source : M3031!NewName(e) = n
           left == [n \in {M3031!NewName(e) : e \in source} |->
                        M3031!Line(M3031!LeftOut(Source(n)))]
           rewritten == [e \in current |-> M3031!Line(M3031!Rewritten(e))]
           d == Over(rewritten, left)
<1>0. Taken = Held
  BY DEF Taken, Skipped, Held
<1>1. /\ DOMAIN M3031!getOldEntryMap = Taken
      /\ \A e \in Taken : M3031!getOldEntryMap[e] = backup.ldif[e]
  BY DEF M3031!getOldEntryMap, M3031!OldEntryMap, M3031!Restrict, Taken, Skipped
<1>2. /\ DOMAIN d = current \cup {M3031!NewName(e) : e \in Taken \ current}
      /\ \A n \in current : d[n] = M3031!Line(M3031!Rewritten(n))
      /\ \A n \in DOMAIN d \ current : d[n] = M3031!Line(M3031!LeftOut(Source(n)))
      /\ \A n \in DOMAIN d \ current :
            Source(n) \in Taken \ current /\ M3031!NewName(Source(n)) = n
  BY <1>1 DEF Over
<1>3. Work([work EXCEPT !.processed = d]) /\ Go
  BY DEF M3031!processBackupData, M3031!Work, Work, M3031!Go, Go, M3031!Over, Over
<1>4. ASSUME NEW x, NEW a, NEW v
      PROVE  /\ M3031!Setting(x, a, v) = Setting(x, a, v)
             /\ M3031!With(x, a, v) = With(x, a, v)
  BY DEF M3031!Setting, Setting, M3031!With, With
<1>7. Lost \in SUBSET {"list", "type"} /\ Lost \in SUBSET Lost /\ {} \in SUBSET Lost
  BY DEF Lost
<1>5. ASSUME NEW x  PROVE Follows(M3031!Line(x), x, Lost)
  <2> DEFINE first == Setting(x, "mode", "auth_ldap_server")
             moded == Setting(first, "cache", "spoilt")
             classed == IF "class" \in DOMAIN moded /\ moded.class = "ox"
                        THEN With(moded, "class", "gluu") ELSE moded
  <2>1. M3031!Line(x) = Without(classed, Lost)
    <3>1. M3031!Setting(M3031!Setting(x, "mode", "auth_ldap_server"), "cache", "spoilt")
              = moded
      BY <1>4
    <3> HIDE DEF moded
    <3>2. M3031!Line(x) = M3031!Without(classed, {"type"})
      BY <1>4, <3>1 DEF M3031!Line
    <3> HIDE DEF classed
    <3> QED
      BY <3>2 DEF M3031!Without, Without, M3031!Restrict, Restrict, Lost
  <2>2. Follows(first, x, {})
    BY FollowsSetting
  <2> HIDE DEF first
  <2>3. Follows(moded, first, {})
    BY FollowsSetting
  <2> HIDE DEF moded
  <2>4. Follows(classed, moded, {})
    <3>1. CASE "class" \in DOMAIN moded /\ moded.class = "ox"
      BY <3>1, FollowsWith
    <3>2. CASE ~("class" \in DOMAIN moded /\ moded.class = "ox")
      BY <3>2, FollowsItself
    <3> QED
      BY <3>1, <3>2
  <2> HIDE DEF classed
  <2>5. Follows(moded, x, {})
    BY <2>2, <2>3, FollowsTwice
  <2>6. Follows(classed, x, {})
    BY <2>4, <2>5, FollowsTwice
  <2>7. Follows(Without(classed, Lost), classed, Lost)
    BY FollowsWithout
  <2> QED
    BY <1>7, <2>1, <2>6, <2>7, FollowsTwice
<1>6. ASSUME NEW e, NEW x  PROVE Follows(M3031!Adapted(e, x), x, {})
  <2>1. CASE setting.oxVersion < 314
    BY <2>1, FollowsItself DEF M3031!Adapted
  <2>2. CASE ~(setting.oxVersion < 314) /\ e = "config"
    BY <1>4, <2>2, FollowsSetting DEF M3031!Adapted
  <2>3. CASE ~(setting.oxVersion < 314) /\ e = "appliance"
    BY <1>4, <2>3, FollowsWith DEF M3031!Adapted
  <2>4. CASE ~(setting.oxVersion < 314) /\ e = "login"
    BY <1>4, <2>4, FollowsWith DEF M3031!Adapted
  <2>5. CASE ~(setting.oxVersion < 314) /\ e \notin {"config", "appliance", "login"}
    BY <2>5, FollowsItself DEF M3031!Adapted
  <2> QED
    BY <2>1, <2>2, <2>3, <2>4, <2>5
<1> HIDE DEF d, left, rewritten, Source, source, ignored
<1>8. \A n \in current : MergedEntry(n, d[n], ignored)
  <2> SUFFICES ASSUME NEW n \in current  PROVE MergedEntry(n, d[n], ignored)
    OBVIOUS
  <2> DEFINE x == work.current[n]
             moved == M3031!Rewritten(n)
  <2>1. Follows(d[n], moved, Lost)
    BY <1>2, <1>5
  <2>2. Follows(x, x, {})
    BY FollowsItself
  <2> HIDE DEF moved
  <2>3. CASE "code" \in DOMAIN x /\ n \in M3031!enabled_scripts
    <3>1. moved = With(x, "status", "true")
      <4>1. moved = M3031!With(x, "status", "true")
        BY <2>3 DEF M3031!Rewritten, moved
      <4> QED
        BY <1>4, <4>1
    <3>2. Follows(moved, x, {})
      BY <3>1, FollowsWith
    <3>3. Follows(d[n], x, Lost)
      BY <1>7, <2>1, <3>2, FollowsTwice
    <3> QED
      BY <2>3, <3>3 DEF MergedEntry
  <2>4. CASE "code" \in DOMAIN x /\ n \notin M3031!enabled_scripts
    <3>1. moved = x
      BY <2>4 DEF M3031!Rewritten, moved
    <3> QED
      BY <2>1, <2>4, <3>1 DEF MergedEntry
  <2>5. CASE "code" \notin DOMAIN x /\ n \notin Taken
    <3>1. moved = x
      BY <1>1, <2>5 DEF M3031!Rewritten, moved
    <3> QED
      BY <2>1, <2>5, <3>1 DEF MergedEntry
  <2>7. CASE "code" \notin DOMAIN x /\ M3031!Unchanged(n)
    <3>1. moved = x
      BY <2>7 DEF M3031!Rewritten, moved
    <3>2. n = "uma_access"
      BY <2>7 DEF M3031!Unchanged
    <3> QED
      BY <2>1, <3>1, <3>2 DEF MergedEntry
  <2>6. CASE "code" \notin DOMAIN x /\ n \in Taken /\ ~M3031!Unchanged(n)
    <3> DEFINE y == Merged(x, backup.ldif[n], ignored)
    <3>1. moved = M3031!Adapted(n, y)
      <4>1. moved = M3031!Adapted(n, M3031!Merged(x, backup.ldif[n], ignored))
        BY <1>1, <2>6 DEF M3031!Rewritten, moved, ignored
      <4>2. M3031!Merged(x, backup.ldif[n], ignored) = y
        BY DEF M3031!Merged, Merged
      <4> QED
        BY <4>1, <4>2
    <3>2. Follows(moved, y, {})
      BY <1>6, <3>1
    <3>3. Follows(d[n], y, Lost)
      BY <1>7, <2>1, <3>2, FollowsTwice
    <3> QED
      BY <1>0, <2>2, <2>6, <3>3 DEF MergedEntry
  <2> QED
    BY <2>3, <2>4, <2>5, <2>6, <2>7
<1>9. \A e : M3031!NewName(e) \in {e, ById(e)}
  BY DEF M3031!NewName, M3031!ById, ById
<1>10. \A n \in DOMAIN d \ current : LeftEntry(n, d[n])
  <2> SUFFICES ASSUME NEW n \in DOMAIN d \ current  PROVE LeftEntry(n, d[n])
    OBVIOUS
  <2> DEFINE e == Source(n)
             x == backup.ldif[e]
             listed == ListValues(x, FALSE)
             settled == Setting(listed, "uid", "passport")
  <2>1. e \in Taken \ current /\ n \in {e, ById(e)} /\ e \in DOMAIN backup.ldif
    BY <1>2, <1>9 DEF Taken
  <2>2. d[n] = M3031!Line(settled)
    <3>1. d[n] = M3031!Line(M3031!LeftOut(e))
      BY <1>2
    <3>2. M3031!ListValues(x, FALSE) = listed
      BY DEF M3031!ListValues, ListValues, M3031!With, With, M3031!Restrict, Restrict
    <3>3. M3031!getOldEntryMap[e] = x
      BY <1>1, <2>1
    <3> HIDE DEF e, x, listed
    <3>4. M3031!LeftOut(e) = settled
      BY <1>4, <3>2, <3>3 DEF M3031!LeftOut
    <3> QED
      BY <3>1, <3>4
  <2>3. Follows(listed, x, Dropped(e))
    <3>1. setting.oldVersion \in Nat
      BY Versions DEF Shapes
    <3> QED
      BY <2>1, <3>1, ListTaken
  <2> HIDE DEF e, x, listed
  <2>4. Follows(settled, listed, {})
    BY FollowsSetting
  <2> HIDE DEF settled
  <2>5. Follows(d[n], settled, Lost)
    BY <1>5, <2>2
  <2>6. /\ Dropped(e) \in SUBSET {"list", "type"} /\ Dropped(e) \in SUBSET Dropped(e)
        /\ Lost \in SUBSET Dropped(e) /\ {} \in SUBSET Dropped(e)
    BY DroppedIs
  <2>7. Follows(settled, x, Dropped(e))
    BY <2>3, <2>4, <2>6, FollowsTwice
  <2>8. Follows(d[n], x, Dropped(e))
    BY <2>5, <2>6, <2>7, FollowsTwice
  <2> QED
    BY <2>1, <2>8 DEF LeftEntry, x
<1>11. \A e \in Taken \ current : {e, ById(e)} \cap DOMAIN d # {}
  BY <1>2, <1>9
<1>12. \A e \in DOMAIN backup.ldif : OldAttributes(e) \cap ignored \subseteq NotTaken(e)
  BY DEF NotTaken, OldAttributes, ignored, M3031!ignoreList
<1>13. "class" \in ignored
  BY DEF ignored, M3031!ignoreList
<1>14. MergedData(d)
  BY <1>2, <1>8, <1>10, <1>11, <1>12, <1>13, MergeKeeps
<1> QED
  BY <1>3, <1>14 DEF Merge

-----------------------------------------------------------------------------
(* The files of an upload, sent in any order.                              *)

\* What the files s have made of the entries data.
Grown(d, data, s) ==
    /\ DOMAIN data \subseteq DOMAIN d
    /\ DOMAIN d \subseteq DOMAIN data \cup {f[1] : f \in s}
    /\ \A n \in DOMAIN data \ {f[1] : f \in s} : d[n] = data[n]
    /\ \A n \in DOMAIN data : \A a \in DOMAIN data[n] :
          a \in DOMAIN d[n] /\ (data[n][a] # "new" => d[n][a] # "new")
    /\ \A n \in DOMAIN d \ DOMAIN data : Complete(n, d[n])
    /\ work.bound =>
          \A f \in s : f[1] \in DOMAIN data /\ ~f[2].add =>
             \A a \in DOMAIN f[2].values : a \in DOMAIN d[f[1]] /\ d[f[1]][a] # "new"
    /\ SoundData(d)
    /\ setting.release = "24" /\ "device" \in DOMAIN d => "person" \in DOMAIN d

\* An entry that a sound file adds or changes is sound.
LEMMA TakenSound ==
    ASSUME SoundBackup(backup.ldif), NEW f, SoundFile(f), NEW x,
           IF f[2].add THEN DOMAIN x = {} ELSE SoundEntry(f[1], x)
    PROVE  SoundEntry(f[1], Over(f[2].values, x))
<1> DEFINE e == f[1]
           v == f[2].values
           y == Over(v, x)
<1>1. /\ e \in DOMAIN backup.ldif /\ e # "admin"
      /\ DOMAIN v \subseteq OldAttributes(e)
      /\ \A a \in DOMAIN v : v[a] # "new"
      /\ f[2].add => DOMAIN v = OldAttributes(e)
      /\ f[2].add /\ e = "employee" => v["custom"] = "old"
      /\ f[2].add \/ DOMAIN v \cap {"custom", "class"} = {}
  BY DEF SoundFile, Changed, Skipped, People, FileOf
<1>2. /\ DOMAIN y = DOMAIN v \cup DOMAIN x
      /\ \A a \in DOMAIN v : y[a] = v[a]
      /\ \A a \in DOMAIN x \ DOMAIN v : y[a] = x[a]
  BY DEF Over
<1>3. e \in (OldNames \cup ByIds) \ {"admin"}
  BY <1>1 DEF SoundBackup, ByIds
<1>4. f[2].add \/ SoundEntry(e, x)
  OBVIOUS
<1>5. f[2].add => DOMAIN x = {}
  OBVIOUS
<1> HIDE DEF v, y, e
<1>6. CASE f[2].add
  <2>1. DOMAIN y = OldAttributes(e) /\ \A a \in OldAttributes(e) : y[a] # "new"
    BY <1>1, <1>2, <1>5, <1>6
  <2>2. e = "employee" => y["custom"] = "old"
    BY <1>1, <1>2, <1>6, <2>1 DEF OldAttributes
  <2>3. SoundEntry(e, y)
    BY <1>3, <2>1, <2>2, OldAttributesSound
  <2> QED
    BY <2>3 DEF e, v, y
<1>7. CASE ~f[2].add
  <2>1. SoundEntry(e, x) /\ DOMAIN v \cap {"custom", "class"} = {}
    BY <1>1, <1>4, <1>7
  <2>2. e = "oxidp" => "client" \in DOMAIN y
    BY <1>2, <2>1 DEF SoundEntry
  <2>3. "code" \in DOMAIN y => FileOf(e) = "scripts"
    <3>1. "code" \in OldAttributes(e) => FileOf(e) = "scripts"
      BY DEF OldAttributes, FileOf
    <3> QED
      BY <1>1, <1>2, <2>1, <3>1 DEF SoundEntry
  <2>4. e \in NewNames \cup ByIds \cup {"idp", "idp_none", "late"} => Known(y)
    <3>1. Known(x) => Known(y)
      BY <1>2, <2>1 DEF Known
    <3> QED
      BY <2>1, <3>1 DEF SoundEntry
  <2>5. e \in ByIds => "name" \in DOMAIN y /\ y["name"] # "new"
    BY <1>1, <1>2, <2>1 DEF SoundEntry
  <2>6. setting.release = "24" /\ e = "employee" =>
            "custom" \in DOMAIN y /\ y["custom"] = "old"
    BY <1>2, <2>1 DEF SoundEntry
  <2>8. e = "resource_oxId" /\ Lost = {} => "type" \in DOMAIN y /\ y["type"] # "new"
    BY <1>1, <1>2, <2>1 DEF SoundEntry
  <2>7. SoundEntry(e, y)
    BY <2>2, <2>3, <2>4, <2>5, <2>6, <2>8 DEF SoundEntry
  <2> QED
    BY <2>7 DEF e, v, y
<1> QED
  BY <1>6, <1>7

\* The next file keeps what the others have made of the entries.
LEMMA TakeGrows ==
    ASSUME Uploading, SoundBackup(backup.ldif), NEW data,
           NEW s, NEW f \in s, SoundFile(f),
           setting.release = "24" /\ "device" \in DOMAIN data => "person" \in DOMAIN data,
           NEW d, Grown(d, data, s \ {f})
    PROVE  Grown(Take(d, f), data, s)
<1> DEFINE e == f[1]
           v == f[2].values
           y == Over(v, IF e \in DOMAIN d THEN d[e] ELSE <<>>)
           refused == \/ ~work.bound
                      \/ f[2].add = (e \in DOMAIN d)
                      \/ Orphan(e, d)
                      \/ host.schema = 0 /\ ~Known(v)
           t == Take(d, f)
<1>1. t = IF refused THEN d ELSE [n \in DOMAIN d \cup {e} |-> IF n = e THEN y ELSE d[n]]
  BY DEF Take
<1>2. /\ e \in DOMAIN backup.ldif /\ e # "admin" /\ f[2].add \in BOOLEAN
      /\ DOMAIN v \subseteq OldAttributes(e)
      /\ \A a \in DOMAIN v : v[a] # "new"
      /\ f[2].add => DOMAIN v = OldAttributes(e)
      /\ f[2].add \/ DOMAIN v \cap {"custom", "class"} = {}
      /\ setting.release = "23" => FileOf(e) # "people"
  BY DEF SoundFile, Changed, Skipped, People, FileOf
<1>3. DOMAIN backup.ldif[e] = OldAttributes(e) /\ e \in AllNames
  BY <1>2, OldEntrySound DEF SoundBackup
<1>4. /\ DOMAIN data \subseteq DOMAIN d
      /\ DOMAIN d \subseteq DOMAIN data \cup {g[1] : g \in s \ {f}}
      /\ \A n \in DOMAIN data \ {g[1] : g \in s \ {f}} : d[n] = data[n]
      /\ \A n \in DOMAIN data : \A a \in DOMAIN data[n] :
            a \in DOMAIN d[n] /\ (data[n][a] # "new" => d[n][a] # "new")
      /\ \A n \in DOMAIN d \ DOMAIN data : Complete(n, d[n])
      /\ work.bound =>
            \A g \in s \ {f} : g[1] \in DOMAIN data /\ ~g[2].add =>
               \A a \in DOMAIN g[2].values : a \in DOMAIN d[g[1]] /\ d[g[1]][a] # "new"
      /\ SoundData(d)
      /\ setting.release = "24" /\ "device" \in DOMAIN d => "person" \in DOMAIN d
  BY DEF Grown
<1>5. e \in {g[1] : g \in s}
  OBVIOUS
<1>6. CASE refused
  <2>1. t = d
    BY <1>1, <1>6
  <2>2. DOMAIN d \subseteq DOMAIN data \cup {g[1] : g \in s}
    BY <1>4
  <2>3. \A n \in DOMAIN data \ {g[1] : g \in s} : d[n] = data[n]
    BY <1>4
  <2>4. ~(work.bound /\ e \in DOMAIN data /\ ~f[2].add)
    <3> SUFFICES ASSUME work.bound, e \in DOMAIN data, ~f[2].add  PROVE FALSE
      OBVIOUS
    <3>1. e \in DOMAIN d /\ ~(f[2].add = (e \in DOMAIN d))
      BY <1>2, <1>4
    <3>2. ~Orphan(e, d)
      BY <1>2, <1>4, <3>1 DEF Orphan, FileOf, Uploading
    <3>3. Known(v)
      BY <1>2 DEF Known
    <3> QED
      BY <1>6, <3>1, <3>2, <3>3
  <2>5. work.bound =>
            \A g \in s : g[1] \in DOMAIN data /\ ~g[2].add =>
               \A a \in DOMAIN g[2].values : a \in DOMAIN d[g[1]] /\ d[g[1]][a] # "new"
    BY <1>4, <2>4
  <2> QED
    BY <1>4, <2>1, <2>2, <2>3, <2>5 DEF Grown
<1>7. CASE ~refused
  <2>1. t = [n \in DOMAIN d \cup {e} |-> IF n = e THEN y ELSE d[n]]
    BY <1>1, <1>7
  <2>2. /\ DOMAIN t = DOMAIN d \cup {e} /\ t[e] = y
        /\ \A n \in DOMAIN d \ {e} : t[n] = d[n]
    BY <2>1
  <2>3. f[2].add <=> e \notin DOMAIN d
    BY <1>2, <1>7
  <2>4. /\ e \in DOMAIN d => DOMAIN y = DOMAIN v \cup DOMAIN d[e]
        /\ e \notin DOMAIN d => DOMAIN y = DOMAIN v
        /\ \A a \in DOMAIN v : a \in DOMAIN y /\ y[a] = v[a]
        /\ e \in DOMAIN d => \A a \in DOMAIN d[e] \ DOMAIN v : y[a] = d[e][a]
    BY DEF Over
  <2>5. ~Orphan(e, d)
    BY <1>7
  <2>6. SoundEntry(e, y)
    <3>1. e \in DOMAIN d => SoundEntry(e, d[e])
      BY <1>4 DEF SoundData
    <3>2. CASE f[2].add
      <4>1. y = Over(v, <<>>) /\ DOMAIN <<>> = {}
        BY <2>3, <3>2
      <4> QED
        BY <3>2, <4>1, TakenSound
    <3>3. CASE ~f[2].add
      <4>1. y = Over(v, d[e]) /\ SoundEntry(e, d[e])
        BY <2>3, <3>1, <3>3
      <4> QED
        BY <3>3, <4>1, TakenSound
    <3> QED
      BY <3>2, <3>3
  <2> HIDE DEF t, y, v, refused
  <2>7. \A a \in DOMAIN v : v[a] # "new"
    BY <1>2
  <2>8. DOMAIN data \subseteq DOMAIN t
    BY <1>4, <2>2
  <2>9. DOMAIN t \subseteq DOMAIN data \cup {g[1] : g \in s}
    BY <1>4, <1>5, <2>2
  <2>10. \A n \in DOMAIN data \ {g[1] : g \in s} : t[n] = data[n]
    BY <1>4, <1>5, <2>2
  <2>11. ASSUME NEW n \in DOMAIN data, NEW a \in DOMAIN data[n]
         PROVE  a \in DOMAIN t[n] /\ (data[n][a] # "new" => t[n][a] # "new")
    <3>1. n \in DOMAIN d /\ a \in DOMAIN d[n] /\ (data[n][a] # "new" => d[n][a] # "new")
      BY <1>4
    <3>2. CASE n = e
      BY <2>2, <2>4, <2>7, <3>1, <3>2
    <3>3. CASE n # e
      BY <2>2, <3>1, <3>3
    <3> QED
      BY <3>2, <3>3
  <2>12. ASSUME NEW n \in DOMAIN t \ DOMAIN data
         PROVE  Complete(n, t[n])
    <3>1. CASE n # e
      BY <1>4, <2>2, <3>1
    <3>2. CASE n = e /\ e \in DOMAIN d
      <4>1. Complete(e, d[e])
        BY <1>4, <3>2
      <4> SUFFICES ASSUME NEW a \in DOMAIN backup.ldif[e] \ NotTaken(e)
                   PROVE  a \in DOMAIN y /\ y[a] # "new"
        BY <2>2, <3>2 DEF Complete
      <4>2. a \in DOMAIN d[e] /\ d[e][a] # "new"
        BY <4>1 DEF Complete
      <4> QED
        BY <2>4, <2>7, <3>2, <4>2
    <3>3. CASE n = e /\ e \notin DOMAIN d
      <4>1. DOMAIN y = OldAttributes(e) /\ \A a \in DOMAIN y : y[a] # "new"
        BY <1>2, <2>3, <2>4, <2>7, <3>3 DEF v
      <4> QED
        BY <1>3, <2>2, <3>3, <4>1 DEF Complete
    <3> QED
      BY <3>1, <3>2, <3>3
  <2>13. ASSUME work.bound, NEW g \in s, g[1] \in DOMAIN data, ~g[2].add,
                NEW a \in DOMAIN g[2].values
         PROVE  a \in DOMAIN t[g[1]] /\ t[g[1]][a] # "new"
    <3>1. CASE g = f
      BY <2>2, <2>4, <2>7, <2>13, <3>1 DEF v
    <3>2. CASE g # f
      <4>1. g[1] \in DOMAIN d /\ a \in DOMAIN d[g[1]] /\ d[g[1]][a] # "new"
        BY <1>4, <2>13, <3>2
      <4>2. CASE g[1] = e
        BY <2>2, <2>4, <2>7, <4>1, <4>2
      <4>3. CASE g[1] # e
        BY <2>2, <4>1, <4>3
      <4> QED
        BY <4>2, <4>3
    <3> QED
      BY <3>1, <3>2
  <2>14. SoundData(t)
    BY <1>3, <1>4, <2>2, <2>6 DEF SoundData
  <2>15. setting.release = "24" /\ "device" \in DOMAIN t => "person" \in DOMAIN t
    BY <1>4, <2>2, <2>5 DEF Orphan
  <2> QED
    BY <2>8, <2>9, <2>10, <2>11, <2>12, <2>13, <2>14, <2>15 DEF Grown, t
<1> QED
  BY <1>6, <1>7

\* So all the files, sent in any order, make something of the entries.
LEMMA UploadGrows ==
    ASSUME Uploading, SoundBackup(backup.ldif), NEW data, SoundData(data),
           setting.release = "24" /\ "device" \in DOMAIN data => "person" \in DOMAIN data,
           NEW files, IsFiniteSet(files), \A f \in files : SoundFile(f)
    PROVE  Grown(FoldSet(LAMBDA f, d : Take(d, f), data, files), data, files)
<1>1. PICK g : /\ Sent(g, data, SUBSET files)
               /\ FoldSet(LAMBDA f, d : Take(d, f), data, files) = g[files]
  BY UploadIsSent
<1>2. g[{}] = data
  BY <1>1 DEF Sent
<1>3. \A s \in SUBSET files : s # {} =>
          ByFile(s) \in s /\ g[s] = Take(g[s \ {ByFile(s)}], ByFile(s))
  BY <1>1 DEF Sent, ByFile
<1> DEFINE bad == {s \in SUBSET files : ~Grown(g[s], data, s)}
<1>4. {} \notin bad
  BY <1>2 DEF Grown
<1>5. ASSUME NEW s \in SUBSET files, s # {}, s \ {ByFile(s)} \notin bad
      PROVE  s \notin bad
  <2>1. ByFile(s) \in s /\ SoundFile(ByFile(s)) /\ s \ {ByFile(s)} \in SUBSET files
    BY <1>3, <1>5
  <2>2. Grown(g[s \ {ByFile(s)}], data, s \ {ByFile(s)})
    BY <1>5, <2>1
  <2>3. Grown(Take(g[s \ {ByFile(s)}], ByFile(s)), data, s)
    BY <2>1, <2>2, TakeGrows
  <2> QED
    BY <1>3, <1>5, <2>3
<1>6. bad = {}
  <2> SUFFICES ASSUME bad # {}  PROVE FALSE
    OBVIOUS
  <2>1. bad \in SUBSET (SUBSET files)
    OBVIOUS
  <2> HIDE DEF bad
  <2>2. PICK s \in bad : \A x \in s : s \ {x} \notin bad
    BY <2>1, LeastSubset
  <2>3. s # {} /\ s \in SUBSET files
    BY <1>4, <2>1, <2>2
  <2>4. ByFile(s) \in s
    BY <1>3, <2>3
  <2> QED
    BY <1>5, <2>2, <2>3, <2>4
<1> QED
  BY <1>1, <1>6

\* Nothing of the new server changes but its entries, and nothing of the
\* working directory but what the server has rejected.
OnlyData ==
    /\ DOMAIN host' = DOMAIN host /\ host'.webapps = host.webapps
    /\ host'.ldap = host.ldap /\ host'.idpClient = host.idpClient
OnlyRejected ==
    /\ DOMAIN work' = DOMAIN work /\ work'.bound = work.bound
    /\ work'.current = work.current /\ work'.processed = work.processed
    /\ work'.mods = work.mods

\* The step of an import that sends the files, one half of them at a time.
Upload ==
    /\ UploadMods(Deep, ~run.cut)
    /\ run' = IF run.cut THEN [run EXCEPT !.cut = FALSE, !.step = @ + 1]
              ELSE [run EXCEPT !.cut = TRUE]

\* uploadConfig of import23.py sends the files.
LEMMA Upload23 ==
    ASSUME setting.release = "23", M23!uploadConfig
    PROVE  Upload
<1>1. M23!UploadMods(Deep, ~run.cut) <=> UploadMods(Deep, ~run.cut)
  BY DEF M23!UploadMods, UploadMods, M23!FoldSet, FoldSet, M23!MapThenFoldSet,
         MapThenFoldSet, M23!Take, Take, M23!Orphan, Orphan, M23!Known, Known,
         M23!Over, Over
<1> QED
  BY <1>1 DEF M23!uploadConfig, Upload, Deep

\* uploadLDIF of import24.py sends the files.
LEMMA Upload24 ==
    ASSUME setting.release = "24", M24!uploadLDIF
    PROVE  Upload
<1>1. M24!UploadMods(Deep, ~run.cut) <=> UploadMods(Deep, ~run.cut)
  BY DEF M24!UploadMods, UploadMods, M24!FoldSet, FoldSet, M24!MapThenFoldSet,
         MapThenFoldSet, M24!Take, Take, M24!Orphan, Orphan, M24!Known, Known,
         M24!Over, Over
<1> QED
  BY <1>1 DEF M24!uploadLDIF, Upload, Deep

\* The files that are sent: what they make of the directory, what is rejected,
\* and what is stored.
LEMMA UploadSends ==
    ASSUME Shapes, Uploading, run.phase = "import", run.step = Uploads,
           Sounds, Filed, Sending, UploadMods(Deep, ~run.cut)
    PROVE  /\ OnlyData /\ OnlyRejected /\ backup' = backup
           /\ \E files \in SUBSET work.mods : Grown(host'.data, host.data, files)
           /\ \A e \in Changed : run.cut \/ e \notin Deep =>
                 e \in work'.rejected \/ Stored(e, host'.data)
           /\ \A e \in Changed : work.bound /\ e \in DOMAIN host'.data /\ e \in Deep =>
                 run.cut \/ Covered(e, host'.data)
<1> DEFINE files == {f \in work.mods : (f[1] \in Deep) # ~run.cut}
           data == FoldSet(LAMBDA f, d : Take(d, f), host.data, files)
           refused == {f[1] : f \in {g \in files :
                                         ~work.bound \/ g[1] \notin DOMAIN data}}
           rejected == (IF ~run.cut THEN {} ELSE work.rejected) \cup refused
<1>1. /\ host' = [host EXCEPT !.data = data]
      /\ work' = [work EXCEPT !.rejected = rejected]
      /\ backup' = backup
  BY DEF UploadMods
<1>2. host'.data = data /\ work'.rejected = rejected
  BY <1>1 DEF Shapes
<1>3. IsFiniteSet(files) /\ \A f \in files : SoundFile(f)
  BY FS_Subset DEF Filed
<1>4. Grown(data, host.data, files)
  <2>1. SoundBackup(backup.ldif) /\ SoundData(host.data)
    BY DEF Sounds
  <2>2. setting.release = "24" /\ "device" \in DOMAIN host.data =>
            "person" \in DOMAIN host.data
    BY DEF Sending
  <2> HIDE DEF files
  <2> QED
    BY <1>3, <2>1, <2>2, UploadGrows
<1>5. \A e \in Changed :
          /\ \E f \in work.mods : f[1] = e
          /\ run.cut /\ e \notin Deep => e \in work.rejected \/ Stored(e, host.data)
          /\ (~run.cut \/ e \in Deep) /\ work.bound /\ e \in DOMAIN host.data =>
                 Covered(e, host.data)
  BY DEF Sending
<1>6. \A f \in work.mods : f \in files <=> ((f[1] \in Deep) <=> run.cut)
  BY DEF Shapes
<1>7. \A f \in files : ~work.bound \/ f[1] \notin DOMAIN data => f[1] \in rejected
  OBVIOUS
<1>8. run.cut => work.rejected \subseteq rejected
  OBVIOUS
<1> HIDE DEF files, data, refused, rejected
<1>9. /\ \A n \in DOMAIN host.data \ {f[1] : f \in files} :
            n \in DOMAIN data /\ data[n] = host.data[n]
      /\ DOMAIN host.data \subseteq DOMAIN data
      /\ \A n \in DOMAIN data \ {f[1] : f \in files} : n \in DOMAIN host.data
      /\ \A n \in DOMAIN host.data : \A a \in DOMAIN host.data[n] :
            a \in DOMAIN data[n] /\ (host.data[n][a] # "new" => data[n][a] # "new")
      /\ \A n \in DOMAIN data \ DOMAIN host.data : Complete(n, data[n])
      /\ work.bound =>
            \A f \in files : f[1] \in DOMAIN host.data /\ ~f[2].add =>
               \A a \in DOMAIN f[2].values :
                  a \in DOMAIN data[f[1]] /\ data[f[1]][a] # "new"
  BY <1>4 DEF Grown
<1>10. ASSUME NEW e \in Changed, (e \in Deep) <=> run.cut
       PROVE  e \in rejected \/ Stored(e, data)
  <2>1. PICK f \in files : f[1] = e
    BY <1>5, <1>6, <1>10
  <2>2. CASE ~work.bound \/ e \notin DOMAIN data
    BY <1>7, <2>1, <2>2
  <2>3. CASE e \in DOMAIN data \ DOMAIN host.data
    BY <1>9, <2>3 DEF Stored
  <2>4. CASE work.bound /\ e \in DOMAIN data /\ e \in DOMAIN host.data
    <3>1. Covered(e, host.data)
      BY <1>5, <1>10, <2>4
    <3> SUFFICES ASSUME NEW a \in DOMAIN backup.ldif[e] \ NotTaken(e)
                 PROVE  a \in DOMAIN data[e] /\ data[e][a] # "new"
      BY <2>4 DEF Stored, Complete
    <3>2. CASE a \in DOMAIN host.data[e] /\ host.data[e][a] # "new"
      BY <1>9, <2>4, <3>2
    <3>3. CASE \E g \in work.mods : g[1] = e /\ ~g[2].add /\ a \in DOMAIN g[2].values
      BY <1>6, <1>9, <1>10, <2>4, <3>3
    <3> QED
      BY <3>1, <3>2, <3>3 DEF Covered
  <2> QED
    BY <2>2, <2>3, <2>4
<1>11. ASSUME NEW e \in Changed, run.cut, e \notin Deep
       PROVE  e \in rejected \/ Stored(e, data)
  <2>1. e \notin {f[1] : f \in files}
    BY <1>6, <1>11 DEF files
  <2>2. e \in work.rejected \/ Stored(e, host.data)
    BY <1>5, <1>11
  <2> QED
    BY <1>8, <1>9, <1>11, <2>1, <2>2 DEF Stored
<1>12. ASSUME NEW e \in Changed, work.bound, e \in DOMAIN data, e \in Deep, ~run.cut
       PROVE  Covered(e, data)
  <2>1. e \notin {f[1] : f \in files}
    BY <1>6, <1>12 DEF files
  <2>2. e \in DOMAIN host.data /\ data[e] = host.data[e]
    BY <1>9, <1>12, <2>1
  <2>3. Covered(e, host.data)
    BY <1>5, <1>12, <2>2
  <2> QED
    BY <2>2, <2>3 DEF Covered
<1>13. run.cut \in BOOLEAN
  BY DEF Shapes
<1>14. files \in SUBSET work.mods
  BY DEF files
<1>15. OnlyData
  BY <1>1 DEF Shapes, OnlyData
<1>16. OnlyRejected
  BY <1>1 DEF Shapes, OnlyRejected
<1>17. \A e \in Changed : run.cut \/ e \notin Deep => e \in rejected \/ Stored(e, data)
  BY <1>10, <1>11, <1>13
<1>18. \A e \in Changed : work.bound /\ e \in DOMAIN data /\ e \in Deep =>
           run.cut \/ Covered(e, data)
  BY <1>12, <1>13
<1> QED
  BY <1>1, <1>2, <1>4, <1>14, <1>15, <1>16, <1>17, <1>18

\* The file x is what the entry e of the backup needs beside the entry new.
NeededFile(e, x) ==
    /\ SoundFile(<<e, x>>)
    /\ e \in DOMAIN work.current =>
          /\ ~x.add
          /\ \A a \in DOMAIN backup.ldif[e] \ NotTaken(e) :
                \/ a \in DOMAIN work.current[e] /\ work.current[e][a] # "new"
                \/ a \in DOMAIN x.values

\* The step of an import that writes the files.
Restore ==
    \E files : /\ \A e \in Changed : NeededFile(e, files[e])
               /\ Work([work EXCEPT !.mods = @ \cup {<<e, files[e]>> : e \in Changed}])
               /\ Go

\* The attributes of a merged entry that the new server has otherwise.
Changes(new, from, ignored) ==
    LET merged == Merged(new, from, ignored)
        changed == {a \in DOMAIN merged : a \in DOMAIN new => merged[a] # new[a]}
    IN  Restrict(merged, changed)

\* A file with the changes of an entry is a sound one that an upload needs.
LEMMA ChangesNeeded ==
    ASSUME Uploading, SoundBackup(backup.ldif), SoundData(work.current),
           NEW e \in Changed, e \in DOMAIN work.current,
           NEW ignored, "class" \in ignored,
           OldAttributes(e) \cap ignored \subseteq NotTaken(e), NEW x,
           x = [add |-> FALSE,
                values |-> Changes(work.current[e], backup.ldif[e], ignored)]
    PROVE  NeededFile(e, x)
<1> DEFINE new == work.current[e]
           old == backup.ldif[e]
           merged == Merged(new, old, ignored)
           v == Changes(new, old, ignored)
<1>1. /\ e \in DOMAIN backup.ldif /\ e # "admin"
      /\ setting.release = "23" => FileOf(e) # "people"
  BY DEF Changed, People, Skipped, FileOf
<1>2. /\ DOMAIN old = OldAttributes(e)
      /\ \A a \in OldAttributes(e) : old[a] # "new"
      /\ e = "employee" => old["custom"] = "old"
  BY <1>1 DEF SoundBackup
<1>3. SoundEntry(e, new)
  BY DEF SoundData
<1>4. /\ DOMAIN merged = DOMAIN new \cup (DOMAIN old \ ignored)
      /\ \A a \in DOMAIN new : a \notin DOMAIN old \ ignored => merged[a] = new[a]
      /\ \A a \in DOMAIN old \ ignored : merged[a] = "both" \/ merged[a] = old[a]
      /\ \A a \in DOMAIN old \ ignored : a # "json" => merged[a] = old[a]
  BY DEF Merged
<1>5. /\ DOMAIN v = {a \in DOMAIN merged : a \in DOMAIN new => merged[a] # new[a]}
      /\ \A a \in DOMAIN v : v[a] = merged[a]
  BY DEF Changes, Restrict
<1>6. x.add = FALSE /\ x.values = v
  OBVIOUS
<1> HIDE DEF new, old, merged, v
<1>7. DOMAIN v \subseteq DOMAIN old \ ignored
  BY <1>4, <1>5
<1>8. \A a \in DOMAIN v : v[a] # "new"
  BY <1>2, <1>4, <1>5, <1>7
<1>9. "custom" \notin DOMAIN v
  <2> SUFFICES ASSUME "custom" \in DOMAIN v  PROVE FALSE
    OBVIOUS
  <2>1. e = "employee" /\ merged["custom"] = "old"
    BY <1>2, <1>4, <1>7 DEF OldAttributes
  <2>2. setting.release = "24"
    BY <1>1, <2>1 DEF Uploading, FileOf
  <2>3. "custom" \in DOMAIN new /\ new["custom"] = "old"
    BY <1>3, <2>1, <2>2 DEF SoundEntry
  <2> QED
    BY <1>5, <2>1, <2>3
<1>10. "class" \notin DOMAIN v
  BY <1>7
<1>11. SoundFile(<<e, x>>)
  BY <1>2, <1>6, <1>7, <1>8, <1>9, <1>10 DEF SoundFile
<1>12. \A a \in DOMAIN old \ NotTaken(e) :
          (a \in DOMAIN new /\ new[a] # "new") \/ a \in DOMAIN v
  BY <1>2, <1>4, <1>5
<1> QED
  BY <1>6, <1>11, <1>12 DEF NeededFile, new, old

\* An entry that the new server has not is added as it was.
LEMMA AdditionNeeded ==
    ASSUME SoundBackup(backup.ldif), NEW e \in Changed, e \notin DOMAIN work.current,
           NEW v, DOMAIN v = OldAttributes(e),
           \A a \in DOMAIN v : v[a] = backup.ldif[e][a] \/ (v[a] = "object" /\ a = "list")
    PROVE  NeededFile(e, [add |-> TRUE, values |-> v])
<1>1. e \in DOMAIN backup.ldif
  BY DEF Changed
<1>2. /\ \A a \in OldAttributes(e) : backup.ldif[e][a] # "new"
      /\ e = "employee" => backup.ldif[e]["custom"] = "old"
  BY <1>1 DEF SoundBackup
<1>3. e = "employee" => "custom" \in OldAttributes(e)
  BY DEF OldAttributes
<1> QED
  BY <1>2, <1>3 DEF NeededFile, SoundFile

\* restoreConfig of import23.py writes sound files, the needed ones among them.
LEMMA Restore23 ==
    ASSUME Shapes, setting.release = "23", SoundBackup(backup.ldif),
           SoundData(work.current), M23!restoreConfig
    PROVE  Restore
<1> DEFINE old == M23!getOldEntryMap
           ForEntry(e) == IF e \in DOMAIN work.current
                          THEN M23!writeMod(work.current[e], old[e])
                          ELSE M23!addEntry(old[e])
           files == [e \in Changed |-> ForEntry(e)]
<1>1. DOMAIN old = Changed /\ \A e \in Changed : old[e] = backup.ldif[e]
  BY DEF M23!getOldEntryMap, M23!OldEntryMap, M23!Restrict, M23!people, Changed, People,
         M23!FileOf, FileOf
<1>2. /\ M23!Work([work EXCEPT !.mods = @ \cup {<<e, ForEntry(e)>> : e \in DOMAIN old}])
      /\ M23!Go
  BY DEF M23!restoreConfig
<1>3. {<<e, ForEntry(e)>> : e \in DOMAIN old} = {<<e, files[e]>> : e \in Changed}
  BY <1>1
<1>4. Work([work EXCEPT !.mods = @ \cup {<<e, files[e]>> : e \in Changed}]) /\ Go
  BY <1>2, <1>3 DEF M23!Work, Work, M23!Go, Go
<1>5. ASSUME NEW e \in Changed  PROVE NeededFile(e, files[e])
  <2>1. files[e] = ForEntry(e)
    OBVIOUS
  <2>2. CASE e \in DOMAIN work.current
    <3>1. files[e] = M23!writeMod(work.current[e], backup.ldif[e])
      BY <1>1, <2>1, <2>2
    <3>2. M23!writeMod(work.current[e], backup.ldif[e])
              = [add |-> FALSE,
                 values |-> Changes(work.current[e], backup.ldif[e], {"class"})]
      BY DEF M23!writeMod, Changes, M23!Merged, Merged, M23!Restrict, Restrict,
             M23!ignoreList
    <3>3. OldAttributes(e) \cap {"class"} \subseteq NotTaken(e)
      BY DEF NotTaken
    <3> HIDE DEF files
    <3> QED
      BY <2>2, <3>1, <3>2, <3>3, ChangesNeeded DEF Uploading
  <2>3. CASE e \notin DOMAIN work.current
    <3> DEFINE v == backup.ldif[e]
    <3>1. files[e] = [add |-> TRUE, values |-> v]
      BY <1>1, <2>1, <2>3 DEF M23!addEntry
    <3>2. DOMAIN v = OldAttributes(e)
      BY DEF SoundBackup, Changed
    <3>3. \A a \in DOMAIN v : v[a] = backup.ldif[e][a]
      OBVIOUS
    <3> HIDE DEF files, v
    <3>4. NeededFile(e, [add |-> TRUE, values |-> v])
      BY <2>3, <3>2, <3>3, AdditionNeeded
    <3> QED
      BY <3>1, <3>4
  <2> QED
    BY <2>2, <2>3
<1> HIDE DEF files
<1> QED
  BY <1>4, <1>5 DEF Restore

\* restoreConfig of import24.py writes sound files, the needed ones among them.
LEMMA Restore24 ==
    ASSUME Shapes, setting.release = "24", SoundBackup(backup.ldif),
           SoundData(work.current), M24!restoreConfig
    PROVE  Restore
<1> DEFINE old == M24!getOldEntryMap
           ForEntry(e) == IF e \in DOMAIN work.current
                          THEN M24!writeMod(work.current[e], old[e])
                          ELSE M24!addEntry(old[e])
           files == [e \in Changed |-> ForEntry(e)]
<1>1. DOMAIN old = Changed /\ \A e \in Changed : old[e] = backup.ldif[e]
  BY DEF M24!getOldEntryMap, M24!OldEntryMap, M24!Restrict, Changed, Skipped
<1>2. /\ M24!Work([work EXCEPT !.mods = @ \cup {<<e, ForEntry(e)>> : e \in DOMAIN old}])
      /\ M24!Go
  BY DEF M24!restoreConfig
<1>3. {<<e, ForEntry(e)>> : e \in DOMAIN old} = {<<e, files[e]>> : e \in Changed}
  BY <1>1
<1>4. Work([work EXCEPT !.mods = @ \cup {<<e, files[e]>> : e \in Changed}]) /\ Go
  BY <1>2, <1>3 DEF M24!Work, Work, M24!Go, Go
<1>5. ASSUME NEW e \in Changed  PROVE NeededFile(e, files[e])
  <2>1. files[e] = ForEntry(e)
    OBVIOUS
  <2>2. CASE e \in DOMAIN work.current
    <3>1. files[e] = M24!writeMod(work.current[e], backup.ldif[e])
      BY <1>1, <2>1, <2>2
    <3>2. M24!writeMod(work.current[e], backup.ldif[e])
              = [add |-> FALSE,
                 values |-> Changes(work.current[e], backup.ldif[e], {"class", "jwks"})]
      BY DEF M24!writeMod, Changes, M24!Merged, Merged, M24!Restrict, Restrict,
             M24!ignoreList
    <3>3. OldAttributes(e) \cap {"class", "jwks"} \subseteq NotTaken(e)
      BY DEF NotTaken
    <3> HIDE DEF files
    <3> QED
      BY <2>2, <3>1, <3>2, <3>3, ChangesNeeded DEF Uploading
  <2>3. CASE e \notin DOMAIN work.current
    <3> DEFINE v == M24!addEntry(backup.ldif[e]).values
    <3>1. files[e] = [add |-> TRUE, values |-> v]
      BY <1>1, <2>1, <2>3 DEF M24!addEntry
    <3>2. DOMAIN backup.ldif[e] = OldAttributes(e)
      BY DEF SoundBackup, Changed
    <3>3. v = backup.ldif[e] \/ v = M24!ListValues(backup.ldif[e], TRUE)
      BY DEF M24!addEntry
    <3>4. /\ DOMAIN v = DOMAIN backup.ldif[e]
          /\ \A a \in DOMAIN v :
                v[a] = backup.ldif[e][a] \/ (v[a] = "object" /\ a = "list")
      <4> HIDE DEF v
      <4>1. CASE v = backup.ldif[e]
        BY <4>1
      <4>2. CASE v = M24!ListValues(backup.ldif[e], TRUE)
        <5> DEFINE x == backup.ldif[e]
        <5>1. CASE "list" \in DOMAIN x /\ x.list = "list"
          <6>1. v = M24!With(x, "list", "object")
            BY <4>2, <5>1 DEF M24!ListValues
          <6> QED
            BY <5>1, <6>1 DEF M24!With
        <5>2. CASE ~("list" \in DOMAIN x /\ x.list = "list")
          <6>1. v = x
            BY <4>2, <5>2 DEF M24!ListValues
          <6> QED
            BY <6>1
        <5> QED
          BY <5>1, <5>2
      <4> QED
        BY <3>3, <4>1, <4>2
    <3> HIDE DEF files, v
    <3> QED
      BY <2>3, <3>1, <3>2, <3>4, AdditionNeeded
  <2> QED
    BY <2>2, <2>3
<1> HIDE DEF files
<1> QED
  BY <1>4, <1>5 DEF Restore

-----------------------------------------------------------------------------
(* The people of a backup of 2.3.                                          *)

\* The step of import23 that deletes the administrator.
Delete ==
    /\ backup' = backup /\ work' = work /\ Go /\ OnlyData
    /\ DOMAIN host.data \ {"admin"} \subseteq DOMAIN host'.data
    /\ DOMAIN host'.data \subseteq DOMAIN host.data
    /\ \A n \in DOMAIN host'.data : host'.data[n] = host.data[n]

\* deleteEntries of import23.py deletes nothing else.
LEMMA Deleted23 ==
    ASSUME Shapes, setting.release = "23", M23!deleteEntries
    PROVE  Delete
<1> USE DEF Delete
<1>1. CASE work.bound
  <2>1. /\ backup' = backup /\ work' = work /\ Go
        /\ host' =
              [host EXCEPT !.data = Restrict(host.data, DOMAIN host.data \ {"admin"})]
    BY <1>1 DEF M23!deleteEntries, M23!Host, M23!Go, Go, M23!Restrict, Restrict
  <2> QED
    BY <2>1 DEF Shapes, Restrict, OnlyData
<1>2. CASE ~work.bound
  BY <1>2 DEF M23!deleteEntries, M23!Same, M23!Go, Go, OnlyData
<1> QED
  BY <1>1, <1>2

\* The step of import23 that adds the people.
AddPeople ==
    /\ backup' = backup /\ Go /\ OnlyData /\ OnlyRejected
    /\ work.rejected \subseteq work'.rejected
    /\ SoundData(host'.data)
    /\ DOMAIN host.data \subseteq DOMAIN host'.data
    /\ DOMAIN host'.data \subseteq DOMAIN host.data \cup People
    /\ \A n \in DOMAIN host.data : host'.data[n] = host.data[n]
    /\ \A e \in People \ {"admin"} :
          /\ e \in work'.rejected \/ Stored(e, host'.data)
          /\ e \in DOMAIN host'.data => Stored(e, host'.data)

\* addPeople of import23.py adds each person, or lists the person as rejected.
LEMMA Added23 ==
    ASSUME Shapes, setting.release = "23", Sounds,
           \A e \in (People \ {"admin"}) \cap DOMAIN host.data : Stored(e, host.data),
           M23!addPeople
    PROVE  AddPeople
<1> DEFINE added == M23!Accepted(M23!Restrict(backup.ldif, M23!people))
           data == Over(host.data, Restrict(backup.ldif, added))
<1>1. M23!people = People
  BY DEF M23!people, People, M23!FileOf, FileOf
<1>2. added \subseteq People
  BY <1>1 DEF M23!Accepted, M23!Restrict
<1>3. /\ backup' = backup /\ Go
      /\ \/ /\ host' = [host EXCEPT !.data = data]
            /\ work' = [work EXCEPT !.rejected = @ \cup (People \ added)]
         \/ host' = host /\ work' = [work EXCEPT !.rejected = @ \cup People]
  BY <1>1 DEF M23!addPeople, M23!Go, Go, M23!Over, Over, M23!Restrict, Restrict
<1>4. /\ DOMAIN data = DOMAIN host.data \cup added
      /\ \A n \in DOMAIN host.data : data[n] = host.data[n]
      /\ \A n \in added \ DOMAIN host.data : data[n] = backup.ldif[n]
  BY DEF Over, Restrict
<1>5. ASSUME NEW e \in People
      PROVE  /\ e \in DOMAIN backup.ldif /\ e \in AllNames
             /\ SoundEntry(e, backup.ldif[e]) /\ Complete(e, backup.ldif[e])
  <2>1. e \in DOMAIN backup.ldif
    BY DEF People
  <2>2. CASE e # "admin"
    BY <2>1, <2>2, OldEntrySound DEF Sounds
  <2>3. CASE e = "admin"
    <3>1. DOMAIN backup.ldif[e] = {"name", "class"} /\ \A a \in {"name", "class"} :
              backup.ldif[e][a] # "new"
      BY <2>1, <2>3 DEF Sounds, SoundBackup, OldAttributes
    <3>2. setting.oxVersion < 300
      BY DEF Shapes, Real
    <3>3. SoundEntry(e, backup.ldif[e])
      BY <2>3, <3>1, <3>2 DEF SoundEntry, Known, ByIds
    <3>4. Complete(e, backup.ldif[e])
      BY <3>1 DEF Complete
    <3>5. e \in AllNames
      BY <2>3 DEF AllNames, OldNames
    <3> QED
      BY <2>1, <3>3, <3>4, <3>5
  <2> QED
    BY <2>2, <2>3
<1>6. SoundData(host.data)
  BY DEF Sounds
<1> HIDE DEF data, added
<1>7. SoundData(data)
  BY <1>2, <1>4, <1>5, <1>6 DEF SoundData
<1>8. \A e \in People \ {"admin"} : e \in DOMAIN data => Stored(e, data)
  BY <1>4, <1>5 DEF Stored
<1>9. CASE /\ host' = [host EXCEPT !.data = data]
           /\ work' = [work EXCEPT !.rejected = @ \cup (People \ added)]
  <2>1. host'.data = data /\ work'.rejected = work.rejected \cup (People \ added)
    BY <1>9 DEF Shapes
  <2>2. OnlyData
    BY <1>9 DEF Shapes, OnlyData
  <2>3. OnlyRejected
    BY <1>9 DEF Shapes, OnlyRejected
  <2>4. \A e \in People \ {"admin"} : e \in work'.rejected \/ Stored(e, data)
    BY <1>4, <1>8, <2>1
  <2> QED
    BY <1>2, <1>3, <1>4, <1>7, <1>8, <2>1, <2>2, <2>3, <2>4 DEF AddPeople
<1>10. CASE host' = host /\ work' = [work EXCEPT !.rejected = @ \cup People]
  <2>1. host'.data = host.data /\ work'.rejected = work.rejected \cup People
    BY <1>10 DEF Shapes
  <2>2. OnlyData
    BY <1>10 DEF OnlyData
  <2>3. OnlyRejected
    BY <1>10 DEF Shapes, OnlyRejected
  <2> QED
    BY <1>3, <1>6, <2>1, <2>2, <2>3 DEF AddPeople
<1> QED
  BY <1>3, <1>9, <1>10

-----------------------------------------------------------------------------
(* The client of Shibboleth.                                               *)

\* The step of an import that looks for the client, or adds one.
Resolve ==
    /\ backup' = backup /\ work' = work /\ OnlyData /\ SoundData(host'.data)
    /\ DOMAIN host.data \ {"idp_none"} \subseteq DOMAIN host'.data
    /\ DOMAIN host'.data \subseteq DOMAIN host.data \cup {"idp_1", "idp_2"}
    /\ \A n \in DOMAIN host.data \ {"idp_none"} : host'.data[n] = host.data[n]
    /\ \/ Stop
       \/ /\ Go
          /\ (IF host.idpClient = "none" THEN NewIdpClient ELSE host.idpClient)
                 \in DOMAIN host'.data

\* The step that writes it to setup.properties.last.
WriteClient ==
    /\ backup' = backup /\ work' = work /\ Go
    /\ DOMAIN host' = DOMAIN host /\ host'.data = host.data
    /\ host'.webapps = host.webapps /\ host'.ldap = host.ldap
    /\ host'.idpClient = IF host.idpClient = "none" THEN NewIdpClient ELSE host.idpClient

\* The step that names it in the configuration of Shibboleth.
FixClient ==
    \/ Same /\ Stop
    \/ /\ backup' = backup /\ work' = work /\ OnlyData /\ Go
       /\ "oxidp" \in DOMAIN host.data /\ DOMAIN host'.data = DOMAIN host.data
       /\ \A n \in DOMAIN host.data \ {"oxidp"} : host'.data[n] = host.data[n]
       /\ DOMAIN host'.data["oxidp"] = DOMAIN host.data["oxidp"]
       /\ host'.data["oxidp"]["client"] = host.idpClient
       /\ \A a \in DOMAIN host.data["oxidp"] \ {"client"} :
             host'.data["oxidp"][a] = host.data["oxidp"][a]

\* import2431.py puts the client of the IDP in the place of idp_none.
LEMMA Resolved2431 ==
    ASSUME Shapes, setting.release = "2431", SoundData(host.data), M2431!idpResolved
    PROVE  Resolve
<1> DEFINE kept == Restrict(host.data, DOMAIN host.data \ {"idp_none"})
           client == [e \in {NewIdpClient} |-> [name |-> "new"]]
<1>1. NewIdpClient \in {"idp_1", "idp_2"} /\ M2431!NewClient = NewIdpClient
  BY DEF NewIdpClient, M2431!NewClient
<1>2. M2431!Restrict(host.data, DOMAIN host.data \ {"idp_none"}) = kept
  BY DEF M2431!Restrict, Restrict
<1>3. M2431!Over(kept, [e \in {M2431!NewClient} |-> [name |-> "new"]]) =
          Over(kept, client)
  BY <1>1 DEF M2431!Over, Over
<1>4. /\ DOMAIN kept = DOMAIN host.data \ {"idp_none"}
      /\ \A n \in DOMAIN kept : kept[n] = host.data[n]
  BY DEF Restrict
<1>5. /\ DOMAIN Over(kept, client) = DOMAIN kept \cup {NewIdpClient}
      /\ \A n \in DOMAIN kept : Over(kept, client)[n] = kept[n]
      /\ NewIdpClient \notin DOMAIN kept =>
            Over(kept, client)[NewIdpClient] = [name |-> "new"]
  BY DEF Over
<1>6. SoundData(kept)
  BY <1>4 DEF SoundData
<1>7. SoundData(Over(kept, client))
  <2>1. SoundEntry(NewIdpClient, [name |-> "new"]) /\ NewIdpClient \in AllNames
    BY <1>1 DEF SoundEntry, NewNames, ByIds, AllNames
  <2> HIDE DEF kept, client
  <2> QED
    BY <1>5, <1>6, <2>1 DEF SoundData
<1>8. \/ Same /\ Stop
      \/ host.idpClient = "none" /\ Host([host EXCEPT !.data = Over(kept, client)]) /\ Go
      \/ Host([host EXCEPT !.data = kept]) /\ Stop
      \/ host.idpClient # "none" /\ host.idpClient \in DOMAIN kept
         /\ Host([host EXCEPT !.data = kept]) /\ Go
  <2>1. "none" \notin DOMAIN kept
    <3>1. "none" \notin AllNames
      BY DEF AllNames, OldNames, NewNames, ByIds
    <3> QED
      BY <1>6, <3>1 DEF SoundData
  <2> HIDE DEF kept, client
  <2> QED
    BY <1>2, <1>3, <2>1 DEF M2431!idpResolved, M2431!Same, Same, M2431!Stop, Stop,
           M2431!Host, Host, M2431!Go, Go
<1> HIDE DEF kept, client
<1>9. CASE Same /\ Stop
  BY <1>9 DEF Same, Resolve, OnlyData
<1>10. CASE /\ host.idpClient = "none"
            /\ Host([host EXCEPT !.data = Over(kept, client)]) /\ Go
  <2>1. host'.data = Over(kept, client) /\ backup' = backup /\ work' = work /\ OnlyData
    BY <1>10 DEF Host, Shapes, OnlyData
  <2> QED
    BY <1>1, <1>4, <1>5, <1>7, <1>10, <2>1 DEF Resolve
<1>11. CASE /\ Host([host EXCEPT !.data = kept])
            /\ Stop \/ (host.idpClient # "none" /\ host.idpClient \in DOMAIN kept /\ Go)
  <2>1. host'.data = kept /\ backup' = backup /\ work' = work /\ OnlyData
    BY <1>11 DEF Host, Shapes, OnlyData
  <2> QED
    BY <1>4, <1>6, <1>11, <2>1 DEF Resolve
<1> QED
  BY <1>8, <1>9, <1>10, <1>11

\* import2431.py writes the id of the client to the properties.
LEMMA Written2431 ==
    ASSUME Shapes, setting.release = "2431", M2431!idpClientIdWritten
    PROVE  WriteClient
<1>1. M2431!NewClient = NewIdpClient
  BY DEF NewIdpClient, M2431!NewClient
<1>2. CASE host.idpClient = "none"
  BY <1>1, <1>2
  DEF M2431!idpClientIdWritten, M2431!Host, M2431!Go, Go, WriteClient, Shapes
<1>3. CASE host.idpClient # "none"
  BY <1>3
  DEF M2431!idpClientIdWritten, M2431!Same, M2431!Go, Go, WriteClient, Shapes
<1> QED
  BY <1>2, <1>3

\* import2431.py names the client in the configuration of Shibboleth.
LEMMA Fixed2431 ==
    ASSUME Shapes, setting.release = "2431", SoundData(host.data), M2431!oxIDPFixed
    PROVE  FixClient
<1>1. CASE "oxidp" \notin DOMAIN host.data
  BY <1>1 DEF M2431!oxIDPFixed, M2431!Same, Same, M2431!Stop, Stop, FixClient
<1>2. CASE "oxidp" \in DOMAIN host.data
  <2> DEFINE x == host.data["oxidp"]
             y == M2431!With(x, "client", host.idpClient)
  <2>1. "client" \in DOMAIN x
    BY <1>2 DEF SoundData, SoundEntry
  <2>2. /\ DOMAIN y = DOMAIN x /\ y["client"] = host.idpClient
        /\ \A a \in DOMAIN x \ {"client"} : y[a] = x[a]
    BY <2>1 DEF M2431!With
  <2>3. host' = [host EXCEPT !.data = [host.data EXCEPT !["oxidp"] = y]]
    BY <1>2 DEF M2431!oxIDPFixed, M2431!Host
  <2>4. Go /\ backup' = backup /\ work' = work
    BY <1>2 DEF M2431!oxIDPFixed, M2431!Host, M2431!Go, Go
  <2> HIDE DEF y
  <2>5. OnlyData /\ host'.data = [host.data EXCEPT !["oxidp"] = y]
    BY <2>3 DEF Shapes, OnlyData
  <2>6. /\ DOMAIN host'.data = DOMAIN host.data /\ host'.data["oxidp"] = y
        /\ \A n \in DOMAIN host.data \ {"oxidp"} : host'.data[n] = host.data[n]
    BY <1>2, <2>5
  <2> QED
    BY <1>2, <2>2, <2>4, <2>5, <2>6 DEF FixClient
<1> QED
  BY <1>1, <1>2

\* import3031.py puts the client of the IDP in the place of idp_none.
LEMMA Resolved3031 ==
    ASSUME Shapes, setting.release = "3031", SoundData(host.data), M3031!idpResolved
    PROVE  Resolve
<1> DEFINE kept == Restrict(host.data, DOMAIN host.data \ {"idp_none"})
           client == [e \in {NewIdpClient} |-> [name |-> "new"]]
<1>1. NewIdpClient \in {"idp_1", "idp_2"} /\ M3031!NewClient = NewIdpClient
  BY DEF NewIdpClient, M3031!NewClient
<1>2. M3031!Restrict(host.data, DOMAIN host.data \ {"idp_none"}) = kept
  BY DEF M3031!Restrict, Restrict
<1>3. M3031!Over(kept, [e \in {M3031!NewClient} |-> [name |-> "new"]]) =
          Over(kept, client)
  BY <1>1 DEF M3031!Over, Over
<1>4. /\ DOMAIN kept = DOMAIN host.data \ {"idp_none"}
      /\ \A n \in DOMAIN kept : kept[n] = host.data[n]
  BY DEF Restrict
<1>5. /\ DOMAIN Over(kept, client) = DOMAIN kept \cup {NewIdpClient}
      /\ \A n \in DOMAIN kept : Over(kept, client)[n] = kept[n]
      /\ NewIdpClient \notin DOMAIN kept =>
            Over(kept, client)[NewIdpClient] = [name |-> "new"]
  BY DEF Over
<1>6. SoundData(kept)
  BY <1>4 DEF SoundData
<1>7. SoundData(Over(kept, client))
  <2>1. SoundEntry(NewIdpClient, [name |-> "new"]) /\ NewIdpClient \in AllNames
    BY <1>1 DEF SoundEntry, NewNames, ByIds, AllNames
  <2> HIDE DEF kept, client
  <2> QED
    BY <1>5, <1>6, <2>1 DEF SoundData
<1>8. \/ Same /\ Stop
      \/ host.idpClient = "none" /\ Host([host EXCEPT !.data = Over(kept, client)]) /\ Go
      \/ Host([host EXCEPT !.data = kept]) /\ Stop
      \/ host.idpClient # "none" /\ host.idpClient \in DOMAIN kept
         /\ Host([host EXCEPT !.data = kept]) /\ Go
  <2>1. "none" \notin DOMAIN kept
    <3>1. "none" \notin AllNames
      BY DEF AllNames, OldNames, NewNames, ByIds
    <3> QED
      BY <1>6, <3>1 DEF SoundData
  <2> HIDE DEF kept, client
  <2> QED
    BY <1>2, <1>3, <2>1 DEF M3031!idpResolved, M3031!Same, Same, M3031!Stop, Stop,
           M3031!Host, Host, M3031!Go, Go
<1> HIDE DEF kept, client
<1>9. CASE Same /\ Stop
  BY <1>9 DEF Same, Resolve, OnlyData
<1>10. CASE /\ host.idpClient = "none"
            /\ Host([host EXCEPT !.data = Over(kept, client)]) /\ Go
  <2>1. host'.data = Over(kept, client) /\ backup' = backup /\ work' = work /\ OnlyData
    BY <1>10 DEF Host, Shapes, OnlyData
  <2> QED
    BY <1>1, <1>4, <1>5, <1>7, <1>10, <2>1 DEF Resolve
<1>11. CASE /\ Host([host EXCEPT !.data = kept])
            /\ Stop \/ (host.idpClient # "none" /\ host.idpClient \in DOMAIN kept /\ Go)
  <2>1. host'.data = kept /\ backup' = backup /\ work' = work /\ OnlyData
    BY <1>11 DEF Host, Shapes, OnlyData
  <2> QED
    BY <1>4, <1>6, <1>11, <2>1 DEF Resolve
<1> QED
  BY <1>8, <1>9, <1>10, <1>11

\* import3031.py writes the id of the client to the properties.
LEMMA Written3031 ==
    ASSUME Shapes, setting.release = "3031", M3031!idpClientIdWritten
    PROVE  WriteClient
<1>1. M3031!NewClient = NewIdpClient
  BY DEF NewIdpClient, M3031!NewClient
<1>2. CASE host.idpClient = "none"
  BY <1>1, <1>2
  DEF M3031!idpClientIdWritten, M3031!Host, M3031!Go, Go, WriteClient, Shapes
<1>3. CASE host.idpClient # "none"
  BY <1>3
  DEF M3031!idpClientIdWritten, M3031!Same, M3031!Go, Go, WriteClient, Shapes
<1> QED
  BY <1>2, <1>3

\* import3031.py names the client in the configuration of Shibboleth.
LEMMA Fixed3031 ==
    ASSUME Shapes, setting.release = "3031", SoundData(host.data), M3031!oxIDPFixed
    PROVE  FixClient
<1>1. CASE "oxidp" \notin DOMAIN host.data
  BY <1>1 DEF M3031!oxIDPFixed, M3031!Same, Same, M3031!Stop, Stop, FixClient
<1>2. CASE "oxidp" \in DOMAIN host.data
  <2> DEFINE x == host.data["oxidp"]
             y == [x EXCEPT !.client = host.idpClient]
  <2>1. "client" \in DOMAIN x
    BY <1>2 DEF SoundData, SoundEntry
  <2>2. /\ DOMAIN y = DOMAIN x /\ y["client"] = host.idpClient
        /\ \A a \in DOMAIN x \ {"client"} : y[a] = x[a]
    BY <2>1
  <2>3. host' = [host EXCEPT !.data = [host.data EXCEPT !["oxidp"] = y]]
    BY <1>2 DEF M3031!oxIDPFixed, M3031!Host
  <2>4. Go /\ backup' = backup /\ work' = work
    BY <1>2 DEF M3031!oxIDPFixed, M3031!Host, M3031!Go, Go
  <2> HIDE DEF y
  <2>5. OnlyData /\ host'.data = [host.data EXCEPT !["oxidp"] = y]
    BY <2>3 DEF Shapes, OnlyData
  <2>6. /\ DOMAIN host'.data = DOMAIN host.data /\ host'.data["oxidp"] = y
        /\ \A n \in DOMAIN host.data \ {"oxidp"} : host'.data[n] = host.data[n]
    BY <1>2, <2>5
  <2> QED
    BY <1>2, <2>2, <2>4, <2>5, <2>6 DEF FixClient
<1> QED
  BY <1>1, <1>2

-----------------------------------------------------------------------------
(* The steps of the import scripts.                                       *)

\* A step of an import that leaves alone what is to be kept.
QuietStep ==
    /\ host'.data = host.data /\ host'.idpClient = host.idpClient
    /\ host'.webapps \in {"running", "stopped"} /\ host'.ldap \in {"running", "stopped"}
    /\ DOMAIN host' = DOMAIN host
    /\ work'.current = work.current /\ work'.processed = work.processed
    /\ work'.mods = work.mods /\ work'.rejected = work.rejected
    /\ work'.bound \in BOOLEAN /\ DOMAIN work' = DOMAIN work
    /\ setting.release \in {"23", "24"} /\ run.step > Reads => work'.bound = work.bound
    /\ backup' = backup
    /\ \/ Stop
       \/ /\ Go
          /\ Replacing /\ run.step = Stops => host'.ldap = "stopped"
    /\ Replacing /\ run.step \in (Stops + 1)..Fills => host'.ldap = host.ldap

Cleaned == Work([work EXCEPT !.current = NoEntries, !.processed = NoEntries]) /\ Go

\* What the steps of import23.py do to what is to be kept.
LEMMA Steps23 ==
    ASSUME Shapes, setting.release = "23", M23!Import
    PROVE  \/ QuietStep /\ run.step \notin {5, 6, 7, 8, 9}
           \/ run.step = 5 /\ M23!getNewConfig
           \/ run.step = 6 /\ M23!restoreConfig
           \/ run.step = 7 /\ M23!uploadConfig
           \/ run.step = 8 /\ M23!deleteEntries
           \/ run.step = 9 /\ M23!addPeople
<1> USE DEF M23!Go, M23!Stop, M23!Host, M23!Work, M23!Same, Go, Stop, QuietStep, Shapes,
            Replacing, Reads, Stops, Fills, Merges, Place
<1>1. CASE M23!At(M23!migrate, "verifyBackupFolder") /\ M23!verifyBackupFolder
  <2>1. run.step = 1
    BY <1>1 DEF M23!At, M23!migrate
  <2> QED
    BY <1>1, <2>1 DEF M23!verifyBackupFolder
<1>2. CASE M23!At(M23!migrate, "stopOpenDJ") /\ M23!stopOpenDJ
  <2>1. run.step = 2
    BY <1>2 DEF M23!At, M23!migrate
  <2> QED
    BY <1>2, <2>1 DEF M23!stopOpenDJ, M23!Must
<1>3. CASE M23!At(M23!migrate, "copyFiles") /\ M23!copyFiles
  <2>1. run.step = 3
    BY <1>3 DEF M23!At, M23!migrate
  <2>2. CASE Same /\ Stop
    BY <1>3, <2>1, <2>2 DEF Same
  <2>3. CASE M23!Host([host EXCEPT !.files = @ \cup backup.files, !.schema = 1]) /\ Go
    BY <1>3, <2>1, <2>3
  <2> QED
    BY <1>3, <2>2, <2>3 DEF M23!copyFiles, Same
<1>4. CASE M23!At(M23!migrate, "startOpenDJ") /\ M23!startOpenDJ
  <2>1. run.step = 4
    BY <1>4 DEF M23!At, M23!migrate
  <2> QED
    BY <1>4, <2>1 DEF M23!startOpenDJ, M23!Must
<1>5. CASE M23!At(M23!migrate, "getNewConfig") /\ M23!getNewConfig
  <2>1. run.step = 5
    BY <1>5 DEF M23!At, M23!migrate
  <2> QED
    BY <1>5, <2>1
<1>6. CASE M23!At(M23!migrate, "restoreConfig") /\ M23!restoreConfig
  <2>1. run.step = 6
    BY <1>6 DEF M23!At, M23!migrate
  <2> QED
    BY <1>6, <2>1
<1>7. CASE M23!At(M23!migrate, "uploadConfig") /\ M23!uploadConfig
  <2>1. run.step = 7
    BY <1>7 DEF M23!At, M23!migrate
  <2> QED
    BY <1>7, <2>1
<1>8. CASE M23!At(M23!migrate, "deleteEntries") /\ M23!deleteEntries
  <2>1. run.step = 8
    BY <1>8 DEF M23!At, M23!migrate
  <2> QED
    BY <1>8, <2>1
<1>9. CASE M23!At(M23!migrate, "addPeople") /\ M23!addPeople
  <2>1. run.step = 9
    BY <1>9 DEF M23!At, M23!migrate
  <2> QED
    BY <1>9, <2>1
<1> QED
  BY <1>1, <1>2, <1>3, <1>4, <1>5, <1>6, <1>7, <1>8, <1>9 DEF M23!Import

\* What the steps of import24.py do to what is to be kept.
LEMMA Steps24 ==
    ASSUME Shapes, setting.release = "24", M24!Import
    PROVE  \/ QuietStep /\ run.step \notin {8, 9, 10}
           \/ run.step = 8 /\ M24!getNewConfig
           \/ run.step = 9 /\ M24!restoreConfig
           \/ run.step = 10 /\ M24!uploadLDIF
<1> USE DEF M24!Go, M24!Stop, M24!Host, M24!Work, M24!Same, Go, Stop, QuietStep, Shapes,
            Replacing, Reads, Stops, Fills, Merges, Place
<1>1. CASE M24!At(M24!migrate, "verifyBackupFolder") /\ M24!verifyBackupFolder
  <2>1. run.step = 1
    BY <1>1 DEF M24!At, M24!migrate
  <2> QED
    BY <1>1, <2>1 DEF M24!verifyBackupFolder
<1>2. CASE M24!At(M24!migrate, "stopTomcat") /\ M24!stopTomcat
  <2>1. run.step = 2
    BY <1>2 DEF M24!At, M24!migrate
  <2> QED
    BY <1>2, <2>1 DEF M24!stopTomcat, M24!TryTo
<1>3. CASE M24!At(M24!migrate, "preparePasswordFile") /\ M24!preparePasswordFile
  <2>1. run.step = 3
    BY <1>3 DEF M24!At, M24!migrate
  <2> QED
    BY <1>3, <2>1 DEF M24!preparePasswordFile
<1>4. CASE M24!At(M24!migrate, "stopOpenDJ") /\ M24!stopOpenDJ
  <2>1. run.step = 4
    BY <1>4 DEF M24!At, M24!migrate
  <2> QED
    BY <1>4, <2>1 DEF M24!stopOpenDJ, M24!Must
<1>5. CASE M24!At(M24!migrate, "copyFiles") /\ M24!copyFiles
  <2>1. run.step = 5
    BY <1>5 DEF M24!At, M24!migrate
  <2> QED
    BY <1>5, <2>1 DEF M24!copyFiles
<1>6. CASE M24!At(M24!migrate, "updateCertKeystore") /\ M24!updateCertKeystore
  <2>1. run.step = 6
    BY <1>6 DEF M24!At, M24!migrate
  <2> QED
    BY <1>6, <2>1 DEF M24!updateCertKeystore
<1>7. CASE M24!At(M24!migrate, "startOpenDJ") /\ M24!startOpenDJ
  <2>1. run.step = 7
    BY <1>7 DEF M24!At, M24!migrate
  <2> QED
    BY <1>7, <2>1 DEF M24!startOpenDJ, M24!Must
<1>8. CASE M24!At(M24!migrate, "getNewConfig") /\ M24!getNewConfig
  <2>1. run.step = 8
    BY <1>8 DEF M24!At, M24!migrate
  <2> QED
    BY <1>8, <2>1
<1>9. CASE M24!At(M24!migrate, "restoreConfig") /\ M24!restoreConfig
  <2>1. run.step = 9
    BY <1>9 DEF M24!At, M24!migrate
  <2> QED
    BY <1>9, <2>1
<1>10. CASE M24!At(M24!migrate, "uploadLDIF") /\ M24!uploadLDIF
  <2>1. run.step = 10
    BY <1>10 DEF M24!At, M24!migrate
  <2> QED
    BY <1>10, <2>1
<1>11. CASE M24!At(M24!migrate, "setPermissions") /\ M24!setPermissions
  <2>1. run.step = 11
    BY <1>11 DEF M24!At, M24!migrate
  <2> QED
    BY <1>11, <2>1 DEF M24!setPermissions
<1>12. CASE M24!At(M24!migrate, "startTomcat") /\ M24!startTomcat
  <2>1. run.step = 12
    BY <1>12 DEF M24!At, M24!migrate
  <2> QED
    BY <1>12, <2>1 DEF M24!startTomcat, M24!TryTo
<1> QED
  BY <1>1, <1>2, <1>3, <1>4, <1>5, <1>6, <1>7, <1>8, <1>9, <1>10, <1>11, <1>12
    DEF M24!Import

\* What the steps of import244.py do to what is to be kept.
LEMMA Steps244 ==
    ASSUME Shapes, setting.release = "244", M244!Import
    PROVE  \/ QuietStep /\ run.step \notin {7, 9, 10}
           \/ run.step = 7 /\ M244!exportLDIF
           \/ run.step = 9 /\ M244!processLDIF
           \/ run.step = 10 /\ ReplaceData
<1> USE DEF M244!Go, M244!Stop, M244!Host, M244!Work, M244!Same, Go, Stop, QuietStep,
            Shapes, Replacing, Reads, Stops, Fills, Merges, Place
<1>1. CASE M244!At(M244!migrate, "verifyBackupFolder") /\ M244!verifyBackupFolder
  <2>1. run.step = 1
    BY <1>1 DEF M244!At, M244!migrate
  <2> QED
    BY <1>1, <2>1 DEF M244!verifyBackupFolder
<1>2. CASE M244!At(M244!migrate, "stopTomcat") /\ M244!stopTomcat
  <2>1. run.step = 2
    BY <1>2 DEF M244!At, M244!migrate
  <2> QED
    BY <1>2, <2>1 DEF M244!stopTomcat, M244!TryTo
<1>3. CASE M244!At(M244!migrate, "stopOpenDJ") /\ M244!stopOpenDJ
  <2>1. run.step = 3
    BY <1>3 DEF M244!At, M244!migrate
  <2> QED
    BY <1>3, <2>1 DEF M244!stopOpenDJ, M244!Must
<1>4. CASE M244!At(M244!migrate, "copyFiles") /\ M244!copyFiles
  <2>1. run.step = 4
    BY <1>4 DEF M244!At, M244!migrate
  <2> QED
    BY <1>4, <2>1 DEF M244!copyFiles, M244!Copied
<1>5. CASE M244!At(M244!migrate, "updateCertKeystore") /\ M244!updateCertKeystore
  <2>1. run.step = 5
    BY <1>5 DEF M244!At, M244!migrate
  <2> QED
    BY <1>5, <2>1 DEF M244!updateCertKeystore
<1>6. CASE M244!At(M244!migrate, "copyCustomLDAPSchema") /\ M244!copyCustomLDAPSchema
  <2>1. run.step = 6
    BY <1>6 DEF M244!At, M244!migrate
  <2> QED
    BY <1>6, <2>1 DEF M244!copyCustomLDAPSchema
<1>7. CASE M244!At(M244!migrate, "exportLDIF") /\ M244!exportLDIF
  <2>1. run.step = 7
    BY <1>7 DEF M244!At, M244!migrate
  <2> QED
    BY <1>7, <2>1
<1>8. CASE M244!At(M244!migrate, "processPeople") /\ M244!processPeople
  <2>1. run.step = 8
    BY <1>8 DEF M244!At, M244!migrate
  <2> QED
    BY <1>8, <2>1 DEF M244!processPeople
<1>9. CASE M244!At(M244!migrate, "processLDIF") /\ M244!processLDIF
  <2>1. run.step = 9
    BY <1>9 DEF M244!At, M244!migrate
  <2> QED
    BY <1>9, <2>1
<1>10. CASE M244!At(M244!migrate, "importLDIF") /\ M244!importLDIF
  <2>1. run.step = 10
    BY <1>10 DEF M244!At, M244!migrate
  <2> QED
    BY <1>10, <2>1
    DEF M244!importLDIF, ReplaceData, EmptyData, FillData, Host, Accepted, Known,
        NoEntries, M244!ReplaceData, M244!EmptyData, M244!FillData, M244!Host,
        M244!Accepted, M244!Known, M244!NoEntries, M244!Restrict, Restrict
<1>11. CASE M244!At(M244!migrate, "startOpenDJ") /\ M244!startOpenDJ
  <2>1. run.step = 11
    BY <1>11 DEF M244!At, M244!migrate
  <2> QED
    BY <1>11, <2>1 DEF M244!startOpenDJ, M244!TryTo
<1>12. CASE M244!At(M244!migrate, "setPermissions") /\ M244!setPermissions
  <2>1. run.step = 12
    BY <1>12 DEF M244!At, M244!migrate
  <2> QED
    BY <1>12, <2>1 DEF M244!setPermissions
<1>13. CASE M244!At(M244!migrate, "startTomcat") /\ M244!startTomcat
  <2>1. run.step = 13
    BY <1>13 DEF M244!At, M244!migrate
  <2> QED
    BY <1>13, <2>1 DEF M244!startTomcat, M244!TryTo
<1> QED
  BY <1>1, <1>2, <1>3, <1>4, <1>5, <1>6, <1>7, <1>8, <1>9, <1>10, <1>11, <1>12, <1>13
    DEF M244!Import

\* What the steps of import30.py do to what is to be kept.
LEMMA Steps30 ==
    ASSUME Shapes, setting.release = "30", M30!Import
    PROVE  \/ QuietStep /\ run.step \notin {3, 10, 11, 12}
           \/ run.step = 3 /\ Cleaned
           \/ run.step = 10 /\ ExportData
           \/ run.step = 11 /\ M30!processBackupData
           \/ run.step = 12 /\ ReplaceData
<1> USE DEF M30!Go, M30!Stop, M30!Host, M30!Work, M30!Same, Go, Stop, QuietStep, Shapes,
            Replacing, Reads, Stops, Fills, Merges, Place
<1>1. CASE M30!At(M30!migrate, "getLDAPServerType") /\ M30!getLDAPServerType
  <2>1. run.step = 1
    BY <1>1 DEF M30!At, M30!migrate
  <2> QED
    BY <1>1, <2>1 DEF M30!getLDAPServerType
<1>2. CASE M30!At(M30!migrate, "verifyBackupData") /\ M30!verifyBackupData
  <2>1. run.step = 2
    BY <1>2 DEF M30!At, M30!migrate
  <2> QED
    BY <1>2, <2>1 DEF M30!verifyBackupData
<1>3. CASE M30!At(M30!migrate, "setupWorkDirectory") /\ M30!setupWorkDirectory
  <2>1. run.step = 3
    BY <1>3 DEF M30!At, M30!migrate
  <2> QED
    BY <1>3, <2>1
    DEF M30!setupWorkDirectory, Cleaned, Work, Go, M30!Work, M30!Go, M30!NoEntries,
        NoEntries
<1>4. CASE M30!At(M30!migrate, "stopWebapps") /\ M30!stopWebapps
  <2>1. run.step = 4
    BY <1>4 DEF M30!At, M30!migrate
  <2> QED
    BY <1>4, <2>1 DEF M30!stopWebapps, M30!TryTo
<1>5. CASE M30!At(M30!migrate, "stopLDAPServer") /\ M30!stopLDAPServer
  <2>1. run.step = 5
    BY <1>5 DEF M30!At, M30!migrate
  <2> QED
    BY <1>5, <2>1 DEF M30!stopLDAPServer, M30!stopSolserver, M30!stopOpenDJ, M30!Must
<1>6. CASE M30!At(M30!migrate, "copyCertificates") /\ M30!copyCertificates
  <2>1. run.step = 6
    BY <1>6 DEF M30!At, M30!migrate
  <2> QED
    BY <1>6, <2>1 DEF M30!copyCertificates, M30!Copied
<1>7. CASE M30!At(M30!migrate, "copyCustomFiles") /\ M30!copyCustomFiles
  <2>1. run.step = 7
    BY <1>7 DEF M30!At, M30!migrate
  <2> QED
    BY <1>7, <2>1 DEF M30!copyCustomFiles, M30!Copied
<1>8. CASE M30!At(M30!migrate, "copyIDPFiles") /\ M30!copyIDPFiles
  <2>1. run.step = 8
    BY <1>8 DEF M30!At, M30!migrate
  <2> QED
    BY <1>8, <2>1 DEF M30!copyIDPFiles, M30!Copied
<1>9. CASE M30!At(M30!migrate, "copyCustomSchema") /\ M30!copyCustomSchema
  <2>1. run.step = 9
    BY <1>9 DEF M30!At, M30!migrate
  <2> QED
    BY <1>9, <2>1 DEF M30!copyCustomSchema
<1>10. CASE M30!At(M30!migrate, "exportInstallData") /\ M30!exportInstallData
  <2>1. run.step = 10
    BY <1>10 DEF M30!At, M30!migrate
  <2> QED
    BY <1>10, <2>1
    DEF M30!exportInstallData, ExportData, Work, Go, Same, Stop, M30!ExportData,
        M30!Work, M30!Go, M30!Same, M30!Stop, M30!NoEntries, NoEntries
<1>11. CASE M30!At(M30!migrate, "processBackupData") /\ M30!processBackupData
  <2>1. run.step = 11
    BY <1>11 DEF M30!At, M30!migrate
  <2> QED
    BY <1>11, <2>1
<1>12. CASE M30!At(M30!migrate, "importProcessedData") /\ M30!importProcessedData
  <2>1. run.step = 12
    BY <1>12 DEF M30!At, M30!migrate
  <2> QED
    BY <1>12, <2>1
    DEF M30!importProcessedData, M30!importDataIntoOpenldap, M30!importDataIntoOpenDJ,
        ReplaceData, EmptyData, FillData, Host, Accepted, Known, NoEntries,
        M30!ReplaceData, M30!EmptyData, M30!FillData, M30!Host, M30!Accepted, M30!Known,
        M30!NoEntries, M30!Restrict, Restrict
<1>13. CASE M30!At(M30!migrate, "fixPermissions") /\ M30!fixPermissions
  <2>1. run.step = 13
    BY <1>13 DEF M30!At, M30!migrate
  <2> QED
    BY <1>13, <2>1 DEF M30!fixPermissions
<1>14. CASE M30!At(M30!migrate, "startLDAPServer") /\ M30!startLDAPServer
  <2>1. run.step = 14
    BY <1>14 DEF M30!At, M30!migrate
  <2> QED
    BY <1>14, <2>1
      DEF M30!startLDAPServer, M30!startSolserver, M30!startOpenDJ, M30!TryTo, M30!Must
<1> QED
  BY <1>1, <1>2, <1>3, <1>4, <1>5, <1>6, <1>7, <1>8, <1>9, <1>10, <1>11, <1>12, <1>13,
     <1>14
    DEF M30!Import

\* What the steps of import2431.py do to what is to be kept.
LEMMA Steps2431 ==
    ASSUME Shapes, setting.release = "2431", M2431!Import
    PROVE  \/ QuietStep /\ run.step \notin {3, 10, 11, 12, 15, 16, 17}
           \/ run.step = 3 /\ Cleaned
           \/ run.step = 10 /\ ExportData
           \/ run.step = 11 /\ M2431!processBackupData
           \/ run.step = 12 /\ ReplaceData
           \/ run.step = 15 /\ M2431!idpResolved
           \/ run.step = 16 /\ M2431!idpClientIdWritten
           \/ run.step = 17 /\ M2431!oxIDPFixed
<1> USE DEF M2431!Go, M2431!Stop, M2431!Host, M2431!Work, M2431!Same, Go, Stop,
            QuietStep, Shapes, Replacing, Reads, Stops, Fills, Merges, Place
<1>1. CASE M2431!At(M2431!migrate, "getLDAPServerType") /\ M2431!getLDAPServerType
  <2>1. run.step = 1
    BY <1>1 DEF M2431!At, M2431!migrate
  <2> QED
    BY <1>1, <2>1 DEF M2431!getLDAPServerType
<1>2. CASE M2431!At(M2431!migrate, "verifyBackupData") /\ M2431!verifyBackupData
  <2>1. run.step = 2
    BY <1>2 DEF M2431!At, M2431!migrate
  <2> QED
    BY <1>2, <2>1 DEF M2431!verifyBackupData
<1>3. CASE M2431!At(M2431!migrate, "setupWorkDirectory") /\ M2431!setupWorkDirectory
  <2>1. run.step = 3
    BY <1>3 DEF M2431!At, M2431!migrate
  <2> QED
    BY <1>3, <2>1
    DEF M2431!setupWorkDirectory, Cleaned, Work, Go, M2431!Work, M2431!Go,
        M2431!NoEntries, NoEntries
<1>4. CASE M2431!At(M2431!migrate, "stopWebapps") /\ M2431!stopWebapps
  <2>1. run.step = 4
    BY <1>4 DEF M2431!At, M2431!migrate
  <2> QED
    BY <1>4, <2>1 DEF M2431!stopWebapps, M2431!TryTo
<1>5. CASE M2431!At(M2431!migrate, "copyCertificates") /\ M2431!copyCertificates
  <2>1. run.step = 5
    BY <1>5 DEF M2431!At, M2431!migrate
  <2> QED
    BY <1>5, <2>1 DEF M2431!copyCertificates, M2431!Copied
<1>6. CASE M2431!At(M2431!migrate, "copyCustomFiles") /\ M2431!copyCustomFiles
  <2>1. run.step = 6
    BY <1>6 DEF M2431!At, M2431!migrate
  <2> QED
    BY <1>6, <2>1 DEF M2431!copyCustomFiles, M2431!Copied
<1>7. CASE M2431!At(M2431!migrate, "copyIDPFiles") /\ M2431!copyIDPFiles
  <2>1. run.step = 7
    BY <1>7 DEF M2431!At, M2431!migrate
  <2> QED
    BY <1>7, <2>1 DEF M2431!copyIDPFiles, M2431!Copied
<1>8. CASE M2431!At(M2431!migrate, "copyCustomSchema") /\ M2431!copyCustomSchema
  <2>1. run.step = 8
    BY <1>8 DEF M2431!At, M2431!migrate
  <2> QED
    BY <1>8, <2>1 DEF M2431!copyCustomSchema
<1>9. CASE M2431!At(M2431!migrate, "stopLDAPServer") /\ M2431!stopLDAPServer
  <2>1. run.step = 9
    BY <1>9 DEF M2431!At, M2431!migrate
  <2> QED
    BY <1>9, <2>1
      DEF M2431!stopLDAPServer, M2431!stopSolserver, M2431!stopOpenDJ, M2431!Must
<1>10. CASE M2431!At(M2431!migrate, "exportInstallData") /\ M2431!exportInstallData
  <2>1. run.step = 10
    BY <1>10 DEF M2431!At, M2431!migrate
  <2> QED
    BY <1>10, <2>1
    DEF M2431!exportInstallData, ExportData, Work, Go, Same, Stop, M2431!ExportData,
        M2431!Work, M2431!Go, M2431!Same, M2431!Stop, M2431!NoEntries, NoEntries
<1>11. CASE M2431!At(M2431!migrate, "processBackupData") /\ M2431!processBackupData
  <2>1. run.step = 11
    BY <1>11 DEF M2431!At, M2431!migrate
  <2> QED
    BY <1>11, <2>1
<1>12. CASE M2431!At(M2431!migrate, "importProcessedData") /\ M2431!importProcessedData
  <2>1. run.step = 12
    BY <1>12 DEF M2431!At, M2431!migrate
  <2> QED
    BY <1>12, <2>1
    DEF M2431!importProcessedData, M2431!importDataIntoOpenldap,
        M2431!importDataIntoOpenDJ, ReplaceData, EmptyData, FillData, Host, Accepted,
        Known, NoEntries, M2431!ReplaceData, M2431!EmptyData, M2431!FillData,
        M2431!Host, M2431!Accepted, M2431!Known, M2431!NoEntries, M2431!Restrict,
        Restrict
<1>13. CASE M2431!At(M2431!migrate, "fixPermissions") /\ M2431!fixPermissions
  <2>1. run.step = 13
    BY <1>13 DEF M2431!At, M2431!migrate
  <2> QED
    BY <1>13, <2>1 DEF M2431!fixPermissions
<1>14. CASE M2431!At(M2431!migrate, "startLDAPServer") /\ M2431!startLDAPServer
  <2>1. run.step = 14
    BY <1>14 DEF M2431!At, M2431!migrate
  <2> QED
    BY <1>14, <2>1
      DEF M2431!startLDAPServer, M2431!startSolserver, M2431!startOpenDJ, M2431!TryTo,
        M2431!Must
<1>15. CASE M2431!At(M2431!migrate, "idpResolved") /\ M2431!idpResolved
  <2>1. run.step = 15
    BY <1>15 DEF M2431!At, M2431!migrate
  <2> QED
    BY <1>15, <2>1
<1>16. CASE M2431!At(M2431!migrate, "idpClientIdWritten") /\ M2431!idpClientIdWritten
  <2>1. run.step = 16
    BY <1>16 DEF M2431!At, M2431!migrate
  <2> QED
    BY <1>16, <2>1
<1>17. CASE M2431!At(M2431!migrate, "oxIDPFixed") /\ M2431!oxIDPFixed
  <2>1. run.step = 17
    BY <1>17 DEF M2431!At, M2431!migrate
  <2> QED
    BY <1>17, <2>1
<1> QED
  BY <1>1, <1>2, <1>3, <1>4, <1>5, <1>6, <1>7, <1>8, <1>9, <1>10, <1>11, <1>12, <1>13,
     <1>14, <1>15, <1>16, <1>17
    DEF M2431!Import

\* What the steps of import3031.py do to what is to be kept.
LEMMA Steps3031 ==
    ASSUME Shapes, setting.release = "3031", M3031!Import
    PROVE  \/ QuietStep /\ run.step \notin {4, 11, 12, 13, 16, 17, 18}
           \/ run.step = 4 /\ Cleaned
           \/ run.step = 11 /\ ExportData
           \/ run.step = 12 /\ M3031!processBackupData
           \/ run.step = 13 /\ ReplaceData
           \/ run.step = 16 /\ M3031!idpResolved
           \/ run.step = 17 /\ M3031!idpClientIdWritten
           \/ run.step = 18 /\ M3031!oxIDPFixed
<1> USE DEF M3031!Go, M3031!Stop, M3031!Host, M3031!Work, M3031!Same, Go, Stop,
            QuietStep, Shapes, Replacing, Reads, Stops, Fills, Merges, Place
<1>1. CASE M3031!At(M3031!migrate, "getLDAPServerTypeChoice") /\
               M3031!getLDAPServerTypeChoice
  <2>1. run.step = 1
    BY <1>1 DEF M3031!At, M3031!migrate
  <2> QED
    BY <1>1, <2>1 DEF M3031!getLDAPServerTypeChoice
<1>2. CASE M3031!At(M3031!migrate, "getLDAPServerType") /\ M3031!getLDAPServerType
  <2>1. run.step = 2
    BY <1>2 DEF M3031!At, M3031!migrate
  <2> QED
    BY <1>2, <2>1 DEF M3031!getLDAPServerType
<1>3. CASE M3031!At(M3031!migrate, "verifyBackupData") /\ M3031!verifyBackupData
  <2>1. run.step = 3
    BY <1>3 DEF M3031!At, M3031!migrate
  <2> QED
    BY <1>3, <2>1 DEF M3031!verifyBackupData
<1>4. CASE M3031!At(M3031!migrate, "setupWorkDirectory") /\ M3031!setupWorkDirectory
  <2>1. run.step = 4
    BY <1>4 DEF M3031!At, M3031!migrate
  <2> QED
    BY <1>4, <2>1
    DEF M3031!setupWorkDirectory, Cleaned, Work, Go, M3031!Work, M3031!Go,
        M3031!NoEntries, NoEntries
<1>5. CASE M3031!At(M3031!migrate, "stopWebapps") /\ M3031!stopWebapps
  <2>1. run.step = 5
    BY <1>5 DEF M3031!At, M3031!migrate
  <2> QED
    BY <1>5, <2>1 DEF M3031!stopWebapps, M3031!TryTo
<1>6. CASE M3031!At(M3031!migrate, "stopLDAPServer") /\ M3031!stopLDAPServer
  <2>1. run.step = 6
    BY <1>6 DEF M3031!At, M3031!migrate
  <2> QED
    BY <1>6, <2>1
      DEF M3031!stopLDAPServer, M3031!stopSolserver, M3031!stopOpenDJ, M3031!Must
<1>7. CASE M3031!At(M3031!migrate, "copyCertificates") /\ M3031!copyCertificates
  <2>1. run.step = 7
    BY <1>7 DEF M3031!At, M3031!migrate
  <2> QED
    BY <1>7, <2>1 DEF M3031!copyCertificates, M3031!Copied
<1>8. CASE M3031!At(M3031!migrate, "copyCustomFiles") /\ M3031!copyCustomFiles
  <2>1. run.step = 8
    BY <1>8 DEF M3031!At, M3031!migrate
  <2> QED
    BY <1>8, <2>1 DEF M3031!copyCustomFiles, M3031!Copied
<1>9. CASE M3031!At(M3031!migrate, "copyIDPFiles") /\ M3031!copyIDPFiles
  <2>1. run.step = 9
    BY <1>9 DEF M3031!At, M3031!migrate
  <2> QED
    BY <1>9, <2>1 DEF M3031!copyIDPFiles, M3031!Copied
<1>10. CASE M3031!At(M3031!migrate, "copyCustomSchema") /\ M3031!copyCustomSchema
  <2>1. run.step = 10
    BY <1>10 DEF M3031!At, M3031!migrate
  <2> QED
    BY <1>10, <2>1 DEF M3031!copyCustomSchema
<1>11. CASE M3031!At(M3031!migrate, "exportInstallData") /\ M3031!exportInstallData
  <2>1. run.step = 11
    BY <1>11 DEF M3031!At, M3031!migrate
  <2> QED
    BY <1>11, <2>1
    DEF M3031!exportInstallData, ExportData, Work, Go, Same, Stop, M3031!ExportData,
        M3031!Work, M3031!Go, M3031!Same, M3031!Stop, M3031!NoEntries, NoEntries
<1>12. CASE M3031!At(M3031!migrate, "processBackupData") /\ M3031!processBackupData
  <2>1. run.step = 12
    BY <1>12 DEF M3031!At, M3031!migrate
  <2> QED
    BY <1>12, <2>1
<1>13. CASE M3031!At(M3031!migrate, "importProcessedData") /\ M3031!importProcessedData
  <2>1. run.step = 13
    BY <1>13 DEF M3031!At, M3031!migrate
  <2> QED
    BY <1>13, <2>1
    DEF M3031!importProcessedData, M3031!importDataIntoOpenldap,
        M3031!importDataIntoOpenDJ, ReplaceData, EmptyData, FillData, Host, Accepted,
        Known, NoEntries, M3031!ReplaceData, M3031!EmptyData, M3031!FillData,
        M3031!Host, M3031!Accepted, M3031!Known, M3031!NoEntries, M3031!Restrict,
        Restrict
<1>14. CASE M3031!At(M3031!migrate, "fixPermissions") /\ M3031!fixPermissions
  <2>1. run.step = 14
    BY <1>14 DEF M3031!At, M3031!migrate
  <2> QED
    BY <1>14, <2>1 DEF M3031!fixPermissions
<1>15. CASE M3031!At(M3031!migrate, "startLDAPServer") /\ M3031!startLDAPServer
  <2>1. run.step = 15
    BY <1>15 DEF M3031!At, M3031!migrate
  <2> QED
    BY <1>15, <2>1
      DEF M3031!startLDAPServer, M3031!startSolserver, M3031!startOpenDJ, M3031!TryTo,
        M3031!Must
<1>16. CASE M3031!At(M3031!migrate, "idpResolved") /\ M3031!idpResolved
  <2>1. run.step = 16
    BY <1>16 DEF M3031!At, M3031!migrate
  <2> QED
    BY <1>16, <2>1
<1>17. CASE M3031!At(M3031!migrate, "idpClientIdWritten") /\ M3031!idpClientIdWritten
  <2>1. run.step = 17
    BY <1>17 DEF M3031!At, M3031!migrate
  <2> QED
    BY <1>17, <2>1
<1>18. CASE M3031!At(M3031!migrate, "oxIDPFixed") /\ M3031!oxIDPFixed
  <2>1. run.step = 18
    BY <1>18 DEF M3031!At, M3031!migrate
  <2> QED
    BY <1>18, <2>1
<1>19. CASE M3031!At(M3031!migrate, "fixPassportConfig") /\ M3031!fixPassportConfig
  <2>1. run.step = 19
    BY <1>19 DEF M3031!At, M3031!migrate
  <2> QED
    BY <1>19, <2>1 DEF M3031!fixPassportConfig, M3031!Copied
<1> QED
  BY <1>1, <1>2, <1>3, <1>4, <1>5, <1>6, <1>7, <1>8, <1>9, <1>10, <1>11, <1>12, <1>13,
     <1>14, <1>15, <1>16, <1>17, <1>18, <1>19
    DEF M3031!Import

-----------------------------------------------------------------------------
(* All the import scripts at once.                                         *)

\* The step that empties the working directory.
Cleans == Place(0, 3, 3, 4)

\* The steps that are not quiet.
Special ==
    IF Replacing
    THEN {Exports, Merges, Fills}
         \cup (IF setting.release \in {"2431", "3031"}
               THEN {Resolves, Resolves + 1, Resolves + 2} ELSE {})
    ELSE {Reads, Reads + 1, Uploads}
         \cup (IF setting.release = "23" THEN {8, 9} ELSE {})

\* The step that exports the entries, and the one that reads them.
Exported ==
    \/ Work([work EXCEPT !.current = host.data]) /\ Go
    \/ Same /\ Stop
    \/ host.data = NoEntries /\ Same /\ Go
Read == Work([work EXCEPT !.current = IF work.bound THEN host.data ELSE NoEntries]) /\ Go

\* A step of any import script.
AnyStep ==
    \/ QuietStep /\ run.step \notin Special
    \/ Replacing /\ run.step = Cleans /\ Cleaned
    \/ Replacing /\ run.step = Exports /\ Exported
    \/ Replacing /\ run.step = Merges /\ (Merge \/ (Same /\ Stop))
    \/ Replacing /\ run.step = Fills /\ ReplaceData
    \/ Uploading /\ run.step = Reads /\ Read
    \/ Uploading /\ run.step = Reads + 1 /\ Restore
    \/ Uploading /\ run.step = Uploads /\ Upload
    \/ setting.release = "23" /\ run.step = 8 /\ Delete
    \/ setting.release = "23" /\ run.step = 9 /\ AddPeople
    \/ setting.release \in {"2431", "3031"} /\ run.step = Resolves /\ Resolve
    \/ setting.release \in {"2431", "3031"} /\ run.step = Resolves + 1 /\ WriteClient
    \/ setting.release \in {"2431", "3031"} /\ run.step = Resolves + 2 /\ FixClient

\* The releases that have an import script.
LEMMA EveryRelease ==
    ASSUME Shapes
    PROVE  setting.release \in {"23", "24", "244", "30", "2431", "3031"}
  BY MigrationAssumption DEF Shapes, Settings, AllReleases

\* A step of import23.py is one of these.
LEMMA Any23 ==
    ASSUME Shapes, Sounds, Adding, run.phase = "import",
           setting.release = "23", M23!Import
    PROVE  AnyStep
<1>1. SoundBackup(backup.ldif) /\ SoundData(work.current)
  BY DEF Sounds
<1>2. \A e \in (People \ {"admin"}) \cap DOMAIN host.data : Stored(e, host.data)
  BY DEF Adding
<1>3. Uploading /\ ~Replacing /\ Reads = 5 /\ Uploads = 7
  BY DEF Uploading, Replacing, Reads, Uploads
<1>4. Special = {5, 6, 7, 8, 9}
  BY <1>3 DEF Special
<1> USE DEF AnyStep
<1>5. CASE QuietStep /\ run.step \notin {5, 6, 7, 8, 9}
  BY <1>4, <1>5
<1>6. CASE run.step = 5 /\ M23!getNewConfig
  <2>1. Read
    BY <1>6
      DEF M23!getNewConfig, M23!Work, Work, M23!Go, Go, M23!NoEntries, NoEntries, Read
  <2> QED
    BY <1>3, <1>6, <2>1
<1>7. CASE run.step = 6 /\ M23!restoreConfig
  BY <1>1, <1>3, <1>7, Restore23
<1>8. CASE run.step = 7 /\ M23!uploadConfig
  BY <1>3, <1>8, Upload23
<1>9. CASE run.step = 8 /\ M23!deleteEntries
  BY <1>9, Deleted23
<1>10. CASE run.step = 9 /\ M23!addPeople
  BY <1>2, <1>10, Added23
<1> QED
  BY <1>5, <1>6, <1>7, <1>8, <1>9, <1>10, Steps23

\* A step of import24.py is one of these.
LEMMA Any24 ==
    ASSUME Shapes, Sounds, setting.release = "24", M24!Import
    PROVE  AnyStep
<1>1. SoundBackup(backup.ldif) /\ SoundData(work.current)
  BY DEF Sounds
<1>2. Uploading /\ ~Replacing /\ Reads = 8 /\ Uploads = 10
  BY DEF Uploading, Replacing, Reads, Uploads
<1>3. Special = {8, 9, 10}
  BY <1>2 DEF Special
<1> USE DEF AnyStep
<1>4. CASE QuietStep /\ run.step \notin {8, 9, 10}
  BY <1>3, <1>4
<1>5. CASE run.step = 8 /\ M24!getNewConfig
  <2>1. Read
    BY <1>5
      DEF M24!getNewConfig, M24!Work, Work, M24!Go, Go, M24!NoEntries, NoEntries, Read
  <2> QED
    BY <1>2, <1>5, <2>1
<1>6. CASE run.step = 9 /\ M24!restoreConfig
  BY <1>1, <1>2, <1>6, Restore24
<1>7. CASE run.step = 10 /\ M24!uploadLDIF
  BY <1>2, <1>7, Upload24
<1> QED
  BY <1>4, <1>5, <1>6, <1>7, Steps24

\* A step of import244.py is one of these.
LEMMA Any244 ==
    ASSUME Shapes, Sounds, setting.release = "244", M244!Import
    PROVE  AnyStep
<1>1. SoundBackup(backup.ldif) /\ SoundData(work.current)
  BY DEF Sounds
<1>2. Replacing /\ Exports = 7 /\ Merges = 9 /\ Fills = 10
  BY DEF Replacing, Exports, Merges, Fills, Place
<1>3. Special = {7, 9, 10}
  BY <1>2 DEF Special
<1> USE DEF AnyStep
<1>4. CASE QuietStep /\ run.step \notin {7, 9, 10}
  BY <1>3, <1>4
<1>5. CASE run.step = 7 /\ M244!exportLDIF
  <2>1. Exported
    BY <1>5 DEF M244!exportLDIF, M244!Work, Work, M244!Go, Go, M244!Same, Same,
           M244!Stop, Stop, M244!NoEntries, NoEntries, Exported
  <2> QED
    BY <1>2, <1>5, <2>1
<1>6. CASE run.step = 9 /\ M244!processLDIF
  BY <1>1, <1>2, <1>6, Merge244
<1>7. CASE run.step = 10 /\ ReplaceData
  BY <1>2, <1>7
<1> QED
  BY <1>4, <1>5, <1>6, <1>7, Steps244

\* A step of import30.py is one of these.
LEMMA Any30 ==
    ASSUME Shapes, Sounds, setting.release = "30", M30!Import
    PROVE  AnyStep
<1>1. SoundBackup(backup.ldif) /\ SoundData(work.current)
  BY DEF Sounds
<1>2. Replacing /\ Cleans = 3 /\ Exports = 10 /\ Merges = 11 /\ Fills = 12
  BY DEF Replacing, Cleans, Exports, Merges, Fills, Place
<1>3. Special = {10, 11, 12}
  BY <1>2 DEF Special
<1> USE DEF AnyStep
<1>4. CASE QuietStep /\ run.step \notin {3, 10, 11, 12}
  BY <1>3, <1>4
<1>5. CASE run.step = 3 /\ Cleaned
  BY <1>2, <1>5
<1>6. CASE run.step = 10 /\ ExportData
  BY <1>2, <1>6 DEF ExportData, Exported
<1>7. CASE run.step = 11 /\ M30!processBackupData
  BY <1>1, <1>2, <1>7, Merge30
<1>8. CASE run.step = 12 /\ ReplaceData
  BY <1>2, <1>8
<1> QED
  BY <1>4, <1>5, <1>6, <1>7, <1>8, Steps30

\* A step of import2431.py is one of these.
LEMMA Any2431 ==
    ASSUME Shapes, Sounds, setting.release = "2431", M2431!Import
    PROVE  AnyStep
<1>1. SoundBackup(backup.ldif) /\ SoundData(work.current) /\ SoundData(host.data)
  BY DEF Sounds
<1>2. /\ Replacing /\ Cleans = 3 /\ Exports = 10 /\ Merges = 11 /\ Fills = 12
      /\ Resolves = 15
  BY DEF Replacing, Cleans, Exports, Merges, Fills, Resolves, Place
<1>3. Special = {10, 11, 12, 15, 16, 17}
  BY <1>2 DEF Special
<1> USE DEF AnyStep
<1>4. CASE QuietStep /\ run.step \notin {3, 10, 11, 12, 15, 16, 17}
  BY <1>3, <1>4
<1>5. CASE run.step = 3 /\ Cleaned
  BY <1>2, <1>5
<1>6. CASE run.step = 10 /\ ExportData
  BY <1>2, <1>6 DEF ExportData, Exported
<1>7. CASE run.step = 11 /\ M2431!processBackupData
  BY <1>1, <1>2, <1>7, Merge2431
<1>8. CASE run.step = 12 /\ ReplaceData
  BY <1>2, <1>8
<1>9. CASE run.step = 15 /\ M2431!idpResolved
  BY <1>1, <1>2, <1>9, Resolved2431
<1>10. CASE run.step = 16 /\ M2431!idpClientIdWritten
  BY <1>2, <1>10, Written2431
<1>11. CASE run.step = 17 /\ M2431!oxIDPFixed
  BY <1>1, <1>2, <1>11, Fixed2431
<1> QED
  BY <1>4, <1>5, <1>6, <1>7, <1>8, <1>9, <1>10, <1>11, Steps2431

\* A step of import3031.py is one of these.
LEMMA Any3031 ==
    ASSUME Shapes, Sounds, setting.release = "3031", M3031!Import
    PROVE  AnyStep
<1>1. SoundBackup(backup.ldif) /\ SoundData(work.current) /\ SoundData(host.data)
  BY DEF Sounds
<1>2. /\ Replacing /\ Cleans = 4 /\ Exports = 11 /\ Merges = 12 /\ Fills = 13
      /\ Resolves = 16
  BY DEF Replacing, Cleans, Exports, Merges, Fills, Resolves, Place
<1>3. Special = {11, 12, 13, 16, 17, 18}
  BY <1>2 DEF Special
<1> USE DEF AnyStep
<1>4. CASE QuietStep /\ run.step \notin {4, 11, 12, 13, 16, 17, 18}
  BY <1>3, <1>4
<1>5. CASE run.step = 4 /\ Cleaned
  BY <1>2, <1>5
<1>6. CASE run.step = 11 /\ ExportData
  BY <1>2, <1>6 DEF ExportData, Exported
<1>7. CASE run.step = 12 /\ M3031!processBackupData
  BY <1>1, <1>2, <1>7, Merge3031
<1>8. CASE run.step = 13 /\ ReplaceData
  BY <1>2, <1>8
<1>9. CASE run.step = 16 /\ M3031!idpResolved
  BY <1>1, <1>2, <1>9, Resolved3031
<1>10. CASE run.step = 17 /\ M3031!idpClientIdWritten
  BY <1>2, <1>10, Written3031
<1>11. CASE run.step = 18 /\ M3031!oxIDPFixed
  BY <1>1, <1>2, <1>11, Fixed3031
<1> QED
  BY <1>4, <1>5, <1>6, <1>7, <1>8, <1>9, <1>10, <1>11, Steps3031

\* How many steps the scripts have.
LEMMA Lengths ==
    ASSUME Shapes
    PROVE  /\ DOMAIN exportSteps = 1..Len(exportSteps) /\ Len(exportSteps) \in Nat
           /\ DOMAIN importSteps = 1..Len(importSteps) /\ Len(importSteps) \in Nat
           /\ Len(exportSteps) > Folders
           /\ Uploading => Len(importSteps) > Uploads
           /\ setting.release = "23" => Len(importSteps) = 9
           /\ Replacing => Len(importSteps) > Fills
           /\ setting.release \in {"2431", "3031"} => Len(importSteps) > Resolves + 1
<1> USE DEF exportSteps, importSteps, Folders, Uploads, Reads, Uploading, Replacing,
            Fills, Merges, Resolves, Place
<1>1. CASE setting.release = "23"
  BY <1>1 DEF M23!export, M23!migrate
<1>2. CASE setting.release = "24"
  BY <1>2 DEF M24!export, M24!migrate
<1>3. CASE setting.release = "244"
  BY <1>3 DEF M24!export, M244!migrate
<1>4. CASE setting.release = "30"
  BY <1>4 DEF M30!export, M30!migrate
<1>5. CASE setting.release = "2431"
  BY <1>5 DEF M2431!export, M2431!migrate
<1>6. CASE setting.release = "3031"
  BY <1>6 DEF M3031!export, M3031!migrate
<1> QED
  BY <1>1, <1>2, <1>3, <1>4, <1>5, <1>6, EveryRelease

\* An import takes one of the steps, where the script is.
LEMMA ImportSteps ==
    ASSUME Shapes, Sounds, Adding, Import
    PROVE  /\ AnyStep
           /\ run.phase = "import" /\ run.state = "going" /\ run.step \in DOMAIN steps
<1>1. run.phase = "import"
  BY DEF Import
<1>2. CASE setting.release = "23"
  <2>1. M23!Import
    BY <1>2 DEF Import
  <2>2. AnyStep
    BY <1>1, <1>2, <2>1, Any23
  <2>3. run.state = "going" /\ run.step \in DOMAIN M23!migrate
    BY <2>1 DEF M23!Import, M23!At
  <2> QED
    BY <1>1, <1>2, <2>2, <2>3 DEF steps, importSteps
<1>3. CASE setting.release = "24"
  <2>1. M24!Import
    BY <1>3 DEF Import
  <2>2. AnyStep
    BY <1>3, <2>1, Any24
  <2>3. run.state = "going" /\ run.step \in DOMAIN M24!migrate
    BY <2>1 DEF M24!Import, M24!At
  <2> QED
    BY <1>1, <1>3, <2>2, <2>3 DEF steps, importSteps
<1>4. CASE setting.release = "244"
  <2>1. M244!Import
    BY <1>4 DEF Import
  <2>2. AnyStep
    BY <1>4, <2>1, Any244
  <2>3. run.state = "going" /\ run.step \in DOMAIN M244!migrate
    BY <2>1 DEF M244!Import, M244!At
  <2> QED
    BY <1>1, <1>4, <2>2, <2>3 DEF steps, importSteps
<1>5. CASE setting.release = "30"
  <2>1. M30!Import
    BY <1>5 DEF Import
  <2>2. AnyStep
    BY <1>5, <2>1, Any30
  <2>3. run.state = "going" /\ run.step \in DOMAIN M30!migrate
    BY <2>1 DEF M30!Import, M30!At
  <2> QED
    BY <1>1, <1>5, <2>2, <2>3 DEF steps, importSteps
<1>6. CASE setting.release = "2431"
  <2>1. M2431!Import
    BY <1>6 DEF Import
  <2>2. AnyStep
    BY <1>6, <2>1, Any2431
  <2>3. run.state = "going" /\ run.step \in DOMAIN M2431!migrate
    BY <2>1 DEF M2431!Import, M2431!At
  <2> QED
    BY <1>1, <1>6, <2>2, <2>3 DEF steps, importSteps
<1>7. CASE setting.release = "3031"
  <2>1. M3031!Import
    BY <1>7 DEF Import
  <2>2. AnyStep
    BY <1>7, <2>1, Any3031
  <2>3. run.state = "going" /\ run.step \in DOMAIN M3031!migrate
    BY <2>1 DEF M3031!Import, M3031!At
  <2> QED
    BY <1>1, <1>7, <2>2, <2>3 DEF steps, importSteps
<1> QED
  BY <1>2, <1>3, <1>4, <1>5, <1>6, <1>7, EveryRelease

-----------------------------------------------------------------------------
(* What no step of an import changes.                                      *)

\* The release is the same in every state, and with it the places.
LEMMA SameSetting ==
    ASSUME setting' = setting
    PROVE  /\ (Replacing' <=> Replacing) /\ (Uploading' <=> Uploading)
           /\ Stops' = Stops /\ Exports' = Exports /\ Merges' = Merges /\ Fills' = Fills
           /\ Resolves' = Resolves /\ Reads' = Reads /\ Uploads' = Uploads
           /\ Folders' = Folders /\ Deep' = Deep /\ Skipped' = Skipped
           /\ Replaced' = Replaced
           /\ NewEntries(setting)' = NewEntries(setting)
           /\ exportSteps' = exportSteps /\ importSteps' = importSteps
           /\ \A d : SoundData(d)' <=> SoundData(d)
           /\ \A l : SoundBackup(l)' <=> SoundBackup(l)
<1>1. (Replacing' <=> Replacing) /\ (Uploading' <=> Uploading)
  BY DEF Replacing, Uploading
<1>2. Stops' = Stops /\ Exports' = Exports /\ Merges' = Merges /\ Fills' = Fills
  BY DEF Stops, Exports, Merges, Fills, Place
<1>3. Resolves' = Resolves /\ Reads' = Reads /\ Uploads' = Uploads
  BY DEF Resolves, Place, Reads, Uploads
<1>4. Folders' = Folders /\ Deep' = Deep /\ Skipped' = Skipped /\ Replaced' = Replaced
  BY DEF Folders, Deep, Skipped, Replaced
<1>5. NewEntries(setting)' = NewEntries(setting)
  OBVIOUS
<1>6. exportSteps' = exportSteps /\ importSteps' = importSteps
  BY DEF exportSteps, importSteps
<1>7. AllNames' = AllNames
  BY DEF AllNames
<1>8. \A n, x : SoundEntry(n, x)' <=> SoundEntry(n, x)
  BY DEF SoundEntry, Known, Lost
<1>9. \A d : SoundData(d)' <=> SoundData(d)
  BY <1>7, <1>8 DEF SoundData
<1>10. \A l : SoundBackup(l)' <=> SoundBackup(l)
  BY DEF SoundBackup
<1> QED
  BY <1>1, <1>2, <1>3, <1>4, <1>5, <1>6, <1>9, <1>10

\* With the backup, what has to be taken from it is the same.
LEMMA SameBackup ==
    ASSUME setting' = setting, backup' = backup
    PROVE  /\ Taken' = Taken /\ People' = People /\ Changed' = Changed
           /\ \A e, x : Complete(e, x)' <=> Complete(e, x)
           /\ \A e, d : InPlace(e, d)' <=> InPlace(e, d)
           /\ \A e, d : Stored(e, d)' <=> Stored(e, d)
           /\ \A f : SoundFile(f)' <=> SoundFile(f)
<1>1. Skipped' = Skipped
  BY SameSetting
<1>2. Taken' = Taken /\ People' = People /\ Changed' = Changed
  BY <1>1 DEF Taken, People, Changed
<1>3. \A e, x : Complete(e, x)' <=> Complete(e, x)
  BY DEF Complete, NotTaken
<1>4. \A e, d : InPlace(e, d)' <=> InPlace(e, d)
  BY <1>3 DEF InPlace
<1>5. \A e, d : Stored(e, d)' <=> Stored(e, d)
  BY <1>3 DEF Stored
<1>6. \A f : SoundFile(f)' <=> SoundFile(f)
  BY <1>2 DEF SoundFile
<1> QED
  BY <1>2, <1>3, <1>4, <1>5, <1>6

\* A step of an import goes on, stops, or is in the middle of the step that
\* changes the directory.
Moves ==
    /\ backup' = backup /\ DOMAIN run' = DOMAIN run /\ run'.phase = run.phase
    /\ run'.times = run.times /\ run'.wrote = run.wrote /\ run'.lost = run.lost
    /\ \/ run'.step = run.step + 1 /\ run'.state = run.state
       \/ run'.step = run.step /\ run'.state \in {"going", "stopped"}
    /\ run'.cut # run.cut => run.step = (IF Replacing THEN Fills ELSE Uploads)
    /\ run'.cut = run.cut \/ run'.cut = ~run.cut

\* Each of the steps moves the script so.
LEMMA StepMoves ==
    ASSUME Shapes, run.state = "going", AnyStep
    PROVE  Moves
<1>1. CASE Stop /\ backup' = backup
  BY <1>1 DEF Stop, Moves, Shapes
<1>2. CASE Go /\ backup' = backup
  BY <1>2 DEF Go, Moves, Shapes
<1>3. CASE QuietStep
  BY <1>1, <1>2, <1>3 DEF QuietStep
<1>4. CASE Cleaned
  BY <1>2, <1>4 DEF Cleaned, Work
<1>5. CASE Exported
  BY <1>1, <1>2, <1>5 DEF Exported, Work, Same
<1>6. CASE Merge \/ (Same /\ Stop)
  BY <1>1, <1>2, <1>6 DEF Merge, Work, Same
<1>7. CASE Replacing /\ run.step = Fills /\ ReplaceData
  <2>1. backup' = backup
    BY <1>7 DEF ReplaceData, EmptyData, FillData, Host
  <2>2. \/ run' = [run EXCEPT !.cut = TRUE] /\ ~run.cut
        \/ run' = [run EXCEPT !.cut = FALSE, !.step = @ + 1] /\ run.cut
    BY <1>7 DEF ReplaceData, EmptyData, FillData
  <2> QED
    BY <1>7, <2>1, <2>2 DEF Moves, Shapes
<1>8. CASE Read
  BY <1>2, <1>8 DEF Read, Work
<1>9. CASE Restore
  BY <1>2, <1>9 DEF Restore, Work
<1>10. CASE Uploading /\ run.step = Uploads /\ Upload
  <2>1. backup' = backup
    BY <1>10 DEF Upload, UploadMods
  <2>2. run' = IF run.cut THEN [run EXCEPT !.cut = FALSE, !.step = @ + 1]
               ELSE [run EXCEPT !.cut = TRUE]
    BY <1>10 DEF Upload
  <2>3. ~Replacing
    BY <1>10 DEF Uploading, Replacing
  <2>4. CASE run.cut
    BY <1>10, <2>1, <2>2, <2>3, <2>4 DEF Moves, Shapes
  <2>5. CASE ~run.cut
    BY <1>10, <2>1, <2>2, <2>3, <2>5 DEF Moves, Shapes
  <2> QED
    BY <2>4, <2>5
<1>11. CASE Delete
  BY <1>2, <1>11 DEF Delete
<1>12. CASE AddPeople
  BY <1>2, <1>12 DEF AddPeople
<1>13. CASE Resolve
  BY <1>1, <1>2, <1>13 DEF Resolve
<1>14. CASE WriteClient
  BY <1>2, <1>14 DEF WriteClient
<1>15. CASE FixClient
  BY <1>1, <1>2, <1>15 DEF FixClient, Same
<1> QED
  BY <1>3, <1>4, <1>5, <1>6, <1>7, <1>8, <1>9, <1>10, <1>11, <1>12, <1>13, <1>14, <1>15
  DEF AnyStep

\* What has its type keeps it.
LEMMA ShapesKept ==
    ASSUME Shapes, setting' = setting, run.phase = "import", run.state = "going",
           run.step \in DOMAIN steps, AnyStep
    PROVE  Shapes'
<1>1. Moves
  BY StepMoves
<1>2. /\ DOMAIN host' = {"webapps", "ldap", "data", "schema", "owner", "files",
             "idpClient"}
      /\ host'.webapps \in {"running", "stopped"} /\ host'.ldap \in {"running", "stopped"}
      /\ host'.idpClient \in {"none", "idp", "idp_1", "idp_2"}
      /\ DOMAIN work' = {"bound", "current", "processed", "mods", "rejected"}
      /\ work'.bound \in BOOLEAN
  <2> USE DEF Shapes
  <2>1. CASE QuietStep
    BY <2>1 DEF QuietStep
  <2>2. CASE Cleaned
    BY <2>2 DEF Cleaned, Work
  <2>3. CASE Exported
    BY <2>3 DEF Exported, Work, Same
  <2>4. CASE Merge \/ (Same /\ Stop)
    BY <2>4 DEF Merge, Work, Same
  <2>5. CASE ReplaceData
    BY <2>5 DEF ReplaceData, EmptyData, FillData, Host
  <2>6. CASE Read
    BY <2>6 DEF Read, Work
  <2>7. CASE Restore
    BY <2>7 DEF Restore, Work
  <2>8. CASE Upload
    BY <2>8 DEF Upload, UploadMods
  <2>9. CASE Delete
    BY <2>9 DEF Delete, OnlyData
  <2>10. CASE AddPeople
    BY <2>10 DEF AddPeople, OnlyData, OnlyRejected
  <2>11. CASE Resolve
    BY <2>11 DEF Resolve, OnlyData
  <2>12. CASE WriteClient
    BY <2>12 DEF WriteClient, NewIdpClient
  <2>13. CASE FixClient
    BY <2>13 DEF FixClient, OnlyData, Same
  <2> QED
    BY <2>1, <2>2, <2>3, <2>4, <2>5, <2>6, <2>7, <2>8, <2>9, <2>10, <2>11, <2>12, <2>13
    DEF AnyStep
<1>3. /\ run'.phase = "import" /\ steps' = steps
      /\ DOMAIN steps = 1..Len(steps) /\ Len(steps) \in Nat
  <2>1. run'.phase = "import"
    BY <1>1 DEF Moves
  <2> QED
    BY <2>1, SameSetting, Lengths DEF steps
<1>4. run'.step \in 1..(Len(steps) + 1) /\ run'.state \in {"going", "stopped"}
  BY <1>1, <1>3 DEF Moves, Shapes
<1>5. /\ DOMAIN run' = {"phase", "step", "times", "state", "cut", "lost", "wrote"}
      /\ run'.times \in 1..MaxRuns
      /\ run'.cut \in BOOLEAN /\ run'.lost \in BOOLEAN /\ run'.wrote \in BOOLEAN
  BY <1>1 DEF Moves, Shapes
<1>6. DOMAIN backup' = {"made", "ldif", "files", "schema", "properties"}
  BY <1>1 DEF Moves, Shapes
<1>7. Real(setting)' /\ setting' \in Settings
  BY DEF Shapes
<1> QED
  BY <1>2, <1>3, <1>4, <1>5, <1>6, <1>7 DEF Shapes

-----------------------------------------------------------------------------
(* A step of an import keeps the invariant, part by part.                  *)

\* Some of sound entries are sound.
LEMMA FewerSound ==
    ASSUME NEW d, SoundData(d), NEW f, DOMAIN f \subseteq DOMAIN d,
           \A n \in DOMAIN f : f[n] = d[n]
    PROVE  SoundData(f)
  BY DEF SoundData

\* A server without entries has only sound ones.
LEMMA NoneSound == SoundData(NoEntries)
  BY DEF SoundData, NoEntries

\* The entries stay sound.
LEMMA SoundsKept ==
    ASSUME IInv, setting' = setting, run.phase = "import", run.state = "going", AnyStep
    PROVE  Sounds'
<1> USE DEF IInv, Sounds, Shapes
<1>1. /\ backup' = backup
      /\ \A d : SoundData(d)' <=> SoundData(d)
      /\ \A l : SoundBackup(l)' <=> SoundBackup(l)
  BY StepMoves, SameSetting DEF Moves
<1>2. SUFFICES /\ SoundData(host'.data)
               /\ SoundData(work'.current) /\ SoundData(work'.processed)
  BY <1>1
<1>3. CASE QuietStep
  BY <1>3 DEF QuietStep
<1>4. CASE Cleaned
  BY <1>4, NoneSound DEF Cleaned, Work
<1>5. CASE Exported
  BY <1>5 DEF Exported, Work, Same
<1>6. CASE Merge \/ (Same /\ Stop)
  BY <1>6 DEF Merge, MergedData, Work, Same
<1>7. CASE ReplaceData
  <2>1. CASE EmptyData
    BY <2>1, NoneSound DEF EmptyData, Host
  <2>2. CASE FillData
    <3> DEFINE f == Restrict(work.processed, Accepted(work.processed))
    <3>1. /\ host'.data = f
          /\ work'.current = work.current /\ work'.processed = work.processed
      BY <2>2 DEF FillData
    <3>2. DOMAIN f \subseteq DOMAIN work.processed
          /\ \A n \in DOMAIN f : f[n] = work.processed[n]
      BY DEF Restrict, Accepted
    <3> HIDE DEF f
    <3>3. SoundData(f)
      BY <3>2, FewerSound
    <3> QED
      BY <3>1, <3>3
  <2> QED
    BY <1>7, <2>1, <2>2 DEF ReplaceData
<1>8. CASE Read
  BY <1>8, NoneSound DEF Read, Work
<1>9. CASE Restore
  BY <1>9 DEF Restore, Work
<1>10. CASE Uploading /\ run.step = Uploads /\ Upload
  <2>1. /\ OnlyRejected
        /\ \E files \in SUBSET work.mods : Grown(host'.data, host.data, files)
    BY <1>10, UploadSends DEF Upload
  <2> QED
    BY <2>1 DEF OnlyRejected, Grown
<1>11. CASE Delete
  BY <1>11, FewerSound DEF Delete
<1>12. CASE AddPeople
  BY <1>12 DEF AddPeople, OnlyRejected
<1>13. CASE Resolve
  BY <1>13 DEF Resolve
<1>14. CASE WriteClient
  BY <1>14 DEF WriteClient
<1>15. CASE FixClient
  <2>1. CASE Same
    BY <2>1 DEF Same
  <2>2. CASE ~Same
    <3>1. /\ work' = work /\ "oxidp" \in DOMAIN host.data
          /\ DOMAIN host'.data = DOMAIN host.data
          /\ \A n \in DOMAIN host.data \ {"oxidp"} : host'.data[n] = host.data[n]
          /\ DOMAIN host'.data["oxidp"] = DOMAIN host.data["oxidp"]
          /\ \A a \in DOMAIN host.data["oxidp"] \ {"client"} :
                host'.data["oxidp"][a] = host.data["oxidp"][a]
      BY <1>15, <2>2 DEF FixClient
    <3>2. SoundEntry("oxidp", host'.data["oxidp"])
      BY <3>1 DEF SoundData, SoundEntry, Known, ByIds, FileOf
    <3> QED
      BY <3>1, <3>2 DEF SoundData
  <2> QED
    BY <2>1, <2>2
<1> QED
  BY <1>3, <1>4, <1>5, <1>6, <1>7, <1>8, <1>9, <1>10, <1>11, <1>12, <1>13, <1>14, <1>15
  DEF AnyStep

\* So do the files of changes.
LEMMA FiledKept ==
    ASSUME IInv, setting' = setting, run.phase = "import", run.state = "going", AnyStep
    PROVE  Filed'
<1> USE DEF IInv, Shapes, Filed
<1>1. backup' = backup /\ \A f : SoundFile(f)' <=> SoundFile(f)
  BY StepMoves, SameBackup DEF Moves
<1>2. CASE work'.mods = work.mods
  BY <1>1, <1>2
<1>3. CASE Restore
  <2>1. PICK files :
            /\ \A e \in Changed : NeededFile(e, files[e])
            /\ Work([work EXCEPT !.mods = @ \cup {<<e, files[e]>> : e \in Changed}])
            /\ Go
    BY <1>3 DEF Restore
  <2> DEFINE new == {<<e, files[e]>> : e \in Changed}
  <2>2. work'.mods = work.mods \cup new
    BY <2>1 DEF Work
  <2>3. \A f \in new : SoundFile(f)
    BY <2>1 DEF NeededFile
  <2>4. IsFiniteSet(new)
    <3>1. Changed \subseteq OldNames \cup {"resource_oxId"}
      BY DEF Changed, Sounds, SoundBackup
    <3>2. IsFiniteSet(OldNames \cup {"resource_oxId"})
      <4>1. IsFiniteSet({"resource_oxId"}) /\ IsFiniteSet({})
        BY FS_EmptySet, FS_Singleton
      <4>2. \A x, S : IsFiniteSet(S) => IsFiniteSet(S \cup {x})
        BY FS_AddElement
      <4> DEFINE s1 == {} \cup {"admin"}
                 s2 == s1 \cup {"person"}
                 s3 == s2 \cup {"device"}
                 s4 == s3 \cup {"employee"}
                 s5 == s4 \cup {"client"}
                 s6 == s5 \cup {"unnamed"}
                 s7 == s6 \cup {"login"}
                 s8 == s7 \cup {"F995"}
                 s9 == s8 \cup {"own_script"}
                 s10 == s9 \cup {"uma_script"}
                 s11 == s10 \cup {"appliance"}
                 s12 == s11 \cup {"config"}
                 s13 == s12 \cup {"oxidp"}
                 s14 == s13 \cup {"resource"}
                 s15 == s14 \cup {"sector"}
                 s16 == s15 \cup {"uma_access"}
                 s17 == s16 \cup {"gluuStatus"}
      <4>3. s17 = OldNames
        BY DEF OldNames
      <4>4. IsFiniteSet(s1) /\ IsFiniteSet(s2) /\ IsFiniteSet(s3) /\ IsFiniteSet(s4)
        BY <4>1, <4>2
      <4> HIDE DEF s4
      <4>5. IsFiniteSet(s5) /\ IsFiniteSet(s6) /\ IsFiniteSet(s7) /\ IsFiniteSet(s8)
        BY <4>2, <4>4
      <4> HIDE DEF s8
      <4>6. IsFiniteSet(s9) /\ IsFiniteSet(s10) /\ IsFiniteSet(s11) /\ IsFiniteSet(s12)
        BY <4>2, <4>5
      <4> HIDE DEF s12
      <4>7. IsFiniteSet(s13) /\ IsFiniteSet(s14) /\ IsFiniteSet(s15)
        BY <4>2, <4>6
      <4> HIDE DEF s15
      <4>8. IsFiniteSet(s16) /\ IsFiniteSet(s17)
        BY <4>2, <4>7
      <4> HIDE DEF s17
      <4> QED
        BY <4>2, <4>3, <4>8
    <3>3. IsFiniteSet(Changed)
      BY <3>1, <3>2, FS_Subset
    <3> DEFINE pairs == [e \in Changed |-> <<e, files[e]>>]
    <3>4. pairs \in Surjection(Changed, new)
      BY DEF Surjection
    <3> QED
      BY <3>3, <3>4, FS_Surjection
  <2> HIDE DEF new
  <2>5. IsFiniteSet(work.mods \cup new)
    BY <2>4, FS_Union
  <2> QED
    BY <1>1, <2>2, <2>3, <2>5
<1>4. work'.mods = work.mods \/ Restore
  <2>1. Uploading /\ run.step = Uploads /\ Upload => work'.mods = work.mods
    BY UploadSends DEF Upload, OnlyRejected
  <2> QED
    BY <2>1 DEF AnyStep, QuietStep, Cleaned, Work, Exported, Same, Merge, ReplaceData,
       EmptyData, FillData, Host, Read, Delete, AddPeople, OnlyRejected, Resolve,
       WriteClient, FixClient
<1> QED
  BY <1>2, <1>3, <1>4
\* The order of the places.
LEMMA Places ==
    ASSUME Shapes
    PROVE  /\ Replacing \/ Uploading
           /\ ~(Replacing /\ Uploading)
           /\ Replacing =>
                 /\ Cleans \in Nat /\ Stops \in Nat /\ Exports \in Nat /\ Merges \in Nat
                 /\ Fills = Merges + 1 /\ Stops > 2
                 /\ Cleans < Stops /\ Stops < Exports /\ Exports < Merges
           /\ Uploading => Reads \in 5..8 /\ Uploads = Reads + 2
           /\ setting.release = "23" => Uploading /\ Uploads = 7
           /\ setting.release \in {"2431", "3031"} =>
                 Replacing /\ Resolves \in Nat /\ Fills + 1 < Resolves
           /\ run.step \in Nat
<1>1. run.step \in Nat
  BY Lengths DEF Shapes, steps
<1> QED
  BY <1>1, EveryRelease
  DEF Replacing, Uploading, Cleans, Stops, Exports, Merges, Fills, Resolves, Place, Reads,
      Uploads

\* Nothing that an export is about changes.
LEMMA ExportingKept ==
    ASSUME IInv, setting' = setting, run.phase = "import", run.state = "going", AnyStep
    PROVE  Exporting'
<1>1. backup' = backup /\ run'.phase = "import"
  BY StepMoves DEF IInv, Moves
<1>2. NoEntries' = NoEntries
  BY DEF NoEntries
<1> QED
  BY <1>1, <1>2 DEF IInv, Exporting

\* What the import must not lose is not rejected when the directory is filled.
LEMMA KeptAccepted ==
    ASSUME Shapes, NEW d, SoundData(d), ToKeep \subseteq DOMAIN d
    PROVE  ToKeep \subseteq Accepted(d)
<1>1. setting \in Settings /\ Real(setting)
  BY DEF Shapes
<1>2. ToKeep \subseteq NewNames \cup {"idp", "idp_none", "late"}
  BY <1>1, NewServer DEF ToKeep
<1> QED
  BY <1>2 DEF SoundData, SoundEntry, Accepted

\* What the import must not lose is in the directory, or where it is to be
\* filled from.
LEMMA KeepingKept ==
    ASSUME IInv, setting' = setting, run.phase = "import", run.state = "going", AnyStep
    PROVE  Keeping'
<1> USE DEF IInv
<1>1. Moves
  BY StepMoves
<1>2. /\ Replacing' = Replacing /\ Uploading' = Uploading /\ Stops' = Stops
      /\ Exports' = Exports /\ Merges' = Merges /\ Fills' = Fills /\ Uploads' = Uploads
      /\ run'.phase = "import" /\ run'.lost = run.lost
  <2>1. Replacing' = Replacing /\ Uploading' = Uploading
    BY DEF Replacing, Uploading
  <2> QED
    BY <1>1, <2>1, SameSetting DEF Moves
<1>3. ToKeep' = ToKeep
  BY <1>1, SameSetting DEF ToKeep, Moves
<1>4. run'.cut => run'.step = (IF Replacing THEN Fills ELSE Uploads)
  <2>1. CASE run.cut
    <3>1. run.step = IF Replacing THEN Fills ELSE Uploads
      BY <2>1 DEF Keeping
    <3>2. CASE Replacing
      <4>1. ReplaceData
        BY <3>1, <3>2, Places DEF AnyStep, Special
      <4> QED
        BY <2>1, <4>1 DEF ReplaceData, EmptyData, FillData, Shapes
    <3>3. CASE Uploading
      <4>1. Upload
        BY <3>1, <3>3, Places DEF AnyStep, Special
      <4> QED
        BY <2>1, <4>1 DEF Upload, Shapes
    <3> QED
      BY <3>2, <3>3, Places
  <2>2. CASE ~run.cut /\ run'.cut
    <3>1. run.step = IF Replacing THEN Fills ELSE Uploads
      BY <1>1, <2>2 DEF Moves
    <3>2. CASE Replacing
      <4>1. ReplaceData
        BY <3>1, <3>2, Places DEF AnyStep, Special
      <4> QED
        BY <2>2, <3>1, <3>2, <4>1 DEF ReplaceData, EmptyData, FillData, Shapes
    <3>3. CASE Uploading
      <4>1. Upload
        BY <3>1, <3>3, Places DEF AnyStep, Special
      <4> QED
        BY <2>2, <3>1, <3>3, <4>1, Places DEF Upload, Shapes
    <3> QED
      BY <3>2, <3>3, Places
  <2> QED
    BY <2>1, <2>2
<1>5. CASE Uploading
  <2>1. ToKeep \subseteq DOMAIN host.data
    BY <1>5 DEF Keeping
  <2>2. ~Replacing
    BY <1>5, Places
  <2>3. ToKeep \subseteq DOMAIN host'.data
    <3>1. CASE QuietStep
      BY <2>1, <3>1 DEF QuietStep
    <3>2. CASE Read \/ Restore
      BY <2>1, <3>2 DEF Read, Restore, Work
    <3>3. CASE run.step = Uploads /\ Upload
      <4>1. \E files \in SUBSET work.mods : Grown(host'.data, host.data, files)
        BY <1>5, <3>3, UploadSends DEF Upload
      <4> QED
        BY <2>1, <4>1 DEF Grown
    <3>4. CASE setting.release = "23" /\ Delete
      <4>1. "admin" \notin ToKeep
        BY <3>4 DEF ToKeep, Replaced
      <4> QED
        BY <2>1, <3>4, <4>1 DEF Delete
    <3>5. CASE AddPeople
      BY <2>1, <3>5 DEF AddPeople
    <3> QED
      BY <1>5, <2>2, <3>1, <3>2, <3>3, <3>4, <3>5, Places DEF AnyStep
  <2> QED
    BY <1>2, <1>3, <1>4, <2>2, <2>3 DEF Keeping
<1>6. CASE Replacing
  <2>1. ~Uploading
    BY <1>6, Places
  <2>2. ASSUME ~run'.lost, ~run'.cut  PROVE ToKeep \subseteq DOMAIN host'.data
    <3>1. ~run.lost
      BY <1>2, <2>2
    <3>2. CASE run.step = Fills
      <4>1. ReplaceData
        BY <1>6, <2>1, <3>2, Places DEF AnyStep, Special
      <4>2. FillData
        BY <2>2, <4>1 DEF ReplaceData, EmptyData, Shapes
      <4>3. ToKeep \subseteq DOMAIN work.processed
        BY <1>6, <3>1, <3>2 DEF Keeping
      <4>4. ToKeep \subseteq Accepted(work.processed)
        BY <4>3, KeptAccepted DEF Sounds
      <4>5. host'.data = Restrict(work.processed, Accepted(work.processed))
        BY <4>2 DEF FillData, Shapes
      <4> QED
        BY <4>4, <4>5 DEF Restrict
    <3>3. CASE run.step # Fills
      <4>1. ToKeep \subseteq DOMAIN host.data
        BY <1>6, <3>1, <3>3 DEF Keeping
      <4>2. CASE QuietStep
        BY <4>1, <4>2 DEF QuietStep
      <4>3. CASE Cleaned \/ Exported \/ Merge \/ (Same /\ Stop)
        BY <4>1, <4>3 DEF Cleaned, Exported, Merge, Work, Same
      <4>4. CASE Resolve
        <5>1. "idp_none" \notin ToKeep
          BY DEF ToKeep, Replaced
        <5> QED
          BY <4>1, <4>4, <5>1 DEF Resolve
      <4>5. CASE WriteClient
        BY <4>1, <4>5 DEF WriteClient
      <4>6. CASE FixClient
        BY <4>1, <4>6 DEF FixClient, Same
      <4> QED
        BY <2>1, <3>3, <4>2, <4>3, <4>4, <4>5, <4>6, Places DEF AnyStep
    <3> QED
      BY <3>2, <3>3
  <2>3. ASSUME ~run'.lost, run'.step \in (Exports + 1)..Merges
        PROVE  ToKeep \subseteq DOMAIN work'.current
    <3>1. ~run.lost
      BY <1>2, <2>3
    <3>2. CASE run.step = Exports /\ Exported
      <4>1. ToKeep \subseteq DOMAIN host.data
        BY <1>6, <3>1, <3>2, Places DEF Keeping
      <4>2. CASE Work([work EXCEPT !.current = host.data])
        BY <4>1, <4>2 DEF Work, Shapes
      <4>3. CASE Stop
        BY <2>3, <3>2, <4>3, Places, <1>6 DEF Stop, Shapes
      <4>4. CASE host.data = NoEntries
        BY <4>1, <4>4 DEF NoEntries
      <4> QED
        BY <3>2, <4>2, <4>3, <4>4 DEF Exported
    <3>3. CASE run.step # Exports
      <4>1. run.step \in (Exports + 1)..Merges
        BY <1>1, <1>6, <2>3, <3>3, Places DEF Moves
      <4>2. ToKeep \subseteq DOMAIN work.current
        BY <1>6, <3>1, <4>1 DEF Keeping
      <4>3. QuietStep \/ Merge \/ (Same /\ Stop)
        BY <1>6, <2>1, <3>3, <4>1, Places DEF AnyStep
      <4> QED
        BY <4>2, <4>3 DEF QuietStep, Merge, Work, Same, Shapes
    <3>4. run.step = Exports => Exported
      BY <1>6, <2>1, Places DEF AnyStep, Special
    <3> QED
      BY <3>2, <3>3, <3>4
  <2>4. ASSUME ~run'.lost, run'.step = Fills
        PROVE  ToKeep \subseteq DOMAIN work'.processed
    <3>1. ~run.lost
      BY <1>2, <2>4
    <3>2. CASE run.step = Merges
      <4>1. Merge \/ Stop
        BY <1>6, <2>1, <3>2, Places DEF AnyStep, Special
      <4>2. Merge
        BY <1>6, <2>4, <3>2, <4>1, Places DEF Stop, Shapes
      <4>3. ToKeep \subseteq DOMAIN work.current
        BY <1>6, <3>1, <3>2, Places DEF Keeping
      <4>4. DOMAIN work.current \subseteq DOMAIN work'.processed
        BY <4>2 DEF Merge, MergedData, Work, Shapes
      <4> QED
        BY <4>3, <4>4
    <3>3. CASE run.step # Merges
      <4>1. run.step = Fills
        BY <1>1, <1>6, <2>4, <3>3, Places DEF Moves
      <4>2. ToKeep \subseteq DOMAIN work.processed
        BY <1>6, <3>1, <4>1 DEF Keeping
      <4>3. ReplaceData
        BY <1>6, <2>1, <4>1, Places DEF AnyStep, Special
      <4> QED
        BY <4>2, <4>3 DEF ReplaceData, EmptyData, Host, FillData, Shapes
    <3> QED
      BY <3>2, <3>3
  <2>5. ASSUME run'.step \in (Stops + 1)..Fills  PROVE host'.ldap = "stopped"
    <3>1. CASE run.step = Stops
      <4>1. QuietStep
        BY <1>6, <2>1, <3>1, Places DEF AnyStep
      <4>2. ~Stop
        BY <1>6, <2>5, <3>1, Places DEF Stop, Shapes
      <4> QED
        BY <1>6, <3>1, <4>1, <4>2 DEF QuietStep
    <3>2. CASE run.step # Stops
      <4>1. run.step \in (Stops + 1)..Fills
        BY <1>1, <1>6, <2>5, <3>2, Places DEF Moves
      <4>2. host.ldap = "stopped"
        BY <1>6, <4>1 DEF Keeping
      <4>3. CASE QuietStep
        BY <1>6, <4>1, <4>2, <4>3 DEF QuietStep
      <4>4. CASE Exported \/ Merge \/ (Same /\ Stop)
        BY <4>2, <4>4 DEF Exported, Merge, Work, Same
      <4>5. CASE ReplaceData
        BY <4>2, <4>5 DEF ReplaceData, EmptyData, FillData, Host, Shapes
      <4> QED
        BY <1>6, <2>1, <4>1, <4>3, <4>4, <4>5, Places DEF AnyStep
    <3> QED
      BY <3>1, <3>2
  <2> QED
    BY <1>2, <1>3, <1>4, <1>6, <2>1, <2>2, <2>3, <2>4, <2>5 DEF Keeping
<1> QED
  BY <1>5, <1>6, Places
\* What was merged and accepted is in the directory.
LEMMA FilledInPlace ==
    ASSUME SoundBackup(backup.ldif), NEW d, SoundData(d), NEW e \in DOMAIN backup.ldif,
           InPlace(e, d), e \notin DOMAIN d \ Accepted(d)
    PROVE  InPlace(e, Restrict(d, Accepted(d)))
<1> DEFINE f == Restrict(d, Accepted(d))
<1>1. /\ DOMAIN f = Accepted(d) /\ Accepted(d) \subseteq DOMAIN d
      /\ \A n \in DOMAIN f : f[n] = d[n]
  BY DEF Restrict, Accepted
<1>2. {e, ById(e)} \cap DOMAIN f # {}
  <2>1. CASE e \in DOMAIN d
    BY <1>1, <2>1
  <2>2. CASE e \notin DOMAIN d
    <3>1. ById(e) \in DOMAIN d
      BY <2>2 DEF InPlace
    <3>2. ById(e) \in ByIds
      BY <2>2, <3>1 DEF ById, ByIds
    <3>3. Known(d[ById(e)])
      BY <3>1, <3>2 DEF SoundData, SoundEntry
    <3> QED
      BY <1>1, <3>1, <3>3 DEF Accepted
  <2> QED
    BY <2>1, <2>2
<1> HIDE DEF f
<1>3. \A n \in {e, ById(e)} \cap DOMAIN f : Complete(e, f[n])
  BY <1>1 DEF InPlace
<1> QED
  BY <1>2, <1>3 DEF InPlace, f

\* What is in the directory stays there when the client of Shibboleth is
\* added, or named in its configuration.
LEMMA InPlaceKept ==
    ASSUME Shapes, SoundBackup(backup.ldif), NEW e \in DOMAIN backup.ldif,
           InPlace(e, host.data), Resolve \/ FixClient
    PROVE  InPlace(e, host'.data)
<1>1. {e, ById(e)} \cap {"idp_none", "idp_1", "idp_2"} = {}
  BY DEF SoundBackup, OldNames, ById
<1>2. CASE Resolve
  <2>1. /\ DOMAIN host.data \ {"idp_none"} \subseteq DOMAIN host'.data
        /\ DOMAIN host'.data \subseteq DOMAIN host.data \cup {"idp_1", "idp_2"}
        /\ \A n \in DOMAIN host.data \ {"idp_none"} : host'.data[n] = host.data[n]
    BY <1>2 DEF Resolve
  <2>2. {e, ById(e)} \cap DOMAIN host'.data = {e, ById(e)} \cap DOMAIN host.data
    BY <1>1, <2>1
  <2>3. \A n \in {e, ById(e)} \cap DOMAIN host'.data : host'.data[n] = host.data[n]
    BY <1>1, <2>1, <2>2
  <2> QED
    BY <2>2, <2>3 DEF InPlace
<1>3. CASE FixClient /\ ~Same
  <2>1. /\ DOMAIN host'.data = DOMAIN host.data /\ "oxidp" \in DOMAIN host.data
        /\ \A n \in DOMAIN host.data \ {"oxidp"} : host'.data[n] = host.data[n]
        /\ DOMAIN host'.data["oxidp"] = DOMAIN host.data["oxidp"]
        /\ host'.data["oxidp"]["client"] = host.idpClient
        /\ \A a \in DOMAIN host.data["oxidp"] \ {"client"} :
              host'.data["oxidp"][a] = host.data["oxidp"][a]
    BY <1>3 DEF FixClient
  <2>2. host.idpClient # "new"
    BY DEF Shapes
  <2>3. ASSUME NEW n \in {e, ById(e)} \cap DOMAIN host.data
        PROVE  Complete(e, host'.data[n])
    <3>1. Complete(e, host.data[n])
      BY DEF InPlace
    <3>2. CASE n # "oxidp"
      BY <2>1, <3>1, <3>2
    <3>3. CASE n = "oxidp"
      BY <2>1, <2>2, <3>1, <3>3 DEF Complete
    <3> QED
      BY <3>2, <3>3
  <2> QED
    BY <2>1, <2>3 DEF InPlace
<1>4. CASE Same
  BY <1>4 DEF Same
<1> QED
  BY <1>2, <1>3, <1>4

\* The entries of the backup stay where they have been merged and filled.
LEMMA MergingKept ==
    ASSUME IInv, setting' = setting, run.phase = "import", run.state = "going", AnyStep
    PROVE  Merging'
<1> USE DEF IInv
<1>1. Moves /\ backup' = backup
  BY StepMoves DEF Moves
<1>2. Replacing' = Replacing /\ Skipped' = Skipped /\ Fills' = Fills
  <2>1. Replacing' = Replacing
    BY DEF Replacing
  <2> QED
    BY <2>1, SameSetting
<1>3. \A e, d : InPlace(e, d)' <=> InPlace(e, d)
  BY <1>1, SameBackup
<1>4. SUFFICES ASSUME Replacing
               PROVE  /\ run'.step = Fills =>
                            \A e \in DOMAIN backup.ldif \ Skipped :
                               InPlace(e, work'.processed)
                      /\ run'.step > Fills =>
                            \A e \in DOMAIN backup.ldif \ (Skipped \cup work'.rejected) :
                               InPlace(e, host'.data)
  BY <1>1, <1>2, <1>3 DEF Merging
<1>5. ~Uploading
  BY <1>4, Places
<1>6. CASE run.step < Fills
  <2>1. run'.step \in Nat /\ run'.step <= Fills
    BY <1>1, <1>4, <1>6, Places DEF Moves
  <2>2. ASSUME run'.step = Fills
        PROVE  \A e \in DOMAIN backup.ldif \ Skipped : InPlace(e, work'.processed)
    <3>1. run.step = Merges
      BY <1>1, <1>4, <1>6, <2>2, Places DEF Moves
    <3>2. Merge \/ Stop
      BY <1>4, <1>5, <3>1, Places DEF AnyStep, Special
    <3>3. Merge
      BY <1>4, <2>2, <3>1, <3>2, Places DEF Stop, Shapes
    <3> QED
      BY <3>3 DEF Merge, MergedData, Taken, Work, Shapes
  <2> QED
    BY <1>4, <2>1, <2>2, Places
<1>7. CASE run.step = Fills
  <2>1. ReplaceData
    BY <1>4, <1>5, <1>7, Places DEF AnyStep, Special
  <2>2. \A e \in DOMAIN backup.ldif \ Skipped : InPlace(e, work.processed)
    BY <1>4, <1>7 DEF Merging
  <2>3. CASE EmptyData
    <3>1. run'.step = Fills /\ work' = work
      BY <1>7, <2>3 DEF EmptyData, Host, Shapes
    <3> QED
      BY <1>4, <2>2, <3>1, Places
  <2>4. CASE FillData
    <3>1. /\ run'.step = Fills + 1
          /\ host'.data = Restrict(work.processed, Accepted(work.processed))
          /\ work'.rejected = DOMAIN work.processed \ Accepted(work.processed)
      BY <1>7, <2>4 DEF FillData, Shapes
    <3>2. ASSUME NEW e \in DOMAIN backup.ldif \ (Skipped \cup work'.rejected)
          PROVE  InPlace(e, host'.data)
      BY <2>2, <3>1, FilledInPlace DEF Sounds
    <3> QED
      BY <1>4, <3>1, <3>2, Places
  <2> QED
    BY <2>1, <2>3, <2>4 DEF ReplaceData
<1>8. CASE run.step > Fills
  <2>1. \A e \in DOMAIN backup.ldif \ (Skipped \cup work.rejected) : InPlace(e, host.data)
    BY <1>4, <1>8 DEF Merging
  <2>2. run'.step > Fills
    BY <1>1, <1>4, <1>8, Places DEF Moves
  <2>3. CASE QuietStep
    BY <1>4, <2>1, <2>2, <2>3, Places DEF QuietStep
  <2>4. CASE WriteClient
    BY <1>4, <2>1, <2>2, <2>4, Places DEF WriteClient
  <2>5. CASE Resolve \/ FixClient
    <3>1. work' = work
      BY <2>5 DEF Resolve, FixClient, Same
    <3> QED
      BY <1>4, <2>1, <2>2, <2>5, <3>1, InPlaceKept, Places DEF Sounds
  <2> QED
    BY <1>4, <1>5, <1>8, <2>3, <2>4, <2>5, Places DEF AnyStep
<1> QED
  BY <1>4, <1>6, <1>7, <1>8, Places

\* The client of Shibboleth stays in the directory once it has been found.
LEMMA ResolvingKept ==
    ASSUME IInv, setting' = setting, run.phase = "import", run.state = "going", AnyStep
    PROVE  Resolving'
<1> USE DEF IInv
<1>1. Moves
  BY StepMoves
<1>2. Resolves' = Resolves /\ NewIdpClient' = NewIdpClient
  BY <1>1, SameSetting DEF NewIdpClient, Moves
<1> DEFINE client == IF host.idpClient = "none" THEN NewIdpClient ELSE host.idpClient
           client2 == IF host'.idpClient = "none" THEN NewIdpClient ELSE host'.idpClient
<1>3. SUFFICES ASSUME setting.release \in {"2431", "3031"}
               PROVE  /\ run'.step > Resolves => client2 \in DOMAIN host'.data
                      /\ run'.step > Resolves + 1 => host'.idpClient # "none"
                      /\ run'.step > Resolves + 2 =>
                            /\ "oxidp" \in DOMAIN host'.data
                            /\ host'.data["oxidp"].client = host'.idpClient
  BY <1>2 DEF Resolving
<1>4. /\ Replacing /\ ~Uploading /\ Resolves \in Nat /\ Fills + 1 < Resolves
      /\ Merges \in Nat /\ Fills = Merges + 1 /\ Exports < Merges /\ Cleans < Exports
      /\ Exports \in Nat /\ Cleans \in Nat /\ run.step \in Nat /\ setting.release # "23"
  BY <1>3, Places
<1>5. NewIdpClient \in {"idp_1", "idp_2"}
  BY DEF NewIdpClient
<1>6. CASE run.step < Resolves
  BY <1>1, <1>4, <1>6 DEF Moves
<1>7. CASE run.step = Resolves
  <2>1. Resolve
    BY <1>3, <1>4, <1>7 DEF AnyStep, Special
  <2>2. host'.idpClient = host.idpClient
    BY <2>1 DEF Resolve, OnlyData
  <2>3. CASE Stop
    BY <1>4, <1>7, <2>3 DEF Stop, Shapes
  <2>4. CASE ~Stop
    <3>1. Go /\ client \in DOMAIN host'.data
      BY <2>1, <2>4 DEF Resolve
    <3> QED
      BY <1>4, <1>7, <2>2, <3>1 DEF Go, Shapes
  <2> QED
    BY <2>3, <2>4
<1>8. CASE run.step = Resolves + 1
  <2>1. WriteClient
    BY <1>3, <1>4, <1>8 DEF AnyStep, Special
  <2>2. client \in DOMAIN host.data
    BY <1>3, <1>4, <1>8 DEF Resolving
  <2>3. host'.idpClient = client /\ host'.data = host.data /\ client # "none"
    BY <1>5, <2>1 DEF WriteClient
  <2>4. run'.step = Resolves + 2
    BY <1>4, <1>8, <2>1 DEF WriteClient, Go, Shapes
  <2> HIDE DEF client
  <2> QED
    BY <1>4, <2>2, <2>3, <2>4
<1>9. CASE run.step > Resolves + 1
  <2>1. host.idpClient # "none" /\ host.idpClient \in DOMAIN host.data
    BY <1>3, <1>4, <1>9 DEF Resolving
  <2>2. run.step > Resolves + 2 =>
           "oxidp" \in DOMAIN host.data /\ host.data["oxidp"].client = host.idpClient
    BY <1>3 DEF Resolving
  <2>3. CASE QuietStep /\ run.step \notin Special
    BY <1>1, <1>3, <1>4, <1>9, <2>1, <2>2, <2>3 DEF QuietStep, Special, Moves
  <2>4. CASE FixClient
    <3>1. CASE Same /\ Stop
      BY <1>4, <1>9, <2>1, <2>2, <3>1 DEF Same, Stop, Shapes
    <3>2. CASE ~(Same /\ Stop)
      BY <1>4, <1>9, <2>1, <2>4, <3>2 DEF FixClient, OnlyData
    <3> QED
      BY <3>1, <3>2
  <2> QED
    BY <1>3, <1>4, <1>9, <2>3, <2>4 DEF AnyStep
<1> QED
  BY <1>4, <1>6, <1>7, <1>8, <1>9
\* Where files are sent, the entries of the backup are in the directory, or
\* still to come.
LEMMA SendingKept ==
    ASSUME IInv, setting' = setting, run.phase = "import", run.state = "going", AnyStep
    PROVE  Sending'
<1> USE DEF IInv
<1>1. Moves /\ backup' = backup
  BY StepMoves DEF Moves
<1>2. /\ Uploading' = Uploading /\ Reads' = Reads /\ Uploads' = Uploads /\ Deep' = Deep
      /\ Changed' = Changed
  <2>1. Uploading' = Uploading
    BY DEF Uploading
  <2> QED
    BY <1>1, <2>1, SameSetting, SameBackup
<1>3. /\ \A e, d : Stored(e, d)' <=> Stored(e, d)
      /\ \A e : NotTaken(e)' = NotTaken(e)
  BY <1>1, SameBackup DEF NotTaken
<1> DEFINE Covered2(e) ==
               \A a \in DOMAIN backup.ldif[e] \ NotTaken(e) :
                  \/ a \in DOMAIN host'.data[e] /\ host'.data[e][a] # "new"
                  \/ \E f \in work'.mods : /\ f[1] = e /\ ~f[2].add
                                           /\ a \in DOMAIN f[2].values
<1>4. \A e : Covered(e, host.data)' <=> Covered2(e)
  BY <1>1, <1>3 DEF Covered
<1>5. work'.mods = work.mods => \A e : Covered(e, host'.data) => Covered2(e)
  BY DEF Covered
<1> HIDE DEF Covered2
<1>6. SUFFICES ASSUME Uploading
               PROVE
      /\ run'.step = Reads + 1 /\ work'.bound =>
            \A e \in Changed :
               /\ e \in DOMAIN host'.data <=> e \in DOMAIN work'.current
               /\ e \in DOMAIN host'.data => host'.data[e] = work'.current[e]
      /\ run'.step = Uploads =>
            \A e \in Changed :
               /\ \E f \in work'.mods : f[1] = e
               /\ run'.cut /\ e \notin Deep =>
                      e \in work'.rejected \/ Stored(e, host'.data)
               /\ (~run'.cut \/ e \in Deep) /\ work'.bound /\ e \in DOMAIN host'.data =>
                      Covered2(e)
      /\ run'.step > Uploads =>
            \A e \in Changed : e \in work'.rejected \/ Stored(e, host'.data)
      /\ setting.release = "24" /\ "device" \in DOMAIN host'.data =>
            "person" \in DOMAIN host'.data
  BY <1>1, <1>2, <1>3, <1>4 DEF Sending
<1>7. /\ Reads \in 5..8 /\ Uploads = Reads + 2 /\ ~Replacing /\ run.step \in Nat
      /\ setting.release = "23" => Uploads = 7
      /\ setting.release \notin {"2431", "3031"}
  BY <1>6, Places
<1>8. setting.release = "24" /\ "device" \in DOMAIN host'.data =>
          "person" \in DOMAIN host'.data
  <2> SUFFICES ASSUME setting.release = "24"
               PROVE  "device" \in DOMAIN host'.data => "person" \in DOMAIN host'.data
    OBVIOUS
  <2>1. "device" \in DOMAIN host.data => "person" \in DOMAIN host.data
    BY <1>6 DEF Sending
  <2>2. CASE run.step = Uploads /\ Upload
    <3>1. \E files \in SUBSET work.mods : Grown(host'.data, host.data, files)
      BY <1>6, <2>2, UploadSends DEF Upload
    <3> QED
      BY <3>1 DEF Grown
  <2>3. CASE QuietStep \/ Read \/ Restore
    BY <2>1, <2>3 DEF QuietStep, Read, Restore, Work
  <2> QED
    BY <1>6, <1>7, <2>2, <2>3 DEF AnyStep
<1>9. CASE run.step < Reads
  BY <1>1, <1>7, <1>8, <1>9 DEF Moves
<1>10. CASE run.step = Reads
  <2>1. Read
    BY <1>6, <1>7, <1>10 DEF AnyStep, Special
  <2>2. /\ run'.step = Reads + 1 /\ host' = host
        /\ work'.current = IF work.bound THEN host.data ELSE NoEntries
        /\ work'.bound = work.bound
    BY <1>10, <2>1 DEF Read, Go, Work, Shapes
  <2> QED
    BY <1>7, <1>8, <2>2
<1>11. CASE run.step = Reads + 1
  <2>1. Restore
    BY <1>6, <1>7, <1>11 DEF AnyStep, Special
  <2>2. PICK files :
            /\ \A e \in Changed : NeededFile(e, files[e])
            /\ Work([work EXCEPT !.mods = @ \cup {<<e, files[e]>> : e \in Changed}])
            /\ Go
    BY <2>1 DEF Restore
  <2> DEFINE new == {<<e, files[e]>> : e \in Changed}
  <2>3. /\ work'.mods = work.mods \cup new /\ host' = host /\ work'.bound = work.bound
        /\ work'.current = work.current
    BY <2>2 DEF Work, Shapes
  <2>4. run'.step = Uploads
    BY <1>7, <1>11, <2>2 DEF Go, Shapes
  <2>5. ~run.cut
    BY <1>7, <1>11 DEF Keeping
  <2>6. run'.cut = run.cut
    BY <1>7, <1>11, <2>2 DEF Go, Shapes
  <2>7. ASSUME NEW e \in Changed
        PROVE  /\ \E f \in work'.mods : f[1] = e
               /\ work'.bound /\ e \in DOMAIN host'.data => Covered2(e)
    <3>1. <<e, files[e]>> \in work'.mods
      BY <2>3
    <3>2. ASSUME work'.bound, e \in DOMAIN host'.data  PROVE Covered2(e)
      <4>1. e \in DOMAIN work.current /\ host'.data[e] = work.current[e]
        BY <1>6, <1>11, <2>3, <3>2 DEF Sending
      <4>2. /\ ~files[e].add
            /\ \A a \in DOMAIN backup.ldif[e] \ NotTaken(e) :
                  \/ a \in DOMAIN work.current[e] /\ work.current[e][a] # "new"
                  \/ a \in DOMAIN files[e].values
        BY <2>2, <4>1 DEF NeededFile
      <4> DEFINE f == <<e, files[e]>>
      <4>3. f \in work'.mods /\ f[1] = e /\ f[2] = files[e]
        BY <3>1
      <4> HIDE DEF f
      <4> QED
        BY <4>1, <4>2, <4>3 DEF Covered2
    <3> QED
      BY <3>1, <3>2
  <2> QED
    BY <1>7, <1>8, <2>4, <2>5, <2>6, <2>7
<1>12. CASE run.step = Uploads
  <2>1. Upload
    BY <1>6, <1>7, <1>12 DEF AnyStep, Special
  <2>2. /\ OnlyRejected
        /\ \A e \in Changed : run.cut \/ e \notin Deep =>
              e \in work'.rejected \/ Stored(e, host'.data)
        /\ \A e \in Changed : work.bound /\ e \in DOMAIN host'.data /\ e \in Deep =>
              run.cut \/ Covered(e, host'.data)
    BY <1>6, <1>12, <2>1, UploadSends DEF Upload
  <2>3. work'.mods = work.mods /\ work'.bound = work.bound
    BY <2>2 DEF OnlyRejected
  <2>4. CASE run.cut
    <3>1. run'.step = Uploads + 1
      BY <1>12, <2>1, <2>4 DEF Upload, Shapes
    <3> QED
      BY <1>7, <1>8, <2>2, <2>4, <3>1
  <2>5. CASE ~run.cut
    <3>1. run'.step = Uploads /\ run'.cut
      BY <1>12, <2>1, <2>5 DEF Upload, Shapes
    <3>2. \A e \in Changed : \E f \in work'.mods : f[1] = e
      BY <1>6, <1>12, <2>3 DEF Sending
    <3> QED
      BY <1>5, <1>7, <1>8, <2>2, <2>3, <2>5, <3>1, <3>2
  <2> QED
    BY <2>4, <2>5
<1>13. CASE run.step > Uploads
  <2>1. \A e \in Changed : e \in work.rejected \/ Stored(e, host.data)
    BY <1>6, <1>13 DEF Sending
  <2>2. run'.step > Uploads
    BY <1>1, <1>7, <1>13 DEF Moves
  <2>3. \A e \in Changed : e \in work'.rejected \/ Stored(e, host'.data)
    <3>1. CASE QuietStep
      BY <2>1, <3>1 DEF QuietStep
    <3>2. CASE setting.release = "23" /\ Delete
      <4>1. "admin" \notin Changed
        BY <3>2 DEF Changed, People, FileOf
      <4> QED
        BY <2>1, <3>2, <4>1 DEF Delete, Stored
    <3>3. CASE AddPeople
      BY <2>1, <3>3 DEF AddPeople, Stored
    <3> QED
      BY <1>6, <1>7, <1>13, <3>1, <3>2, <3>3 DEF AnyStep
  <2> QED
    BY <1>7, <1>8, <2>2, <2>3
<1> QED
  BY <1>7, <1>9, <1>10, <1>11, <1>12, <1>13

\* So are the people of a backup of 2.3.
LEMMA AddingKept ==
    ASSUME IInv, setting' = setting, run.phase = "import", run.state = "going",
           run.step \in DOMAIN steps, AnyStep
    PROVE  Adding'
<1> USE DEF IInv
<1>1. Moves /\ backup' = backup
  BY StepMoves DEF Moves
<1>2. People' = People /\ \A e, d : Stored(e, d)' <=> Stored(e, d)
  BY <1>1, SameBackup
<1>3. SUFFICES ASSUME setting.release = "23"
               PROVE
      /\ run'.step > 9 =>
            \A e \in People \ {"admin"} : e \in work'.rejected \/ Stored(e, host'.data)
      /\ \A e \in (People \ {"admin"}) \cap DOMAIN host'.data : Stored(e, host'.data)
  BY <1>2 DEF Adding
<1>4. Uploading /\ ~Replacing /\ Uploads = 7 /\ Reads = 5 /\ run.step \in Nat
  BY <1>3, Places
<1>5. run.step <= 9
  <2>1. DOMAIN importSteps = 1..Len(importSteps) /\ Len(importSteps) = 9
    BY <1>3, Lengths
  <2>2. steps = importSteps
    BY DEF steps
  <2> QED
    BY <2>1, <2>2
<1>6. CASE run.step = 9
  <2>1. AddPeople
    BY <1>3, <1>4, <1>6 DEF AnyStep, Special
  <2> QED
    BY <2>1 DEF AddPeople
<1>7. CASE run.step < 9
  <2>1. ~(run'.step > 9)
    BY <1>1, <1>4, <1>7 DEF Moves
  <2>2. \A e \in (People \ {"admin"}) \cap DOMAIN host.data : Stored(e, host.data)
    BY <1>3 DEF Adding
  <2>3. CASE QuietStep \/ Read \/ Restore
    BY <2>1, <2>2, <2>3 DEF QuietStep, Read, Restore, Work
  <2>4. CASE run.step = Uploads /\ Upload
    <3>1. PICK files \in SUBSET work.mods : Grown(host'.data, host.data, files)
      BY <1>4, <2>4, UploadSends DEF Upload
    <3>2. \A f \in files : f[1] \notin People
      BY <1>3 DEF Filed, SoundFile, Changed
    <3>3. \A e \in People \cap DOMAIN host'.data :
              e \in DOMAIN host.data /\ host'.data[e] = host.data[e]
      BY <3>1, <3>2 DEF Grown
    <3> QED
      BY <2>1, <2>2, <3>3 DEF Stored
  <2>5. CASE Delete
    BY <2>1, <2>2, <2>5 DEF Delete, Stored
  <2> QED
    BY <1>3, <1>4, <1>7, <2>3, <2>4, <2>5 DEF AnyStep
<1> QED
  BY <1>4, <1>5, <1>6, <1>7
-----------------------------------------------------------------------------
(* The export scripts.                                                     *)

\* A step of an export.
ExportStep ==
    /\ host' = host
    /\ DOMAIN work' = DOMAIN work /\ work'.bound \in BOOLEAN
    /\ work'.current = work.current /\ work'.processed = work.processed
    /\ work'.mods = work.mods /\ work'.rejected = work.rejected
    /\ DOMAIN backup' = DOMAIN backup
    /\ backup.made => backup'.made
    /\ run.step = Folders => backup'.made
    /\ \/ backup'.ldif = backup.ldif
       \/ run.step > Folders /\ SoundBackup(backup'.ldif)
    /\ Go \/ Stop

\* What has been searched on the old server is sound.
LEMMA SearchedSound ==
    ASSUME NEW l, DOMAIN l \subseteq OldNames,
           \A e \in DOMAIN l : l[e] = OldEntries(setting)[e]
    PROVE  SoundBackup(l)
<1>1. "resource_oxId" \notin OldNames
  BY DEF OldNames
<1>2. \A e \in DOMAIN l :
          /\ DOMAIN l[e] = OldAttributes(e)
          /\ \A a \in OldAttributes(e) : l[e][a] # "new"
  <2> TAKE e \in DOMAIN l
  <2>1. e \in OldNames /\ l[e] = OldEntries(setting)[e]
    OBVIOUS
  <2>2. /\ DOMAIN OldEntries(setting)[e] = OldAttributes(e)
        /\ \A a \in OldAttributes(e) : OldEntries(setting)[e][a] # "new"
    BY <2>1, OldServer
  <2> QED
    BY <2>1, <2>2
<1>3. "employee" \in DOMAIN l => l["employee"]["custom"] = "old"
  BY OldServer
<1>4. "person" \in DOMAIN l =>
          l["person"]["list"] = IF setting.oldVersion < 244 THEN "list" ELSE "object"
  BY OldServer
<1> QED
  BY <1>1, <1>2, <1>3, <1>4 DEF SoundBackup

\* An entry with some attributes of it converted.
Alters(y, x) ==
    /\ DOMAIN y = DOMAIN x
    /\ \A a \in DOMAIN x : y[a] = x[a] \/ y[a] \in {"converted", "rebound"}

\* An entry left as it is has nothing else altered.
LEMMA AltersNothing == ASSUME NEW x  PROVE Alters(x, x)
  BY DEF Alters

\* What alters an altered entry alters the entry.
LEMMA AltersTwice ==
    ASSUME NEW x, NEW y, NEW z, Alters(y, x), Alters(z, y)
    PROVE  Alters(z, x)
  BY DEF Alters

\* Setting to such a value alters an entry so.
LEMMA SettingAlters ==
    ASSUME NEW x, NEW a, NEW v \in {"converted", "rebound"}
    PROVE  Alters(Setting(x, a, v), x)
<1>1. CASE a \in DOMAIN x
  BY <1>1 DEF Setting, With, Alters
<1>2. CASE a \notin DOMAIN x
  BY <1>2 DEF Setting, Alters
<1> QED
  BY <1>1, <1>2

\* It is sound as well.
LEMMA ConvertedSound ==
    ASSUME NEW l, SoundBackup(l), NEW k, DOMAIN k = DOMAIN l,
           \A e \in DOMAIN l : Alters(k[e], l[e]),
           \A e \in DOMAIN l \cap {"person", "employee"} : k[e] = l[e]
    PROVE  SoundBackup(k)
  BY DEF SoundBackup, Alters

\* What the steps of export23.py do to what is to be kept.
LEMMA Exports23 ==
    ASSUME Shapes, setting.release = "23", M23!Export
    PROVE  ExportStep /\ run.state = "going" /\ run.step \in DOMAIN exportSteps
<1> USE DEF M23!Go, Go, M23!Stop, Stop, M23!Same, M23!Backup, ExportStep, Shapes, Folders
<1>1. exportSteps = M23!export /\ Folders = 1
  BY DEF exportSteps
<1>2. CASE M23!At(M23!export, "makeFolders") /\ M23!makeFolders
  <2>1. run.step = 1
    BY <1>2 DEF M23!At, M23!export
  <2> QED
    BY <1>1, <1>2, <2>1 DEF M23!At, M23!makeFolders
<1>3. CASE M23!At(M23!export, "backupFiles") /\ M23!backupFiles
  <2>1. run.step = 2
    BY <1>3 DEF M23!At, M23!export
  <2> QED
    BY <1>1, <1>3, <2>1 DEF M23!At, M23!backupFiles
<1>4. CASE M23!At(M23!export, "getLdif") /\ M23!getLdif
  <2>1. run.step = 3
    BY <1>4 DEF M23!At, M23!export
  <2>2. PICK failed :
            /\ backup' = [backup EXCEPT !.ldif = M23!Searched(failed \cup {"oxidp"})]
            /\ UNCHANGED <<host, work>> /\ M23!Go
    BY <1>4 DEF M23!getLdif
  <2> DEFINE l == M23!Searched(failed \cup {"oxidp"})
  <2>3. DOMAIN l \subseteq OldNames /\ \A e \in DOMAIN l : l[e] = OldEntries(setting)[e]
    BY OldServer DEF M23!Searched, M23!Restrict, M23!OldEntries, OldEntries
  <2> HIDE DEF l
  <2>4. SoundBackup(l)
    BY <2>3, SearchedSound
  <2>5. backup'.ldif = l /\ backup'.made = backup.made /\ DOMAIN backup' = DOMAIN backup
    BY <2>2 DEF l
  <2> QED
    BY <1>1, <1>4, <2>1, <2>2, <2>4, <2>5 DEF M23!At
<1>5. CASE M23!At(M23!export, "genProperties") /\ M23!genProperties
  <2>1. run.step = 4
    BY <1>5 DEF M23!At, M23!export
  <2> QED
    BY <1>1, <1>5, <2>1 DEF M23!At, M23!genProperties
<1>6. CASE M23!At(M23!export, "backupCustomizations") /\ M23!backupCustomizations
  <2>1. run.step = 5
    BY <1>6 DEF M23!At, M23!export
  <2> QED
    BY <1>1, <1>6, <2>1 DEF M23!At, M23!backupCustomizations
<1>7. CASE M23!At(M23!export, "backupTrustStores") /\ M23!backupTrustStores
  <2>1. run.step = 6
    BY <1>7 DEF M23!At, M23!export
  <2> QED
    BY <1>1, <1>7, <2>1 DEF M23!At, M23!backupTrustStores
<1> QED
  BY <1>2, <1>3, <1>4, <1>5, <1>6, <1>7 DEF M23!Export

\* What the steps of export24.py do to what is to be kept.
LEMMA Exports24 ==
    ASSUME Shapes, setting.release \in {"24", "244"}, M24!Export
    PROVE  ExportStep /\ run.state = "going" /\ run.step \in DOMAIN exportSteps
<1> USE DEF M24!Go, Go, M24!Stop, Stop, M24!Same, M24!Backup, ExportStep, Shapes, Folders
<1>1. exportSteps = M24!export /\ Folders = 2
  BY DEF exportSteps
<1>2. CASE M24!At(M24!export, "prepareLdapPW") /\ M24!prepareLdapPW
  <2>1. run.step = 1
    BY <1>2 DEF M24!At, M24!export
  <2> QED
    BY <1>1, <1>2, <2>1 DEF M24!At, M24!prepareLdapPW
<1>3. CASE M24!At(M24!export, "makeFolders") /\ M24!makeFolders
  <2>1. run.step = 2
    BY <1>3 DEF M24!At, M24!export
  <2> QED
    BY <1>1, <1>3, <2>1 DEF M24!At, M24!makeFolders
<1>4. CASE M24!At(M24!export, "backupFiles") /\ M24!backupFiles
  <2>1. run.step = 3
    BY <1>4 DEF M24!At, M24!export
  <2> QED
    BY <1>1, <1>4, <2>1 DEF M24!At, M24!backupFiles
<1>5. CASE M24!At(M24!export, "getLdif") /\ M24!getLdif
  <2>1. run.step = 4
    BY <1>5 DEF M24!At, M24!export
  <2>2. PICK failed \in M24!Failures :
            /\ M24!Backup([backup EXCEPT !.ldif = M24!Searched(failed \cup {"oxidp"})])
            /\ M24!Go
    BY <1>5 DEF M24!getLdif
  <2> DEFINE l == M24!Searched(failed \cup {"oxidp"})
  <2>3. DOMAIN l \subseteq OldNames /\ \A e \in DOMAIN l : l[e] = OldEntries(setting)[e]
    BY OldServer DEF M24!Searched, M24!Restrict, M24!OldEntries, OldEntries
  <2> HIDE DEF l
  <2>4. SoundBackup(l)
    BY <2>3, SearchedSound
  <2>5. backup'.ldif = l /\ backup'.made = backup.made /\ DOMAIN backup' = DOMAIN backup
    BY <2>2 DEF l
  <2> QED
    BY <1>1, <1>5, <2>1, <2>2, <2>4, <2>5 DEF M24!At
<1>6. CASE M24!At(M24!export, "genProperties") /\ M24!genProperties
  <2>1. run.step = 5
    BY <1>6 DEF M24!At, M24!export
  <2> QED
    BY <1>1, <1>6, <2>1 DEF M24!At, M24!genProperties
<1>7. CASE M24!At(M24!export, "backupCustomizations") /\ M24!backupCustomizations
  <2>1. run.step = 6
    BY <1>7 DEF M24!At, M24!export
  <2> QED
    BY <1>1, <1>7, <2>1 DEF M24!At, M24!backupCustomizations
<1> QED
  BY <1>2, <1>3, <1>4, <1>5, <1>6, <1>7 DEF M24!Export

\* What the steps of export30.py do to what is to be kept.
LEMMA Exports30 ==
    ASSUME Shapes, setting.release = "30", M30!Export
    PROVE  ExportStep /\ run.state = "going" /\ run.step \in DOMAIN exportSteps
<1> USE DEF M30!Go, Go, M30!Stop, Stop, M30!Same, M30!Backup, ExportStep, Shapes, Folders
<1>1. exportSteps = M30!export /\ Folders = 2
  BY DEF exportSteps
<1>2. CASE M30!At(M30!export, "prepareLdapPW") /\ M30!prepareLdapPW
  <2>1. run.step = 1
    BY <1>2 DEF M30!At, M30!export
  <2> QED
    BY <1>1, <1>2, <2>1 DEF M30!At, M30!prepareLdapPW
<1>3. CASE M30!At(M30!export, "makeFolders") /\ M30!makeFolders
  <2>1. run.step = 2
    BY <1>3 DEF M30!At, M30!export
  <2> QED
    BY <1>1, <1>3, <2>1 DEF M30!At, M30!makeFolders
<1>4. CASE M30!At(M30!export, "backupFiles") /\ M30!backupFiles
  <2>1. run.step = 3
    BY <1>4 DEF M30!At, M30!export
  <2> QED
    BY <1>1, <1>4, <2>1 DEF M30!At, M30!backupFiles
<1>5. CASE M30!At(M30!export, "getLdif") /\ M30!getLdif
  <2>1. run.step = 4
    BY <1>5 DEF M30!At, M30!export
  <2>2. PICK failed \in M30!Failures :
            /\ M30!Backup([backup EXCEPT !.ldif = M30!Searched(failed \cup {"oxidp"})])
            /\ M30!Go
    BY <1>5 DEF M30!getLdif
  <2> DEFINE l == M30!Searched(failed \cup {"oxidp"})
  <2>3. DOMAIN l \subseteq OldNames /\ \A e \in DOMAIN l : l[e] = OldEntries(setting)[e]
    BY OldServer DEF M30!Searched, M30!Restrict, M30!OldEntries, OldEntries
  <2> HIDE DEF l
  <2>4. SoundBackup(l)
    BY <2>3, SearchedSound
  <2>5. backup'.ldif = l /\ backup'.made = backup.made /\ DOMAIN backup' = DOMAIN backup
    BY <2>2 DEF l
  <2> QED
    BY <1>1, <1>5, <2>1, <2>2, <2>4, <2>5 DEF M30!At
<1>6. CASE M30!At(M30!export, "genProperties") /\ M30!genProperties
  <2>1. run.step = 5
    BY <1>6 DEF M30!At, M30!export
  <2> QED
    BY <1>1, <1>6, <2>1 DEF M30!At, M30!genProperties
<1> QED
  BY <1>2, <1>3, <1>4, <1>5, <1>6 DEF M30!Export

\* What the steps of export2431.py do to what is to be kept.
LEMMA Exports2431 ==
    ASSUME Shapes, setting.release = "2431", M2431!Export
    PROVE  ExportStep /\ run.state = "going" /\ run.step \in DOMAIN exportSteps
<1> USE DEF M2431!Go, Go, M2431!Stop, Stop, M2431!Same, M2431!Backup, ExportStep, Shapes,
            Folders
<1>1. exportSteps = M2431!export /\ Folders = 1
  BY DEF exportSteps
<1>2. CASE M2431!At(M2431!export, "makeFolders") /\ M2431!makeFolders
  <2>1. run.step = 1
    BY <1>2 DEF M2431!At, M2431!export
  <2> QED
    BY <1>1, <1>2, <2>1 DEF M2431!At, M2431!makeFolders
<1>3. CASE M2431!At(M2431!export, "prepareLdapPW") /\ M2431!prepareLdapPW
  <2>1. run.step = 2
    BY <1>3 DEF M2431!At, M2431!export
  <2> QED
    BY <1>1, <1>3, <2>1 DEF M2431!At, M2431!prepareLdapPW
<1>4. CASE M2431!At(M2431!export, "backupFiles") /\ M2431!backupFiles
  <2>1. run.step = 3
    BY <1>4 DEF M2431!At, M2431!export
  <2> QED
    BY <1>1, <1>4, <2>1 DEF M2431!At, M2431!backupFiles
<1>5. CASE M2431!At(M2431!export, "getLdif") /\ M2431!getLdif
  <2>1. run.step = 4
    BY <1>5 DEF M2431!At, M2431!export
  <2> DEFINE found(failed) == M2431!Searched(failed \cup {"oxidp"})
             ldif(failed) == M2431!doClientsChangesForUMA2(
                                 M2431!removeDeprecatedScripts(found(failed)))
             l(failed) == [e \in DOMAIN ldif(failed) |->
               CASE e = "config" ->
                      M2431!dooxAuthChangesFor31(M2431!doOxTrustChanges(ldif(failed)[e]))
                   [] e = "appliance" -> M2431!doApplinceChanges(ldif(failed)[e])
                   [] M2431!FileOf(e) = "resource" ->
                          M2431!doUmaResourcesChangesForUma2(ldif(failed)[e])
                   [] e = "gluuStatus" -> M2431!doAttributeChange(ldif(failed)[e])
                   [] OTHER -> ldif(failed)[e]]
  <2>2. PICK failed \in M2431!Failures :
            \/ /\ M2431!Backup([backup EXCEPT !.ldif = l(failed),
                        !.files = M2431!changePassportConfigJson(backup.files)])
               /\ M2431!Go
            \/ /\ M2431!Backup([backup EXCEPT !.ldif = ldif(failed),
                        !.files = M2431!changePassportConfigJson(backup.files)])
               /\ M2431!Stop
    BY <1>5 DEF M2431!getLdif
  <2> DEFINE f == found(failed)
             x == ldif(failed)
             y == l(failed)
  <2>3. DOMAIN f \subseteq OldNames /\ \A e \in DOMAIN f : f[e] = OldEntries(setting)[e]
    BY OldServer DEF M2431!Searched, M2431!Restrict, M2431!OldEntries, OldEntries
  <2>4. DOMAIN x \subseteq DOMAIN f /\ \A e \in DOMAIN x : x[e] = f[e]
    <3> HIDE DEF found
    <3> QED
      BY DEF M2431!doClientsChangesForUMA2, M2431!removeDeprecatedScripts, M2431!Restrict
  <2> HIDE DEF found, ldif
  <2>5. SoundBackup(x)
    <3> HIDE DEF f, x
    <3>1. DOMAIN x \subseteq OldNames /\ \A e \in DOMAIN x : x[e] = OldEntries(setting)[e]
      BY <2>3, <2>4
    <3> QED
      BY <3>1, SearchedSound
  <2>6. /\ DOMAIN y = DOMAIN x
        /\ \A e \in DOMAIN x \cap {"person", "employee"} : y[e] = x[e]
    BY DEF M2431!FileOf
  <2>7. ASSUME NEW e \in DOMAIN x  PROVE Alters(y[e], x[e])
    <3> USE DEF M2431!dooxAuthChangesFor31, M2431!doOxTrustChanges,
                M2431!doApplinceChanges, M2431!doUmaResourcesChangesForUma2,
                M2431!doAttributeChange, M2431!FileOf
    <3> DEFINE v == x[e]
               w == y[e]
    <3>1. \A u, a, b : M2431!Setting(u, a, b) = Setting(u, a, b)
      BY DEF M2431!Setting, Setting, M2431!With, With
    <3>2. CASE e = "config"
      <4>1. w = Setting(Setting(v, "json", "converted"), "json", "converted")
        BY <3>1, <3>2
      <4> HIDE DEF v, w
      <4> DEFINE u == Setting(v, "json", "converted")
      <4>2. Alters(u, v) /\ Alters(Setting(u, "json", "converted"), u)
        BY SettingAlters
      <4> HIDE DEF u
      <4>3. Alters(Setting(u, "json", "converted"), v)
        BY <4>2, AltersTwice
      <4>4. Alters(w, v)
        BY <4>1, <4>3 DEF u
      <4> QED
        BY <4>4 DEF v, w
    <3>3. CASE e = "appliance"
      <4>1. w = Setting(v, "idp", "converted")
        BY <3>1, <3>3
      <4> HIDE DEF v, w
      <4>2. Alters(w, v)
        BY <4>1, SettingAlters
      <4> QED
        BY <4>2 DEF v, w
    <3>4. CASE e \in {"resource", "uma_access", "gluuStatus"}
      <4>1. w = Setting(v, "name", "converted")
        BY <3>1, <3>4
      <4> HIDE DEF v, w
      <4>2. Alters(w, v)
        BY <4>1, SettingAlters
      <4> QED
        BY <4>2 DEF v, w
    <3>5. CASE e \notin {"config", "appliance", "resource", "uma_access", "gluuStatus"}
      BY <3>5, AltersNothing
    <3> QED
      BY <3>2, <3>3, <3>4, <3>5
  <2> HIDE DEF x, y, l
  <2>8. SoundBackup(y)
    BY <2>5, <2>6, <2>7, ConvertedSound
  <2>9. /\ host' = host /\ work' = work /\ (Go \/ Stop)
        /\ backup'.ldif \in {x, y} /\ backup'.made = backup.made
        /\ DOMAIN backup' = DOMAIN backup
    BY <2>2 DEF x, y
  <2> QED
    BY <1>1, <1>5, <2>1, <2>5, <2>8, <2>9 DEF M2431!At
<1>6. CASE M2431!At(M2431!export, "genProperties") /\ M2431!genProperties
  <2>1. run.step = 5
    BY <1>6 DEF M2431!At, M2431!export
  <2> QED
    BY <1>1, <1>6, <2>1 DEF M2431!At, M2431!genProperties
<1> QED
  BY <1>2, <1>3, <1>4, <1>5, <1>6 DEF M2431!Export

\* What the steps of export3031.py do to what is to be kept.
LEMMA Exports3031 ==
    ASSUME Shapes, Sounds, setting.release = "3031", M3031!Export
    PROVE  ExportStep /\ run.state = "going" /\ run.step \in DOMAIN exportSteps
<1> USE DEF M3031!Go, Go, M3031!Stop, Stop, M3031!Same, M3031!Backup, ExportStep, Shapes,
            Folders
<1>1. exportSteps = M3031!export /\ Folders = 2
  BY DEF exportSteps
<1>2. CASE M3031!At(M3031!export, "prepareLdapPW") /\ M3031!prepareLdapPW
  <2>1. run.step = 1
    BY <1>2 DEF M3031!At, M3031!export
  <2> QED
    BY <1>1, <1>2, <2>1 DEF M3031!At, M3031!prepareLdapPW
<1>3. CASE M3031!At(M3031!export, "makeFolders") /\ M3031!makeFolders
  <2>1. run.step = 2
    BY <1>3 DEF M3031!At, M3031!export
  <2> QED
    BY <1>1, <1>3, <2>1 DEF M3031!At, M3031!makeFolders
<1>4. CASE M3031!At(M3031!export, "backupFiles") /\ M3031!backupFiles
  <2>1. run.step = 3
    BY <1>4 DEF M3031!At, M3031!export
  <2> QED
    BY <1>1, <1>4, <2>1 DEF M3031!At, M3031!backupFiles
<1>5. CASE M3031!At(M3031!export, "getLdif") /\ M3031!getLdif
  <2>1. run.step = 4
    BY <1>5 DEF M3031!At, M3031!export
  <2> DEFINE found(failed) == M3031!Searched(failed)
             clients(failed) == M3031!doClientsChangesForUMA2(found(failed))
             ldif(failed) == M3031!doUmaResourcesChangesForUma2(clients(failed))
             l(failed) == [e \in DOMAIN ldif(failed) |->
               CASE e = "config" ->
                      M3031!dooxAuthChangesFor31(M3031!doOxTrustChanges(ldif(failed)[e]))
                   [] e = "appliance" -> M3031!doApplinceChanges(ldif(failed)[e])
                   [] OTHER -> ldif(failed)[e]]
  <2>2. PICK failed \in M3031!Failures :
            \/ M3031!Backup([backup EXCEPT !.ldif = found(failed)]) /\ M3031!Go
            \/ /\ M3031!Backup([backup EXCEPT !.ldif = l(failed),
                        !.files = M3031!changePassportConfigJson(backup.files)])
               /\ M3031!Go
            \/ /\ M3031!Backup([backup EXCEPT !.ldif = ldif(failed),
                        !.files = M3031!changePassportConfigJson(backup.files)])
               /\ M3031!Stop
    BY <1>5 DEF M3031!getLdif
  <2> DEFINE f == found(failed)
             c == clients(failed)
             x == ldif(failed)
             y == l(failed)
  <2>3. DOMAIN f \subseteq OldNames /\ \A e \in DOMAIN f : f[e] = OldEntries(setting)[e]
    BY OldServer DEF M3031!Searched, M3031!Restrict, M3031!OldEntries, OldEntries
  <2>4. DOMAIN c \subseteq DOMAIN f /\ \A e \in DOMAIN c : c[e] = f[e]
    <3> HIDE DEF found
    <3> QED
      BY DEF M3031!doClientsChangesForUMA2, M3031!Restrict
  <2>5. /\ DOMAIN x = (DOMAIN c \ {"resource"}) \cup (IF "resource" \in DOMAIN c
                                              THEN {"resource_oxId"} ELSE {})
        /\ \A e \in DOMAIN x :
              x[e] = CASE e = "resource_oxId" -> c["resource"]
                       [] e = "uma_access" -> Setting(c[e], "name", "converted")
                       [] OTHER -> c[e]
    <3> HIDE DEF clients
    <3> QED
      BY DEF M3031!doUmaResourcesChangesForUma2, M3031!Setting, Setting, M3031!With, With
  <2>6. /\ DOMAIN y = DOMAIN x
        /\ \A e \in DOMAIN x \cap {"person", "employee"} : y[e] = x[e]
    <3> HIDE DEF ldif
    <3> QED
      OBVIOUS
  <2>7. ASSUME NEW e \in DOMAIN x  PROVE Alters(y[e], x[e])
    <3> HIDE DEF ldif
    <3> USE DEF M3031!dooxAuthChangesFor31, M3031!doOxTrustChanges,
                M3031!doApplinceChanges
    <3> DEFINE v == x[e]
               w == y[e]
    <3>1. \A u, a, b : M3031!Setting(u, a, b) = Setting(u, a, b)
      BY DEF M3031!Setting, Setting, M3031!With, With
    <3>2. CASE e = "config"
      <4>1. w = Setting(Setting(v, "json", "converted"), "json", "converted")
        BY <3>1, <3>2
      <4> HIDE DEF v, w
      <4> DEFINE u == Setting(v, "json", "converted")
      <4>2. Alters(u, v) /\ Alters(Setting(u, "json", "converted"), u)
        BY SettingAlters
      <4> HIDE DEF u
      <4>3. Alters(Setting(u, "json", "converted"), v)
        BY <4>2, AltersTwice
      <4>4. Alters(w, v)
        BY <4>1, <4>3 DEF u
      <4> QED
        BY <4>4 DEF v, w
    <3>3. CASE e = "appliance"
      <4>1. w = Setting(v, "idp", "converted")
        BY <3>1, <3>3
      <4> HIDE DEF v, w
      <4>2. Alters(w, v)
        BY <4>1, SettingAlters
      <4> QED
        BY <4>2 DEF v, w
    <3>4. CASE e \notin {"config", "appliance"}
      BY <3>4, AltersNothing
    <3> QED
      BY <3>2, <3>3, <3>4
  <2> HIDE DEF f, c, x, y, found, clients, ldif, l
  <2>8. SoundBackup(f) /\ SoundBackup(c)
    BY <2>3, <2>4, SearchedSound
  <2>9. SoundBackup(x)
    <3>1. DOMAIN c \subseteq OldNames
      BY <2>3, <2>4
    <3>2. OldAttributes("resource_oxId") = OldAttributes("resource")
      BY DEF OldAttributes
    <3>3. "resource_oxId" \notin OldNames
      BY DEF OldNames
    <3>6. "uma_access" \in DOMAIN c =>
              LET v == Setting(c["uma_access"], "name", "converted")
              IN  /\ DOMAIN v = OldAttributes("uma_access")
                  /\ \A a \in OldAttributes("uma_access") : v[a] # "new"
      BY <2>8 DEF SoundBackup, Setting, With
    <3>4. \A e \in DOMAIN x : /\ DOMAIN x[e] = OldAttributes(e)
                             /\ \A a \in OldAttributes(e) : x[e][a] # "new"
      BY <2>5, <2>8, <3>1, <3>2, <3>3, <3>6 DEF SoundBackup
    <3>5. \A e \in DOMAIN x \cap {"person", "employee"} : e \in DOMAIN c /\ x[e] = c[e]
      BY <2>5
    <3> QED
      BY <2>5, <2>8, <3>1, <3>3, <3>4, <3>5 DEF SoundBackup
  <2>10. SoundBackup(y)
    BY <2>6, <2>9, <2>7, ConvertedSound
  <2>11. /\ host' = host /\ work' = work /\ (Go \/ Stop)
         /\ backup'.ldif \in {f, x, y} /\ backup'.made = backup.made
         /\ DOMAIN backup' = DOMAIN backup
    BY <2>2 DEF f, x, y
  <2> QED
    BY <1>1, <1>5, <2>1, <2>8, <2>9, <2>10, <2>11 DEF M3031!At
<1>6. CASE M3031!At(M3031!export, "genProperties") /\ M3031!genProperties
  <2>1. run.step = 5
    BY <1>6 DEF M3031!At, M3031!export
  <2> QED
    BY <1>1, <1>6, <2>1 DEF M3031!At, M3031!genProperties
<1>7. CASE M3031!At(M3031!export, "removeLdapConfig") /\ M3031!removeLdapConfig
  <2>1. run.step = 6
    BY <1>7 DEF M3031!At, M3031!export
  <2> QED
    BY <1>1, <1>7, <2>1 DEF M3031!At, M3031!removeLdapConfig
<1>8. CASE M3031!At(M3031!export, "fixLdapBindDN") /\ M3031!fixLdapBindDN
  <2>1. run.step = 7
    BY <1>8 DEF M3031!At, M3031!export
  <2>2. Sounds
    OBVIOUS
  <2> DEFINE rebound(e) ==
                 CASE e = "appliance" -> M3031!Setting(backup.ldif[e], "idp", "rebound")
                   [] e = "config" -> M3031!Setting(backup.ldif[e], "json", "rebound")
                   [] OTHER -> backup.ldif[e]
             l == [e \in DOMAIN backup.ldif |-> rebound(e)]
  <2>3. \/ M3031!Backup([backup EXCEPT !.ldif = l]) /\ M3031!Go
        \/ M3031!Same /\ M3031!Go
    BY <1>8 DEF M3031!fixLdapBindDN
  <2>4. /\ DOMAIN l = DOMAIN backup.ldif
        /\ \A e \in DOMAIN backup.ldif \cap {"person", "employee"} : l[e] = backup.ldif[e]
    OBVIOUS
  <2>5. ASSUME NEW e \in DOMAIN backup.ldif  PROVE Alters(l[e], backup.ldif[e])
    <3> DEFINE v == backup.ldif[e]
               w == l[e]
    <3>1. w \in {v, Setting(v, "idp", "rebound"), Setting(v, "json", "rebound")}
      BY DEF M3031!Setting, Setting, M3031!With, With
    <3> HIDE DEF v, w
    <3>2. Alters(w, v)
      BY <3>1, SettingAlters, AltersNothing
    <3> QED
      BY <3>2 DEF v, w
  <2> HIDE DEF l
  <2>6. SoundBackup(l)
    BY <2>2, <2>4, <2>5, ConvertedSound DEF Sounds
  <2>7. /\ host' = host /\ work' = work /\ Go
        /\ backup'.ldif \in {backup.ldif, l} /\ backup'.made = backup.made
        /\ DOMAIN backup' = DOMAIN backup
    BY <2>3
  <2> QED
    BY <1>1, <1>8, <2>1, <2>6, <2>7 DEF M3031!At
<1> QED
  BY <1>2, <1>3, <1>4, <1>5, <1>6, <1>7, <1>8 DEF M3031!Export

-----------------------------------------------------------------------------
(* The other steps keep the invariant too.                                 *)

\* It holds at first.
LEMMA InitHolds == Init => IInv
<1> SUFFICES ASSUME Init  PROVE IInv
  OBVIOUS
<1> USE DEF Init
<1>1. setting \in Settings /\ Real(setting)
  OBVIOUS
<1>2. Shapes
  <2>1. setting.release \in {"23", "24", "244", "30", "2431", "3031"}
    BY MigrationAssumption DEF Settings, AllReleases
  <2>2. Len(steps) \in Nat
    BY <2>1 DEF steps, exportSteps, M23!export, M24!export, M30!export, M2431!export,
       M3031!export
  <2>3. run.step \in 1..(Len(steps) + 1)
    BY <2>2
  <2>4. run.times \in 1..MaxRuns
    BY MigrationAssumption
  <2>5. host.idpClient \in {"none", "idp", "idp_1", "idp_2"}
    OBVIOUS
  <2> QED
    BY <1>1, <2>3, <2>4, <2>5 DEF Shapes
<1>3. Exporting
  <2>1. Folders \in {1, 2}
    BY DEF Folders
  <2> QED
    BY <2>1 DEF Exporting
<1>4. Sounds
  <2>1. SoundBackup(NoEntries)
    BY DEF SoundBackup, NoEntries
  <2> QED
    BY <1>1, <2>1, NoneSound, NewServer DEF Sounds
<1>5. Keeping
  BY DEF Keeping, ToKeep
<1>6. Merging /\ Sending /\ Adding /\ Resolving
  BY DEF Merging, Sending, Adding, Resolving
<1>7. Filed
  BY FS_EmptySet DEF Filed
<1> QED
  BY <1>2, <1>3, <1>4, <1>5, <1>6, <1>7 DEF IInv

\* A step of an export.
LEMMA ExportKeeps ==
    ASSUME IInv, setting' = setting, Export
    PROVE  IInv'
<1> USE DEF IInv
<1>1. run.phase = "export"
  BY DEF Export
<1>2. ExportStep /\ run.state = "going" /\ run.step \in DOMAIN exportSteps
  BY Exports23, Exports24, Exports30, Exports2431, Exports3031, EveryRelease DEF Export
<1>3. /\ DOMAIN exportSteps = 1..Len(exportSteps) /\ Len(exportSteps) \in Nat
      /\ exportSteps' = exportSteps /\ steps = exportSteps
  BY <1>1, Lengths, SameSetting DEF steps
<1>4. /\ DOMAIN run' = DOMAIN run /\ run'.phase = "export" /\ run'.times = run.times
      /\ run'.cut = run.cut /\ run'.lost = run.lost /\ run'.wrote = run.wrote
      /\ \/ run'.step = run.step + 1 /\ run'.state = "going"
         \/ run'.step = run.step /\ run'.state = "stopped"
  BY <1>1, <1>2 DEF ExportStep, Go, Stop, Shapes
<1>5. Shapes'
  <2>1. steps' = exportSteps
    BY <1>3, <1>4 DEF steps
  <2>2. run'.step \in 1..(Len(exportSteps) + 1)
    BY <1>2, <1>3, <1>4
  <2>3. Real(setting)' /\ setting' \in Settings
    BY DEF Shapes
  <2>4. host' = host /\ DOMAIN work' = DOMAIN work /\ work'.bound \in BOOLEAN
        /\ DOMAIN backup' = DOMAIN backup
    BY <1>2 DEF ExportStep
  <2> QED
    BY <1>4, <2>1, <2>2, <2>3, <2>4 DEF Shapes
<1>6. Exporting'
  <2>1. NewEntries(setting)' = NewEntries(setting) /\ Folders' = Folders
    BY SameSetting
  <2>2. run'.step > Folders => backup'.made
    <3>1. Folders \in Nat /\ run.step \in Nat
      BY Places DEF Folders
    <3> QED
      BY <1>1, <1>2, <1>4, <3>1 DEF Exporting, ExportStep
  <2>3. backup'.ldif # NoEntries => backup'.made
    BY <1>1, <1>2 DEF Exporting, ExportStep
  <2>4. NoEntries' = NoEntries
    BY DEF NoEntries
  <2> QED
    BY <1>1, <1>2, <1>4, <2>1, <2>2, <2>3, <2>4 DEF Exporting, ExportStep
<1>7. Sounds'
  BY <1>2, SameSetting DEF Sounds, ExportStep
<1>8. Keeping'
  <2>1. ToKeep' = ToKeep /\ Uploading' = Uploading
    <3>1. Uploading' = Uploading
      BY DEF Uploading
    <3> QED
      BY <1>4, <3>1, SameSetting DEF ToKeep
  <2>2. ~run'.cut /\ host' = host
    BY <1>1, <1>2, <1>4 DEF Exporting, ExportStep
  <2> QED
    BY <1>1, <1>4, <2>1, <2>2 DEF Keeping, Exporting
<1>9. Merging' /\ Sending' /\ Adding' /\ Resolving'
  BY <1>4 DEF Merging, Sending, Adding, Resolving
<1>10. Filed'
  <2>1. work'.mods = {}
    BY <1>1, <1>2 DEF Exporting, ExportStep
  <2> QED
    BY <2>1, FS_EmptySet DEF Filed
<1> QED
  BY <1>5, <1>6, <1>7, <1>8, <1>9, <1>10

\* A step of an import.
LEMMA ImportKeeps ==
    ASSUME IInv, setting' = setting, Import
    PROVE  IInv'
<1>1. /\ AnyStep
      /\ run.phase = "import" /\ run.state = "going" /\ run.step \in DOMAIN steps
  BY ImportSteps DEF IInv
<1>2. Shapes'
  BY <1>1, ShapesKept DEF IInv
<1>3. Exporting' /\ Sounds' /\ Keeping'
  BY <1>1, ExportingKept, SoundsKept, KeepingKept
<1>4. Merging' /\ Filed' /\ Resolving'
  BY <1>1, MergingKept, FiledKept, ResolvingKept
<1>5. Sending' /\ Adding'
  BY <1>1, SendingKept, AddingKept
<1> QED
  BY <1>2, <1>3, <1>4, <1>5 DEF IInv

\* The end of a script, and its interruption between two steps.
LEMMA StateKeeps ==
    ASSUME IInv, setting' = setting, Same,
           DOMAIN run' = DOMAIN run, run'.phase = run.phase, run'.times = run.times,
           run'.cut = run.cut, run'.lost = run.lost, run'.wrote = run.wrote,
           run'.step = run.step, run'.state \in {"going", "stopped", "done"},
           run'.state = "done" => run.step = Len(steps) + 1
    PROVE  IInv'
<1> USE DEF IInv
<1>1. host' = host /\ work' = work /\ backup' = backup
  BY DEF Same
<1>2. /\ Replacing' = Replacing /\ Uploading' = Uploading
      /\ Stops' = Stops /\ Exports' = Exports /\ Merges' = Merges /\ Fills' = Fills
      /\ Resolves' = Resolves /\ Reads' = Reads /\ Uploads' = Uploads
      /\ Folders' = Folders /\ Deep' = Deep /\ Skipped' = Skipped
      /\ steps' = steps /\ NewEntries(setting)' = NewEntries(setting)
      /\ ToKeep' = ToKeep /\ NewIdpClient' = NewIdpClient
  <2>1. Replacing' = Replacing /\ Uploading' = Uploading
    BY DEF Replacing, Uploading
  <2>2. ToKeep' = ToKeep /\ NewIdpClient' = NewIdpClient
    BY <1>1, SameSetting DEF ToKeep, NewIdpClient
  <2>3. steps' = steps
    BY <1>1, SameSetting DEF steps
  <2> QED
    BY <2>1, <2>2, <2>3, SameSetting
<1>3. /\ Changed' = Changed /\ People' = People
      /\ \A e, d : InPlace(e, d)' <=> InPlace(e, d)
      /\ \A e, d : Stored(e, d)' <=> Stored(e, d)
      /\ \A f : SoundFile(f)' <=> SoundFile(f)
      /\ \A d : SoundData(d)' <=> SoundData(d)
      /\ \A l : SoundBackup(l)' <=> SoundBackup(l)
      /\ \A e : Covered(e, host.data)' <=> Covered(e, host.data)
      /\ NoEntries' = NoEntries
  BY <1>1, SameBackup, SameSetting DEF NoEntries, Covered, NotTaken
<1>4. Shapes'
  <2>1. Real(setting)' /\ setting' \in Settings
    BY DEF Shapes
  <2> QED
    BY <1>1, <1>2, <2>1 DEF Shapes
<1>5. Exporting'
  BY <1>1, <1>2, <1>3 DEF Exporting
<1>6. Sounds'
  BY <1>1, <1>3 DEF Sounds
<1>7. Keeping'
  BY <1>1, <1>2 DEF Keeping
<1>8. Merging'
  BY <1>1, <1>2, <1>3 DEF Merging
<1>9. Filed'
  BY <1>1, <1>3 DEF Filed
<1>10. Sending'
  BY <1>1, <1>2, <1>3 DEF Sending
<1>11. Adding'
  BY <1>1, <1>2, <1>3 DEF Adding
<1>12. Resolving'
  BY <1>1, <1>2 DEF Resolving
<1> QED
  BY <1>4, <1>5, <1>6, <1>7, <1>8, <1>9, <1>10, <1>11, <1>12
\* The start of a script, for the first time or again.
Starts ==
    /\ work' = work /\ backup' = backup
    /\ DOMAIN host' = DOMAIN host /\ host'.data = host.data
    /\ host'.idpClient = host.idpClient
    /\ host'.webapps \in {"running", "stopped"} /\ host'.ldap \in {"running", "stopped"}
    /\ DOMAIN run' = DOMAIN run /\ run'.phase \in {run.phase, "import"}
    /\ run'.step = 1 /\ run'.state = "going" /\ run'.times \in 1..MaxRuns
    /\ ~run'.cut /\ run'.cut \in BOOLEAN /\ run'.wrote = run.wrote
    /\ run'.lost \in BOOLEAN /\ (~run'.lost => ~run.lost /\ ~run.cut)

\* A start keeps the invariant.
LEMMA StartKeeps ==
    ASSUME IInv, setting' = setting, Starts
    PROVE  IInv'
<1> USE DEF IInv
<1>1. /\ work' = work /\ backup' = backup
      /\ DOMAIN host' = DOMAIN host /\ host'.data = host.data
      /\ host'.idpClient = host.idpClient
      /\ host'.webapps \in {"running", "stopped"} /\ host'.ldap \in {"running", "stopped"}
      /\ DOMAIN run' = DOMAIN run /\ run'.phase \in {"export", "import"}
      /\ run'.phase = "export" => run.phase = "export"
      /\ run'.step = 1 /\ run'.state = "going" /\ run'.times \in 1..MaxRuns
      /\ ~run'.cut /\ run'.cut \in BOOLEAN /\ run'.wrote = run.wrote
      /\ run'.lost \in BOOLEAN /\ (~run'.lost => ~run.lost /\ ~run.cut)
  BY DEF Starts, Shapes
<1>2. /\ Replacing' = Replacing /\ Uploading' = Uploading
      /\ Stops' = Stops /\ Exports' = Exports /\ Merges' = Merges /\ Fills' = Fills
      /\ Resolves' = Resolves /\ Reads' = Reads /\ Uploads' = Uploads
      /\ Folders' = Folders /\ ToKeep' = ToKeep
      /\ NewEntries(setting)' = NewEntries(setting)
  <2>1. Replacing' = Replacing /\ Uploading' = Uploading
    BY DEF Replacing, Uploading
  <2>2. ToKeep' = ToKeep
    BY <1>1, SameSetting DEF ToKeep
  <2> QED
    BY <2>1, <2>2, SameSetting
<1>3. /\ People' = People
      /\ \A e, d : Stored(e, d)' <=> Stored(e, d)
      /\ \A f : SoundFile(f)' <=> SoundFile(f)
      /\ \A d : SoundData(d)' <=> SoundData(d)
      /\ \A l : SoundBackup(l)' <=> SoundBackup(l)
      /\ NoEntries' = NoEntries
  BY <1>1, SameBackup, SameSetting DEF NoEntries
<1>4. Shapes'
  <2>1. Len(steps') \in Nat
    <3>1. Len(exportSteps) \in Nat /\ Len(importSteps) \in Nat
      BY Lengths
    <3>2. steps' \in {exportSteps, importSteps}
      BY SameSetting DEF steps
    <3> QED
      BY <3>1, <3>2
  <2>2. run'.step \in 1..(Len(steps') + 1)
    BY <1>1, <2>1
  <2>3. Real(setting)' /\ setting' \in Settings
    BY DEF Shapes
  <2>4. run'.wrote \in BOOLEAN /\ run'.lost \in BOOLEAN
    BY <1>1 DEF Shapes
  <2> QED
    BY <1>1, <2>2, <2>3, <2>4 DEF Shapes
<1>5. Exporting'
  <2>1. Folders \in {1, 2}
    BY DEF Folders
  <2> QED
    BY <1>1, <1>2, <1>3, <2>1 DEF Exporting
<1>6. Sounds'
  BY <1>1, <1>3 DEF Sounds
<1>7. Keeping'
  <2>1. Uploading \/ (~run'.lost /\ ~run'.cut) => ToKeep \subseteq DOMAIN host.data
    BY <1>1 DEF Keeping
  <2>2. Replacing =>
            1 \notin (Exports + 1)..Merges /\ 1 # Fills /\ 1 \notin (Stops + 1)..Fills
    BY Places
  <2> QED
    BY <1>1, <1>2, <2>1, <2>2 DEF Keeping
<1>8. Merging'
  <2>1. Replacing => 1 < Fills
    BY Places
  <2> QED
    BY <1>1, <1>2, <2>1, Places DEF Merging
<1>9. Filed'
  BY <1>1, <1>3 DEF Filed
<1>10. run.phase = "export" => host.data = NewEntries(setting)
  BY DEF Exporting
<1>11. DOMAIN NewEntries(setting) \subseteq NewNames \cup {"idp", "idp_none"}
  BY NewServer DEF Shapes
<1>12. Sending'
  <2>1. Uploading => 1 < Reads + 1 /\ 1 < Uploads
    BY Places
  <2>2. Uploading /\ setting.release = "24" /\ "device" \in DOMAIN host.data =>
            "person" \in DOMAIN host.data
    <3>1. CASE run.phase = "import"
      BY <3>1 DEF Sending
    <3>2. CASE run.phase = "export"
      BY <1>10, <1>11, <3>2 DEF NewNames
    <3> QED
      BY <3>1, <3>2 DEF Shapes
  <2> QED
    BY <1>1, <1>2, <2>1, <2>2, Places DEF Sending
<1>13. Adding'
  <2>1. setting.release = "23" =>
            \A e \in (People \ {"admin"}) \cap DOMAIN host.data : Stored(e, host.data)
    <3>1. CASE run.phase = "import"
      BY <3>1 DEF Adding
    <3>2. CASE run.phase = "export"
      BY <1>10, <1>11, <3>2 DEF NewNames, People, FileOf
    <3> QED
      BY <3>1, <3>2 DEF Shapes
  <2> QED
    BY <1>1, <1>3, <2>1 DEF Adding
<1>14. Resolving'
  BY <1>1, <1>2, Places DEF Resolving
<1> QED
  BY <1>4, <1>5, <1>6, <1>7, <1>8, <1>9, <1>12, <1>13, <1>14

\* So does running a script again that was interrupted or stopped.
LEMMA RunAgainKeeps ==
    ASSUME IInv, setting' = setting, RunAgain
    PROVE  IInv'
<1> USE DEF IInv
<1>1. /\ DOMAIN run' = DOMAIN run /\ run'.phase = run.phase
      /\ run'.step = 1 /\ run'.state = "going" /\ run'.times = run.times + 1
      /\ run.times < MaxRuns /\ run'.cut = FALSE /\ run'.wrote = run.wrote
      /\ run'.lost = (run.lost \/ run.cut)
  BY DEF RunAgain, Shapes
<1>2. run'.times \in 1..MaxRuns
  BY <1>1, MigrationAssumption DEF Shapes
<1>3. run'.lost \in BOOLEAN /\ (~run'.lost => ~run.lost /\ ~run.cut)
  BY <1>1 DEF Shapes
<1>4. /\ work' = work /\ backup' = backup
      /\ DOMAIN host' = DOMAIN host /\ host'.data = host.data
      /\ host'.idpClient = host.idpClient
      /\ host'.webapps \in {"running", "stopped"} /\ host'.ldap \in {"running", "stopped"}
  BY DEF RunAgain, Same, Host, Shapes
<1>5. Starts
  BY <1>1, <1>2, <1>3, <1>4 DEF Starts
<1> QED
  BY <1>5, StartKeeps

\* A script that is done has not been cut off in the middle of a step.
LEMMA DoneNotCut ==
    ASSUME IInv, run.state = "done"
    PROVE  ~run.cut
<1>1. run.step = Len(steps) + 1
  BY DEF IInv, Shapes
<1>2. CASE run.phase = "export"
  BY <1>2 DEF IInv, Exporting
<1>3. CASE run.phase = "import"
  <2>1. steps = importSteps
    BY <1>3 DEF steps
  <2>2. run.cut => run.step = IF Replacing THEN Fills ELSE Uploads
    BY DEF IInv, Keeping
  <2> QED
    BY <1>1, <2>1, <2>2, Lengths, Places DEF IInv
<1> QED
  BY <1>2, <1>3 DEF IInv, Shapes

\* So does the import after an export, and a second import.
LEMMA ImportAgainKeeps ==
    ASSUME IInv, setting' = setting, ImportAgain \/ StartImport
    PROVE  IInv'
<1>1. ~run.cut
  BY DoneNotCut DEF ImportAgain, StartImport
<1> USE DEF IInv
<1>2. /\ DOMAIN run' = DOMAIN run /\ run'.phase = "import"
      /\ run'.step = 1 /\ run'.state = "going" /\ run'.cut = run.cut
      /\ run'.wrote = run.wrote /\ run'.lost = run.lost
  BY DEF ImportAgain, StartImport, Shapes
<1>3. run'.times \in 1..MaxRuns
  <2>1. CASE ImportAgain
    <3>1. run'.times = run.times + 1 /\ run.times < MaxRuns
      BY <2>1 DEF ImportAgain, Shapes
    <3> QED
      BY <3>1, MigrationAssumption DEF Shapes
  <2>2. CASE StartImport
    <3>1. run'.times = 1
      BY <2>2 DEF StartImport, Shapes
    <3> QED
      BY <3>1, MigrationAssumption
  <2> QED
    BY <2>1, <2>2
<1>4. work' = work /\ backup' = backup /\ host' = host
  BY DEF ImportAgain, StartImport, Same
<1> QED
  BY <1>1, <1>2, <1>3, <1>4, StartKeeps DEF Starts, Shapes

\* What an application stores is among what is to be kept; it cannot store
\* anything between the export of the entries and the filling of the directory.
LEMMA WritesKeeps ==
    ASSUME IInv, setting' = setting, ApplicationWrites
    PROVE  IInv'
<1> USE DEF IInv
<1> DEFINE late == [e \in {"late"} |-> [name |-> "new"]]
           data == Over(host.data, late)
<1>1. /\ work' = work /\ backup' = backup
      /\ host' = [host EXCEPT !.data = data] /\ run' = [run EXCEPT !.wrote = TRUE]
      /\ run.phase = "import" /\ host.ldap = "running" /\ ~run.wrote
  BY DEF ApplicationWrites, Host
<1>2. /\ DOMAIN host' = DOMAIN host /\ host'.data = data
      /\ host'.idpClient = host.idpClient
      /\ host'.webapps = host.webapps /\ host'.ldap = host.ldap
      /\ DOMAIN run' = DOMAIN run /\ run'.phase = "import"
      /\ run'.step = run.step /\ run'.state = run.state /\ run'.times = run.times
      /\ run'.cut = run.cut /\ run'.lost = run.lost /\ run'.wrote
      /\ run'.wrote \in BOOLEAN
  BY <1>1 DEF Shapes
<1>3. /\ DOMAIN data = DOMAIN host.data \cup {"late"}
      /\ \A n \in DOMAIN host.data : data[n] = host.data[n]
      /\ \A n \in DOMAIN data \ {"late"} : n \in DOMAIN host.data
      /\ "late" \notin DOMAIN host.data => data["late"] = [name |-> "new"]
  BY DEF Over
<1> HIDE DEF late, data
<1>4. /\ Replacing' = Replacing /\ Uploading' = Uploading
      /\ Stops' = Stops /\ Exports' = Exports /\ Merges' = Merges /\ Fills' = Fills
      /\ Resolves' = Resolves /\ Reads' = Reads /\ Uploads' = Uploads
      /\ Deep' = Deep /\ Skipped' = Skipped /\ steps' = steps
      /\ NewIdpClient' = NewIdpClient
      /\ ToKeep' \subseteq ToKeep \cup {"late"}
  <2>1. Replacing' = Replacing /\ Uploading' = Uploading
    BY DEF Replacing, Uploading
  <2>2. ToKeep' \subseteq ToKeep \cup {"late"} /\ NewIdpClient' = NewIdpClient
    BY <1>2, SameSetting DEF ToKeep, NewIdpClient
  <2>3. steps' = steps
    BY <1>1, <1>2, SameSetting DEF steps
  <2> QED
    BY <2>1, <2>2, <2>3, SameSetting
<1>5. /\ Changed' = Changed /\ People' = People
      /\ \A e, d : InPlace(e, d)' <=> InPlace(e, d)
      /\ \A e, d : Stored(e, d)' <=> Stored(e, d)
      /\ \A f : SoundFile(f)' <=> SoundFile(f)
      /\ \A d : SoundData(d)' <=> SoundData(d)
      /\ \A l : SoundBackup(l)' <=> SoundBackup(l)
      /\ \A e : NotTaken(e)' = NotTaken(e)
      /\ NoEntries' = NoEntries
  BY <1>1, SameBackup, SameSetting DEF NoEntries, NotTaken
<1>6. \A e \in DOMAIN backup.ldif : e # "late" /\ ById(e) # "late"
  BY DEF Sounds, SoundBackup, OldNames, ById
<1>7. Shapes'
  <2>1. Real(setting)' /\ setting' \in Settings
    BY DEF Shapes
  <2> QED
    BY <1>1, <1>2, <1>4, <2>1 DEF Shapes
<1>8. Exporting'
  BY <1>1, <1>2, <1>5 DEF Exporting
<1>9. Sounds'
  <2>1. SoundEntry("late", [name |-> "new"]) /\ "late" \in AllNames
    BY DEF SoundEntry, AllNames, NewNames, ByIds, Known
  <2>2. SoundData(data)
    BY <1>3, <2>1 DEF Sounds, SoundData
  <2> QED
    BY <1>1, <1>2, <1>5, <2>2 DEF Sounds
<1>10. Keeping'
  <2>1. Replacing => run.step \notin (Stops + 1)..Fills
    BY <1>1 DEF Keeping
  <2>2. Replacing => /\ run.step \notin (Exports + 1)..Merges
                     /\ run.step # Fills
    BY <2>1, Places
  <2>3. Uploading \/ (~run.lost /\ ~run.cut) => ToKeep \cup {"late"} \subseteq DOMAIN data
    BY <1>3 DEF Keeping
  <2>4. run.cut => run.step = IF Replacing THEN Fills ELSE Uploads
    BY DEF Keeping
  <2> QED
    BY <1>2, <1>4, <2>1, <2>2, <2>3, <2>4 DEF Keeping
<1>11. Merging'
  <2>1. \A e \in DOMAIN backup.ldif : InPlace(e, host.data) => InPlace(e, data)
    BY <1>3, <1>6 DEF InPlace
  <2> QED
    BY <1>1, <1>2, <1>4, <1>5, <2>1 DEF Merging
<1>12. Filed'
  BY <1>1, <1>5 DEF Filed
<1>13. Changed \subseteq DOMAIN backup.ldif /\ People \subseteq DOMAIN backup.ldif
  BY DEF Changed, People
<1>14. \A e \in DOMAIN backup.ldif :
          /\ e \in DOMAIN data <=> e \in DOMAIN host.data
          /\ e \in DOMAIN host.data => data[e] = host.data[e]
          /\ Stored(e, host.data) => Stored(e, data)
          /\ e \in DOMAIN data /\ Stored(e, host.data) => Stored(e, data)
  BY <1>3, <1>6 DEF Stored
<1>15. \A e \in DOMAIN backup.ldif :
          e \in DOMAIN host.data /\ Covered(e, host.data) => Covered(e, host.data)'
  BY <1>1, <1>2, <1>5, <1>14 DEF Covered
<1>16. Sending'
  BY <1>1, <1>2, <1>3, <1>4, <1>5, <1>13, <1>14, <1>15 DEF Sending
<1>17. Adding'
  BY <1>1, <1>2, <1>5, <1>13, <1>14 DEF Adding
<1>18. Resolving'
  BY <1>1, <1>2, <1>3, <1>4 DEF Resolving
<1> QED
  BY <1>7, <1>8, <1>9, <1>10, <1>11, <1>12, <1>16, <1>17, <1>18
-----------------------------------------------------------------------------
(* The invariant, and what it says of a migration that is done.            *)

\* Every step keeps the invariant.
LEMMA NextKeeps == IInv /\ [Next]_state => IInv'
<1> SUFFICES ASSUME IInv, [Next]_state  PROVE IInv'
  OBVIOUS
<1>1. CASE UNCHANGED state
  <2>1. /\ setting' = setting /\ backup' = backup /\ host' = host /\ work' = work
        /\ run' = run
    BY <1>1 DEF state
  <2>2. run.state \in {"going", "stopped", "done"}
        /\ (run.state = "done" => run.step = Len(steps) + 1)
    BY DEF IInv, Shapes
  <2> QED
    BY <2>1, <2>2, StateKeeps DEF Same
<1>2. CASE Next
  <2>1. setting' = setting
    BY <1>2 DEF Next
  <2>2. CASE Export
    BY <2>1, <2>2, ExportKeeps
  <2>3. CASE Import
    BY <2>1, <2>3, ImportKeeps
  <2>4. CASE Finish
    <3>1. run.step = Len(steps) + 1
      <4>1. Len(steps) \in Nat
        BY Lengths DEF steps, IInv
      <4> QED
        BY <2>4, <4>1 DEF Finish, IInv, Shapes
    <3>2. /\ DOMAIN run' = DOMAIN run /\ run'.phase = run.phase /\ run'.times = run.times
          /\ run'.cut = run.cut /\ run'.lost = run.lost /\ run'.wrote = run.wrote
          /\ run'.step = run.step /\ run'.state = "done" /\ Same
      BY <2>4 DEF Finish, IInv, Shapes
    <3> QED
      BY <2>1, <3>1, <3>2, StateKeeps
  <2>5. CASE Interrupted
    <3>1. /\ DOMAIN run' = DOMAIN run /\ run'.phase = run.phase /\ run'.times = run.times
          /\ run'.cut = run.cut /\ run'.lost = run.lost /\ run'.wrote = run.wrote
          /\ run'.step = run.step /\ run'.state = "stopped" /\ Same
      BY <2>5 DEF Interrupted, Stop, IInv, Shapes
    <3> QED
      BY <2>1, <3>1, StateKeeps
  <2>6. CASE RunAgain
    BY <2>1, <2>6, RunAgainKeeps
  <2>7. CASE ImportAgain \/ StartImport
    BY <2>1, <2>7, ImportAgainKeeps
  <2>8. CASE ApplicationWrites
    BY <2>1, <2>8, WritesKeeps
  <2> QED
    BY <1>2, <2>2, <2>3, <2>4, <2>5, <2>6, <2>7, <2>8 DEF Next
<1> QED
  BY <1>1, <1>2

\* What is known of the entries, the files and the client at each place of
\* the scripts holds in every state of a migration.
THEOREM Invariance == Spec => []IInv
<1>1. Init => IInv
  BY InitHolds
<1>2. IInv /\ [Next]_state => IInv'
  BY NextKeeps
<1> QED
  BY <1>1, <1>2, PTL DEF Spec

\* The variables have their types: the directory only ever holds entries of
\* one of the two servers, and one that the migration makes of them.
THEOREM TypeCorrect == Spec => []TypeOK
<1>1. IInv => TypeOK
  <2> SUFFICES ASSUME IInv  PROVE TypeOK
    OBVIOUS
  <2>1. /\ setting \in Settings /\ Real(setting)
        /\ run.step \in 1..(Len(steps) + 1) /\ run.times \in 1..MaxRuns
        /\ run.state \in {"going", "stopped", "done"}
        /\ host.webapps \in {"running", "stopped"} /\ host.ldap \in {"running", "stopped"}
    BY DEF IInv, Shapes
  <2>2. DOMAIN host.data \subseteq
            DOMAIN OldEntries(setting) \cup DOMAIN NewEntries(setting)
            \cup {"idp_1", "idp_2", "late"} \cup {ById(e) : e \in OldFiles}
    <3>1. DOMAIN host.data \subseteq AllNames
      BY DEF IInv, Sounds, SoundData
    <3>2. DOMAIN OldEntries(setting) = OldNames
      BY OldServer
    <3>3. DOMAIN NewEntries(setting)
              = NewNames \cup (IF setting.saml THEN {"idp"} ELSE {"idp_none"})
      BY <2>1, NewServer
    <3>4. ByIds \subseteq {ById(e) : e \in OldFiles}
      <4>1. "resource" \in OldFiles /\ "sector" \in OldFiles
        BY DEF OldFiles
      <4>2. ById("resource") = "resource_oxId" /\ ById("sector") = "sector_oxId"
        BY DEF ById
      <4> QED
        BY <4>1, <4>2 DEF ByIds
    <3> QED
      BY <3>1, <3>2, <3>3, <3>4 DEF AllNames
  <2>3. /\ backup.ldif # NoEntries => backup.made
        /\ run.phase = "export" => work.current = NoEntries
    BY DEF IInv, Exporting
  <2> QED
    BY <2>1, <2>2, <2>3 DEF TypeOK
<1> QED
  BY <1>1, Invariance, PTL

\* Where an import is when it is done.
LEMMA DonePlace ==
    ASSUME IInv, Imported
    PROVE  /\ Replacing => run.step > Fills /\ run.step > Merges
           /\ Uploading => run.step > Uploads
           /\ setting.release = "23" => run.step > 9
           /\ setting.release \in {"2431", "3031"} => run.step > Resolves + 2
           /\ ~run.cut
<1>1. run.step = Len(importSteps) + 1
  BY DEF IInv, Shapes, Imported, steps
<1>2. ~run.cut
  BY DoneNotCut DEF Imported
<1>3. /\ Len(importSteps) \in Nat
      /\ Uploading => Len(importSteps) > Uploads
      /\ setting.release = "23" => Len(importSteps) = 9
      /\ Replacing => Len(importSteps) > Fills
      /\ setting.release \in {"2431", "3031"} => Len(importSteps) > Resolves + 1
  BY Lengths DEF IInv
<1>4. /\ Uploading => Uploads \in Nat
      /\ Replacing => Merges \in Nat /\ Fills = Merges + 1
      /\ setting.release \in {"2431", "3031"} => Resolves \in Nat
  BY Places DEF IInv
<1> DEFINE n == Len(importSteps)
<1> HIDE DEF n
<1>5. run.step = n + 1 /\ n \in Nat
  BY <1>1, <1>3 DEF n
<1>6. Replacing => run.step > Fills /\ run.step > Merges
  BY <1>3, <1>4, <1>5 DEF n
<1>7. Uploading => run.step > Uploads
  BY <1>3, <1>4, <1>5 DEF n
<1>8. setting.release = "23" => run.step > 9
  <2>1. setting.release = "23" => n = 9
    BY <1>3 DEF n
  <2> QED
    BY <1>5, <2>1
<1>9. setting.release \in {"2431", "3031"} => run.step > Resolves + 2
  BY <1>3, <1>4, <1>5 DEF n
<1> QED
  BY <1>2, <1>6, <1>7, <1>8, <1>9

\* When an import is done, every entry of the backup that the server has not
\* rejected is in the directory, under its DN or the one with oxId, with
\* nothing of it replaced by what the new server had been installed with.
THEOREM OldDataIsKept == Spec => []OldDataKept
<1>1. IInv => OldDataKept
  <2> SUFFICES ASSUME IInv, Imported,
                      NEW e \in DOMAIN backup.ldif \ (Skipped \cup work.rejected)
               PROVE  InPlace(e, host.data)
    BY DEF OldDataKept, InPlace, Complete
  <2> USE DEF IInv
  <2>1. run.phase = "import"
    BY DEF Imported
  <2>2. CASE Replacing
    BY <2>1, <2>2, DonePlace DEF Merging
  <2>3. CASE Uploading
    <3>1. Stored(e, host.data)
      <4>1. CASE e \in Changed
        BY <2>1, <2>3, <4>1, DonePlace DEF Sending
      <4>2. CASE e \notin Changed
        <5>1. setting.release = "23" /\ e \in People \ {"admin"}
          BY <2>3, <4>2 DEF Changed, Skipped, Uploading
        <5> QED
          BY <2>1, <5>1, DonePlace DEF Adding
      <4> QED
        BY <4>1, <4>2
    <3>2. ASSUME ById(e) \in DOMAIN host.data, ById(e) # e
          PROVE  Complete(e, host.data[ById(e)])
      <4>1. e \in {"resource", "sector"} /\ ById(e) \in ByIds
        BY <3>2 DEF ById, ByIds
      <4>2. /\ DOMAIN backup.ldif[e] \subseteq {"name", "type"}
            /\ "type" \in DOMAIN backup.ldif[e] => ById(e) = "resource_oxId"
        BY <4>1 DEF Sounds, SoundBackup, OldAttributes, ById
      <4>3. SoundEntry(ById(e), host.data[ById(e)])
        BY <3>2 DEF Sounds, SoundData
      <4>4. "name" \in DOMAIN host.data[ById(e)] /\ host.data[ById(e)]["name"] # "new"
        BY <4>1, <4>3 DEF SoundEntry
      <4>5. ById(e) = "resource_oxId" => /\ "type" \in DOMAIN host.data[ById(e)]
                                         /\ host.data[ById(e)]["type"] # "new"
        BY <2>3, <4>3 DEF SoundEntry, Lost, Uploading
      <4> QED
        BY <4>2, <4>4, <4>5 DEF Complete
    <3> QED
      BY <3>1, <3>2 DEF Stored, InPlace
  <2> QED
    BY <2>2, <2>3, Places
<1> QED
  BY <1>1, Invariance, PTL

\* When an import is done, the other entries of the new server, and what its
\* applications have stored while the scripts ran, are still there, unless a
\* run has been interrupted between the emptying and the filling.
THEOREM NewEntriesAreKept == Spec => []NewEntriesKept
<1>1. IInv => NewEntriesKept
  <2> SUFFICES ASSUME IInv, Imported, ~run.lost
               PROVE  /\ DOMAIN NewEntries(setting) \ Replaced \subseteq DOMAIN host.data
                      /\ run.wrote => "late" \in DOMAIN host.data
    BY DEF NewEntriesKept
  <2>1. ToKeep \subseteq DOMAIN host.data
    BY DonePlace DEF IInv, Keeping
  <2> QED
    BY <2>1 DEF ToKeep
<1> QED
  BY <1>1, Invariance, PTL

\* After import2431 and import3031 Shibboleth is configured with a client that
\* is in the directory and named in setup.properties.last.
THEOREM IdpClientIsKnown == Spec => []IdpClientKnown
<1>1. IInv => IdpClientKnown
  <2> SUFFICES ASSUME IInv, Imported, setting.release \in {"2431", "3031"}
               PROVE  /\ host.idpClient \in DOMAIN host.data
                      /\ host.data["oxidp"].client = host.idpClient
    BY DEF IdpClientKnown
  <2>1. run.step > Resolves + 2 /\ Resolves \in Nat /\ run.step \in Nat
    BY DonePlace, Places DEF IInv
  <2>2. run.step > Resolves /\ run.step > Resolves + 1
    BY <2>1
  <2> QED
    BY <2>1, <2>2 DEF IInv, Resolving, Imported
<1> QED
  BY <1>1, Invariance, PTL
=============================================================================
