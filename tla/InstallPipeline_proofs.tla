----------------------- MODULE InstallPipeline_proofs -----------------------
(***************************************************************************)
(* Proofs of the properties of InstallPipeline, for every set of services   *)
(* that are offered and any number of runs and failures.                   *)
(*                                                                         *)
(* IInv says how far the run on the machine is (Progress), that nothing it  *)
(* is going to import was imported before (StillToImport), and what every   *)
(* run leaves behind for the next one, wherever it fails (FilesFirst,       *)
(* EnabledHasEntries, OxAuthPrepared, Untouched).                          *)
(***************************************************************************)
EXTENDS InstallPipeline, TLAPS

\* Nothing is on the machine before the first run reaches copy_output, and
\* nothing of a service before install_services.
Untouched ==
    ~gluu_properties \/ pc \in {"prepare", "backend"} =>
        /\ pc \notin {"services", "post_install"}
        /\ \A s \in Installers : imported[s] = 0
        /\ enabled = {}
        /\ ~installed_instance
        /\ pc = "backend" => gluu_properties

\* A run that adds services found the core on the machine.
CoreFound == installed_instance => Collectable

\* installed() sees a service before its entries are imported.
FilesFirst == \A s \in Installers \ {Radius, RadiusBase} : imported[s] > 0 => s \in files

StageDone(s, st) ==
    /\ st = "files" => SeenAs(s) \in files
    /\ st = "import" => imported[s] > 0
    /\ st = "enable" => s \in enabled
    /\ st = "oxtrust" => s \in oxTrustConf
    /\ st = "oxauth" => s \in oxAuthConf

\* The installers before `at' are through, and the one there up to `stage'.
Progress ==
    /\ \A i \in 1..11 : i < at /\ Selected(Order[i]) =>
          \A k \in 1..Len(StagesOf(Order[i])) : StageDone(Order[i], StagesOf(Order[i])[k])
    /\ at <= 11 /\ Selected(Here) =>
          \A k \in 1..Len(StagesOf(Here)) : k < stage => StageDone(Here, StagesOf(Here)[k])
    /\ at <= 11 /\ ~Selected(Here) => stage = 1
    /\ pc = "post_install" => at = 12

\* What the run is still going to import was never imported.
StillToImport ==
    pc = "services" => \A i \in 1..11 :
        /\ Selected(Order[i]) /\ Order[i] \notin forced \cup {Radius}
        /\ \/ i > at
           \/ i = at /\ \A k \in 1..Len(StagesOf(Here)) :
                          k < stage => StagesOf(Here)[k] # "import"
        => imported[Order[i]] = 0

\* A run has left the beginning only in install_services.
AtStart == pc \in {"off", "prepare", "backend"} => at = 1 /\ stage = 1

IInv ==
    /\ TypeOK
    /\ Untouched
    /\ CoreFound
    /\ FilesFirst
    /\ EnabledHasEntries
    /\ OxAuthPrepared
    /\ Progress
    /\ StillToImport
    /\ AtStart

-----------------------------------------------------------------------------
(* The order of the installers and their stages.                           *)

\* Order lists every installer once.
LEMMA OrderFacts ==
    /\ Len(Order) = 11
    /\ \A i \in 1..11 : Order[i] \in Installers
    /\ \A i, j \in 1..11 : Order[i] = Order[j] => i = j
    /\ \A s \in Installers : \E i \in 1..11 : Order[i] = s
    /\ Order[3] = oxTrust
    /\ \A i \in 1..11 : Order[i] \in {"scim", "idp", Passport} => i > 3
  BY DEF Order, Installers, oxAuth, oxTrust, Oxd, Casa, Passport, RadiusBase, Radius

\* One to four stages, among them the files, the import once, after the files (but
\* for Radius), after what goes to oxAuth and before the switch; three services
\* write into the entry of oxTrust.
LEMMA StageFacts ==
    ASSUME NEW s \in Installers
    PROVE  /\ Len(StagesOf(s)) \in 1..4
           /\ \E k \in 1..Len(StagesOf(s)) : StagesOf(s)[k] = "files"
           /\ DOMAIN StagesOf(s) = 1..Len(StagesOf(s))
           /\ \A k, l \in 1..Len(StagesOf(s)) :
                 StagesOf(s)[k] = "import" /\ StagesOf(s)[l] = "import" => k = l
           /\ \A k, m \in 1..Len(StagesOf(s)) :
                 StagesOf(s)[k] = "import" /\ StagesOf(s)[m] = "oxauth" => m < k
           /\ \A k \in 1..Len(StagesOf(s)) :
                 /\ StagesOf(s)[k] = "import" /\ s # Radius =>
                       \E l \in 1..Len(StagesOf(s)) : l < k /\ StagesOf(s)[l] = "files"
                 /\ StagesOf(s)[k] = "enable" =>
                       \E l \in 1..Len(StagesOf(s)) : l < k /\ StagesOf(s)[l] = "import"
                 /\ StagesOf(s)[k] = "oxtrust" => s \in {"scim", "idp", Passport}
<1> USE DEF oxAuth, oxTrust, Oxd, Casa, Passport, RadiusBase, Radius
<1>1. CASE s \in {"httpd", Oxd}
  <2>1. StagesOf(s) = <<"files">>
    BY <1>1 DEF StagesOf, HttpdStages, OxdStages
  <2> QED
    BY <2>1
<1>2. CASE s \in {oxAuth, oxTrust, "fido2"}
  <2>1. StagesOf(s) = <<"files", "import">>
    BY <1>2 DEF StagesOf, OxauthStages, OxtrustStages, FidoStages
  <2> QED
    BY <2>1
<1>7. CASE s = Casa
  <2>1. StagesOf(s) = <<"files", "oxauth", "import">>
    BY <1>7 DEF StagesOf, CasaStages
  <2> QED
    BY <2>1
<1>3. CASE s = RadiusBase
  <2>1. StagesOf(s) = <<"files", "oxauth", "import", "enable">>
    BY <1>3 DEF StagesOf, RadiusBaseStages
  <2>2. 1 \in 1..4 /\ 2 \in 1..4 /\ 3 \in 1..4
    OBVIOUS
  <2> QED
    BY <2>1, <2>2
<1>4. CASE s = "scim"
  <2>1. StagesOf(s) = <<"files", "import", "oxtrust", "enable">>
    BY <1>4 DEF StagesOf, ScimStages
  <2>2. 1 \in 1..4 /\ 2 \in 1..4
    OBVIOUS
  <2> QED
    BY <2>1, <2>2, <1>4
<1>5. CASE s \in {"idp", Passport}
  <2>1. StagesOf(s) = <<"files", "import", "enable", "oxtrust">>
    BY <1>5 DEF StagesOf, SamlStages, PassportStages
  <2>2. 1 \in 1..4 /\ 2 \in 1..4
    OBVIOUS
  <2> QED
    BY <2>1, <2>2, <1>5
<1>6. CASE s = Radius
  <2>1. StagesOf(s) = <<"import", "files">>
    BY <1>6 DEF StagesOf, RadiusStages
  <2> QED
    BY <2>1, <1>6
<1> QED
  BY <1>1, <1>2, <1>3, <1>4, <1>5, <1>6, <1>7 DEF Installers

\* A stage of the services runs in the run on the machine, at its installer.
LEMMA AtStageFacts ==
    ASSUME TypeOK, NEW st, AtStage(st)
    PROVE  /\ at \in 1..11 /\ Here \in Installers /\ Selected(Here)
           /\ stage \in 1..Len(StagesOf(Here))
           /\ StagesOf(Here)[stage] = st
<1>1. at \in 1..11
  <2>1. at \in 1..12 /\ at <= 11
    BY OrderFacts DEF AtStage, TypeOK
  <2> QED
    BY <2>1
<1>2. Here \in Installers
  BY <1>1, OrderFacts DEF Here
<1>3. Len(StagesOf(Here)) \in 1..4
  BY <1>2, StageFacts
<1> QED
  BY <1>1, <1>2, <1>3 DEF AtStage, TypeOK

\* The initial states satisfy IInv.
LEMMA InitIInv == Init => IInv
<1> SUFFICES ASSUME Init PROVE IInv
  OBVIOUS
<1>1. TypeOK
  <2>1. imported \in [Installers -> Nat]
    BY DEF Init
  <2>2. runs \in 0..MaxRuns /\ failures \in 0..MaxFailures
    BY BoundsAssumption DEF Init
  <2>3. at \in 1..(Len(Order) + 1) /\ stage \in 1..4
    BY OrderFacts DEF Init
  <2> QED
    BY <2>1, <2>2, <2>3 DEF Init, TypeOK
<1>2. /\ Untouched /\ CoreFound /\ FilesFirst /\ EnabledHasEntries /\ OxAuthPrepared
      /\ StillToImport /\ AtStart
  BY DEF Init, Untouched, CoreFound, FilesFirst, EnabledHasEntries, OxAuthPrepared,
     StillToImport, AtStart
<1>3. Progress
  BY DEF Init, Progress
<1> QED
  BY <1>1, <1>2, <1>3 DEF IInv

-----------------------------------------------------------------------------
(* Every step keeps TypeOK.                                                *)

\* Arithmetic of Advance.
LEMMA NextOfFour ==
    \A n \in 1..4 : \A k \in 1..n : k < n => k + 1 \in 1..4 /\ k + 1 <= n
  OBVIOUS

\* Advance moves one stage, or to the next installer after the last.
LEMMA AdvanceFacts ==
    ASSUME TypeOK, NEW st, AtStage(st), Advance
    PROVE  /\ at' \in 1..12 /\ stage' \in 1..4
           /\ \/ at' = at /\ stage' = stage + 1 /\ stage' <= Len(StagesOf(Here))
              \/ at' = at + 1 /\ stage' = 1 /\ stage = Len(StagesOf(Here))
<1>1. /\ at \in 1..11 /\ Here \in Installers
      /\ stage \in 1..Len(StagesOf(Here))
  BY AtStageFacts
<1>2. Len(StagesOf(Here)) \in 1..4
  BY <1>1, StageFacts
<1>3. CASE stage < Len(StagesOf(Here))
  <2>1. at' = at /\ stage' = stage + 1
    BY <1>3 DEF Advance
  <2>2. stage + 1 \in 1..4 /\ stage + 1 <= Len(StagesOf(Here))
    BY <1>1, <1>2, <1>3, NextOfFour
  <2> QED
    BY <1>1, <2>1, <2>2
<1>4. CASE ~(stage < Len(StagesOf(Here)))
  <2>1. at' = at + 1 /\ stage' = 1
    BY <1>4 DEF Advance
  <2>2. stage = Len(StagesOf(Here))
    BY <1>1, <1>2, <1>4
  <2> QED
    BY <1>1, <2>1, <2>2
<1> QED
  BY <1>3, <1>4

\* One step per action, the three starts through BeginRun.
LEMMA NextTypeOK == TypeOK /\ [Next]_vars => TypeOK'
<1> SUFFICES ASSUME TypeOK, [Next]_vars PROVE TypeOK'
  OBVIOUS
<1>0. Len(Order) = 11
  BY OrderFacts
<1> USE <1>0, BoundsAssumption DEF TypeOK, machineVars, programVars
<1>1. ASSUME NEW fresh \in BOOLEAN, NEW a \in SUBSET Installers, NEW f \in SUBSET Offered,
             NEW p \in SUBSET (Installers \ {RadiusBase}),
             NEW label \in {"prepare", "services"}, BeginRun(fresh, a, f, p, label)
      PROVE  TypeOK'
  BY <1>1 DEF BeginRun
<1>2. CASE StartFresh
  <2>1. PICK optional \in SUBSET Offered, core \in {{oxAuth}, {oxAuth, oxTrust}} :
          BeginRun(TRUE, optional \cup core, {}, optional \cup core, "prepare")
    BY <1>2 DEF StartFresh
  <2>2. optional \cup core \in SUBSET (Installers \ {RadiusBase})
    BY OfferedAssumption DEF Installers, oxAuth, oxTrust, RadiusBase
  <2> QED
    BY <1>1, <2>1, <2>2
<1>3. CASE StartOnConsole
  <2>1. PICK a \in SUBSET (Offered \ files), f \in SUBSET Offered :
          BeginRun(FALSE, a, f, PickedOnConsole(a, f), "services")
    BY <1>3 DEF StartOnConsole
  <2>2. a \in SUBSET Installers /\ PickedOnConsole(a, f) \in SUBSET (Installers \ {RadiusBase})
    BY OfferedAssumption DEF PickedOnConsole, Installers, Oxd, RadiusBase
  <2> QED
    BY <1>1, <2>1, <2>2
<1>4. CASE StartInWizard
  <2>1. PICK a \in SUBSET (Offered \ files) : BeginRun(FALSE, a, {}, a, "services")
    BY <1>4 DEF StartInWizard
  <2>2. a \in SUBSET (Installers \ {RadiusBase})
    BY OfferedAssumption
  <2> QED
    BY <1>1, <2>1, <2>2
<1>5. CASE CopyOutput \/ InstallBackend \/ ServicesInstalled
  BY <1>5 DEF CopyOutput, InstallBackend, ServicesInstalled
<1>6. CASE SkipInstaller
  BY <1>6 DEF SkipInstaller
<1>7. CASE InstallFiles
  <2>1. AtStage("files") /\ Advance
    BY <1>7 DEF InstallFiles
  <2>2. SeenAs(Here) \in Installers
    BY <2>1, AtStageFacts DEF SeenAs, Installers, Radius
  <2>3. at' \in 1..12 /\ stage' \in 1..4
    BY <2>1, AdvanceFacts
  <2> QED
    BY <1>7, <2>2, <2>3 DEF InstallFiles
<1>8. CASE ImportEntries
  <2>1. AtStage("import") /\ Advance
    BY <1>8 DEF ImportEntries
  <2>2. at' \in 1..12 /\ stage' \in 1..4
    BY <2>1, AdvanceFacts
  <2>3. imported' \in [Installers -> Nat]
    BY <1>8, <2>1, AtStageFacts DEF ImportEntries
  <2> QED
    BY <1>8, <2>2, <2>3 DEF ImportEntries
<1>9. CASE EnableService
  <2>1. AtStage("enable") /\ Advance
    BY <1>9 DEF EnableService
  <2>2. at' \in 1..12 /\ stage' \in 1..4 /\ Here \in Installers
    BY <2>1, AdvanceFacts, AtStageFacts
  <2> QED
    BY <1>9, <2>2 DEF EnableService
<1>14. CASE UpdateOxTrust
  <2>1. AtStage("oxtrust") /\ Advance
    BY <1>14 DEF UpdateOxTrust
  <2>2. at' \in 1..12 /\ stage' \in 1..4 /\ Here \in Installers
    BY <2>1, AdvanceFacts, AtStageFacts
  <2> QED
    BY <1>14, <2>2 DEF UpdateOxTrust
<1>15. CASE UpdateOxAuth
  <2>1. AtStage("oxauth") /\ Advance
    BY <1>15 DEF UpdateOxAuth
  <2>2. at' \in 1..12 /\ stage' \in 1..4 /\ Here \in Installers
    BY <2>1, AdvanceFacts, AtStageFacts
  <2> QED
    BY <1>15, <2>2 DEF UpdateOxAuth
<1>10. ASSUME ProgramEnds, failures' \in 0..MaxFailures PROVE TypeOK'
  <2>1. at' \in 1..(Len(Order) + 1) /\ stage' \in 1..4
    BY <1>10 DEF ProgramEnds
  <2>2. gluu_properties' \in BOOLEAN /\ base_ldif' \in BOOLEAN /\ installed_instance' \in BOOLEAN
    BY <1>10 DEF ProgramEnds
  <2>3. /\ files' \subseteq Installers
        /\ imported' \in [Installers -> Nat]
        /\ enabled' \subseteq Installers
        /\ oxTrustConf' \subseteq Installers /\ oxAuthConf' \subseteq Installers
        /\ runs' \in 0..MaxRuns
    BY <1>10 DEF ProgramEnds
  <2>4. /\ pc' = "off"
        /\ asked' \subseteq Installers
        /\ forced' \subseteq Offered
        /\ picked' \subseteq Installers \ {RadiusBase}
    BY <1>10 DEF ProgramEnds
  <2> QED
    BY <1>10, <2>1, <2>2, <2>3, <2>4
<1>11. CASE PostInstall
  BY <1>10, <1>11 DEF PostInstall
<1>12. CASE Fail
  <2>1. failures' \in 0..MaxFailures
    BY <1>12 DEF Fail
  <2> QED
    BY <1>10, <1>12, <2>1 DEF Fail
<1>13. CASE UNCHANGED vars
  BY <1>13 DEF vars
<1> QED
  BY <1>2, <1>3, <1>4, <1>5, <1>6, <1>7, <1>8, <1>9, <1>10, <1>11, <1>12, <1>13, <1>14,
     <1>15 DEF Next

-----------------------------------------------------------------------------
(* What a step can do to the machine.                                      *)

\* Only the five stages touch the services.
LEMMA StepKinds ==
    ASSUME [Next]_vars
    PROVE  \/ UNCHANGED <<files, imported, enabled, oxTrustConf, oxAuthConf>>
           \/ InstallFiles \/ ImportEntries \/ EnableService \/ UpdateOxTrust \/ UpdateOxAuth
  BY DEF Next, StartFresh, StartOnConsole, StartInWizard, BeginRun, CopyOutput, InstallBackend,
     SkipInstaller, ServicesInstalled, PostInstall, Fail, ProgramEnds, machineVars, vars

\* Nothing is ever taken away.
LEMMA MachineGrows ==
    ASSUME TypeOK, [Next]_vars
    PROVE  /\ files \subseteq files' /\ enabled \subseteq enabled'
           /\ oxTrustConf \subseteq oxTrustConf' /\ oxAuthConf \subseteq oxAuthConf'
           /\ \A s \in Installers : imported[s] > 0 => imported'[s] > 0
<1>1. CASE UNCHANGED <<files, imported, enabled, oxTrustConf, oxAuthConf>>
  BY <1>1
<1>2. CASE InstallFiles
  BY <1>2 DEF InstallFiles
<1>3. CASE ImportEntries
  <2>1. ASSUME NEW s \in Installers, imported[s] > 0 PROVE imported'[s] > 0
    BY <1>3, <2>1 DEF ImportEntries, TypeOK
  <2> QED
    BY <1>3, <2>1 DEF ImportEntries
<1>4. CASE EnableService \/ UpdateOxTrust \/ UpdateOxAuth
  BY <1>4 DEF EnableService, UpdateOxTrust, UpdateOxAuth
<1> QED
  BY <1>1, <1>2, <1>3, <1>4, StepKinds

\* Each stage does what it is for.
LEMMA StageIsDone ==
    ASSUME TypeOK, NEW st, AtStage(st), NEW s, s = Here,
           \/ st = "files" /\ InstallFiles
           \/ st = "import" /\ ImportEntries
           \/ st = "enable" /\ EnableService
           \/ st = "oxtrust" /\ UpdateOxTrust
           \/ st = "oxauth" /\ UpdateOxAuth
    PROVE  StageDone(s, st)'
<1>1. CASE st = "files" /\ InstallFiles
  BY <1>1 DEF InstallFiles, StageDone
<1>2. CASE st = "import" /\ ImportEntries
  <2>1. Here \in Installers
    BY AtStageFacts
  <2> QED
    BY <1>2, <2>1 DEF ImportEntries, StageDone, TypeOK
<1>3. CASE st = "enable" /\ EnableService
  BY <1>3 DEF EnableService, StageDone
<1>4. CASE st = "oxtrust" /\ UpdateOxTrust
  BY <1>4 DEF UpdateOxTrust, StageDone
<1>5. CASE st = "oxauth" /\ UpdateOxAuth
  BY <1>5 DEF UpdateOxAuth, StageDone
<1> QED
  BY <1>1, <1>2, <1>3, <1>4, <1>5

\* A stage that was done stays done.
LEMMA DoneStaysDone ==
    ASSUME TypeOK, [Next]_vars, NEW s \in Installers, NEW st, StageDone(s, st)
    PROVE  StageDone(s, st)'
  BY MachineGrows DEF StageDone

-----------------------------------------------------------------------------
(* Progress.                                                               *)

\* A stage that was done lets Progress advance by one.
LEMMA StageProgress ==
    ASSUME TypeOK, Progress, [Next]_vars, NEW st, AtStage(st), Advance,
           NEW s, s = Here, StageDone(s, st)', UNCHANGED <<pc, programVars>>
    PROVE  Progress'
<1>1. /\ at \in 1..11 /\ s \in Installers /\ Selected(s)
      /\ stage \in 1..Len(StagesOf(s)) /\ StagesOf(s)[stage] = st
  BY AtStageFacts
<1>2. Len(StagesOf(s)) \in 1..4
  BY <1>1, StageFacts
<1>3. \A r : Selected(r)' <=> Selected(r)
  BY DEF Selected, programVars
<1>4. pc' = "services"
  BY DEF AtStage
<1>5. \A k \in 1..Len(StagesOf(s)) : k <= stage => StageDone(s, StagesOf(s)[k])'
  <2> SUFFICES ASSUME NEW k \in 1..Len(StagesOf(s)), k <= stage
               PROVE  StageDone(s, StagesOf(s)[k])'
    OBVIOUS
  <2>1. CASE k = stage
    BY <1>1, <2>1
  <2>2. CASE k # stage
    <3>1. k < stage
      BY <1>1, <1>2, <2>2
    <3>2. StageDone(s, StagesOf(s)[k])
      BY <1>1, <3>1 DEF Progress
    <3> QED
      BY <1>1, <3>2, DoneStaysDone
  <2> QED
    BY <2>1, <2>2
<1>6. ASSUME NEW i \in 1..11, i < at, Selected(Order[i]),
             NEW k \in 1..Len(StagesOf(Order[i]))
      PROVE  StageDone(Order[i], StagesOf(Order[i])[k])'
  <2>1. StageDone(Order[i], StagesOf(Order[i])[k])
    BY <1>6 DEF Progress
  <2> QED
    BY <2>1, OrderFacts, DoneStaysDone
<1>7. CASE at' = at /\ stage' = stage + 1
  <2>1. Here' = s
    BY <1>7 DEF Here
  <2>2. ASSUME NEW k \in 1..Len(StagesOf(s)), k < stage + 1 PROVE k <= stage
    BY <1>1, <1>2, <2>2
  <2>3. \A k \in 1..Len(StagesOf(s)) : k < stage' => StageDone(s, StagesOf(s)[k])'
    BY <1>5, <1>7, <2>2
  <2> QED
    BY <1>1, <1>3, <1>4, <1>6, <1>7, <2>1, <2>3 DEF Progress
<1>8. CASE at' = at + 1 /\ stage' = 1 /\ stage = Len(StagesOf(s))
  <2>1. \A k \in 1..Len(StagesOf(s)) : StageDone(s, StagesOf(s)[k])'
    BY <1>1, <1>2, <1>5, <1>8
  <2>2. ASSUME NEW i \in 1..11, i < at', Selected(Order[i])',
               NEW k \in 1..Len(StagesOf(Order[i]))
        PROVE  StageDone(Order[i], StagesOf(Order[i])[k])'
    <3>1. i < at \/ Order[i] = s
      BY <1>1, <1>8, <2>2 DEF Here
    <3> QED
      BY <1>3, <1>6, <2>1, <2>2, <3>1
  <2>3. ASSUME NEW k \in Nat, k >= 1, k < stage' PROVE FALSE
    BY <1>8, <2>3
  <2> QED
    BY <1>4, <1>8, <2>2, <2>3 DEF Progress
<1> QED
  BY <1>7, <1>8, AdvanceFacts

\* A run that begins, or ends, is at the first stage of the first installer.
LEMMA ProgressAtStart ==
    ASSUME NEW l, pc' = l, l # "post_install", at' = 1, stage' = 1
    PROVE  Progress'
  BY DEF Progress

\* Each step moves Progress by what it did.
LEMMA NextProgress ==
    ASSUME TypeOK, AtStart, Progress, [Next]_vars
    PROVE  Progress'
<1>1. CASE StartFresh \/ StartOnConsole \/ StartInWizard \/ PostInstall \/ Fail
  <2>1. at' = 1 /\ stage' = 1 /\ pc' \in {"off", "prepare", "services"}
    BY <1>1 DEF StartFresh, StartOnConsole, StartInWizard, BeginRun, PostInstall, Fail, ProgramEnds
  <2> QED
    BY <2>1, ProgressAtStart
<1>2. CASE CopyOutput \/ InstallBackend
  <2>1. at' = 1 /\ stage' = 1 /\ pc' \in {"backend", "services"}
    BY <1>2 DEF CopyOutput, InstallBackend, AtStart
  <2> QED
    BY <2>1, ProgressAtStart
<1>3. CASE ServicesInstalled \/ UNCHANGED vars
  <2>1. UNCHANGED <<files, imported, enabled, oxTrustConf, oxAuthConf, picked,
                   installed_instance, at, stage>>
    BY <1>3 DEF ServicesInstalled, machineVars, programVars, vars
  <2>2. pc' = "post_install" => at' = 12
    <3>1. Len(Order) = 11 /\ at \in 1..12
      BY OrderFacts DEF TypeOK
    <3>2. CASE ServicesInstalled
      BY <3>1, <3>2 DEF ServicesInstalled
    <3>3. CASE UNCHANGED vars
      BY <3>3 DEF vars, Progress
    <3> QED
      BY <1>3, <3>2, <3>3
  <2>3. /\ \A r, st : (Selected(r)' <=> Selected(r)) /\ (StageDone(r, st)' <=> StageDone(r, st))
        /\ Here' = Here
    BY <2>1 DEF Selected, StageDone, Here
  <2> QED
    BY <2>1, <2>2, <2>3 DEF Progress, Here, Selected, StageDone
<1>4. CASE SkipInstaller
  <2>1. /\ pc' = "services" /\ ~Selected(Here)
        /\ at' = at + 1 /\ stage' = stage
        /\ UNCHANGED <<files, imported, enabled, oxTrustConf, oxAuthConf, picked,
                      installed_instance>>
    BY <1>4 DEF SkipInstaller, machineVars, programVars
  <2>2. at \in 1..11
    <3>1. at \in 1..12 /\ at <= 11
      BY <1>4, OrderFacts DEF SkipInstaller, TypeOK
    <3> QED
      BY <3>1
  <2>3. stage' = 1
    BY <2>1, <2>2 DEF Progress
  <2>4. \A r, st : (Selected(r)' <=> Selected(r)) /\ (StageDone(r, st) => StageDone(r, st)')
    BY <2>1 DEF Selected, StageDone
  <2>5. ASSUME NEW i \in 1..11, i < at', Selected(Order[i])
        PROVE  i < at
    BY <2>1, <2>2, <2>5 DEF Here
  <2>6. \A i \in 1..11 : i < at' /\ Selected(Order[i])' =>
          \A k \in 1..Len(StagesOf(Order[i])) : StageDone(Order[i], StagesOf(Order[i])[k])'
    BY <2>4, <2>5 DEF Progress
  <2>7. ASSUME NEW k \in Nat, k >= 1, k < stage' PROVE FALSE
    BY <2>3, <2>7
  <2> QED
    BY <2>1, <2>3, <2>6, <2>7 DEF Progress
<1>5. CASE InstallFiles \/ ImportEntries \/ EnableService \/ UpdateOxTrust \/ UpdateOxAuth
  <2>1. PICK st : /\ AtStage(st) /\ Advance /\ UNCHANGED <<pc, programVars>>
                  /\ \/ st = "files" /\ InstallFiles
                     \/ st = "import" /\ ImportEntries
                     \/ st = "enable" /\ EnableService
                     \/ st = "oxtrust" /\ UpdateOxTrust
                     \/ st = "oxauth" /\ UpdateOxAuth
    BY <1>5 DEF InstallFiles, ImportEntries, EnableService, UpdateOxTrust,
       UpdateOxAuth
  <2>2. PICK s : s = Here
    OBVIOUS
  <2>3. StageDone(s, st)'
    BY <2>1, <2>2, StageIsDone
  <2> QED
    BY <2>1, <2>2, <2>3, StageProgress
<1> QED
  BY <1>1, <1>2, <1>3, <1>4, <1>5 DEF Next

-----------------------------------------------------------------------------
(* The other parts of IInv.                                                *)

\* Only install_services moves along Order.
LEMMA NextAtStart ==
    ASSUME AtStart, [Next]_vars
    PROVE  AtStart'
<1>1. CASE StartFresh \/ StartOnConsole \/ StartInWizard \/ PostInstall \/ Fail
  BY <1>1 DEF AtStart, StartFresh, StartOnConsole, StartInWizard, BeginRun, PostInstall, Fail,
     ProgramEnds
<1>2. CASE CopyOutput \/ InstallBackend \/ UNCHANGED vars
  BY <1>2 DEF AtStart, CopyOutput, InstallBackend, vars
<1>3. CASE SkipInstaller \/ InstallFiles \/ ImportEntries \/ EnableService \/ UpdateOxTrust \/ UpdateOxAuth
         \/ ServicesInstalled
  <2>1. pc' \in {"services", "post_install"}
    BY <1>3 DEF SkipInstaller, InstallFiles, ImportEntries, EnableService, UpdateOxTrust, UpdateOxAuth,
       ServicesInstalled,
       AtStage
  <2> QED
    BY <2>1 DEF AtStart
<1> QED
  BY <1>1, <1>2, <1>3 DEF Next

\* The first run touches nothing of a service before its database is there.
LEMMA NextUntouched ==
    ASSUME Untouched, [Next]_vars
    PROVE  Untouched'
<1> USE DEF Untouched, machineVars, programVars
<1>1. CASE StartFresh
  BY <1>1 DEF StartFresh, BeginRun
<1>2. CASE StartOnConsole \/ StartInWizard
  <2>1. gluu_properties' = gluu_properties /\ gluu_properties /\ pc' = "services"
    BY <1>2 DEF StartOnConsole, StartInWizard, BeginRun
  <2> QED
    BY <2>1
<1>3. CASE CopyOutput
  BY <1>3 DEF CopyOutput
<1>4. CASE InstallBackend
  BY <1>4 DEF InstallBackend
<1>5. CASE SkipInstaller \/ InstallFiles \/ ImportEntries \/ EnableService \/ UpdateOxTrust \/ UpdateOxAuth
         \/ ServicesInstalled
  <2>1. /\ pc = "services" /\ pc' \in {"services", "post_install"}
        /\ gluu_properties' = gluu_properties
    BY <1>5 DEF SkipInstaller, InstallFiles, ImportEntries, EnableService, UpdateOxTrust, UpdateOxAuth,
       ServicesInstalled,
       AtStage
  <2> QED
    BY <2>1
<1>6. CASE PostInstall \/ Fail
  <2>1. /\ pc' = "off" /\ installed_instance' = FALSE
        /\ UNCHANGED <<gluu_properties, imported, enabled>>
    BY <1>6 DEF PostInstall, Fail, ProgramEnds
  <2> QED
    BY <2>1
<1>7. CASE UNCHANGED vars
  BY <1>7 DEF vars
<1> QED
  BY <1>1, <1>2, <1>3, <1>4, <1>5, <1>6, <1>7 DEF Next

\* What collect() found is never taken away.
LEMMA NextCoreFound ==
    ASSUME TypeOK, CoreFound, [Next]_vars
    PROVE  CoreFound'
<1>1. Collectable => Collectable'
  <2>1. base_ldif => base_ldif'
    BY DEF Next, StartFresh, StartOnConsole, StartInWizard, BeginRun, CopyOutput, InstallBackend,
       SkipInstaller, InstallFiles, ImportEntries, EnableService, UpdateOxTrust, UpdateOxAuth,
       ServicesInstalled,
       PostInstall,
       Fail, ProgramEnds, machineVars, vars
  <2>2. oxAuth \in Installers /\ oxTrust \in Installers
    BY DEF Installers
  <2> QED
    BY <2>1, <2>2, MachineGrows DEF Collectable
<1>2. CASE StartOnConsole \/ StartInWizard
  BY <1>1, <1>2 DEF StartOnConsole, StartInWizard, CoreFound
<1>3. CASE ~(StartOnConsole \/ StartInWizard)
  <2>1. installed_instance' => installed_instance
    BY <1>3 DEF Next, StartFresh, BeginRun, CopyOutput, InstallBackend,
       SkipInstaller, InstallFiles, ImportEntries, EnableService, UpdateOxTrust, UpdateOxAuth,
       ServicesInstalled,
       PostInstall,
       Fail, ProgramEnds, programVars, vars
  <2> QED
    BY <1>1, <2>1 DEF CoreFound
<1> QED
  BY <1>2, <1>3

\* The entries of the installer at its import stage come after its files.
LEMMA FilesAtImport ==
    ASSUME TypeOK, Progress, AtStage("import"), Here \notin {Radius, RadiusBase}
    PROVE  Here \in files
<1>1. /\ at \in 1..11 /\ Here \in Installers /\ Selected(Here)
      /\ stage \in 1..Len(StagesOf(Here)) /\ StagesOf(Here)[stage] = "import"
  BY AtStageFacts
<1>2. PICK l \in 1..Len(StagesOf(Here)) : l < stage /\ StagesOf(Here)[l] = "files"
  BY <1>1, StageFacts
<1>3. StageDone(Here, "files")
  BY <1>1, <1>2 DEF Progress
<1> QED
  BY <1>3 DEF StageDone, SeenAs

\* An import leaves the files it came after.
LEMMA NextFilesFirst ==
    ASSUME TypeOK, Progress, FilesFirst, [Next]_vars
    PROVE  FilesFirst'
<1>1. CASE ~ImportEntries
  BY <1>1, StepKinds, MachineGrows DEF FilesFirst, InstallFiles, EnableService, UpdateOxTrust,
     UpdateOxAuth
<1>2. CASE ImportEntries
  <2>1. /\ AtStage("import") /\ files' = files
        /\ imported' = [imported EXCEPT ![Here] = @ + 1]
    BY <1>2 DEF ImportEntries
  <2>2. ASSUME NEW s \in Installers \ {Radius, RadiusBase}, imported'[s] > 0
        PROVE  s \in files
    <3>1. CASE s = Here
      BY <2>1, <2>2, <3>1, FilesAtImport
    <3>2. CASE s # Here
      BY <2>1, <2>2, <3>2 DEF FilesFirst, TypeOK
    <3> QED
      BY <3>1, <3>2
  <2> QED
    BY <2>1, <2>2 DEF FilesFirst
<1> QED
  BY <1>1, <1>2

\* A switch comes after the entries.
LEMMA NextEnabledHasEntries ==
    ASSUME TypeOK, Progress, EnabledHasEntries, [Next]_vars
    PROVE  EnabledHasEntries'
<1>1. CASE ~EnableService
  <2>1. enabled' = enabled
    BY <1>1, StepKinds DEF InstallFiles, ImportEntries, UpdateOxTrust,
       UpdateOxAuth
  <2> QED
    BY <2>1, MachineGrows DEF EnabledHasEntries, TypeOK
<1>2. CASE EnableService
  <2>1. AtStage("enable") /\ imported' = imported /\ enabled' = enabled \cup {Here}
    BY <1>2 DEF EnableService
  <2>2. /\ at \in 1..11 /\ Here \in Installers /\ Selected(Here)
        /\ stage \in 1..Len(StagesOf(Here)) /\ StagesOf(Here)[stage] = "enable"
    BY <2>1, AtStageFacts
  <2>3. imported[Here] > 0
    <3>1. PICK l \in 1..Len(StagesOf(Here)) : l < stage /\ StagesOf(Here)[l] = "import"
      BY <2>2, StageFacts
    <3>2. StageDone(Here, "import")
      BY <2>2, <3>1 DEF Progress
    <3> QED
      BY <3>2 DEF StageDone
  <2> QED
    BY <2>1, <2>3 DEF EnabledHasEntries
<1> QED
  BY <1>1, <1>2

\* What oxAuth is told comes before the entries.
LEMMA NextOxAuthPrepared ==
    ASSUME TypeOK, Progress, OxAuthPrepared, [Next]_vars
    PROVE  OxAuthPrepared'
<1>1. CASE ~ImportEntries
  <2>1. imported' = imported
    BY <1>1, StepKinds DEF InstallFiles, EnableService, UpdateOxTrust, UpdateOxAuth
  <2>2. \A s : HasStage(s, "oxauth")' <=> HasStage(s, "oxauth")
    BY DEF HasStage
  <2> QED
    BY <2>1, <2>2, MachineGrows DEF OxAuthPrepared
<1>2. CASE ImportEntries
  <2>1. /\ AtStage("import") /\ oxAuthConf' = oxAuthConf
        /\ imported' = [imported EXCEPT ![Here] = @ + 1]
    BY <1>2 DEF ImportEntries
  <2>2. /\ at \in 1..11 /\ Here \in Installers /\ Selected(Here)
        /\ stage \in 1..Len(StagesOf(Here)) /\ StagesOf(Here)[stage] = "import"
    BY <2>1, AtStageFacts
  <2>3. HasStage(Here, "oxauth") => Here \in oxAuthConf
    <3> SUFFICES ASSUME HasStage(Here, "oxauth") PROVE Here \in oxAuthConf
      OBVIOUS
    <3>1. PICK l \in 1..Len(StagesOf(Here)) : StagesOf(Here)[l] = "oxauth"
      BY <2>2, StageFacts DEF HasStage
    <3>2. l < stage
      BY <2>2, <3>1, StageFacts
    <3>3. StageDone(Here, "oxauth")
      BY <2>2, <3>1, <3>2 DEF Progress
    <3> QED
      BY <3>3 DEF StageDone
  <2>4. ASSUME NEW s \in Installers, HasStage(s, "oxauth"), imported'[s] > 0
        PROVE  s \in oxAuthConf
    <3>1. CASE s = Here
      BY <2>3, <2>4, <3>1
    <3>2. CASE s # Here
      BY <2>1, <2>4, <3>2 DEF OxAuthPrepared, TypeOK
    <3> QED
      BY <3>1, <3>2
  <2> QED
    BY <2>1, <2>4 DEF OxAuthPrepared, HasStage
<1> QED
  BY <1>1, <1>2

-----------------------------------------------------------------------------
(* StillToImport.                                                          *)

\* A run that adds services only picks what installed() does not see, or what an
\* argument names, and of the former nothing was imported.
LEMMA PickedWasNotImported ==
    ASSUME TypeOK, FilesFirst, NEW s \in Installers, s \in picked', s \notin forced' \cup {Radius},
           StartOnConsole \/ StartInWizard
    PROVE  imported[s] = 0
<1>1. s \notin files
  <2>1. CASE StartOnConsole
    <3>1. PICK a \in SUBSET (Offered \ files), f \in SUBSET Offered :
            picked' = PickedOnConsole(a, f) /\ forced' = f
      BY <2>1 DEF StartOnConsole, BeginRun
    <3> QED
      BY <3>1 DEF PickedOnConsole
  <2>2. CASE StartInWizard
    <3>1. PICK a \in SUBSET (Offered \ files) : picked' = a
      BY <2>2 DEF StartInWizard, BeginRun
    <3> QED
      BY <3>1
  <2> QED
    BY <2>1, <2>2
<1>2. s # RadiusBase
  <2>1. TypeOK'
    <3>1. [Next]_vars
      BY DEF Next
    <3> QED
      BY <3>1, NextTypeOK
  <2> QED
    BY <2>1 DEF TypeOK
<1>3. imported[s] \in Nat
  BY DEF TypeOK
<1> QED
  BY <1>1, <1>2, <1>3 DEF FilesFirst

\* A run that begins has imported nothing, and each stage only takes away from
\* what is left.
LEMMA NextStillToImport ==
    ASSUME TypeOK, Untouched, FilesFirst, Progress, StillToImport, [Next]_vars
    PROVE  StillToImport'
<1>1. CASE StartFresh \/ CopyOutput \/ PostInstall \/ Fail \/ ServicesInstalled
  BY <1>1 DEF StartFresh, BeginRun, CopyOutput, PostInstall, Fail, ProgramEnds,
     ServicesInstalled, StillToImport
<1>2. CASE StartOnConsole \/ StartInWizard
  <2>1. installed_instance' = TRUE /\ imported' = imported
    BY <1>2 DEF StartOnConsole, StartInWizard, BeginRun, machineVars
  <2>2. ASSUME NEW i \in 1..11, Selected(Order[i])', Order[i] \notin forced' \cup {Radius}
        PROVE  imported'[Order[i]] = 0
    <3>1. Order[i] \in picked' /\ Order[i] \in Installers
      BY <2>1, <2>2, OrderFacts DEF Selected
    <3> QED
      BY <1>2, <2>1, <2>2, <3>1, PickedWasNotImported
  <2> QED
    BY <2>2 DEF StillToImport
<1>3. CASE InstallBackend
  <2>1. imported' = imported /\ pc = "backend"
    BY <1>3 DEF InstallBackend
  <2> QED
    BY <2>1, OrderFacts DEF Untouched, StillToImport
<1>4. CASE UNCHANGED vars
  BY <1>4 DEF vars, programVars, machineVars, StillToImport, Selected, Here
<1>5. CASE SkipInstaller
  <2>1. /\ pc = "services" /\ at' = at + 1 /\ at \in 1..12
        /\ UNCHANGED <<imported, picked, installed_instance, forced>>
    BY <1>5, OrderFacts DEF SkipInstaller, machineVars, programVars, TypeOK
  <2>2. ASSUME NEW i \in 1..11, i > at' \/ i = at' PROVE i > at
    BY <2>1, <2>2
  <2> QED
    BY <2>1, <2>2 DEF StillToImport, Selected
<1>6. CASE InstallFiles \/ ImportEntries \/ EnableService \/ UpdateOxTrust \/ UpdateOxAuth
  <2>1. PICK st : /\ AtStage(st) /\ Advance
                  /\ UNCHANGED <<pc, picked, installed_instance, forced>>
                  /\ \/ st # "import" /\ imported' = imported
                     \/ st = "import" /\ imported' = [imported EXCEPT ![Here] = @ + 1]
    BY <1>6 DEF InstallFiles, ImportEntries, EnableService, UpdateOxTrust,
       UpdateOxAuth, programVars
  <2>2. PICK s : s = Here
    OBVIOUS
  <2>3. /\ at \in 1..11 /\ s \in Installers /\ pc = "services"
        /\ stage \in 1..Len(StagesOf(s)) /\ StagesOf(s)[stage] = st
    BY <2>1, <2>2, AtStageFacts DEF AtStage
  <2>4. \/ at' = at /\ stage' = stage + 1
        \/ at' = at + 1 /\ stage' = 1
    BY <2>1, AdvanceFacts
  <2>5. Len(StagesOf(s)) \in 1..4
    BY <2>3, StageFacts
  <2> SUFFICES ASSUME NEW i \in 1..11,
                      Selected(Order[i])', Order[i] \notin forced' \cup {Radius},
                      \/ i > at'
                      \/ i = at' /\ (\A k \in 1..Len(StagesOf(Here)) :
                                       k < stage => StagesOf(Here)[k] # "import")'
               PROVE  imported'[Order[i]] = 0
    BY DEF StillToImport
  <2>6. Selected(Order[i]) /\ Order[i] \notin forced \cup {Radius}
    BY <2>1 DEF Selected
  <2>7. CASE i > at
    <3>1. imported[Order[i]] = 0
      BY <2>3, <2>6, <2>7 DEF StillToImport
    <3>2. Order[i] # s
      BY <2>2, <2>3, <2>7, OrderFacts DEF Here
    <3> QED
      BY <2>1, <2>2, <3>1, <3>2, OrderFacts DEF TypeOK
  <2>8. CASE ~(i > at)
    <3>1. at' = at /\ stage' = stage + 1 /\ i = at
      BY <2>3, <2>4, <2>8
    <3>2. Here' = s
      BY <2>2, <3>1 DEF Here
    <3>3. \A k \in 1..Len(StagesOf(s)) : k < stage + 1 => StagesOf(s)[k] # "import"
      BY <3>1, <3>2
    <3>4. stage < stage + 1 /\ \A k \in 1..Len(StagesOf(s)) : k < stage => k < stage + 1
      BY <2>3, <2>5
    <3>5. st # "import"
      BY <2>3, <3>3, <3>4
    <3>6. imported[Order[i]] = 0
      BY <2>2, <2>3, <2>6, <3>1, <3>3, <3>4 DEF StillToImport
    <3> QED
      BY <2>1, <3>5, <3>6
  <2> QED
    BY <2>7, <2>8
<1> QED
  BY <1>1, <1>2, <1>3, <1>4, <1>5, <1>6 DEF Next

-----------------------------------------------------------------------------
(* The theorems.                                                           *)

\* IInv is inductive.
LEMMA NextIInv == IInv /\ [Next]_vars => IInv'
  BY NextTypeOK, NextUntouched, NextCoreFound, NextFilesFirst, NextEnabledHasEntries,
     NextOxAuthPrepared,
     NextProgress, NextStillToImport, NextAtStart DEF IInv

\* IInv holds in every reachable state.
THEOREM Invariance == Spec => []IInv
  BY InitIInv, NextIInv, PTL DEF Spec

\* Every variable keeps the values the code gives it.
THEOREM TypeCorrect == Spec => []TypeOK
<1>1. IInv => TypeOK
  BY DEF IInv
<1> QED
  BY <1>1, Invariance, PTL

\* Whatever fails, a service that was switched on in the database by its
\* update_backend has its entries there.
THEOREM EnabledServicesHaveEntries == Spec => []EnabledHasEntries
<1>1. IInv => EnabledHasEntries
  BY DEF IInv
<1> QED
  BY <1>1, Invariance, PTL

\* Whatever fails, the entries of Casa and of the base of Radius are only there
\* with what install() has added to oxAuth for them.
THEOREM OxAuthIsPrepared == Spec => []OxAuthPrepared
<1>1. IInv => OxAuthPrepared
  BY DEF IInv
<1> QED
  BY <1>1, Invariance, PTL

\* install_services never comes to an update_backend that reads the entry of
\* oxTrust before that entry is there, when oxTrust is installed at all.
THEOREM OxTrustComesFirst == Spec => []OxTrustReady
<1>1. IInv => OxTrustReady
  <2> SUFFICES ASSUME IInv, AtStage("oxtrust"),
                      oxTrust \in picked \/ installed_instance
               PROVE  imported[oxTrust] > 0
    BY DEF OxTrustReady
  <2>1. CASE installed_instance
    BY <2>1 DEF IInv, CoreFound, Collectable
  <2>2. CASE oxTrust \in picked
    <3>1. /\ at \in 1..11 /\ Here \in Installers
          /\ stage \in 1..Len(StagesOf(Here)) /\ StagesOf(Here)[stage] = "oxtrust"
      BY AtStageFacts DEF IInv
    <3>2. Here \in {"scim", "idp", Passport}
      BY <3>1, StageFacts
    <3>7. at > 3
      BY <3>1, <3>2, OrderFacts DEF Here
    <3>3. Order[3] = oxTrust /\ StagesOf(oxTrust) = <<"files", "import">>
      BY OrderFacts DEF StagesOf, OxtrustStages, oxAuth, oxTrust, Oxd, Casa, Passport, RadiusBase, Radius
    <3>4. Selected(Order[3])
      BY <2>2, <3>3 DEF Selected
    <3>5. \A k \in 1..Len(StagesOf(Order[3])) : StageDone(Order[3], StagesOf(Order[3])[k])
      BY <3>4, <3>7 DEF IInv, Progress
    <3>6. StageDone(oxTrust, "import")
      BY <3>3, <3>5
    <3> QED
      BY <3>6 DEF StageDone
  <2> QED
    BY <2>1, <2>2
<1> QED
  BY <1>1, Invariance, PTL

\* When install_services returns, the files, the entries and the switch of
\* everything that was picked are there.
THEOREM PickedAreComplete == Spec => []PickedComplete
<1>1. IInv => PickedComplete
  <2> SUFFICES ASSUME IInv, pc = "post_install", NEW s \in picked
               PROVE  Complete(s)
    BY DEF PickedComplete
  <2>1. s \in Installers \ {RadiusBase} /\ SeenAs(s) = s
    BY DEF IInv, TypeOK, SeenAs
  <2>2. PICK i \in 1..11 : Order[i] = s
    BY <2>1, OrderFacts
  <2>3. i < at
    BY DEF IInv, Progress
  <2>4. \A k \in 1..Len(StagesOf(s)) : StageDone(s, StagesOf(s)[k])
    BY <2>2, <2>3 DEF IInv, Progress, Selected
  <2>5. \A st : HasStage(s, st) => StageDone(s, st)
    BY <2>1, <2>4, StageFacts DEF HasStage
  <2>6. HasStage(s, "files")
    BY <2>1, StageFacts DEF HasStage
  <2>7. s \in files
    BY <2>1, <2>5, <2>6 DEF StageDone
  <2> QED
    BY <2>5, <2>7 DEF StageDone, Complete
<1> QED
  BY <1>1, Invariance, PTL

\* However runs fail and are repeated, the entries of a service are imported
\* again only when an --install- argument names it.
THEOREM NoSecondImport == Spec => ImportedAgainOnlyIfForced
<1> DEFINE A == \A s \in Installers \ {Radius} :
                  imported[s] > 0 /\ imported'[s] # imported[s] => s \in forced
<1>1. ASSUME IInv, [Next]_vars PROVE [A]_vars
  <2> SUFFICES ASSUME NEW s \in Installers \ {Radius}, imported'[s] # imported[s],
                      s \notin forced
               PROVE  imported[s] = 0
    BY <1>1 DEF IInv, TypeOK
  <2>1. ImportEntries
    BY <1>1, StepKinds DEF InstallFiles, EnableService, UpdateOxTrust,
     UpdateOxAuth
  <2>2. s = Here /\ AtStage("import")
    BY <2>1, <1>1 DEF ImportEntries, IInv, TypeOK
  <2>3. /\ at \in 1..11 /\ Selected(s) /\ pc = "services"
        /\ stage \in 1..Len(StagesOf(s)) /\ StagesOf(s)[stage] = "import"
    BY <1>1, <2>2, AtStageFacts DEF IInv, AtStage
  <2>4. Len(StagesOf(s)) \in 1..4
    BY StageFacts
  <2>5. ASSUME NEW k \in 1..Len(StagesOf(s)), k < stage PROVE StagesOf(s)[k] # "import"
    <3>1. k # stage
      BY <2>3, <2>4, <2>5
    <3> QED
      BY <2>3, <3>1, StageFacts
  <2>6. s = Order[at]
    BY <2>2 DEF Here
  <2> QED
    BY <1>1, <2>2, <2>3, <2>5, <2>6 DEF IInv, StillToImport
<1>2. IInv /\ [Next]_vars => [A]_vars
  BY <1>1
<1> QED
  BY <1>2, Invariance, PTL DEF Spec, ImportedAgainOnlyIfForced
=============================================================================
